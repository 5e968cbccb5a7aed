--------------------------- MODULE ListRefinement ---------------------------
(***************************************************************************)
(* DoubleLinkedList implements TaskSequence: a call takes effect in the step *)
(* in which it returns, except dll_clean_list, whose list counts as empty    *)
(* from the call on.                                                        *)
(***************************************************************************)
EXTENDS DoubleLinkedList

\* The nodes from head on, by following next.
NodesInOrder == CHOOSE s \in [1..Length -> Linked] : Chain(s)

IdsOfList == IF call = "clean" THEN << >> ELSE [p \in 1..Length |-> id[NodesInOrder[p]]]

PositionOf(n) ==
    IF n \in Linked THEN CHOOSE p \in 1..Length : NodesInOrder[p] = n ELSE 0

Returned ==
    IF call = "clean"
    THEN [op |-> "clean", ok |-> TRUE, at |-> 0]
    ELSE [op |-> result.op, ok |-> result.ok, at |-> PositionOf(result.found)]

Sequence == INSTANCE TaskSequence WITH seq <- IdsOfList, returned <- Returned

\* To its callers the list is a sequence of tasks: insertion appends, removal
\* and search take the first task with the id, and each reports what it did
\* (double_linked_list.c).
ImplementsSequence == Sequence!Spec
=============================================================================
