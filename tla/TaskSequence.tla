---------------------------- MODULE TaskSequence ----------------------------
(***************************************************************************)
(* What double_linked_list.h promises: a sequence of tasks, known by their  *)
(* ids, on which a function call does what it says in a single step.        *)
(***************************************************************************)
EXTENDS Integers, Sequences

CONSTANT Id

VARIABLES seq,      \* the ids in the list
          returned  \* the function called last, what it returned, and which
                    \* position it found

vars == <<seq, returned>>

Result(op, ok, at) == [op |-> op, ok |-> ok, at |-> at]

Init == seq = << >> /\ returned = Result("none", FALSE, 0)

IsFirst(i, p) == seq[p] = i /\ \A q \in 1..(p - 1) : seq[q] # i

Without(p) == [q \in 1..(Len(seq) - 1) |-> seq[IF q < p THEN q ELSE q + 1]]

\* dll_insert_node appends, or fails and changes nothing.
InsertNode(i) ==
    \/ seq' = Append(seq, i) /\ returned' = Result("insert", TRUE, 0)
    \/ seq' = seq /\ returned' = Result("insert", FALSE, 0)

\* dll_remove_node removes the first task with the id.
RemoveNode(i) ==
    \E p \in DOMAIN seq :
       /\ IsFirst(i, p)
       /\ seq' = Without(p)
       /\ returned' = Result("remove", TRUE, 0)

\* dll_find_node finds the first task with the id.
FindNode(i) ==
    \E p \in DOMAIN seq :
       /\ IsFirst(i, p)
       /\ seq' = seq
       /\ returned' = Result("find", TRUE, p)

\* Either of them fails if no task has the id.
NotFound(i) ==
    /\ \A p \in DOMAIN seq : seq[p] # i
    /\ seq' = seq
    /\ \E op \in {"remove", "find"} : returned' = Result(op, FALSE, 0)

CleanList == seq' = << >> /\ returned' = Result("clean", TRUE, 0)

Next ==
    \/ CleanList
    \/ \E i \in Id : InsertNode(i) \/ RemoveNode(i) \/ FindNode(i) \/ NotFound(i)

Spec == Init /\ [][Next]_vars
=============================================================================
