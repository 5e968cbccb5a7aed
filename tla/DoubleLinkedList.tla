-------------------------- MODULE DoubleLinkedList --------------------------
(***************************************************************************)
(* double_linked_list.c on a heap of nodes: each function walks the list    *)
(* with a cursor, one node per step.  The calls come one after the other,   *)
(* as in the program, where only one thread changes the list.               *)
(*                                                                         *)
(* A node and the task it owns are allocated by their creator and freed     *)
(* together (double_linked_list.c:68-70, 83-85), so both are one here.      *)
(***************************************************************************)
EXTENDS Integers, FiniteSets

CONSTANTS Node,     \* the addresses malloc may return
          Id,       \* task ids
          NULL,
          Indeterminate \* what malloc and free leave in memory

ASSUME NodeAssumption == IsFiniteSet(Node) /\ NULL \notin Node
ASSUME IndeterminateAssumption == Indeterminate \notin Node \cup {NULL}

VARIABLES
    allocated,      \* the nodes malloc'ed and not freed
    head,           \* the caller's head pointer
    next, prev, id, \* struct node
    call,           \* the function being executed, or "none"
    key,            \* its argument id
    fresh,          \* new_node of dll_insert_node
    current,        \* the cursor
    result          \* what the last call returned, with *found_node

vars == <<allocated, head, next, prev, id, call, key, fresh, current, result>>

Pointer == Node \cup {NULL}

NoResult == [op |-> "none", ok |-> FALSE, found |-> NULL]

Init ==
    /\ allocated = {}
    /\ head = NULL
    /\ next = [n \in Node |-> Indeterminate]
    /\ prev = [n \in Node |-> Indeterminate]
    /\ id \in [Node -> Id]
    /\ call = "none"
    /\ key \in Id
    /\ fresh = NULL
    /\ current = NULL
    /\ result = NoResult

Return(ok, found) ==
    /\ call' = "none"
    /\ fresh' = NULL
    /\ current' = NULL
    /\ result' = [op |-> call, ok |-> ok, found |-> found]

\* The cursor moves on in any of the loops.
Walk ==
    /\ current' = next[current]
    /\ UNCHANGED <<allocated, head, next, prev, id, call, key, fresh, result>>

-----------------------------------------------------------------------------
\* dll_insert_node.

\* malloc succeeds and the fields are set.
InsertCall(i) ==
    /\ call = "none"
    /\ \E n \in Node \ allocated :
          /\ allocated' = allocated \cup {n}
          /\ id' = [id EXCEPT ![n] = i]
          /\ fresh' = n
    /\ call' = "insert"
    /\ key' = i
    /\ current' = head
    /\ UNCHANGED <<head, next, prev, result>>

InsertOutOfMemory(i) ==
    /\ call = "none"
    /\ key' = i
    /\ result' = [op |-> "insert", ok |-> FALSE, found |-> NULL]
    /\ UNCHANGED <<allocated, head, next, prev, id, call, fresh, current>>

\* The first element of the list.
InsertFirst ==
    /\ call = "insert"
    /\ current = NULL
    /\ head' = fresh
    /\ next' = [next EXCEPT ![fresh] = NULL]
    /\ prev' = [prev EXCEPT ![fresh] = NULL]
    /\ Return(TRUE, NULL)
    /\ UNCHANGED <<allocated, id, key>>

\* Wrong: the end of the list leads back to its beginning.
ClosesRing == head

Terminator == NULL

InsertWalk == call = "insert" /\ current \in Node /\ next[current] # NULL /\ Walk

\* The end of the list.
InsertLast ==
    /\ call = "insert"
    /\ current \in Node
    /\ next[current] = NULL
    /\ next' = [next EXCEPT ![current] = fresh, ![fresh] = Terminator]
    /\ prev' = [prev EXCEPT ![fresh] = current]
    /\ Return(TRUE, NULL)
    /\ UNCHANGED <<allocated, head, id, key>>

-----------------------------------------------------------------------------
\* dll_remove_node and dll_find_node walk to the first node with the id.

Search(op) ==
    /\ call = "none"
    /\ call' = op
    /\ key' \in Id
    /\ current' = head
    /\ UNCHANGED <<allocated, head, next, prev, id, fresh, result>>

\* Wrong: the search walks past the task with the id.
SearchesPast == call \in {"remove", "find"} /\ current \in Node /\ Walk

SearchWalk ==
    /\ call \in {"remove", "find"}
    /\ current \in Node
    /\ id[current] # key
    /\ Walk

NotFound ==
    /\ call \in {"remove", "find"}
    /\ current = NULL
    /\ Return(FALSE, NULL)
    /\ UNCHANGED <<allocated, head, next, prev, id, key>>

FindNode ==
    /\ call = "find"
    /\ current \in Node
    /\ id[current] = key
    /\ Return(TRUE, current)
    /\ UNCHANGED <<allocated, head, next, prev, id, key>>

\* Wrong: the successor keeps pointing back to the removed node.
StalePrev == prev

PrevWithout ==
    IF next[current] # NULL
    THEN [prev EXCEPT ![next[current]] = prev[current]]
    ELSE prev

HeadWithout == IF prev[current] # NULL THEN head ELSE next[current]

NextWithout ==
    IF prev[current] # NULL
    THEN [next EXCEPT ![prev[current]] = next[current]]
    ELSE next

\* Unlinking and freeing the node.
RemoveNode ==
    /\ call = "remove"
    /\ current \in Node
    /\ id[current] = key
    /\ head' = HeadWithout
    /\ next' = [NextWithout EXCEPT ![current] = Indeterminate]
    /\ prev' = [PrevWithout EXCEPT ![current] = Indeterminate]
    /\ allocated' = allocated \ {current}
    /\ Return(TRUE, NULL)
    /\ UNCHANGED <<id, key>>

-----------------------------------------------------------------------------
\* dll_clean_list.

CleanCall ==
    /\ call = "none"
    /\ call' = "clean"
    /\ current' = head
    /\ UNCHANGED <<allocated, head, next, prev, id, key, fresh, result>>

\* The successor is read before the node is freed.
CleanNode ==
    /\ call = "clean"
    /\ current \in Node
    /\ allocated' = allocated \ {current}
    /\ next' = [next EXCEPT ![current] = Indeterminate]
    /\ prev' = [prev EXCEPT ![current] = Indeterminate]
    /\ current' = next[current]
    /\ UNCHANGED <<head, id, call, key, fresh, result>>

CleanEnd ==
    /\ call = "clean"
    /\ current = NULL
    /\ head' = NULL
    /\ Return(TRUE, NULL)
    /\ UNCHANGED <<allocated, next, prev, id, key>>

-----------------------------------------------------------------------------
Call ==
    \/ \E i \in Id : InsertCall(i) \/ InsertOutOfMemory(i)
    \/ Search("remove") \/ Search("find") \/ CleanCall

Step ==
    \/ InsertFirst \/ InsertWalk \/ InsertLast
    \/ SearchWalk \/ NotFound \/ FindNode \/ RemoveNode
    \/ CleanNode \/ CleanEnd

Next == Call \/ Step

\* A thread inside a function goes on with it; nobody has to call one.
Spec == Init /\ [][Next]_vars

FairSpec == Spec /\ WF_vars(Step)

-----------------------------------------------------------------------------
TypeOK ==
    /\ allocated \subseteq Node
    /\ head \in Pointer
    /\ next \in [Node -> Pointer \cup {Indeterminate}]
    /\ prev \in [Node -> Pointer \cup {Indeterminate}]
    /\ id \in [Node -> Id]
    /\ call \in {"none", "insert", "remove", "find", "clean"}
    /\ key \in Id
    /\ fresh \in Pointer
    /\ current \in Pointer

\* What is left of the list while it is being freed.
Root == IF call = "clean" THEN current ELSE head

\* A node waiting to be linked is not yet in the list.
Linked == allocated \ {fresh}

Length == Cardinality(Linked)

\* The list consists of the nodes of s, in that order, and ends after them.
Chain(s) ==
    /\ Linked = {s[i] : i \in 1..Length}
    /\ \A i, j \in 1..Length : s[i] = s[j] => i = j
    /\ Root = IF Length = 0 THEN NULL ELSE s[1]
    /\ \A i \in 1..Length : next[s[i]] = IF i < Length THEN s[i + 1] ELSE NULL

\* Following prev leads back along the same nodes.
ChainBack(s) ==
    \A i \in 1..Length : prev[s[i]] = IF i > 1 THEN s[i - 1] ELSE NULL

\* What the function being executed relies on.
CursorValid ==
    /\ current \in Linked \cup {NULL}
    /\ call = "insert" => fresh \in allocated /\ (current = NULL => head = NULL)
    /\ call # "insert" => fresh = NULL

\* In every step of every call the nodes that are allocated are exactly those
\* of the list, each linked once and in both directions, and the cursor is one
\* of them: nothing leaks, no pointer to a freed node is followed, no walk goes
\* round in circles (double_linked_list.c).
WellLinked ==
    /\ CursorValid
    /\ \E s \in [1..Length -> Linked] :
          Chain(s) /\ (call # "clean" => ChainBack(s))

\* A function that has been called returns: no list it is given makes its loop
\* endless.
CallReturns == call # "none" ~> call = "none"
=============================================================================
