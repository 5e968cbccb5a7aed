----------------------- MODULE DoubleLinkedList_proofs -----------------------
(***************************************************************************)
(* WellLinked holds for any heap and any sequence of calls.  The invariant  *)
(* is inductive together with TypeOK; each function that changes the list   *)
(* gives the sequence of nodes that witnesses it afterwards.  That sequence *)
(* is unique, and its ids are the sequence that the list implements.        *)
(***************************************************************************)
EXTENDS ListRefinement, SequenceTheorems, FiniteSetTheorems, NaturalsInduction, TLAPS

Inv == TypeOK /\ WellLinked

\* The length of a list is a number, and a list of length 0 is empty.
LEMMA LengthIsNatural ==
    ASSUME TypeOK
    PROVE  IsFiniteSet(Linked) /\ Length \in Nat
  BY NodeAssumption, FS_Subset, FS_CardinalityType DEF TypeOK, Linked, Length

\* The node after a node of the list is of the list too, or there is none, and
\* likewise the node before.
LEMMA NeighboursAreLinked ==
    ASSUME Inv, current \in Node
    PROVE  /\ next[current] \in Linked \cup {NULL}
           /\ call # "clean" => prev[current] \in Linked \cup {NULL}
  <1>1. PICK s \in [1..Length -> Linked] : Chain(s) /\ (call # "clean" => ChainBack(s))
    BY DEF Inv, WellLinked
  <1>2. Length \in Nat
    BY LengthIsNatural DEF Inv
  <1>3. PICK i \in 1..Length : current = s[i]
    BY <1>1, NodeAssumption DEF Inv, WellLinked, CursorValid, Chain
  <1>4. i < Length => i + 1 \in 1..Length
    BY <1>2
  <1>5. i > 1 => i - 1 \in 1..Length
    BY <1>2
  <1> QED
    BY <1>1, <1>3, <1>4, <1>5 DEF Chain, ChainBack

\* A step that leaves the nodes and pointers of the list as they are keeps it
\* linked if it keeps the cursor valid.
LEMMA SameList ==
    ASSUME WellLinked, CursorValid',
           Linked' = Linked, Root' = Root, next' = next, prev' = prev,
           call' # "clean" => call # "clean"
    PROVE  WellLinked'
  <1>1. PICK s \in [1..Length -> Linked] : Chain(s) /\ (call # "clean" => ChainBack(s))
    BY DEF WellLinked
  <1>2. Length' = Length
    BY DEF Length
  <1>3. Chain(s)'
    BY <1>1, <1>2 DEF Chain
  <1>4. call' # "clean" => ChainBack(s)'
    BY <1>1, <1>2 DEF ChainBack
  <1> QED
    BY <1>2, <1>3, <1>4 DEF WellLinked

\* Before the first call there is no node.
LEMMA InvInit == Init => Inv
  <1> SUFFICES ASSUME Init PROVE Inv
    OBVIOUS
  <1>1. TypeOK
    BY DEF Init, TypeOK, Pointer
  <1>2. Linked = {} /\ Length = 0
    BY FS_EmptySet DEF Init, Linked, Length
  <1>3. CursorValid
    BY DEF Init, CursorValid
  <1> DEFINE s == [i \in 1..0 |-> NULL]
  <1>4. s \in [1..Length -> Linked]
    BY <1>2
  <1>5. Chain(s) /\ ChainBack(s)
    <2>1. Linked = {s[i] : i \in 1..Length}
      BY <1>2
    <2>2. Root = NULL
      BY DEF Init, Root
    <2> QED
      BY <1>2, <2>1, <2>2 DEF Chain, ChainBack
  <1> QED
    BY <1>1, <1>3, <1>4, <1>5 DEF Inv, WellLinked

-----------------------------------------------------------------------------
\* Linking the first node.
LEMMA FirstNodeIsTheList ==
    ASSUME Inv, InsertFirst, NEW t, t = [i \in 1..1 |-> fresh]
    PROVE  /\ Length = 0 /\ Length' = 1
           /\ t \in [1..Length' -> Linked'] /\ Chain(t)' /\ ChainBack(t)'
  <1>1. PICK s \in [1..Length -> Linked] : Chain(s)
    BY DEF Inv, WellLinked
  <1>2. Length \in Nat
    BY LengthIsNatural DEF Inv
  <1>3. head = NULL /\ Root = NULL /\ fresh \in allocated /\ fresh # NULL
    BY NodeAssumption DEF Inv, WellLinked, CursorValid, InsertFirst, Root, TypeOK
  <1>4. Length = 0
    <2>1. CASE Length # 0
      <3>1. 1 \in 1..Length
        BY <1>2, <2>1
      <3>2. s[1] \in Node
        BY <1>1, <3>1 DEF Inv, TypeOK, Linked
      <3> QED
        BY <1>1, <1>3, <2>1, <3>2, NodeAssumption DEF Chain
    <2> QED
      BY <2>1
  <1>5. Linked = {}
    BY <1>1, <1>4 DEF Chain
  <1>6. Linked' = {fresh} /\ Length' = 1
    <2>1. Linked' = {fresh}
      BY <1>3, <1>5, NodeAssumption DEF Linked, InsertFirst, Return, Inv, TypeOK
    <2> QED
      BY <2>1, FS_Singleton DEF Length
  <1>7. t \in [1..Length' -> Linked']
    BY <1>6
  <1>8. Chain(t)'
    <2>1. Linked' = {t[i] : i \in 1..Length'}
      BY <1>6
    <2>2. Root' = fresh
      BY DEF Root, InsertFirst, Return
    <2>3. next'[fresh] = NULL
      BY <1>3 DEF InsertFirst, Inv, TypeOK
    <2> QED
      BY <1>6, <2>1, <2>2, <2>3 DEF Chain
  <1>9. ChainBack(t)'
    <2>1. prev'[fresh] = NULL
      BY <1>3 DEF InsertFirst, Inv, TypeOK
    <2> QED
      BY <1>6, <2>1 DEF ChainBack
  <1> QED
    BY <1>4, <1>6, <1>7, <1>8, <1>9

LEMMA InsertFirstKeepsLinks ==
    ASSUME Inv, InsertFirst
    PROVE  WellLinked'
  <1>1. PICK t : t = [i \in 1..1 |-> fresh]
    OBVIOUS
  <1>2. CursorValid'
    BY DEF CursorValid, InsertFirst, Return
  <1> QED
    BY <1>1, <1>2, FirstNodeIsTheList DEF WellLinked

\* Linking a node behind the last one.
LEMMA LastNodeIsAppended ==
    ASSUME Inv, InsertLast,
           NEW s \in [1..Length -> Linked], Chain(s), ChainBack(s),
           NEW t, t = [i \in 1..(Length + 1) |-> IF i <= Length THEN s[i] ELSE fresh]
    PROVE  /\ Length' = Length + 1
           /\ t \in [1..Length' -> Linked'] /\ Chain(t)' /\ ChainBack(t)'
  <1>2. Length \in Nat /\ IsFiniteSet(Linked)
    BY LengthIsNatural DEF Inv
  <1>3. /\ current \in Linked /\ current # fresh
        /\ fresh \in allocated /\ fresh \in Node /\ fresh \notin Linked
    BY NodeAssumption DEF Inv, WellLinked, CursorValid, InsertLast, TypeOK, Linked
  <1>4. \A i \in 1..Length : s[i] \in Linked /\ s[i] \in Node /\ s[i] # fresh
    BY <1>3 DEF Inv, TypeOK, Linked
  <1>5. Length > 0 /\ s[Length] = current
    <2>1. PICK i \in 1..Length : current = s[i]
      BY <1>3 DEF Chain
    <2>2. next[s[i]] = NULL
      BY <2>1 DEF InsertLast
    <2>3. CASE i < Length
      <3>1. i + 1 \in 1..Length /\ next[s[i]] = s[i + 1]
        BY <1>2, <2>3 DEF Chain
      <3> QED
        BY <1>4, <2>2, <3>1, NodeAssumption
    <2> QED
      BY <1>2, <2>1, <2>3
  <1>6. Linked' = Linked \cup {fresh} /\ Length' = Length + 1
    <2>1. Linked' = Linked \cup {fresh}
      BY <1>3, NodeAssumption DEF Linked, InsertLast, Return, Inv, TypeOK
    <2> QED
      BY <1>2, <1>3, <2>1, FS_AddElement DEF Length
  <1>7. /\ next' = [next EXCEPT ![current] = fresh, ![fresh] = NULL]
        /\ prev' = [prev EXCEPT ![fresh] = current]
        /\ next \in [Node -> Pointer \cup {Indeterminate}]
        /\ prev \in [Node -> Pointer \cup {Indeterminate}]
    BY DEF InsertLast, Terminator, Inv, TypeOK
  <1>8. \A i \in 1..Length : i \in 1..(Length + 1) /\ t[i] = s[i]
    BY <1>2
  <1>9. Length + 1 \in 1..(Length + 1) /\ t[Length + 1] = fresh
    BY <1>2
  <1>10. \A i \in 1..(Length + 1) : i \in 1..Length \/ i = Length + 1
    BY <1>2
  <1>11. t \in [1..Length' -> Linked']
    BY <1>4, <1>6
  <1>12. Chain(t)'
    <2>1. Linked' = {t[i] : i \in 1..Length'}
      <3>1. \A n \in Linked' : \E i \in 1..Length' : n = t[i]
        BY <1>6, <1>8, <1>9 DEF Chain
      <3>2. \A i \in 1..Length' : t[i] \in Linked'
        BY <1>11
      <3> QED
        BY <3>1, <3>2
    <2>2. \A i, j \in 1..Length' : t[i] = t[j] => i = j
      BY <1>4, <1>6, <1>8, <1>9, <1>10 DEF Chain
    <2>3. Root' = t[1]
      <3>1. Root' = Root
        BY DEF Root, InsertLast, Return
      <3>2. 1 \in 1..Length /\ Root = s[1]
        BY <1>2, <1>5 DEF Chain
      <3> QED
        BY <1>8, <3>1, <3>2
    <2>4. \A i \in 1..Length' : next'[t[i]] = IF i < Length' THEN t[i + 1] ELSE NULL
      <3> SUFFICES ASSUME NEW i \in 1..Length'
                   PROVE  next'[t[i]] = IF i < Length' THEN t[i + 1] ELSE NULL
        OBVIOUS
      <3>1. CASE i = Length + 1
        BY <1>2, <1>3, <1>6, <1>7, <1>9, <3>1
      <3>2. CASE i = Length
        <4>1. t[i] = current /\ t[i + 1] = fresh
          BY <1>2, <1>5, <1>8, <1>9, <3>2
        <4> QED
          BY <1>2, <1>3, <1>4, <1>6, <1>7, <3>2, <4>1 DEF Inv, TypeOK, Linked
      <3>3. CASE i < Length
        <4>1. i \in 1..Length /\ i + 1 \in 1..Length /\ Length \in 1..Length
          BY <1>2, <1>6, <3>3
        <4>2. t[i] = s[i] /\ t[i + 1] = s[i + 1]
          BY <1>8, <4>1
        <4>3. s[i] # current
          BY <1>2, <1>5, <3>3, <4>1 DEF Chain
        <4>4. next'[s[i]] = next[s[i]]
          BY <1>4, <1>7, <4>1, <4>3
        <4> QED
          BY <1>2, <1>6, <3>3, <4>1, <4>2, <4>4 DEF Chain
      <3> QED
        BY <1>2, <1>6, <3>1, <3>2, <3>3
    <2>5. Root' = IF Length' = 0 THEN NULL ELSE t[1]
      BY <1>2, <1>6, <2>3
    <2> QED
      BY <2>1, <2>2, <2>4, <2>5 DEF Chain
  <1>13. ChainBack(t)'
    <2> SUFFICES ASSUME NEW i \in 1..Length'
                 PROVE  prev'[t[i]] = IF i > 1 THEN t[i - 1] ELSE NULL
      BY DEF ChainBack
    <2>1. CASE i = Length + 1
      <3>1. Length \in 1..Length /\ i - 1 = Length /\ i > 1
        BY <1>2, <1>5, <2>1
      <3>2. t[i - 1] = current /\ t[i] = fresh
        BY <1>5, <1>8, <1>9, <2>1, <3>1
      <3> QED
        BY <1>3, <1>7, <3>1, <3>2
    <2>2. CASE i \in 1..Length
      <3>1. t[i] = s[i] /\ prev'[s[i]] = prev[s[i]]
        BY <1>4, <1>7, <1>8, <2>2
      <3>2. i > 1 => i - 1 \in 1..Length
        BY <1>2, <2>2
      <3> QED
        BY <1>8, <2>2, <3>1, <3>2 DEF ChainBack
    <2> QED
      BY <1>6, <1>10, <2>1, <2>2
  <1> QED
    BY <1>6, <1>11, <1>12, <1>13

LEMMA InsertLastKeepsLinks ==
    ASSUME Inv, InsertLast
    PROVE  WellLinked'
  <1>1. PICK s \in [1..Length -> Linked] : Chain(s) /\ ChainBack(s)
    BY DEF Inv, WellLinked, InsertLast
  <1>2. PICK t : t = [i \in 1..(Length + 1) |-> IF i <= Length THEN s[i] ELSE fresh]
    OBVIOUS
  <1>3. CursorValid'
    BY DEF CursorValid, InsertLast, Return
  <1> QED
    BY <1>1, <1>2, <1>3, LastNodeIsAppended DEF WellLinked

-----------------------------------------------------------------------------
\* Unlinking a node: its neighbours become neighbours of each other.
LEMMA NodeIsTakenOut ==
    ASSUME Inv, RemoveNode,
           NEW s \in [1..Length -> Linked], Chain(s), ChainBack(s),
           NEW m \in 1..Length, current = s[m],
           NEW t, t = [i \in 1..(Length - 1) |-> IF i < m THEN s[i] ELSE s[i + 1]]
    PROVE  /\ Length' = Length - 1
           /\ t \in [1..Length' -> Linked'] /\ Chain(t)' /\ ChainBack(t)'
  <1>2. Length \in Nat /\ IsFiniteSet(Linked)
    BY LengthIsNatural DEF Inv
  <1>3. /\ fresh = NULL /\ current \in Linked /\ call = "remove"
        /\ \A i \in 1..Length : s[i] \in Linked /\ s[i] \in Node /\ s[i] # NULL
    BY NodeAssumption DEF Inv, WellLinked, CursorValid, RemoveNode, TypeOK, Linked
  <1>5. Linked' = Linked \ {current} /\ Length' = Length - 1
    <2>1. Linked' = Linked \ {current}
      BY <1>3, NodeAssumption DEF Linked, RemoveNode, Return, Inv, TypeOK
    <2> QED
      BY <1>2, <1>3, <2>1, FS_RemoveElement DEF Length
  <1>6. \A i, j \in 1..Length : s[i] = s[j] => i = j
    BY DEF Chain
  <1>7. \A i \in 1..Length : next[s[i]] = IF i < Length THEN s[i + 1] ELSE NULL
    BY DEF Chain
  <1>8. \A i \in 1..Length : prev[s[i]] = IF i > 1 THEN s[i - 1] ELSE NULL
    BY DEF ChainBack
  <1>9. /\ next \in [Node -> Pointer \cup {Indeterminate}]
        /\ prev \in [Node -> Pointer \cup {Indeterminate}]
    BY DEF Inv, TypeOK
  <1>10. m > 1 => m - 1 \in 1..Length /\ prev[current] = s[m - 1]
    BY <1>2, <1>8
  <1>11. m < Length => m + 1 \in 1..Length /\ next[current] = s[m + 1]
    BY <1>2, <1>7
  <1>12. \A i \in 1..Length :
            i # m => next'[s[i]] = IF i + 1 = m THEN next[current] ELSE next[s[i]]
    <2> SUFFICES ASSUME NEW i \in 1..Length, i # m
                 PROVE  next'[s[i]] = IF i + 1 = m THEN next[current] ELSE next[s[i]]
      OBVIOUS
    <2>1. s[i] # current /\ s[i] \in Node
      BY <1>3, <1>6
    <2>2. next'[s[i]] = NextWithout[s[i]]
      BY <1>9, <2>1 DEF RemoveNode, NextWithout
    <2>3. CASE m = 1
      BY <1>8, <2>2, <2>3 DEF NextWithout
    <2>4. CASE m > 1
      <3>1. prev[current] = s[m - 1] /\ m - 1 \in 1..Length /\ s[m - 1] \in Node
            /\ prev[current] # NULL
        BY <1>3, <1>10, <2>4
      <3>2. NextWithout[s[i]] = IF s[i] = s[m - 1] THEN next[current] ELSE next[s[i]]
        BY <1>9, <2>1, <3>1 DEF NextWithout
      <3>3. s[i] = s[m - 1] <=> i + 1 = m
        BY <1>2, <1>6, <3>1
      <3> QED
        BY <2>2, <3>2, <3>3
    <2> QED
      BY <1>2, <2>3, <2>4
  <1>13. \A i \in 1..Length :
            i # m => prev'[s[i]] = IF i = m + 1 THEN prev[current] ELSE prev[s[i]]
    <2> SUFFICES ASSUME NEW i \in 1..Length, i # m
                 PROVE  prev'[s[i]] = IF i = m + 1 THEN prev[current] ELSE prev[s[i]]
      OBVIOUS
    <2>1. s[i] # current /\ s[i] \in Node
      BY <1>3, <1>6
    <2>2. prev'[s[i]] = PrevWithout[s[i]]
      BY <1>9, <2>1 DEF RemoveNode, PrevWithout
    <2>3. CASE m = Length
      BY <1>2, <1>7, <2>2, <2>3 DEF PrevWithout
    <2>4. CASE m < Length
      <3>1. next[current] = s[m + 1] /\ m + 1 \in 1..Length /\ s[m + 1] \in Node
            /\ next[current] # NULL
        BY <1>3, <1>11, <2>4
      <3>2. PrevWithout[s[i]] = IF s[i] = s[m + 1] THEN prev[current] ELSE prev[s[i]]
        BY <1>9, <2>1, <3>1 DEF PrevWithout
      <3>3. s[i] = s[m + 1] <=> i = m + 1
        BY <1>6, <3>1
      <3> QED
        BY <2>2, <3>2, <3>3
    <2> QED
      BY <1>2, <2>3, <2>4
  <1>14. \A i \in 1..(Length - 1) :
            /\ i \in 1..Length /\ i + 1 \in 1..Length
            /\ i < m => t[i] = s[i] /\ i # m
            /\ i >= m => t[i] = s[i + 1] /\ i + 1 # m
    BY <1>2
  <1>15. t \in [1..Length' -> Linked']
    <2>1. \A i \in 1..(Length - 1) : t[i] \in Linked \ {current}
      BY <1>2, <1>3, <1>6, <1>14
    <2> QED
      BY <1>5, <2>1
  <1>16. Chain(t)'
    <2>1. Linked' = {t[i] : i \in 1..Length'}
      <3>1. ASSUME NEW n \in Linked'
            PROVE  \E i \in 1..Length' : n = t[i]
        <4>1. PICK j \in 1..Length : n = s[j]
          BY <1>5 DEF Chain
        <4>2. j # m
          BY <1>5, <4>1
        <4>3. CASE j < m
          <5>1. j \in 1..(Length - 1) /\ t[j] = s[j]
            BY <1>2, <1>14, <4>3
          <5> QED
            BY <1>5, <4>1, <5>1
        <4>4. CASE j > m
          <5>1. j - 1 \in 1..(Length - 1) /\ j - 1 >= m /\ (j - 1) + 1 = j
            BY <1>2, <4>4
          <5>2. t[j - 1] = s[j]
            BY <1>14, <5>1
          <5> QED
            BY <1>5, <4>1, <5>1, <5>2
        <4>5. j < m \/ j > m
          BY <1>2, <4>2
        <4> QED
          BY <4>3, <4>4, <4>5
      <3> QED
        BY <1>15, <3>1
    <2>2. \A i, j \in 1..Length' : t[i] = t[j] => i = j
      BY <1>2, <1>5, <1>6, <1>14
    <2>3. Root' = IF Length' = 0 THEN NULL ELSE t[1]
      <3>1. Root' = HeadWithout /\ Root = head
        BY <1>3 DEF RemoveNode, Return, Root
      <3>2. head = s[1]
        BY <1>2, <3>1 DEF Chain
      <3>3. CASE m = 1
        <4>1. prev[current] = NULL
          BY <1>8, <3>3
        <4>2. Root' = next[current]
          BY <3>1, <4>1 DEF HeadWithout
        <4>3. CASE Length = 1
          BY <1>5, <1>7, <3>3, <4>2, <4>3
        <4>4. CASE Length > 1
          <5>1. 1 \in 1..(Length - 1) /\ 1 >= m
            BY <1>2, <3>3, <4>4
          <5>2. t[1] = s[2]
            BY <1>14, <5>1
          <5> QED
            BY <1>2, <1>5, <1>11, <3>3, <4>2, <4>4, <5>2
        <4> QED
          BY <1>2, <4>3, <4>4
      <3>4. CASE m > 1
        <4>1. prev[current] # NULL
          BY <1>3, <1>10, <3>4
        <4>2. 1 \in 1..(Length - 1) /\ 1 < m
          BY <1>2, <3>4
        <4>3. t[1] = s[1]
          BY <1>14, <4>2
        <4> QED
          BY <1>2, <1>5, <3>1, <3>2, <4>1, <4>2, <4>3 DEF HeadWithout
      <3> QED
        BY <1>2, <3>3, <3>4
    <2>4. \A i \in 1..Length' : next'[t[i]] = IF i < Length' THEN t[i + 1] ELSE NULL
      <3> SUFFICES ASSUME NEW i \in 1..(Length - 1)
                   PROVE  next'[t[i]] = IF i < Length - 1 THEN t[i + 1] ELSE NULL
        BY <1>5
      <3>1. i < Length - 1 => i + 1 \in 1..(Length - 1)
        BY <1>2
      <3>2. CASE i + 1 < m
        BY <1>2, <1>7, <1>12, <1>14, <3>1, <3>2
      <3>3. CASE i + 1 = m
        <4>1. t[i] = s[i] /\ next'[s[i]] = next[current]
          BY <1>2, <1>12, <1>14, <3>3
        <4>2. next[current] = IF m < Length THEN s[m + 1] ELSE NULL
          BY <1>7
        <4>3. i < Length - 1 => t[i + 1] = s[m + 1]
          BY <1>2, <1>14, <3>1, <3>3
        <4> QED
          BY <1>2, <3>3, <4>1, <4>2, <4>3
      <3>4. CASE i >= m
        <4>1. t[i] = s[i + 1] /\ i + 1 \in 1..Length /\ i + 1 # m /\ (i + 1) + 1 # m
          BY <1>2, <1>14, <3>4
        <4>2. next'[s[i + 1]] = next[s[i + 1]]
          BY <1>12, <4>1
        <4>3. next[s[i + 1]] = IF i + 1 < Length THEN s[(i + 1) + 1] ELSE NULL
          BY <1>7, <4>1
        <4>4. i < Length - 1 => t[i + 1] = s[(i + 1) + 1]
          BY <1>2, <1>14, <3>1, <3>4
        <4> QED
          BY <1>2, <4>1, <4>2, <4>3, <4>4
      <3> QED
        BY <1>2, <3>2, <3>3, <3>4
    <2> QED
      BY <2>1, <2>2, <2>3, <2>4 DEF Chain
  <1>17. ChainBack(t)'
    <2> SUFFICES ASSUME NEW i \in 1..(Length - 1)
                 PROVE  prev'[t[i]] = IF i > 1 THEN t[i - 1] ELSE NULL
      BY <1>5 DEF ChainBack
    <2>1. i > 1 => i - 1 \in 1..(Length - 1) /\ (i - 1) + 1 = i
      BY <1>2
    <2>2. CASE i < m
      <3>1. t[i] = s[i] /\ i \in 1..Length /\ i # m /\ i # m + 1
        BY <1>2, <1>14, <2>2
      <3>2. i > 1 => t[i - 1] = s[i - 1]
        BY <1>2, <1>14, <2>1, <2>2
      <3> QED
        BY <1>8, <1>13, <3>1, <3>2
    <2>3. CASE i = m
      <3>1. t[i] = s[i + 1] /\ i + 1 \in 1..Length /\ i + 1 # m /\ i + 1 = m + 1
        BY <1>2, <1>14, <2>3
      <3>2. prev'[t[i]] = prev[current]
        BY <1>13, <3>1
      <3>3. i > 1 => t[i - 1] = s[m - 1]
        BY <1>2, <1>14, <2>1, <2>3
      <3> QED
        BY <1>8, <2>3, <3>2, <3>3
    <2>4. CASE i > m
      <3>1. t[i] = s[i + 1] /\ i + 1 \in 1..Length /\ i + 1 # m /\ i + 1 # m + 1
        BY <1>2, <1>14, <2>4
      <3>2. prev'[t[i]] = prev[s[i + 1]]
        BY <1>13, <3>1
      <3>3. prev[s[i + 1]] = s[(i + 1) - 1] /\ (i + 1) - 1 = i /\ i > 1
        BY <1>2, <1>8, <2>4, <3>1
      <3>4. t[i - 1] = s[(i - 1) + 1]
        BY <1>2, <1>14, <2>1, <2>4, <3>3
      <3> QED
        BY <2>1, <3>2, <3>3, <3>4
    <2> QED
      BY <1>2, <2>2, <2>3, <2>4
  <1> QED
    BY <1>5, <1>15, <1>16, <1>17

LEMMA RemoveNodeKeepsLinks ==
    ASSUME Inv, RemoveNode
    PROVE  WellLinked'
  <1>1. PICK s \in [1..Length -> Linked] : Chain(s) /\ ChainBack(s)
    BY DEF Inv, WellLinked, RemoveNode
  <1>2. fresh = NULL /\ current \in Linked
    BY NodeAssumption DEF Inv, WellLinked, CursorValid, RemoveNode
  <1>3. PICK m \in 1..Length : current = s[m]
    BY <1>1, <1>2 DEF Chain
  <1>4. PICK t : t = [i \in 1..(Length - 1) |-> IF i < m THEN s[i] ELSE s[i + 1]]
    OBVIOUS
  <1>5. CursorValid'
    BY <1>2 DEF CursorValid, RemoveNode, Return
  <1> QED
    BY <1>1, <1>3, <1>4, <1>5, NodeIsTakenOut DEF WellLinked

\* Freeing the first node of what is left.
LEMMA CleanNodeKeepsLinks ==
    ASSUME Inv, CleanNode
    PROVE  WellLinked'
  <1>1. PICK s \in [1..Length -> Linked] : Chain(s)
    BY DEF Inv, WellLinked
  <1>2. Length \in Nat /\ IsFiniteSet(Linked)
    BY LengthIsNatural DEF Inv
  <1>3. /\ fresh = NULL /\ current \in Linked /\ call = "clean" /\ call' = "clean"
        /\ \A i \in 1..Length : s[i] \in Linked /\ s[i] \in Node /\ s[i] # NULL
    BY <1>1, NodeAssumption DEF Inv, WellLinked, CursorValid, CleanNode, TypeOK, Linked
  <1>4. Length > 0 /\ current = s[1]
    BY <1>1, <1>2, <1>3, NodeAssumption DEF Chain, Root, Linked, Inv, TypeOK
  <1>5. Linked' = Linked \ {current} /\ Length' = Length - 1
    <2>1. Linked' = Linked \ {current}
      BY <1>3, NodeAssumption DEF Linked, CleanNode, Inv, TypeOK
    <2> QED
      BY <1>2, <1>3, <2>1, FS_RemoveElement DEF Length
  <1>6. \A i, j \in 1..Length : s[i] = s[j] => i = j
    BY <1>1 DEF Chain
  <1>7. \A i \in 1..Length : next[s[i]] = IF i < Length THEN s[i + 1] ELSE NULL
    BY <1>1 DEF Chain
  <1>8. \A i \in 1..Length : i # 1 => next'[s[i]] = next[s[i]]
    BY <1>2, <1>3, <1>4, <1>6 DEF CleanNode, Inv, TypeOK
  <1>t. PICK t : t = [i \in 1..(Length - 1) |-> s[i + 1]]
    OBVIOUS
  <1>9. \A i \in 1..(Length - 1) : i + 1 \in 1..Length /\ i + 1 # 1 /\ t[i] = s[i + 1]
    BY <1>2, <1>t
  <1>10. t \in [1..Length' -> Linked']
    <2>1. \A i \in 1..(Length - 1) : t[i] \in Linked \ {current}
      BY <1>2, <1>3, <1>4, <1>6, <1>9
    <2> QED
      BY <1>5, <1>t, <2>1
  <1>11. Chain(t)'
    <2>1. Linked' = {t[i] : i \in 1..Length'}
      <3>1. ASSUME NEW n \in Linked'
            PROVE  \E i \in 1..Length' : n = t[i]
        <4>1. PICK j \in 1..Length : n = s[j]
          BY <1>1, <1>5 DEF Chain
        <4>2. j - 1 \in 1..(Length - 1) /\ (j - 1) + 1 = j
          BY <1>2, <1>4, <1>5, <4>1
        <4> QED
          BY <1>5, <1>9, <4>1, <4>2
      <3> QED
        BY <1>10, <3>1
    <2>2. \A i, j \in 1..Length' : t[i] = t[j] => i = j
      BY <1>2, <1>5, <1>6, <1>9
    <2>3. Root' = IF Length' = 0 THEN NULL ELSE t[1]
      <3>1. Root' = next[s[1]]
        BY <1>3, <1>4 DEF CleanNode, Root
      <3>2. next[s[1]] = IF 1 < Length THEN s[2] ELSE NULL
        BY <1>2, <1>4, <1>7
      <3>3. 1 < Length => t[1] = s[2]
        BY <1>2, <1>9
      <3> QED
        BY <1>2, <1>4, <1>5, <3>1, <3>2, <3>3
    <2>4. \A i \in 1..Length' : next'[t[i]] = IF i < Length' THEN t[i + 1] ELSE NULL
      <3> SUFFICES ASSUME NEW i \in 1..(Length - 1)
                   PROVE  next'[t[i]] = IF i < Length - 1 THEN t[i + 1] ELSE NULL
        BY <1>5
      <3>1. next'[t[i]] = next[s[i + 1]]
        BY <1>8, <1>9
      <3>2. next[s[i + 1]] = IF i + 1 < Length THEN s[(i + 1) + 1] ELSE NULL
        BY <1>7, <1>9
      <3>3. i < Length - 1 => i + 1 \in 1..(Length - 1) /\ t[i + 1] = s[(i + 1) + 1]
        BY <1>2, <1>9
      <3> QED
        BY <1>2, <3>1, <3>2, <3>3
    <2> QED
      BY <2>1, <2>2, <2>3, <2>4 DEF Chain
  <1>12. CursorValid'
    <2>1. next[current] \in Linked \cup {NULL}
      BY <1>3, NeighboursAreLinked DEF CleanNode
    <2>2. next[current] # current
      BY <1>2, <1>3, <1>4, <1>6, <1>7
    <2> QED
      BY <1>3, <1>5, <2>1, <2>2 DEF CursorValid, CleanNode
  <1> QED
    BY <1>3, <1>10, <1>11, <1>12 DEF WellLinked

\* The last step of dll_clean_list.
LEMMA CleanEndKeepsLinks ==
    ASSUME Inv, CleanEnd
    PROVE  WellLinked'
  <1>1. PICK s \in [1..Length -> Linked] : Chain(s)
    BY DEF Inv, WellLinked
  <1>2. Length \in Nat
    BY LengthIsNatural DEF Inv
  <1>3. Root = NULL /\ Root' = NULL /\ call' = "none" /\ fresh = NULL /\ fresh' = NULL
    BY DEF Root, CleanEnd, Return, Inv, WellLinked, CursorValid
  <1>4. Length = 0
    <2>1. CASE Length # 0
      <3>1. 1 \in 1..Length
        BY <1>2, <2>1
      <3>2. s[1] \in Node
        BY <1>1, <3>1 DEF Inv, TypeOK, Linked
      <3> QED
        BY <1>1, <1>3, <2>1, <3>2, NodeAssumption DEF Chain
    <2> QED
      BY <2>1
  <1>5. Linked' = Linked /\ Length' = Length
    BY <1>3 DEF Linked, Length, CleanEnd
  <1>6. Chain(s)' /\ ChainBack(s)'
    BY <1>1, <1>3, <1>4, <1>5 DEF Chain, ChainBack
  <1>7. CursorValid'
    BY <1>3 DEF CursorValid, CleanEnd, Return
  <1> QED
    BY <1>5, <1>6, <1>7 DEF WellLinked

-----------------------------------------------------------------------------
\* The calls, and the steps that only move the cursor or return.
LEMMA ReadingKeepsLinks ==
    ASSUME Inv, Call \/ InsertWalk \/ SearchWalk \/ NotFound \/ FindNode
    PROVE  WellLinked'
  <1>1. head = Root \/ call = "clean"
    BY DEF Root
  <1>2. call = "none" => fresh = NULL /\ NULL \notin allocated /\ head \in Linked \cup {NULL}
    <2>1. PICK s \in [1..Length -> Linked] : Chain(s)
      BY DEF Inv, WellLinked
    <2>2. Length # 0 => 1 \in 1..Length
      BY LengthIsNatural DEF Inv
    <2> QED
      BY <2>1, <2>2, NodeAssumption DEF Inv, WellLinked, CursorValid, TypeOK, Chain, Root
  <1>3. CASE \E i \in Id : InsertCall(i)
    <2>1. PICK i \in Id : InsertCall(i)
      BY <1>3
    <2>2. PICK n \in Node \ allocated : allocated' = allocated \cup {n} /\ fresh' = n
      BY <2>1 DEF InsertCall
    <2>3. Linked' = Linked /\ Root' = Root
      BY <1>2, <2>1, <2>2 DEF Linked, Root, InsertCall
    <2>4. CursorValid'
      BY <1>2, <2>1, <2>2, <2>3 DEF CursorValid, InsertCall
    <2> QED
      BY <2>1, <2>3, <2>4, SameList DEF Inv, InsertCall
  <1>4. CASE \E i \in Id : InsertOutOfMemory(i)
    <2>1. Linked' = Linked /\ Root' = Root /\ CursorValid'
      BY <1>4 DEF Inv, WellLinked, CursorValid, Linked, Root, InsertOutOfMemory
    <2> QED
      BY <1>4, <2>1, SameList DEF Inv, InsertOutOfMemory
  <1>5. CASE Search("remove") \/ Search("find") \/ CleanCall
    <2>1. Linked' = Linked /\ Root' = Root /\ CursorValid'
      BY <1>2, <1>5 DEF CursorValid, Linked, Root, Search, CleanCall
    <2> QED
      BY <1>5, <2>1, SameList DEF Inv, Search, CleanCall
  <1>6. CASE InsertWalk \/ SearchWalk
    <2>1. current \in Node /\ call' = call /\ call # "clean" /\ current' = next[current]
          /\ UNCHANGED <<allocated, head, next, prev, fresh>>
      <3>1. SearchWalk => current \in Node
        BY DEF SearchWalk, Inv, TypeOK, Pointer
      <3> QED
        BY <1>6, <3>1 DEF InsertWalk, SearchWalk, Walk
    <2>2. next[current] \in Linked \cup {NULL}
      BY <2>1, NeighboursAreLinked
    <2>3. InsertWalk => next[current] # NULL
      BY DEF InsertWalk
    <2>4. Linked' = Linked /\ Root' = Root
      BY <2>1 DEF Linked, Root
    <2>5. CursorValid'
      BY <1>6, <2>1, <2>2, <2>3, <2>4
         DEF Inv, WellLinked, CursorValid, SearchWalk
    <2> QED
      BY <2>1, <2>4, <2>5, SameList DEF Inv
  <1>7. CASE NotFound \/ FindNode
    <2>1. Linked' = Linked /\ Root' = Root /\ CursorValid'
      BY <1>7 DEF Inv, WellLinked, CursorValid, Linked, Root, NotFound, FindNode, Return
    <2> QED
      BY <1>7, <2>1, SameList DEF Inv, NotFound, FindNode, Return
  <1> QED
    BY <1>3, <1>4, <1>5, <1>6, <1>7 DEF Call

\* Every step keeps the types.
LEMMA TypeStep ==
    ASSUME Inv, [Next]_vars
    PROVE  TypeOK'
  <1> USE DEF Inv, TypeOK, Pointer
  <1>1. CASE Call
    BY <1>1 DEF Call, InsertCall, InsertOutOfMemory, Search, CleanCall
  <1>2. CASE InsertFirst
    BY <1>2 DEF InsertFirst, Return
  <1>3. CASE InsertWalk \/ SearchWalk
    <2>1. current \in Node
      BY <1>3 DEF InsertWalk, SearchWalk
    <2>2. next[current] \in Linked \cup {NULL}
      BY <2>1, NeighboursAreLinked
    <2> QED
      BY <1>3, <2>2 DEF InsertWalk, SearchWalk, Walk, Linked
  <1>4. CASE InsertLast
    BY <1>4 DEF InsertLast, Terminator, Return
  <1>5. CASE NotFound \/ FindNode
    BY <1>5 DEF NotFound, FindNode, Return
  <1>6. CASE RemoveNode
    <2>1. /\ next[current] \in Linked \cup {NULL}
          /\ prev[current] \in Linked \cup {NULL}
      BY <1>6, NeighboursAreLinked DEF RemoveNode
    <2>2. HeadWithout \in Node \cup {NULL}
      BY <2>1 DEF HeadWithout, Linked
    <2>3. NextWithout \in [Node -> Node \cup {NULL} \cup {Indeterminate}]
      BY <2>1 DEF NextWithout, Linked
    <2>4. PrevWithout \in [Node -> Node \cup {NULL} \cup {Indeterminate}]
      BY <2>1 DEF PrevWithout, Linked
    <2> QED
      BY <1>6, <2>2, <2>3, <2>4 DEF RemoveNode, Return
  <1>7. CASE CleanNode
    <2>1. next[current] \in Linked \cup {NULL}
      BY <1>7, NeighboursAreLinked DEF CleanNode
    <2> QED
      BY <1>7, <2>1 DEF CleanNode, Linked
  <1>8. CASE CleanEnd
    BY <1>8 DEF CleanEnd, Return
  <1>9. CASE UNCHANGED vars
    BY <1>9 DEF vars
  <1> QED
    BY <1>1, <1>2, <1>3, <1>4, <1>5, <1>6, <1>7, <1>8, <1>9 DEF Next, Step

\* Every step keeps the list linked.
LEMMA WellLinkedStep ==
    ASSUME Inv, [Next]_vars
    PROVE  WellLinked'
  <1>1. CASE UNCHANGED vars
    <2>1. Linked' = Linked /\ Root' = Root /\ CursorValid'
      BY <1>1 DEF vars, Inv, WellLinked, CursorValid, Linked, Root
    <2> QED
      BY <1>1, <2>1, SameList DEF vars, Inv
  <1> QED
    BY <1>1, ReadingKeepsLinks, InsertFirstKeepsLinks, InsertLastKeepsLinks,
       RemoveNodeKeepsLinks, CleanNodeKeepsLinks, CleanEndKeepsLinks
       DEF Next, Step

\* Whatever calls are made and however large the heap is, the nodes that are
\* allocated form one list, linked in both directions, and no function follows
\* a pointer out of it (double_linked_list.c).
THEOREM ListStaysLinked == Spec => []WellLinked
  <1>1. Inv /\ [Next]_vars => Inv'
    BY TypeStep, WellLinkedStep DEF Inv
  <1>2. Inv => WellLinked
    BY DEF Inv
  <1> QED
    BY InvInit, <1>1, <1>2, PTL DEF Spec

-----------------------------------------------------------------------------
\* The list as a sequence.

\* A set of natural numbers that is not empty has a least element.
LEMMA LeastNumber ==
    ASSUME NEW T \in SUBSET Nat, T # {}
    PROVE  \E m \in T : \A k \in T : m <= k
  <1> DEFINE R == OpToRel(<, Nat)
  <1>1. IsWellFoundedOn(R, Nat)
    BY NatLessThanWellFounded, Zenon
  <1> HIDE DEF R
  <1>2. PICK m \in T : \A k \in T : ~ (<<k, m>> \in R)
    BY <1>1, WFMin, Zenon
  <1>3. ASSUME NEW k \in T, k < m
        PROVE  FALSE
    <2>1. <<k, m>> \in R
      BY <1>3 DEF R, OpToRel
    <2> QED
      BY <1>2, <2>1
  <1> QED
    BY <1>2, <1>3

\* Two walks that start at the same node and go on from the same node to the
\* same node are the same: there is no first place where they part.
LEMMA OneOrder ==
    ASSUME NEW n \in Nat, NEW S,
           NEW s \in [1..n -> S], NEW t \in [1..n -> S],
           n > 0 => s[1] = t[1],
           \A i \in 1..(n - 1) : s[i] = t[i] => s[i + 1] = t[i + 1]
    PROVE  s = t
  <1> DEFINE Parts == {i \in 1..n : s[i] # t[i]}
  <1>1. ASSUME Parts # {}
        PROVE  FALSE
    <2>1. Parts \in SUBSET Nat
      OBVIOUS
    <2>2. PICK m \in Parts : \A k \in Parts : m <= k
      <3> HIDE DEF Parts
      <3> QED
        BY <1>1, <2>1, LeastNumber
    <2>3. m \in 1..n /\ s[m] # t[m] /\ m # 1
      BY <2>2
    <2>4. m - 1 \in 1..(n - 1) /\ m - 1 \in 1..n /\ (m - 1) + 1 = m
      BY <2>3
    <2>5. s[m - 1] = t[m - 1]
      BY <2>2, <2>4
    <2> QED
      BY <2>3, <2>4, <2>5
  <1> QED
    BY <1>1

\* NodesInOrder is the list.
LEMMA OrderOfList ==
    ASSUME Inv
    PROVE  /\ NodesInOrder \in [1..Length -> Linked] /\ Chain(NodesInOrder)
           /\ call # "clean" => ChainBack(NodesInOrder)
  <1>1. PICK s \in [1..Length -> Linked] : Chain(s) /\ (call # "clean" => ChainBack(s))
    BY DEF Inv, WellLinked
  <1>2. NodesInOrder \in [1..Length -> Linked] /\ Chain(NodesInOrder)
    BY <1>1 DEF NodesInOrder
  <1>3. NodesInOrder = s
    <2>1. Length \in Nat
      BY LengthIsNatural DEF Inv
    <2>2. Length > 0 => NodesInOrder[1] = s[1]
      BY <1>1, <1>2, <2>1 DEF Chain
    <2>3. \A i \in 1..(Length - 1) :
             next[NodesInOrder[i]] = NodesInOrder[i + 1] /\ next[s[i]] = s[i + 1]
      BY <1>1, <1>2, <2>1 DEF Chain
    <2>4. \A i \in 1..(Length - 1) :
             NodesInOrder[i] = s[i] => NodesInOrder[i + 1] = s[i + 1]
      BY <2>3
    <2> QED
      BY <1>1, <1>2, <2>1, <2>2, <2>4, OneOrder
  <1> QED
    BY <1>1, <1>2, <1>3

\* Whatever is shown to be the list after a step is NodesInOrder then.
LEMMA OrderAfter ==
    ASSUME Length' \in Nat, NEW t \in [1..Length' -> Linked'], Chain(t)'
    PROVE  NodesInOrder' = t
  <1>1. PICK n \in Nat : n = Length'
    OBVIOUS
  <1>2. PICK s : s = NodesInOrder'
    OBVIOUS
  <1>3. s \in [1..n -> Linked'] /\ Chain(s)'
    BY <1>1, <1>2 DEF NodesInOrder
  <1>4. \A i \in 1..(n - 1) : i \in 1..n /\ i < n
    BY <1>1 DEF Chain
  <1>5. \A i \in 1..(n - 1) : next'[s[i]] = s[i + 1] /\ next'[t[i]] = t[i + 1]
    BY <1>1, <1>3, <1>4 DEF Chain
  <1>6. \A i \in 1..(n - 1) : s[i] = t[i] => s[i + 1] = t[i + 1]
    BY <1>5, Zenon
  <1>7. n > 0 => s[1] = t[1]
    BY <1>1, <1>3 DEF Chain
  <1>8. s \in [1..n -> Linked'] /\ t \in [1..n -> Linked']
    BY <1>1, <1>3 DEF Chain
  <1>9. s = t
    BY <1>6, <1>7, <1>8, OneOrder, Zenon
  <1> QED
    BY <1>2, <1>9

\* A step that leaves the links as they are leaves the order.
LEMMA SameOrder ==
    ASSUME Inv, Linked' = Linked, Root' = Root, next' = next
    PROVE  Length' = Length /\ NodesInOrder' = NodesInOrder
  <1>1. Length \in Nat /\ NodesInOrder \in [1..Length -> Linked] /\ Chain(NodesInOrder)
    BY OrderOfList, LengthIsNatural DEF Inv
  <1>2. Length' = Length
    BY DEF Length
  <1>3. PICK t : t = NodesInOrder
    OBVIOUS
  <1>4. Chain(t)'
    BY <1>1, <1>2, <1>3 DEF Chain
  <1> QED
    BY <1>1, <1>2, <1>3, <1>4, OrderAfter


\* The ids of the list, while it is not being freed.
LEMMA IdsOfNodes ==
    ASSUME Inv, call # "clean"
    PROVE  /\ Length \in Nat /\ NodesInOrder \in [1..Length -> Linked]
           /\ IdsOfList = [p \in 1..Length |-> id[NodesInOrder[p]]]
           /\ IdsOfList \in Seq(Id) /\ Len(IdsOfList) = Length
           /\ \A p \in 1..Length : IdsOfList[p] = id[NodesInOrder[p]]
  <1>1. Length \in Nat /\ NodesInOrder \in [1..Length -> Linked]
    BY OrderOfList, LengthIsNatural DEF Inv
  <1>2. IdsOfList = [p \in 1..Length |-> id[NodesInOrder[p]]]
    BY DEF IdsOfList
  <1>3. \A p \in 1..Length : id[NodesInOrder[p]] \in Id
    BY <1>1 DEF Inv, TypeOK, Linked
  <1>4. IdsOfList \in Seq(Id)
    BY <1>1, <1>2, <1>3, IsASeq
  <1> QED
    BY <1>1, <1>2, <1>4

\* A step outside dll_clean_list that touches no node of the list leaves the
\* ids, and the position of each node, as they are.
LEMMA SameIds ==
    ASSUME Inv, call # "clean", call' # "clean",
           Linked' = Linked, head' = head, next' = next,
           \A n \in Linked : id'[n] = id[n]
    PROVE  /\ IdsOfList' = IdsOfList
           /\ Length' = Length /\ NodesInOrder' = NodesInOrder
           /\ result' = result => Returned' = Returned
  <1>1. Length' = Length /\ NodesInOrder' = NodesInOrder
    BY SameOrder DEF Root
  <1>2. IdsOfList' = [p \in 1..Length |-> id'[NodesInOrder[p]]]
    BY <1>1 DEF IdsOfList
  <1>3. IdsOfList' = IdsOfList
    BY <1>2, IdsOfNodes
  <1>4. result' = result => Returned' = Returned
    BY <1>1 DEF Returned, PositionOf
  <1> QED
    BY <1>1, <1>3, <1>4

\* The calls that have not returned yet cannot be told from those not made.
LEMMA QuietSteps ==
    ASSUME Inv,
           \/ \E i \in Id : InsertCall(i)
           \/ Search("remove") \/ Search("find")
           \/ InsertWalk \/ SearchWalk \/ CleanNode \/ UNCHANGED vars
    PROVE  UNCHANGED <<IdsOfList, Returned>>
  <1>1. CASE call = "clean" /\ call' = "clean"
    BY <1>1 DEF IdsOfList, Returned
  <1>2. CASE \E i \in Id : InsertCall(i)
    <2>1. PICK i \in Id, n \in Node \ allocated :
             /\ allocated' = allocated \cup {n} /\ fresh' = n
             /\ id' = [id EXCEPT ![n] = i]
             /\ call = "none" /\ call' = "insert"
             /\ UNCHANGED <<head, next, result>>
      BY <1>2 DEF InsertCall
    <2>2. fresh = NULL /\ NULL \notin allocated
      BY <2>1, NodeAssumption DEF Inv, WellLinked, CursorValid, TypeOK
    <2>3. Linked' = Linked /\ n \notin Linked
      BY <2>1, <2>2 DEF Linked
    <2>4. \A k \in Linked : id'[k] = id[k]
      BY <2>1, <2>3 DEF Linked, Inv, TypeOK
    <2> QED
      BY <2>1, <2>3, <2>4, SameIds
  <1>3. CASE Search("remove") \/ Search("find") \/ InsertWalk \/ SearchWalk
    <2>1. /\ call # "clean" /\ call' # "clean"
          /\ UNCHANGED <<allocated, fresh, head, next, id, result>>
      BY <1>3 DEF Search, InsertWalk, SearchWalk, Walk
    <2>2. Linked' = Linked
      BY <2>1 DEF Linked
    <2> QED
      BY <2>1, <2>2, SameIds
  <1>4. CASE CleanNode
    BY <1>1, <1>4 DEF CleanNode
  <1>5. CASE UNCHANGED vars
    <2>1. CASE call = "clean"
      BY <1>1, <1>5, <2>1 DEF vars
    <2>2. CASE call # "clean"
      <3>1. call' # "clean" /\ UNCHANGED <<allocated, fresh, head, next, id, result>>
        BY <1>5, <2>2 DEF vars
      <3>2. Linked' = Linked
        BY <3>1 DEF Linked
      <3> QED
        BY <2>2, <3>1, <3>2, SameIds
    <2> QED
      BY <2>1, <2>2
  <1> QED
    BY <1>2, <1>3, <1>4, <1>5

-----------------------------------------------------------------------------
\* The steps in which a call returns.

\* A node that has been linked is behind all others.
LEMMA InsertedIsAppended ==
    ASSUME Inv, InsertFirst \/ InsertLast
    PROVE  \E i \in Id : Sequence!InsertNode(i)
  <1>1. call = "insert" /\ call' = "none" /\ id' = id /\ id[fresh] \in Id
    BY DEF InsertFirst, InsertLast, Return, Inv, WellLinked, CursorValid, TypeOK
  <1>2. PICK t : t = [i \in 1..(Length + 1) |-> IF i <= Length THEN NodesInOrder[i] ELSE fresh]
    OBVIOUS
  <1>3. Length \in Nat /\ NodesInOrder \in [1..Length -> Linked]
    BY <1>1, IdsOfNodes
  <1>4. Length' = Length + 1 /\ t \in [1..Length' -> Linked'] /\ Chain(t)'
    <2>1. CASE InsertLast
      BY <1>1, <1>2, <2>1, OrderOfList, LastNodeIsAppended
    <2>2. CASE InsertFirst
      <3>1. PICK u : u = [i \in 1..1 |-> fresh]
        OBVIOUS
      <3>2. Length = 0 /\ Length' = 1 /\ u \in [1..Length' -> Linked'] /\ Chain(u)'
        BY <2>2, <3>1, FirstNodeIsTheList
      <3>3. t = u
        BY <1>2, <3>1, <3>2 DEF Chain
      <3> QED
        BY <3>2, <3>3
    <2> QED
      BY <2>1, <2>2
  <1>5. NodesInOrder' = t
    BY <1>3, <1>4, OrderAfter
  <1>6. IdsOfList' = [p \in 1..(Length + 1) |-> id[t[p]]]
    BY <1>1, <1>4, <1>5 DEF IdsOfList
  <1>7. IdsOfList' = Append(IdsOfList, id[fresh])
    <2>1. /\ IdsOfList \in Seq(Id) /\ Len(IdsOfList) = Length
          /\ \A p \in 1..Length : IdsOfList[p] = id[NodesInOrder[p]]
      BY <1>1, IdsOfNodes
    <2>2. Append(IdsOfList, id[fresh])
            = [p \in 1..(Length + 1) |-> IF p <= Length THEN IdsOfList[p] ELSE id[fresh]]
      BY <1>1, <1>3, <2>1
    <2>3. \A p \in 1..(Length + 1) :
             id[t[p]] = IF p <= Length THEN IdsOfList[p] ELSE id[fresh]
      BY <1>2, <1>3, <2>1
    <2> QED
      BY <1>6, <2>2, <2>3
  <1>8. Returned' = [op |-> "insert", ok |-> TRUE, at |-> 0]
    <2>1. result' = [op |-> "insert", ok |-> TRUE, found |-> NULL]
      BY <1>1 DEF InsertFirst, InsertLast, Return
    <2>2. NULL \notin Linked'
      BY NodeAssumption DEF InsertFirst, InsertLast, Inv, TypeOK, Linked
    <2> QED
      BY <1>1, <2>1, <2>2 DEF Returned, PositionOf
  <1> QED
    BY <1>1, <1>7, <1>8 DEF Sequence!InsertNode, Sequence!Result

\* An insertion that fails leaves the list alone.
LEMMA FailedInsertion ==
    ASSUME Inv, NEW i \in Id, InsertOutOfMemory(i)
    PROVE  Sequence!InsertNode(i)
  <1>1. /\ call # "clean" /\ call' # "clean"
        /\ UNCHANGED <<allocated, fresh, head, next, id>>
        /\ result' = [op |-> "insert", ok |-> FALSE, found |-> NULL]
    BY DEF InsertOutOfMemory
  <1>2. Linked' = Linked /\ NULL \notin Linked
    BY <1>1, NodeAssumption DEF Linked, Inv, TypeOK
  <1>3. IdsOfList' = IdsOfList
    BY <1>1, <1>2, SameIds
  <1>4. Returned' = [op |-> "insert", ok |-> FALSE, at |-> 0]
    BY <1>1, <1>2 DEF Returned, PositionOf
  <1> QED
    BY <1>3, <1>4 DEF Sequence!InsertNode, Sequence!Result

\* dll_clean_list has emptied the list when it is called.
LEMMA CleaningEmpties ==
    ASSUME Inv, CleanCall \/ CleanEnd
    PROVE  Sequence!CleanList \/ UNCHANGED <<IdsOfList, Returned>>
  <1>1. CASE CleanCall
    BY <1>1 DEF CleanCall, IdsOfList, Returned, Sequence!CleanList, Sequence!Result
  <1>2. CASE CleanEnd
    <2>1. /\ call = "clean" /\ call' = "none" /\ head' = NULL
          /\ UNCHANGED <<allocated, next, prev>>
          /\ result' = [op |-> "clean", ok |-> TRUE, found |-> NULL]
      BY <1>2 DEF CleanEnd, Return
    <2>2. Length' = 0 /\ NULL \notin Linked'
      <3>1. PICK s \in [1..Length' -> Linked'] : Chain(s)'
        BY <1>2, CleanEndKeepsLinks DEF WellLinked
      <3>2. IsFiniteSet(Linked') /\ Length' \in Nat /\ Linked' \subseteq Node
        BY <1>2, <2>1, LengthIsNatural, NodeAssumption, FS_Subset, FS_CardinalityType
           DEF Inv, TypeOK, Linked, Length
      <3>3. Root' = NULL
        BY <2>1 DEF Root
      <3>4. Length' # 0 => 1 \in 1..Length' /\ s[1] \in Node
        BY <3>2 DEF Chain
      <3> QED
        BY <3>1, <3>2, <3>3, <3>4, NodeAssumption DEF Chain
    <2>3. IdsOfList' = << >>
      BY <2>1, <2>2 DEF IdsOfList
    <2>4. Returned' = [op |-> "clean", ok |-> TRUE, at |-> 0]
      BY <2>1, <2>2 DEF Returned, PositionOf
    <2> QED
      BY <2>1, <2>3, <2>4 DEF IdsOfList, Returned
  <1> QED
    BY <1>1, <1>2


-----------------------------------------------------------------------------
\* Searching.

\* The first p nodes have another id than the one that is searched for.
SeenWithout(p) == \A q \in 1..p : id[NodesInOrder[q]] # key

\* The cursor of a search is behind the nodes that it has seen.
Searched ==
    call \in {"remove", "find"} =>
        \E p \in 0..Length :
           /\ SeenWithout(p)
           /\ current = IF p < Length THEN NodesInOrder[p + 1] ELSE NULL

\* Every step keeps a search behind the nodes that it has seen.
LEMMA SearchedStep ==
    ASSUME Inv, Searched, [Next]_vars
    PROVE  Searched'
  <1> SUFFICES ASSUME call' \in {"remove", "find"} PROVE Searched'
    BY DEF Searched
  <1>1. CASE Search("remove") \/ Search("find")
    <2>1. /\ call = "none" /\ current' = head
          /\ UNCHANGED <<allocated, head, next, id, fresh>>
      BY <1>1 DEF Search
    <2>2. Linked' = Linked /\ Root' = Root
      BY <2>1 DEF Linked, Root
    <2>3. Length' = Length /\ NodesInOrder' = NodesInOrder
      BY <2>1, <2>2, SameOrder
    <2>4. Length \in Nat
      BY <2>1, IdsOfNodes
    <2>5. head = IF 0 < Length THEN NodesInOrder[1] ELSE NULL
      BY <2>1, <2>4, OrderOfList DEF Chain, Root
    <2>6. 0 \in 0..Length' /\ current' = IF 0 < Length' THEN NodesInOrder'[0 + 1] ELSE NULL
      BY <2>1, <2>3, <2>4, <2>5
    <2>7. SeenWithout(0)'
      BY DEF SeenWithout
    <2> QED
      BY <2>6, <2>7 DEF Searched
  <1>2. CASE SearchWalk
    <2>1. /\ call \in {"remove", "find"} /\ current \in Node /\ id[current] # key
          /\ current' = next[current]
          /\ UNCHANGED <<allocated, head, next, id, call, key, fresh>>
      BY <1>2 DEF SearchWalk, Walk
    <2>2. Linked' = Linked /\ Root' = Root
      BY <2>1 DEF Linked, Root
    <2>3. Length' = Length /\ NodesInOrder' = NodesInOrder
      BY <2>1, <2>2, SameOrder
    <2>4. Length \in Nat
      BY <2>1, IdsOfNodes
    <2>5. PICK p \in 0..Length :
             /\ SeenWithout(p)
             /\ current = IF p < Length THEN NodesInOrder[p + 1] ELSE NULL
      BY <2>1 DEF Searched
    <2>6. p < Length /\ current = NodesInOrder[p + 1]
      BY <2>1, <2>4, <2>5, NodeAssumption
    <2>7. p + 1 \in 1..Length /\ p + 1 \in 0..Length
      BY <2>4, <2>6
    <2>8. SeenWithout(p + 1)'
      <3> SUFFICES ASSUME NEW q \in 1..(p + 1) PROVE id'[NodesInOrder'[q]] # key'
        BY DEF SeenWithout
      <3>1. q \in 1..p \/ q = p + 1
        OBVIOUS
      <3> QED
        BY <2>1, <2>3, <2>5, <2>6, <3>1 DEF SeenWithout
    <2>9. current' = IF p + 1 < Length' THEN NodesInOrder'[(p + 1) + 1] ELSE NULL
      BY <2>1, <2>3, <2>6, <2>7, OrderOfList DEF Chain
    <2> QED
      BY <2>3, <2>7, <2>8, <2>9 DEF Searched
  <1>3. CASE UNCHANGED vars
    <2>1. /\ call \in {"remove", "find"}
          /\ UNCHANGED <<allocated, head, next, id, call, key, fresh, current>>
      BY <1>3 DEF vars
    <2>2. Linked' = Linked /\ Root' = Root
      BY <2>1 DEF Linked, Root
    <2>3. Length' = Length /\ NodesInOrder' = NodesInOrder
      BY <2>1, <2>2, SameOrder
    <2> QED
      BY <2>1, <2>3 DEF Searched, SeenWithout
  <1>4. CASE CleanCall \/ CleanNode \/ CleanEnd \/ InsertFirst \/ InsertWalk \/ InsertLast
    BY <1>4 DEF CleanCall, CleanNode, CleanEnd, InsertFirst, InsertWalk, InsertLast, Walk, Return
  <1>5. CASE NotFound \/ FindNode \/ RemoveNode
    BY <1>5 DEF NotFound, FindNode, RemoveNode, Return
  <1>6. CASE \E i \in Id : InsertCall(i) \/ InsertOutOfMemory(i)
    BY <1>6 DEF InsertCall, InsertOutOfMemory
  <1> QED
    BY <1>1, <1>2, <1>3, <1>4, <1>5, <1>6 DEF Next, Call, Step

\* Where a search stops at a node, the node is the first with the id.
LEMMA FoundIsFirst ==
    ASSUME Inv, Searched, call \in {"remove", "find"},
           current \in Node, id[current] = key
    PROVE  \E m \in 1..Length :
              NodesInOrder[m] = current /\ m \in DOMAIN IdsOfList /\ Sequence!IsFirst(key, m)
  <1>1. /\ Length \in Nat
        /\ IdsOfList \in Seq(Id) /\ Len(IdsOfList) = Length
        /\ \A q \in 1..Length : IdsOfList[q] = id[NodesInOrder[q]]
    BY IdsOfNodes
  <1>2. PICK p \in 0..Length :
           /\ SeenWithout(p)
           /\ current = IF p < Length THEN NodesInOrder[p + 1] ELSE NULL
    BY DEF Searched
  <1>3. p + 1 \in 1..Length /\ current = NodesInOrder[p + 1]
    BY <1>1, <1>2, NodeAssumption
  <1>4. IdsOfList[p + 1] = key /\ p + 1 \in DOMAIN IdsOfList
    BY <1>1, <1>3
  <1>5. \A q \in 1..((p + 1) - 1) : IdsOfList[q] # key
    BY <1>1, <1>2, <1>3 DEF SeenWithout
  <1> QED
    BY <1>3, <1>4, <1>5 DEF Sequence!IsFirst

\* A node that is found is the first with the id, and so is its position.
LEMMA FoundIsReported ==
    ASSUME Inv, Searched, FindNode
    PROVE  Sequence!FindNode(key)
  <1>1. /\ call = "find" /\ call' = "none" /\ fresh = NULL /\ fresh' = NULL
        /\ current \in Node /\ id[current] = key
        /\ UNCHANGED <<allocated, head, next, id>>
        /\ result' = [op |-> "find", ok |-> TRUE, found |-> current]
    BY DEF FindNode, Return, Inv, WellLinked, CursorValid
  <1>2. PICK m \in 1..Length :
           NodesInOrder[m] = current /\ m \in DOMAIN IdsOfList /\ Sequence!IsFirst(key, m)
    BY <1>1, FoundIsFirst
  <1>3. Linked' = Linked
    BY <1>1 DEF Linked
  <1>4. /\ IdsOfList' = IdsOfList
        /\ Length' = Length /\ NodesInOrder' = NodesInOrder
    BY <1>1, <1>3, SameIds
  <1>5. NodesInOrder \in [1..Length -> Linked] /\ Chain(NodesInOrder)
    BY OrderOfList
  <1>6. \A p \in 1..Length : NodesInOrder[p] = current => p = m
    BY <1>2, <1>5 DEF Chain
  <1>7. PositionOf(result.found)' = m
    <2>1. PositionOf(result.found)' = CHOOSE p \in 1..Length : NodesInOrder[p] = current
      BY <1>1, <1>2, <1>3, <1>4, <1>5 DEF PositionOf
    <2> QED
      BY <1>2, <1>6, <2>1
  <1>8. Returned' = [op |-> "find", ok |-> TRUE, at |-> m]
    BY <1>1, <1>7 DEF Returned
  <1> QED
    BY <1>2, <1>4, <1>8 DEF Sequence!FindNode, Sequence!Result

\* The node that is removed is the first with the id.
LEMMA RemovedIsFirst ==
    ASSUME Inv, Searched, RemoveNode
    PROVE  Sequence!RemoveNode(key)
  <1>1. /\ call = "remove" /\ call' = "none" /\ fresh' = NULL
        /\ current \in Node /\ id[current] = key /\ id' = id
        /\ allocated' \subseteq Node
        /\ result' = [op |-> "remove", ok |-> TRUE, found |-> NULL]
    BY DEF RemoveNode, Return, Inv, TypeOK
  <1>2. PICK m \in 1..Length :
           NodesInOrder[m] = current /\ m \in DOMAIN IdsOfList /\ Sequence!IsFirst(key, m)
    BY <1>1, FoundIsFirst
  <1>3. /\ Length \in Nat /\ NodesInOrder \in [1..Length -> Linked]
        /\ Len(IdsOfList) = Length
        /\ \A q \in 1..Length : IdsOfList[q] = id[NodesInOrder[q]]
    BY <1>1, IdsOfNodes
  <1>4. PICK t : t = [i \in 1..(Length - 1) |->
                         IF i < m THEN NodesInOrder[i] ELSE NodesInOrder[i + 1]]
    OBVIOUS
  <1>5. Length' = Length - 1 /\ t \in [1..Length' -> Linked'] /\ Chain(t)'
    BY <1>1, <1>2, <1>4, OrderOfList, NodeIsTakenOut
  <1>6. Length' \in Nat
    BY <1>3, <1>5 DEF Chain
  <1>7. NodesInOrder' = t
    BY <1>5, <1>6, OrderAfter
  <1>8. IdsOfList' = [p \in 1..(Length - 1) |-> id[t[p]]]
    BY <1>1, <1>5, <1>7 DEF IdsOfList
  <1>9. IdsOfList' = Sequence!Without(m)
    <2>1. Sequence!Without(m)
            = [q \in 1..(Length - 1) |-> IdsOfList[IF q < m THEN q ELSE q + 1]]
      BY <1>3 DEF Sequence!Without
    <2>2. \A q \in 1..(Length - 1) :
             id[t[q]] = IdsOfList[IF q < m THEN q ELSE q + 1]
      BY <1>3, <1>4
    <2> QED
      BY <1>8, <2>1, <2>2
  <1>10. Returned' = [op |-> "remove", ok |-> TRUE, at |-> 0]
    <2>1. NULL \notin Linked'
      BY <1>1, NodeAssumption DEF Linked
    <2> QED
      BY <1>1, <2>1 DEF Returned, PositionOf
  <1> QED
    BY <1>2, <1>9, <1>10 DEF Sequence!RemoveNode, Sequence!Result

\* A search that comes to the end has seen every id.
LEMMA NothingWasThere ==
    ASSUME Inv, Searched, NotFound
    PROVE  Sequence!NotFound(key)
  <1>1. /\ call \in {"remove", "find"} /\ call' = "none" /\ current = NULL
        /\ fresh = NULL /\ fresh' = NULL
        /\ UNCHANGED <<allocated, head, next, id>>
        /\ result' = [op |-> call, ok |-> FALSE, found |-> NULL]
    BY DEF NotFound, Return, Inv, WellLinked, CursorValid
  <1>2. Linked' = Linked /\ NULL \notin Linked
    BY <1>1, NodeAssumption DEF Linked, Inv, TypeOK
  <1>3. IdsOfList' = IdsOfList
    BY <1>1, <1>2, SameIds
  <1>4. Returned' = [op |-> call, ok |-> FALSE, at |-> 0]
    BY <1>1, <1>2 DEF Returned, PositionOf
  <1>5. \A p \in DOMAIN IdsOfList : IdsOfList[p] # key
    <2>1. /\ Length \in Nat /\ NodesInOrder \in [1..Length -> Linked]
          /\ DOMAIN IdsOfList = 1..Length
          /\ \A q \in 1..Length : IdsOfList[q] = id[NodesInOrder[q]]
      BY <1>1, IdsOfNodes
    <2>2. PICK p \in 0..Length :
             /\ SeenWithout(p)
             /\ current = IF p < Length THEN NodesInOrder[p + 1] ELSE NULL
      BY <1>1 DEF Searched
    <2>3. p = Length
      <3>1. p < Length => p + 1 \in 1..Length
        BY <2>1
      <3> QED
        BY <1>1, <1>2, <2>1, <2>2, <3>1
    <2> QED
      BY <2>1, <2>2, <2>3 DEF SeenWithout
  <1> QED
    BY <1>1, <1>3, <1>4, <1>5 DEF Sequence!NotFound, Sequence!Result

\* Whatever calls are made and however large the heap is, the list behaves as
\* the sequence of the ids of its nodes: what its callers see is a step of
\* TaskSequence or nothing (double_linked_list.c).
THEOREM ListIsASequence == Spec => ImplementsSequence
  <1>1. Init => Inv /\ Searched
    BY InvInit DEF Init, Searched
  <1>2. Inv /\ Searched /\ [Next]_vars => (Inv /\ Searched)'
    BY TypeStep, WellLinkedStep, SearchedStep DEF Inv
  <1>3. Init => Sequence!Init
    <2> SUFFICES ASSUME Init PROVE Sequence!Init
      OBVIOUS
    <2>1. Length = 0 /\ NULL \notin Linked /\ call = "none" /\ result = NoResult
      BY FS_EmptySet DEF Init, Linked, Length
    <2>2. IdsOfList = << >>
      BY <2>1 DEF IdsOfList
    <2>3. Returned = [op |-> "none", ok |-> FALSE, at |-> 0]
      BY <2>1 DEF Returned, PositionOf, NoResult
    <2> QED
      BY <2>2, <2>3 DEF Sequence!Init, Sequence!Result
  <1>4. Inv /\ Searched /\ [Next]_vars => [Sequence!Next]_Sequence!vars
    <2> SUFFICES ASSUME Inv, Searched, [Next]_vars
                 PROVE  [Sequence!Next]_Sequence!vars
      OBVIOUS
    <2>1. key \in Id
      BY DEF Inv, TypeOK
    <2>2. CASE \/ \E i \in Id : InsertCall(i)
               \/ Search("remove") \/ Search("find")
               \/ InsertWalk \/ SearchWalk \/ CleanNode \/ UNCHANGED vars
      BY <2>2, QuietSteps DEF Sequence!vars
    <2>3. CASE \E i \in Id : InsertOutOfMemory(i)
      BY <2>3, FailedInsertion DEF Sequence!Next
    <2>4. CASE InsertFirst \/ InsertLast
      BY <2>4, InsertedIsAppended DEF Sequence!Next
    <2>5. CASE CleanCall \/ CleanEnd
      BY <2>5, CleaningEmpties DEF Sequence!Next, Sequence!vars
    <2>6. CASE FindNode
      BY <2>1, <2>6, FoundIsReported DEF Sequence!Next
    <2>7. CASE RemoveNode
      BY <2>1, <2>7, RemovedIsFirst DEF Sequence!Next
    <2>8. CASE NotFound
      BY <2>1, <2>8, NothingWasThere DEF Sequence!Next
    <2> QED
      BY <2>2, <2>3, <2>4, <2>5, <2>6, <2>7, <2>8 DEF Next, Call, Step
  <1> QED
    BY <1>1, <1>2, <1>3, <1>4, PTL DEF Spec, ImplementsSequence, Sequence!Spec
=============================================================================
