--------------------------- MODULE Program_proofs ---------------------------
(***************************************************************************)
(* Whatever the width of a word, the options, the task file and the disk:   *)
(* what a run of the program draws, writes and leaves behind.               *)
(***************************************************************************)
EXTENDS Program, SequenceTheorems, FiniteSetTheorems, WellFoundedInduction, TLAPS

-----------------------------------------------------------------------------
(***************************************************************************)
(* What parser_load guarantees about the lists it accepts, for all files,   *)
(* limits and word sizes.                                                  *)
(***************************************************************************)

Node == [id : 1..UintMax, tickets : 1..UintMax, work : 1..UintMax,
         yield : 10..100, created : BOOLEAN]

TypeOK ==
    /\ load \in {"closed", "header", "lines", "loaded", "failed"}
    /\ unread \in Seq(Line)
    /\ tasks \in Seq(Node)
    /\ total_tickets \in 0..UintMax

\* The list as it grows: what AcceptedIsSchedulable says of a list that has been
\* accepted, the number of tasks read so far aside.
Growing ==
    /\ Len(tasks) <= MaxTasks
    /\ load = "loaded" => Len(tasks) >= MinTasks
    /\ \A i, j \in DOMAIN tasks : tasks[i].id = tasks[j].id => i = j

Inv == TypeOK /\ Growing

\* A line that passes every test becomes a proper node.
LEMMA NodeForType ==
    ASSUME NEW l \in Line, Acceptable(l), NEW created \in BOOLEAN
    PROVE  NodeFor(l, created) \in Node
  <1>1. l.kind = "task"
    BY DEF Acceptable
  <1>2. l \in TaskLine
    BY <1>1 DEF Line
  <1>3. {l.id, l.tickets, l.work} \subseteq 1..UintMax
    BY <1>2, UintMaxAssumption DEF Acceptable, Positive, FitsWords, TaskLine
  <1>4. YieldFraction(l) \in 10..100
    BY DEF YieldFraction
  <1> QED
    BY <1>3, <1>4 DEF NodeFor, Node

\* Appending a node for such a line keeps the ids apart and the list short.
LEMMA AcceptLineKeepsInv ==
    ASSUME Inv, AcceptLine
    PROVE  Inv'
  <1> DEFINE l == Head(unread)
  <1>1. PICK created \in BOOLEAN : tasks' = Append(tasks, NodeFor(l, created))
    BY DEF AcceptLine
  <1>2. l \in Line /\ Acceptable(l) /\ Tail(unread) \in Seq(Line)
    BY HeadTailProperties DEF Inv, TypeOK, AcceptLine
  <1>3. NodeFor(l, created) \in Node
    BY <1>2, NodeForType
  <1>4. /\ tasks' \in Seq(Node)
        /\ Len(tasks') = Len(tasks) + 1
        /\ \A i \in 1..Len(tasks) : tasks'[i] = tasks[i]
        /\ tasks'[Len(tasks) + 1] = NodeFor(l, created)
    BY <1>1, <1>3, AppendProperties DEF Inv, TypeOK
  <1>5. Len(tasks) \in Nat /\ DOMAIN tasks = 1..Len(tasks) /\ DOMAIN tasks' = 1..Len(tasks')
    BY <1>4, LenProperties DEF Inv, TypeOK
  <1>6. total_tickets' \in 0..UintMax
    <2>1. l \in TaskLine
      BY <1>2 DEF Acceptable, Line
    <2> QED
      BY <1>2, <2>1, UintMaxAssumption
         DEF AcceptLine, Acceptable, SumFits, Positive, TaskLine, Inv, TypeOK
  <1>7. TypeOK'
    BY <1>2, <1>4, <1>6 DEF TypeOK, AcceptLine, Inv
  <1>8. Len(tasks') <= MaxTasks
    BY <1>2, <1>4, <1>5, TaskBoundsAssumption DEF Acceptable, RoomLeft
  <1>9. \A i \in 1..Len(tasks) : tasks[i].id # NodeFor(l, created).id
    BY <1>2, <1>5 DEF Acceptable, FreshId, NodeFor
  <1>10. ASSUME NEW i \in DOMAIN tasks', NEW j \in DOMAIN tasks', tasks'[i].id = tasks'[j].id
         PROVE  i = j
    <2>1. i \in 1..Len(tasks) \/ i = Len(tasks) + 1
      BY <1>4, <1>5
    <2>2. j \in 1..Len(tasks) \/ j = Len(tasks) + 1
      BY <1>4, <1>5
    <2>3. CASE i \in 1..Len(tasks) /\ j \in 1..Len(tasks)
      BY <1>4, <1>5, <1>10, <2>3 DEF Inv, Growing
    <2>4. CASE i \in 1..Len(tasks) /\ j = Len(tasks) + 1
      BY <1>4, <1>9, <1>10, <2>4
    <2>5. CASE i = Len(tasks) + 1 /\ j \in 1..Len(tasks)
      BY <1>4, <1>9, <1>10, <2>5
    <2> QED
      BY <2>1, <2>2, <2>3, <2>4, <2>5
  <1> QED
    BY <1>7, <1>8, <1>10 DEF Inv, Growing, AcceptLine

\* A failure leaves an empty list, which is not accepted.
LEMMA FailKeepsInv ==
    ASSUME Inv, Fail, unread' = unread
    PROVE  Inv'
  <1>1. tasks' = << >> /\ load' = "failed" /\ total_tickets' = total_tickets
    BY DEF Fail, ListAfterFailure
  <1>2. tasks' \in Seq(Node) /\ Len(tasks') = 0 /\ DOMAIN tasks' = {}
    BY <1>1, EmptySeq
  <1> QED
    BY <1>1, <1>2, TaskBoundsAssumption DEF Inv, TypeOK, Growing

\* parser_load starts with an empty list.
LEMMA InvInit == FileInit => Inv
  <1> SUFFICES ASSUME FileInit PROVE Inv
    OBVIOUS
  <1>1. tasks \in Seq(Node) /\ Len(tasks) = 0 /\ DOMAIN tasks = {} /\ unread \in Seq(Line)
    BY EmptySeq DEF FileInit
  <1> QED
    BY <1>1, TaskBoundsAssumption, UintMaxAssumption DEF FileInit, Inv, TypeOK, Growing

\* Every step of the parser keeps the invariant.
LEMMA InvStep ==
    ASSUME Inv, [LoadStep]_fileVars
    PROVE  Inv'
  <1>1. CASE OpenFile
    BY <1>1, TaskFilesAssumption DEF OpenFile, Inv, TypeOK, Growing
  <1>2. CASE OpenFails
    BY <1>2 DEF OpenFails, Inv, TypeOK, Growing
  <1>3. CASE ReadHeader
    <2>1. unread' \in Seq(Line)
      BY <1>3, HeadTailProperties DEF ReadHeader, Inv, TypeOK
    <2> QED
      BY <1>3, <2>1 DEF ReadHeader, Inv, TypeOK, Growing
  <1>4. CASE SkipEmptyLine
    <2>1. unread' \in Seq(Line)
      BY <1>4, HeadTailProperties DEF SkipEmptyLine, Inv, TypeOK
    <2> QED
      BY <1>4, <2>1 DEF SkipEmptyLine, Inv, TypeOK, Growing
  <1>5. CASE RejectLine
    BY <1>5, FailKeepsInv DEF RejectLine, FailAndFree
  <1>6. CASE AcceptLine
    BY <1>6, AcceptLineKeepsInv
  <1>7. CASE InsertFails
    BY <1>7, FailKeepsInv DEF InsertFails
  <1>8. CASE EndOfFile
    <2>1. CASE Len(tasks) < MinTasks
      BY <1>8, <2>1, FailKeepsInv DEF EndOfFile, FailAndFree
    <2>2. CASE ~(Len(tasks) < MinTasks)
      <3>1. Len(tasks) \in Nat
        BY LenProperties DEF Inv, TypeOK
      <3> QED
        BY <1>8, <2>2, <3>1, TaskBoundsAssumption DEF EndOfFile, Inv, TypeOK, Growing
    <2> QED
      BY <2>1, <2>2
  <1>9. CASE UNCHANGED fileVars
    BY <1>9 DEF fileVars, Inv, TypeOK, Growing
  <1> QED
    BY <1>1, <1>2, <1>3, <1>4, <1>5, <1>6, <1>7, <1>8, <1>9 DEF LoadStep

\* Every list that parser_load accepts is one the scheduler can run: within the
\* limits, with distinct ids, positive words, yields of at least 10 per cent
\* and a ticket sum that is a word (parser.c:95-230).
THEOREM ParserGuaranteesSchedulable == FileSpec => []AcceptedIsSchedulable
  <1>1. Inv => AcceptedIsSchedulable
    <2> SUFFICES ASSUME Inv, load = "loaded"
                 PROVE  /\ Len(tasks) \in MinTasks..MaxTasks
                        /\ \A i, j \in DOMAIN tasks : tasks[i].id = tasks[j].id => i = j
                        /\ \A i \in DOMAIN tasks :
                              /\ {tasks[i].id, tasks[i].tickets, tasks[i].work}
                                    \subseteq 1..UintMax
                              /\ tasks[i].yield \in 10..100
                        /\ total_tickets <= UintMax
      BY DEF AcceptedIsSchedulable
    <2>1. Len(tasks) \in Nat /\ \A i \in DOMAIN tasks : tasks[i] \in Node
      BY LenProperties, ElementOfSeq DEF Inv, TypeOK
    <2>2. Len(tasks) \in MinTasks..MaxTasks
      BY <2>1, TaskBoundsAssumption DEF Inv, Growing
    <2>3. \A i \in DOMAIN tasks :
             /\ {tasks[i].id, tasks[i].tickets, tasks[i].work} \subseteq 1..UintMax
             /\ tasks[i].yield \in 10..100
      BY <2>1 DEF Node
    <2>4. total_tickets <= UintMax
      BY UintMaxAssumption DEF Inv, TypeOK
    <2> QED
      BY <2>2, <2>3, <2>4 DEF Inv, Growing
  <1> QED
    BY InvInit, InvStep, <1>1, PTL DEF FileSpec

-----------------------------------------------------------------------------
\* Memory.  Before the first line of a task the list is empty.
Frees ==
    /\ RejectedLeavesNothing
    /\ load \in {"closed", "header"} => tasks = << >>

\* The tasks the list owns can be counted, and an empty list owns none.
LEMMA OwnedIsNatural ==
    ASSUME TypeOK
    PROVE  /\ Owned \in Nat
           /\ IsFiniteSet({i \in DOMAIN tasks : tasks[i].created})
           /\ tasks = << >> => Owned = 0
  <1>1. DOMAIN tasks = 1..Len(tasks) /\ Len(tasks) \in Nat
    BY LenProperties DEF TypeOK
  <1>2. IsFiniteSet(DOMAIN tasks)
    BY <1>1, FS_Interval
  <1>3. IsFiniteSet({i \in DOMAIN tasks : tasks[i].created})
    BY <1>2, FS_Subset
  <1>4. tasks = << >> => {i \in DOMAIN tasks : tasks[i].created} = {}
    BY EmptySeq
  <1> QED
    BY <1>3, <1>4, FS_CardinalityType, FS_EmptySet DEF Owned

\* A new node adds its task to those the list owns.
LEMMA AcceptLineCounts ==
    ASSUME Inv, AcceptLine, allocated = Owned
    PROVE  allocated' = Owned'
  <1> DEFINE l == Head(unread)
             S == {i \in DOMAIN tasks : tasks[i].created}
  <1>1. PICK created \in BOOLEAN : /\ tasks' = Append(tasks, NodeFor(l, created))
                                   /\ allocated' = allocated + (IF created THEN 1 ELSE 0)
    BY DEF AcceptLine
  <1>2. l \in Line /\ Acceptable(l)
    BY HeadTailProperties DEF Inv, TypeOK, AcceptLine
  <1>3. NodeFor(l, created) \in Node /\ NodeFor(l, created).created = created
    BY <1>2, NodeForType DEF NodeFor
  <1>4. /\ tasks' \in Seq(Node)
        /\ Len(tasks') = Len(tasks) + 1
        /\ \A i \in 1..Len(tasks) : tasks'[i] = tasks[i]
        /\ tasks'[Len(tasks) + 1] = NodeFor(l, created)
    BY <1>1, <1>3, AppendProperties DEF Inv, TypeOK
  <1>5. Len(tasks) \in Nat /\ DOMAIN tasks = 1..Len(tasks) /\ DOMAIN tasks' = 1..Len(tasks')
    BY <1>4, LenProperties DEF Inv, TypeOK
  <1>6. IsFiniteSet(S) /\ Owned \in Nat /\ Owned = Cardinality(S)
    BY OwnedIsNatural DEF Inv, Owned
  <1>7. Len(tasks) + 1 \notin S
    BY <1>5
  <1>8. {i \in DOMAIN tasks' : tasks'[i].created}
          = IF created THEN S \cup {Len(tasks) + 1} ELSE S
    <2>1. DOMAIN tasks' = DOMAIN tasks \cup {Len(tasks) + 1}
      BY <1>4, <1>5
    <2>2. \A i \in DOMAIN tasks : tasks'[i].created = tasks[i].created
      BY <1>4, <1>5
    <2>3. tasks'[Len(tasks) + 1].created = created
      BY <1>3, <1>4
    <2> QED
      BY <2>1, <2>2, <2>3
  <1>9. Cardinality({i \in DOMAIN tasks' : tasks'[i].created})
          = IF created THEN Owned + 1 ELSE Owned
    <2> HIDE DEF S
    <2> QED
      BY <1>6, <1>7, <1>8, FS_AddElement
  <1>10. Owned' = Cardinality({i \in DOMAIN tasks' : tasks'[i].created})
    BY DEF Owned
  <1>11. allocated' = allocated + (IF created THEN 1 ELSE 0)
    BY <1>1
  <1>12. CASE created
    BY <1>9, <1>10, <1>11, <1>12
  <1>13. CASE ~created
    <2>1. Owned \in Nat
      BY <1>6
    <2> QED
      BY <1>9, <1>10, <1>11, <1>13, <2>1
  <1> QED
    BY <1>12, <1>13

\* Nothing is allocated before the file is opened.
LEMMA FreesInitially == FileInit => Frees
  <1> SUFFICES ASSUME FileInit PROVE Frees
    OBVIOUS
  <1>1. Owned = 0
    BY InvInit, OwnedIsNatural DEF Inv, FileInit
  <1> QED
    BY <1>1 DEF FileInit, Frees, RejectedLeavesNothing

\* Every step keeps a rejected list freed.
LEMMA FreesStep ==
    ASSUME Inv, Frees, [LoadStep]_fileVars
    PROVE  Frees'
  <1> USE DEF Frees, RejectedLeavesNothing
  <1>1. Owned \in Nat /\ (tasks = << >> => Owned = 0)
    BY OwnedIsNatural DEF Inv
  <1>2. tasks' = tasks => Owned' = Owned
    BY DEF Owned
  <1>3. CASE OpenFile
    BY <1>2, <1>3 DEF OpenFile
  <1>4. CASE OpenFails
    BY <1>1, <1>4 DEF OpenFails
  <1>5. CASE ReadHeader
    BY <1>1, <1>2, <1>5 DEF ReadHeader
  <1>6. CASE SkipEmptyLine
    BY <1>2, <1>6 DEF SkipEmptyLine
  <1>7. CASE RejectLine
    BY <1>1, <1>7 DEF RejectLine, FailAndFree, Fail, ListAfterFailure
  <1>8. CASE AcceptLine
    BY <1>8, AcceptLineCounts DEF AcceptLine
  <1>9. CASE InsertFails
    BY <1>1, <1>9 DEF InsertFails, Fail, ListAfterFailure
  <1>10. CASE EndOfFile
    BY <1>1, <1>2, <1>10 DEF EndOfFile, FailAndFree, Fail, ListAfterFailure
  <1>11. CASE UNCHANGED fileVars
    BY <1>2, <1>11 DEF fileVars
  <1> QED
    BY <1>3, <1>4, <1>5, <1>6, <1>7, <1>8, <1>9, <1>10, <1>11 DEF LoadStep

\* Whatever the file and wherever memory runs out, a rejected file leaves
\* nothing allocated but, at most, the one task whose node could not be
\* (parser.c:203-230).
THEOREM ParserFreesRejectedLists == FileSpec => []RejectedLeavesNothing
  <1>1. Frees => RejectedLeavesNothing
    BY DEF Frees
  <1> QED
    BY InvInit, InvStep, FreesInitially, FreesStep, <1>1, PTL DEF FileSpec


-----------------------------------------------------------------------------
\* The file as a whole.

\* The lines read so far, and those of them that are tasks.
Read == Len(file) - Len(unread)

Seen == {k \in 2..Read : file[k].kind # "empty"}

IsGoodRow(k) ==
    /\ file[k].kind = "task"
    /\ {file[k].id, file[k].tickets, file[k].work} \subseteq 1..UintMax
    /\ file[k].yield \in 10..100 \cup {NoYield, NaN}

\* What the parser decides: the rows of a task file, with a header or not, in
\* which a yield may not be a number.
RowsPass ==
    /\ Cardinality(Rows) \in MinTasks..MaxTasks
    /\ \A k \in Rows : IsGoodRow(k)
    /\ \A j, k \in Rows : file[j].id = file[k].id => j = k
    /\ Cardinality(TicketsOf(Rows)) <= UintMax

\* The list and its sum are those of the lines seen, and every one was good.
ListIsSeen ==
    /\ Read \in 1..Len(file)
    /\ \A k \in 1..Len(unread) : unread[k] = file[Read + k]
    /\ \A k \in Seen : IsGoodRow(k)
    /\ InOrder(Seen)
    /\ Cardinality(Seen) = Len(tasks)
    /\ total_tickets = Cardinality(TicketsOf(Seen))

Checked ==
    /\ file \in Seq(Line) /\ (load = "closed" => file = << >>)
    /\ load \in {"closed", "header"} => unread = file /\ tasks = << >> /\ total_tickets = 0
    /\ load \in {"lines", "loaded"} => ListIsSeen
    /\ load = "loaded" => unread = << >>
    /\ load = "failed" /\ out_of_memory # "node" => ~RowsPass

\* An interval of numbers is finite.
LEMMA UpToIsFinite ==
    ASSUME NEW m \in Int, NEW n \in Nat
    PROVE  IsFiniteSet(m..n) /\ Cardinality(1..n) = n
  <1>1. n \in Int /\ 1 \in Int /\ n - 1 + 1 = n /\ (1 > n => n = 0)
    OBVIOUS
  <1>2. Cardinality(1..n) = IF 1 > n THEN 0 ELSE n - 1 + 1
    BY <1>1, FS_Interval
  <1>3. IsFiniteSet(m..n)
    BY <1>1, FS_Interval
  <1> QED
    BY <1>1, <1>2, <1>3

\* One more line has as many more tickets.
LEMMA TicketsOfOneMore ==
    ASSUME NEW rows, IsFiniteSet(rows), NEW r, r \notin rows, file[r].tickets \in 1..UintMax
    PROVE  /\ IsFiniteSet(TicketsOf(rows)) /\ IsFiniteSet(TicketsOf(rows \cup {r}))
           /\ Cardinality(TicketsOf(rows \cup {r}))
                = Cardinality(TicketsOf(rows)) + file[r].tickets
           /\ Cardinality(TicketsOf(rows)) \in Nat
  <1> DEFINE own == {r} \X (1..file[r].tickets)
  <1>1. UintMax \in Nat /\ file[r].tickets \in Nat
    BY UintMaxAssumption
  <1>2. IsFiniteSet(1..UintMax) /\ IsFiniteSet(1..file[r].tickets)
        /\ Cardinality(1..file[r].tickets) = file[r].tickets
    BY <1>1, UpToIsFinite
  <1>3. IsFiniteSet({r}) /\ Cardinality({r}) = 1
    BY FS_Singleton
  <1>4. IsFiniteSet(own) /\ Cardinality(own) = file[r].tickets
    <2>1. IsFiniteSet(own) /\ Cardinality(own) = Cardinality({r}) * Cardinality(1..file[r].tickets)
      BY <1>2, <1>3, FS_Product
    <2>2. 1 * file[r].tickets = file[r].tickets
      BY <1>1
    <2> QED
      BY <1>2, <1>3, <2>1, <2>2, Zenon
  <1>5. IsFiniteSet(TicketsOf(rows))
    <2>1. IsFiniteSet(rows \X (1..UintMax))
      BY <1>2, FS_Product
    <2>2. TicketsOf(rows) \subseteq rows \X (1..UintMax)
      BY DEF TicketsOf
    <2> QED
      BY <2>1, <2>2, FS_Subset
  <1>6. TicketsOf(rows \cup {r}) = TicketsOf(rows) \cup own
    BY UintMaxAssumption DEF TicketsOf
  <1>7. TicketsOf(rows) \cap own = {}
    BY DEF TicketsOf
  <1>8. Cardinality(TicketsOf(rows) \cap own) = 0
    BY <1>7, FS_EmptySet
  <1> HIDE DEF own
  <1>9. /\ IsFiniteSet(TicketsOf(rows) \cup own)
        /\ Cardinality(TicketsOf(rows) \cup own)
             = Cardinality(TicketsOf(rows)) + Cardinality(own)
                 - Cardinality(TicketsOf(rows) \cap own)
    BY <1>4, <1>5, FS_Union
  <1>10. Cardinality(TicketsOf(rows)) \in Nat
    BY <1>5, FS_CardinalityType
  <1>11. Cardinality(TicketsOf(rows) \cup own) = Cardinality(TicketsOf(rows)) + file[r].tickets
    BY <1>1, <1>4, <1>8, <1>9, <1>10
  <1> QED
    BY <1>5, <1>6, <1>9, <1>10, <1>11

\* The next line is one more, and one of the file.
LEMMA NextLine ==
    ASSUME Inv, Checked, load = "lines", unread # << >>
    PROVE  /\ Read + 1 \in 2..Len(file) /\ Head(unread) = file[Read + 1]
           /\ Read + 1 \notin Seen /\ IsFiniteSet(Seen)
           /\ Head(unread) \in Line
           /\ unread' = Tail(unread) /\ UNCHANGED file =>
                 /\ Read' = Read + 1
                 /\ \A k \in 1..Len(unread') : unread'[k] = file'[Read' + k]
                 /\ Seen' = IF Head(unread).kind = "empty" THEN Seen ELSE Seen \cup {Read + 1}
  <1>1. /\ file \in Seq(Line) /\ unread \in Seq(Line) /\ Len(file) \in Nat
        /\ Len(unread) \in Nat /\ Read \in 1..Len(file)
        /\ \A k \in 1..Len(unread) : unread[k] = file[Read + k]
    BY LenProperties DEF Inv, TypeOK, Checked, ListIsSeen
  <1>2. /\ Len(unread) > 0 /\ Head(unread) = unread[1] /\ Head(unread) \in Line
        /\ Tail(unread) \in Seq(Line) /\ Len(Tail(unread)) = Len(unread) - 1
        /\ \A k \in 1..(Len(unread) - 1) : Tail(unread)[k] = unread[k + 1]
    BY <1>1, EmptySeq, HeadTailProperties
  <1>3. Read = Len(file) - Len(unread)
    BY DEF Read
  <1>4. Read + 1 \in 2..Len(file) /\ Head(unread) = file[Read + 1]
    BY <1>1, <1>2, <1>3
  <1>5. Read + 1 \notin Seen
    BY <1>1 DEF Seen
  <1>6. IsFiniteSet(Seen)
    <2>1. IsFiniteSet(2..Read)
      BY <1>1, UpToIsFinite
    <2> QED
      BY <2>1, FS_Subset DEF Seen
  <1>7. ASSUME unread' = Tail(unread), UNCHANGED file
        PROVE  /\ Read' = Read + 1
               /\ \A k \in 1..Len(unread') : unread'[k] = file'[Read' + k]
               /\ Seen' = IF Head(unread).kind = "empty" THEN Seen ELSE Seen \cup {Read + 1}
    <2>1. Read' = Read + 1
      BY <1>1, <1>2, <1>3, <1>7 DEF Read
    <2>2. \A k \in 1..Len(unread') : unread'[k] = file[Read + 1 + k]
      BY <1>1, <1>2, <1>7
    <2>3. 2..(Read + 1) = (2..Read) \cup {Read + 1}
      BY <1>1
    <2>4. Seen' = {k \in 2..(Read + 1) : file[k].kind # "empty"}
      BY <1>7, <2>1 DEF Seen
    <2> QED
      BY <1>4, <1>7, <2>1, <2>2, <2>3, <2>4 DEF Seen
  <1> QED
    BY <1>2, <1>4, <1>5, <1>6, <1>7


\* A line that fails one of the tests makes the whole file a bad one.
LEMMA RejectedForAReason ==
    ASSUME Inv, Checked, load = "lines", unread # << >>, Head(unread).kind # "empty",
           RowsPass
    PROVE  Acceptable(Head(unread))
  <1> DEFINE r == Read + 1
             l == Head(unread)
  <1>1. /\ r \in 2..Len(file) /\ l = file[r] /\ r \notin Seen /\ IsFiniteSet(Seen)
    BY NextLine
  <1>2. ListIsSeen /\ Len(tasks) \in Nat /\ total_tickets \in 0..UintMax /\ Len(file) \in Nat
    BY LenProperties DEF Checked, Inv, TypeOK
  <1>3. r \in Rows /\ Seen \cup {r} \subseteq Rows
    BY <1>1, <1>2 DEF Rows, Seen, ListIsSeen
  <1>4. /\ l.kind = "task" /\ {l.id, l.tickets, l.work} \subseteq 1..UintMax
        /\ l.yield \in 10..100 \cup {NoYield, NaN}
    BY <1>1, <1>3 DEF RowsPass, IsGoodRow
  <1>5. IsFiniteSet(Rows)
    <2>1. IsFiniteSet(2..Len(file))
      BY <1>2, UpToIsFinite
    <2> QED
      BY <2>1, FS_Subset DEF Rows
  <1>6. RoomLeft
    <2>1. Cardinality(Seen \cup {r}) = Len(tasks) + 1
      BY <1>1, <1>2, FS_AddElement DEF ListIsSeen
    <2>2. Cardinality(Seen \cup {r}) <= Cardinality(Rows)
      BY <1>3, <1>5, FS_Subset
    <2> QED
      BY <1>2, <2>1, <2>2, TaskBoundsAssumption DEF RoomLeft, RowsPass
  <1>7. FreshId(l)
    <2>1. PICK line \in [DOMAIN tasks -> Seen] :
             \A i \in DOMAIN tasks : tasks[i] = NodeFor(file[line[i]], tasks[i].created)
      BY <1>2 DEF ListIsSeen, InOrder
    <2>2. ASSUME NEW i \in DOMAIN tasks PROVE tasks[i].id # l.id
      <3>1. line[i] \in Seen /\ tasks[i].id = file[line[i]].id
        BY <2>1 DEF NodeFor
      <3> QED
        BY <1>1, <1>3, <3>1 DEF RowsPass
    <2> QED
      BY <2>2 DEF FreshId
  <1>8. SumFits(l)
    <2>1. Cardinality(TicketsOf(Seen \cup {r})) = total_tickets + l.tickets
      BY <1>1, <1>2, <1>4, TicketsOfOneMore DEF ListIsSeen
    <2>2. TicketsOf(Seen \cup {r}) \subseteq TicketsOf(Rows)
      BY <1>3 DEF TicketsOf
    <2>3. IsFiniteSet(TicketsOf(Rows))
      <3>1. IsFiniteSet(1..UintMax)
        BY UintMaxAssumption, UpToIsFinite
      <3>2. IsFiniteSet(Rows \X (1..UintMax))
        BY <1>5, <3>1, FS_Product
      <3> QED
        BY <3>2, FS_Subset DEF TicketsOf
    <2>4. Cardinality(TicketsOf(Seen \cup {r})) <= Cardinality(TicketsOf(Rows))
      BY <2>2, <2>3, FS_Subset
    <2>5. Cardinality(TicketsOf(Rows)) \in Nat /\ Cardinality(TicketsOf(Rows)) <= UintMax
      BY <2>3, FS_CardinalityType DEF RowsPass
    <2> QED
      BY <1>2, <1>4, <2>1, <2>4, <2>5, UintMaxAssumption DEF SumFits
  <1> QED
    BY <1>4, <1>6, <1>7, <1>8, UintMaxAssumption
       DEF Acceptable, YieldAccepted, Positive, FitsWords

\* An accepted line is the next task of the list.
LEMMA AcceptedInOrder ==
    ASSUME Inv, Checked, AcceptLine
    PROVE  Checked'
  <1> DEFINE r == Read + 1
             l == Head(unread)
  <1>1. /\ r \in 2..Len(file) /\ l = file[r] /\ r \notin Seen /\ IsFiniteSet(Seen)
        /\ l \in Line /\ Acceptable(l) /\ l.kind = "task"
        /\ load = "lines" /\ load' = "lines" /\ UNCHANGED file
        /\ Read' = r /\ Seen' = Seen \cup {r}
        /\ \A k \in 1..Len(unread') : unread'[k] = file'[Read' + k]
    BY NextLine DEF AcceptLine, Acceptable
  <1>2. /\ ListIsSeen /\ Len(file) \in Nat /\ file \in Seq(Line)
        /\ tasks \in Seq(Node) /\ Len(tasks) \in Nat /\ DOMAIN tasks = 1..Len(tasks)
    BY <1>1, LenProperties DEF Checked, Inv, TypeOK
  <1>3. PICK created \in BOOLEAN : tasks' = Append(tasks, NodeFor(l, created))
    BY DEF AcceptLine
  <1>4. NodeFor(l, created) \in Node /\ NodeFor(l, created).created = created
    BY <1>1, NodeForType DEF NodeFor
  <1> DEFINE new == Len(tasks) + 1
  <1>5. /\ DOMAIN tasks' = 1..new /\ Len(tasks') = new
        /\ \A i \in DOMAIN tasks : tasks'[i] = tasks[i]
        /\ tasks'[new] = NodeFor(l, created)
    <2>1. /\ tasks' \in Seq(Node) /\ Len(tasks') = new
          /\ \A i \in 1..Len(tasks) : tasks'[i] = tasks[i]
          /\ tasks'[new] = NodeFor(l, created)
      BY <1>2, <1>3, <1>4, AppendProperties
    <2> QED
      BY <1>2, <2>1, LenProperties
  <1>6. IsGoodRow(r)
    <2>1. l \in TaskLine
      BY <1>1 DEF Line
    <2> QED
      BY <1>1, <2>1, UintMaxAssumption
         DEF IsGoodRow, Acceptable, YieldAccepted, Positive, FitsWords, TaskLine
  <1>7. InOrder(Seen)'
    <2>1. PICK line \in [DOMAIN tasks -> Seen] :
             /\ Seen = {line[i] : i \in DOMAIN tasks}
             /\ \A i, j \in DOMAIN tasks : i < j => line[i] < line[j]
             /\ \A i \in DOMAIN tasks : tasks[i] = NodeFor(file[line[i]], tasks[i].created)
      BY <1>2 DEF ListIsSeen, InOrder
    <2> DEFINE line2 == [i \in 1..new |-> IF i = new THEN r ELSE line[i]]
    <2>2. DOMAIN tasks' = DOMAIN tasks \cup {new} /\ new \notin DOMAIN tasks
      BY <1>2, <1>5
    <2>3. line2 \in [DOMAIN tasks' -> Seen \cup {r}]
      BY <1>5, <2>1, <2>2
    <2>4. /\ line2[new] = r /\ \A i \in DOMAIN tasks : line2[i] = line[i]
      BY <1>5, <2>2
    <2> HIDE DEF line2
    <2>5. Seen \cup {r} = {line2[i] : i \in DOMAIN tasks'}
      BY <2>1, <2>2, <2>4
    <2>6. ASSUME NEW i \in DOMAIN tasks', NEW j \in DOMAIN tasks', i < j
          PROVE  line2[i] < line2[j]
      <3>1. i \in DOMAIN tasks
        BY <1>2, <1>5, <2>6
      <3>2. CASE j = new
        <4>1. line[i] \in Seen /\ \A k \in Seen : k < r
          BY <1>1, <1>2, <2>1, <3>1 DEF Seen, ListIsSeen
        <4> QED
          BY <2>4, <3>1, <3>2, <4>1
      <3>3. CASE j # new
        BY <2>1, <2>2, <2>4, <2>6, <3>1, <3>3
      <3> QED
        BY <3>2, <3>3
    <2>7. ASSUME NEW i \in DOMAIN tasks'
          PROVE  tasks'[i] = NodeFor(file[line2[i]], tasks'[i].created)
      BY <1>1, <1>4, <1>5, <2>1, <2>2, <2>4
    <2> QED
      BY <1>1, <2>3, <2>5, <2>6, <2>7 DEF InOrder
  <1>8. Cardinality(Seen') = Len(tasks')
    BY <1>1, <1>2, <1>5, FS_AddElement DEF ListIsSeen
  <1>9. total_tickets' = Cardinality(TicketsOf(Seen))'
    <2>1. total_tickets' = total_tickets + l.tickets
      BY DEF AcceptLine
    <2>2. l.tickets \in 1..UintMax
      BY <1>1, <1>6 DEF IsGoodRow
    <2>3. Cardinality(TicketsOf(Seen \cup {r})) = total_tickets + l.tickets
      BY <1>1, <1>2, <2>2, TicketsOfOneMore DEF ListIsSeen
    <2>4. TicketsOf(Seen)' = TicketsOf(Seen \cup {r})
      BY <1>1 DEF TicketsOf
    <2> QED
      BY <2>1, <2>3, <2>4
  <1>10. \A k \in Seen' : IsGoodRow(k)'
    BY <1>1, <1>2, <1>6 DEF ListIsSeen, IsGoodRow
  <1>11. ListIsSeen'
    BY <1>1, <1>2, <1>7, <1>8, <1>9, <1>10 DEF ListIsSeen
  <1> QED
    BY <1>1, <1>2, <1>11 DEF Checked


\* A file without lines is no task file.
LEMMA EmptyFileIsBad == file = << >> => ~RowsPass
  <1> SUFFICES ASSUME file = << >> PROVE Cardinality(Rows) \notin MinTasks..MaxTasks
    BY DEF RowsPass
  <1>1. Len(file) = 0
    BY EmptySeq
  <1>2. Rows = {}
    BY <1>1 DEF Rows
  <1>3. Cardinality(Rows) = 0
    BY <1>2, FS_EmptySet
  <1> QED
    BY <1>3, TaskBoundsAssumption

\* After the header no task has been seen.
LEMMA HeaderSeen ==
    ASSUME Checked, ReadHeader, unread # << >>
    PROVE  ListIsSeen'
  <1>1. /\ unread = file /\ file \in Seq(Line) /\ tasks = << >> /\ total_tickets = 0
        /\ unread' = Tail(file) /\ UNCHANGED <<file, tasks, total_tickets>>
    BY DEF ReadHeader, Checked
  <1>2. /\ Len(file) \in Nat \ {0} /\ Len(unread') = Len(file) - 1
        /\ \A k \in 1..(Len(file) - 1) : unread'[k] = file[k + 1]
    BY <1>1, EmptySeq, LenProperties, HeadTailProperties
  <1>3. Read' = 1
    BY <1>1, <1>2 DEF Read
  <1>4. Seen' = {}
    BY <1>3 DEF Seen
  <1>5. Len(tasks) = 0 /\ DOMAIN tasks = {} /\ DOMAIN tasks' = {} /\ Len(tasks') = 0
    BY <1>1, EmptySeq
  <1>6. TicketsOf(Seen)' = {} /\ Cardinality({}) = 0
    BY <1>4, FS_EmptySet DEF TicketsOf
  <1>7. InOrder(Seen)'
    <2>1. [i \in {} |-> 0] \in [DOMAIN tasks' -> Seen']
      BY <1>5
    <2> QED
      BY <1>4, <1>5, <2>1 DEF InOrder
  <1>8. \A k \in 1..Len(unread') : unread'[k] = file'[Read' + k]
    BY <1>1, <1>2, <1>3
  <1>9. (\A k \in Seen : IsGoodRow(k))'
    BY <1>4
  <1>10. (Cardinality(Seen) = Len(tasks))' /\ (total_tickets = Cardinality(TicketsOf(Seen)))'
    BY <1>1, <1>4, <1>5, <1>6
  <1>11. Read' \in 1..Len(file')
    BY <1>1, <1>2, <1>3
  <1> QED
    BY <1>7, <1>8, <1>9, <1>10, <1>11 DEF ListIsSeen

\* What has been seen at the end is all there is.
LEMMA AllSeen ==
    ASSUME Inv, Checked, load \in {"lines", "loaded"}, unread = << >>
    PROVE  Seen = Rows
  <1>1. Read = Len(file)
    BY EmptySeq, LenProperties DEF Checked, Read
  <1> QED
    BY <1>1 DEF Seen, Rows

\* Every step keeps the list the tasks of the lines seen so far.
LEMMA CheckedStep ==
    ASSUME Inv, Checked, [LoadStep]_fileVars
    PROVE  Checked'
  <1>1. CASE OpenFile
    BY <1>1, TaskFilesAssumption DEF OpenFile, Checked
  <1>2. ASSUME UNCHANGED file PROVE RowsPass' <=> RowsPass
    BY <1>2 DEF RowsPass, IsGoodRow, Rows, TicketsOf
  <1>3. CASE OpenFails
    BY <1>2, <1>3, EmptyFileIsBad DEF OpenFails, Checked
  <1>4. CASE ReadHeader
    <2>1. CASE unread = << >>
      BY <1>2, <1>4, <2>1, EmptyFileIsBad DEF ReadHeader, Checked
    <2>2. CASE unread # << >>
      BY <1>4, <2>2, HeaderSeen DEF ReadHeader, Checked
    <2> QED
      BY <2>1, <2>2
  <1>5. CASE SkipEmptyLine
    <2>1. /\ load = "lines" /\ load' = "lines" /\ UNCHANGED <<file, tasks, total_tickets>>
          /\ Seen' = Seen /\ Read' = Read + 1 /\ Read + 1 \in 2..Len(file)
          /\ \A k \in 1..Len(unread') : unread'[k] = file'[Read' + k]
          /\ ListIsSeen
      BY <1>5, NextLine DEF SkipEmptyLine, Checked
    <2>2. Read' \in 1..Len(file)
      BY <2>1
    <2>3. ListIsSeen'
      BY <2>1, <2>2 DEF ListIsSeen, IsGoodRow, InOrder, TicketsOf
    <2> QED
      BY <2>1, <2>3 DEF Checked
  <1>6. CASE RejectLine
    <2>1. ~RowsPass
      BY <1>6, RejectedForAReason DEF RejectLine
    <2>2. load' = "failed" /\ UNCHANGED file
      BY <1>6 DEF RejectLine, FailAndFree, Fail
    <2> QED
      BY <1>2, <2>1, <2>2 DEF Checked
  <1>7. CASE AcceptLine
    BY <1>7, AcceptedInOrder
  <1>8. CASE InsertFails
    BY <1>8 DEF InsertFails, Fail, Checked
  <1>9. CASE EndOfFile
    <2>1. CASE Len(tasks) < MinTasks
      <3>1. Cardinality(Rows) = Len(tasks) /\ Len(tasks) \in Nat
        BY <1>9, AllSeen, LenProperties DEF EndOfFile, Checked, ListIsSeen, Inv, TypeOK
      <3>2. ~RowsPass
        BY <2>1, <3>1, TaskBoundsAssumption DEF RowsPass
      <3>3. load' = "failed" /\ UNCHANGED file
        BY <1>9, <2>1 DEF EndOfFile, FailAndFree, Fail
      <3> QED
        BY <1>2, <3>2, <3>3 DEF Checked
    <2>2. CASE ~(Len(tasks) < MinTasks)
      <3>1. /\ load = "lines" /\ load' = "loaded" /\ unread = << >>
            /\ UNCHANGED <<file, unread, tasks, total_tickets>>
        BY <1>9, <2>2 DEF EndOfFile
      <3>2. ListIsSeen'
        <4>1. UNCHANGED <<Read, Seen>>
          BY <3>1 DEF Read, Seen
        <4> QED
          BY <3>1, <4>1 DEF Checked, ListIsSeen, IsGoodRow, InOrder, TicketsOf
      <3> QED
        BY <3>1, <3>2 DEF Checked
    <2> QED
      BY <2>1, <2>2
  <1>10. CASE UNCHANGED fileVars
    <2>1. UNCHANGED <<load, file, unread, tasks, total_tickets, out_of_memory>>
      BY <1>10 DEF fileVars
    <2>2. ListIsSeen' <=> ListIsSeen
      BY <2>1 DEF ListIsSeen, Seen, Read, IsGoodRow, InOrder, TicketsOf
    <2> QED
      BY <1>2, <2>1, <2>2 DEF Checked
  <1> QED
    BY <1>1, <1>3, <1>4, <1>5, <1>6, <1>7, <1>8, <1>9, <1>10 DEF LoadStep

\* The parser accepts a file with a header and with numbers for yields exactly if
\* all of it is right: no line is compared too early or too late, whatever comes
\* first, and none is lost or moved (parser.c:119-223).
THEOREM ParserDecidesTaskFiles == FileSpec => []AcceptsExactlyTaskFiles
  <1>1. FileInit => Checked
    <2> SUFFICES ASSUME FileInit PROVE Checked
      OBVIOUS
    <2>1. << >> \in Seq(Line)
      BY EmptySeq
    <2> QED
      BY <2>1 DEF FileInit, Checked
  <1>2. Inv /\ Checked /\ load = "loaded" => RowsPass /\ InOrder(Rows)
    <2> SUFFICES ASSUME Inv, Checked, load = "loaded"
                 PROVE  RowsPass /\ InOrder(Rows)
      OBVIOUS
    <2>1. /\ Seen = Rows /\ ListIsSeen /\ total_tickets \in 0..UintMax
          /\ Len(tasks) \in Nat /\ Len(tasks) <= MaxTasks /\ Len(tasks) >= MinTasks
          /\ \A i, j \in DOMAIN tasks : tasks[i].id = tasks[j].id => i = j
      BY AllSeen, LenProperties DEF Checked, Inv, TypeOK, Growing
    <2>2. \A j, k \in Rows : file[j].id = file[k].id => j = k
      <3>1. PICK line \in [DOMAIN tasks -> Rows] :
               /\ Rows = {line[i] : i \in DOMAIN tasks}
               /\ \A i \in DOMAIN tasks : tasks[i] = NodeFor(file[line[i]], tasks[i].created)
        BY <2>1 DEF ListIsSeen, InOrder
      <3>2. \A i \in DOMAIN tasks : tasks[i].id = file[line[i]].id
        BY <3>1 DEF NodeFor
      <3>3. ASSUME NEW j \in Rows, NEW k \in Rows, file[j].id = file[k].id PROVE j = k
        <4>1. PICK a \in DOMAIN tasks : j = line[a]
          BY <3>1
        <4>2. PICK b \in DOMAIN tasks : k = line[b]
          BY <3>1
        <4>3. tasks[a].id = tasks[b].id
          BY <3>2, <3>3, <4>1, <4>2
        <4> QED
          BY <2>1, <4>1, <4>2, <4>3
      <3> QED
        BY <3>3
    <2>3. Cardinality(Rows) \in MinTasks..MaxTasks
      BY <2>1, TaskBoundsAssumption DEF ListIsSeen
    <2>4. Cardinality(TicketsOf(Rows)) <= UintMax
      BY <2>1, UintMaxAssumption DEF ListIsSeen
    <2> QED
      BY <2>1, <2>2, <2>3, <2>4 DEF RowsPass, ListIsSeen
  <1>3. IsTaskFile => RowsPass
    BY DEF IsTaskFile, RowsPass, IsGoodRow, YieldInRange
  <1>4. RowsPass /\ HasHeader /\ (\A k \in Rows : file[k].yield # NaN) => IsTaskFile
    BY DEF IsTaskFile, RowsPass, IsGoodRow, YieldInRange
  <1>5. Inv /\ Checked => AcceptsExactlyTaskFiles
    BY <1>2, <1>3, <1>4 DEF AcceptsExactlyTaskFiles, Checked
  <1> QED
    BY InvInit, InvStep, CheckedStep, <1>1, <1>5, PTL DEF FileSpec

-----------------------------------------------------------------------------
(***************************************************************************)
(* The generator, for any word size and any shifts, is a permutation of the *)
(* nonzero words.  This is what the scheduler's module assumes of it        *)
(* (RngNextAssumption of Lottery).                                          *)
(***************************************************************************)

\* A nonempty set of numbers up to N has a least element: the strict subset
\* relation on its initial segments is well-founded.
LEMMA Least ==
    ASSUME NEW N \in Nat, NEW T \in SUBSET (0..N), T # {}
    PROVE  \E x \in T : \A y \in T : x <= y
  <1> DEFINE Upto(m) == T \cap (0..m)
             F == {Upto(m) : m \in T}
             R == StrictSubsetOrdering(0..N)
  <1>1. IsWellFoundedOn(R, SUBSET (0..N))
    <2>1. IsFiniteSet(0..N)
      BY FS_Interval
    <2>2. FiniteSubsetsOf(0..N) = SUBSET (0..N)
      BY <2>1, FS_FiniteSubsetsOfFinite, Zenon
    <2> QED
      BY <2>2, FS_StrictSubsetOrderingWellFounded, Zenon
  <1>2. \E x \in F : \A y \in F : ~ (<<y, x>> \in R)
    <2>1. F \subseteq SUBSET (0..N) /\ F # {}
      OBVIOUS
    <2> HIDE DEF R, F
    <2> QED
      BY <1>1, <2>1, WFMin, Zenon
  <1>3. PICK m \in T : \A y \in T : ~ (<<Upto(y), Upto(m)>> \in R)
    BY <1>2
  <1>4. ASSUME NEW y \in T, y < m
        PROVE  FALSE
    <2>1. Upto(y) \subseteq Upto(m) /\ m \notin Upto(y) /\ m \in Upto(m)
      BY <1>4
    <2>2. Upto(y) \in SUBSET (0..N) /\ Upto(m) \in SUBSET (0..N)
      OBVIOUS
    <2>3. <<Upto(y), Upto(m)>> \in R
      <3> HIDE DEF Upto
      <3> QED
        BY <2>1, <2>2 DEF StrictSubsetOrdering
    <2> QED
      BY <1>3, <2>3
  <1> QED
    BY <1>4

\* And it has a greatest one: the least of its mirror image.
LEMMA Greatest ==
    ASSUME NEW N \in Nat, NEW T \in SUBSET (0..N), T # {}
    PROVE  \E x \in T : \A y \in T : x >= y
  <1> DEFINE M == {N - i : i \in T}
  <1>1. M \in SUBSET (0..N) /\ M # {}
    <2>1. \A i \in T : N - i \in 0..N
      OBVIOUS
    <2>2. PICK i \in T : TRUE
      OBVIOUS
    <2>3. N - i \in M
      OBVIOUS
    <2> QED
      BY <2>1, <2>3
  <1>2. PICK x \in M : \A y \in M : x <= y
    <2> HIDE DEF M
    <2> QED
      BY <1>1, Least
  <1>3. PICK i \in T : x = N - i
    BY <1>2
  <1>4. \A j \in T : N - i <= N - j
    BY <1>2, <1>3
  <1> QED
    BY <1>3, <1>4

\* The bits of an exclusive or with a shifted word.
LEMMA BitOfXorLeft ==
    ASSUME NEW x \in BitWord, NEW n \in Nat, NEW b \in Bit
    PROVE  b \in XorLeft(x, n) <=> ~(b \in x <=> b - n \in x)
  <1>1. b \in ShiftLeft(x, n) <=> b - n \in x
    BY WordSizeAssumption DEF ShiftLeft, Bit, BitWord
  <1> QED
    BY <1>1 DEF XorLeft, Xor

\* A bit of a word after the exclusive or with its shift to the right.
LEMMA BitOfXorRight ==
    ASSUME NEW x \in BitWord, NEW n \in Nat, NEW b \in Bit
    PROVE  b \in XorRight(x, n) <=> ~(b \in x <=> b + n \in x)
  <1>1. b \in ShiftRight(x, n) <=> b + n \in x
    BY WordSizeAssumption DEF ShiftRight, Bit, BitWord
  <1> QED
    BY <1>1 DEF XorRight, Xor

\* Both stay within the word and keep the zero word.
LEMMA XorShiftType ==
    ASSUME NEW x \in BitWord, NEW n \in Nat
    PROVE  /\ XorLeft(x, n) \in BitWord
           /\ XorRight(x, n) \in BitWord
           /\ XorLeft(Zero, n) = Zero
           /\ XorRight(Zero, n) = Zero
  BY DEF XorLeft, XorRight, Xor, ShiftLeft, ShiftRight, BitWord, Zero

\* x ^= x << n loses nothing: below the lowest bit in which two words differ
\* they are shifted alike, so that bit still tells them apart.
LEMMA XorLeftInjective ==
    ASSUME NEW x \in BitWord, NEW y \in BitWord, NEW n \in Nat \ {0},
           XorLeft(x, n) = XorLeft(y, n)
    PROVE  x = y
  <1> SUFFICES ASSUME x # y PROVE FALSE
    OBVIOUS
  <1>1. WordSize - 1 \in Nat
    BY WordSizeAssumption
  <1>2. Xor(x, y) \in SUBSET (0..(WordSize - 1)) /\ Xor(x, y) # {}
    BY DEF Xor, BitWord, Bit
  <1>3. PICK b \in Xor(x, y) : \A c \in Xor(x, y) : b <= c
    BY <1>1, <1>2, Least
  <1>4. b \in Bit /\ (b \in x <=> b \notin y)
    BY <1>3 DEF Xor, BitWord
  <1>5. b - n \in x <=> b - n \in y
    <2>1. b - n \notin Xor(x, y)
      BY <1>3, <1>4, WordSizeAssumption DEF Bit
    <2> QED
      BY <2>1 DEF Xor
  <1> QED
    BY <1>4, <1>5, BitOfXorLeft

\* x ^= x >> n loses nothing either: take the highest such bit.
LEMMA XorRightInjective ==
    ASSUME NEW x \in BitWord, NEW y \in BitWord, NEW n \in Nat \ {0},
           XorRight(x, n) = XorRight(y, n)
    PROVE  x = y
  <1> SUFFICES ASSUME x # y PROVE FALSE
    OBVIOUS
  <1>1. WordSize - 1 \in Nat
    BY WordSizeAssumption
  <1>2. Xor(x, y) \in SUBSET (0..(WordSize - 1)) /\ Xor(x, y) # {}
    BY DEF Xor, BitWord, Bit
  <1>3. PICK b \in Xor(x, y) : \A c \in Xor(x, y) : b >= c
    BY <1>1, <1>2, Greatest
  <1>4. b \in Bit /\ (b \in x <=> b \notin y)
    BY <1>3 DEF Xor, BitWord
  <1>5. b + n \in x <=> b + n \in y
    <2>1. b + n \notin Xor(x, y)
      BY <1>3, <1>4, WordSizeAssumption DEF Bit
    <2> QED
      BY <2>1 DEF Xor
  <1> QED
    BY <1>4, <1>5, BitOfXorRight

\* Two generators that hold different words never come to hold the same one, so
\* every seed has its own sequence of draws and the sequence only ever returns
\* to its seed (rng.c:37-48).
THEOREM GeneratorIsInjective ==
    \A x, y \in BitWord : NextWord(x) = NextWord(y) => x = y
  <1> SUFFICES ASSUME NEW x \in BitWord, NEW y \in BitWord, NextWord(x) = NextWord(y)
               PROVE  x = y
    OBVIOUS
  <1>1. {Shift1, Shift2, Shift3} \subseteq Nat \ {0}
    BY ShiftAssumption
  <1>2. XorRight(XorLeft(x, Shift1), Shift2) = XorRight(XorLeft(y, Shift1), Shift2)
    BY <1>1, XorShiftType, XorLeftInjective DEF NextWord
  <1>3. XorLeft(x, Shift1) = XorLeft(y, Shift1)
    BY <1>1, <1>2, XorShiftType, XorRightInjective
  <1> QED
    BY <1>1, <1>3, XorLeftInjective

\* A generator that has been seeded never reaches the word 0, with which it
\* would refuse every later draw (rng.c:28-29, 37-48).
THEOREM GeneratorStaysSeeded ==
    \A x \in BitWord \ {Zero} : NextWord(x) \in BitWord \ {Zero}
  <1> SUFFICES ASSUME NEW x \in BitWord, x # Zero
               PROVE  NextWord(x) \in BitWord /\ NextWord(x) # Zero
    OBVIOUS
  <1>1. {Shift1, Shift2, Shift3} \subseteq Nat \ {0}
    BY ShiftAssumption
  <1>2. NextWord(x) \in BitWord
    BY <1>1, XorShiftType DEF NextWord
  <1>3. Zero \in BitWord /\ NextWord(Zero) = Zero
    BY <1>1, XorShiftType DEF NextWord, BitWord, Zero
  <1> QED
    BY <1>2, <1>3, GeneratorIsInjective

-----------------------------------------------------------------------------
Fields == TextOption \cup NumberOption \cup {"slice_percent", "compensation"}

\* The options are a record whose numbers fit their types, and those that were
\* validated are valid.
OptionsSound ==
    /\ param = [f \in Fields |-> param[f]]
    /\ \A f \in NumberOption : param[f] \in 0..UintMax
    /\ param.slice_percent \in 0..100
    /\ cli = "validated" => Valid

\* The limit on the number of dispatches, where the program can count so far.
LimitGiven == param.max_dispatches \in 1..(UintMax - 1)

\* Once the generator has been seeded it stays so.
GeneratorSeeded ==
    /\ rng_seed \in BitWord
    /\ cli = "validated" /\ phase \notin {"options", "load", "ended"} => rng_seed # Zero

\* An option puts a number of its type into its own field (parser.c:262-337).
LEMMA OptionKeepsTypes ==
    ASSUME OptionsSound, NEW o \in DOMAIN Arguments, NEW v \in Arguments[o], Legal(o, v),
           param' = [param EXCEPT ![o] = Parsed(o, v)]
    PROVE  /\ param' = [f \in Fields |-> param'[f]]
           /\ \A f \in NumberOption : param'[f] \in 0..UintMax
           /\ param'.slice_percent \in 0..100
  <1> USE DEF OptionsSound
  <1>1. o \in Fields /\ NumberOption \subseteq Fields /\ "slice_percent" \in Fields
    BY ArgumentsAssumption DEF Fields
  <1>2. /\ param' = [f \in Fields |-> param'[f]]
        /\ \A f \in Fields : param'[f] = IF f = o THEN Parsed(o, v) ELSE param[f]
    BY <1>1
  <1>3. o \in NumberOption => Parsed(o, v) \in 0..UintMax
    BY UintMaxAssumption DEF Legal, Parsed, ParsesUint32, TextOption, NumberOption
  <1>4. o = "slice_percent" => Parsed(o, v) \in 0..100
    BY DEF Legal, Parsed, ParsesPercentage, TextOption, NumberOption
  <1> QED
    BY <1>1, <1>2, <1>3, <1>4

\* Every option read keeps the options sound.
LEMMA OptionsStep ==
    ASSUME OptionsSound, CommandStep
    PROVE  OptionsSound'
  <1>1. CASE OptionWithArgument
    <2>1. PICK o \in DOMAIN Arguments : \E v \in Arguments[o] :
             \/ Legal(o, v) /\ param' = [param EXCEPT ![o] = Parsed(o, v)] /\ UNCHANGED cli
             \/ ~Legal(o, v) /\ cli' = "refused" /\ UNCHANGED param
      BY <1>1 DEF OptionWithArgument
    <2>2. PICK v \in Arguments[o] :
             \/ Legal(o, v) /\ param' = [param EXCEPT ![o] = Parsed(o, v)] /\ UNCHANGED cli
             \/ ~Legal(o, v) /\ cli' = "refused" /\ UNCHANGED param
      BY <2>1
    <2>3. cli' # "validated"
      BY <1>1, <2>2 DEF OptionWithArgument
    <2>4. CASE Legal(o, v)
      BY <2>2, <2>3, <2>4, OptionKeepsTypes DEF OptionsSound
    <2>5. CASE ~Legal(o, v)
      BY <2>2, <2>3, <2>5 DEF OptionsSound
    <2> QED
      BY <2>4, <2>5
  <1>2. CASE ShortTextOption
    <2>1. PICK o \in TextOption : param' = [param EXCEPT ![o] = NULL]
      BY <1>2 DEF ShortTextOption
    <2>2. o \notin NumberOption \cup {"slice_percent"} /\ o \in Fields
      BY DEF TextOption, NumberOption, Fields
    <2> QED
      BY <1>2, <2>1, <2>2 DEF OptionsSound, ShortTextOption, Fields, NumberOption
  <1>3. CASE Compensation
    BY <1>3 DEF OptionsSound, Compensation, Fields, NumberOption
  <1>4. CASE ShortNumberOption \/ Help \/ UnknownOption
    BY <1>4 DEF OptionsSound, ShortNumberOption, Help, UnknownOption
  <1>5. CASE EndOfOptions
    <2>1. cli' = "validated" => Valid'
      BY <1>5 DEF EndOfOptions, Valid, InputExists, IsString, ModeGiven, AllotmentGiven,
                  PathsAreStrings
    <2> QED
      BY <1>5, <2>1 DEF OptionsSound, EndOfOptions
  <1> QED
    BY <1>1, <1>2, <1>3, <1>4, <1>5 DEF CommandStep

\* Once main has its options they stay as they are.
LEMMA OptionsStay ==
    ASSUME UNCHANGED cliVars
    PROVE  /\ OptionsSound => OptionsSound'
           /\ UNCHANGED <<cli, param, LimitGiven, EventsTarget, SummaryTarget>>
  <1>1. UNCHANGED <<cli, param>>
    BY DEF cliVars
  <1>2. Valid => Valid'
    BY <1>1 DEF Valid, InputExists, IsString, ModeGiven, AllotmentGiven, PathsAreStrings
  <1> QED
    BY <1>1, <1>2 DEF OptionsSound, LimitGiven, EventsTarget, SummaryTarget

-----------------------------------------------------------------------------
\* What the parts guarantee each other.

\* Only a task that could not be allocated is missing from its node.
MissingIsRecorded == \A i \in DOMAIN tasks : ~tasks[i].created => out_of_memory = "task"

\* The task list is what parser_load made of it until main frees it.
ListSound ==
    /\ phase # "ended" => Inv /\ Frees /\ MissingIsRecorded
    /\ phase \notin {"options", "load", "ended"} => load = "loaded"

\* A node without its task is only made where memory runs out (parser.c:196-209).
LEMMA MissingStep ==
    ASSUME Inv, MissingIsRecorded, [LoadStep]_fileVars
    PROVE  MissingIsRecorded'
  <1> USE DEF MissingIsRecorded
  <1>1. tasks' = << >> => MissingIsRecorded'
    BY EmptySeq
  <1>2. CASE AcceptLine
    <2>1. PICK created \in BOOLEAN :
             /\ tasks' = Append(tasks, NodeFor(Head(unread), created))
             /\ out_of_memory' = IF created THEN out_of_memory ELSE "task"
      BY <1>2 DEF AcceptLine
    <2>2. NodeFor(Head(unread), created) \in Node
      BY <1>2, HeadTailProperties, NodeForType DEF AcceptLine, Inv, TypeOK
    <2>3. /\ Len(tasks') = Len(tasks) + 1 /\ tasks' \in Seq(Node)
          /\ \A i \in 1..Len(tasks) : tasks'[i] = tasks[i]
          /\ tasks'[Len(tasks) + 1] = NodeFor(Head(unread), created)
      BY <2>1, <2>2, AppendProperties DEF Inv, TypeOK
    <2>4. /\ DOMAIN tasks' = DOMAIN tasks \cup {Len(tasks) + 1}
          /\ DOMAIN tasks = 1..Len(tasks)
      BY <2>3, LenProperties DEF Inv, TypeOK
    <2>5. tasks'[Len(tasks) + 1].created = created
      BY <2>3 DEF NodeFor
    <2> QED
      BY <2>1, <2>3, <2>4, <2>5
  <1>3. CASE RejectLine \/ InsertFails
    BY <1>1, <1>3 DEF RejectLine, InsertFails, FailAndFree, Fail, ListAfterFailure
  <1>4. CASE EndOfFile
    BY <1>1, <1>4 DEF EndOfFile, FailAndFree, Fail, ListAfterFailure
  <1>5. CASE OpenFile \/ OpenFails \/ ReadHeader \/ SkipEmptyLine \/ UNCHANGED fileVars
    BY <1>5 DEF OpenFile, OpenFails, ReadHeader, SkipEmptyLine, fileVars
  <1> QED
    BY <1>2, <1>3, <1>4, <1>5 DEF LoadStep

\* Every step of a run keeps the list sound, whoever takes it.
LEMMA ListStep ==
    ASSUME ListSound, [ProgramNext]_vars
    PROVE  ListSound'
  <1>1. ASSUME phase # "ended", [LoadStep]_fileVars
        PROVE  Inv' /\ Frees' /\ MissingIsRecorded'
    BY <1>1, InvStep, FreesStep, MissingStep DEF ListSound
  <1>2. CASE ReadOptions
    BY <1>1, <1>2 DEF ListSound, ReadOptions, mainVars, fileVars
  <1>3. CASE Load
    BY <1>1, <1>3 DEF ListSound, Load, mainVars
  <1>4. CASE CleanList
    BY <1>4 DEF ListSound, CleanList, Exit
  <1>5. CASE Loaded
    BY <1>1, <1>5 DEF ListSound, Loaded, Exit, GoTo, fileVars
  <1>6. CASE OptionsRead
    BY <1>1, <1>6 DEF ListSound, OptionsRead, Exit, GoTo, fileVars
  <1>7. CASE CreateWorker
    BY <1>1, <1>7 DEF ListSound, CreateWorker, Exit, fileVars
  <1>8. CASE CreateWorkerFails \/ WorkersCreated \/ MissingTaskCrashes
    BY <1>1, <1>8 DEF ListSound, CreateWorkerFails, WorkersCreated, MissingTaskCrashes,
                      Exit, GoTo, fileVars
  <1>9. CASE Configure \/ InitLogger
    BY <1>1, <1>9 DEF ListSound, Configure, InitLogger, Exit, GoTo, fileVars
  <1>10. CASE Dispatch
    BY <1>1, <1>10 DEF ListSound, Dispatch, fileVars
  <1>11. CASE LogResult \/ LogCrashes \/ LoopEnds
    BY <1>1, <1>11 DEF ListSound, LogResult, LogCrashes, LoopEnds, Exit, GoTo, fileVars
  <1>12. CASE Summarise \/ JoinWorker
    BY <1>1, <1>12 DEF ListSound, Summarise, JoinWorker, GoTo, fileVars
  <1>13. CASE UNCHANGED vars
    BY <1>1, <1>13 DEF ListSound, vars, mainVars, fileVars
  <1> QED
    BY <1>2, <1>3, <1>4, <1>5, <1>6, <1>7, <1>8, <1>9, <1>10, <1>11, <1>12, <1>13
       DEF ProgramNext, MainStep

\* Only parser_load and dll_clean_list change the list.
LEMMA ListStays ==
    ASSUME [ProgramNext]_vars, phase # "load", phase # "join"
    PROVE  UNCHANGED fileVars
  <1> QED
    BY DEF ProgramNext, MainStep, ReadOptions, OptionsRead, Load, Loaded, CreateWorker,
           CreateWorkerFails, WorkersCreated, MissingTaskCrashes, Configure, InitLogger,
           Dispatch, LogResult, LogCrashes, LoopEnds, Summarise, JoinWorker, CleanList,
           vars, mainVars, fileVars

\* The list of a run whose file was accepted.
LEMMA Accepted ==
    ASSUME ListSound, phase \notin {"options", "load", "ended"}
    PROVE  /\ tasks \in Seq(Node) /\ Nodes = 1..Len(tasks) /\ Len(tasks) \in Nat \ {0}
           /\ \A i \in Nodes : tasks[i] \in Node
           /\ \A i, j \in Nodes : tasks[i].id = tasks[j].id => i = j
           /\ allocated = Owned /\ MissingIsRecorded
  <1>1. Inv /\ Frees /\ MissingIsRecorded /\ load = "loaded"
    BY DEF ListSound
  <1>2. tasks \in Seq(Node)
    BY <1>1 DEF Inv, TypeOK
  <1>3. Nodes = 1..Len(tasks) /\ Len(tasks) \in Nat /\ \A i \in Nodes : tasks[i] \in Node
    BY <1>2, LenProperties, ElementOfSeq DEF Nodes
  <1>4. Len(tasks) # 0
    BY <1>1, <1>3, TaskBoundsAssumption DEF Inv, Growing
  <1>5. \A i, j \in Nodes : tasks[i].id = tasks[j].id => i = j
    BY <1>1 DEF Inv, Growing, Nodes
  <1> QED
    BY <1>1, <1>2, <1>3, <1>4, <1>5 DEF Frees, RejectedLeavesNothing

-----------------------------------------------------------------------------
\* The workers.

\* Each worker created is found by the id of its task.
Findable ==
    \A i \in 1..started : tasks[i].id \in Slots /\ threads_per_task[tasks[i].id] = i

\* The workers are created in the order of the list, and joined in it.
WorkersFound ==
    /\ threads_per_task = [id \in Slots |-> threads_per_task[id]]
    /\ phase # "ended" => outcome = "none" /\ started \in 0..Len(tasks) /\ Findable
    /\ phase \in {"options", "load"} => started = 0
    /\ phase \in {"configure", "logger", "loop", "summary", "join"} => started = Len(tasks)
    /\ phase \notin {"join", "ended"} => joined = << >>
    /\ phase = "join" =>
          /\ joined \in Seq(Nat) /\ Len(joined) <= started
          /\ \A k \in 1..Len(joined) : joined[k] = k
    /\ EndsClean

\* The new worker is found by its id, which no worker before it has.
LEMMA CreatedIsFound ==
    ASSUME ListSound, WorkersFound, CreateWorker
    PROVE  WorkersFound'
  <1>1. /\ phase = "threads" /\ started < Len(tasks) /\ UNCHANGED <<tasks, joined>>
        /\ started \in 0..Len(tasks)
    BY DEF CreateWorker, WorkersFound, fileVars
  <1>2. /\ Len(tasks) \in Nat /\ Nodes = 1..Len(tasks)
        /\ \A i, j \in Nodes : tasks[i].id = tasks[j].id => i = j
    BY <1>1, Accepted
  <1> DEFINE new == started + 1
             id == tasks[new].id
  <1>3. CASE id \in Slots
    <2>1. /\ threads_per_task' = [threads_per_task EXCEPT ![id] = new]
          /\ started' = new /\ UNCHANGED <<phase, outcome>>
      BY <1>3 DEF CreateWorker
    <2>2. /\ threads_per_task' = [k \in Slots |-> threads_per_task'[k]]
          /\ \A k \in Slots : threads_per_task'[k] = IF k = id THEN new ELSE threads_per_task[k]
      BY <1>3, <2>1 DEF WorkersFound
    <2>3. ASSUME NEW i \in 1..new
          PROVE  tasks[i].id \in Slots /\ threads_per_task'[tasks[i].id] = i
      <3>1. CASE i = new
        BY <1>3, <2>2, <3>1
      <3>2. CASE i # new
        <4>1. i \in 1..started /\ i \in Nodes /\ new \in Nodes
          BY <1>1, <1>2, <3>2
        <4>2. tasks[i].id \in Slots /\ threads_per_task[tasks[i].id] = i
          BY <1>1, <4>1 DEF WorkersFound, Findable
        <4>3. tasks[i].id # id
          BY <1>2, <3>2, <4>1
        <4> QED
          BY <2>2, <4>2, <4>3
      <3> QED
        BY <3>1, <3>2
    <2>4. new \in 0..Len(tasks)
      BY <1>1, <1>2
    <2>5. Findable'
      BY <1>1, <2>1, <2>3 DEF Findable
    <2>6. outcome = "none"
      BY <1>1 DEF WorkersFound
    <2> QED
      BY <1>1, <2>1, <2>2, <2>4, <2>5, <2>6 DEF WorkersFound, EndsClean
  <1>4. CASE id \notin Slots
    BY <1>1, <1>4 DEF CreateWorker, Exit, WorkersFound, EndsClean
  <1> QED
    BY <1>3, <1>4

\* The next thread joined is that of the next task of the list.
LEMMA NextIsJoined ==
    ASSUME ListSound, WorkersFound, JoinWorker
    PROVE  WorkersFound'
  <1>1. /\ phase = "join" /\ Len(joined) < Len(tasks) /\ started = Len(tasks)
        /\ joined' = Append(joined, threads_per_task[tasks[Len(joined) + 1].id])
        /\ UNCHANGED <<tasks, phase, outcome, threads_per_task, started>>
    BY DEF JoinWorker, WorkersFound, fileVars
  <1>2. Len(tasks) \in Nat
    BY <1>1, Accepted
  <1>3. joined \in Seq(Nat) /\ Len(joined) \in Nat /\ Findable
    BY <1>1, LenProperties DEF WorkersFound
  <1>4. Len(joined) + 1 \in 1..started
    BY <1>1, <1>2, <1>3
  <1>5. joined' = Append(joined, Len(joined) + 1)
    BY <1>1, <1>3, <1>4 DEF Findable
  <1>6. /\ joined' \in Seq(Nat) /\ Len(joined') = Len(joined) + 1
        /\ \A k \in 1..Len(joined) : joined'[k] = joined[k]
        /\ joined'[Len(joined) + 1] = Len(joined) + 1
    BY <1>3, <1>5, AppendProperties
  <1>7. \A k \in 1..Len(joined') : joined'[k] = k
    BY <1>1, <1>3, <1>6 DEF WorkersFound
  <1>8. Findable'
    BY <1>1, <1>3 DEF Findable
  <1> QED
    BY <1>1, <1>4, <1>6, <1>7, <1>8 DEF WorkersFound, EndsClean

\* When all are joined, what is left allocated is what the list owns.
LEMMA CleanEnds ==
    ASSUME ListSound, WorkersFound, CleanList
    PROVE  WorkersFound'
  <1>1. /\ phase = "join" /\ Len(joined) = Len(tasks) /\ started = Len(tasks)
        /\ allocated' = allocated - Owned /\ phase' = "ended"
        /\ UNCHANGED <<threads_per_task, started, joined>>
    BY DEF CleanList, Exit, WorkersFound, threadVars
  <1>2. joined \in Seq(Nat) /\ DOMAIN joined = 1..Len(joined) /\ Len(joined) \in Nat
    BY <1>1, LenProperties DEF WorkersFound
  <1>3. {joined[k] : k \in DOMAIN joined} = 1..started
    BY <1>1, <1>2 DEF WorkersFound
  <1>4. allocated = Owned /\ Owned \in Nat
    BY <1>1, Accepted, OwnedIsNatural DEF ListSound, Inv
  <1> QED
    BY <1>1, <1>3, <1>4 DEF WorkersFound, EndsClean

\* Every step keeps the workers of the list findable in the table.
LEMMA WorkersStep ==
    ASSUME ListSound, WorkersFound, [ProgramNext]_vars
    PROVE  WorkersFound'
  <1>1. UNCHANGED <<tasks, started, threads_per_task>> => (Findable => Findable')
    BY DEF Findable
  <1>2. CASE Load
    <2>1. /\ phase = "load" /\ started = 0 /\ outcome = "none"
          /\ UNCHANGED <<phase, outcome, threads_per_task, started, joined>>
      BY <1>2 DEF Load, WorkersFound, mainVars, threadVars
    <2>2. Inv'
      BY <1>2, <2>1, InvStep DEF ListSound, Load
    <2>3. Len(tasks') \in Nat
      BY <2>2, LenProperties DEF Inv, TypeOK
    <2>4. Findable' /\ started' \in 0..Len(tasks')
      BY <2>1, <2>3 DEF Findable
    <2> QED
      BY <2>1, <2>4 DEF WorkersFound, EndsClean
  <1>3. CASE CreateWorker
    BY <1>3, CreatedIsFound
  <1>4. CASE JoinWorker
    BY <1>4, NextIsJoined
  <1>5. CASE CleanList
    BY <1>5, CleanEnds
  <1>6. CASE WorkersCreated
    BY <1>1, <1>6 DEF WorkersCreated, GoTo, WorkersFound, EndsClean, fileVars, threadVars
  <1>7. CASE Summarise
    <2>1. joined' = << >> /\ joined' \in Seq(Nat) /\ Len(joined') = 0 /\ started \in Nat
      BY <1>7, EmptySeq, Accepted DEF Summarise, WorkersFound, threadVars
    <2> QED
      BY <1>1, <1>7, <2>1 DEF Summarise, GoTo, WorkersFound, EndsClean, fileVars, threadVars
  <1>8. CASE ReadOptions \/ UNCHANGED vars
    BY <1>1, <1>8 DEF ReadOptions, vars, mainVars, WorkersFound, EndsClean, fileVars, threadVars
  <1>9. CASE OptionsRead
    BY <1>1, <1>9 DEF OptionsRead, Exit, GoTo, WorkersFound, EndsClean, fileVars, threadVars
  <1>10. CASE Loaded
    BY <1>1, <1>10 DEF Loaded, Exit, GoTo, WorkersFound, EndsClean, fileVars, threadVars
  <1>11. CASE CreateWorkerFails \/ MissingTaskCrashes
    BY <1>1, <1>11 DEF CreateWorkerFails, MissingTaskCrashes, Exit, WorkersFound, EndsClean,
                       fileVars, threadVars
  <1>12. CASE Configure \/ InitLogger
    BY <1>1, <1>12 DEF Configure, InitLogger, Exit, GoTo, WorkersFound, EndsClean,
                       fileVars, threadVars
  <1>13. CASE Dispatch
    BY <1>1, <1>13 DEF Dispatch, WorkersFound, EndsClean, fileVars, threadVars
  <1>14. CASE LogResult \/ LogCrashes \/ LoopEnds
    BY <1>1, <1>14 DEF LogResult, LogCrashes, LoopEnds, Exit, GoTo, WorkersFound, EndsClean,
                       fileVars, threadVars
  <1> QED
    BY <1>2, <1>3, <1>4, <1>5, <1>6, <1>7, <1>8, <1>9, <1>10, <1>11, <1>12, <1>13, <1>14
       DEF ProgramNext, MainStep

-----------------------------------------------------------------------------
\* Crashes.

\* The paths that the logger fills in can be opened once their directories have
\* been made.
PathsOpen ==
    /\ phase \in {"options", "load", "threads", "configure"} => logger = "fill"
    /\ phase = "logger" => logger \in {"fill", "summary tree", "events tree"}
    /\ logger \in {"summary tree", "events tree"} =>
          /\ events_path = EventsTarget /\ summary_path = SummaryTarget
          /\ "" \notin {events_path, summary_path}
    /\ phase = "loop" /\ cli = "validated" /\ Makeable(EventsTarget) /\ Makeable(SummaryTarget)
          => CanOpen(events_path)

\* What the mkdir calls of the logger have to do with a path: after it, the
\* directory is there if it could be made (logger.c:29-64).
LEMMA TreeIsMade ==
    ASSUME NEW p, NEW q, MakeTree(p)
    PROVE  /\ Makeable(q)' <=> Makeable(q)
           /\ Makeable(p) /\ p # "" => OpensIn(p, directories') /\ CanOpen(p)'
  <1>1. directories' = directories \cup ({Directory[p]} \cap Creatable)
    BY DEF MakeTree
  <1> QED
    BY <1>1 DEF Makeable, OpensIn, CanOpen

\* A validated run has paths that are not empty (parser.c:240-259).
LEMMA TargetsAreStrings ==
    ASSUME OptionsSound, cli = "validated"
    PROVE  EventsTarget # "" /\ SummaryTarget # ""
  <1>1. PathsAreStrings
    BY DEF OptionsSound, Valid
  <1> QED
    BY <1>1, InvalidStringsAssumption, DefaultPathsAssumption
       DEF PathsAreStrings, IsString, EventsTarget, SummaryTarget

\* Each step of the logger.
LEMMA LoggerOpens ==
    ASSUME OptionsSound, PathsOpen, InitLogger
    PROVE  PathsOpen'
  <1>1. /\ phase = "logger" /\ LogStep
        /\ phase' = IF logger' = "ready" THEN "loop" ELSE "logger"
        /\ UNCHANGED <<cli, param, EventsTarget, SummaryTarget>>
    BY OptionsStay DEF InitLogger, GoTo
  <1>2. CASE FillPaths
    <2>1. /\ UNCHANGED directories /\ events_path' = EventsTarget
          /\ EventsTarget # "" => summary_path' = SummaryTarget
          /\ logger' = IF "" \in {events_path', summary_path'} THEN "ready" ELSE "summary tree"
      BY <1>2 DEF FillPaths
    <2>2. cli = "validated" => "" \notin {events_path', summary_path'}
      BY <2>1, TargetsAreStrings
    <2> QED
      BY <1>1, <2>1, <2>2 DEF PathsOpen
  <1>3. CASE MakeSummaryTree
    <2>1. /\ logger = "summary tree" /\ MakeTree(summary_path)
          /\ logger' = IF OpensIn(summary_path, directories') THEN "events tree" ELSE "ready"
          /\ UNCHANGED <<events_path, summary_path>>
          /\ events_path = EventsTarget /\ summary_path = SummaryTarget
          /\ "" \notin {events_path, summary_path}
      BY <1>3 DEF MakeSummaryTree, pathVars, PathsOpen
    <2>2. Makeable(SummaryTarget)' => logger' = "events tree"
      BY <1>1, <2>1, TreeIsMade
    <2> QED
      BY <1>1, <2>1, <2>2 DEF PathsOpen
  <1>4. CASE MakeEventsTree
    <2>1. /\ logger = "events tree" /\ MakeTree(events_path) /\ logger' = "ready"
          /\ UNCHANGED <<events_path, summary_path>>
          /\ events_path = EventsTarget /\ events_path # ""
      BY <1>4 DEF MakeEventsTree, pathVars, PathsOpen
    <2>2. Makeable(EventsTarget)' => CanOpen(events_path)'
      BY <1>1, <2>1, TreeIsMade
    <2> QED
      BY <1>1, <2>1, <2>2 DEF PathsOpen
  <1> QED
    BY <1>1, <1>2, <1>3, <1>4 DEF LogStep

\* Everything else leaves the directories and the paths alone.
LEMMA PathsStay ==
    ASSUME PathsOpen, UNCHANGED <<cli, param, logger, pathVars, directories>>,
           phase' = phase \/ (phase = "options" /\ phase' \in {"load", "ended"})
             \/ (phase = "load" /\ phase' \in {"threads", "ended"})
             \/ (phase = "threads" /\ phase' \in {"configure", "ended"})
             \/ (phase = "configure" /\ phase' \in {"logger", "ended"})
             \/ phase' \in {"summary", "join", "ended"}
    PROVE  PathsOpen'
  <1>1. UNCHANGED <<events_path, summary_path, EventsTarget, SummaryTarget>>
    BY DEF pathVars, EventsTarget, SummaryTarget
  <1>2. /\ CanOpen(events_path)' <=> CanOpen(events_path)
        /\ Makeable(EventsTarget)' <=> Makeable(EventsTarget)
        /\ Makeable(SummaryTarget)' <=> Makeable(SummaryTarget)
    BY <1>1 DEF CanOpen, OpensIn, Makeable
  <1> QED
    BY <1>1, <1>2 DEF PathsOpen

\* Every step keeps the paths such that the logs can be opened.
LEMMA PathsStep ==
    ASSUME OptionsSound, PathsOpen, [ProgramNext]_vars
    PROVE  PathsOpen'
  <1>1. CASE ReadOptions
    <2>1. phase = "options" /\ phase' = "options" /\ logger' = logger /\ logger = "fill"
      BY <1>1 DEF ReadOptions, PathsOpen, mainVars, logVars
    <2> QED
      BY <2>1 DEF PathsOpen
  <1>2. CASE InitLogger
    BY <1>2, LoggerOpens
  <1>3. CASE OptionsRead \/ Loaded
    BY <1>3, PathsStay DEF OptionsRead, Loaded, Exit, GoTo, cliVars, logVars
  <1>4. CASE Load \/ UNCHANGED vars
    BY <1>4, PathsStay DEF Load, vars, mainVars, cliVars, logVars
  <1>5. CASE CreateWorker \/ CreateWorkerFails \/ WorkersCreated \/ MissingTaskCrashes
    BY <1>5, PathsStay DEF CreateWorker, CreateWorkerFails, WorkersCreated, MissingTaskCrashes,
                           Exit, GoTo, cliVars, logVars
  <1>6. CASE Configure
    BY <1>6, PathsStay DEF Configure, Exit, GoTo, cliVars, logVars
  <1>7. CASE Dispatch \/ LogResult
    BY <1>7, PathsStay DEF Dispatch, LogResult, LogEvent, cliVars
  <1>8. CASE LogCrashes \/ LoopEnds
    BY <1>8, PathsStay DEF LogCrashes, LoopEnds, Exit, GoTo, cliVars, logVars
  <1>9. CASE Summarise
    BY <1>9, PathsStay DEF Summarise, WriteSummary, GoTo, cliVars
  <1>10. CASE JoinWorker \/ CleanList
    BY <1>10, PathsStay DEF JoinWorker, CleanList, Exit, cliVars, logVars
  <1> QED
    BY <1>1, <1>2, <1>3, <1>4, <1>5, <1>6, <1>7, <1>8, <1>9, <1>10 DEF ProgramNext, MainStep

\* There is a reason for every crash.
LEMMA CrashStep ==
    ASSUME OptionsSound, ListSound, WorkersFound, PathsOpen, SoundRunsDoNotCrash,
           [ProgramNext]_vars
    PROVE  SoundRunsDoNotCrash'
  <1>1. ASSUME UNCHANGED <<outcome, cliVars, tasks, out_of_memory, directories>>
        PROVE  SoundRunsDoNotCrash'
    BY <1>1 DEF SoundRunsDoNotCrash, Nodes, Makeable, EventsTarget, SummaryTarget, cliVars
  <1>2. ASSUME outcome' \notin {"crash", "undefined"}
        PROVE  SoundRunsDoNotCrash'
    BY <1>2 DEF SoundRunsDoNotCrash
  <1>3. phase # "ended" => outcome = "none"
    BY DEF WorkersFound
  <1>4. CASE OptionsRead
    BY <1>2, <1>4 DEF OptionsRead, Exit, GoTo, SoundRunsDoNotCrash, cliVars, WorkersFound
  <1>5. CASE CreateWorker
    <2>1. /\ UNCHANGED <<tasks, phase>> \/ outcome' = "undefined"
          /\ phase = "threads" /\ started < Len(tasks) /\ started \in 0..Len(tasks)
          /\ UNCHANGED tasks
      BY <1>5 DEF CreateWorker, Exit, WorkersFound, fileVars
    <2>2. CASE tasks[started + 1].id \in Slots
      BY <1>2, <1>3, <1>5, <2>1, <2>2 DEF CreateWorker
    <2>3. CASE tasks[started + 1].id \notin Slots
      <3>1. started + 1 \in Nodes
        BY <2>1, Accepted
      <3> QED
        BY <2>1, <2>3, <3>1 DEF SoundRunsDoNotCrash, Nodes
    <2> QED
      BY <2>2, <2>3
  <1>6. CASE MissingTaskCrashes
    <2>1. PICK i \in 1..started : ~tasks[i].created
      BY <1>6 DEF MissingTaskCrashes
    <2>2. /\ phase \notin {"options", "load", "ended"} /\ started \in 0..Len(tasks)
          /\ UNCHANGED out_of_memory
      BY <1>6 DEF MissingTaskCrashes, WorkersFound, fileVars
    <2>3. i \in Nodes /\ MissingIsRecorded
      BY <2>1, <2>2, Accepted
    <2> QED
      BY <2>1, <2>2, <2>3 DEF MissingIsRecorded, Nodes, SoundRunsDoNotCrash
  <1>7. CASE Configure
    <2>1. cli = "validated" => param.mode # NULL
      BY DEF OptionsSound, Valid, ModeGiven
    <2>2. phase = "configure" /\ UNCHANGED cli
      BY <1>7 DEF Configure, cliVars
    <2> QED
      BY <1>2, <1>3, <1>7, <2>1, <2>2 DEF Configure, Exit, GoTo, SoundRunsDoNotCrash
  <1>8. CASE LogCrashes
    <2>1. /\ phase = "loop" /\ ~CanOpen(events_path)
          /\ UNCHANGED <<cli, directories, EventsTarget, SummaryTarget>>
      BY <1>8, OptionsStay DEF LogCrashes, logVars
    <2>2. cli # "validated" \/ ~Makeable(EventsTarget) \/ ~Makeable(SummaryTarget)
      BY <2>1 DEF PathsOpen
    <2> QED
      BY <2>1, <2>2 DEF SoundRunsDoNotCrash, Makeable
  <1>9. CASE ReadOptions \/ Load
    BY <1>2, <1>3, <1>9 DEF ReadOptions, Load, mainVars
  <1>10. CASE Loaded
    BY <1>2, <1>3, <1>10 DEF Loaded, Exit, GoTo
  <1>11. CASE CreateWorkerFails \/ WorkersCreated
    BY <1>2, <1>3, <1>11 DEF CreateWorkerFails, WorkersCreated, Exit, GoTo
  <1>12. CASE InitLogger
    BY <1>2, <1>3, <1>12 DEF InitLogger, GoTo
  <1>13. CASE Dispatch \/ LogResult \/ LoopEnds
    BY <1>2, <1>3, <1>13 DEF Dispatch, LogResult, LoopEnds, GoTo
  <1>14. CASE Summarise \/ JoinWorker \/ CleanList
    BY <1>2, <1>3, <1>14 DEF Summarise, JoinWorker, CleanList, GoTo, Exit
  <1>15. CASE UNCHANGED vars
    BY <1>1, <1>15 DEF vars, mainVars, fileVars, logVars
  <1> QED
    BY <1>4, <1>5, <1>6, <1>7, <1>8, <1>9, <1>10, <1>11, <1>12, <1>13, <1>14, <1>15
       DEF ProgramNext, MainStep

-----------------------------------------------------------------------------
\* What the loop does and what it writes.

\* The lines of this run.
Log == IF events_initialized THEN files[events_path] ELSE << >>

Entry == [event : {"decision", "result"}, dispatch : 0..UintMax, winner_id : Int]

InLoop == phase \in {"loop", "summary"}

LoopTyped ==
    /\ phase \notin {"options", "load", "ended"} =>
          /\ work_units_done \in [Nodes -> Nat]
          /\ \A i \in Nodes : work_units_done[i] <= tasks[i].work
    /\ global_dispatch \in 0..UintMax
    /\ InLoop => /\ Log \in Seq(Entry) /\ pending \in Nodes \cup {0}
                 /\ events_initialized => events_path \in DOMAIN files

\* Before the loop there is nothing to tell.
NothingYet ==
    /\ phase \in {"options", "load", "threads", "configure", "logger"} =>
          global_dispatch = 1 /\ pending = 0 /\ ~events_initialized
    /\ phase \in {"threads", "configure", "logger"} =>
          \A i \in Nodes : work_units_done[i] = 0

\* A task has done something exactly if it won a dispatch in the log.
WinnersLogged ==
    InLoop =>
        /\ \A i \in Nodes : work_units_done[i] > 0 <=>
                               \E k \in DOMAIN Log : Log[k].winner_id = tasks[i].id
        /\ pending # 0 => events_initialized /\ work_units_done[pending] > 0
        /\ global_dispatch # 1 => events_initialized

\* After the loop the log is there, and only the limit leaves work to do.
LoopIsOver ==
    phase = "summary" =>
        /\ pending = 0
        /\ events_initialized
        /\ LimitReached \/ Unfinished = {}

WithinLimit == LimitGiven => global_dispatch <= param.max_dispatches + 1

Story == LoopTyped /\ NothingYet /\ WinnersLogged /\ LoopIsOver /\ WithinLimit

\* The numbers of the loop.
LEMMA LoopArithmetic ==
    /\ \A n \in Int : n % (UintMax + 1) \in 0..UintMax
    /\ \A n \in 0..UintMax : n % (UintMax + 1) = n
  <1>3. UintMax \in Nat
    BY UintMaxAssumption
  <1>4. \A n \in Int : n % (UintMax + 1) \in 0..UintMax
    BY <1>3
  <1>5. \A n \in 0..UintMax : n % (UintMax + 1) = n
    BY <1>3
  <1> QED
    BY <1>4, <1>5, Zenon

\* After loading, the numbers a run computes with are natural numbers.
LEMMA NumbersTyped ==
    ASSUME OptionsSound, ListSound, phase \notin {"options", "load", "ended"}
    PROVE  /\ param.quantum \in Nat /\ param.max_dispatches \in Nat /\ param.slice_percent \in Nat
           /\ \A i \in Nodes : tasks[i].work \in Nat \ {0} /\ tasks[i].yield \in Nat
                               /\ tasks[i].id \in Int
  <1>1. \A i \in Nodes : tasks[i] \in Node
    BY Accepted
  <1> QED
    BY <1>1, UintMaxAssumption DEF OptionsSound, NumberOption, Node

\* LOG_EVENT adds its line to those of this run, the first time to none.
LEMMA LogGrows ==
    ASSUME Log \in Seq(Entry), NEW line \in Entry, LogEvent(line)
    PROVE  /\ events_initialized' /\ Log' \in Seq(Entry)
           /\ events_path' \in DOMAIN files'
           /\ Len(Log) \in Nat /\ DOMAIN Log = 1..Len(Log)
           /\ Len(Log') = Len(Log) + 1 /\ DOMAIN Log' = 1..(Len(Log) + 1)
           /\ \A k \in DOMAIN Log : Log'[k] = Log[k]
           /\ Log'[Len(Log) + 1] = line
  <1>1. events_initialized' = TRUE /\ events_path' = events_path
    BY DEF LogEvent, pathVars
  <1>2. Written(line) = Append(Log, line)
    <2>1. /\ Append(<< >>, line) \in Seq(Entry) /\ Len(Append(<< >>, line)) = 1
          /\ Append(<< >>, line)[1] = line
      BY EmptySeq, AppendProperties
    <2>2. Append(<< >>, line) = <<line>>
      BY <2>1
    <2> QED
      BY <2>2 DEF Written, Log
  <1>3. events_path \in DOMAIN files' /\ files'[events_path] = Written(line)
    BY DEF LogEvent, FilesWith
  <1>4. Log' = Append(Log, line)
    BY <1>1, <1>2, <1>3 DEF Log
  <1>5. Len(Log) \in Nat /\ DOMAIN Log = 1..Len(Log)
    BY LenProperties
  <1>6. /\ Log' \in Seq(Entry) /\ Len(Log') = Len(Log) + 1
        /\ \A k \in 1..Len(Log) : Log'[k] = Log[k]
        /\ Log'[Len(Log) + 1] = line
    BY <1>4, AppendProperties
  <1>7. DOMAIN Log' = 1..(Len(Log) + 1)
    BY <1>6, LenProperties
  <1> QED
    BY <1>1, <1>3, <1>5, <1>6, <1>7

\* The loop's variables, the options and the list stay, and so does what the log
\* says, while main is not in the loop.
LEMMA StoryWaits ==
    ASSUME Story, UNCHANGED <<param, tasks, loopVars, events_initialized>>,
           \/ phase \in {"options", "load"} /\ phase' = phase
           \/ phase \in {"threads", "configure", "logger"}
                /\ phase' \in {"threads", "configure", "logger"}
           \/ phase = "join" /\ phase' = "join"
           \/ phase' = "ended"
           \/ phase = "options" /\ phase' = "load"
    PROVE  Story'
  <1>1. /\ UNCHANGED <<Nodes, work_units_done, global_dispatch, pending, param>>
        /\ ~InLoop'
    BY DEF Nodes, loopVars, InLoop
  <1> QED
    BY <1>1 DEF Story, LoopTyped, NothingYet, WinnersLogged, LoopIsOver, WithinLimit, LimitGiven

\* main reads its options and the task file before there is anything to tell.
LEMMA StoryOpens ==
    ASSUME ListSound, Story, ReadOptions \/ Load \/ Loaded
    PROVE  Story'
  <1> USE DEF LoopTyped, NothingYet, WinnersLogged, LoopIsOver, WithinLimit, InLoop
  <1>1. CASE ReadOptions \/ Load
    <2>1. /\ phase \in {"options", "load"} /\ phase' = phase
          /\ UNCHANGED <<events_initialized, loopVars>>
      BY <1>1 DEF ReadOptions, Load, mainVars, logVars
    <2>2. global_dispatch = 1 /\ UNCHANGED <<global_dispatch, pending, events_initialized>>
      BY <2>1 DEF Story, loopVars
    <2>3. WithinLimit'
      BY <2>2, UintMaxAssumption DEF LimitGiven
    <2> QED
      BY <2>1, <2>2, <2>3 DEF Story
  <1>2. CASE Loaded
    <2>1. /\ phase = "load" /\ phase' \in {"threads", "ended"}
          /\ UNCHANGED <<param, tasks, global_dispatch, pending, events_initialized, LimitGiven>>
      BY <1>2, OptionsStay DEF Loaded, Exit, GoTo, cliVars, logVars, fileVars, loopVars
    <2>2. CASE load = "loaded" /\ phase' = "threads"
      <3>1. /\ work_units_done' = [i \in Nodes |-> 0]
            /\ Nodes' = Nodes
        BY <1>2, <2>1, <2>2 DEF Loaded, Nodes
      <3>2. \A i \in Nodes : tasks[i].work >= 0
        <4>1. Inv
          BY <2>1 DEF ListSound
        <4>2. \A i \in Nodes : tasks[i] \in Node
          BY <4>1, ElementOfSeq, LenProperties DEF Inv, TypeOK, Nodes
        <4> QED
          BY <4>2, UintMaxAssumption DEF Node
      <3> QED
        BY <2>1, <2>2, <3>1, <3>2 DEF Story
    <2>3. CASE phase' = "ended"
      BY <2>1, <2>3 DEF Story
    <2> QED
      BY <1>2, <2>1, <2>2, <2>3 DEF Loaded, Exit
  <1> QED
    BY <1>1, <1>2

\* Configuring the slices tells nothing yet.
LEMMA StorySlices ==
    ASSUME Story, Configure
    PROVE  Story'
  <1>1. /\ phase = "configure" /\ phase' \in {"logger", "ended"}
        /\ UNCHANGED <<param, tasks, loopVars, events_initialized>>
    BY DEF Configure, Exit, GoTo, cliVars, fileVars, logVars
  <1> QED
    BY <1>1, StoryWaits

\* The loop starts with an empty log, and no task has done anything.
LEMMA StoryStarts ==
    ASSUME ListSound, Story, InitLogger
    PROVE  Story'
  <1>1. /\ phase = "logger" /\ phase' \in {"logger", "loop"}
        /\ UNCHANGED <<param, tasks, loopVars, LimitGiven, Nodes>>
        /\ UNCHANGED events_initialized
    BY OptionsStay DEF InitLogger, GoTo, LogStep, FillPaths, MakeSummaryTree, MakeEventsTree,
                       cliVars, fileVars, Nodes
  <1>2. /\ global_dispatch = 1 /\ pending = 0 /\ ~events_initialized
        /\ \A i \in Nodes : work_units_done[i] = 0
        /\ UNCHANGED <<work_units_done, global_dispatch, pending>>
    BY <1>1 DEF Story, NothingYet, loopVars
  <1>3. Log' = << >> /\ Log' \in Seq(Entry) /\ DOMAIN Log' = {}
    BY <1>1, <1>2, EmptySeq DEF Log
  <1> QED
    BY <1>1, <1>2, <1>3
       DEF Story, LoopTyped, NothingYet, WinnersLogged, LoopIsOver, WithinLimit, InLoop

\* The winner of a dispatch works, and is in the log.
LEMMA StoryDispatches ==
    ASSUME OptionsSound, ListSound, Story, Dispatch
    PROVE  Story'
  <1>1. /\ phase = "loop" /\ phase' = "loop" /\ pending = 0 /\ ~LimitReached
        /\ global_dispatch' = (global_dispatch + 1) % (UintMax + 1)
        /\ UNCHANGED <<param, tasks, LimitGiven, Nodes>>
    BY OptionsStay DEF Dispatch, cliVars, fileVars, Nodes
  <1>2. PICK i \in Unfinished :
          /\ LogEvent(Event("decision", global_dispatch, i))
          /\ \E n \in CanReach(i) : work_units_done' = [work_units_done EXCEPT ![i] = n]
          /\ pending' = i
    BY DEF Dispatch
  <1>next. PICK next \in CanReach(i) : work_units_done' = [work_units_done EXCEPT ![i] = next]
    BY <1>2
  <1> DEFINE line == Event("decision", global_dispatch, i)
  <1>3. /\ i \in Nodes /\ work_units_done[i] < tasks[i].work
        /\ work_units_done \in [Nodes -> Nat] /\ work_units_done[i] \in Nat
        /\ tasks[i].work \in Nat
    BY <1>1, <1>2, NumbersTyped DEF Unfinished, Story, LoopTyped
  <1>4. next \in Nat /\ next > 0 /\ next <= tasks[i].work
    BY <1>next, <1>3 DEF CanReach
  <1>5. /\ work_units_done' = [work_units_done EXCEPT ![i] = next]
        /\ work_units_done' \in [Nodes -> Nat]
        /\ \A j \in Nodes : work_units_done'[j] = IF j = i THEN next ELSE work_units_done[j]
    BY <1>next, <1>3, <1>4
  <1>6. /\ global_dispatch \in 0..UintMax /\ Log \in Seq(Entry) /\ i # 0
        /\ \A j \in Nodes : tasks[j].id \in Int
        /\ \A j \in Nodes : tasks[j].id = tasks[i].id => j = i
    BY <1>1, <1>3, NumbersTyped, Accepted DEF Story, LoopTyped, InLoop
  <1>7. line \in Entry /\ line.winner_id = tasks[i].id
    BY <1>3, <1>6 DEF Entry, Event
  <1>8. /\ events_initialized' /\ Log' \in Seq(Entry) /\ events_path' \in DOMAIN files'
        /\ Len(Log) \in Nat /\ DOMAIN Log = 1..Len(Log)
        /\ DOMAIN Log' = 1..(Len(Log) + 1)
        /\ \A k \in DOMAIN Log : Log'[k] = Log[k]
        /\ Log'[Len(Log) + 1] = line
    BY <1>2, <1>6, <1>7, LogGrows
  <1> HIDE DEF line
  <1>9. ASSUME NEW j \in Nodes
        PROVE  work_units_done'[j] > 0 <=>
                   \E k \in DOMAIN Log' : Log'[k].winner_id = tasks[j].id
    <2>1. work_units_done[j] > 0 <=> \E k \in DOMAIN Log : Log[k].winner_id = tasks[j].id
      BY <1>1 DEF Story, WinnersLogged, InLoop
    <2>2. CASE j = i
      BY <1>4, <1>5, <1>7, <1>8, <2>2
    <2>3. CASE j # i
      <3>1. Log'[Len(Log) + 1].winner_id # tasks[j].id
        BY <1>6, <1>7, <1>8, <2>3
      <3>2. DOMAIN Log' = DOMAIN Log \cup {Len(Log) + 1}
        BY <1>8
      <3> QED
        BY <1>5, <1>8, <2>1, <2>3, <3>1, <3>2
    <2> QED
      BY <2>2, <2>3
  <1>10. global_dispatch' \in 0..UintMax
    BY <1>1, <1>6, LoopArithmetic
  <1>11. WithinLimit'
    <2>1. SUFFICES ASSUME LimitGiven PROVE global_dispatch' <= param.max_dispatches + 1
      BY <1>1 DEF WithinLimit
    <2>2. param.max_dispatches \in 1..(UintMax - 1) /\ global_dispatch <= param.max_dispatches
      BY <1>1, <1>6, <2>1, UintMaxAssumption DEF LimitGiven, LimitReached
    <2>3. global_dispatch + 1 \in 0..UintMax
      BY <1>6, <2>2, UintMaxAssumption
    <2>4. global_dispatch' = global_dispatch + 1
      BY <1>1, <2>3, LoopArithmetic, Zenon
    <2> QED
      BY <1>6, <2>2, <2>4
  <1>12. LoopTyped'
    <2>1. \A j \in Nodes : work_units_done'[j] <= tasks[j].work
      BY <1>1, <1>4, <1>5 DEF Story, LoopTyped
    <2> QED
      BY <1>1, <1>2, <1>3, <1>5, <1>8, <1>10, <2>1 DEF LoopTyped, InLoop, Story
  <1>13. WinnersLogged'
    BY <1>1, <1>2, <1>3, <1>4, <1>5, <1>8, <1>9 DEF WinnersLogged, InLoop
  <1> QED
    BY <1>1, <1>11, <1>12, <1>13 DEF Story, NothingYet, LoopIsOver

\* The result line names a task that is in the log already.
LEMMA StoryLogs ==
    ASSUME ListSound, Story, LogResult
    PROVE  Story'
  <1>1. /\ phase = "loop" /\ phase' = "loop" /\ pending # 0 /\ pending' = 0
        /\ UNCHANGED <<param, tasks, work_units_done, global_dispatch,
                       LimitGiven, Nodes>>
        /\ LogEvent(Event("result", (global_dispatch - 1) % (UintMax + 1), pending))
    BY OptionsStay DEF LogResult, cliVars, fileVars, Nodes
  <1> DEFINE line == Event("result", (global_dispatch - 1) % (UintMax + 1), pending)
  <1>2. /\ pending \in Nodes /\ work_units_done[pending] > 0 /\ Log \in Seq(Entry)
        /\ global_dispatch \in 0..UintMax
    BY <1>1 DEF Story, LoopTyped, WinnersLogged, InLoop
  <1>3. (global_dispatch - 1) % (UintMax + 1) \in 0..UintMax
    <2>1. global_dispatch - 1 \in Int
      BY <1>2
    <2> QED
      BY <2>1, LoopArithmetic, Zenon
  <1>4. \A j \in Nodes : tasks[j].id \in Int
    BY <1>1, Accepted, UintMaxAssumption DEF Node
  <1>5. line \in Entry /\ line.winner_id = tasks[pending].id
    BY <1>2, <1>3, <1>4 DEF Entry, Event
  <1>6. /\ events_initialized' /\ Log' \in Seq(Entry) /\ events_path' \in DOMAIN files'
        /\ DOMAIN Log = 1..Len(Log) /\ Len(Log) \in Nat
        /\ DOMAIN Log' = 1..(Len(Log) + 1)
        /\ \A k \in DOMAIN Log : Log'[k] = Log[k]
        /\ Log'[Len(Log) + 1] = line
    BY <1>1, <1>2, <1>5, LogGrows
  <1> HIDE DEF line
  <1>7. ASSUME NEW j \in Nodes
        PROVE  work_units_done[j] > 0 <=>
                   \E k \in DOMAIN Log' : Log'[k].winner_id = tasks[j].id
    <2>1. work_units_done[j] > 0 <=> \E k \in DOMAIN Log : Log[k].winner_id = tasks[j].id
      BY <1>1 DEF Story, WinnersLogged, InLoop
    <2>2. DOMAIN Log' = DOMAIN Log \cup {Len(Log) + 1}
      BY <1>6
    <2>3. tasks[j].id = tasks[pending].id => j = pending
      BY <1>1, <1>2, Accepted
    <2> QED
      BY <1>2, <1>5, <1>6, <2>1, <2>2, <2>3
  <1>8. WinnersLogged'
    BY <1>1, <1>6, <1>7 DEF WinnersLogged, InLoop
  <1>9. LoopTyped'
    BY <1>1, <1>6 DEF Story, LoopTyped, InLoop
  <1> QED
    BY <1>1, <1>8, <1>9 DEF Story, NothingYet, LoopIsOver, WithinLimit

\* The loop only ends with a log: a task has work to do, so one has won.
LEMMA StoryEnds ==
    ASSUME OptionsSound, ListSound, Story, LoopEnds
    PROVE  Story'
  <1>1. /\ phase = "loop" /\ phase' = "summary" /\ pending = 0 /\ LoopOver
        /\ UNCHANGED <<param, tasks, loopVars, files, events_path, events_initialized>>
    BY DEF LoopEnds, GoTo, cliVars, fileVars, logVars, pathVars
  <1>2. UNCHANGED <<work_units_done, global_dispatch, pending, Nodes, Log,
                    LimitReached, Unfinished, LimitGiven>>
    BY <1>1 DEF loopVars, Nodes, Log, LimitReached, Unfinished, LimitGiven
  <1>3. events_initialized
    <2>1. CASE LimitReached
      <3>1. global_dispatch # 1
        BY <1>1, <2>1, NumbersTyped DEF LimitReached
      <3> QED
        BY <1>1, <3>1 DEF Story, WinnersLogged, InLoop
    <2>2. CASE Unfinished = {}
      <3>1. 1 \in Nodes /\ tasks[1].work \in Nat \ {0} /\ work_units_done[1] \in Nat
        BY <1>1, Accepted, NumbersTyped DEF Story, LoopTyped
      <3>2. work_units_done[1] > 0
        BY <2>2, <3>1 DEF Unfinished
      <3>3. \E k \in DOMAIN Log : Log[k].winner_id = tasks[1].id
        BY <1>1, <3>1, <3>2 DEF Story, WinnersLogged, InLoop
      <3>4. DOMAIN << >> = {}
        BY EmptySeq
      <3> QED
        BY <3>3, <3>4 DEF Log
    <2> QED
      BY <1>1, <2>1, <2>2 DEF LoopOver
  <1> QED
    BY <1>1, <1>2, <1>3
       DEF Story, LoopTyped, NothingYet, WinnersLogged, LoopIsOver, WithinLimit, InLoop, LoopOver

\* Every step of a run keeps its story.
LEMMA StoryStep ==
    ASSUME OptionsSound, ListSound, Story, [ProgramNext]_vars
    PROVE  Story'
  <1>1. CASE ReadOptions \/ Load \/ Loaded
    BY <1>1, StoryOpens
  <1>2. CASE Configure
    BY <1>2, StorySlices
  <1>3. CASE InitLogger
    BY <1>3, StoryStarts
  <1>4. CASE Dispatch
    BY <1>4, StoryDispatches
  <1>5. CASE LogResult
    BY <1>5, StoryLogs
  <1>6. CASE LoopEnds
    BY <1>6, StoryEnds
  <1>7. CASE OptionsRead
    BY <1>7, StoryWaits DEF OptionsRead, Exit, GoTo, cliVars, fileVars, logVars
  <1>8. CASE CreateWorker \/ CreateWorkerFails \/ WorkersCreated \/ MissingTaskCrashes
    BY <1>8, StoryWaits DEF CreateWorker, CreateWorkerFails, WorkersCreated,
                            MissingTaskCrashes, Exit, GoTo, cliVars, fileVars, logVars
  <1>9. CASE LogCrashes
    BY <1>9, StoryWaits DEF LogCrashes, Exit, cliVars, fileVars, logVars
  <1>10. CASE JoinWorker
    BY <1>10, StoryWaits DEF JoinWorker, cliVars, fileVars, logVars
  <1>11. CASE CleanList
    BY <1>11
       DEF CleanList, Exit, cliVars, loopVars, LimitGiven,
           Story, LoopTyped, NothingYet, WinnersLogged, LoopIsOver, WithinLimit, InLoop
  <1>12. CASE Summarise
    <2>1. /\ phase = "summary" /\ phase' = "join"
          /\ UNCHANGED <<param, tasks, loopVars, LimitGiven, Nodes>>
          /\ UNCHANGED <<work_units_done, global_dispatch, pending>>
      BY <1>12, OptionsStay DEF Summarise, GoTo, cliVars, fileVars, loopVars, Nodes
    <2> QED
      BY <2>1 DEF Story, LoopTyped, NothingYet, WinnersLogged, LoopIsOver, WithinLimit, InLoop
  <1>13. CASE UNCHANGED vars
    <2>1. /\ UNCHANGED <<phase, param, tasks, loopVars, files, events_path, events_initialized>>
      BY <1>13 DEF vars, mainVars, cliVars, fileVars, logVars, pathVars
    <2>2. UNCHANGED <<work_units_done, global_dispatch, pending, Nodes, Log,
                      LimitReached, Unfinished, LimitGiven>>
      BY <2>1 DEF loopVars, Nodes, Log, LimitReached, Unfinished, LimitGiven
    <2> QED
      BY <2>1, <2>2
         DEF Story, LoopTyped, NothingYet, WinnersLogged, LoopIsOver, WithinLimit, InLoop
  <1> QED
    BY <1>1, <1>2, <1>3, <1>4, <1>5, <1>6, <1>7, <1>8, <1>9, <1>10, <1>11, <1>12, <1>13
       DEF ProgramNext, MainStep

-----------------------------------------------------------------------------
\* The pairs of the log, as long as the program can count its dispatches.

\* The dispatches whose result is in the log.
Closed == IF pending = 0 THEN global_dispatch - 1 ELSE global_dispatch - 2

\* A decision and a result each, and the decision of the dispatch that is open.
PairedSoFar ==
    /\ Closed \in Nat
    /\ \A d \in 1..Closed :
          /\ Log[2 * d - 1].event = "decision"
          /\ Log[2 * d] = [Log[2 * d - 1] EXCEPT !.event = "result"]
          /\ Log[2 * d].dispatch = d
    /\ pending = 0 => Len(Log) = 2 * Closed
    /\ pending # 0 => /\ Len(Log) = 2 * Closed + 1
                      /\ Log[2 * Closed + 1] = Event("decision", Closed + 1, pending)

Paired ==
    /\ InLoop => PairedSoFar
    /\ phase = "join" \/ outcome = "exit0" =>
          (events_path # summary_path => InPairs(files[events_path]))

\* The decision is logged under the number that the dispatch has.
LEMMA DecisionOpensPair ==
    ASSUME OptionsSound, ListSound, WorkersFound, Story, Paired, Dispatch,
           global_dispatch < UintMax
    PROVE  Paired'
  <1>1. /\ phase = "loop" /\ phase' = "loop" /\ pending = 0 /\ UNCHANGED <<tasks, outcome>>
        /\ global_dispatch' = (global_dispatch + 1) % (UintMax + 1)
        /\ outcome = "none"
    BY DEF Dispatch, fileVars, WorkersFound
  <1>2. PICK i \in Unfinished :
          LogEvent(Event("decision", global_dispatch, i)) /\ pending' = i
    BY DEF Dispatch
  <1>3. /\ i \in Nodes /\ i # 0 /\ tasks[i].id \in Int
        /\ global_dispatch \in 0..UintMax /\ Log \in Seq(Entry)
    BY <1>1, <1>2, NumbersTyped, Accepted DEF Unfinished, Story, LoopTyped, InLoop
  <1> DEFINE line == Event("decision", global_dispatch, i)
  <1>4. line \in Entry
    BY <1>3 DEF Entry, Event
  <1>5. /\ Len(Log) \in Nat /\ DOMAIN Log = 1..Len(Log)
        /\ Len(Log') = Len(Log) + 1
        /\ \A k \in DOMAIN Log : Log'[k] = Log[k]
        /\ Log'[Len(Log) + 1] = line
    BY <1>2, <1>3, <1>4, LogGrows
  <1>6. global_dispatch' = global_dispatch + 1
    <2>1. global_dispatch + 1 \in 0..UintMax
      BY <1>3, UintMaxAssumption
    <2> QED
      BY <1>1, <2>1, LoopArithmetic, Zenon
  <1>7. PairedSoFar /\ Closed = global_dispatch - 1 /\ Closed \in Nat /\ Len(Log) = 2 * Closed
    BY <1>1 DEF Paired, InLoop, Closed, PairedSoFar
  <1>8. Closed' = Closed /\ pending' # 0 /\ pending' = i
    BY <1>2, <1>3, <1>6, <1>7 DEF Closed
  <1>9. \A d \in 1..Closed : Log'[2 * d - 1] = Log[2 * d - 1] /\ Log'[2 * d] = Log[2 * d]
    BY <1>5, <1>7
  <1>10. Event("decision", Closed + 1, pending)' = line
    BY <1>1, <1>3, <1>7, <1>8 DEF Event
  <1>11. Len(Log') = 2 * Closed + 1 /\ Log'[2 * Closed + 1] = line
    BY <1>5, <1>7
  <1> HIDE DEF line
  <1>12. PairedSoFar'
    BY <1>7, <1>8, <1>9, <1>10, <1>11 DEF PairedSoFar
  <1> QED
    BY <1>1, <1>12 DEF Paired

\* The result follows with the same number and winner.
LEMMA ResultClosesPair ==
    ASSUME ListSound, WorkersFound, Story, Paired, LogResult
    PROVE  Paired'
  <1>1. /\ phase = "loop" /\ phase' = "loop" /\ pending # 0 /\ pending' = 0
        /\ UNCHANGED <<tasks, outcome, global_dispatch>> /\ outcome = "none"
        /\ LogEvent(Event("result", (global_dispatch - 1) % (UintMax + 1), pending))
    BY DEF LogResult, fileVars, WorkersFound
  <1>2. /\ pending \in Nodes /\ Log \in Seq(Entry) /\ global_dispatch \in 0..UintMax
        /\ \A j \in Nodes : tasks[j].id \in Int
    <2>1. \A j \in Nodes : tasks[j].id \in Int
      BY <1>1, Accepted, UintMaxAssumption DEF Node
    <2> QED
      BY <1>1, <2>1 DEF Story, LoopTyped, InLoop
  <1>3. /\ PairedSoFar /\ Closed = global_dispatch - 2 /\ Closed \in Nat
        /\ Len(Log) = 2 * Closed + 1
        /\ Log[2 * Closed + 1] = Event("decision", Closed + 1, pending)
    BY <1>1 DEF Paired, InLoop, Closed, PairedSoFar
  <1>4. (global_dispatch - 1) % (UintMax + 1) = Closed + 1
    <2>1. global_dispatch - 1 \in 0..UintMax /\ global_dispatch - 1 = Closed + 1
      BY <1>2, <1>3, UintMaxAssumption
    <2> QED
      BY <2>1, LoopArithmetic, Zenon
  <1> DEFINE line == Event("result", Closed + 1, pending)
             new == Closed + 1
  <1>5. line \in Entry
    <2>1. Closed + 1 \in 0..UintMax
      BY <1>2, <1>3, UintMaxAssumption
    <2> QED
      BY <1>2, <2>1 DEF Entry, Event
  <1>6. /\ Len(Log) \in Nat /\ DOMAIN Log = 1..Len(Log)
        /\ Len(Log') = Len(Log) + 1
        /\ \A k \in DOMAIN Log : Log'[k] = Log[k]
        /\ Log'[Len(Log) + 1] = line
    BY <1>1, <1>2, <1>4, <1>5, LogGrows
  <1>7. Closed' = new /\ pending' = 0
    BY <1>1, <1>2, <1>3 DEF Closed
  <1>8. \A d \in 1..Closed : Log'[2 * d - 1] = Log[2 * d - 1] /\ Log'[2 * d] = Log[2 * d]
    BY <1>3, <1>6
  <1>9. /\ 2 * new - 1 = 2 * Closed + 1 /\ 2 * new = 2 * Closed + 2
        /\ Log'[2 * new - 1] = Event("decision", new, pending)
        /\ Log'[2 * new] = line /\ Len(Log') = 2 * new
    BY <1>3, <1>6
  <1>10. /\ Log'[2 * new - 1].event = "decision"
         /\ Log'[2 * new] = [Log'[2 * new - 1] EXCEPT !.event = "result"]
         /\ Log'[2 * new].dispatch = new
    BY <1>9 DEF Event
  <1>11. ASSUME NEW d \in 1..new
         PROVE  /\ Log'[2 * d - 1].event = "decision"
                /\ Log'[2 * d] = [Log'[2 * d - 1] EXCEPT !.event = "result"]
                /\ Log'[2 * d].dispatch = d
    <2>1. CASE d = new
      BY <1>10, <2>1
    <2>2. CASE d # new
      <3>1. d \in 1..Closed
        BY <1>3, <2>2
      <3> QED
        BY <1>3, <1>8, <3>1 DEF PairedSoFar
    <2> QED
      BY <2>1, <2>2
  <1>12. PairedSoFar'
    BY <1>3, <1>7, <1>9, <1>11 DEF PairedSoFar
  <1> QED
    BY <1>1, <1>12 DEF Paired

\* The summary goes into a file of its own, or over the log.
LEMMA SummaryWritten ==
    ASSUME Story, Summarise
    PROVE  /\ events_path # summary_path =>
                 files'[events_path] = Log /\ events_path' = events_path
           /\ CanOpen(summary_path) => files'[summary_path] = SummaryRows
           /\ UNCHANGED <<events_path, summary_path, param, global_dispatch>>
           /\ CanOpen(summary_path)' <=> CanOpen(summary_path)
  <1>1. /\ files' = IF CanOpen(summary_path) THEN FilesWith(summary_path, SummaryRows) ELSE files
        /\ UNCHANGED <<events_path, summary_path, directories, param, global_dispatch>>
    BY DEF Summarise, WriteSummary, pathVars, cliVars, loopVars
  <1>2. events_initialized /\ events_path \in DOMAIN files
    BY DEF Summarise, Story, LoopIsOver, LoopTyped, InLoop
  <1>3. Log = files[events_path]
    BY <1>2 DEF Log
  <1>4. /\ events_path # summary_path => files'[events_path] = files[events_path]
        /\ CanOpen(summary_path) => files'[summary_path] = SummaryRows
    BY <1>1, <1>2 DEF FilesWith
  <1>5. CanOpen(summary_path)' <=> CanOpen(summary_path)
    BY <1>1 DEF CanOpen, OpensIn
  <1> QED
    BY <1>1, <1>3, <1>4, <1>5

\* Every step keeps the log in pairs, unless a dispatch number wraps.
LEMMA PairedStep ==
    ASSUME OptionsSound, ListSound, WorkersFound, Story, Paired, [ProgramNext]_vars,
           Dispatch => global_dispatch < UintMax
    PROVE  Paired'
  <1>1. phase # "ended" => outcome = "none"
    BY DEF WorkersFound
  <1>2. CASE Dispatch
    BY <1>2, DecisionOpensPair
  <1>3. CASE LogResult
    BY <1>3, ResultClosesPair
  <1>4. CASE InitLogger
    <2>1. /\ phase = "logger" /\ phase' \in {"logger", "loop"} /\ outcome' = "none"
          /\ UNCHANGED <<global_dispatch, pending, events_initialized>>
          /\ global_dispatch = 1 /\ pending = 0 /\ ~events_initialized
      BY <1>1, <1>4
         DEF InitLogger, GoTo, LogStep, FillPaths, MakeSummaryTree, MakeEventsTree,
             loopVars, Story, NothingYet
    <2>2. Log' = << >> /\ Closed' = 0 /\ Len(Log') = 0 /\ pending' = 0
      BY <2>1, EmptySeq DEF Log, Closed
    <2>3. PairedSoFar'
      BY <2>2 DEF PairedSoFar
    <2> QED
      BY <2>1, <2>3 DEF Paired
  <1>5. CASE LoopEnds
    <2>1. /\ phase = "loop" /\ phase' = "summary" /\ outcome' = "none"
          /\ UNCHANGED <<tasks, files, events_path, events_initialized, global_dispatch, pending>>
      BY <1>1, <1>5 DEF LoopEnds, GoTo, fileVars, logVars, pathVars, loopVars
    <2>2. PairedSoFar' <=> PairedSoFar
      BY <2>1 DEF PairedSoFar, Closed, Log, Event
    <2> QED
      BY <2>1, <2>2 DEF Paired, InLoop
  <1>6. CASE Summarise
    <2>1. /\ phase = "summary" /\ phase' = "join" /\ outcome' = "none"
      BY <1>1, <1>6 DEF Summarise, GoTo
    <2>2. PairedSoFar /\ pending = 0 /\ Closed = global_dispatch - 1
      BY <2>1 DEF Paired, InLoop, Story, LoopIsOver, Closed
    <2>3. InPairs(Log)
      BY <2>2 DEF InPairs, PairedSoFar
    <2>4. (events_path # summary_path => InPairs(files[events_path]))'
      BY <1>6, <2>3, SummaryWritten DEF InPairs
    <2> QED
      BY <2>1, <2>4 DEF Paired, InLoop
  <1>7. CASE JoinWorker \/ CleanList
    <2>1. /\ phase = "join" /\ phase' \in {"join", "ended"}
          /\ UNCHANGED <<files, events_path, summary_path, global_dispatch>>
      BY <1>7 DEF JoinWorker, CleanList, Exit, logVars, pathVars, loopVars
    <2> QED
      BY <2>1 DEF Paired, InLoop, InPairs
  <1>8. CASE UNCHANGED vars
    <2>1. UNCHANGED <<phase, outcome, tasks, files, events_path, summary_path,
                      events_initialized, global_dispatch, pending>>
      BY <1>8 DEF vars, mainVars, fileVars, logVars, pathVars, loopVars
    <2> QED
      BY <2>1 DEF Paired, InLoop, InPairs, PairedSoFar, Closed, Log, Event
  <1>9. CASE ReadOptions \/ OptionsRead \/ Load \/ Loaded
    BY <1>1, <1>9 DEF ReadOptions, OptionsRead, Load, Loaded, Exit, GoTo, mainVars, Paired, InLoop
  <1>10. CASE CreateWorker \/ CreateWorkerFails \/ WorkersCreated \/ MissingTaskCrashes
    BY <1>1, <1>10 DEF CreateWorker, CreateWorkerFails, WorkersCreated, MissingTaskCrashes,
                       Exit, GoTo, Paired, InLoop
  <1>11. CASE Configure \/ LogCrashes
    BY <1>1, <1>11 DEF Configure, LogCrashes, Exit, GoTo, Paired, InLoop
  <1> QED
    BY <1>2, <1>3, <1>4, <1>5, <1>6, <1>7, <1>8, <1>9, <1>10, <1>11 DEF ProgramNext, MainStep

\* With a limit that the program can count to, it can count its dispatches.
PairedToLimit == LimitGiven => Paired

\* With a limit that can be exceeded no number wraps, so the log stays in
\* pairs.
LEMMA PairedToLimitStep ==
    ASSUME OptionsSound, ListSound, WorkersFound, Story, PairedToLimit, [ProgramNext]_vars
    PROVE  PairedToLimit'
  <1>1. CASE phase = "options"
    <2>1. phase' \in {"options", "load", "ended"} /\ outcome' # "exit0"
      BY <1>1 DEF ProgramNext, MainStep, ReadOptions, OptionsRead, Load, Loaded, CreateWorker,
           CreateWorkerFails, WorkersCreated, MissingTaskCrashes, Configure, InitLogger,
           Dispatch, LogResult, LogCrashes, LoopEnds, Summarise, JoinWorker, CleanList,
           Exit, GoTo, vars, mainVars, WorkersFound
    <2> QED
      BY <2>1 DEF PairedToLimit, Paired, InLoop
  <1>2. CASE phase # "options"
    <2>1. UNCHANGED cliVars
      BY <1>2 DEF ProgramNext, MainStep, ReadOptions, OptionsRead, Load, Loaded, CreateWorker,
           CreateWorkerFails, WorkersCreated, MissingTaskCrashes, Configure, InitLogger,
           Dispatch, LogResult, LogCrashes, LoopEnds, Summarise, JoinWorker, CleanList, vars
    <2>2. LimitGiven' <=> LimitGiven
      BY <2>1, OptionsStay
    <2>3. LimitGiven /\ Dispatch => global_dispatch < UintMax
      BY UintMaxAssumption DEF LimitGiven, Dispatch, LimitReached, Story, LoopTyped
    <2> QED
      BY <2>2, <2>3, PairedStep DEF PairedToLimit
  <1> QED
    BY <1>1, <1>2

\* From the end of the loop on, the files tell the same story.
SummaryTold ==
    phase = "join" \/ outcome = "exit0" =>
        (events_path # summary_path /\ CanOpen(summary_path) =>
            Agree(files[summary_path], files[events_path]))

\* A task that is short of its work was stopped by the limit, and the log has a
\* pair of lines for each dispatch up to it.
LEMMA SummaryAgrees ==
    ASSUME OptionsSound, ListSound, Story, PairedToLimit, phase = "summary"
    PROVE  Agree(SummaryRows, Log)
  <1>1. DOMAIN SummaryRows = Nodes
    BY DEF SummaryRows
  <1>2. ASSUME NEW i \in Nodes
        PROVE  SummaryRows[i].done > 0 <=>
                 \E k \in DOMAIN Log : Log[k].winner_id = SummaryRows[i].task_id
    BY DEF SummaryRows, Story, WinnersLogged, InLoop
  <1>3. ASSUME NEW i \in Nodes, SummaryRows[i].done < SummaryRows[i].work
        PROVE  Len(Log) = 2 * param.max_dispatches
    <2>1. LimitReached /\ pending = 0
      BY <1>3 DEF SummaryRows, Unfinished, Story, LoopIsOver
    <2>2. param.max_dispatches \in Nat /\ global_dispatch \in 0..UintMax
      BY NumbersTyped DEF Story, LoopTyped
    <2>3. LimitGiven
      BY <2>1, <2>2, UintMaxAssumption DEF LimitReached, LimitGiven
    <2>4. global_dispatch = param.max_dispatches + 1
      BY <2>1, <2>2, <2>3 DEF LimitReached, Story, WithinLimit
    <2>5. Len(Log) = 2 * (global_dispatch - 1)
      BY <2>1, <2>3 DEF PairedToLimit, Paired, PairedSoFar, InLoop, Closed
    <2> QED
      BY <2>2, <2>4, <2>5
  <1> QED
    BY <1>1, <1>2, <1>3 DEF Agree

\* Every step keeps the summary in agreement with the log.
LEMMA SummaryStep ==
    ASSUME OptionsSound, ListSound, WorkersFound, Story, PairedToLimit, SummaryTold,
           [ProgramNext]_vars
    PROVE  SummaryTold'
  <1>1. phase # "ended" => outcome = "none"
    BY DEF WorkersFound
  <1>2. CASE Summarise
    <2>1. Agree(SummaryRows, Log)
      BY <1>2, SummaryAgrees DEF Summarise
    <2> QED
      BY <1>2, <2>1, SummaryWritten DEF SummaryTold, Agree
  <1>3. CASE JoinWorker \/ CleanList
    <2>1. /\ phase = "join"
          /\ UNCHANGED <<files, events_path, summary_path, directories, param>>
      BY <1>3 DEF JoinWorker, CleanList, logVars, pathVars, cliVars
    <2> QED
      BY <2>1 DEF SummaryTold, CanOpen, OpensIn, Agree
  <1>4. CASE UNCHANGED vars
    <2>1. UNCHANGED <<phase, outcome, files, events_path, summary_path, directories, param>>
      BY <1>4 DEF vars, mainVars, logVars, pathVars, cliVars
    <2> QED
      BY <2>1 DEF SummaryTold, CanOpen, OpensIn, Agree
  <1>5. CASE ReadOptions \/ OptionsRead \/ Load \/ Loaded
    BY <1>1, <1>5 DEF ReadOptions, OptionsRead, Load, Loaded, Exit, GoTo, mainVars, SummaryTold
  <1>6. CASE CreateWorker \/ CreateWorkerFails \/ WorkersCreated \/ MissingTaskCrashes
    BY <1>1, <1>6 DEF CreateWorker, CreateWorkerFails, WorkersCreated, MissingTaskCrashes,
                      Exit, GoTo, SummaryTold
  <1>7. CASE Configure \/ InitLogger \/ Dispatch \/ LogResult \/ LogCrashes \/ LoopEnds
    BY <1>1, <1>7 DEF Configure, InitLogger, Dispatch, LogResult, LogCrashes, LoopEnds,
                      Exit, GoTo, SummaryTold
  <1> QED
    BY <1>2, <1>3, <1>4, <1>5, <1>6, <1>7 DEF ProgramNext, MainStep

-----------------------------------------------------------------------------
\* The generator.

\* A draw keeps the generator seeded (rng.c:27-51).
LEMMA DrawStep ==
    ASSUME NEW i, Draw(i), rng_seed \in BitWord
    PROVE  rng_seed' \in BitWord /\ (rng_seed # Zero => rng_seed' # Zero)
  <1>1. CASE Get
    BY <1>1, GeneratorStaysSeeded DEF Get, Unseeded
  <1>2. CASE GetRefused
    BY <1>2 DEF GetRefused
  <1> QED
    BY <1>1, <1>2 DEF Draw

\* Every step keeps the generator seeded once it has been.
LEMMA GeneratorStep ==
    ASSUME OptionsSound, GeneratorSeeded, [ProgramNext]_vars
    PROVE  GeneratorSeeded'
  <1> USE DEF GeneratorSeeded
  <1>1. CASE Loaded
    <2>1. CASE load = "loaded"
      <3>1. rng_seed' = BitsOf[param.seed] /\ UNCHANGED cli /\ param.seed \in 0..UintMax
        BY <1>1, <2>1 DEF Loaded, SeedWith, cliVars, OptionsSound, NumberOption
      <3>2. cli = "validated" => param.seed # 0
        BY DEF OptionsSound, Valid
      <3> QED
        BY <3>1, <3>2, BitsOfAssumption
    <2>2. CASE load # "loaded"
      BY <1>1, <2>2 DEF Loaded, Exit, cliVars
    <2> QED
      BY <2>1, <2>2
  <1>2. CASE Dispatch
    <2>1. PICK i \in Unfinished : Draw(i)
      BY <1>2 DEF Dispatch
    <2>2. rng_seed' \in BitWord /\ (rng_seed # Zero => rng_seed' # Zero)
      BY <2>1, DrawStep
    <2> QED
      BY <1>2, <2>2 DEF Dispatch, cliVars
  <1>3. CASE ReadOptions \/ OptionsRead \/ Load
    BY <1>3 DEF ReadOptions, OptionsRead, Load, Exit, GoTo, cliVars, mainVars
  <1>4. CASE CreateWorker \/ CreateWorkerFails \/ WorkersCreated \/ MissingTaskCrashes
    BY <1>4 DEF CreateWorker, CreateWorkerFails, WorkersCreated, MissingTaskCrashes,
                Exit, GoTo, cliVars
  <1>5. CASE Configure \/ InitLogger
    BY <1>5 DEF Configure, InitLogger, Exit, GoTo, cliVars
  <1>6. CASE LogResult \/ LogCrashes \/ LoopEnds
    BY <1>6 DEF LogResult, LogCrashes, LoopEnds, Exit, GoTo, cliVars
  <1>7. CASE Summarise \/ JoinWorker \/ CleanList
    BY <1>7 DEF Summarise, JoinWorker, CleanList, Exit, GoTo, cliVars
  <1>8. CASE UNCHANGED vars
    BY <1>8 DEF vars, cliVars, mainVars
  <1> QED
    BY <1>1, <1>2, <1>3, <1>4, <1>5, <1>6, <1>7, <1>8 DEF ProgramNext, MainStep

-----------------------------------------------------------------------------
\* The run as a whole.

Sound ==
    /\ OptionsSound /\ GeneratorSeeded
    /\ ListSound /\ WorkersFound
    /\ PathsOpen /\ SoundRunsDoNotCrash
    /\ Story /\ PairedToLimit /\ SummaryTold

\* A run starts sound.
LEMMA SoundInitially == ProgramInit => Sound
  <1> SUFFICES ASSUME ProgramInit PROVE Sound
    OBVIOUS
  <1>1. /\ phase = "options" /\ outcome = "none" /\ cli = "reading" /\ logger = "fill"
        /\ global_dispatch = 1 /\ pending = 0 /\ ~events_initialized
        /\ started = 0 /\ joined = << >> /\ rng_seed = Zero /\ FileInit
        /\ threads_per_task = [id \in Slots |-> 0]
    BY DEF ProgramInit, CommandInit, LogInit
  <1>2. OptionsSound
    BY <1>1, UintMaxAssumption
       DEF ProgramInit, CommandInit, OptionsSound, Fields, TextOption, NumberOption
  <1>3. GeneratorSeeded
    BY <1>1 DEF GeneratorSeeded, BitWord, Zero
  <1>4. ListSound
    <2>1. Inv
      BY <1>1, InvInit
    <2>2. Frees
      BY <1>1, FreesInitially
    <2>3. MissingIsRecorded
      BY <1>1, EmptySeq DEF FileInit, MissingIsRecorded
    <2> QED
      BY <1>1, <2>1, <2>2, <2>3 DEF ListSound
  <1>5. WorkersFound
    <2>1. Len(tasks) = 0
      BY <1>1, EmptySeq DEF FileInit
    <2> QED
      BY <1>1, <2>1 DEF WorkersFound, Findable, EndsClean
  <1>6. PathsOpen /\ SoundRunsDoNotCrash
    BY <1>1 DEF PathsOpen, SoundRunsDoNotCrash
  <1>7. WithinLimit
    BY <1>1, UintMaxAssumption DEF WithinLimit, LimitGiven
  <1>8. Story
    BY <1>1, <1>7, UintMaxAssumption
       DEF Story, LoopTyped, NothingYet, WinnersLogged, LoopIsOver, InLoop
  <1>9. PairedToLimit /\ SummaryTold
    BY <1>1 DEF PairedToLimit, Paired, SummaryTold, InLoop
  <1> QED
    BY <1>2, <1>3, <1>4, <1>5, <1>6, <1>8, <1>9 DEF Sound

\* Every step of a run keeps it sound.
LEMMA SoundStep ==
    ASSUME Sound, [ProgramNext]_vars
    PROVE  Sound'
  <1>1. OptionsSound'
    <2>1. CASE ReadOptions
      BY <2>1, OptionsStep DEF Sound, ReadOptions
    <2>2. CASE ~ReadOptions
      <3>1. UNCHANGED cliVars
        BY <2>2 DEF ProgramNext, MainStep, OptionsRead, Load, Loaded, CreateWorker,
           CreateWorkerFails, WorkersCreated, MissingTaskCrashes, Configure, InitLogger,
           Dispatch, LogResult, LogCrashes, LoopEnds, Summarise, JoinWorker, CleanList, vars
      <3> QED
        BY <3>1, OptionsStay DEF Sound
    <2> QED
      BY <2>1, <2>2
  <1>2. GeneratorSeeded' /\ ListSound' /\ WorkersFound'
    BY GeneratorStep, ListStep, WorkersStep DEF Sound
  <1>3. PathsOpen' /\ SoundRunsDoNotCrash'
    BY PathsStep, CrashStep DEF Sound
  <1>4. Story' /\ PairedToLimit' /\ SummaryTold'
    BY StoryStep, PairedToLimitStep, SummaryStep DEF Sound
  <1> QED
    BY <1>1, <1>2, <1>3, <1>4 DEF Sound

\* Every run is sound throughout.
LEMMA RunsAreSound == ProgramSpec => []Sound
  <1> QED
    BY SoundInitially, SoundStep, PTL DEF ProgramSpec

\* A run with validated options draws every ticket it asks for: the parser
\* refuses a seed of 0, main seeds before the loop, and no word but 0 is
\* followed by 0 (parser.c:255-258, scheduler.c:57-67, 117, rng.c:27-51).
THEOREM ValidatedRunsDraw == ProgramSpec => []DrawsAreNeverRefused
  <1>1. Sound => DrawsAreNeverRefused
    BY DEF Sound, GeneratorSeeded, DrawsAreNeverRefused, Unseeded
  <1> QED
    BY <1>1, RunsAreSound, PTL

\* A run that ends well has joined each of its workers once and freed all its
\* tasks, however many there are and whatever their ids, as long as these have
\* an entry in the table (scheduler.c:13-20, 343-363).
THEOREM RunsEndClean == ProgramSpec => []EndsClean
  <1>1. Sound => EndsClean
    BY DEF Sound, WorkersFound
  <1> QED
    BY <1>1, RunsAreSound, PTL

\* A crash has one of four reasons: options that were not validated, memory, an
\* id beyond the table, or a path that cannot be made (parser.c:232-271,
\* main.c:30-43, scheduler.c:122, logger.c:129-150).
THEOREM CrashesHaveReasons == ProgramSpec => []SoundRunsDoNotCrash
  <1>1. Sound => SoundRunsDoNotCrash
    BY DEF Sound
  <1> QED
    BY <1>1, RunsAreSound, PTL

\* The summary and the log of a run agree, even of a run so long that the numbers
\* of its dispatches start over (scheduler.c:231-245, logger.c:165-214).
THEOREM FilesAgree == ProgramSpec => []SummaryAgreesWithLog
  <1>1. Sound => SummaryAgreesWithLog
    BY DEF Sound, SummaryTold, SummaryAgreesWithLog
  <1> QED
    BY <1>1, RunsAreSound, PTL

\* With a limit below the largest number of a dispatch, the log of a run is
\* complete whatever the work (scheduler.c:206-229, 302-339).
THEOREM LimitedRunsAreLogged == ProgramSpec => [](LimitGiven => EventLogIsComplete)
  <1>1. Sound => (LimitGiven => EventLogIsComplete)
    BY DEF Sound, PairedToLimit, Paired, EventLogIsComplete
  <1> QED
    BY <1>1, RunsAreSound, PTL

-----------------------------------------------------------------------------
\* Without a limit, each dispatch does at least one unit of the work of the file.

\* No task of the file has more than so much work.
WorkAtMost(most) ==
    /\ \A k \in DOMAIN unread : unread[k].kind = "task" => unread[k].work <= most
    /\ \A i \in DOMAIN tasks : tasks[i].work <= most

\* The units of work done, one by one.
DoneUnits(most) == {x \in Nodes \X (1..most) : x[2] <= work_units_done[x[1]]}

EachDoesAUnit(most) == InLoop => global_dispatch - 1 <= Cardinality(DoneUnits(most))

\* A list read from files with little work has little work.
LEMMA WorkAtMostStep ==
    ASSUME NEW most \in Nat,
           \A lines \in TaskFiles : \A k \in DOMAIN lines :
               lines[k].kind = "task" => lines[k].work <= most,
           Inv, WorkAtMost(most), [LoadStep]_fileVars
    PROVE  WorkAtMost(most)'
  <1> USE DEF WorkAtMost
  <1>1. tasks' = << >> /\ unread' = unread => WorkAtMost(most)'
    BY EmptySeq
  <1>2. unread # << >> =>
          /\ DOMAIN Tail(unread) = 1..(Len(unread) - 1) /\ DOMAIN unread = 1..Len(unread)
          /\ Len(unread) \in Nat \ {0} /\ Head(unread) = unread[1]
          /\ \A k \in DOMAIN Tail(unread) : Tail(unread)[k] = unread[k + 1]
    <2>1. unread \in Seq(Line)
      BY DEF Inv, TypeOK
    <2> QED
      BY <2>1, HeadTailProperties, LenProperties, EmptySeq
  <1>3. unread # << >> => \A k \in DOMAIN Tail(unread) :
           Tail(unread)[k].kind = "task" => Tail(unread)[k].work <= most
    BY <1>2
  <1>4. CASE AcceptLine
    <2>1. PICK created \in BOOLEAN : tasks' = Append(tasks, NodeFor(Head(unread), created))
      BY <1>4 DEF AcceptLine
    <2>2. NodeFor(Head(unread), created) \in Node
      BY <1>4, HeadTailProperties, NodeForType DEF AcceptLine, Inv, TypeOK
    <2>3. /\ tasks' \in Seq(Node) /\ tasks \in Seq(Node)
          /\ Len(tasks') = Len(tasks) + 1
          /\ \A i \in 1..Len(tasks) : tasks'[i] = tasks[i]
          /\ tasks'[Len(tasks) + 1] = NodeFor(Head(unread), created)
      BY <2>1, <2>2, AppendProperties DEF Inv, TypeOK
    <2>4. /\ DOMAIN tasks = 1..Len(tasks) /\ Len(tasks) \in Nat
          /\ DOMAIN tasks' = 1..(Len(tasks) + 1)
      BY <2>3, LenProperties
    <2>5. Head(unread).work <= most /\ unread # << >>
      BY <1>2, <1>4 DEF AcceptLine, Acceptable
    <2>6. \A i \in DOMAIN tasks' : tasks'[i].work <= most
      <3>1. tasks'[Len(tasks) + 1].work <= most
        BY <2>3, <2>5 DEF NodeFor
      <3> QED
        BY <2>3, <2>4, <3>1
    <2> QED
      BY <1>3, <1>4, <2>5, <2>6 DEF AcceptLine
  <1>5. CASE RejectLine \/ InsertFails
    BY <1>1, <1>5 DEF RejectLine, InsertFails, FailAndFree, Fail, ListAfterFailure
  <1>6. CASE EndOfFile
    BY <1>1, <1>6 DEF EndOfFile, FailAndFree, Fail, ListAfterFailure
  <1>7. CASE OpenFile
    BY <1>7 DEF OpenFile
  <1>8. CASE OpenFails \/ UNCHANGED fileVars
    BY <1>8 DEF OpenFails, fileVars
  <1>9. CASE ReadHeader \/ SkipEmptyLine
    BY <1>3, <1>9 DEF ReadHeader, SkipEmptyLine
  <1> QED
    BY <1>4, <1>5, <1>6, <1>7, <1>8, <1>9 DEF LoadStep

\* A dispatch does a unit that was not done, and there are only so many.
LEMMA DispatchDoesAUnit ==
    ASSUME NEW most \in Nat, MaxTasks * most < UintMax,
           OptionsSound, ListSound, Story, WorkAtMost(most), EachDoesAUnit(most), Dispatch
    PROVE  global_dispatch < UintMax /\ EachDoesAUnit(most)'
  <1>1. /\ phase = "loop" /\ UNCHANGED tasks /\ Nodes' = Nodes
        /\ global_dispatch' = (global_dispatch + 1) % (UintMax + 1)
        /\ global_dispatch \in 0..UintMax
    BY DEF Dispatch, fileVars, Nodes, Story, LoopTyped
  <1>2. PICK i \in Unfinished :
          \E n \in CanReach(i) : work_units_done' = [work_units_done EXCEPT ![i] = n]
    BY DEF Dispatch
  <1>next. PICK next \in CanReach(i) : work_units_done' = [work_units_done EXCEPT ![i] = next]
    BY <1>2
  <1> DEFINE new == <<i, work_units_done[i] + 1>>
             all == Nodes \X (1..most)
             S == DoneUnits(most)
             T == {x \in all : x[2] <= work_units_done'[x[1]]}
  <1>3. /\ i \in Nodes /\ work_units_done[i] < tasks[i].work
        /\ work_units_done \in [Nodes -> Nat] /\ work_units_done[i] \in Nat
        /\ tasks[i].work \in Nat /\ tasks[i].work <= most
    BY <1>1, <1>2, NumbersTyped DEF Unfinished, Story, LoopTyped, WorkAtMost, Nodes
  <1>4. next \in Nat /\ next >= work_units_done[i] + 1
    BY <1>next, <1>3 DEF CanReach
  <1>5. \A j \in Nodes : work_units_done'[j] = IF j = i THEN next ELSE work_units_done[j]
    BY <1>next, <1>3
  <1>6. new \in all /\ new \notin S /\ S \subseteq all
    BY <1>3 DEF DoneUnits
  <1>7. S \cup {new} \subseteq T
    <2>1. new \in T
      BY <1>3, <1>4, <1>5, <1>6
    <2>2. ASSUME NEW x \in S PROVE x \in T
      <3>1. x \in all /\ x[1] \in Nodes /\ x[2] \in Nat /\ x[2] <= work_units_done[x[1]]
        BY DEF DoneUnits
      <3>2. x[2] <= work_units_done'[x[1]]
        BY <1>3, <1>4, <1>5, <3>1
      <3> QED
        BY <3>1, <3>2
    <2> QED
      BY <2>1, <2>2
  <1>8. T = DoneUnits(most)'
    BY <1>1 DEF DoneUnits
  <1> DEFINE n == Len(tasks)
  <1>9. /\ n \in Nat /\ n <= MaxTasks /\ Nodes = 1..n
    BY <1>1, Accepted, LenProperties DEF ListSound, Inv, Growing
  <1>10. IsFiniteSet(all) /\ Cardinality(all) = n * most
    <2>1. /\ IsFiniteSet(1..n) /\ Cardinality(1..n) = n
          /\ IsFiniteSet(1..most) /\ Cardinality(1..most) = most
      BY <1>9, UpToIsFinite
    <2>2. /\ IsFiniteSet((1..n) \X (1..most))
          /\ Cardinality((1..n) \X (1..most)) = Cardinality(1..n) * Cardinality(1..most)
      BY <2>1, FS_Product
    <2> QED
      BY <1>9, <2>1, <2>2, Zenon
  <1> HIDE DEF all, S, T, new
  <1>11. /\ IsFiniteSet(S) /\ IsFiniteSet(T)
         /\ Cardinality(S \cup {new}) = Cardinality(S) + 1
         /\ IsFiniteSet(S \cup {new})
         /\ Cardinality(S) \in Nat /\ Cardinality(T) \in Nat /\ Cardinality(all) \in Nat
    <2>1. IsFiniteSet(S) /\ IsFiniteSet(T)
      BY <1>6, <1>10, FS_Subset DEF T
    <2> QED
      BY <1>6, <1>10, <2>1, FS_AddElement, FS_CardinalityType
  <1>12. /\ Cardinality(S) + 1 <= Cardinality(T)
         /\ Cardinality(S) + 1 <= Cardinality(all)
    BY <1>6, <1>7, <1>10, <1>11, FS_Subset
  <1>13. global_dispatch - 1 <= Cardinality(S)
    BY <1>1 DEF EachDoesAUnit, InLoop, S
  <1>14. n * most <= MaxTasks * most
    BY <1>9, TaskBoundsAssumption
  <1>15. global_dispatch < UintMax
    BY <1>1, <1>10, <1>11, <1>12, <1>13, <1>14, TaskBoundsAssumption, UintMaxAssumption
  <1>16. global_dispatch' = global_dispatch + 1
    <2>1. global_dispatch + 1 \in 0..UintMax
      BY <1>1, <1>15, UintMaxAssumption
    <2> QED
      BY <1>1, <2>1, LoopArithmetic, Zenon
  <1>17. global_dispatch' - 1 <= Cardinality(T)
    BY <1>1, <1>11, <1>12, <1>13, <1>16
  <1> QED
    BY <1>8, <1>15, <1>17 DEF EachDoesAUnit

\* All of it, with the log.
Few(most) == WorkAtMost(most) /\ EachDoesAUnit(most) /\ Paired

\* Every step keeps the dispatches no more than the units of work done.
LEMMA FewStep ==
    ASSUME NEW most \in Nat, MaxTasks * most < UintMax,
           \A lines \in TaskFiles : \A k \in DOMAIN lines :
               lines[k].kind = "task" => lines[k].work <= most,
           Sound, Few(most), [ProgramNext]_vars
    PROVE  Few(most)'
  <1> USE DEF Sound, Few
  <1>1. WorkAtMost(most)'
    <2>1. CASE phase = "load"
      <3>1. [LoadStep]_fileVars
        BY <2>1 DEF ProgramNext, MainStep, ReadOptions, OptionsRead, Load, Loaded, CreateWorker,
           CreateWorkerFails, WorkersCreated, MissingTaskCrashes, Configure, InitLogger,
           Dispatch, LogResult, LogCrashes, LoopEnds, Summarise, JoinWorker, CleanList,
           vars, mainVars
      <3> QED
        BY <2>1, <3>1, WorkAtMostStep DEF ListSound
    <2>2. CASE CleanList
      BY <2>2, EmptySeq DEF CleanList, WorkAtMost
    <2>3. CASE phase # "load" /\ ~CleanList
      <3>1. UNCHANGED fileVars
        BY <2>3 DEF ProgramNext, MainStep, ReadOptions, OptionsRead, Load, Loaded, CreateWorker,
           CreateWorkerFails, WorkersCreated, MissingTaskCrashes, Configure, InitLogger,
           Dispatch, LogResult, LogCrashes, LoopEnds, Summarise, JoinWorker, vars
      <3> QED
        BY <3>1 DEF fileVars, WorkAtMost
    <2> QED
      BY <2>1, <2>2, <2>3
  <1>2. Dispatch => global_dispatch < UintMax
    BY DispatchDoesAUnit
  <1>3. Paired'
    BY <1>2, PairedStep
  <1>4. EachDoesAUnit(most)'
    <2>1. CASE Dispatch
      BY <2>1, DispatchDoesAUnit
    <2>2. CASE InLoop' /\ ~InLoop
      <3>1. InitLogger
        BY <2>2 DEF InLoop, ProgramNext, MainStep, ReadOptions, OptionsRead, Load, Loaded,
           CreateWorker, CreateWorkerFails, WorkersCreated, MissingTaskCrashes, Configure,
           Dispatch, LogResult, LogCrashes, LoopEnds, Summarise, JoinWorker, CleanList,
           Exit, GoTo, vars, mainVars
      <3>2. /\ global_dispatch = 1 /\ UNCHANGED <<tasks, work_units_done, global_dispatch>>
        BY <3>1 DEF InitLogger, Story, NothingYet, fileVars, loopVars
      <3>3. DoneUnits(most)' = DoneUnits(most)
        BY <3>2 DEF DoneUnits, Nodes
      <3>4. Cardinality(DoneUnits(most)) \in Nat
        <4>1. IsFiniteSet(Nodes) /\ IsFiniteSet(1..most)
          <5>1. Nodes = 1..Len(tasks) /\ Len(tasks) \in Nat
            BY <3>1, Accepted DEF InitLogger
          <5> QED
            BY <5>1, UpToIsFinite
        <4>2. IsFiniteSet(Nodes \X (1..most))
          BY <4>1, FS_Product
        <4> QED
          BY <4>2, FS_Subset, FS_CardinalityType DEF DoneUnits
      <3> QED
        BY <3>2, <3>3, <3>4 DEF EachDoesAUnit
    <2>3. CASE InLoop /\ InLoop' /\ ~Dispatch
      <3>1. UNCHANGED <<tasks, work_units_done, global_dispatch>>
        BY <2>3 DEF InLoop, ProgramNext, MainStep, ReadOptions, OptionsRead, Load, Loaded,
           CreateWorker, CreateWorkerFails, WorkersCreated, MissingTaskCrashes, Configure,
           InitLogger, LogResult, LogCrashes, LoopEnds, Summarise, JoinWorker, CleanList,
           Exit, GoTo, vars, mainVars, loopVars, fileVars
      <3>2. DoneUnits(most)' = DoneUnits(most)
        BY <3>1 DEF DoneUnits, Nodes
      <3> QED
        BY <2>3, <3>1, <3>2 DEF EachDoesAUnit
    <2> QED
      BY <2>1, <2>2, <2>3 DEF EachDoesAUnit
  <1> QED
    BY <1>1, <1>3, <1>4

\* Without a limit the log of a run is complete as long as the tasks of a file,
\* however many it may have, cannot have more work in all than a dispatch number
\* can count (scheduler.c:206-229, 302-339).
THEOREM SmallRunsAreLogged ==
    ASSUME NEW most \in Nat, MaxTasks * most < UintMax,
           \A lines \in TaskFiles : \A k \in DOMAIN lines :
               lines[k].kind = "task" => lines[k].work <= most
    PROVE  ProgramSpec => []EventLogIsComplete
  <1>1. ProgramInit => Few(most)
    <2> SUFFICES ASSUME ProgramInit PROVE Few(most)
      OBVIOUS
    <2>1. phase = "options" /\ outcome = "none" /\ tasks = << >> /\ unread = << >>
      BY DEF ProgramInit, FileInit
    <2> QED
      BY <2>1, EmptySeq DEF Few, WorkAtMost, EachDoesAUnit, Paired, InLoop
  <1>2. Sound /\ Few(most) /\ [ProgramNext]_vars => Few(most)'
    BY FewStep
  <1>3. Few(most) => EventLogIsComplete
    BY DEF Few, Paired, EventLogIsComplete
  <1> QED
    BY <1>1, <1>2, <1>3, RunsAreSound, PTL DEF ProgramSpec
=============================================================================
