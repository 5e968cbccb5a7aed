---------------------- MODULE SequentialLottery_proofs ----------------------
(***************************************************************************)
(* Proofs, for every number of tasks, of what the sequential loop promises: *)
(* its values fit in their words, its draws are fair, and the number of its *)
(* dispatches does not depend on the draws.                                *)
(***************************************************************************)
EXTENDS SequentialLottery, Lottery_proofs, FunctionTheorems

-----------------------------------------------------------------------------
\* Typing.

\* What is needed besides the types: the winner of a draw is a task, and nobody
\* works more than its work.
Typed ==
    /\ TypeOK
    /\ phase \in {"drawn", "running", "ran"} => winner \in Task
    /\ \A t \in Task : done[t] <= WorkUnits[t]

\* A dispatch is of at least one unit (task.c:281-284).
LEMMA UnitsType ==
    ASSUME TypeOK, NEW t \in Task PROVE Units(t) \in Nat \ {0}
<1>1. options.slicePercent \in 0..100 /\ options.quantum \in Word
  BY OptionsAssumption DEF TypeOK, OptionRecord
<1>2. CooperativeSlice[t][options.slicePercent] \in Word
  BY <1>1, CooperativeSliceType
<1>. QED BY <1>1, <1>2, EarlyLimitType DEF Units

\* The allotments are fixed by the options.
LEMMA UnitsStay ==
    ASSUME NEW t \in Task, options' = options PROVE Units(t)' = Units(t)
BY DEF Units

\* Work units are words.
LEMMA WorkIsWord == \A t \in Task : WorkUnits[t] \in Word /\ WorkUnits[t] \in Nat
BY WorkUnitsAssumption, UintMaxPositive DEF Word

\* Every step of the loop keeps its types and the work within what is asked.
LEMMA TypedStep ==
    ASSUME Typed, [Next]_vars PROVE Typed'
<1>. USE DEF Typed, TypeOK
<1>1. CASE Draw
  <2>1. PICK x \in (IF seed = 0 THEN {0} ELSE RngNext[seed]) :
            /\ seed' = x
            /\ winner' = WinnerOf(tickets, ready,
                            IF seed = 0 THEN 0
                            ELSE WinningTicket(x, TotalOver(tickets, ready)))
    BY <1>1 DEF Draw
  <2>2. seed' \in Words \cup {0}
    BY <2>1, RngNextAssumption
  <2>3. winner' \in Task
    BY <1>1, <2>1, WinnerTakesPart DEF Draw
  <2>. QED BY <1>1, <2>2, <2>3 DEF Draw
<1>2. CASE Dispatch
  BY <1>2, IncType DEF Dispatch
<1>3. CASE Work
  <2>. DEFINE units == done[winner] + Units(winner)
              next == IF units >= WorkUnits[winner] THEN WorkUnits[winner] ELSE units
  <2>1. winner \in Task /\ done[winner] \in Nat /\ Units(winner) \in Nat
    BY <1>3, UnitsType, WordFacts DEF Work
  <2>2. next \in Word /\ next <= WorkUnits[winner]
    <3>1. units \in Nat
      BY <2>1
    <3>. HIDE DEF units
    <3>. QED BY <2>1, <3>1, WorkUnitsAssumption, UintMaxPositive DEF Word
  <2>3. done' = [done EXCEPT ![winner] = next]
    BY <1>3 DEF Work, Completes
  <2>. HIDE DEF next
  <2>4. done' \in [Task -> Word] /\ \A t \in Task : done'[t] <= WorkUnits[t]
    BY <2>1, <2>2, <2>3
  <2>. QED BY <1>3, <2>1, <2>4 DEF Work
<1>4. CASE Settle
  <2>1. TicketsAfter(winner, options.compensation) \in Word
    BY <1>4, TicketsAfterType DEF Settle
  <2>. QED BY <1>4, <2>1 DEF Settle
<1>5. CASE Halt \/ Abort \/ Stopped \/ UNCHANGED vars
  BY <1>5 DEF Halt, Abort, Stopped, vars
<1>. QED BY <1>1, <1>2, <1>3, <1>4, <1>5 DEF Next

\* The loop starts well typed.
LEMMA InitTyped == Init => Typed
<1>. SUFFICES ASSUME Init PROVE Typed
  OBVIOUS
<1>1. options \in Options /\ seed \in Words \cup {0}
  BY WordsAssumption DEF Init
<1>2. tickets \in [Task -> Word] /\ done \in [Task -> Word]
  BY TicketsAssumption, UintMaxPositive, WordFacts DEF Init, Word
<1>3. \A t \in Task : done[t] <= WorkUnits[t]
  BY WorkIsWord DEF Init
<1>. QED BY <1>1, <1>2, <1>3, WordFacts DEF Init, Typed, TypeOK

\* The loop is well typed throughout.
LEMMA TypedHolds == Spec => []Typed
<1>1. Typed /\ [Next]_vars => Typed'
  BY TypedStep
<1>. QED BY <1>1, InitTyped, PTL DEF Spec

\* The tickets, the dispatch number and the work done fit in their words, and
\* the winner is always a task of the list (task.c:219-227, scheduler.c:339).
THEOREM LoopTypeCorrect == Spec => []TypeOK
<1>1. Typed => TypeOK
  BY DEF Typed
<1>. QED BY <1>1, TypedHolds, PTL

-----------------------------------------------------------------------------
\* Fairness of the draw.

\* The words from 1 to the range draw each ticket once.
LEMMA EachTicketOnce ==
    ASSUME NEW range \in Nat, range <= UintMax, NEW K \in SUBSET (1..range)
    PROVE  Cardinality({x \in 1..range : WinningTicket(x, range) \in K}) = Cardinality(K)
<1> DEFINE W == {x \in 1..range : WinningTicket(x, range) \in K}
           F == [k \in K |-> IF k = 1 THEN range ELSE k - 1]
<1>1. \A x \in 1..range : WinningTicket(x, range) = IF x = range THEN 1 ELSE x + 1
  <2> TAKE x \in 1..range
  <2>1. (x % range) + 1 = IF x = range THEN 1 ELSE x + 1
    BY SMT
  <2>2. (IF x = range THEN 1 ELSE x + 1) \in 0..UintMax
    BY UintMaxPositive
  <2>. QED BY <2>1, <2>2, NoWrap, Zenon DEF WinningTicket
<1>2. F \in [K -> W]
  BY <1>1
<1>3. \A a, b \in K : F[a] = F[b] => a = b
  OBVIOUS
<1>4. \A x \in W : \E k \in K : F[k] = x
  BY <1>1
<1>5. ExistsBijection(K, W)
  <2> HIDE DEF F, W
  <2>1. F \in Bijection(K, W)
    BY <1>2, <1>3, <1>4, Fun_IsBij
  <2>. QED BY <2>1, Fun_ExistsBij
<1>6. IsFiniteSet(K)
  <2>1. IsFiniteSet(1..range)
    BY FS_Interval
  <2>. QED BY <2>1, FS_Subset
<1>. QED BY <1>5, <1>6, FS_Bijection

\* Of the words from 1 to the number of active tickets, each ready task is drawn by
\* as many as it has tickets (README.md:103, scheduler.c:44-114).
THEOREM DrawsAreProportional == Spec => []DrawIsProportional
<1>1. ASSUME TypeOK PROVE DrawIsProportional
  <2>. DEFINE active == TotalOver(tickets, ready)
  <2>. SUFFICES ASSUME active <= UintMax, NEW t \in Task
                PROVE  Cardinality({x \in 1..active :
                          WinnerOf(tickets, ready, WinningTicket(x, active)) = t})
                         = IF t \in ready THEN tickets[t] ELSE 0
    BY DEF DrawIsProportional
  <2>1. tickets \in [Task -> Nat] /\ ready \in SUBSET Task
    BY <1>1, WordFacts DEF TypeOK
  <2>2. active \in Nat
    BY <2>1, ShareWithinTotal, TaskFacts
  <2>. HIDE DEF active
  <2>. DEFINE K == {k \in 1..active : WinnerOf(tickets, ready, k) = t}
  <2>3. Cardinality(K) = IF t \in ready THEN tickets[t] ELSE 0
    BY <2>1, TicketsThatWin DEF Share, active
  <2>4. {x \in 1..active : WinnerOf(tickets, ready, WinningTicket(x, active)) = t}
          = {x \in 1..active : WinningTicket(x, active) \in K}
    <3>1. \A x \in 1..active : WinningTicket(x, active) \in 1..active
      <4> TAKE x \in 1..active
      <4>1. (x % active) + 1 \in 1..active
        BY <2>2, SMT
      <4>2. (x % active) + 1 \in 0..UintMax
        BY <2>2, <4>1, UintMaxPositive
      <4>. QED BY <4>1, <4>2, NoWrap, Zenon DEF WinningTicket
    <3>. QED BY <3>1
  <2>5. K \in SUBSET (1..active)
    OBVIOUS
  <2>. HIDE DEF K
  <2>. QED BY <2>2, <2>3, <2>4, <2>5, EachTicketOnce
<1>. QED BY <1>1, LoopTypeCorrect, PTL

-----------------------------------------------------------------------------
\* The number of dispatches.

\* The dispatches that the work done has taken, and with the one under way.
Used(t) == CeilDiv(done[t], Units(t))

Given == [t \in Task |-> Used(t) + (IF phase = "running" /\ t = winner THEN 1 ELSE 0)]

\* A task with work left has used up whole dispatches, and takes part in the
\* draws unless it is the one at work; who has no work left is out.
WholeDispatches ==
    /\ \A t \in Task : done[t] < WorkUnits[t] => done[t] = Used(t) * Units(t)
    /\ phase \notin {"halted", "aborted"} =>
          \A t \in Task : done[t] < WorkUnits[t]
                            <=> t \in ready \/ (phase = "running" /\ t = winner)
    /\ phase = "drawn" => winner \in ready
    /\ phase = "running" => winner \notin ready
    /\ phase = "halted" /\ options.maxDispatches = 0 =>
          \A t \in Task : done[t] = WorkUnits[t]

\* The dispatch number counts them all.
Counts ==
    /\ \A t \in Task : Given[t] <= WorkUnits[t]
    /\ count = TotalOver(Given, Task) + 1

\* The functions of the sums.
LEMMA GivenType ==
    ASSUME Typed
    PROVE  /\ \A t \in Task : Used(t) \in Nat /\ Units(t) \in Nat \ {0} /\ done[t] \in Nat
           /\ Given \in [Task -> Nat]
<1>1. ASSUME NEW t \in Task PROVE Used(t) \in Nat /\ Units(t) \in Nat \ {0} /\ done[t] \in Nat
  <2>1. Units(t) \in Nat \ {0} /\ done[t] \in Nat
    BY UnitsType, WordFacts DEF Typed, TypeOK
  <2>2. done[t] + Units(t) - 1 \in Nat
    BY <2>1
  <2>. QED BY <2>1, <2>2, DivisionFacts DEF Used, CeilDiv
<1>2. \A t \in Task : Used(t) + (IF phase = "running" /\ t = winner THEN 1 ELSE 0) \in Nat
  BY <1>1
<1>. QED BY <1>1, <1>2 DEF Given

\* Without work or a dispatch nothing is counted.
LEMMA GivenStays ==
    ASSUME UNCHANGED <<options, done>>, phase # "running", phase' # "running"
    PROVE  Given' = Given /\ \A t \in Task : UNCHANGED <<Used(t), Units(t)>>
<1>1. \A t \in Task : UNCHANGED <<Used(t), Units(t)>>
  BY UnitsStay DEF Used
<1>. QED BY <1>1 DEF Given

\* A dispatch is counted for the winner, which has work left.
LEMMA CountDispatch ==
    ASSUME TotalOver(WorkUnits, Task) < UintMax,
           Typed, WholeDispatches, Counts, Dispatch
    PROVE  Counts'
<1>1. /\ winner \in Task /\ winner \in ready /\ done[winner] < WorkUnits[winner]
      /\ phase = "drawn" /\ phase' = "running" /\ count' = Inc(count)
      /\ UNCHANGED <<options, done, winner>>
  BY DEF Dispatch, Typed, WholeDispatches
<1>2. \A t \in Task : UNCHANGED <<Used(t), Units(t)>>
  BY <1>1, UnitsStay DEF Used
<1>3. Given' = [Given EXCEPT ![winner] = Given[winner] + 1] /\ Given[winner] = Used(winner)
  <2>1. \A t \in Task : Given[t] = Used(t) /\ Used(t) \in Nat
    BY <1>1, GivenType DEF Given
  <2>2. Given' = [t \in Task |-> Used(t) + (IF t = winner THEN 1 ELSE 0)]
    BY <1>1, <1>2 DEF Given
  <2>3. Given \in [Task -> Nat]
    BY GivenType
  <2>4. [Given EXCEPT ![winner] = Given[winner] + 1]
          = [t \in Task |-> IF t = winner THEN Given[winner] + 1 ELSE Given[t]]
    BY <2>3
  <2>5. ASSUME NEW t \in Task
        PROVE  Used(t) + (IF t = winner THEN 1 ELSE 0)
                 = IF t = winner THEN Given[winner] + 1 ELSE Given[t]
    <3>1. Given[t] = Used(t) /\ Used(t) \in Nat
      BY <2>1
    <3>2. CASE t = winner
      BY <3>1, <3>2
    <3>3. CASE t # winner
      BY <3>1, <3>3
    <3>. QED BY <3>2, <3>3
  <2>6. Given' = [t \in Task |-> IF t = winner THEN Given[winner] + 1 ELSE Given[t]]
    BY <2>2, <2>5, Zenon
  <2>. QED BY <1>1, <2>1, <2>4, <2>6
<1>. DEFINE next == [Given EXCEPT ![winner] = Given[winner] + 1]
<1>4. Given \in [Task -> Nat] /\ next \in [Task -> Nat] /\ Given[winner] \in Nat
  <2>1. Given \in [Task -> Nat]
    BY GivenType
  <2>2. Given[winner] + 1 \in Nat
    BY <1>1, <2>1
  <2>. QED BY <1>1, <2>1, <2>2
<1>5. Given[winner] < WorkUnits[winner]
  <2>1. /\ done[winner] = Used(winner) * Units(winner) /\ Used(winner) \in Nat
        /\ Units(winner) \in Nat \ {0}
    BY <1>1, GivenType DEF WholeDispatches
  <2>2. Used(winner) <= Used(winner) * Units(winner)
    BY <2>1, AllotmentFacts
  <2>3. WorkUnits[winner] \in Nat /\ done[winner] \in Nat
    BY <1>1, WorkIsWord, GivenType
  <2>. QED BY <1>1, <1>3, <2>1, <2>2, <2>3
<1>6. ASSUME NEW t \in Task PROVE next[t] <= WorkUnits[t]
  <2>1. WorkUnits[t] \in Nat /\ Given[t] \in Nat /\ Given[t] <= WorkUnits[t]
    BY <1>4, WorkIsWord DEF Counts
  <2>. QED BY <1>1, <1>4, <1>5, <2>1
<1>7. TotalOver(next, Task) = TotalOver(Given, Task) + 1
  <2>1. Given \in [Task -> Int] /\ next \in [Task -> Int]
    BY <1>4
  <2>2. /\ \A u \in Task \ {winner} : Share(Given, Task, u) = Share(next, Task, u)
        /\ Share(next, Task, winner) = Given[winner] + 1
        /\ Share(Given, Task, winner) = Given[winner]
    BY <1>1, <1>4 DEF Share
  <2>. HIDE DEF next
  <2>3. TotalOver(next, Task) = TotalOver(Given, Task)
          + Share(next, Task, winner) - Share(Given, Task, winner)
    BY <1>1, <2>1, <2>2, OneShareChanges
  <2>4. TotalOver(Given, Task) \in Nat
    BY <1>1, <1>4, ShareWithinTotal
  <2>. QED BY <1>4, <2>2, <2>3, <2>4
<1>8. TotalOver(next, Task) <= TotalOver(WorkUnits, Task) /\ TotalOver(WorkUnits, Task) \in Nat
      /\ TotalOver(Given, Task) \in Nat
  <2>1. WorkUnits \in [Task -> Nat] /\ WorkUnits \in [Task -> Int] /\ next \in [Task -> Int]
    BY <1>4, WorkUnitsAssumption, UintMaxPositive
  <2>2. \A t \in Task : Share(next, Task, t) <= Share(WorkUnits, Task, t)
    BY <1>6 DEF Share
  <2>. HIDE DEF next
  <2>. QED BY <1>1, <1>4, <2>1, <2>2, SumsCompare, ShareWithinTotal
<1>. HIDE DEF next
<1>9. count = TotalOver(Given, Task) + 1 /\ count + 1 <= UintMax /\ count \in Nat
  BY <1>7, <1>8, UintMaxPositive DEF Counts
<1>10. Inc(count) = count + 1
  BY <1>9, UintMaxPositive, SMT DEF Inc, Truncate
<1>11. Given' = next
  BY <1>3 DEF next
<1>. QED BY <1>1, <1>6, <1>7, <1>9, <1>10, <1>11 DEF Counts

\* The work of a dispatch uses it up.
LEMMA WorkUsesDispatch ==
    ASSUME Typed, WholeDispatches, Work
    PROVE  /\ WholeDispatches' /\ Given' = Given
<1>. DEFINE units == done[winner] + Units(winner)
            next == IF units >= WorkUnits[winner] THEN WorkUnits[winner] ELSE units
            n == Used(winner)
            d == Units(winner)
<1>1. /\ winner \in Task /\ winner \notin ready /\ phase = "running" /\ phase' = "ran"
      /\ done' = [done EXCEPT ![winner] = next]
      /\ ready' = IF units >= WorkUnits[winner] THEN ready ELSE ready \cup {winner}
      /\ UNCHANGED <<options, winner>>
      /\ done[winner] < WorkUnits[winner]
  BY DEF Work, Completes, Typed, WholeDispatches
<1>2. \A t \in Task : Units(t)' = Units(t)
  BY <1>1, UnitsStay
<1>3. n \in Nat /\ d \in Nat \ {0} /\ done[winner] = n * d /\ WorkUnits[winner] \in Nat
      /\ done \in [Task -> Word] /\ done[winner] \in Nat
  BY <1>1, GivenType, WorkIsWord DEF WholeDispatches, Typed, TypeOK
<1>. HIDE DEF n, d
<1>4. (n + 1) * d = n * d + d /\ units = n * d + d /\ n * d \in Nat /\ (n + 1) * d \in Nat
  BY <1>3, AllotmentFacts DEF d
<1>5. next \in Nat /\ next <= (n + 1) * d /\ n * d < next /\ (n + 1) - 1 = n /\ n + 1 \in Nat
  BY <1>1, <1>3, <1>4
<1>. HIDE DEF next
<1>6. CeilDiv(next, d) = n + 1
  BY <1>3, <1>5, DispatchesFor
<1>7. Used(winner)' = n + 1 /\ done'[winner] = next
  BY <1>1, <1>2, <1>3, <1>6 DEF Used, d
<1>8. \A t \in Task \ {winner} : done'[t] = done[t] /\ Used(t)' = Used(t)
  BY <1>1, <1>2, <1>3 DEF Used
<1>9. Given' = Given
  <2>1. \A t \in Task : Given[t] = IF t = winner THEN n + 1 ELSE Used(t)
    <3>1. \A t \in Task : Used(t) \in Nat
      BY GivenType
    <3>. QED BY <1>1, <3>1 DEF Given, n
  <2>2. \A t \in Task : Used(t)' = Given[t]
    BY <1>1, <1>7, <1>8, <2>1
  <2>3. Given' = [t \in Task |-> Used(t)' + 0]
    BY <1>1 DEF Given
  <2>4. Given \in [Task -> Nat]
    BY GivenType
  <2>. QED BY <2>2, <2>3, <2>4
<1>10. (next < WorkUnits[winner] <=> ~(units >= WorkUnits[winner]))
       /\ (next < WorkUnits[winner] => next = (n + 1) * d)
  BY <1>3, <1>4 DEF next
<1>. HIDE DEF units
<1>11. ASSUME NEW t \in Task
       PROVE  /\ done'[t] < WorkUnits[t] => done'[t] = Used(t)' * Units(t)'
              /\ done'[t] < WorkUnits[t] <=> t \in ready'
  <2>1. CASE t = winner
    BY <1>1, <1>2, <1>7, <1>10, <2>1 DEF d
  <2>2. CASE t # winner
    BY <1>1, <1>2, <1>8, <2>2 DEF WholeDispatches
  <2>. QED BY <2>1, <2>2
<1>12. phase' # "running" /\ phase' # "drawn" /\ phase' # "halted"
  BY <1>1
<1>. QED BY <1>9, <1>11, <1>12 DEF WholeDispatches

\* The other steps change nothing of it.
LEMMA WholeDispatchesStep ==
    ASSUME Typed, WholeDispatches, [Next]_vars
    PROVE  WholeDispatches' /\ (~Dispatch => Given' = Given)
<1>1. CASE Draw
  <2>1. /\ phase = "ready" /\ phase' = "drawn" /\ UNCHANGED <<options, done, ready>>
        /\ winner' \in ready
    BY <1>1, WinnerTakesPart DEF Draw, Typed, TypeOK
  <2>2. Given' = Given /\ \A t \in Task : UNCHANGED <<Used(t), Units(t)>>
    BY <2>1, GivenStays
  <2>. QED BY <2>1, <2>2 DEF WholeDispatches
<1>2. CASE Dispatch
  <2>1. /\ phase = "drawn" /\ phase' = "running" /\ UNCHANGED <<options, done, winner>>
        /\ ready' = ready \ {winner} /\ winner \in ready /\ winner \in Task
    BY <1>2 DEF Dispatch, WholeDispatches, Typed
  <2>2. \A t \in Task : UNCHANGED <<Used(t), Units(t)>>
    BY <2>1, UnitsStay DEF Used
  <2>. QED BY <1>2, <2>1, <2>2 DEF WholeDispatches
<1>3. CASE Work
  BY <1>3, WorkUsesDispatch
<1>4. CASE Settle \/ Abort
  <2>1. /\ phase \in {"ran", "ready"} /\ phase' \in {"ready", "aborted"}
        /\ UNCHANGED <<options, done, ready, winner>>
    BY <1>4 DEF Settle, Abort
  <2>2. Given' = Given /\ \A t \in Task : UNCHANGED <<Used(t), Units(t)>>
    BY <2>1, GivenStays
  <2>. QED BY <2>1, <2>2 DEF WholeDispatches
<1>5. CASE Halt
  <2>1. /\ phase = "ready" /\ phase' = "halted" /\ UNCHANGED <<options, done>>
        /\ ready = {} \/ LimitReached
    BY <1>5 DEF Halt
  <2>2. Given' = Given /\ \A t \in Task : UNCHANGED <<Used(t), Units(t)>>
    BY <2>1, GivenStays
  <2>3. ASSUME options.maxDispatches = 0, NEW t \in Task PROVE done[t] = WorkUnits[t]
    <3>1. t \notin ready
      BY <2>1, <2>3 DEF LimitReached
    <3>2. ~(done[t] < WorkUnits[t])
      BY <2>1, <3>1 DEF WholeDispatches
    <3>. QED BY <3>2, GivenType, WorkIsWord DEF Typed
  <2>. QED BY <2>1, <2>2, <2>3 DEF WholeDispatches
<1>6. CASE Stopped \/ UNCHANGED vars
  <2>1. UNCHANGED <<options, done, ready, phase, winner>>
    BY <1>6 DEF Stopped, vars
  <2>2. Given' = Given /\ \A t \in Task : UNCHANGED <<Used(t), Units(t)>>
    BY <2>1, UnitsStay DEF Given, Used
  <2>. QED BY <2>1, <2>2 DEF WholeDispatches
<1>. QED BY <1>1, <1>2, <1>3, <1>4, <1>5, <1>6 DEF Next

\* Without a limit the number of dispatches is that of the allotments in the
\* work of each task, whoever wins when, for tasks whose work adds up to less
\* than the largest word (scheduler.c:149-341).
THEOREM LuckIsIrrelevant ==
    ASSUME TotalOver(WorkUnits, Task) < UintMax
    PROVE  Spec => []LuckDoesNotChangeTheWork
<1>1. Init => WholeDispatches /\ Counts
  <2>. SUFFICES ASSUME Init PROVE WholeDispatches /\ Counts
    OBVIOUS
  <2>1. Typed /\ phase = "ready" /\ ready = Task /\ count = 1 /\ \A t \in Task : done[t] = 0
    BY InitTyped DEF Init
  <2>2. ASSUME NEW t \in Task PROVE Used(t) = 0 /\ Used(t) * Units(t) = 0
    <3>1. Units(t) \in Nat \ {0}
      BY <2>1, GivenType
    <3>2. 0 * Units(t) = 0
      BY <3>1, AllotmentFacts
    <3>3. CeilDiv(0, Units(t)) = 0
      BY <3>1, <3>2, DispatchesFor
    <3>. QED BY <2>1, <3>2, <3>3 DEF Used
  <2>3. \A t \in Task : Given[t] = 0
    BY <2>1, <2>2 DEF Given
  <2>4. TotalOver(Given, Task) = 0
    <3>1. Given \in [Task -> Nat] /\ Given \in [Task -> Int]
      BY <2>1, GivenType
    <3>. QED BY <2>3, <3>1, NoShares DEF Share
  <2>5. \A t \in Task : WorkUnits[t] \in Nat /\ 0 < WorkUnits[t]
    BY WorkUnitsType
  <2>. QED BY <2>1, <2>2, <2>3, <2>4, <2>5 DEF WholeDispatches, Counts
<1>2. Typed /\ WholeDispatches /\ Counts /\ [Next]_vars => (WholeDispatches /\ Counts)'
  <2>. SUFFICES ASSUME Typed, WholeDispatches, Counts, [Next]_vars
                PROVE  WholeDispatches' /\ Counts'
    OBVIOUS
  <2>1. CASE Dispatch
    BY <2>1, WholeDispatchesStep, CountDispatch
  <2>2. CASE ~Dispatch
    <3>1. WholeDispatches' /\ Given' = Given
      BY <2>2, WholeDispatchesStep
    <3>2. count' = count
      BY <2>2 DEF Next, Draw, Work, Settle, Halt, Abort, Stopped, vars
    <3>. QED BY <3>1, <3>2 DEF Counts
  <2>. QED BY <2>1, <2>2
<1>3. Typed /\ WholeDispatches /\ Counts => LuckDoesNotChangeTheWork
  <2>. SUFFICES ASSUME Typed, WholeDispatches, Counts,
                       phase = "halted", options.maxDispatches = 0
                PROVE  count - 1 = TotalOver([t \in Task |-> DispatchesNeeded(t)], Task)
    BY DEF LuckDoesNotChangeTheWork
  <2>1. \A t \in Task : Used(t) = DispatchesNeeded(t) /\ Used(t) \in Nat
    BY GivenType DEF WholeDispatches, Used, DispatchesNeeded
  <2>2. Given = [t \in Task |-> DispatchesNeeded(t)]
    BY <2>1 DEF Given
  <2>3. TotalOver(Given, Task) \in Nat
    BY GivenType, ShareWithinTotal, TaskFacts
  <2>. QED BY <2>2, <2>3 DEF Counts
<1>. QED BY <1>1, <1>2, <1>3, TypedHolds, PTL DEF Spec
=============================================================================
