----------------------- MODULE LotteryScheduler_proofs -----------------------
(***************************************************************************)
(* Proofs, for every number of tasks, of the safety of the scheduler's      *)
(* threads.                                                                *)
(***************************************************************************)
EXTENDS LotteryCorrectness, Lottery_proofs

USE DEF HasNext, Dispatched

-----------------------------------------------------------------------------
\* Typing.

\* The holder of the mutex is a thread or Nobody.
LEMMA ThreadFacts ==
    /\ Main \in Thread /\ Task \subseteq Thread
    /\ Nobody \notin Thread /\ Main \notin Task /\ NoTask \notin Task
BY TaskFacts, SMT DEF Main, Thread, Nobody, NoTask, Task

\* The options that the loop reads are words (parser.c:18-26).
LEMMA OptionTypes ==
    ASSUME TypeOK
    PROVE  /\ options.slicePercent \in 0..100
           /\ options.maxDispatches \in Word
           /\ options.quantum \in Word
BY OptionsAssumption DEF TypeOK, OptionRecord

\* A freshly created task list and main thread are well typed.
LEMMA InitType == Init => TypeOK /\ InScope
<1>. SUFFICES ASSUME Init PROVE TypeOK /\ InScope
  OBVIOUS
<1>1. options \in Options /\ rng_seed \in Words \cup {0}
  BY WordsAssumption DEF Init
<1>2. effective_tickets \in [Task -> Word]
  BY TicketsAssumption, UintMaxPositive DEF Init, Word
<1>. QED BY <1>1, <1>2, TaskFacts, WordFacts, ThreadFacts DEF Init, TypeOK, InScope

\* A draw always has a range, so its ticket is a word.
LEMMA DrawTicketType ==
    ASSUME TypeOK, InScope, DrawTicket
    PROVE  rng_seed' \in Words /\ ticket' \in Word /\ ticket' <= active_tickets
<1>1. PICK x \in RngNext[rng_seed] :
          rng_seed' = x /\ ticket' = WinningTicket(x, active_tickets)
  BY DEF DrawTicket
<1>2. x \in Words /\ x \in Nat
  BY RngNextAssumption, WordsAssumption, WordFacts DEF TypeOK, DrawTicket
<1>3. active_tickets \in Nat \ {0}
  BY DEF TypeOK, InScope, DrawTicket
<1>. QED BY <1>1, <1>2, <1>3, WinningTicketRange

\* The sum of a scan stays a natural number.
LEMMA ScanSumType ==
    ASSUME TypeOK
    PROVE  acc + (IF IsEligible(cur) THEN effective_tickets[cur] ELSE 0) \in Nat
<1>1. acc \in Nat /\ effective_tickets[cur] \in Nat
  BY WordFacts DEF TypeOK
<1>2. CASE IsEligible(cur)
  BY <1>1, <1>2
<1>3. CASE ~IsEligible(cur)
  BY <1>1, <1>3
<1>. QED BY <1>2, <1>3

\* Every step of every thread keeps the types and the scope of the locals.
LEMMA NextType ==
    ASSUME TypeOK, InScope, [Next]_vars PROVE TypeOK' /\ InScope'
<1>. USE TaskFacts, WordFacts, ThreadFacts
     DEF TypeOK, InScope, taskVars, lockVars, workerVars, scanVars, drawVars, loopVars, outputVars
<1>1. CASE CreateWorker
  BY <1>1 DEF CreateWorker
<1>2. CASE CreateWorkerFails
  BY <1>2 DEF CreateWorkerFails
<1>3. CASE ConfigureCooperative
  BY <1>3, CooperativeSliceType, OptionTypes DEF ConfigureCooperative
<1>4. CASE Lock(Main)
  BY <1>4 DEF Lock
<1>5. CASE WaitUntilNoRunning
  BY <1>5 DEF WaitUntilNoRunning, CondWait
<1>6. CASE AfterDispatch
  <2>1. effective_tickets' \in [Task -> Word]
    <3>1. CASE pending
      BY <1>6, <3>1, TicketsAfterType DEF AfterDispatch, OwesResult
    <3>2. CASE ~pending
      BY <1>6, <3>2 DEF AfterDispatch, OwesResult
    <3>. QED BY <3>1, <3>2
  <2>2. mpc' \in {"shutdown", "finished"} /\ pending' = FALSE
    BY <1>6 DEF AfterDispatch, OwesResult, PendingAfterLog
  <2>. QED BY <1>6, <2>1, <2>2 DEF AfterDispatch, OwesResult
<1>7. CASE TaskShutdownAll
  BY <1>7 DEF TaskShutdownAll, StillAsleep
<1>8. CASE CheckFinished
  BY <1>8 DEF CheckFinished
<1>9. CASE CountTickets
  BY <1>9, ScanSumType DEF CountTickets
<1>10. CASE DrawTicket
  BY <1>10, DrawTicketType DEF DrawTicket
<1>11. CASE DrawTicketUnseeded
  BY <1>11 DEF DrawTicketUnseeded
<1>12. CASE PickWinner
  BY <1>12, ScanSumType DEF PickWinner
<1>13. CASE LogDecision
  BY <1>13 DEF LogDecision
<1>14. CASE TransitionToRunning
  <2>1. winner \in Task /\ Inc(dispatches[winner]) \in Word /\ Inc(global_dispatch) \in Word
    BY <1>14, IncType DEF TransitionToRunning
  <2>2. state' \in [Task -> {"READY", "RUNNING", "FINISHED"}]
    BY <1>14, <2>1 DEF TransitionToRunning
  <2>3. /\ dispatches' \in [Task -> Word]
        /\ first_dispatch' \in [Task -> Word]
        /\ last_dispatch' \in [Task -> Word]
        /\ sleepers' \subseteq Thread
    <3>1. CASE state[winner] = "READY"
      BY <1>14, <2>1, <3>1 DEF TransitionToRunning, StillAsleep
    <3>2. CASE state[winner] # "READY"
      BY <1>14, <3>2 DEF TransitionToRunning
    <3>. QED BY <3>1, <3>2
  <2>. QED BY <1>14, <2>1, <2>2, <2>3 DEF TransitionToRunning
<1>15. CASE WriteSummary
  BY <1>15 DEF WriteSummary
<1>16. CASE JoinWorker
  BY <1>16 DEF JoinWorker
<1>17. CASE CleanList
  BY <1>17 DEF CleanList
<1>18. ASSUME NEW t \in Task, Lock(t) PROVE TypeOK' /\ InScope'
  BY <1>18 DEF Lock
<1>19. ASSUME NEW t \in Task, SleepWhileReady(t) PROVE TypeOK' /\ InScope'
  BY <1>19 DEF SleepWhileReady, CondWait
<1>20. ASSUME NEW t \in Task, StartDispatch(t) PROVE TypeOK' /\ InScope'
  BY <1>20 DEF StartDispatch
<1>21. ASSUME NEW t \in Task, Exit(t) PROVE TypeOK' /\ InScope'
  BY <1>21 DEF Exit
<1>22. ASSUME NEW t \in Task, RunUnit(t) PROVE TypeOK' /\ InScope'
  BY <1>22 DEF RunUnit
<1>23. ASSUME NEW t \in Task, EndDispatch(t) PROVE TypeOK' /\ InScope'
  BY <1>23 DEF EndDispatch
<1>24. ASSUME NEW t \in Task, RunWithoutMode(t) PROVE TypeOK' /\ InScope'
  BY <1>24 DEF RunWithoutMode
<1>25. ASSUME NEW t \in Task, Report(t) PROVE TypeOK' /\ InScope'
  BY <1>25 DEF Report, StillAsleep, StateAfterWork
<1>26. CASE SpuriousWakeup
  BY <1>26 DEF SpuriousWakeup
<1>27. CASE UNCHANGED vars
  BY <1>27 DEF vars
<1>. QED
  BY <1>1, <1>2, <1>3, <1>4, <1>5, <1>6, <1>7, <1>8, <1>9, <1>10, <1>11, <1>12, <1>13, <1>14, <1>15, <1>16, <1>17, <1>18, <1>19, <1>20, <1>21, <1>22, <1>23, <1>24, <1>25, <1>26, <1>27
     DEF Next, MainStep, WorkerStep, Terminated

\* Every variable keeps its type.
THEOREM TypeCorrect == Spec => []TypeOK
<1>1. TypeOK /\ InScope /\ [Next]_vars => (TypeOK /\ InScope)'
  BY NextType
<1>. QED BY InitType, <1>1, PTL DEF Spec

-----------------------------------------------------------------------------
\* Mutual exclusion, sleeping and running.

\* What the steps below rely on.
Exclusion ==
    /\ TypeOK /\ InScope
    /\ HolderIsAtLockPoint /\ SleepersMustSleep
    /\ OnlyRunningWork /\ SoleRunner /\ WinnerIsReady

\* The holder of the mutex stays at its lock point until it releases it.
LEMMA HolderStep ==
    ASSUME Exclusion, [Next]_vars PROVE HolderIsAtLockPoint'
<1>. USE ThreadFacts DEF Exclusion, HolderIsAtLockPoint, SleepersMustSleep, AtLockPoint, Alive, TypeOK, MustWait, taskVars, lockVars, workerVars, scanVars, drawVars, loopVars, outputVars
<1>1. CASE CreateWorker
  BY <1>1 DEF CreateWorker
<1>2. CASE CreateWorkerFails
  BY <1>2 DEF CreateWorkerFails
<1>3. CASE ConfigureCooperative
  BY <1>3 DEF ConfigureCooperative
<1>4. CASE Lock(Main)
  BY <1>4 DEF Lock
<1>5. CASE WaitUntilNoRunning
  BY <1>5 DEF WaitUntilNoRunning, CondWait
<1>6. CASE AfterDispatch
  BY <1>6 DEF AfterDispatch, OwesResult
<1>7. CASE TaskShutdownAll
  BY <1>7 DEF TaskShutdownAll, StillAsleep
<1>8. CASE CheckFinished
  BY <1>8 DEF CheckFinished
<1>9. CASE CountTickets
  BY <1>9 DEF CountTickets
<1>10. CASE DrawTicket
  BY <1>10 DEF DrawTicket
<1>11. CASE DrawTicketUnseeded
  BY <1>11 DEF DrawTicketUnseeded
<1>12. CASE PickWinner
  BY <1>12 DEF PickWinner
<1>13. CASE LogDecision
  BY <1>13 DEF LogDecision
<1>14. CASE TransitionToRunning
  BY <1>14 DEF TransitionToRunning, StillAsleep
<1>15. CASE WriteSummary
  BY <1>15 DEF WriteSummary
<1>16. CASE JoinWorker
  BY <1>16 DEF JoinWorker
<1>17. CASE CleanList
  BY <1>17 DEF CleanList
<1>18. ASSUME NEW t \in Task, Lock(t) PROVE HolderIsAtLockPoint'
  BY <1>18 DEF Lock
<1>19. ASSUME NEW t \in Task, SleepWhileReady(t) PROVE HolderIsAtLockPoint'
  BY <1>19 DEF SleepWhileReady, CondWait
<1>20. ASSUME NEW t \in Task, StartDispatch(t) PROVE HolderIsAtLockPoint'
  BY <1>20 DEF StartDispatch
<1>21. ASSUME NEW t \in Task, Exit(t) PROVE HolderIsAtLockPoint'
  BY <1>21 DEF Exit
<1>22. ASSUME NEW t \in Task, RunUnit(t) PROVE HolderIsAtLockPoint'
  BY <1>22 DEF RunUnit
<1>23. ASSUME NEW t \in Task, EndDispatch(t) PROVE HolderIsAtLockPoint'
  BY <1>23 DEF EndDispatch
<1>24. ASSUME NEW t \in Task, RunWithoutMode(t) PROVE HolderIsAtLockPoint'
  BY <1>24 DEF RunWithoutMode
<1>25. ASSUME NEW t \in Task, Report(t) PROVE HolderIsAtLockPoint'
  BY <1>25 DEF Report, StillAsleep, StateAfterWork
<1>26. CASE SpuriousWakeup
  BY <1>26 DEF SpuriousWakeup
<1>27. CASE UNCHANGED vars
  BY <1>27 DEF vars
<1>. QED
  BY <1>1, <1>2, <1>3, <1>4, <1>5, <1>6, <1>7, <1>8, <1>9, <1>10, <1>11, <1>12, <1>13, <1>14, <1>15, <1>16, <1>17, <1>18, <1>19, <1>20, <1>21, <1>22, <1>23, <1>24, <1>25, <1>26, <1>27
     DEF Next, MainStep, WorkerStep, Terminated

\* Only the scheduler makes a task RUNNING, and then it waits for it.
LEMMA RunnerStep ==
    ASSUME Exclusion, [Next]_vars PROVE SoleRunner' /\ OnlyRunningWork'
<1>. USE ThreadFacts DEF Exclusion, TypeOK, InScope, SoleRunner, OnlyRunningWork, WinnerIsReady, Working, MustWait, taskVars, lockVars, workerVars, scanVars, drawVars, loopVars, outputVars
<1>1. CASE CreateWorker
  BY <1>1 DEF CreateWorker
<1>2. CASE CreateWorkerFails
  BY <1>2 DEF CreateWorkerFails
<1>3. CASE ConfigureCooperative
  BY <1>3 DEF ConfigureCooperative
<1>4. CASE Lock(Main)
  BY <1>4 DEF Lock
<1>5. CASE WaitUntilNoRunning
  BY <1>5 DEF WaitUntilNoRunning, CondWait
<1>6. CASE AfterDispatch
  BY <1>6 DEF AfterDispatch, OwesResult
<1>7. CASE TaskShutdownAll
  BY <1>7 DEF TaskShutdownAll, StillAsleep
<1>8. CASE CheckFinished
  BY <1>8 DEF CheckFinished
<1>9. CASE CountTickets
  BY <1>9 DEF CountTickets
<1>10. CASE DrawTicket
  BY <1>10 DEF DrawTicket
<1>11. CASE DrawTicketUnseeded
  BY <1>11 DEF DrawTicketUnseeded
<1>12. CASE PickWinner
  BY <1>12 DEF PickWinner
<1>13. CASE LogDecision
  BY <1>13 DEF LogDecision
<1>14. CASE TransitionToRunning
  BY <1>14 DEF TransitionToRunning, StillAsleep
<1>15. CASE WriteSummary
  BY <1>15 DEF WriteSummary
<1>16. CASE JoinWorker
  BY <1>16 DEF JoinWorker
<1>17. CASE CleanList
  BY <1>17 DEF CleanList
<1>18. ASSUME NEW t \in Task, Lock(t) PROVE SoleRunner' /\ OnlyRunningWork'
  BY <1>18 DEF Lock
<1>19. ASSUME NEW t \in Task, SleepWhileReady(t) PROVE SoleRunner' /\ OnlyRunningWork'
  BY <1>19 DEF SleepWhileReady, CondWait
<1>20. ASSUME NEW t \in Task, StartDispatch(t) PROVE SoleRunner' /\ OnlyRunningWork'
  BY <1>20 DEF StartDispatch
<1>21. ASSUME NEW t \in Task, Exit(t) PROVE SoleRunner' /\ OnlyRunningWork'
  BY <1>21 DEF Exit
<1>22. ASSUME NEW t \in Task, RunUnit(t) PROVE SoleRunner' /\ OnlyRunningWork'
  BY <1>22 DEF RunUnit
<1>23. ASSUME NEW t \in Task, EndDispatch(t) PROVE SoleRunner' /\ OnlyRunningWork'
  BY <1>23 DEF EndDispatch
<1>24. ASSUME NEW t \in Task, RunWithoutMode(t) PROVE SoleRunner' /\ OnlyRunningWork'
  BY <1>24 DEF RunWithoutMode
<1>25. ASSUME NEW t \in Task, Report(t) PROVE SoleRunner' /\ OnlyRunningWork'
  BY <1>25 DEF Report, StillAsleep, StateAfterWork
<1>26. CASE SpuriousWakeup
  BY <1>26 DEF SpuriousWakeup
<1>27. CASE UNCHANGED vars
  BY <1>27 DEF vars
<1>. QED
  BY <1>1, <1>2, <1>3, <1>4, <1>5, <1>6, <1>7, <1>8, <1>9, <1>10, <1>11, <1>12, <1>13, <1>14, <1>15, <1>16, <1>17, <1>18, <1>19, <1>20, <1>21, <1>22, <1>23, <1>24, <1>25, <1>26, <1>27
     DEF Next, MainStep, WorkerStep, Terminated

\* From the draw to the dispatch nobody touches the winner.
LEMMA WinnerStep ==
    ASSUME Exclusion, [Next]_vars PROVE WinnerIsReady'
<1>. USE ThreadFacts DEF Exclusion, TypeOK, InScope, SoleRunner, OnlyRunningWork, WinnerIsReady, Working, IsEligible, MustWait, taskVars, lockVars, workerVars, scanVars, drawVars, loopVars, outputVars
<1>1. CASE CreateWorker
  BY <1>1 DEF CreateWorker
<1>2. CASE CreateWorkerFails
  BY <1>2 DEF CreateWorkerFails
<1>3. CASE ConfigureCooperative
  BY <1>3 DEF ConfigureCooperative
<1>4. CASE Lock(Main)
  BY <1>4 DEF Lock
<1>5. CASE WaitUntilNoRunning
  BY <1>5 DEF WaitUntilNoRunning, CondWait
<1>6. CASE AfterDispatch
  BY <1>6 DEF AfterDispatch, OwesResult
<1>7. CASE TaskShutdownAll
  BY <1>7 DEF TaskShutdownAll, StillAsleep
<1>8. CASE CheckFinished
  BY <1>8 DEF CheckFinished
<1>9. CASE CountTickets
  BY <1>9 DEF CountTickets
<1>10. CASE DrawTicket
  BY <1>10 DEF DrawTicket
<1>11. CASE DrawTicketUnseeded
  BY <1>11 DEF DrawTicketUnseeded
<1>12. CASE PickWinner
  BY <1>12 DEF PickWinner
<1>13. CASE LogDecision
  BY <1>13 DEF LogDecision
<1>14. CASE TransitionToRunning
  BY <1>14 DEF TransitionToRunning, StillAsleep
<1>15. CASE WriteSummary
  BY <1>15 DEF WriteSummary
<1>16. CASE JoinWorker
  BY <1>16 DEF JoinWorker
<1>17. CASE CleanList
  BY <1>17 DEF CleanList
<1>18. ASSUME NEW t \in Task, Lock(t) PROVE WinnerIsReady'
  BY <1>18 DEF Lock
<1>19. ASSUME NEW t \in Task, SleepWhileReady(t) PROVE WinnerIsReady'
  BY <1>19 DEF SleepWhileReady, CondWait
<1>20. ASSUME NEW t \in Task, StartDispatch(t) PROVE WinnerIsReady'
  BY <1>20 DEF StartDispatch
<1>21. ASSUME NEW t \in Task, Exit(t) PROVE WinnerIsReady'
  BY <1>21 DEF Exit
<1>22. ASSUME NEW t \in Task, RunUnit(t) PROVE WinnerIsReady'
  BY <1>22 DEF RunUnit
<1>23. ASSUME NEW t \in Task, EndDispatch(t) PROVE WinnerIsReady'
  BY <1>23 DEF EndDispatch
<1>24. ASSUME NEW t \in Task, RunWithoutMode(t) PROVE WinnerIsReady'
  BY <1>24 DEF RunWithoutMode
<1>25. ASSUME NEW t \in Task, Report(t) PROVE WinnerIsReady'
  BY <1>25 DEF Report, StillAsleep, StateAfterWork
<1>26. CASE SpuriousWakeup
  BY <1>26 DEF SpuriousWakeup
<1>27. CASE UNCHANGED vars
  BY <1>27 DEF vars
<1>. QED
  BY <1>1, <1>2, <1>3, <1>4, <1>5, <1>6, <1>7, <1>8, <1>9, <1>10, <1>11, <1>12, <1>13, <1>14, <1>15, <1>16, <1>17, <1>18, <1>19, <1>20, <1>21, <1>22, <1>23, <1>24, <1>25, <1>26, <1>27
     DEF Next, MainStep, WorkerStep, Terminated

\* Every change of a condition that someone waits for wakes the sleepers.
LEMMA SleepersStep ==
    ASSUME Exclusion, [Next]_vars PROVE SleepersMustSleep'
<1>. USE ThreadFacts DEF Exclusion, TypeOK, InScope, SleepersMustSleep, SoleRunner, OnlyRunningWork, Working, HolderIsAtLockPoint, AtLockPoint, MustWait, Alive, taskVars, lockVars, workerVars, scanVars, drawVars, loopVars, outputVars
<1>1. CASE CreateWorker
  BY <1>1 DEF CreateWorker
<1>2. CASE CreateWorkerFails
  BY <1>2 DEF CreateWorkerFails
<1>3. CASE ConfigureCooperative
  BY <1>3 DEF ConfigureCooperative
<1>4. CASE Lock(Main)
  BY <1>4 DEF Lock
<1>5. CASE WaitUntilNoRunning
  BY <1>5 DEF WaitUntilNoRunning, CondWait
<1>6. CASE AfterDispatch
  BY <1>6 DEF AfterDispatch, OwesResult
<1>7. CASE TaskShutdownAll
  BY <1>7 DEF TaskShutdownAll, StillAsleep
<1>8. CASE CheckFinished
  BY <1>8 DEF CheckFinished
<1>9. CASE CountTickets
  BY <1>9 DEF CountTickets
<1>10. CASE DrawTicket
  BY <1>10 DEF DrawTicket
<1>11. CASE DrawTicketUnseeded
  BY <1>11 DEF DrawTicketUnseeded
<1>12. CASE PickWinner
  BY <1>12 DEF PickWinner
<1>13. CASE LogDecision
  BY <1>13 DEF LogDecision
<1>14. CASE TransitionToRunning
  BY <1>14 DEF TransitionToRunning, StillAsleep
<1>15. CASE WriteSummary
  BY <1>15 DEF WriteSummary
<1>16. CASE JoinWorker
  BY <1>16 DEF JoinWorker
<1>17. CASE CleanList
  BY <1>17 DEF CleanList
<1>18. ASSUME NEW t \in Task, Lock(t) PROVE SleepersMustSleep'
  BY <1>18 DEF Lock
<1>19. ASSUME NEW t \in Task, SleepWhileReady(t) PROVE SleepersMustSleep'
  BY <1>19 DEF SleepWhileReady, CondWait
<1>20. ASSUME NEW t \in Task, StartDispatch(t) PROVE SleepersMustSleep'
  BY <1>20 DEF StartDispatch
<1>21. ASSUME NEW t \in Task, Exit(t) PROVE SleepersMustSleep'
  BY <1>21 DEF Exit
<1>22. ASSUME NEW t \in Task, RunUnit(t) PROVE SleepersMustSleep'
  BY <1>22 DEF RunUnit
<1>23. ASSUME NEW t \in Task, EndDispatch(t) PROVE SleepersMustSleep'
  BY <1>23 DEF EndDispatch
<1>24. ASSUME NEW t \in Task, RunWithoutMode(t) PROVE SleepersMustSleep'
  BY <1>24 DEF RunWithoutMode
<1>25. ASSUME NEW t \in Task, Report(t) PROVE SleepersMustSleep'
  BY <1>25 DEF Report, StillAsleep, StateAfterWork
<1>26. CASE SpuriousWakeup
  BY <1>26 DEF SpuriousWakeup
<1>27. CASE UNCHANGED vars
  BY <1>27 DEF vars
<1>. QED
  BY <1>1, <1>2, <1>3, <1>4, <1>5, <1>6, <1>7, <1>8, <1>9, <1>10, <1>11, <1>12, <1>13, <1>14, <1>15, <1>16, <1>17, <1>18, <1>19, <1>20, <1>21, <1>22, <1>23, <1>24, <1>25, <1>26, <1>27
     DEF Next, MainStep, WorkerStep, Terminated

-----------------------------------------------------------------------------
\* The scans of the list: what is counted is found.

\* The tickets the lottery counts for a task.
Weight(t) == IF IsEligible(t) THEN effective_tickets[t] ELSE 0

\* A scan computes the prefix sums of the weights: any function that has their
\* defining property up to the node n.
IsPrefixSums(p, n) ==
    /\ p \in [0..NumTasks -> Nat]
    /\ p[0] = 0
    /\ \A k \in 1..n : p[k] = p[k - 1] + Weight(k)

Counted ==
    /\ mpc = "count" => \E p : IsPrefixSums(p, cur - 1) /\ acc = p[cur - 1]
    /\ mpc \in {"draw", "pick"} =>
          \E p : /\ IsPrefixSums(p, NumTasks)
                 /\ active_tickets = p[NumTasks]
                 /\ acc = p[cur - 1]

Scanning ==
    /\ Exclusion
    /\ ScannedSoFar /\ TicketIsAhead /\ Counted
    /\ LoopEndsFinished /\ FreedAfterExit

\* No worker is at work while the main thread scans the list, so the tickets
\* counted are those among which the winner is sought.
LEMMA WeightsAreStable ==
    ASSUME Exclusion, [Next]_vars, mpc \in {"count", "draw", "pick"}
    PROVE  state' = state /\ effective_tickets' = effective_tickets
<1>. USE DEF Exclusion, TypeOK, OnlyRunningWork, SoleRunner, Working, taskVars, lockVars, workerVars, scanVars, drawVars, loopVars, outputVars
<1>1. CASE CreateWorker
  BY <1>1 DEF CreateWorker
<1>2. CASE CreateWorkerFails
  BY <1>2 DEF CreateWorkerFails
<1>3. CASE ConfigureCooperative
  BY <1>3 DEF ConfigureCooperative
<1>4. CASE Lock(Main)
  BY <1>4 DEF Lock
<1>5. CASE WaitUntilNoRunning
  BY <1>5 DEF WaitUntilNoRunning
<1>6. CASE AfterDispatch
  BY <1>6 DEF AfterDispatch, OwesResult
<1>7. CASE TaskShutdownAll
  BY <1>7 DEF TaskShutdownAll
<1>8. CASE CheckFinished
  BY <1>8 DEF CheckFinished
<1>9. CASE CountTickets
  BY <1>9 DEF CountTickets
<1>10. CASE DrawTicket
  BY <1>10 DEF DrawTicket
<1>11. CASE DrawTicketUnseeded
  BY <1>11 DEF DrawTicketUnseeded
<1>12. CASE PickWinner
  BY <1>12 DEF PickWinner
<1>13. CASE LogDecision
  BY <1>13 DEF LogDecision
<1>14. CASE TransitionToRunning
  BY <1>14 DEF TransitionToRunning
<1>15. CASE WriteSummary
  BY <1>15 DEF WriteSummary
<1>16. CASE JoinWorker
  BY <1>16 DEF JoinWorker
<1>17. CASE CleanList
  BY <1>17 DEF CleanList
<1>18. ASSUME NEW t \in Task, Lock(t) PROVE state' = state /\ effective_tickets' = effective_tickets
  BY <1>18 DEF Lock
<1>19. ASSUME NEW t \in Task, SleepWhileReady(t) PROVE state' = state /\ effective_tickets' = effective_tickets
  BY <1>19 DEF SleepWhileReady
<1>20. ASSUME NEW t \in Task, StartDispatch(t) PROVE state' = state /\ effective_tickets' = effective_tickets
  BY <1>20 DEF StartDispatch
<1>21. ASSUME NEW t \in Task, Exit(t) PROVE state' = state /\ effective_tickets' = effective_tickets
  BY <1>21 DEF Exit
<1>22. ASSUME NEW t \in Task, RunUnit(t) PROVE state' = state /\ effective_tickets' = effective_tickets
  BY <1>22 DEF RunUnit
<1>23. ASSUME NEW t \in Task, EndDispatch(t) PROVE state' = state /\ effective_tickets' = effective_tickets
  BY <1>23 DEF EndDispatch
<1>24. ASSUME NEW t \in Task, RunWithoutMode(t) PROVE state' = state /\ effective_tickets' = effective_tickets
  BY <1>24 DEF RunWithoutMode
<1>25. ASSUME NEW t \in Task, Report(t) PROVE state' = state /\ effective_tickets' = effective_tickets
  BY <1>25 DEF Report
<1>26. CASE SpuriousWakeup
  BY <1>26 DEF SpuriousWakeup
<1>27. CASE UNCHANGED vars
  BY <1>27 DEF vars
<1>. QED
  BY <1>1, <1>2, <1>3, <1>4, <1>5, <1>6, <1>7, <1>8, <1>9, <1>10, <1>11, <1>12, <1>13, <1>14, <1>15, <1>16, <1>17, <1>18, <1>19, <1>20, <1>21, <1>22, <1>23, <1>24, <1>25, <1>26, <1>27
     DEF Next, MainStep, WorkerStep, Terminated

\* The prefix sums of unchanged weights are still prefix sums.
LEMMA PrefixSumsAreStable ==
    ASSUME Exclusion, [Next]_vars, mpc \in {"count", "draw", "pick"},
           NEW p, NEW n, IsPrefixSums(p, n)
    PROVE  IsPrefixSums(p, n)'
BY WeightsAreStable DEF IsPrefixSums, Weight, IsEligible

\* A task weighs a natural number of tickets in a scan.
LEMMA WeightType ==
    ASSUME TypeOK PROVE \A t \in Task : Weight(t) \in Nat
BY WordFacts DEF TypeOK, Weight

\* One more node adds one more prefix sum.
LEMMA OneMoreNode ==
    ASSUME TypeOK, NEW n \in Task, NEW p, IsPrefixSums(p, n - 1)
    PROVE  \E q : IsPrefixSums(q, n) /\ q[n] = p[n - 1] + Weight(n)
<1>. DEFINE q == [p EXCEPT ![n] = p[n - 1] + Weight(n)]
<1>1. n \in 1..NumTasks /\ NumTasks \in Nat
  BY NumTasksAssumption DEF Task
<1>2. p[n - 1] + Weight(n) \in Nat
  BY <1>1, WeightType DEF IsPrefixSums
<1>3. q \in [0..NumTasks -> Nat] /\ q[0] = 0 /\ q[n] = p[n - 1] + Weight(n)
  BY <1>1, <1>2 DEF IsPrefixSums
<1>4. ASSUME NEW k \in 1..n PROVE q[k] = q[k - 1] + Weight(k)
  <2>1. CASE k = n
    BY <1>1, <1>3, <2>1 DEF IsPrefixSums
  <2>2. CASE k # n
    BY <1>1, <2>2 DEF IsPrefixSums
  <2>. QED BY <2>1, <2>2
<1>5. IsPrefixSums(q, n)
  BY <1>3, <1>4 DEF IsPrefixSums
<1>. QED BY <1>3, <1>5

\* The scan of scheduler_winner_task finds the owner of the drawn ticket: the
\* break of scheduler.c:282-285 is not taken.
LEMMA WinnerIsFound ==
    ASSUME Exclusion, TicketIsAhead, Counted, PickWinner
    PROVE  mpc' # "summary"
<1>. SUFFICES ASSUME mpc' = "summary" PROVE FALSE
  OBVIOUS
<1>1. PICK p : /\ IsPrefixSums(p, NumTasks)
               /\ active_tickets = p[NumTasks]
               /\ acc = p[cur - 1]
  BY DEF Counted, PickWinner
<1>2. cur = NumTasks
  BY TaskFacts DEF PickWinner, Exclusion, TypeOK
<1>3. acc + Weight(cur) = active_tickets
  BY <1>1, <1>2, NumTasksAssumption DEF IsPrefixSums
<1>4. /\ ~(IsEligible(cur) /\ acc + Weight(cur) >= ticket)
  BY DEF PickWinner, Covers, Weight
<1>5. /\ acc \in Nat /\ active_tickets \in Nat /\ ticket \in Nat
      /\ active_tickets > 0 /\ ticket <= active_tickets /\ (acc < ticket \/ acc = 0)
  BY WordFacts DEF TicketIsAhead, PickWinner, Exclusion, TypeOK
<1>6. CASE IsEligible(cur)
  BY <1>3, <1>4, <1>5, <1>6
<1>7. CASE ~IsEligible(cur)
  <2>1. Weight(cur) = 0
    BY <1>7 DEF Weight
  <2>. QED BY <1>3, <1>5, <2>1
<1>. QED BY <1>6, <1>7

\* What a scan has established stays established while it goes on.
LEMMA ScannedStep ==
    ASSUME Scanning, [Next]_vars
    PROVE  ScannedSoFar'
<1>. USE TaskFacts DEF Scanning, Exclusion, TypeOK, ScannedSoFar, SoleRunner, OnlyRunningWork, Working, taskVars, lockVars, workerVars, scanVars, drawVars, loopVars, outputVars
<1>1. CASE CreateWorker
  BY <1>1 DEF CreateWorker
<1>2. CASE CreateWorkerFails
  BY <1>2 DEF CreateWorkerFails
<1>3. CASE ConfigureCooperative
  BY <1>3 DEF ConfigureCooperative
<1>4. CASE Lock(Main)
  BY <1>4 DEF Lock
<1>5. CASE WaitUntilNoRunning
  BY <1>5 DEF WaitUntilNoRunning, CondWait
<1>6. CASE AfterDispatch
  BY <1>6 DEF AfterDispatch, OwesResult
<1>7. CASE TaskShutdownAll
  BY <1>7 DEF TaskShutdownAll, StillAsleep
<1>8. CASE CheckFinished
  BY <1>8 DEF CheckFinished
<1>9. CASE CountTickets
  BY <1>9 DEF CountTickets
<1>10. CASE DrawTicket
  BY <1>10 DEF DrawTicket
<1>11. CASE DrawTicketUnseeded
  BY <1>11 DEF DrawTicketUnseeded
<1>12. CASE PickWinner
  BY <1>12 DEF PickWinner
<1>13. CASE LogDecision
  BY <1>13 DEF LogDecision
<1>14. CASE TransitionToRunning
  BY <1>14 DEF TransitionToRunning, StillAsleep
<1>15. CASE WriteSummary
  BY <1>15 DEF WriteSummary
<1>16. CASE JoinWorker
  BY <1>16 DEF JoinWorker, Joinable
<1>17. CASE CleanList
  BY <1>17 DEF CleanList
<1>18. ASSUME NEW t \in Task, Lock(t) PROVE ScannedSoFar'
  BY <1>18 DEF Lock
<1>19. ASSUME NEW t \in Task, SleepWhileReady(t) PROVE ScannedSoFar'
  BY <1>19 DEF SleepWhileReady, CondWait
<1>20. ASSUME NEW t \in Task, StartDispatch(t) PROVE ScannedSoFar'
  BY <1>20 DEF StartDispatch
<1>21. ASSUME NEW t \in Task, Exit(t) PROVE ScannedSoFar'
  BY <1>21 DEF Exit
<1>22. ASSUME NEW t \in Task, RunUnit(t) PROVE ScannedSoFar'
  BY <1>22 DEF RunUnit
<1>23. ASSUME NEW t \in Task, EndDispatch(t) PROVE ScannedSoFar'
  BY <1>23 DEF EndDispatch
<1>24. ASSUME NEW t \in Task, RunWithoutMode(t) PROVE ScannedSoFar'
  BY <1>24 DEF RunWithoutMode
<1>25. ASSUME NEW t \in Task, Report(t) PROVE ScannedSoFar'
  BY <1>25 DEF Report, StillAsleep, StateAfterWork
<1>26. CASE SpuriousWakeup
  BY <1>26 DEF SpuriousWakeup
<1>27. CASE UNCHANGED vars
  BY <1>27 DEF vars
<1>. QED
  BY <1>1, <1>2, <1>3, <1>4, <1>5, <1>6, <1>7, <1>8, <1>9, <1>10, <1>11, <1>12, <1>13, <1>14, <1>15, <1>16, <1>17, <1>18, <1>19, <1>20, <1>21, <1>22, <1>23, <1>24, <1>25, <1>26, <1>27
     DEF Next, MainStep, WorkerStep, Terminated

\* The drawn ticket is one of the active tickets, and the scan does not pass it.
LEMMA TicketStep ==
    ASSUME Scanning, [Next]_vars
    PROVE  TicketIsAhead'
<1>. USE TaskFacts, WordFacts DEF Scanning, Exclusion, TypeOK, InScope, ScannedSoFar, TicketIsAhead, taskVars, lockVars, workerVars, scanVars, drawVars, loopVars, outputVars
<1>1. CASE CreateWorker
  BY <1>1 DEF CreateWorker
<1>2. CASE CreateWorkerFails
  BY <1>2 DEF CreateWorkerFails
<1>3. CASE ConfigureCooperative
  BY <1>3 DEF ConfigureCooperative
<1>4. CASE Lock(Main)
  BY <1>4 DEF Lock
<1>5. CASE WaitUntilNoRunning
  BY <1>5 DEF WaitUntilNoRunning, CondWait
<1>6. CASE AfterDispatch
  BY <1>6 DEF AfterDispatch, OwesResult
<1>7. CASE TaskShutdownAll
  BY <1>7 DEF TaskShutdownAll, StillAsleep
<1>8. CASE CheckFinished
  BY <1>8 DEF CheckFinished
<1>9. CASE CountTickets
  BY <1>9 DEF CountTickets
<1>10. CASE DrawTicket
  BY <1>10, DrawTicketType DEF DrawTicket
<1>11. CASE DrawTicketUnseeded
  BY <1>11 DEF DrawTicketUnseeded
<1>12. CASE PickWinner
  <2>1. acc \in Nat /\ effective_tickets[cur] \in Nat /\ ticket \in Nat
    BY DEF TypeOK
  <2>2. CASE mpc' = "pick" /\ IsEligible(cur)
    <3>1. acc' = acc + effective_tickets[cur] /\ ~(acc' >= ticket)
      BY <1>12, <2>2 DEF PickWinner, Covers
    <3>. QED BY <1>12, <2>1, <2>2, <3>1 DEF PickWinner
  <2>3. CASE mpc' = "pick" /\ ~IsEligible(cur)
    <3>1. acc' = acc + 0
      BY <1>12, <2>3 DEF PickWinner
    <3>. QED BY <1>12, <2>1, <2>3, <3>1 DEF PickWinner
  <2>. QED BY <2>2, <2>3
<1>13. CASE LogDecision
  BY <1>13 DEF LogDecision
<1>14. CASE TransitionToRunning
  BY <1>14 DEF TransitionToRunning, StillAsleep
<1>15. CASE WriteSummary
  BY <1>15 DEF WriteSummary
<1>16. CASE JoinWorker
  BY <1>16 DEF JoinWorker
<1>17. CASE CleanList
  BY <1>17 DEF CleanList
<1>18. ASSUME NEW t \in Task, Lock(t) PROVE TicketIsAhead'
  BY <1>18 DEF Lock
<1>19. ASSUME NEW t \in Task, SleepWhileReady(t) PROVE TicketIsAhead'
  BY <1>19 DEF SleepWhileReady, CondWait
<1>20. ASSUME NEW t \in Task, StartDispatch(t) PROVE TicketIsAhead'
  BY <1>20 DEF StartDispatch
<1>21. ASSUME NEW t \in Task, Exit(t) PROVE TicketIsAhead'
  BY <1>21 DEF Exit
<1>22. ASSUME NEW t \in Task, RunUnit(t) PROVE TicketIsAhead'
  BY <1>22 DEF RunUnit
<1>23. ASSUME NEW t \in Task, EndDispatch(t) PROVE TicketIsAhead'
  BY <1>23 DEF EndDispatch
<1>24. ASSUME NEW t \in Task, RunWithoutMode(t) PROVE TicketIsAhead'
  BY <1>24 DEF RunWithoutMode
<1>25. ASSUME NEW t \in Task, Report(t) PROVE TicketIsAhead'
  BY <1>25 DEF Report, StillAsleep, StateAfterWork
<1>26. CASE SpuriousWakeup
  BY <1>26 DEF SpuriousWakeup
<1>27. CASE UNCHANGED vars
  BY <1>27 DEF vars
<1>. QED
  BY <1>1, <1>2, <1>3, <1>4, <1>5, <1>6, <1>7, <1>8, <1>9, <1>10, <1>11, <1>12, <1>13, <1>14, <1>15, <1>16, <1>17, <1>18, <1>19, <1>20, <1>21, <1>22, <1>23, <1>24, <1>25, <1>26, <1>27
     DEF Next, MainStep, WorkerStep, Terminated

\* The loop is left by the limit, which finishes every READY task, or by a
\* scan that saw every task FINISHED.
LEMMA EndStep ==
    ASSUME Scanning, [Next]_vars
    PROVE  LoopEndsFinished'
<1>. USE TaskFacts DEF Scanning, Exclusion, TypeOK, ScannedSoFar, LoopEndsFinished, SoleRunner, OnlyRunningWork, Working, taskVars, lockVars, workerVars, scanVars, drawVars, loopVars, outputVars
<1>1. CASE CreateWorker
  BY <1>1 DEF CreateWorker
<1>2. CASE CreateWorkerFails
  BY <1>2 DEF CreateWorkerFails
<1>3. CASE ConfigureCooperative
  BY <1>3 DEF ConfigureCooperative
<1>4. CASE Lock(Main)
  BY <1>4 DEF Lock
<1>5. CASE WaitUntilNoRunning
  BY <1>5 DEF WaitUntilNoRunning, CondWait
<1>6. CASE AfterDispatch
  BY <1>6 DEF AfterDispatch, OwesResult
<1>7. CASE TaskShutdownAll
  BY <1>7 DEF TaskShutdownAll, StillAsleep
<1>8. CASE CheckFinished
  BY <1>8 DEF CheckFinished
<1>9. CASE CountTickets
  BY <1>9 DEF CountTickets
<1>10. CASE DrawTicket
  BY <1>10 DEF DrawTicket
<1>11. CASE DrawTicketUnseeded
  BY <1>11 DEF DrawTicketUnseeded
<1>12. CASE PickWinner
  BY <1>12, WinnerIsFound DEF PickWinner
<1>13. CASE LogDecision
  BY <1>13 DEF LogDecision
<1>14. CASE TransitionToRunning
  BY <1>14 DEF TransitionToRunning, StillAsleep
<1>15. CASE WriteSummary
  BY <1>15 DEF WriteSummary
<1>16. CASE JoinWorker
  BY <1>16 DEF JoinWorker
<1>17. CASE CleanList
  BY <1>17 DEF CleanList
<1>18. ASSUME NEW t \in Task, Lock(t) PROVE LoopEndsFinished'
  BY <1>18 DEF Lock
<1>19. ASSUME NEW t \in Task, SleepWhileReady(t) PROVE LoopEndsFinished'
  BY <1>19 DEF SleepWhileReady, CondWait
<1>20. ASSUME NEW t \in Task, StartDispatch(t) PROVE LoopEndsFinished'
  BY <1>20 DEF StartDispatch
<1>21. ASSUME NEW t \in Task, Exit(t) PROVE LoopEndsFinished'
  BY <1>21 DEF Exit
<1>22. ASSUME NEW t \in Task, RunUnit(t) PROVE LoopEndsFinished'
  BY <1>22 DEF RunUnit
<1>23. ASSUME NEW t \in Task, EndDispatch(t) PROVE LoopEndsFinished'
  BY <1>23 DEF EndDispatch
<1>24. ASSUME NEW t \in Task, RunWithoutMode(t) PROVE LoopEndsFinished'
  BY <1>24 DEF RunWithoutMode
<1>25. ASSUME NEW t \in Task, Report(t) PROVE LoopEndsFinished'
  BY <1>25 DEF Report, StillAsleep, StateAfterWork
<1>26. CASE SpuriousWakeup
  BY <1>26 DEF SpuriousWakeup
<1>27. CASE UNCHANGED vars
  BY <1>27 DEF vars
<1>. QED
  BY <1>1, <1>2, <1>3, <1>4, <1>5, <1>6, <1>7, <1>8, <1>9, <1>10, <1>11, <1>12, <1>13, <1>14, <1>15, <1>16, <1>17, <1>18, <1>19, <1>20, <1>21, <1>22, <1>23, <1>24, <1>25, <1>26, <1>27
     DEF Next, MainStep, WorkerStep, Terminated

\* The list is freed by a main thread that has joined every worker.
LEMMA FreeStep ==
    ASSUME Scanning, [Next]_vars
    PROVE  FreedAfterExit'
<1>. USE TaskFacts DEF Scanning, Exclusion, TypeOK, ScannedSoFar, FreedAfterExit, taskVars, lockVars, workerVars, scanVars, drawVars, loopVars, outputVars
<1>1. CASE CreateWorker
  BY <1>1 DEF CreateWorker
<1>2. CASE CreateWorkerFails
  BY <1>2 DEF CreateWorkerFails
<1>3. CASE ConfigureCooperative
  BY <1>3 DEF ConfigureCooperative
<1>4. CASE Lock(Main)
  BY <1>4 DEF Lock
<1>5. CASE WaitUntilNoRunning
  BY <1>5 DEF WaitUntilNoRunning, CondWait
<1>6. CASE AfterDispatch
  BY <1>6 DEF AfterDispatch, OwesResult
<1>7. CASE TaskShutdownAll
  BY <1>7 DEF TaskShutdownAll, StillAsleep
<1>8. CASE CheckFinished
  BY <1>8 DEF CheckFinished
<1>9. CASE CountTickets
  BY <1>9 DEF CountTickets
<1>10. CASE DrawTicket
  BY <1>10 DEF DrawTicket
<1>11. CASE DrawTicketUnseeded
  BY <1>11 DEF DrawTicketUnseeded
<1>12. CASE PickWinner
  BY <1>12 DEF PickWinner
<1>13. CASE LogDecision
  BY <1>13 DEF LogDecision
<1>14. CASE TransitionToRunning
  BY <1>14 DEF TransitionToRunning, StillAsleep
<1>15. CASE WriteSummary
  BY <1>15 DEF WriteSummary
<1>16. CASE JoinWorker
  BY <1>16 DEF JoinWorker, Joinable
<1>17. CASE CleanList
  BY <1>17 DEF CleanList
<1>18. ASSUME NEW t \in Task, Lock(t) PROVE FreedAfterExit'
  BY <1>18 DEF Lock
<1>19. ASSUME NEW t \in Task, SleepWhileReady(t) PROVE FreedAfterExit'
  BY <1>19 DEF SleepWhileReady, CondWait
<1>20. ASSUME NEW t \in Task, StartDispatch(t) PROVE FreedAfterExit'
  BY <1>20 DEF StartDispatch
<1>21. ASSUME NEW t \in Task, Exit(t) PROVE FreedAfterExit'
  BY <1>21 DEF Exit
<1>22. ASSUME NEW t \in Task, RunUnit(t) PROVE FreedAfterExit'
  BY <1>22 DEF RunUnit
<1>23. ASSUME NEW t \in Task, EndDispatch(t) PROVE FreedAfterExit'
  BY <1>23 DEF EndDispatch
<1>24. ASSUME NEW t \in Task, RunWithoutMode(t) PROVE FreedAfterExit'
  BY <1>24 DEF RunWithoutMode
<1>25. ASSUME NEW t \in Task, Report(t) PROVE FreedAfterExit'
  BY <1>25 DEF Report, StillAsleep, StateAfterWork
<1>26. CASE SpuriousWakeup
  BY <1>26 DEF SpuriousWakeup
<1>27. CASE UNCHANGED vars
  BY <1>27 DEF vars
<1>. QED
  BY <1>1, <1>2, <1>3, <1>4, <1>5, <1>6, <1>7, <1>8, <1>9, <1>10, <1>11, <1>12, <1>13, <1>14, <1>15, <1>16, <1>17, <1>18, <1>19, <1>20, <1>21, <1>22, <1>23, <1>24, <1>25, <1>26, <1>27
     DEF Next, MainStep, WorkerStep, Terminated

\* The count and the search for the winner run over the same prefix sums.
LEMMA CountedStep ==
    ASSUME Scanning, [Next]_vars PROVE Counted'
<1>. USE TaskFacts, NumTasksAssumption
     DEF Scanning, Exclusion, TypeOK, taskVars, lockVars, workerVars, scanVars,
         drawVars, loopVars, outputVars
<1>1. CASE CheckFinished
  <2>1. CASE mpc' = "count"
    <3>. DEFINE p == [k \in 0..NumTasks |-> 0]
    <3>1. cur' = 1 /\ acc' = 0
      BY <1>1, <2>1 DEF CheckFinished, ScannedSoFar
    <3>2. IsPrefixSums(p, 0)'
      BY DEF IsPrefixSums
    <3>3. cur' - 1 = 0 /\ p[0] = 0
      BY <3>1
    <3>. QED BY <2>1, <3>1, <3>2, <3>3 DEF Counted
  <2>2. CASE mpc' # "count"
    BY <1>1, <2>2 DEF CheckFinished, Counted
  <2>. QED BY <2>1, <2>2
<1>2. CASE CountTickets
  <2>1. PICK n \in Task : n = cur
    OBVIOUS
  <2>2. PICK p : IsPrefixSums(p, n - 1) /\ acc = p[n - 1]
    BY <1>2, <2>1 DEF CountTickets, Counted
  <2>3. PICK q : IsPrefixSums(q, n) /\ q[n] = p[n - 1] + Weight(n)
    BY <2>2, OneMoreNode
  <2>4. IsPrefixSums(q, n)'
    BY <1>2, <2>3, PrefixSumsAreStable DEF CountTickets
  <2>5. q[n] = acc + (IF IsEligible(cur) THEN effective_tickets[cur] ELSE 0)
    BY <2>1, <2>2, <2>3 DEF Weight
  <2>6. CASE n < NumTasks
    <3>1. cur' = n + 1 /\ cur' - 1 = n /\ acc' = q[n] /\ mpc' = "count"
      BY <1>2, <2>1, <2>5, <2>6 DEF CountTickets
    <3>. QED BY <2>4, <3>1 DEF Counted
  <2>7. CASE n = NumTasks
    <3>1. /\ cur' = 1 /\ cur' - 1 = 0 /\ acc' = 0
          /\ active_tickets' = q[NumTasks] /\ mpc' \in {"wait", "draw"}
      BY <1>2, <2>1, <2>5, <2>7 DEF CountTickets
    <3>2. q[0] = 0
      BY <2>3 DEF IsPrefixSums
    <3>. QED BY <2>4, <2>7, <3>1, <3>2 DEF Counted
  <2>. QED BY <2>6, <2>7
<1>3. CASE PickWinner
  <2>1. PICK n \in Task : n = cur
    OBVIOUS
  <2>2. PICK p : /\ IsPrefixSums(p, NumTasks)
                 /\ active_tickets = p[NumTasks]
                 /\ acc = p[n - 1]
    BY <1>3, <2>1 DEF PickWinner, Counted
  <2>3. IsPrefixSums(p, NumTasks)'
    BY <1>3, <2>2, PrefixSumsAreStable DEF PickWinner
  <2>4. CASE mpc' = "pick"
    <3>1. cur' - 1 = n /\ active_tickets' = active_tickets
      BY <1>3, <2>1, <2>4 DEF PickWinner
    <3>2. acc' = acc + Weight(n)
      BY <1>3, <2>1, <2>4 DEF PickWinner, Weight
    <3>3. p[n] = p[n - 1] + Weight(n)
      BY <2>2 DEF IsPrefixSums, Task
    <3>. QED BY <2>2, <2>3, <2>4, <3>1, <3>2, <3>3 DEF Counted
  <2>5. CASE mpc' # "pick"
    BY <1>3, <2>5 DEF PickWinner, Counted
  <2>. QED BY <2>4, <2>5
<1>4. CASE DrawTicket \/ DrawTicketUnseeded
  <2>1. PICK p : /\ IsPrefixSums(p, NumTasks)
                 /\ active_tickets = p[NumTasks]
                 /\ acc = p[cur - 1]
    BY <1>4 DEF DrawTicket, DrawTicketUnseeded, Counted
  <2>2. IsPrefixSums(p, NumTasks)'
    BY <1>4, <2>1, PrefixSumsAreStable DEF DrawTicket, DrawTicketUnseeded
  <2>. QED BY <1>4, <2>1, <2>2 DEF DrawTicket, DrawTicketUnseeded, Counted
<1>5. ASSUME UNCHANGED <<mpc, cur, acc, active_tickets>> PROVE Counted'
  <2>1. CASE mpc = "count"
    <3>1. PICK n \in Task : n = cur
      OBVIOUS
    <3>2. PICK p : IsPrefixSums(p, n - 1) /\ acc = p[n - 1]
      BY <2>1, <3>1 DEF Counted
    <3>3. IsPrefixSums(p, n - 1)'
      BY <2>1, <3>2, PrefixSumsAreStable
    <3>. QED BY <1>5, <2>1, <3>1, <3>2, <3>3 DEF Counted
  <2>2. CASE mpc \in {"draw", "pick"}
    <3>1. PICK p : /\ IsPrefixSums(p, NumTasks)
                   /\ active_tickets = p[NumTasks]
                   /\ acc = p[cur - 1]
      BY <2>2 DEF Counted
    <3>2. IsPrefixSums(p, NumTasks)'
      BY <2>2, <3>1, PrefixSumsAreStable
    <3>. QED BY <1>5, <2>2, <3>1, <3>2 DEF Counted
  <2>3. CASE mpc \notin {"count", "draw", "pick"}
    BY <1>5, <2>3 DEF Counted
  <2>. QED BY <2>1, <2>2, <2>3
<1>6. ASSUME mpc' \notin {"count", "draw", "pick"} PROVE Counted'
  BY <1>6 DEF Counted
<1>7. CASE \/ CreateWorker \/ CreateWorkerFails \/ ConfigureCooperative
           \/ WaitUntilNoRunning \/ AfterDispatch \/ TaskShutdownAll
           \/ LogDecision \/ TransitionToRunning
           \/ WriteSummary \/ JoinWorker \/ CleanList
  BY <1>6, <1>7
     DEF CreateWorker, CreateWorkerFails, ConfigureCooperative,
         WaitUntilNoRunning, AfterDispatch, OwesResult, TaskShutdownAll, LogDecision,
         TransitionToRunning, WriteSummary, JoinWorker, CleanList
<1>8. CASE Lock(Main) \/ SpuriousWakeup \/ UNCHANGED vars
  BY <1>5, <1>8 DEF Lock, SpuriousWakeup, vars
<1>9. ASSUME NEW t \in Task, WorkerStep(t) PROVE Counted'
  BY <1>5, <1>9
     DEF WorkerStep, Lock, SleepWhileReady, StartDispatch, Exit, RunUnit,
         EndDispatch, RunWithoutMode, Report
<1>. QED BY <1>1, <1>2, <1>3, <1>4, <1>7, <1>8, <1>9
         DEF Next, MainStep, Terminated

-----------------------------------------------------------------------------
\* The invariant and what follows from it.

\* Nothing is scanned, owed or asleep when main starts.
LEMMA InitScanning == Init => Scanning
<1>. SUFFICES ASSUME Init PROVE Scanning
  OBVIOUS
<1>1. TypeOK /\ InScope
  BY InitType
<1>2. /\ mpc = "create" /\ sleepers = {} /\ mutex = Nobody /\ pending = FALSE /\ acc = 0
      /\ \A t \in Task : state[t] = "READY" /\ wpc[t] = "unborn"
  BY DEF Init
<1>. QED BY <1>1, <1>2
         DEF Scanning, Exclusion, HolderIsAtLockPoint, SleepersMustSleep,
             OnlyRunningWork, Working, SoleRunner, WinnerIsReady, ScannedSoFar,
             TicketIsAhead, Counted, LoopEndsFinished, FreedAfterExit

\* Scanning is inductive: it holds initially and every step preserves it.
THEOREM InductiveInvariant == Spec => []Scanning
<1>1. Scanning /\ [Next]_vars => Scanning'
  <2>. SUFFICES ASSUME Scanning, [Next]_vars PROVE Scanning'
    OBVIOUS
  <2>1. Exclusion'
    BY NextType, HolderStep, RunnerStep, WinnerStep, SleepersStep
       DEF Scanning, Exclusion
  <2>. QED BY <2>1, ScannedStep, TicketStep, CountedStep, EndStep, FreeStep
           DEF Scanning
<1>. QED BY InitScanning, <1>1, PTL DEF Spec

\* The invariant that the properties follow from holds throughout: lock
\* points, sleepers, running workers and scans (scheduler.c:149-341).
THEOREM InductiveInvariantHolds == Spec => []SafetyInvariant
<1>1. Scanning => SafetyInvariant
  BY DEF Scanning, Exclusion, SafetyInvariant
<1>. QED BY InductiveInvariant, <1>1, PTL

\* A RUNNING task is the one dispatched last, and the scheduler waits for it
\* (scheduler.c:188-193).
THEOREM SchedulerHasExclusiveControl == Spec => []SoleRunner
<1>1. Scanning => SoleRunner
  BY DEF Scanning, Exclusion
<1>. QED BY InductiveInvariant, <1>1, PTL

\* The tasks' fields are accessed without the mutex by one thread at a time.
THEOREM NoDataRace == Spec => []RaceFree
<1>1. Scanning => RaceFree
  BY DEF Scanning, Exclusion, OnlyRunningWork, SoleRunner, RaceFree, MainTouchesTasks
<1>. QED BY InductiveInvariant, <1>1, PTL

\* No thread sleeps over a condition that has come true (task.c:12-25).
THEOREM NobodyOversleeps == Spec => []NoLostWakeup
<1>1. Scanning => NoLostWakeup
  BY DEF Scanning, Exclusion, SleepersMustSleep, NoLostWakeup
<1>. QED BY InductiveInvariant, <1>1, PTL

\* The lottery never fails to find its winner, and whatever ends the main loop
\* leaves every task FINISHED (scheduler.c:282-285, 343-354).
THEOREM EveryTaskIsFinishedAtTheEnd == Spec => []LoopEndsFinished
<1>1. Scanning => LoopEndsFinished
  BY DEF Scanning
<1>. QED BY InductiveInvariant, <1>1, PTL

\* No worker can touch a task or node that dll_clean_list has freed.
THEOREM NoUseAfterFree == Spec => []FreedAfterExit
<1>1. Scanning => FreedAfterExit
  BY DEF Scanning
<1>. QED BY InductiveInvariant, <1>1, PTL

\* No step touches what a FINISHED task has done and been given.
LEMMA FinishedStep ==
    ASSUME Scanning, [Next]_vars, NEW t \in Task, state[t] = "FINISHED"
    PROVE  UNCHANGED <<state[t], done[t], dispatches[t], last_dispatch[t]>>
<1>. USE DEF Scanning, Exclusion, TypeOK, taskVars
<1>1. CASE TaskShutdownAll \/ TransitionToRunning
  BY <1>1 DEF TaskShutdownAll, TransitionToRunning, InScope
<1>2. ASSUME NEW u \in Task, RunUnit(u) \/ RunWithoutMode(u) \/ Report(u)
      PROVE  UNCHANGED <<state[t], done[t], dispatches[t], last_dispatch[t]>>
  <2>1. u # t
    BY <1>2 DEF RunUnit, RunWithoutMode, Report, OnlyRunningWork, Working
  <2>. QED BY <1>2, <2>1 DEF RunUnit, RunWithoutMode, Report
<1>3. CASE UNCHANGED <<state, done, dispatches, last_dispatch>>
  BY <1>3
<1>4. \/ TaskShutdownAll \/ TransitionToRunning
      \/ \E u \in Task : RunUnit(u) \/ RunWithoutMode(u) \/ Report(u)
      \/ UNCHANGED <<state, done, dispatches, last_dispatch>>
  BY DEF Next, MainStep, WorkerStep, Terminated, CreateWorker, CreateWorkerFails,
         ConfigureCooperative, Lock, WaitUntilNoRunning, AfterDispatch, OwesResult,
         CheckFinished, CountTickets, DrawTicket, DrawTicketUnseeded,
         PickWinner, LogDecision, WriteSummary, JoinWorker, CleanList,
         SleepWhileReady, StartDispatch, Exit, EndDispatch, SpuriousWakeup, vars
<1>. QED BY <1>1, <1>2, <1>3, <1>4

\* A task that is FINISHED is never dispatched or worked on again (task.h:16).
THEOREM FinishedTasksStayFinished == Spec => FinishedIsTerminal
<1>1. Scanning /\ [Next]_vars =>
          \A t \in Task : state[t] = "FINISHED" =>
               UNCHANGED <<state[t], done[t], dispatches[t], last_dispatch[t]>>
  BY FinishedStep
<1>. QED BY InductiveInvariant, <1>1, PTL DEF Spec, FinishedIsTerminal

-----------------------------------------------------------------------------
\* The summary.

\* What logger_write_summary reads of the tasks.
Totals == [t \in Task |-> <<done[t], dispatches[t], last_dispatch[t]>>]

\* A summary is written once the loop is over, when every task is FINISHED.
SummaryAfterLoop ==
    summary # NoSummary =>
        /\ mpc \in {"join", "clean", "returned0"}
        /\ summary = Totals

\* Only logger_write_summary writes it, and nothing goes back to the loop.
LEMMA SummaryStep ==
    ASSUME Scanning, SummaryAfterLoop, [Next]_vars PROVE SummaryAfterLoop'
<1>1. CASE WriteSummary
  <2>1. Totals' = Totals /\ mpc' = "join"
    BY <1>1 DEF WriteSummary, Totals, taskVars
  <2>2. summary' \in {NoSummary, Totals}
    BY <1>1 DEF WriteSummary, Totals
  <2>3. CASE summary' = NoSummary
    BY <2>3 DEF SummaryAfterLoop, NoSummary
  <2>4. CASE summary' = Totals
    BY <2>1, <2>4 DEF SummaryAfterLoop
  <2>. QED BY <2>2, <2>3, <2>4
<1>2. CASE ~WriteSummary
  <2>1. summary' = summary
    BY <1>2 DEF Next, MainStep, WorkerStep, Terminated, CreateWorker,
          CreateWorkerFails, ConfigureCooperative, Lock, WaitUntilNoRunning,
          AfterDispatch, OwesResult, TaskShutdownAll, CheckFinished, CountTickets, DrawTicket,
          DrawTicketUnseeded, PickWinner, LogDecision, TransitionToRunning,
          JoinWorker, CleanList, SleepWhileReady, StartDispatch, Exit, RunUnit,
          EndDispatch, RunWithoutMode, Report, SpuriousWakeup, vars, outputVars
  <2>2. SUFFICES ASSUME summary # NoSummary
                 PROVE  /\ mpc' \in {"join", "clean", "returned0"}
                        /\ Totals' = Totals
    BY <2>1 DEF SummaryAfterLoop, NoSummary
  <2>3. mpc \in {"join", "clean", "returned0"}
    BY <2>2 DEF SummaryAfterLoop
  <2>4. mpc' \in {"join", "clean", "returned0"}
    BY <2>3 DEF Next, MainStep, WorkerStep, Terminated, CreateWorker,
          CreateWorkerFails, ConfigureCooperative, Lock, WaitUntilNoRunning,
          AfterDispatch, OwesResult, TaskShutdownAll, CheckFinished, CountTickets, DrawTicket,
          DrawTicketUnseeded, PickWinner, LogDecision, TransitionToRunning,
          WriteSummary, JoinWorker, CleanList, SleepWhileReady, StartDispatch,
          Exit, RunUnit, EndDispatch, RunWithoutMode, Report, SpuriousWakeup, vars
  <2>5. \A t \in Task : state[t] = "FINISHED"
    BY <2>3 DEF Scanning, LoopEndsFinished
  <2>6. \A t \in Task : UNCHANGED <<done[t], dispatches[t], last_dispatch[t]>>
    BY <2>5, FinishedStep
  <2>. QED BY <2>4, <2>6 DEF Totals
<1>. QED BY <1>1, <1>2

\* The summary, which the main thread writes without the mutex before it joins
\* the workers, is never outdated (logger.c:165-214, main.c:45-47).
THEOREM SummaryIsNeverOutdated == Spec => []SummaryIsFinal
<1>1. Init => SummaryAfterLoop
  BY DEF Init, SummaryAfterLoop
<1>2. SummaryAfterLoop => SummaryIsFinal
  BY DEF SummaryAfterLoop, SummaryIsFinal, Totals
<1>. QED BY <1>1, <1>2, InductiveInvariant, SummaryStep, PTL DEF Spec
=============================================================================
