----------------------- MODULE LotteryDispatch_proofs -----------------------
(***************************************************************************)
(* Proofs, for every number of tasks, of what a dispatch amounts to, from    *)
(* its decision line to its result line: the lines of the log, the work     *)
(* done, the counters, the limit and the tickets; and of what the run as a   *)
(* whole amounts to, the loop of SequentialLottery.                         *)
(***************************************************************************)
EXTENDS LotteryScheduler_proofs, LotteryRefinement

-----------------------------------------------------------------------------
\* A dispatch from its decision line to its result line.

\* A task that can be dispatched has work left.
ReadyHasWork == \A t \in Task : state[t] = "READY" => done[t] < WorkUnits[t]

\* The decision line of dispatch n, which is still open.
DecisionLine(n) ==
    [event |-> "decision", dispatch |-> n, task |-> winner, run_units |-> 0,
     completed |-> units_before,
     remaining |-> WorkUnits[winner] - units_before]

\* The last line is the decision of the open dispatch, if there is one;
\* otherwise the next decision has the number after it.
LastLine ==
    /\ pending => /\ log = DecisionLine(pending_number)
                  /\ global_dispatch = Inc(pending_number)
    /\ mpc = "dispatch" => /\ log = DecisionLine(global_dispatch)
                           /\ done[winner] = units_before
    /\ ~pending /\ mpc # "dispatch" => /\ log.event # "decision"
                                       /\ global_dispatch = Inc(log.dispatch)

\* What the winner has done since its decision line, by its worker's place.
WorkSinceDecision ==
    pending =>
        IF state[winner] # "RUNNING" THEN done[winner] > units_before
        ELSE /\ wpc[winner] = "idle" =>
                    done[winner] = units_before /\ units_before < WorkUnits[winner]
             /\ wpc[winner] = "compute" =>
                    /\ done[winner] = units_before + units_run[winner]
                    /\ units_before < WorkUnits[winner]
             /\ wpc[winner] = "report" => done[winner] > units_before

OpenDispatch == ReadyHasWork /\ LastLine /\ WorkSinceDecision

\* A dispatch is never of 0 units (task.c:281-284).
LEMMA DispatchHasUnits ==
    ASSUME TypeOK, NEW t \in Task
    PROVE  DispatchUnits(t) \in Nat /\ DispatchUnits(t) >= 1
<1>1. UnitsPerDispatch(t) \in Word
  BY OptionTypes DEF TypeOK, UnitsPerDispatch
<1>. QED BY <1>1, EarlyLimitType DEF DispatchUnits

-----------------------------------------------------------------------------
\* A step that has nothing to do with the open dispatch.
Quiet ==
    /\ UNCHANGED <<options, state, done, dispatches, first_dispatch, last_dispatch,
                   effective_tickets, units_before, pending, pending_number,
                   global_dispatch, log>>
    /\ mpc' = "dispatch" <=> mpc = "dispatch"
    /\ pending \/ mpc = "dispatch" => winner' = winner
    /\ mpc # "configure" => slice_size' = slice_size
    /\ \A t \in Task : state[t] = "RUNNING" =>
            wpc'[t] = wpc[t] /\ units_run'[t] = units_run[t]

\* A step of the worker of task t while the task is RUNNING.
RunnerWorks(t) ==
    \/ StartDispatch(t) \/ RunUnit(t) \/ EndDispatch(t)
    \/ RunWithoutMode(t) \/ Report(t)

\* Which steps have to do with it.
LEMMA StepKinds ==
    ASSUME Scanning, [Next]_vars
    PROVE  \/ Quiet
           \/ AfterDispatch \/ TaskShutdownAll \/ LogDecision \/ TransitionToRunning
           \/ \E t \in Task : RunnerWorks(t)
<1>. USE ThreadFacts DEF Quiet, Scanning, Exclusion, TypeOK, InScope, SoleRunner,
         taskVars, lockVars, workerVars, scanVars, drawVars, loopVars, outputVars
<1>1. CASE CreateWorker
  BY <1>1 DEF CreateWorker
<1>2. CASE CreateWorkerFails \/ ConfigureCooperative
  BY <1>2 DEF CreateWorkerFails, ConfigureCooperative
<1>3. CASE WaitUntilNoRunning \/ CheckFinished \/ CountTickets
  BY <1>3 DEF WaitUntilNoRunning, CheckFinished, CountTickets
<1>4. CASE DrawTicket \/ DrawTicketUnseeded \/ PickWinner
  BY <1>4 DEF DrawTicket, DrawTicketUnseeded, PickWinner
<1>5. CASE WriteSummary \/ JoinWorker \/ CleanList
  BY <1>5 DEF WriteSummary, JoinWorker, CleanList
<1>6. ASSUME NEW t \in Task, Exit(t) PROVE Quiet
  BY <1>6 DEF Exit
<1>7. ASSUME NEW t \in Task, SleepWhileReady(t) PROVE Quiet
  BY <1>7 DEF SleepWhileReady
<1>8. ASSUME NEW t \in Thread, Lock(t) PROVE Quiet
  BY <1>8 DEF Lock
<1>9. CASE SpuriousWakeup \/ UNCHANGED vars
  BY <1>9 DEF SpuriousWakeup, vars
<1>. QED BY <1>1, <1>2, <1>3, <1>4, <1>5, <1>6, <1>7, <1>8, <1>9
         DEF Next, MainStep, WorkerStep, Terminated, RunnerWorks

\* Only a report makes a task READY again, and it looks at the work left.
LEMMA ReadyHasWorkStep ==
    ASSUME Scanning, ReadyHasWork, [Next]_vars PROVE ReadyHasWork'
<1>. USE DEF ReadyHasWork, Scanning, Exclusion, TypeOK, taskVars
<1>1. CASE Quiet
  BY <1>1 DEF Quiet
<1>2. CASE AfterDispatch \/ LogDecision
  BY <1>2 DEF AfterDispatch, OwesResult, LogDecision
<1>3. CASE TaskShutdownAll
  BY <1>3 DEF TaskShutdownAll
<1>4. CASE TransitionToRunning
  BY <1>4 DEF TransitionToRunning, InScope
<1>5. ASSUME NEW t \in Task, StartDispatch(t) \/ EndDispatch(t) PROVE ReadyHasWork'
  BY <1>5 DEF StartDispatch, EndDispatch
<1>6. ASSUME NEW t \in Task, RunUnit(t) \/ RunWithoutMode(t) PROVE ReadyHasWork'
  BY <1>6 DEF RunUnit, RunWithoutMode, OnlyRunningWork, Working
<1>7. ASSUME NEW t \in Task, Report(t) PROVE ReadyHasWork'
  BY <1>7, WorkUnitsType DEF Report, StateAfterWork
<1>. QED BY <1>1, <1>2, <1>3, <1>4, <1>5, <1>6, <1>7, StepKinds DEF RunnerWorks

\* Who works is the winner of the open dispatch.
LEMMA WorkerIsWinner ==
    ASSUME Scanning, NEW t \in Task, Working(t) \/ state[t] = "RUNNING"
    PROVE  t = winner /\ pending /\ mpc = "wait" /\ state[t] = "RUNNING"
BY DEF Scanning, Exclusion, OnlyRunningWork, SoleRunner

\* The worker that takes a step of its dispatch is the winner's, and its task
\* is RUNNING while the main thread waits.
LEMMA RunnerIsWinner ==
    ASSUME Scanning, NEW t \in Task, RunnerWorks(t)
    PROVE  t = winner /\ pending /\ mpc = "wait" /\ state[t] = "RUNNING"
BY WorkerIsWinner
   DEF RunnerWorks, StartDispatch, RunUnit, EndDispatch, RunWithoutMode, Report,
       Working, Dispatched

\* The main thread opens a dispatch with its decision line and closes it with
\* its result line.
LEMMA LastLineStep ==
    ASSUME Scanning, LastLine, [Next]_vars PROVE LastLine'
<1>. USE ThreadFacts DEF LastLine, DecisionLine, Scanning, Exclusion, TypeOK, InScope,
         taskVars, drawVars, loopVars, outputVars
<1>1. CASE Quiet
  BY <1>1 DEF Quiet
<1>2. CASE AfterDispatch
  BY <1>2 DEF AfterDispatch, OwesResult, ResultLine, PendingAfterLog
<1>3. CASE LogDecision
  BY <1>3 DEF LogDecision
<1>4. CASE TaskShutdownAll
  BY <1>4 DEF TaskShutdownAll
<1>5. CASE TransitionToRunning
  BY <1>5 DEF TransitionToRunning, WinnerIsReady
<1>6. ASSUME NEW t \in Task, RunnerWorks(t) PROVE LastLine'
  BY <1>6, RunnerIsWinner
     DEF RunnerWorks, StartDispatch, RunUnit, EndDispatch, RunWithoutMode, Report
<1>. QED BY <1>1, <1>2, <1>3, <1>4, <1>5, <1>6, StepKinds

\* The worker does at least one unit before it gives the processor back.
LEMMA WorkSinceDecisionStep ==
    ASSUME Scanning, OpenDispatch, [Next]_vars PROVE WorkSinceDecision'
<1>. USE ThreadFacts, WorkUnitsType
     DEF WorkSinceDecision, OpenDispatch, Scanning, Exclusion, TypeOK, InScope, taskVars,
         workerVars, drawVars, loopVars
<1>1. CASE Quiet
  BY <1>1 DEF Quiet
<1>2. CASE AfterDispatch
  BY <1>2 DEF AfterDispatch, OwesResult, PendingAfterLog
<1>3. CASE LogDecision \/ TaskShutdownAll
  BY <1>3 DEF LogDecision, TaskShutdownAll
<1>4. CASE TransitionToRunning
  <2>1. done[winner] = units_before /\ done[winner] < WorkUnits[winner]
    BY <1>4 DEF TransitionToRunning, LastLine, ReadyHasWork, WinnerIsReady
  <2>2. wpc[winner] \notin {"compute", "report"}
    BY <1>4 DEF TransitionToRunning, OnlyRunningWork, Working, WinnerIsReady
  <2>. QED BY <1>4, <2>1, <2>2 DEF TransitionToRunning, WinnerIsReady
<1>5. ASSUME NEW t \in Task, StartDispatch(t) PROVE WorkSinceDecision'
  BY <1>5, WorkerIsWinner DEF StartDispatch, Dispatched
<1>6. ASSUME NEW t \in Task, RunUnit(t) PROVE WorkSinceDecision'
  BY <1>6, WorkerIsWinner DEF RunUnit, Working
<1>7. ASSUME NEW t \in Task, EndDispatch(t) PROVE WorkSinceDecision'
  BY <1>7, WorkerIsWinner, DispatchHasUnits DEF EndDispatch, Working, MoreUnits
<1>8. ASSUME NEW t \in Task, RunWithoutMode(t) PROVE WorkSinceDecision'
  BY <1>8, WorkerIsWinner DEF RunWithoutMode, Working
<1>9. ASSUME NEW t \in Task, Report(t) PROVE WorkSinceDecision'
  BY <1>9, WorkerIsWinner DEF Report, Working, StateAfterWork
<1>. QED BY <1>1, <1>2, <1>3, <1>4, <1>5, <1>6, <1>7, <1>8, <1>9, StepKinds DEF RunnerWorks

\* Before the first draw no line is written and every task has all its work.
LEMMA InitOpenDispatch == Init => OpenDispatch
BY WorkUnitsType, FirstNumber, TaskFacts
   DEF Init, OpenDispatch, ReadyHasWork, LastLine, WorkSinceDecision, NoLine

-----------------------------------------------------------------------------
\* A line that is written matches the one before it.
LEMMA LineMatches ==
    ASSUME Scanning, OpenDispatch, [Next]_vars, log' # log
    PROVE  /\ log'.event = "result" =>
                /\ log.event = "decision"
                /\ log'.dispatch = log.dispatch /\ log'.task = log.task
                /\ log'.run_units >= 1
                /\ log'.completed = log.completed + log'.run_units
                /\ log'.remaining = log.remaining - log'.run_units
           /\ log'.event = "decision" =>
                /\ log.event # "decision"
                /\ log'.dispatch = Inc(log.dispatch)
<1>. USE DEF Scanning, Exclusion, TypeOK, InScope, OpenDispatch, LastLine, DecisionLine
<1>1. CASE AfterDispatch
  <2>1. pending /\ log' = ResultLine /\ winner \in Task
    BY <1>1 DEF AfterDispatch, OwesResult, outputVars
  <2>2. state[winner] # "RUNNING"
    BY <1>1, <2>1 DEF AfterDispatch, OwesResult, SoleRunner
  <2>3. done[winner] > units_before
    BY <2>1, <2>2 DEF WorkSinceDecision
  <2>. QED BY <2>1, <2>3, WorkUnitsType DEF ResultLine
<1>2. CASE LogDecision
  <2>1. ~pending /\ mpc = "decide"
    BY <1>2 DEF LogDecision
  <2>. QED BY <1>2, <2>1 DEF LogDecision
<1>3. AfterDispatch \/ LogDecision
  BY StepKinds
     DEF Quiet, TaskShutdownAll, TransitionToRunning, RunnerWorks, StartDispatch,
         RunUnit, EndDispatch, RunWithoutMode, Report, outputVars
<1>. QED BY <1>1, <1>2, <1>3

\* The open dispatch is as described throughout.
LEMMA OpenDispatchHolds == Spec => []OpenDispatch
<1>1. Scanning /\ OpenDispatch /\ [Next]_vars => OpenDispatch'
  BY ReadyHasWorkStep, LastLineStep, WorkSinceDecisionStep DEF OpenDispatch
<1>. QED BY <1>1, InitOpenDispatch, InductiveInvariant, PTL DEF Spec

\* Each result line belongs to the decision line right before it, accounts for
\* the units the worker has run in between, at least one, and the next decision
\* has the next number (scheduler.c:205-228, 290-310).
THEOREM LogLinesPair == Spec => LogPairs
<1>1. Scanning /\ OpenDispatch /\ [Next]_vars =>
        [/\ log'.event = "result" =>
                /\ log.event = "decision"
                /\ log'.dispatch = log.dispatch /\ log'.task = log.task
                /\ log'.run_units >= 1
                /\ log'.completed = log.completed + log'.run_units
                /\ log'.remaining = log.remaining - log'.run_units
         /\ log'.event = "decision" =>
                /\ log.event # "decision"
                /\ log'.dispatch = Inc(log.dispatch)]_log
  BY LineMatches
<1>. QED BY <1>1, OpenDispatchHolds, InductiveInvariant, PTL DEF Spec, LogPairs

-----------------------------------------------------------------------------
\* The work of the dispatches.

\* n units, or all the work of the task if that is less.
UpToWork(t, n) == IF n < WorkUnits[t] THEN n ELSE WorkUnits[t]

\* The units of n whole dispatches.
Allotted(t, n) == n * DispatchUnits(t)

\* Before the loop nothing has been done.
NothingYet ==
    mpc \in {"create", "configure"} =>
        /\ global_dispatch = 1 /\ ~pending
        /\ \A t \in Task : /\ state[t] = "READY"
                           /\ dispatches[t] = 0 /\ done[t] = 0

\* What a task has done that is not RUNNING, and what it does while it is: its
\* worker goes from the whole dispatches before this one towards the next.
WorkByDispatch(t) ==
    IF state[t] # "RUNNING"
    THEN done[t] = UpToWork(t, Allotted(t, dispatches[t]))
    ELSE /\ dispatches[t] >= 1
         /\ Allotted(t, dispatches[t] - 1) = units_before
         /\ units_before < WorkUnits[t]
         /\ wpc[t] \notin {"compute", "report"} => done[t] = units_before
         /\ wpc[t] = "compute" =>
                /\ done[t] = units_before + units_run[t]
                /\ done[t] <= WorkUnits[t]
                /\ units_run[t] <= DispatchUnits(t)
                /\ ~HasMode(t) => units_run[t] = 0
         /\ wpc[t] = "report" =>
                done[t] = UpToWork(t, units_before + DispatchUnits(t))

WorkDone == NothingYet /\ \A t \in Task : WorkByDispatch(t)

\* The allotment of a dispatch is settled before the loop.
LEMMA DispatchUnitsSettled ==
    ASSUME NEW t \in Task, UNCHANGED <<options, slice_size>>
    PROVE  DispatchUnits(t)' = DispatchUnits(t) /\ HasMode(t)' = HasMode(t)
BY DEF DispatchUnits, UnitsPerDispatch, HasMode

\* Without a mode it is one unit.
LEMMA NoModeOneUnit ==
    ASSUME TypeOK, NEW t \in Task, ~HasMode(t) PROVE DispatchUnits(t) = 1
<1>1. UnitsPerDispatch(t) = 0
  <2>1. slice_size[t] \in Nat /\ options.quantum \in Nat
    BY OptionTypes, WordFacts DEF TypeOK
  <2>. QED BY <2>1 DEF HasMode, UnitsPerDispatch
<1>2. \A y \in 10..100 : EarlyLimits(0, y) = {1}
  BY NoModeLimit, Zenon
<1>3. EarlyLimit[t][0] = 1
  BY <1>2, YieldAssumption, WordFacts DEF EarlyLimit
<1>. QED BY <1>1, <1>3 DEF DispatchUnits

\* A task that can be dispatched has had fewer dispatches than it has work, so
\* its counter does not wrap (task.c:96-124).
LEMMA CounterDoesNotWrap ==
    ASSUME Scanning, OpenDispatch, WorkDone, NEW t \in Task, state[t] = "READY"
    PROVE  /\ Inc(dispatches[t]) = dispatches[t] + 1
           /\ done[t] = Allotted(t, dispatches[t])
           /\ dispatches[t] + 1 <= WorkUnits[t]
<1>. TypeOK
  BY DEF Scanning, Exclusion
<1>1. DispatchUnits(t) \in Nat \ {0} /\ dispatches[t] \in Nat
  <2>1. DispatchUnits(t) \in Nat \ {0}
    BY DispatchHasUnits
  <2>. QED BY <2>1, WordFacts DEF TypeOK
<1>2. dispatches[t] <= Allotted(t, dispatches[t]) /\ Allotted(t, dispatches[t]) \in Nat
  BY <1>1, AllotmentFacts DEF Allotted
<1>3. done[t] < WorkUnits[t] /\ WorkUnits[t] \in 1..UintMax
  BY WorkUnitsAssumption DEF OpenDispatch, ReadyHasWork
<1>4. done[t] = UpToWork(t, Allotted(t, dispatches[t]))
  BY DEF WorkDone, WorkByDispatch
<1>5. done[t] = Allotted(t, dispatches[t])
  BY <1>2, <1>3, <1>4 DEF UpToWork
<1>6. dispatches[t] + 1 <= WorkUnits[t]
  BY <1>1, <1>2, <1>3, <1>5, UintMaxPositive
<1>7. Inc(dispatches[t]) = dispatches[t] + 1
  BY <1>1, <1>3, <1>6, UintMaxPositive, SMT DEF Inc, Truncate
<1>. QED BY <1>5, <1>6, <1>7

\* Whoever is not the winner at work has nothing to do with the step.
LEMMA NothingYetStep ==
    ASSUME Scanning, NothingYet, [Next]_vars PROVE NothingYet'
<1>. USE DEF NothingYet, Scanning, Exclusion, InScope, taskVars, lockVars, workerVars,
         loopVars
<1>1. CASE Quiet
  <2>1. mpc' \in {"create", "configure"} => mpc \in {"create", "configure"}
    BY DEF Next, MainStep, WorkerStep, Terminated, CreateWorker, CreateWorkerFails,
           ConfigureCooperative, Lock, WaitUntilNoRunning, AfterDispatch, OwesResult,
           TaskShutdownAll, CheckFinished, CountTickets, DrawTicket,
           DrawTicketUnseeded, PickWinner, LogDecision, TransitionToRunning,
           WriteSummary, JoinWorker, CleanList, SleepWhileReady, StartDispatch, Exit,
           RunUnit, EndDispatch, RunWithoutMode, Report, SpuriousWakeup, vars
  <2>. QED BY <1>1, <2>1 DEF Quiet
<1>2. CASE AfterDispatch \/ TaskShutdownAll \/ LogDecision \/ TransitionToRunning
  BY <1>2 DEF AfterDispatch, OwesResult, TaskShutdownAll, LogDecision, TransitionToRunning
<1>3. ASSUME NEW t \in Task, RunnerWorks(t) PROVE NothingYet'
  <2>1. mpc = "wait" /\ mpc' = mpc
    BY <1>3, RunnerIsWinner
       DEF RunnerWorks, StartDispatch, RunUnit, EndDispatch, RunWithoutMode, Report
  <2>. QED BY <2>1
<1>. QED BY <1>1, <1>2, <1>3, StepKinds

\* Every step keeps what is known of a task's work after its dispatches.
LEMMA WorkByDispatchStep ==
    ASSUME Scanning, OpenDispatch, WorkDone, [Next]_vars, NEW t \in Task
    PROVE  WorkByDispatch(t)'
<1>. TypeOK
  BY DEF Scanning, Exclusion
<1>1. WorkByDispatch(t) /\ WorkUnits[t] \in Nat \ {0}
  BY WorkUnitsType DEF WorkDone
<1>2. DispatchUnits(t) \in Nat \ {0} /\ dispatches[t] \in Nat
  <2>1. DispatchUnits(t) \in Nat \ {0}
    BY DispatchHasUnits
  <2>. QED BY <2>1, WordFacts DEF TypeOK
<1>3. CASE Quiet
  <2>1. CASE mpc = "configure"
    <3>1. state'[t] = "READY" /\ dispatches'[t] = 0 /\ done'[t] = 0
      BY <1>3, <2>1 DEF Quiet, WorkDone, NothingYet
    <3>2. DispatchUnits(t)' \in Nat \ {0}
      <4>1. TypeOK'
        BY NextType DEF Scanning, Exclusion
      <4>2. options' = options /\ options.quantum \in Word /\ slice_size'[t] \in Word
        BY <1>3, <4>1, OptionTypes DEF Quiet, TypeOK
      <4>3. UnitsPerDispatch(t)' \in Word
        BY <4>2 DEF UnitsPerDispatch
      <4>. QED BY <4>3, EarlyLimitType DEF DispatchUnits
    <3>3. Allotted(t, dispatches[t])' = 0
      BY <3>1, <3>2, AllotmentFacts DEF Allotted
    <3>. QED BY <1>1, <3>1, <3>3 DEF WorkByDispatch, UpToWork
  <2>2. CASE mpc # "configure"
    <3>1. UNCHANGED <<options, slice_size>>
      BY <1>3, <2>2 DEF Quiet
    <3>2. DispatchUnits(t)' = DispatchUnits(t) /\ HasMode(t)' = HasMode(t)
      BY <3>1, DispatchUnitsSettled
    <3>. QED BY <1>1, <1>3, <3>2 DEF Quiet, WorkByDispatch, UpToWork, Allotted
  <2>. QED BY <2>1, <2>2
<1>4. CASE AfterDispatch \/ LogDecision \/ TaskShutdownAll
  <2>1. /\ UNCHANGED <<options, slice_size, done, dispatches>>
        /\ state[t] # "RUNNING" /\ state'[t] # "RUNNING"
    BY <1>4 DEF AfterDispatch, OwesResult, LogDecision, TaskShutdownAll, Scanning, Exclusion,
                SoleRunner, taskVars
  <2>2. DispatchUnits(t)' = DispatchUnits(t)
    BY <2>1, DispatchUnitsSettled
  <2>. QED BY <1>1, <2>1, <2>2 DEF WorkByDispatch, UpToWork, Allotted
<1>5. CASE TransitionToRunning
  <2>1. /\ UNCHANGED <<options, slice_size, done, units_before, wpc>>
        /\ winner \in Task /\ state[winner] = "READY"
    BY <1>5 DEF TransitionToRunning, Scanning, Exclusion, InScope, WinnerIsReady,
                workerVars
  <2>2. DispatchUnits(t)' = DispatchUnits(t)
    BY <2>1, DispatchUnitsSettled
  <2>3. CASE t = winner
    <3>1. /\ state'[t] = "RUNNING"
          /\ dispatches'[t] = Inc(dispatches[t])
      BY <1>5, <2>1, <2>3 DEF TransitionToRunning, TypeOK
    <3>2. dispatches'[t] = dispatches[t] + 1 /\ done[t] = Allotted(t, dispatches[t])
      BY <2>1, <2>3, <3>1, CounterDoesNotWrap
    <3>3. done[t] = units_before /\ done[t] < WorkUnits[t]
      BY <1>5, <2>1, <2>3
         DEF TransitionToRunning, OpenDispatch, LastLine, ReadyHasWork
    <3>4. wpc[t] \notin {"compute", "report"}
      BY <2>1, <2>3 DEF Scanning, Exclusion, OnlyRunningWork, Working
    <3>5. dispatches'[t] >= 1 /\ dispatches'[t] - 1 = dispatches[t]
      BY <1>2, <3>2
    <3>. QED BY <2>1, <2>2, <3>1, <3>2, <3>3, <3>4, <3>5 DEF WorkByDispatch, Allotted
  <2>4. CASE t # winner
    <3>1. UNCHANGED <<state[t], dispatches[t]>>
      BY <1>5, <2>1, <2>4 DEF TransitionToRunning, TypeOK
    <3>2. state[t] # "RUNNING"
      BY <1>5 DEF TransitionToRunning, Scanning, Exclusion, SoleRunner
    <3>. QED BY <1>1, <2>1, <2>2, <3>1, <3>2 DEF WorkByDispatch, UpToWork, Allotted
  <2>. QED BY <2>3, <2>4
<1>6. ASSUME NEW u \in Task, RunnerWorks(u), u # t PROVE WorkByDispatch(t)'
  <2>1. UNCHANGED <<options, slice_size, state[t], done[t], dispatches[t]>>
    BY <1>6 DEF RunnerWorks, StartDispatch, RunUnit, EndDispatch, RunWithoutMode,
                Report, TypeOK, taskVars
  <2>2. state[t] # "RUNNING"
    BY <1>6, RunnerIsWinner, WorkerIsWinner
  <2>3. DispatchUnits(t)' = DispatchUnits(t)
    BY <2>1, DispatchUnitsSettled
  <2>. QED BY <1>1, <2>1, <2>2, <2>3 DEF WorkByDispatch, UpToWork, Allotted
<1>7. CASE RunnerWorks(t)
  <2>1. /\ UNCHANGED <<options, slice_size, dispatches, units_before>>
        /\ state[t] = "RUNNING" /\ t = winner /\ pending
    BY <1>7, RunnerIsWinner
       DEF RunnerWorks, StartDispatch, RunUnit, EndDispatch, RunWithoutMode, Report,
           taskVars, loopVars
  <2>2. DispatchUnits(t)' = DispatchUnits(t) /\ HasMode(t)' = HasMode(t)
    BY <2>1, DispatchUnitsSettled
  <2>3. /\ dispatches[t] >= 1
        /\ Allotted(t, dispatches[t] - 1) = units_before
        /\ Allotted(t, dispatches[t] - 1)' = Allotted(t, dispatches[t] - 1)
        /\ units_before < WorkUnits[t] /\ units_before \in Nat
    BY <1>1, <2>1, <2>2 DEF WorkByDispatch, Allotted, TypeOK
  <2>4. CASE StartDispatch(t)
    <3>1. wpc[t] = "idle" /\ wpc'[t] = "compute" /\ units_run'[t] = 0
          /\ UNCHANGED <<state, done>>
      BY <2>4 DEF StartDispatch, TypeOK, taskVars
    <3>. QED BY <1>1, <1>2, <2>1, <2>2, <2>3, <3>1 DEF WorkByDispatch
  <2>5. CASE RunUnit(t)
    <3>1. /\ wpc[t] = "compute" /\ wpc' = wpc /\ state' = state
          /\ done'[t] = done[t] + 1 /\ units_run'[t] = units_run[t] + 1
          /\ HasMode(t) /\ units_run[t] < DispatchUnits(t) /\ done[t] < WorkUnits[t]
          /\ done[t] \in Nat /\ units_run[t] \in Nat
      BY <2>5 DEF RunUnit, MoreUnits, TypeOK
    <3>2. done[t] = units_before + units_run[t]
      BY <1>1, <2>1, <3>1 DEF WorkByDispatch
    <3>3. /\ done'[t] = units_before + units_run'[t] /\ done'[t] <= WorkUnits[t]
          /\ units_run'[t] <= DispatchUnits(t)
      BY <1>1, <1>2, <2>3, <3>1, <3>2
    <3>. QED BY <2>1, <2>2, <2>3, <3>1, <3>3 DEF WorkByDispatch
  <2>6. CASE EndDispatch(t)
    <3>1. /\ wpc[t] = "compute" /\ wpc'[t] = "report" /\ UNCHANGED <<state, done>>
          /\ ~(units_run[t] < DispatchUnits(t) /\ done[t] < WorkUnits[t])
          /\ done[t] \in Nat /\ units_run[t] \in Nat
      BY <2>6 DEF EndDispatch, MoreUnits, TypeOK, taskVars
    <3>2. /\ done[t] = units_before + units_run[t] /\ done[t] <= WorkUnits[t]
          /\ units_run[t] <= DispatchUnits(t)
      BY <1>1, <2>1, <3>1 DEF WorkByDispatch
    <3>3. done[t] = UpToWork(t, units_before + DispatchUnits(t))
      BY <1>1, <1>2, <2>3, <3>1, <3>2 DEF UpToWork
    <3>. QED BY <2>1, <2>2, <2>3, <3>1, <3>3 DEF WorkByDispatch, UpToWork
  <2>7. CASE RunWithoutMode(t)
    <3>1. /\ wpc[t] = "compute" /\ wpc'[t] = "report" /\ state' = state
          /\ done'[t] = done[t] + 1 /\ ~HasMode(t)
      BY <2>7 DEF RunWithoutMode, TypeOK
    <3>2. done[t] = units_before + units_run[t] /\ units_run[t] = 0
      BY <1>1, <2>1, <3>1 DEF WorkByDispatch
    <3>3. DispatchUnits(t) = 1
      BY <3>1, NoModeOneUnit
    <3>4. done'[t] = UpToWork(t, units_before + DispatchUnits(t))
      BY <1>1, <2>3, <3>1, <3>2, <3>3 DEF UpToWork
    <3>. QED BY <2>1, <2>2, <2>3, <3>1, <3>4 DEF WorkByDispatch, UpToWork
  <2>8. CASE Report(t)
    <3>1. /\ wpc[t] = "report" /\ done' = done /\ state'[t] # "RUNNING"
      BY <2>8 DEF Report, StateAfterWork, TypeOK
    <3>2. done[t] = UpToWork(t, units_before + DispatchUnits(t))
      BY <1>1, <2>1, <3>1 DEF WorkByDispatch
    <3>3. Allotted(t, dispatches[t]) = units_before + DispatchUnits(t)
      BY <1>2, <2>3, AllotmentFacts DEF Allotted
    <3>. QED BY <2>1, <2>2, <3>1, <3>2, <3>3 DEF WorkByDispatch, UpToWork, Allotted
  <2>. QED BY <1>7, <2>4, <2>5, <2>6, <2>7, <2>8 DEF RunnerWorks
<1>. QED BY <1>3, <1>4, <1>5, <1>6, <1>7, StepKinds

\* Before the first dispatch no work is done.
LEMMA InitWorkDone == Init => WorkDone
<1>. SUFFICES ASSUME Init PROVE WorkDone
  OBVIOUS
<1>1. NothingYet
  BY DEF Init, NothingYet
<1>2. ASSUME NEW t \in Task PROVE WorkByDispatch(t)
  <2>1. state[t] = "READY" /\ done[t] = 0 /\ dispatches[t] = 0
    BY DEF Init
  <2>2. DispatchUnits(t) \in Nat \ {0}
    <3>1. TypeOK
      BY InitType
    <3>. QED BY <3>1, DispatchHasUnits
  <2>3. Allotted(t, dispatches[t]) = 0
    BY <2>1, <2>2, AllotmentFacts DEF Allotted
  <2>. QED BY <2>1, <2>3, WorkUnitsType DEF WorkByDispatch, UpToWork
<1>. QED BY <1>1, <1>2 DEF WorkDone

\* The work of every task is that of its dispatches throughout.
LEMMA WorkDoneHolds == Spec => []WorkDone
<1>1. Scanning /\ OpenDispatch /\ WorkDone /\ [Next]_vars => WorkDone'
  BY NothingYetStep, WorkByDispatchStep DEF WorkDone
<1>. QED BY <1>1, InitWorkDone, InductiveInvariant, OpenDispatchHolds, PTL DEF Spec

\* A task that nobody works on has done the units of its whole dispatches, or
\* all its work if that is less: what the worker counts and what the scheduler
\* counts agree (task.c:96-124, 395-425).
THEOREM WorkAgreesWithDispatches == Spec => []WorkMatchesDispatches
<1>1. WorkDone => WorkMatchesDispatches
  BY DEF WorkDone, WorkByDispatch, UpToWork, Allotted, WorkMatchesDispatches
<1>. QED BY <1>1, WorkDoneHolds, PTL

-----------------------------------------------------------------------------
\* The counters of the dispatches and their limit.

Dispatches == TotalOver(dispatches, Task)

\* The numbers of a task's first and last dispatch leave room for all of them.
Framed(t) ==
    /\ dispatches[t] = 0 => first_dispatch[t] = 0 /\ last_dispatch[t] = 0
    /\ dispatches[t] > 0 => /\ 1 <= first_dispatch[t]
                            /\ first_dispatch[t] <= last_dispatch[t]
                            /\ last_dispatch[t] < global_dispatch
                            /\ dispatches[t] <= last_dispatch[t] - first_dispatch[t] + 1
    /\ dispatches[t] = 1 => first_dispatch[t] = last_dispatch[t]

\* As long as the number of the next dispatch fits in its word, it is one more
\* than the dispatches made, and no two tasks had the same one last.
Numbered ==
    Dispatches < UintMax =>
        /\ global_dispatch = Dispatches + 1
        /\ \A t \in Task :
              /\ Framed(t)
              /\ \A u \in Task \ {t} : last_dispatch[t] = last_dispatch[u] => dispatches[t] = 0

\* No task is dispatched more often than it has units of work.
NoIdleDispatch == \A t \in Task : dispatches[t] <= WorkUnits[t]

\* The loop body runs below the limit, and only the limit leads to the shutdown.
LimitChecked ==
    /\ mpc \in {"finished", "count", "draw", "pick", "decide", "dispatch"} => ~LimitReached
    /\ mpc = "shutdown" => LimitReached

Ledger == Numbered /\ NoIdleDispatch /\ LimitChecked

\* Nothing else than a dispatch touches its counters, and no step the options.
LEMMA CountersStay ==
    ASSUME Scanning, [Next]_vars, ~TransitionToRunning
    PROVE  UNCHANGED <<dispatches, first_dispatch, last_dispatch, global_dispatch>>
BY StepKinds
   DEF Quiet, AfterDispatch, OwesResult, TaskShutdownAll, LogDecision, RunnerWorks, StartDispatch,
       RunUnit, EndDispatch, RunWithoutMode, Report, taskVars, loopVars

\* No step of the threads changes the options.
LEMMA OptionsStay ==
    ASSUME Scanning, [Next]_vars PROVE options' = options
BY StepKinds
   DEF Quiet, AfterDispatch, OwesResult, TaskShutdownAll, LogDecision, TransitionToRunning,
       RunnerWorks, StartDispatch, RunUnit, EndDispatch, RunWithoutMode, Report

\* The counters are natural numbers, and so is their sum.
LEMMA CounterTypes ==
    ASSUME TypeOK
    PROVE  /\ dispatches \in [Task -> Nat] /\ first_dispatch \in [Task -> Nat]
           /\ last_dispatch \in [Task -> Nat] /\ global_dispatch \in Nat
           /\ options.maxDispatches \in Nat /\ Dispatches \in Nat
<1>1. dispatches \in [Task -> Nat]
  BY WordFacts DEF TypeOK
<1>2. Dispatches \in Nat
  <2>1. 1 \in Task
    BY TaskFacts
  <2>. QED BY <1>1, <2>1, ShareWithinTotal DEF Dispatches
<1>. QED BY <1>1, <1>2, OptionTypes, WordFacts DEF TypeOK

\* A dispatch adds one to the counter of the winner and to the sum
\* (task.c:96-124, scheduler.c:329-341).
LEMMA DispatchCounts ==
    ASSUME Scanning, OpenDispatch, WorkDone, TransitionToRunning
    PROVE  /\ winner \in Task
           /\ dispatches[winner] < WorkUnits[winner]
           /\ dispatches' = [dispatches EXCEPT ![winner] = dispatches[winner] + 1]
           /\ first_dispatch' = [first_dispatch EXCEPT
                 ![winner] = IF dispatches[winner] = 0 THEN global_dispatch ELSE @]
           /\ last_dispatch' = [last_dispatch EXCEPT ![winner] = global_dispatch]
           /\ global_dispatch' = Inc(global_dispatch)
           /\ Dispatches' = Dispatches + 1
<1>. TypeOK
  BY DEF Scanning, Exclusion
<1>1. winner \in Task /\ state[winner] = "READY"
  BY DEF TransitionToRunning, Scanning, Exclusion, InScope, WinnerIsReady
<1>2. /\ Inc(dispatches[winner]) = dispatches[winner] + 1
      /\ dispatches[winner] + 1 <= WorkUnits[winner]
  BY <1>1, CounterDoesNotWrap
<1>3. dispatches \in [Task -> Nat] /\ dispatches[winner] \in Nat
  BY <1>1, CounterTypes
<1>4. FirstTime(winner) <=> dispatches[winner] = 0
  BY <1>2, <1>3 DEF FirstTime
<1>5. dispatches' = [dispatches EXCEPT ![winner] = dispatches[winner] + 1]
  BY <1>1, <1>2 DEF TransitionToRunning
<1>6. Dispatches' = Dispatches + 1
  <2>. DEFINE next == [dispatches EXCEPT ![winner] = dispatches[winner] + 1]
  <2>1. next \in [Task -> Nat]
    <3>1. dispatches[winner] + 1 \in Nat
      BY <1>3
    <3>. QED BY <1>3, <3>1
  <2>2. dispatches \in [Task -> Int] /\ next \in [Task -> Int]
    BY <1>3, <2>1
  <2>3. /\ \A u \in Task \ {winner} : Share(dispatches, Task, u) = Share(next, Task, u)
        /\ Share(next, Task, winner) = dispatches[winner] + 1
        /\ Share(dispatches, Task, winner) = dispatches[winner]
    BY <1>1, <1>3 DEF Share
  <2>. HIDE DEF next
  <2>4. TotalOver(next, Task) = TotalOver(dispatches, Task)
          + Share(next, Task, winner) - Share(dispatches, Task, winner)
    BY <1>1, <2>2, <2>3, OneShareChanges
  <2>5. Dispatches \in Nat
    BY CounterTypes
  <2>6. TotalOver(next, Task) = TotalOver(dispatches, Task) + 1
    BY <1>3, <2>3, <2>4, <2>5 DEF Dispatches
  <2>7. dispatches' = next
    BY <1>5 DEF next
  <2>. QED BY <2>6, <2>7 DEF Dispatches
<1>7. /\ first_dispatch' = [first_dispatch EXCEPT
             ![winner] = IF dispatches[winner] = 0 THEN global_dispatch ELSE @]
      /\ last_dispatch' = [last_dispatch EXCEPT ![winner] = global_dispatch]
      /\ global_dispatch' = Inc(global_dispatch)
  BY <1>1, <1>4 DEF TransitionToRunning
<1>. QED BY <1>1, <1>2, <1>3, <1>5, <1>6, <1>7, WorkUnitsType

\* Every step keeps the numbers of the dispatches those counted so far.
LEMMA NumberedStep ==
    ASSUME Scanning, OpenDispatch, WorkDone, Numbered, [Next]_vars PROVE Numbered'
<1>. TypeOK
  BY DEF Scanning, Exclusion
<1>1. CASE TransitionToRunning
  <2>. SUFFICES ASSUME Dispatches' < UintMax
                PROVE  /\ global_dispatch' = Dispatches' + 1
                       /\ \A t \in Task : /\ Framed(t)'
                                          /\ \A u \in Task \ {t} :
                                                last_dispatch'[t] = last_dispatch'[u]
                                                  => dispatches'[t] = 0
    BY DEF Numbered
  <2>1. /\ winner \in Task
        /\ dispatches' = [dispatches EXCEPT ![winner] = dispatches[winner] + 1]
        /\ first_dispatch' = [first_dispatch EXCEPT
              ![winner] = IF dispatches[winner] = 0 THEN global_dispatch ELSE @]
        /\ last_dispatch' = [last_dispatch EXCEPT ![winner] = global_dispatch]
        /\ global_dispatch' = Inc(global_dispatch)
        /\ Dispatches' = Dispatches + 1
    BY <1>1, DispatchCounts
  <2>2. /\ dispatches \in [Task -> Nat] /\ first_dispatch \in [Task -> Nat]
        /\ last_dispatch \in [Task -> Nat] /\ global_dispatch \in Nat
        /\ Dispatches \in Nat
    BY CounterTypes
  <2>3. /\ Dispatches < UintMax
        /\ global_dispatch = Dispatches + 1
        /\ \A t \in Task : /\ Framed(t)
                           /\ \A u \in Task \ {t} :
                                 last_dispatch[t] = last_dispatch[u] => dispatches[t] = 0
    BY <2>1, <2>2, UintMaxPositive DEF Numbered
  <2>4. global_dispatch' = global_dispatch + 1
    BY <2>1, <2>2, <2>3, UintMaxPositive, SMT DEF Inc, Truncate
  <2>5. ASSUME NEW t \in Task PROVE Framed(t)'
    <3>1. Framed(t) /\ dispatches[t] \in Nat /\ first_dispatch[t] \in Nat
          /\ last_dispatch[t] \in Nat
      BY <2>2, <2>3
    <3>2. CASE t = winner
      <4>1. /\ dispatches'[t] = dispatches[t] + 1
            /\ first_dispatch'[t] =
                  IF dispatches[t] = 0 THEN global_dispatch ELSE first_dispatch[t]
            /\ last_dispatch'[t] = global_dispatch
        BY <2>1, <2>2, <3>2
      <4>2. CASE dispatches[t] = 0
        BY <2>2, <2>3, <2>4, <4>1, <4>2 DEF Framed
      <4>3. CASE dispatches[t] > 0
        BY <2>2, <2>3, <2>4, <3>1, <4>1, <4>3 DEF Framed
      <4>. QED BY <3>1, <4>2, <4>3
    <3>3. CASE t # winner
      <4>1. UNCHANGED <<dispatches[t], first_dispatch[t], last_dispatch[t]>>
        BY <2>1, <2>2, <3>3
      <4>. QED BY <2>2, <2>4, <3>1, <4>1 DEF Framed
    <3>. QED BY <3>2, <3>3
  <2>6. ASSUME NEW t \in Task, NEW u \in Task \ {t}, last_dispatch'[t] = last_dispatch'[u]
        PROVE  dispatches'[t] = 0
    <3>1. ASSUME NEW v \in Task PROVE last_dispatch[v] < global_dispatch
      <4>1. Framed(v) /\ dispatches[v] \in Nat
        BY <2>2, <2>3
      <4>. QED BY <2>2, <2>3, <4>1 DEF Framed
    <3>2. t # winner /\ u # winner
      BY <2>1, <2>2, <2>6, <3>1
    <3>3. UNCHANGED <<last_dispatch[t], last_dispatch[u], dispatches[t]>>
      BY <2>1, <2>2, <3>2
    <3>. QED BY <2>3, <2>6, <3>3
  <2>. QED BY <2>1, <2>2, <2>3, <2>4, <2>5, <2>6
<1>2. CASE ~TransitionToRunning
  BY <1>2, CountersStay DEF Numbered, Framed, Dispatches
<1>. QED BY <1>1, <1>2

\* A task is never dispatched more often than it has units of work.
LEMMA NoIdleDispatchStep ==
    ASSUME Scanning, OpenDispatch, WorkDone, NoIdleDispatch, [Next]_vars
    PROVE  NoIdleDispatch'
<1>1. CASE TransitionToRunning
  <2>1. /\ winner \in Task /\ dispatches[winner] < WorkUnits[winner]
        /\ dispatches' = [dispatches EXCEPT ![winner] = dispatches[winner] + 1]
    BY <1>1, DispatchCounts
  <2>2. dispatches \in [Task -> Nat]
    BY CounterTypes DEF Scanning, Exclusion
  <2>. QED BY <2>1, <2>2, WorkUnitsType DEF NoIdleDispatch
<1>2. CASE ~TransitionToRunning
  BY <1>2, CountersStay DEF NoIdleDispatch
<1>. QED BY <1>1, <1>2

\* From the test of the limit to the next dispatch the limit is not reached.
LEMMA LimitCheckedStep ==
    ASSUME Scanning, LimitChecked, [Next]_vars PROVE LimitChecked'
<1>1. options' = options
  BY OptionsStay
<1>2. CASE TransitionToRunning
  BY <1>2 DEF TransitionToRunning, LimitChecked
<1>3. CASE AfterDispatch
  <2>1. LimitReached' = LimitReached
    BY <1>1, <1>3 DEF AfterDispatch, OwesResult, LimitReached
  <2>. QED BY <1>3, <2>1 DEF AfterDispatch, OwesResult, LimitChecked
<1>4. CASE ~TransitionToRunning /\ ~AfterDispatch
  <2>1. global_dispatch' = global_dispatch
    BY <1>4, CountersStay
  <2>2. LimitReached' = LimitReached
    BY <1>1, <2>1 DEF LimitReached
  <2>3. /\ mpc' \in {"finished", "count", "draw", "pick", "decide", "dispatch"} =>
               mpc \in {"finished", "count", "draw", "pick", "decide", "dispatch"}
        /\ mpc' = "shutdown" => mpc = "shutdown"
    BY <1>4
       DEF Next, MainStep, WorkerStep, Terminated, CreateWorker, CreateWorkerFails,
           ConfigureCooperative, Lock, WaitUntilNoRunning, TaskShutdownAll,
           CheckFinished, CountTickets, DrawTicket, DrawTicketUnseeded, PickWinner,
           LogDecision, WriteSummary, JoinWorker, CleanList, SleepWhileReady,
           StartDispatch, Exit, RunUnit, EndDispatch, RunWithoutMode, Report,
           SpuriousWakeup, vars
  <2>. QED BY <2>2, <2>3 DEF LimitChecked
<1>. QED BY <1>2, <1>3, <1>4

\* At the start no dispatch has been made.
LEMMA InitLedger == Init => Ledger
<1>. SUFFICES ASSUME Init PROVE Ledger
  OBVIOUS
<1>1. /\ \A t \in Task : dispatches[t] = 0 /\ first_dispatch[t] = 0 /\ last_dispatch[t] = 0
      /\ global_dispatch = 1 /\ mpc = "create"
  BY DEF Init
<1>2. Dispatches = 0
  <2>1. dispatches \in [Task -> Int] /\ \A t \in Task : Share(dispatches, Task, t) = 0
    BY <1>1 DEF Init, Share
  <2>. QED BY <2>1, NoShares DEF Dispatches
<1>3. Numbered
  BY <1>1, <1>2 DEF Numbered, Framed
<1>4. NoIdleDispatch
  BY <1>1, WorkUnitsType DEF NoIdleDispatch
<1>. QED BY <1>1, <1>3, <1>4 DEF Ledger, LimitChecked

\* The books are in order throughout.
LEMMA LedgerHolds == Spec => []Ledger
<1>1. Scanning /\ OpenDispatch /\ WorkDone /\ Ledger /\ [Next]_vars => Ledger'
  BY NumberedStep, NoIdleDispatchStep, LimitCheckedStep DEF Ledger
<1>. QED BY <1>1, InitLedger, InductiveInvariant, OpenDispatchHolds, WorkDoneHolds, PTL
         DEF Spec

\* The counters of the dispatches agree with each other, with the number of the
\* next dispatch and with the first and last numbers of each task, for tasks
\* whose work adds up to less than the largest word (task.c:96-124,
\* scheduler.c:329-341).
THEOREM DispatchesAreAccounted ==
    ASSUME TotalOver(WorkUnits, Task) < UintMax
    PROVE  Spec => []DispatchesAccounted
<1>1. ASSUME Scanning, Ledger PROVE DispatchesAccounted
  <2>. TypeOK
    BY <1>1 DEF Scanning, Exclusion
  <2>1. /\ dispatches \in [Task -> Nat] /\ first_dispatch \in [Task -> Nat]
        /\ last_dispatch \in [Task -> Nat] /\ Dispatches \in Nat
    BY CounterTypes
  <2>2. Dispatches < UintMax
    <3>1. dispatches \in [Task -> Int] /\ WorkUnits \in [Task -> Nat]
      BY <2>1, WorkUnitsAssumption, UintMaxPositive
    <3>2. \A t \in Task : Share(dispatches, Task, t) <= Share(WorkUnits, Task, t)
      BY <1>1 DEF Ledger, NoIdleDispatch, Share
    <3>3. 1 \in Task /\ WorkUnits \in [Task -> Int]
      BY <3>1, TaskFacts
    <3>4. TotalOver(WorkUnits, Task) \in Nat
      BY <3>1, <3>3, ShareWithinTotal
    <3>5. TotalOver(dispatches, Task) <= TotalOver(WorkUnits, Task)
      BY <3>1, <3>2, <3>3, SumsCompare
    <3>. QED BY <2>1, <3>4, <3>5, UintMaxPositive DEF Dispatches
  <2>3. /\ global_dispatch = Dispatches + 1
        /\ \A t \in Task :
              /\ Framed(t)
              /\ \A u \in Task \ {t} : last_dispatch[t] = last_dispatch[u] => dispatches[t] = 0
    BY <1>1, <2>2 DEF Ledger, Numbered
  <2>4. ASSUME NEW t \in Task
        PROVE  /\ dispatches[t] = 0 <=> last_dispatch[t] = 0
               /\ dispatches[t] <= 1 <=> first_dispatch[t] = last_dispatch[t]
               /\ dispatches[t] > 0 =>
                     last_dispatch[t] - first_dispatch[t] + 1 \in dispatches[t] .. global_dispatch - 1
    <3>1. Framed(t) /\ dispatches[t] \in Nat /\ first_dispatch[t] \in Nat
          /\ last_dispatch[t] \in Nat /\ global_dispatch \in Nat
      BY <2>1, <2>3
    <3>. QED BY <3>1 DEF Framed
  <2>. QED BY <2>1, <2>3, <2>4 DEF DispatchesAccounted, Dispatches
<1>. QED BY <1>1, InductiveInvariant, LedgerHolds, PTL

-----------------------------------------------------------------------------
\* What the limit does.

\* A limit that the word of the dispatch number can pass is kept.
LimitKept ==
    0 < options.maxDispatches /\ options.maxDispatches < UintMax =>
        Dispatches <= options.maxDispatches

\* Only the shutdown retires a task that has work left.
ShortAfterShutdown ==
    \A t \in Task : state[t] = "FINISHED" /\ done[t] < WorkUnits[t] =>
        /\ mpc \in {"summary", "join", "clean", "returned0"}
        /\ options.maxDispatches > 0
        /\ Dispatches = options.maxDispatches

\* Every step keeps the number of dispatches within a limit below UintMax.
LEMMA LimitKeptStep ==
    ASSUME Scanning, OpenDispatch, WorkDone, Ledger, LimitKept, [Next]_vars
    PROVE  LimitKept'
<1>. TypeOK
  BY DEF Scanning, Exclusion
<1>1. options' = options
  BY OptionsStay
<1>2. CASE TransitionToRunning
  <2>. SUFFICES ASSUME 0 < options.maxDispatches, options.maxDispatches < UintMax
                PROVE  Dispatches' <= options.maxDispatches
    BY <1>1 DEF LimitKept
  <2>1. Dispatches' = Dispatches + 1
    BY <1>2, DispatchCounts
  <2>2. /\ options.maxDispatches \in Nat /\ Dispatches \in Nat
        /\ Dispatches <= options.maxDispatches /\ ~LimitReached
    BY <1>2, CounterTypes DEF LimitKept, Ledger, LimitChecked, TransitionToRunning
  <2>3. global_dispatch = Dispatches + 1
    BY <2>2, UintMaxPositive DEF Ledger, Numbered
  <2>. QED BY <2>1, <2>2, <2>3 DEF LimitReached
<1>3. CASE ~TransitionToRunning
  BY <1>1, <1>3, CountersStay DEF LimitKept, Dispatches
<1>. QED BY <1>2, <1>3

\* The shutdown of task.c:143-154 comes when the limit is used up.
LEMMA ShutdownAtLimit ==
    ASSUME Scanning, Ledger, LimitKept, LimitReached
    PROVE  options.maxDispatches > 0 /\ Dispatches = options.maxDispatches
<1>1. /\ options.maxDispatches \in Nat /\ Dispatches \in Nat /\ global_dispatch \in Word
  BY CounterTypes DEF Scanning, Exclusion, TypeOK
<1>2. global_dispatch <= UintMax /\ global_dispatch \in Nat
  BY <1>1, UintMaxPositive DEF Word
<1>3. options.maxDispatches > 0 /\ global_dispatch > options.maxDispatches
  BY DEF LimitReached
<1>4. Dispatches <= options.maxDispatches /\ Dispatches < UintMax
  BY <1>1, <1>2, <1>3, UintMaxPositive DEF LimitKept
<1>5. global_dispatch = Dispatches + 1
  BY <1>4 DEF Ledger, Numbered
<1>. QED BY <1>1, <1>3, <1>4, <1>5

\* Only a shutdown, which the limit causes, leaves a finished task short.
LEMMA ShortStep ==
    ASSUME Scanning, Ledger, LimitKept, ShortAfterShutdown, [Next]_vars
    PROVE  ShortAfterShutdown'
<1>. TypeOK
  BY DEF Scanning, Exclusion
<1>1. options' = options
  BY OptionsStay
<1>. SUFFICES ASSUME NEW t \in Task, state'[t] = "FINISHED", done'[t] < WorkUnits[t]
              PROVE  /\ mpc' \in {"summary", "join", "clean", "returned0"}
                     /\ options.maxDispatches > 0
                     /\ Dispatches' = options.maxDispatches
  BY <1>1 DEF ShortAfterShutdown
<1>0. done[t] \in Nat /\ done'[t] \in Nat /\ WorkUnits[t] \in Nat
  <2>1. TypeOK'
    BY NextType DEF Scanning, Exclusion
  <2>. QED BY <2>1, WorkUnitsType DEF TypeOK
<1>2. CASE TaskShutdownAll
  <2>1. LimitReached
    BY <1>2 DEF TaskShutdownAll, Ledger, LimitChecked
  <2>2. Dispatches' = Dispatches
    BY <1>2 DEF TaskShutdownAll, Dispatches
  <2>. QED BY <1>2, <2>1, <2>2, ShutdownAtLimit DEF TaskShutdownAll
<1>3. CASE state[t] = "FINISHED" /\ done[t] < WorkUnits[t]
  <2>1. /\ mpc \in {"summary", "join", "clean", "returned0"}
        /\ options.maxDispatches > 0 /\ Dispatches = options.maxDispatches
    BY <1>3 DEF ShortAfterShutdown
  <2>2. mpc' \in {"summary", "join", "clean", "returned0"}
    BY <2>1
       DEF Next, MainStep, WorkerStep, Terminated, CreateWorker, CreateWorkerFails,
           ConfigureCooperative, Lock, WaitUntilNoRunning, AfterDispatch, OwesResult,
           TaskShutdownAll, CheckFinished, CountTickets, DrawTicket,
           DrawTicketUnseeded, PickWinner, LogDecision, TransitionToRunning,
           WriteSummary, JoinWorker, CleanList, SleepWhileReady, StartDispatch, Exit,
           RunUnit, EndDispatch, RunWithoutMode, Report, SpuriousWakeup, vars
  <2>3. ~TransitionToRunning
    BY <2>1 DEF TransitionToRunning
  <2>4. Dispatches' = Dispatches
    BY <2>3, CountersStay DEF Dispatches
  <2>. QED BY <2>1, <2>2, <2>4
<1>4. CASE state[t] # "FINISHED" /\ ~TaskShutdownAll
  <2>1. ASSUME NEW u \in Task, Report(u) PROVE FALSE
    <3>1. done' = done /\ state' = [state EXCEPT ![u] = StateAfterWork(u)]
      BY <2>1 DEF Report
    <3>2. t = u /\ StateAfterWork(t) = "FINISHED"
      BY <1>4, <3>1 DEF TypeOK
    <3>. QED BY <1>0, <3>1, <3>2 DEF StateAfterWork
  <2>2. ASSUME NEW u \in Task, RunnerWorks(u), ~Report(u) PROVE state' = state
    BY <2>2 DEF RunnerWorks, StartDispatch, RunUnit, EndDispatch, RunWithoutMode, taskVars
  <2>3. state'[t] # "FINISHED"
    BY <1>4, <2>1, <2>2, StepKinds
       DEF Quiet, AfterDispatch, OwesResult, LogDecision, TransitionToRunning, TypeOK, taskVars
  <2>. QED BY <2>3
<1>5. CASE done[t] >= WorkUnits[t]
  <2>1. ASSUME NEW u \in Task, RunnerWorks(u) PROVE done'[t] >= done[t]
    <3>1. done' \in {done, [done EXCEPT ![u] = done[u] + 1]}
      BY <2>1 DEF RunnerWorks, StartDispatch, RunUnit, EndDispatch, RunWithoutMode,
                  Report, taskVars
    <3>2. done' = done \/ done' = [done EXCEPT ![u] = done[u] + 1]
      BY <3>1
    <3>3. done \in [Task -> Nat]
      BY DEF TypeOK
    <3>. QED BY <1>0, <3>2, <3>3
  <2>2. done' = done \/ \E u \in Task : RunnerWorks(u)
    BY StepKinds
       DEF Quiet, AfterDispatch, OwesResult, TaskShutdownAll, LogDecision, TransitionToRunning, taskVars
  <2>3. done'[t] >= done[t]
    BY <1>0, <2>1, <2>2
  <2>. QED BY <1>0, <1>5, <2>3
<1>. QED BY <1>0, <1>2, <1>3, <1>4, <1>5

\* The two facts about the limit hold throughout.
LEMMA LimitHolds == Spec => [](LimitKept /\ ShortAfterShutdown)
<1>1. Init => LimitKept /\ ShortAfterShutdown
  <2>. SUFFICES ASSUME Init PROVE LimitKept /\ ShortAfterShutdown
    OBVIOUS
  <2>1. Dispatches = 0
    <3>1. dispatches \in [Task -> Int] /\ \A t \in Task : Share(dispatches, Task, t) = 0
      BY DEF Init, Share
    <3>. QED BY <3>1, NoShares DEF Dispatches
  <2>2. options.maxDispatches \in Nat
    BY InitType, CounterTypes
  <2>. QED BY <2>1, <2>2 DEF Init, LimitKept, ShortAfterShutdown
<1>2. Scanning /\ OpenDispatch /\ WorkDone /\ Ledger /\ LimitKept /\ ShortAfterShutdown
        /\ [Next]_vars => (LimitKept /\ ShortAfterShutdown)'
  BY LimitKeptStep, ShortStep
<1>. QED BY <1>1, <1>2, InductiveInvariant, OpenDispatchHolds, WorkDoneHolds, LedgerHolds,
            PTL DEF Spec

\* No run makes more dispatches than --max-dispatches asks for, if that is not
\* the largest word, which the dispatch number cannot pass (scheduler.c:231-236).
THEOREM LimitIsKept ==
    Spec => [](options.maxDispatches < UintMax => DispatchesWithinLimit)
<1>1. LimitKept => (options.maxDispatches < UintMax => DispatchesWithinLimit)
  BY DEF LimitKept, DispatchesWithinLimit, Dispatches
<1>. QED BY <1>1, LimitHolds, PTL

\* A task ends short of its work only after exactly as many dispatches as the
\* limit allows (scheduler.c:231-236, task.c:143-154).
THEOREM OnlyTheLimitCutsShort == Spec => []FinishedShortOnlyByLimit
<1>1. ShortAfterShutdown => FinishedShortOnlyByLimit
  BY DEF ShortAfterShutdown, FinishedShortOnlyByLimit, Dispatches
<1>. QED BY <1>1, LimitHolds, PTL

-----------------------------------------------------------------------------
\* The tickets.

\* A task has its own tickets until its first dispatch, then those that the
\* compensation of its last dispatch has left it, once that is settled.
TicketsSettled ==
    \A t \in Task :
        IF dispatches[t] = 0 THEN effective_tickets[t] = Tickets[t]
        ELSE \/ pending /\ t = winner
             \/ effective_tickets[t] = TicketsAfter(t, options.compensation)

\* Nobody is ever without a ticket.
HasTickets == \A t \in Task : effective_tickets[t] >= 1

\* Only the settlement after a dispatch touches the tickets.
LEMMA TicketsStay ==
    ASSUME Scanning, [Next]_vars, ~AfterDispatch
    PROVE  effective_tickets' = effective_tickets
BY StepKinds
   DEF Quiet, TaskShutdownAll, LogDecision, TransitionToRunning, RunnerWorks,
       StartDispatch, RunUnit, EndDispatch, RunWithoutMode, Report, taskVars

\* Every step keeps the tickets those of the last settled dispatch.
LEMMA TicketsSettledStep ==
    ASSUME Scanning, OpenDispatch, WorkDone, TicketsSettled, HasTickets, [Next]_vars
    PROVE  TicketsSettled' /\ HasTickets'
<1>. TypeOK
  BY DEF Scanning, Exclusion
<1>1. options' = options
  BY OptionsStay
<1>2. CASE AfterDispatch
  <2>1. /\ dispatches' = dispatches /\ ~pending' /\ winner' = winner
        /\ pending => /\ winner \in Task
                      /\ effective_tickets' = [effective_tickets EXCEPT
                            ![winner] = TicketsAfter(winner, options.compensation)]
        /\ ~pending => effective_tickets' = effective_tickets
    BY <1>2 DEF AfterDispatch, OwesResult, PendingAfterLog, taskVars, drawVars, Scanning, Exclusion,
                InScope
  <2>2. ASSUME pending PROVE dispatches[winner] # 0
    <3>1. log = DecisionLine(pending_number) /\ winner \in Task
      BY <2>1, <2>2 DEF OpenDispatch, LastLine
    <3>2. state[winner] # "RUNNING" /\ done[winner] > units_before
      BY <1>2, <2>2, <3>1 DEF AfterDispatch, OwesResult, Scanning, Exclusion, SoleRunner,
                              OpenDispatch, WorkSinceDecision
    <3>3. done[winner] = UpToWork(winner, Allotted(winner, dispatches[winner]))
      BY <3>1, <3>2 DEF WorkDone, WorkByDispatch
    <3>4. DispatchUnits(winner) \in Nat \ {0} /\ units_before \in Nat
      BY <3>1, DispatchHasUnits DEF TypeOK
    <3>5. dispatches[winner] = 0 => Allotted(winner, dispatches[winner]) = 0
      BY <3>4, AllotmentFacts DEF Allotted
    <3>. QED BY <3>1, <3>2, <3>3, <3>4, <3>5, WorkUnitsType DEF UpToWork
  <2>3. ASSUME NEW t \in Task
        PROVE  /\ IF dispatches'[t] = 0 THEN effective_tickets'[t] = Tickets[t]
                  ELSE effective_tickets'[t] = TicketsAfter(t, options.compensation)
               /\ effective_tickets'[t] >= 1
    <3>1. CASE pending /\ t = winner
      BY <2>1, <2>2, <3>1, SomeTickets DEF TypeOK
    <3>2. CASE ~(pending /\ t = winner)
      <4>1. effective_tickets'[t] = effective_tickets[t]
        BY <2>1, <3>2 DEF TypeOK
      <4>. QED BY <2>1, <3>2, <4>1 DEF TicketsSettled, HasTickets
    <3>. QED BY <3>1, <3>2
  <2>. QED BY <1>1, <2>1, <2>3 DEF TicketsSettled, HasTickets
<1>3. CASE TransitionToRunning
  <2>1. /\ effective_tickets' = effective_tickets /\ pending' /\ winner' = winner /\ ~pending
    BY <1>3 DEF TransitionToRunning, Scanning, Exclusion, InScope
  <2>2. /\ dispatches' = [dispatches EXCEPT ![winner] = dispatches[winner] + 1]
    BY <1>3, DispatchCounts
  <2>3. ASSUME NEW t \in Task, t # winner PROVE dispatches'[t] = dispatches[t]
    BY <2>2, <2>3 DEF TypeOK
  <2>4. ASSUME NEW t \in Task, t = winner PROVE dispatches'[t] # 0
    <3>1. dispatches[t] \in Nat /\ dispatches'[t] = dispatches[t] + 1
      BY <2>2, <2>4, CounterTypes
    <3>. QED BY <3>1
  <2>. QED BY <1>1, <2>1, <2>3, <2>4 DEF TicketsSettled, HasTickets
<1>4. CASE ~AfterDispatch /\ ~TransitionToRunning
  <2>1. UNCHANGED <<dispatches, effective_tickets>>
    BY <1>4, CountersStay, TicketsStay
  <2>2. pending' = pending /\ (pending => winner' = winner)
    BY <1>4, StepKinds
       DEF Quiet, TaskShutdownAll, LogDecision, RunnerWorks, StartDispatch, RunUnit,
           EndDispatch, RunWithoutMode, Report, loopVars, drawVars
  <2>. QED BY <1>1, <2>1, <2>2 DEF TicketsSettled, HasTickets
<1>. QED BY <1>2, <1>3, <1>4

\* The two facts about tickets hold throughout.
LEMMA TicketsHold == Spec => [](TicketsSettled /\ HasTickets)
<1>1. Init => TicketsSettled /\ HasTickets
  <2>. SUFFICES ASSUME Init PROVE TicketsSettled /\ HasTickets
    OBVIOUS
  <2>1. effective_tickets = Tickets /\ \A t \in Task : dispatches[t] = 0
    BY DEF Init
  <2>. QED BY <2>1, TicketsAssumption, UintMaxPositive DEF TicketsSettled, HasTickets
<1>2. Scanning /\ OpenDispatch /\ WorkDone /\ TicketsSettled /\ HasTickets /\ [Next]_vars
        => (TicketsSettled /\ HasTickets)'
  BY TicketsSettledStep
<1>. QED BY <1>1, <1>2, InductiveInvariant, OpenDispatchHolds, WorkDoneHolds, PTL DEF Spec

\* At every draw each task has its own tickets, or as many as make up for its
\* yield, whatever the widths of floats, doubles and words: the error is half a
\* ticket and what the float of the yield loses, unless the boost is clamped to
\* a word (task.c:219-227, scheduler.c:205-228).
THEOREM CompensationStaysCurrent == Spec => []CompensationIsCurrent
<1>1. ASSUME Scanning, TicketsSettled PROVE CompensationIsCurrent
  <2>. SUFFICES ASSUME mpc \in {"finished", "count", "draw", "pick", "decide", "dispatch"},
                       NEW t \in Task
                PROVE  IF dispatches[t] > 0 /\ options.compensation /\ YieldPercent[t] < 100
                       THEN FairlyBoosted(effective_tickets[t], Tickets[t], YieldPercent[t])
                       ELSE effective_tickets[t] = Tickets[t]
    BY DEF CompensationIsCurrent
  <2>1. ~pending
    BY <1>1 DEF Scanning, Exclusion, InScope
  <2>2. IF dispatches[t] = 0 THEN effective_tickets[t] = Tickets[t]
        ELSE effective_tickets[t] = TicketsAfter(t, options.compensation)
    BY <1>1, <2>1 DEF TicketsSettled
  <2>3. dispatches[t] \in Nat
    BY <1>1, CounterTypes DEF Scanning, Exclusion
  <2>4. CASE dispatches[t] > 0 /\ options.compensation /\ YieldPercent[t] < 100
    <3>1. effective_tickets[t] = Boost(Tickets[t], YieldPercent[t])
      BY <2>2, <2>3, <2>4 DEF TicketsAfter, BoostedTickets
    <3>2. Tickets[t] \in 1..UintMax /\ YieldPercent[t] \in 10..100
      BY TicketsAssumption, YieldAssumption
    <3>3. \A k \in 1..UintMax, y \in 10..100 : FairlyBoosted(Boost(k, y), k, y)
      BY BoostFair, Zenon
    <3>. QED BY <2>4, <3>1, <3>2, <3>3
  <2>5. CASE ~(dispatches[t] > 0 /\ options.compensation /\ YieldPercent[t] < 100)
    <3>1. effective_tickets[t] = Tickets[t]
      BY <2>2, <2>3, <2>5 DEF TicketsAfter
    <3>. QED BY <2>5, <3>1
  <2>. QED BY <2>4, <2>5
<1>. QED BY <1>1, InductiveInvariant, TicketsHold, PTL

-----------------------------------------------------------------------------
\* The draw.

\* The tickets of the tasks that take part in a draw.
LEMMA ShareIsWeight ==
    ASSUME TypeOK, NEW t \in Task
    PROVE  /\ effective_tickets \in [Task -> Nat]
           /\ Weight(t) = Share(effective_tickets, Ready, t)
BY WordFacts DEF TypeOK, Weight, Share, Ready, IsEligible

\* What the scans of the main thread compute are the prefix sums of those
\* tickets (scheduler.c:69-114).
LEMMA ScanSums ==
    ASSUME Scanning, mpc \in {"draw", "pick"}
    PROVE  /\ effective_tickets \in [Task -> Nat] /\ Ready \in SUBSET Task
           /\ active_tickets = TotalOver(effective_tickets, Ready)
           /\ acc = PrefixSums(effective_tickets, Ready)[cur - 1]
<1>. TypeOK
  BY DEF Scanning, Exclusion
<1>1. effective_tickets \in [Task -> Nat]
  BY WordFacts DEF TypeOK
<1>2. PICK p : /\ IsPrefixSums(p, NumTasks)
               /\ active_tickets = p[NumTasks]
               /\ acc = p[cur - 1]
  BY DEF Scanning, Counted
<1>3. \A k \in 1..NumTasks : p[k] = p[k - 1] + Share(effective_tickets, Ready, k)
  BY <1>2, ShareIsWeight DEF IsPrefixSums, Task
<1>4. \A n \in 0..NumTasks : p[n] = PrefixSums(effective_tickets, Ready)[n]
  <2>1. p[0] = 0 /\ NumTasks \in 0..NumTasks /\ effective_tickets \in [Task -> Int]
    BY <1>1, <1>2, NumTasksAssumption DEF IsPrefixSums
  <2>. QED BY <1>3, <2>1, SameSharesSameSums
<1>5. cur - 1 \in 0..NumTasks /\ NumTasks \in 0..NumTasks
  BY NumTasksAssumption DEF TypeOK, Task
<1>. QED BY <1>1, <1>2, <1>4, <1>5 DEF TotalOver, Ready

\* Every READY task can win the draw, as long as the active tickets can be
\* numbered by a word (scheduler.c:57-114).
THEOREM EveryReadyTaskHasAChance ==
    Spec => [](active_tickets <= UintMax => EveryReadyTaskCanWin)
<1>1. ASSUME Scanning, HasTickets, active_tickets <= UintMax PROVE EveryReadyTaskCanWin
  <2>. SUFFICES ASSUME mpc = "draw", NEW t \in Ready
                PROVE  \E x \in Word \ {0} :
                          WinnerOf(effective_tickets, Ready,
                              WinningTicket(x, TotalOver(effective_tickets, Ready))) = t
    BY DEF EveryReadyTaskCanWin, NobodyIsLeftOut
  <2>. DEFINE f == effective_tickets
              sums == PrefixSums(f, Ready)
  <2>1. f \in [Task -> Nat] /\ Ready \in SUBSET Task /\ active_tickets = TotalOver(f, Ready)
    BY <1>1, ScanSums
  <2>2. t \in Task /\ f \in [Task -> Int] /\ f[t] \in Nat /\ f[t] >= 1
    BY <1>1, <2>1 DEF HasTickets
  <2>. HIDE DEF f
  <2>3. /\ t - 1 \in 0..NumTasks /\ t \in 0..NumTasks
        /\ sums[t] = sums[t - 1] + Share(f, Ready, t)
    BY <2>2, SumStep
  <2>4. sums[t] \in Nat /\ sums[t - 1] \in Nat
    BY <2>1, <2>3, SumsGrow
  <2>5. sums[t] <= TotalOver(f, Ready) /\ TotalOver(f, Ready) \in Nat
    BY <2>1, <2>2, ShareWithinTotal
  <2>. HIDE DEF sums
  <2>6. sums[t] = sums[t - 1] + f[t]
    BY <2>3 DEF Share
  <2>7. sums[t] \in 1..TotalOver(f, Ready) /\ TotalOver(f, Ready) \in 1..UintMax
    BY <1>1, <2>1, <2>2, <2>4, <2>5, <2>6, UintMaxPositive
  <2>8. PICK x \in Word \ {0} : WinningTicket(x, TotalOver(f, Ready)) = sums[t]
    BY <2>7, EveryTicketIsDrawn
  <2>9. sums[t - 1] < sums[t] /\ sums[t] <= sums[t]
    BY <2>2, <2>4, <2>6
  <2>10. WinnerOf(f, Ready, sums[t]) = t
    BY <2>1, <2>4, <2>9, WinnerByPrefix DEF sums
  <2>. QED BY <2>8, <2>10 DEF f
<1>. QED BY <1>1, InductiveInvariant, TicketsHold, PTL

-----------------------------------------------------------------------------
\* The threads implement the sequential loop.

\* The operators that SequentialLottery takes from Floats and Lottery are those of
\* the scheduler: the roundings,
LEMMA SameRounding == Sequential!Rounded = Rounded /\ Sequential!Pow2 = Pow2
BY DEF Sequential!Rounded, Rounded, Sequential!Exponents, Exponents,
       Sequential!Fills, Fills, Sequential!NearestEven, NearestEven,
       Sequential!Fraction, Fraction, Sequential!Pow2, Pow2

\* The numbers.
LEMMA SameFloats ==
    ASSUME NEW a, NEW b, NEW n
    PROVE  /\ Sequential!RoundTo(n, a, b) = RoundTo(n, a, b)
           /\ Sequential!Fraction(a, b) = Fraction(a, b)
           /\ Sequential!UintMax = UintMax
           /\ Sequential!FloatExact = FloatExact
BY SameRounding, Zenon
   DEF Sequential!RoundTo, RoundTo, Sequential!Fraction, Fraction,
       Sequential!UintMax, UintMax, Sequential!FloatExact, FloatExact

\* The operations on them.
LEMMA SameOperations ==
    ASSUME NEW a, NEW b, NEW n
    PROVE  /\ Sequential!Truncate(a) = Truncate(a)
           /\ Sequential!ToUint(a) = ToUint(a)
           /\ Sequential!AtLeastOne(a) = AtLeastOne(a)
           /\ Sequential!ToFloat(a) = ToFloat(a)
           /\ Sequential!YieldFraction(a) = YieldFraction(a)
           /\ Sequential!Times(a, b) = Times(a, b)
           /\ Sequential!Over(n, a, b) = Over(n, a, b)
           /\ Sequential!Ceil(a) = Ceil(a)
           /\ Sequential!Round(a) = Round(a)
<1>1. \A x, y, m : /\ Sequential!RoundTo(m, x, y) = RoundTo(m, x, y)
                   /\ Sequential!Fraction(x, y) = Fraction(x, y)
                   /\ Sequential!UintMax = UintMax
                   /\ Sequential!FloatExact = FloatExact
  BY SameFloats, Zenon
<1>2. Sequential!Truncate(a) = Truncate(a) /\ Sequential!ToUint(a) = ToUint(a)
  BY <1>1, Zenon DEF Sequential!Truncate, Truncate, Sequential!ToUint, ToUint
<1>3. Sequential!ToFloat(a) = ToFloat(a)
  BY <1>1, Zenon DEF Sequential!ToFloat, ToFloat
<1>4. Sequential!YieldFraction(a) = YieldFraction(a)
  BY <1>1, Zenon DEF Sequential!YieldFraction, YieldFraction
<1>5. Sequential!Times(a, b) = Times(a, b) /\ Sequential!Over(n, a, b) = Over(n, a, b)
  BY <1>1, Zenon DEF Sequential!Times, Times, Sequential!Over, Over
<1>. QED BY <1>2, <1>3, <1>4, <1>5
         DEF Sequential!AtLeastOne, AtLeastOne, Sequential!Ceil, Ceil,
             Sequential!Round, Round

\* The functions of the scheduler that use them.
LEMMA SameSizes ==
    ASSUME NEW a, NEW b
    PROVE  /\ Sequential!Truncate(a) = Truncate(a)
           /\ Sequential!SliceSize(a, b) = SliceSize(a, b)
           /\ Sequential!EarlyLimits(a, b) = EarlyLimits(a, b)
           /\ Sequential!Boost(a, b) = Boost(a, b)
<1>1. \A x, y, m : /\ Sequential!Truncate(x) = Truncate(x)
                   /\ Sequential!ToUint(x) = ToUint(x)
                   /\ Sequential!AtLeastOne(x) = AtLeastOne(x)
                   /\ Sequential!ToFloat(x) = ToFloat(x)
                   /\ Sequential!YieldFraction(x) = YieldFraction(x)
                   /\ Sequential!Times(x, y) = Times(x, y)
                   /\ Sequential!Over(m, x, y) = Over(m, x, y)
                   /\ Sequential!Ceil(x) = Ceil(x)
                   /\ Sequential!Round(x) = Round(x)
  BY SameOperations, Zenon
<1>2. \A x, y, m : /\ Sequential!Fraction(x, y) = Fraction(x, y)
                   /\ Sequential!UintMax = UintMax
  BY SameFloats, Zenon
<1>3. Sequential!SliceSize(a, b) = SliceSize(a, b)
  BY <1>1, <1>2, Zenon DEF Sequential!SliceSize, SliceSize
<1>4. Sequential!EarlyLimits(a, b) = EarlyLimits(a, b)
  BY <1>1, Zenon DEF Sequential!EarlyLimits, EarlyLimits, Sequential!AtLeastOne, AtLeastOne
<1>5. Sequential!Boost(a, b) = Boost(a, b)
  BY <1>1, <1>2, Zenon DEF Sequential!Boost, Boost
<1>. QED BY <1>1, <1>3, <1>4, <1>5

\* What the loop uses of Lottery.
LEMMA SameArithmetic ==
    ASSUME NEW n, NEW t, NEW y, NEW b
    PROVE  /\ Sequential!Task = Task /\ Sequential!NoTask = NoTask
           /\ Sequential!Inc(n) = Inc(n)
           /\ Sequential!EarlyLimit = EarlyLimit
           /\ Sequential!CooperativeSlice = CooperativeSlice
           /\ Sequential!TicketsAfter(t, b) = TicketsAfter(t, b)
           /\ Sequential!WinningTicket(n, y) = WinningTicket(n, y)
<1>1. \A v, w : /\ Sequential!Truncate(v) = Truncate(v)
                /\ Sequential!SliceSize(v, w) = SliceSize(v, w)
                /\ Sequential!EarlyLimits(v, w) = EarlyLimits(v, w)
                /\ Sequential!Boost(v, w) = Boost(v, w)
  BY SameSizes, Zenon
<1>2. Sequential!Task = Task /\ Sequential!NoTask = NoTask
  BY DEF Sequential!Task, Task, Sequential!NoTask, NoTask
<1>3. Sequential!Word = Word
  BY SameFloats DEF Sequential!Word, Word
<1>4. Sequential!EarlyLimit = EarlyLimit
  <2>1. \A v, w : (CHOOSE limit \in Sequential!EarlyLimits(v, w) : TRUE)
                  = CHOOSE limit \in EarlyLimits(v, w) : TRUE
    BY <1>1, Zenon
  <2>2. \A v \in Task :
          [u \in Word |->
             CHOOSE limit \in Sequential!EarlyLimits(u, YieldPercent[v]) : TRUE]
          = [u \in Word |-> CHOOSE limit \in EarlyLimits(u, YieldPercent[v]) : TRUE]
    BY <2>1
  <2>. QED BY <1>2, <1>3, <2>2, Zenon DEF Sequential!EarlyLimit, EarlyLimit
<1>5. Sequential!CooperativeSlice = CooperativeSlice
  <2>1. \A v \in Task : [p \in 0..100 |-> Sequential!SliceSize(WorkUnits[v], p)]
              = [p \in 0..100 |-> SliceSize(WorkUnits[v], p)]
    BY <1>1, Zenon
  <2>. QED BY <1>2, <2>1, Zenon DEF Sequential!CooperativeSlice, CooperativeSlice
<1>6. Sequential!BoostedTickets = BoostedTickets
  BY <1>1, <1>2, Zenon DEF Sequential!BoostedTickets, BoostedTickets
<1>7. Sequential!TicketsAfter(t, b) = TicketsAfter(t, b)
  BY <1>6, Zenon DEF Sequential!TicketsAfter, TicketsAfter
<1>. QED BY <1>1, <1>2, <1>4, <1>5, <1>7, Zenon
         DEF Sequential!Inc, Inc, Sequential!WinningTicket, WinningTicket

\* The sums and the winner of the sequential loop are those of the threads.
LEMMA SameWinner ==
    ASSUME NEW f, NEW S, NEW k
    PROVE  /\ Sequential!TotalOver(f, S) = TotalOver(f, S)
           /\ Sequential!WinnerOf(f, S, k) = WinnerOf(f, S, k)
<1>1. Sequential!PrefixSums(f, S) = PrefixSums(f, S)
  BY DEF Sequential!PrefixSums, PrefixSums
<1>. QED BY <1>1
         DEF Sequential!TotalOver, TotalOver, Sequential!WinnerOf, WinnerOf,
             Sequential!NoTask, NoTask

\* The slices are those of the mode once the loop begins
\* (scheduler.c:130-138).
SlicesSet ==
    /\ mpc = "create" => \A t \in Task : slice_size[t] = 0
    /\ mpc = "configure" =>
          /\ options.mode = "cooperative"
          /\ \A t \in Task : slice_size[t] =
                IF t < cur THEN CooperativeSlice[t][options.slicePercent] ELSE 0
    /\ mpc \notin {"create", "configure", "returned1"} =>
          \A t \in Task : slice_size[t] =
             IF options.mode = "cooperative" THEN CooperativeSlice[t][options.slicePercent]
             ELSE 0

\* A task is the last of the list or has another one after it.
LEMMA LastOrNot == \A t \in Task : t < NumTasks \/ t = NumTasks
BY TaskFacts

\* Every step keeps the slices set once the configuration is over.
LEMMA SlicesStep ==
    ASSUME Scanning, SlicesSet, [Next]_vars PROVE SlicesSet'
<1>. USE TaskFacts DEF Scanning, Exclusion, TypeOK, ScannedSoFar, SlicesSet
<1>1. options' = options
  BY OptionsStay
<1>2. CASE CreateWorker
  BY <1>1, <1>2 DEF CreateWorker, taskVars
<1>3. CASE ConfigureCooperative
  <2>1. slice_size' = [slice_size EXCEPT
                         ![cur] = CooperativeSlice[cur][options.slicePercent]]
    BY <1>3 DEF ConfigureCooperative
  <2>2. ASSUME NEW t \in Task
        PROVE  slice_size'[t] = IF t <= cur THEN CooperativeSlice[t][options.slicePercent]
                                ELSE 0
    BY <1>3, <2>1 DEF ConfigureCooperative
  <2>3. CASE cur < NumTasks
    <3>1. mpc' = "configure" /\ cur' = cur + 1 /\ options.mode = "cooperative"
      BY <1>3, <2>3 DEF ConfigureCooperative, HasNext
    <3>2. \A t \in Task : t < cur' <=> t <= cur
      BY <3>1
    <3>. QED BY <1>1, <2>2, <3>1, <3>2
  <2>4. CASE cur = NumTasks
    <3>1. mpc' = "wait" /\ options.mode = "cooperative"
      BY <1>3, <2>4 DEF ConfigureCooperative, HasNext
    <3>2. \A t \in Task : t <= cur
      BY <2>4
    <3>3. \A t \in Task : slice_size'[t] = CooperativeSlice[t][options.slicePercent]
      BY <2>2, <3>2
    <3>4. \A t \in Task : slice_size'[t] =
             IF options'.mode = "cooperative" THEN CooperativeSlice[t][options'.slicePercent]
             ELSE 0
      BY <1>1, <3>1, <3>3
    <3>. QED BY <3>1, <3>4
  <2>5. cur < NumTasks \/ cur = NumTasks
    <3>1. cur \in Task
      OBVIOUS
    <3>. QED BY ONLY <3>1, LastOrNot
  <2>. QED BY <2>3, <2>4, <2>5, Zenon
<1>4. CASE ~CreateWorker /\ ~ConfigureCooperative
  <2>1. /\ slice_size' = slice_size
        /\ mpc' \in {"create", "configure"} => mpc' = mpc
        /\ mpc = "configure" => mpc' = mpc /\ cur' = cur
        /\ mpc' = "create" \/ mpc # "create" \/ mpc' = "returned1"
        /\ mpc = "returned1" => mpc' = mpc
    BY <1>4
       DEF Next, MainStep, WorkerStep, Terminated, CreateWorkerFails, Lock,
           WaitUntilNoRunning, AfterDispatch, OwesResult, TaskShutdownAll, CheckFinished,
           CountTickets, DrawTicket, DrawTicketUnseeded, PickWinner, LogDecision,
           TransitionToRunning, WriteSummary, JoinWorker, CleanList, SleepWhileReady,
           StartDispatch, Exit, RunUnit, EndDispatch, RunWithoutMode, Report,
           SpuriousWakeup, vars, taskVars, scanVars, AtLockPoint, Alive
  <2>. QED BY <1>1, <2>1
<1>. QED BY <1>2, <1>3, <1>4

\* The slices are set from the configuration on.
LEMMA SlicesHold == Spec => []SlicesSet
<1>1. Init => SlicesSet
  BY DEF Init, SlicesSet
<1>2. Scanning /\ SlicesSet /\ [Next]_vars => SlicesSet'
  BY SlicesStep
<1>. QED BY <1>1, <1>2, InductiveInvariant, PTL DEF Spec

\* What a dispatch allots is what the sequential loop does.
LEMMA SameUnits ==
    ASSUME TypeOK, SlicesSet, mpc \notin {"create", "configure", "returned1"}, NEW t \in Task
    PROVE  Sequential!Units(t) = DispatchUnits(t)
<1>1. CooperativeSlice[t][options.slicePercent] > 0
  <2>1. options.slicePercent \in 0..100
    BY OptionTypes
  <2>2. PICK slice \in Word \ {0} : slice = CooperativeSlice[t][options.slicePercent]
    BY <2>1, CooperativeSliceType
  <2>3. slice > 0
    BY WordFacts
  <2>. QED BY <2>2, <2>3
<1>2. slice_size[t] =
        IF options.mode = "cooperative" THEN CooperativeSlice[t][options.slicePercent] ELSE 0
  BY DEF SlicesSet
<1>. QED BY <1>1, <1>2, SameArithmetic DEF Sequential!Units, DispatchUnits, UnitsPerDispatch

\* The scan has not passed the winner (scheduler.c:89-114).
NotPassed ==
    mpc = "pick" =>
        \A t \in Ready : t < cur => PrefixSums(effective_tickets, Ready)[t] < ticket

\* Every step keeps the ticket above the sums of the nodes already searched.
LEMMA NotPassedStep ==
    ASSUME Scanning, NotPassed, [Next]_vars PROVE NotPassed'
<1>. TypeOK
  BY DEF Scanning, Exclusion
<1>. SUFFICES ASSUME mpc' = "pick" PROVE NotPassed'
  BY DEF NotPassed
<1>1. CASE DrawTicket \/ DrawTicketUnseeded
  <2>1. cur' = 1
    BY <1>1 DEF DrawTicket, DrawTicketUnseeded, Scanning, ScannedSoFar, scanVars
  <2>2. Ready' \subseteq Task
    BY DEF Ready
  <2>. QED BY <2>1, <2>2, TaskFacts DEF NotPassed
<1>2. CASE PickWinner
  <2>1. mpc = "pick" /\ cur' = cur + 1 /\ ticket' = ticket
    BY <1>2 DEF PickWinner
  <2>2. state' = state /\ effective_tickets' = effective_tickets
    BY <2>1, WeightsAreStable DEF Scanning
  <2>3. Ready' = Ready
    BY <2>2 DEF Ready
  <2>4. cur \in Ready => PrefixSums(effective_tickets, Ready)[cur] < ticket
    <3>1. /\ effective_tickets \in [Task -> Nat] /\ effective_tickets \in [Task -> Int]
          /\ acc = PrefixSums(effective_tickets, Ready)[cur - 1] /\ cur \in Task
      BY <2>1, ScanSums DEF TypeOK
    <3>2. PrefixSums(effective_tickets, Ready)[cur]
            = acc + Share(effective_tickets, Ready, cur)
      BY <3>1, SumStep
    <3>3. /\ acc + Share(effective_tickets, Ready, cur) \in Nat
          /\ Share(effective_tickets, Ready, cur) =
                (IF IsEligible(cur) THEN effective_tickets[cur] ELSE 0)
      BY ScanSumType, <3>1 DEF Share, Ready, IsEligible
    <3>4. cur \in Ready => ~(acc + Share(effective_tickets, Ready, cur) >= ticket)
      BY <1>2, <3>3 DEF PickWinner, Covers, Ready, IsEligible
    <3>5. ticket \in Nat
      BY WordFacts DEF TypeOK
    <3>. QED BY <3>2, <3>3, <3>4, <3>5
  <2>5. ASSUME NEW t \in Ready, t < cur + 1
        PROVE  PrefixSums(effective_tickets, Ready)[t] < ticket
    <3>1. t < cur \/ t = cur
      BY <2>5, TaskFacts DEF Ready, TypeOK
    <3>. QED BY <2>1, <2>4, <3>1 DEF NotPassed
  <2>. QED BY <2>1, <2>2, <2>3, <2>5 DEF NotPassed
<1>3. CASE ~DrawTicket /\ ~DrawTicketUnseeded /\ ~PickWinner
  <2>1. mpc = "pick" /\ UNCHANGED <<cur, ticket>>
    BY <1>3
       DEF Next, MainStep, WorkerStep, Terminated, CreateWorker, CreateWorkerFails,
           ConfigureCooperative, Lock, WaitUntilNoRunning, AfterDispatch, OwesResult,
           TaskShutdownAll, CheckFinished, CountTickets, LogDecision,
           TransitionToRunning, WriteSummary, JoinWorker, CleanList, SleepWhileReady,
           StartDispatch, Exit, RunUnit, EndDispatch, RunWithoutMode, Report,
           SpuriousWakeup, vars, scanVars, drawVars
  <2>2. state' = state /\ effective_tickets' = effective_tickets
    BY <2>1, WeightsAreStable DEF Scanning
  <2>3. Ready' = Ready
    BY <2>2 DEF Ready
  <2>. QED BY <2>1, <2>2, <2>3 DEF NotPassed
<1>. QED BY <1>1, <1>2, <1>3

\* No node that the search has left behind covers the ticket.
LEMMA NotPassedHolds == Spec => []NotPassed
<1>1. Init => NotPassed
  BY DEF Init, NotPassed
<1>2. Scanning /\ NotPassed /\ [Next]_vars => NotPassed'
  BY NotPassedStep
<1>. QED BY <1>1, <1>2, InductiveInvariant, PTL DEF Spec

-----------------------------------------------------------------------------
\* Each step of a thread is one of the sequential loop, or none.

\* What the proofs of the steps rest on.
Grounds == Scanning /\ OpenDispatch /\ WorkDone /\ Ledger /\ SlicesSet /\ NotPassed

\* The places of the main thread between two draws.
Between == {"create", "configure", "wait", "after", "shutdown", "finished", "count", "draw"}

\* The places after the loop.
AfterLoop == {"summary", "join", "clean", "returned0"}

\* The phase of the loop by the place of the main thread, before and after a
\* step.
LEMMA PhaseFacts ==
    /\ mpc \in AfterLoop => AbsPhase = "halted"
    /\ mpc \in {"pick", "decide", "dispatch"} => AbsPhase = "drawn"
    /\ mpc \in Between => AbsPhase = IF ~pending THEN "ready"
                                     ELSE IF SomeoneRuns THEN "running" ELSE "ran"
BY DEF AbsPhase, AfterLoop, Between

\* The phase of the sequential loop after a step, by the place of the main
\* thread.
LEMMA NextPhaseFacts ==
    /\ mpc' = "returned1" => AbsPhase' = "aborted"
    /\ mpc' \in AfterLoop => AbsPhase' = "halted"
    /\ mpc' \in {"pick", "decide", "dispatch"} => AbsPhase' = "drawn"
    /\ mpc' \in Between => AbsPhase' = IF ~pending' THEN "ready"
                                       ELSE IF SomeoneRuns' THEN "running" ELSE "ran"
BY DEF AbsPhase, AfterLoop, Between

\* The READY tasks and the units done look the same if the tasks are.
LEMMA SameTasks ==
    ASSUME UNCHANGED <<state, done, units_before>>
    PROVE  UNCHANGED <<Ready, AbsDone, SomeoneRuns>>
BY DEF Ready, AbsDone, SomeoneRuns

\* While nobody runs, the units done are those of the tasks.
LEMMA NobodyRuns ==
    ASSUME TypeOK, \A t \in Task : state[t] # "RUNNING"
    PROVE  AbsDone = done /\ ~SomeoneRuns
BY DEF TypeOK, AbsDone, SomeoneRuns

\* A quiet step is a draw, a step of the scan for the winner, the end of the
\* loop, or none of the loop's business.
LEMMA QuietKinds ==
    ASSUME Scanning, [Next]_vars, Quiet
    PROVE  \/ CreateWorkerFails \/ TaskShutdownAll \/ (CheckFinished /\ mpc' = "summary")
           \/ DrawTicket \/ DrawTicketUnseeded \/ PickWinner
           \/ /\ UNCHANGED <<rng_seed, ticket, winner>>
              /\ \/ mpc' = mpc
                 \/ mpc \in Between /\ mpc' \in Between
                 \/ mpc \in AfterLoop /\ mpc' \in AfterLoop
<1>. USE DEF Between, AfterLoop, Scanning, Exclusion, SoleRunner
<1>1. CASE CreateWorker \/ ConfigureCooperative \/ WaitUntilNoRunning
  BY <1>1 DEF CreateWorker, ConfigureCooperative, WaitUntilNoRunning, drawVars
<1>2. CASE CheckFinished
  BY <1>2 DEF CheckFinished, drawVars
<1>3. CASE CountTickets
  BY <1>3 DEF CountTickets
<1>4. CASE WriteSummary \/ JoinWorker \/ CleanList
  BY <1>4 DEF WriteSummary, JoinWorker, CleanList, drawVars
<1>5. CASE AfterDispatch
  BY <1>5 DEF AfterDispatch, OwesResult, drawVars
<1>6. CASE LogDecision \/ TransitionToRunning
  BY <1>6 DEF LogDecision, TransitionToRunning, Quiet
<1>7. CASE Lock(Main) \/ SpuriousWakeup \/ UNCHANGED vars
  BY <1>7 DEF Lock, SpuriousWakeup, vars, drawVars
<1>8. ASSUME NEW t \in Task, WorkerStep(t)
      PROVE  UNCHANGED <<mpc, rng_seed, ticket, winner>>
  BY <1>8
     DEF WorkerStep, Lock, SleepWhileReady, StartDispatch, Exit, RunUnit, EndDispatch,
         RunWithoutMode, Report, drawVars
<1>. QED BY <1>1, <1>2, <1>3, <1>4, <1>5, <1>6, <1>7, <1>8 DEF Next, MainStep, Terminated

\* The task at which the scan for the winner ends is the one that the draw
\* determines (scheduler.c:89-114).
LEMMA PickedIsWinner ==
    ASSUME Grounds, PickWinner, mpc' = "decide"
    PROVE  /\ winner' = cur /\ cur \in Ready
           /\ WinnerOf(effective_tickets, Ready, ticket) = cur
<1>. TypeOK
  BY DEF Grounds, Scanning, Exclusion
<1>1. /\ mpc = "pick" /\ winner' = cur /\ IsEligible(cur)
      /\ Covers(acc + (IF IsEligible(cur) THEN effective_tickets[cur] ELSE 0), ticket)
  BY DEF PickWinner
<1>2. cur \in Ready /\ cur \in Task /\ ticket \in Nat
  BY <1>1, WordFacts DEF IsEligible, Ready, TypeOK
<1>3. /\ effective_tickets \in [Task -> Nat] /\ effective_tickets \in [Task -> Int]
      /\ Ready \in SUBSET Task
      /\ acc = PrefixSums(effective_tickets, Ready)[cur - 1]
  BY <1>1, ScanSums DEF Grounds
<1>4. PrefixSums(effective_tickets, Ready)[cur] = acc + effective_tickets[cur]
  BY <1>2, <1>3, SumStep DEF Share
<1>5. PrefixSums(effective_tickets, Ready)[cur] >= ticket
  BY <1>1, <1>4 DEF Covers
<1>6. \A t \in Ready : t < cur => PrefixSums(effective_tickets, Ready)[t] < ticket
  BY <1>1 DEF Grounds, NotPassed
<1>. QED BY <1>1, <1>2, <1>3, <1>5, <1>6, WinnerIsFirst

\* A drawn ticket has a winner.
LEMMA DrawnTicketHasWinner ==
    ASSUME Grounds, mpc = "draw", NEW k \in Nat, k <= active_tickets
    PROVE  Ready # {} /\ WinnerOf(effective_tickets, Ready, k) # NoTask
<1>1. /\ effective_tickets \in [Task -> Nat] /\ Ready \in SUBSET Task
      /\ active_tickets = TotalOver(effective_tickets, Ready)
      /\ effective_tickets \in [Task -> Int]
  BY ScanSums DEF Grounds
<1>2. active_tickets > 0 /\ active_tickets \in Nat
  BY DEF Grounds, Scanning, Exclusion, InScope, TypeOK
<1>3. Ready # {}
  <2>. SUFFICES ASSUME Ready = {} PROVE FALSE
    OBVIOUS
  <2>1. \A t \in Task : Share(effective_tickets, Ready, t) = 0
    BY DEF Share
  <2>. QED BY <1>1, <1>2, <2>1, NoShares
<1>. QED BY <1>1, <1>2, <1>3, SomeoneWins

\* The draw.
LEMMA DrawRefines ==
    ASSUME Grounds, [Next]_vars, DrawTicket \/ DrawTicketUnseeded PROVE Sequential!Draw
<1>. TypeOK
  BY DEF Grounds, Scanning, Exclusion
<1>1. /\ mpc = "draw" /\ mpc' = "pick" /\ ~pending
      /\ UNCHANGED <<options, state, done, units_before, effective_tickets, global_dispatch>>
  BY DEF DrawTicket, DrawTicketUnseeded, taskVars, loopVars, Grounds, Scanning, Exclusion,
         InScope
<1>2. AbsPhase = "ready" /\ AbsPhase' = "drawn" /\ ~Sequential!LimitReached
  <2>1. ~LimitReached
    BY <1>1 DEF Grounds, Ledger, LimitChecked
  <2>. QED BY <1>1, <2>1, PhaseFacts, NextPhaseFacts
           DEF Between, Sequential!LimitReached, LimitReached
<1>3. UNCHANGED <<Ready, AbsDone>>
  BY <1>1, SameTasks
<1>4. active_tickets = TotalOver(effective_tickets, Ready)
  BY <1>1, ScanSums DEF Grounds
<1>5. \E x \in (IF rng_seed = 0 THEN {0} ELSE RngNext[rng_seed]) :
         /\ rng_seed' = x
         /\ ticket' = IF rng_seed = 0 THEN 0
                      ELSE WinningTicket(x, TotalOver(effective_tickets, Ready))
  BY <1>4 DEF DrawTicket, DrawTicketUnseeded
<1>6. ticket' \in Nat /\ ticket' <= active_tickets
  <2>1. CASE DrawTicket
    BY <2>1, DrawTicketType, WordFacts DEF Grounds, Scanning, Exclusion
  <2>2. CASE DrawTicketUnseeded
    BY <2>2 DEF DrawTicketUnseeded, TypeOK
  <2>. QED BY <2>1, <2>2
<1>7. AbsWinner' = WinnerOf(effective_tickets, Ready, ticket')
  BY <1>1, <1>3 DEF AbsWinner
<1>8. Ready # {} /\ AbsWinner' # NoTask
  BY <1>1, <1>6, <1>7, DrawnTicketHasWinner
<1>9. \E x \in (IF rng_seed = 0 THEN {0} ELSE RngNext[rng_seed]) :
         /\ rng_seed' = x
         /\ AbsWinner' = WinnerOf(effective_tickets, Ready,
                            IF rng_seed = 0 THEN 0
                            ELSE WinningTicket(x, TotalOver(effective_tickets, Ready)))
  BY <1>5, <1>7
<1>. QED BY <1>1, <1>2, <1>3, <1>8, <1>9, SameWinner, SameArithmetic DEF Sequential!Draw

\* The shutdown, or the check that finds every task FINISHED.
LEMMA HaltRefines ==
    ASSUME Grounds, [Next]_vars, TaskShutdownAll \/ (CheckFinished /\ mpc' = "summary")
    PROVE  Sequential!Halt
<1>. TypeOK
  BY DEF Grounds, Scanning, Exclusion
<1>1. /\ mpc \in {"shutdown", "finished"} /\ mpc' = "summary" /\ ~pending
      /\ UNCHANGED <<options, done, units_before, effective_tickets, global_dispatch,
                     rng_seed, winner>>
  BY DEF TaskShutdownAll, CheckFinished, taskVars, loopVars, drawVars, Grounds, Scanning,
         Exclusion, InScope
<1>2. AbsPhase = "ready" /\ AbsPhase' = "halted" /\ AbsWinner' = AbsWinner
  BY <1>1, PhaseFacts, NextPhaseFacts DEF Between, AfterLoop, AbsWinner
<1>3. \A t \in Task : state[t] # "RUNNING"
  BY <1>1 DEF Grounds, Scanning, Exclusion, SoleRunner
<1>4. \A t \in Task : state'[t] = "FINISHED"
  <2>1. LoopEndsFinished'
    BY EndStep DEF Grounds
  <2>. QED BY <1>1, <2>1 DEF LoopEndsFinished
<1>5. Ready' = {} /\ AbsDone' = AbsDone
  BY <1>1, <1>3, <1>4 DEF Ready, AbsDone
<1>6. Ready = {} \/ Sequential!LimitReached
  <2>1. CASE TaskShutdownAll
    BY <2>1 DEF TaskShutdownAll, Grounds, Ledger, LimitChecked, LimitReached,
                Sequential!LimitReached
  <2>2. CASE CheckFinished
    BY <1>4, <2>2 DEF CheckFinished, Ready, taskVars
  <2>. QED BY <2>1, <2>2
<1>. QED BY <1>1, <1>2, <1>5, <1>6 DEF Sequential!Halt

\* A failed pthread_create ends the program before the first draw.
LEMMA AbortRefines ==
    ASSUME Grounds, CreateWorkerFails PROVE Sequential!Abort
<1>1. /\ mpc = "create" /\ mpc' = "returned1" /\ ~pending /\ global_dispatch = 1
      /\ UNCHANGED <<options, state, done, units_before, effective_tickets,
                     global_dispatch, rng_seed, winner>>
  BY DEF CreateWorkerFails, taskVars, loopVars, drawVars, Grounds, WorkDone, NothingYet
<1>2. AbsPhase = "ready" /\ AbsPhase' = "aborted" /\ AbsWinner' = AbsWinner
  BY <1>1, PhaseFacts, NextPhaseFacts DEF Between, AbsWinner
<1>. QED BY <1>1, <1>2, SameTasks DEF Sequential!Abort

\* The dispatch.
LEMMA DispatchRefines ==
    ASSUME Grounds, TransitionToRunning PROVE Sequential!Dispatch
<1>. TypeOK
  BY DEF Grounds, Scanning, Exclusion
<1>1. /\ mpc = "dispatch" /\ mpc' = "wait" /\ pending'
      /\ winner \in Task /\ state[winner] = "READY"
      /\ state' = [state EXCEPT ![winner] = "RUNNING"]
      /\ global_dispatch' = Inc(global_dispatch)
      /\ UNCHANGED <<options, done, units_before, effective_tickets, rng_seed, winner>>
      /\ done[winner] = units_before
  BY DEF TransitionToRunning, Grounds, Scanning, Exclusion, InScope, WinnerIsReady,
         OpenDispatch, LastLine
<1>2. \A t \in Task : state[t] # "RUNNING"
  BY <1>1 DEF Grounds, Scanning, Exclusion, SoleRunner
<1>3. \A t \in Task : state'[t] = IF t = winner THEN "RUNNING" ELSE state[t]
  BY <1>1 DEF TypeOK
<1>4. SomeoneRuns' /\ Ready' = Ready \ {winner} /\ AbsDone' = AbsDone
  BY <1>1, <1>2, <1>3 DEF SomeoneRuns, Ready, AbsDone
<1>5. AbsPhase = "drawn" /\ AbsPhase' = "running"
  BY <1>1, <1>4, PhaseFacts, NextPhaseFacts DEF Between
<1>6. AbsWinner = winner /\ AbsWinner' = winner
  BY <1>1 DEF AbsWinner
<1>. QED BY <1>1, <1>4, <1>5, <1>6, SameArithmetic DEF Sequential!Dispatch

\* The worker's report shows the work of the whole dispatch at once.
LEMMA ReportRefines ==
    ASSUME Grounds, NEW t \in Task, Report(t) PROVE Sequential!Work
<1>. TypeOK
  BY DEF Grounds, Scanning, Exclusion
<1>1. /\ t = winner /\ pending /\ mpc = "wait" /\ state[t] = "RUNNING" /\ wpc[t] = "report"
      /\ state' = [state EXCEPT ![t] = StateAfterWork(t)]
      /\ UNCHANGED <<options, mpc, done, units_before, effective_tickets, global_dispatch,
                     pending, rng_seed, winner>>
  BY RunnerIsWinner DEF RunnerWorks, Report, drawVars, loopVars, Grounds
<1>2. \A u \in Task \ {t} : state[u] # "RUNNING"
  BY <1>1 DEF Grounds, Scanning, Exclusion, SoleRunner
<1>3. SomeoneRuns /\ AbsPhase = "running" /\ AbsWinner = t
  BY <1>1, PhaseFacts DEF SomeoneRuns, Between, AbsWinner
<1>4. \A u \in Task : state'[u] = IF u = t THEN StateAfterWork(t) ELSE state[u]
  BY <1>1 DEF TypeOK
<1>5. \A u \in Task : state'[u] # "RUNNING"
  BY <1>2, <1>4 DEF StateAfterWork
<1>6. AbsPhase' = "ran" /\ AbsWinner' = t
  BY <1>1, <1>5, NextPhaseFacts DEF SomeoneRuns, Between, AbsWinner
<1>. DEFINE units == units_before + DispatchUnits(t)
<1>7. /\ units \in Nat /\ WorkUnits[t] \in Nat
      /\ done[t] = IF units >= WorkUnits[t] THEN WorkUnits[t] ELSE units
  <2>1. DispatchUnits(t) \in Nat /\ units_before \in Nat
    BY DispatchHasUnits DEF TypeOK
  <2>2. done[t] = UpToWork(t, units)
    BY <1>1 DEF Grounds, WorkDone, WorkByDispatch
  <2>. QED BY <2>1, <2>2, WorkUnitsType DEF UpToWork
<1>8. StateAfterWork(t) = IF units >= WorkUnits[t] THEN "FINISHED" ELSE "READY"
  BY <1>7 DEF StateAfterWork
<1>9. Ready' = IF units >= WorkUnits[t] THEN Ready ELSE Ready \cup {t}
  BY <1>1, <1>4, <1>8 DEF Ready
<1>10. /\ AbsDone[t] = units_before
       /\ AbsDone' = [AbsDone EXCEPT ![t] = IF units >= WorkUnits[t] THEN WorkUnits[t]
                                            ELSE units]
  <2>1. AbsDone[t] = units_before
    BY <1>1 DEF AbsDone
  <2>2. AbsDone' = [u \in Task |-> done[u]]
    BY <1>1, <1>5 DEF AbsDone
  <2>3. \A u \in Task \ {t} : AbsDone[u] = done[u]
    BY <1>2 DEF AbsDone
  <2>4. AbsDone = [u \in Task |-> AbsDone[u]]
    BY DEF AbsDone
  <2>. HIDE DEF units
  <2>. QED BY <1>7, <2>1, <2>2, <2>3, <2>4
<1>11. Sequential!Units(t) = DispatchUnits(t)
  BY <1>1, SameUnits DEF Grounds
<1>12. AbsDone[AbsWinner] + Sequential!Units(AbsWinner) = units
  BY <1>3, <1>10, <1>11
<1>. HIDE DEF units
<1>. QED BY <1>1, <1>3, <1>6, <1>9, <1>10, <1>12 DEF Sequential!Work, Sequential!Completes

\* The main thread settles the tickets of the dispatch that is over.
LEMMA SettleRefines ==
    ASSUME Grounds, AfterDispatch, pending PROVE Sequential!Settle
<1>. TypeOK
  BY DEF Grounds, Scanning, Exclusion
<1>1. /\ mpc = "after" /\ mpc' \in Between /\ mpc' # "pick" /\ ~pending'
      /\ effective_tickets' = [effective_tickets EXCEPT
                                  ![winner] = TicketsAfter(winner, options.compensation)]
      /\ UNCHANGED <<options, state, done, units_before, global_dispatch, rng_seed, winner>>
  BY DEF AfterDispatch, OwesResult, PendingAfterLog, Between, drawVars
<1>2. ~SomeoneRuns
  BY <1>1 DEF SomeoneRuns, Grounds, Scanning, Exclusion, SoleRunner
<1>3. AbsPhase = "ran" /\ AbsPhase' = "ready"
  BY <1>1, <1>2, PhaseFacts, NextPhaseFacts DEF Between
<1>4. AbsWinner = winner /\ AbsWinner' = winner
  BY <1>1 DEF AbsWinner
<1>. QED BY <1>1, <1>3, <1>4, SameTasks, SameArithmetic DEF Sequential!Settle

\* All other steps leave the loop where it is.
LEMMA StutterRefines ==
    ASSUME Grounds, [Next]_vars,
           ~CreateWorkerFails, ~DrawTicket, ~DrawTicketUnseeded,
           ~(CheckFinished /\ mpc' = "summary"), ~TaskShutdownAll, ~TransitionToRunning,
           ~(AfterDispatch /\ pending), \A t \in Task : ~Report(t)
    PROVE  UNCHANGED Sequential!vars
<1>. TypeOK
  BY DEF Grounds, Scanning, Exclusion
<1>1. CASE Quiet
  <2>1. /\ UNCHANGED <<options, state, done, units_before, effective_tickets,
                       global_dispatch, pending>>
        /\ UNCHANGED <<Ready, AbsDone, SomeoneRuns>>
    BY <1>1, SameTasks DEF Quiet
  <2>2. UNCHANGED <<rng_seed, AbsPhase, AbsWinner>>
    <3>1. CASE PickWinner
      <4>1. mpc = "pick" /\ rng_seed' = rng_seed /\ ticket' = ticket /\ mpc' # "summary"
        BY <3>1, WinnerIsFound DEF PickWinner, Grounds, Scanning
      <4>2. CASE mpc' = "pick"
        BY <2>1, <4>1, <4>2, PhaseFacts, NextPhaseFacts DEF AbsWinner
      <4>3. CASE mpc' = "decide"
        BY <3>1, <4>1, <4>3, PickedIsWinner, PhaseFacts, NextPhaseFacts DEF AbsWinner
      <4>. QED BY <3>1, <4>1, <4>2, <4>3 DEF PickWinner
    <3>2. CASE ~PickWinner
      <4>1. /\ UNCHANGED <<rng_seed, ticket, winner>>
            /\ \/ mpc' = mpc
               \/ mpc \in Between /\ mpc' \in Between
               \/ mpc \in AfterLoop /\ mpc' \in AfterLoop
        BY <1>1, <3>2, QuietKinds DEF Grounds
      <4>2. CASE mpc' = mpc
        BY <2>1, <4>1, <4>2 DEF AbsPhase, AbsWinner
      <4>3. CASE mpc \in Between /\ mpc' \in Between
        BY <2>1, <4>1, <4>3, PhaseFacts, NextPhaseFacts DEF AbsWinner, Between
      <4>4. CASE mpc \in AfterLoop /\ mpc' \in AfterLoop
        BY <2>1, <4>1, <4>4, PhaseFacts, NextPhaseFacts DEF AbsWinner, AfterLoop
      <4>. QED BY <4>1, <4>2, <4>3, <4>4
    <3>. QED BY <3>1, <3>2
  <2>. QED BY <2>1, <2>2 DEF Sequential!vars
<1>2. CASE AfterDispatch /\ ~pending
  <2>1. /\ mpc \in Between /\ mpc' \in Between /\ mpc # "pick" /\ mpc' # "pick" /\ ~pending'
        /\ UNCHANGED <<options, state, done, units_before, effective_tickets,
                       global_dispatch, rng_seed, winner>>
    BY <1>2 DEF AfterDispatch, OwesResult, PendingAfterLog, Between, drawVars
  <2>2. UNCHANGED <<AbsPhase, AbsWinner>>
    BY <1>2, <2>1, PhaseFacts, NextPhaseFacts DEF AbsWinner
  <2>. QED BY <2>1, <2>2, SameTasks DEF Sequential!vars
<1>3. CASE LogDecision
  <2>1. /\ mpc = "decide" /\ mpc' = "dispatch"
        /\ UNCHANGED <<options, state, done, effective_tickets, global_dispatch, rng_seed,
                       winner>>
    BY <1>3 DEF LogDecision, taskVars, drawVars
  <2>2. UNCHANGED <<AbsPhase, AbsWinner, Ready>>
    BY <2>1, PhaseFacts, NextPhaseFacts DEF AbsWinner, Ready
  <2>3. \A t \in Task : state[t] # "RUNNING"
    BY <2>1 DEF Grounds, Scanning, Exclusion, SoleRunner
  <2>4. AbsDone' = AbsDone
    BY <2>1, <2>3 DEF AbsDone
  <2>. QED BY <2>1, <2>2, <2>4 DEF Sequential!vars
<1>4. ASSUME NEW t \in Task, RunnerWorks(t) PROVE UNCHANGED Sequential!vars
  <2>1. /\ state[t] = "RUNNING"
        /\ UNCHANGED <<options, state, units_before, effective_tickets, global_dispatch,
                       rng_seed, winner, mpc, pending, ticket>>
        /\ \A u \in Task \ {t} : done'[u] = done[u]
    BY <1>4, RunnerIsWinner
       DEF RunnerWorks, StartDispatch, RunUnit, EndDispatch, RunWithoutMode, TypeOK,
           taskVars, drawVars, loopVars, Grounds
  <2>2. UNCHANGED <<Ready, SomeoneRuns, AbsPhase, AbsWinner>>
    BY <2>1 DEF Ready, SomeoneRuns, AbsPhase, AbsWinner
  <2>3. AbsDone' = AbsDone
    BY <2>1 DEF AbsDone
  <2>. QED BY <2>1, <2>2, <2>3 DEF Sequential!vars
<1>. QED BY <1>1, <1>2, <1>3, <1>4, StepKinds DEF Grounds

\* The first state is one of the sequential loop.
LEMMA InitRefines == Init => Sequential!Init
<1>. SUFFICES ASSUME Init PROVE Sequential!Init
  OBVIOUS
<1>1. /\ options \in Options /\ effective_tickets = Tickets /\ global_dispatch = 1
      /\ rng_seed = options.seed /\ winner = NoTask /\ mpc = "create" /\ ~pending
      /\ state = [t \in Task |-> "READY"] /\ done = [t \in Task |-> 0]
  BY DEF Init
<1>2. Ready = Task /\ AbsDone = [t \in Task |-> 0]
  BY <1>1 DEF Ready, AbsDone
<1>3. AbsPhase = "ready" /\ AbsWinner = NoTask
  BY <1>1, PhaseFacts DEF Between, AbsWinner
<1>. QED BY <1>1, <1>2, <1>3, SameArithmetic DEF Sequential!Init

\* However the main thread and the workers interleave, with their wakeups and
\* critical sections, the run is one of a sequential loop that draws a winner,
\* lets it work and settles its tickets (scheduler.c:149-341, task.c:360-428).
THEOREM ThreadsImplementTheLoop == Spec => ImplementsSequential
<1>1. Grounds /\ [Next]_vars => [Sequential!Next]_Sequential!vars
  <2>. SUFFICES ASSUME Grounds, [Next]_vars PROVE [Sequential!Next]_Sequential!vars
    OBVIOUS
  <2>1. CASE DrawTicket \/ DrawTicketUnseeded
    BY <2>1, DrawRefines DEF Sequential!Next
  <2>2. CASE TaskShutdownAll \/ (CheckFinished /\ mpc' = "summary")
    BY <2>2, HaltRefines DEF Sequential!Next
  <2>3. CASE CreateWorkerFails
    BY <2>3, AbortRefines DEF Sequential!Next
  <2>4. CASE TransitionToRunning
    BY <2>4, DispatchRefines DEF Sequential!Next
  <2>5. CASE \E t \in Task : Report(t)
    BY <2>5, ReportRefines DEF Sequential!Next
  <2>6. CASE AfterDispatch /\ pending
    BY <2>6, SettleRefines DEF Sequential!Next
  <2>. QED BY <2>1, <2>2, <2>3, <2>4, <2>5, <2>6, StutterRefines
<1>2. Spec => []Grounds
  BY InductiveInvariant, OpenDispatchHolds, WorkDoneHolds, LedgerHolds, SlicesHold,
     NotPassedHolds, PTL DEF Grounds
<1>. QED BY <1>1, <1>2, InitRefines, PTL DEF Spec, ImplementsSequential, Sequential!Spec

-----------------------------------------------------------------------------
\* The last result.

\* Between the settlement of a dispatch and the next choice of a winner, the last
\* line of the log is the result of that dispatch, which the winner has not worked
\* on since, and the tickets are those the compensation has left it.
LastDispatchSettled ==
    /\ log.dispatch \in Word
    /\ log.event = "result" \/ (log.event = "none" /\ log.dispatch = 0)
           \/ pending \/ mpc = "dispatch"
    /\ log.event = "result" /\ mpc \notin {"pick", "decide"} =>
          /\ winner \in Task
          /\ log.completed = done[winner]
          /\ effective_tickets[winner] = TicketsAfter(winner, options.compensation)

\* A step that is not one of the dispatch leaves the last line true: the winner
\* changes only in the scan for the next one, which finds one.
LEMMA QuietLeavesResult ==
    ASSUME Scanning, LastDispatchSettled, [Next]_vars, Quiet PROVE LastDispatchSettled'
<1>. USE DEF LastDispatchSettled
<1>1. /\ UNCHANGED <<options, done, effective_tickets, log, pending>>
      /\ mpc' = "dispatch" <=> mpc = "dispatch"
  BY DEF Quiet
<1>2. CASE PickWinner
  <2>1. mpc' \in {"pick", "decide"}
    BY <1>2, WinnerIsFound DEF PickWinner, Scanning
  <2>. QED BY <1>1, <2>1
<1>3. CASE DrawTicket \/ DrawTicketUnseeded
  <2>1. mpc' = "pick"
    BY <1>3 DEF DrawTicket, DrawTicketUnseeded
  <2>. QED BY <1>1, <2>1
<1>4. CASE CreateWorkerFails \/ TaskShutdownAll \/ CheckFinished
  <2>1. winner' = winner /\ mpc \notin {"pick", "decide"}
    BY <1>4 DEF CreateWorkerFails, TaskShutdownAll, CheckFinished, drawVars
  <2>. QED BY <1>1, <2>1
<1>5. CASE /\ UNCHANGED <<rng_seed, ticket, winner>>
           /\ \/ mpc' = mpc
              \/ mpc \in Between /\ mpc' \in Between
              \/ mpc \in AfterLoop /\ mpc' \in AfterLoop
  BY <1>1, <1>5 DEF Between, AfterLoop
<1>. QED BY <1>2, <1>3, <1>4, <1>5, QuietKinds

\* Every step keeps the last line true.
LEMMA LastDispatchStep ==
    ASSUME Scanning, OpenDispatch, LastDispatchSettled, [Next]_vars
    PROVE  LastDispatchSettled'
<1>. TypeOK /\ InScope
  BY DEF Scanning, Exclusion
<1>1. CASE Quiet
  BY <1>1, QuietLeavesResult
<1>2. CASE AfterDispatch /\ pending
  <2>1. /\ winner \in Task /\ winner' = winner /\ done' = done /\ options' = options
        /\ effective_tickets' = [effective_tickets EXCEPT
              ![winner] = TicketsAfter(winner, options.compensation)]
        /\ log' = ResultLine
    BY <1>2, OptionsStay DEF AfterDispatch, OwesResult, InScope, drawVars
  <2>2. effective_tickets'[winner] = TicketsAfter(winner, options.compensation)
    BY <2>1 DEF TypeOK
  <2>. QED BY <2>1, <2>2 DEF ResultLine, LastDispatchSettled, TypeOK
<1>3. CASE AfterDispatch /\ ~pending
  <2>1. /\ UNCHANGED <<winner, done, options, effective_tickets, log>>
        /\ mpc = "after"
    BY <1>3, OptionsStay DEF AfterDispatch, OwesResult, drawVars
  <2>. QED BY <1>3, <2>1 DEF LastDispatchSettled
<1>4. CASE TaskShutdownAll
  BY <1>4 DEF TaskShutdownAll, LastDispatchSettled, drawVars, loopVars, outputVars
<1>5. CASE LogDecision
  BY <1>5 DEF LogDecision, LastDispatchSettled, TypeOK
<1>6. CASE TransitionToRunning
  BY <1>6 DEF TransitionToRunning, LastDispatchSettled, OpenDispatch, LastLine,
             DecisionLine, outputVars, Scanning, Exclusion, InScope
<1>7. ASSUME NEW t \in Task, RunnerWorks(t) PROVE LastDispatchSettled'
  <2>1. pending /\ mpc = "wait" /\ log = DecisionLine(pending_number)
    BY <1>7, RunnerIsWinner DEF OpenDispatch, LastLine
  <2>2. UNCHANGED <<pending, log>>
    BY <1>7 DEF RunnerWorks, StartDispatch, RunUnit, EndDispatch, RunWithoutMode, Report,
                loopVars, outputVars
  <2>. QED BY <2>1, <2>2 DEF LastDispatchSettled, DecisionLine
<1>. QED BY <1>1, <1>2, <1>3, <1>4, <1>5, <1>6, <1>7, StepKinds

\* When the main loop is over, for whatever reason, the result line of the last
\* dispatch has been written and its tickets are settled (scheduler.c:205-228).
THEOREM NoResultIsLost == Spec => []LastResultIsLogged
<1>1. Init => LastDispatchSettled
  BY WordFacts DEF Init, NoLine, LastDispatchSettled
<1>2. Scanning /\ OpenDispatch /\ LastDispatchSettled /\ [Next]_vars => LastDispatchSettled'
  BY LastDispatchStep
<1>3. ASSUME Scanning, OpenDispatch, LastDispatchSettled PROVE LastResultIsLogged
  <2>. SUFFICES ASSUME mpc \in {"summary", "join", "clean", "returned0"}, global_dispatch > 1
                PROVE  /\ log.event = "result"
                       /\ log.dispatch = global_dispatch - 1
                       /\ log.completed = done[winner]
                       /\ effective_tickets[winner] = TicketsAfter(winner, options.compensation)
    BY DEF LastResultIsLogged
  <2>1. ~pending /\ global_dispatch = Inc(log.dispatch) /\ log.dispatch \in Word
    BY <1>3 DEF Scanning, Exclusion, InScope, OpenDispatch, LastLine, LastDispatchSettled
  <2>2. log.dispatch = global_dispatch - 1 /\ log.dispatch # 0
    BY <2>1, UintMaxPositive, SMT DEF Inc, Truncate, Word
  <2>. QED BY <1>3, <2>1, <2>2 DEF LastDispatchSettled
<1>. QED BY <1>1, <1>2, <1>3, InductiveInvariant, OpenDispatchHolds, PTL DEF Spec
=============================================================================
