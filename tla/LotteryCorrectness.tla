------------------------- MODULE LotteryCorrectness -------------------------
(***************************************************************************)
(* What the scheduler's threads must guarantee: the properties checked on   *)
(* LotteryScheduler.                                                       *)
(***************************************************************************)
EXTENDS LotteryScheduler

Ready == {t \in Task : state[t] = "READY"}

\* The main thread is in code that touches the tasks without the mutex:
\* scheduler.c:33, 82, 132-137, 215-227, 287-310, logger.c:165-214, dll_clean_list.
MainTouchesTasks ==
    mpc \in {"configure", "after", "count", "pick", "decide", "summary", "clean"}

\* A worker is between the two critical sections of task_do_work_unit, where
\* it writes its task (task.c:395-415), or about to report.
Working(t) == wpc[t] \in {"compute", "report"}

\* The scheduler has exclusive control whenever it is not waiting
\* (scheduler.c:188-193): a RUNNING task is the one dispatched last, and the
\* main thread is in its wait with the result line still owed.
SoleRunner ==
    \A t \in Task : state[t] = "RUNNING" =>
        /\ mpc = "wait"
        /\ pending
        /\ t = winner
        /\ last_dispatch[t] = pending_number

\* The fields of task_t are accessed without the mutex by their worker and by
\* the main thread, but never by both in the same period, and no two workers
\* work at a time.
RaceFree ==
    \A t \in Task : Working(t) =>
        /\ ~MainTouchesTasks
        /\ \A u \in Task : Working(u) => u = t

\* Nobody sleeps on the condition variable over a condition that has become
\* true: a sleeping worker's task is READY, and when the main thread sleeps
\* some task is RUNNING.
NoLostWakeup ==
    \A s \in sleepers :
        IF s = Main THEN mpc = "wait" /\ MustWait ELSE state[s] = "READY"

\* When the main loop is over, for whatever reason, every task is FINISHED:
\* so every worker can leave its loop and pthread_join returns, and the break
\* of scheduler.c:282-285, which would hang the joins, is never taken.
LoopEndsFinished ==
    mpc \in {"summary", "join", "clean", "returned0"} =>
        \A t \in Task : state[t] = "FINISHED"

\* dll_clean_list frees the tasks and nodes only after every worker is out of
\* task_do_work_unit.
FreedAfterExit ==
    mpc \in {"clean", "returned0"} => \A t \in Task : wpc[t] = "exited"

\* A task is FINISHED short of its work only when the dispatch limit was
\* reached, and then exactly maxDispatches dispatches have been made.
FinishedShortOnlyByLimit ==
    (\E t \in Task : state[t] = "FINISHED" /\ done[t] < WorkUnits[t]) =>
        /\ options.maxDispatches > 0
        /\ TotalOver(dispatches, Task) = options.maxDispatches

\* The scheduler never makes more dispatches than --max-dispatches.
DispatchesWithinLimit ==
    options.maxDispatches > 0 =>
        TotalOver(dispatches, Task) <= options.maxDispatches

\* Every dispatch runs the whole allotment of the task, but for the last one:
\* the units done and the dispatches counted by two different threads agree.
WorkMatchesDispatches ==
    \A t \in Task : ~Working(t) /\ state[t] # "RUNNING" =>
        LET allotted == dispatches[t] * DispatchUnits(t)
        IN  done[t] = IF allotted < WorkUnits[t] THEN allotted ELSE WorkUnits[t]

\* The per-task counters add up to the global one, and first_dispatch and
\* last_dispatch frame a task's dispatches: at most one task carries each
\* number, the latest number is the winner's.
DispatchesAccounted ==
    /\ TotalOver(dispatches, Task) = global_dispatch - 1
    /\ \A t \in Task :
          /\ dispatches[t] = 0 <=> last_dispatch[t] = 0
          /\ dispatches[t] <= 1 <=> first_dispatch[t] = last_dispatch[t]
          /\ dispatches[t] > 0 =>
                last_dispatch[t] - first_dispatch[t] + 1 \in dispatches[t] .. global_dispatch - 1
          /\ \A u \in Task \ {t} : last_dispatch[t] = last_dispatch[u] => dispatches[t] = 0

\* At every draw a task has its own tickets until it has been dispatched with
\* compensation on and a yield below the whole; from then on its tickets times
\* its yield are its own tickets again, to the nearest ticket and the rounding of
\* a float, so that compensation makes up for the units it leaves unused
\* (task.h:90-101).
CompensationIsCurrent ==
    mpc \in {"finished", "count", "draw", "pick", "decide", "dispatch"} =>
        \A t \in Task :
            IF dispatches[t] > 0 /\ options.compensation /\ YieldPercent[t] < 100
            THEN FairlyBoosted(effective_tickets[t], Tickets[t], YieldPercent[t])
            ELSE effective_tickets[t] = Tickets[t]

\* Every task that takes part in a draw can win it.
EveryReadyTaskCanWin ==
    mpc = "draw" => NobodyIsLeftOut(effective_tickets, Ready)

\* A FINISHED task is never dispatched, resumed or worked on again
\* (task.h:16).
FinishedIsTerminal ==
    [][\A t \in Task : state[t] = "FINISHED" =>
          UNCHANGED <<state[t], done[t], dispatches[t], last_dispatch[t]>>]_vars

\* The event log alternates: a decision line is followed by the result line of
\* the same dispatch and task, the numbers of the two lines agree and show some
\* work done; only then comes the decision with the next number.
LogPairs ==
    [][/\ log'.event = "result" =>
            /\ log.event = "decision"
            /\ log'.dispatch = log.dispatch /\ log'.task = log.task
            /\ log'.run_units >= 1
            /\ log'.completed = log.completed + log'.run_units
            /\ log'.remaining = log.remaining - log'.run_units
       /\ log'.event = "decision" =>
            /\ log.event # "decision"
            /\ log'.dispatch = Inc(log.dispatch)]_log

\* When the main loop is over, for whatever reason, the result line of the last
\* dispatch has been written and its tickets settled (scheduler.c:205-228).
LastResultIsLogged ==
    mpc \in {"summary", "join", "clean", "returned0"} /\ global_dispatch > 1 =>
        /\ log.event = "result"
        /\ log.dispatch = global_dispatch - 1
        /\ log.completed = done[winner]
        /\ effective_tickets[winner] = TicketsAfter(winner, options.compensation)

\* The summary, read without the mutex, is never outdated by a later step.
SummaryIsFinal ==
    summary # NoSummary =>
        summary = [t \in Task |-> <<done[t], dispatches[t], last_dispatch[t]>>]

\* The program ends, by returning 0 or, when a thread cannot be created, 1.
Terminates == <>~Alive

\* A dispatched task gives the processor back.
DispatchEnds ==
    \A t \in Task : state[t] = "RUNNING" ~> state[t] # "RUNNING"

-----------------------------------------------------------------------------
\* The parts of the inductive invariant behind the properties above.

\* The mutex is held only by a thread at one of its lock points that is awake.
HolderIsAtLockPoint ==
    mutex # Nobody => AtLockPoint(mutex) /\ mutex \notin sleepers

\* Whoever sleeps does so in a wait loop whose condition still holds.
SleepersMustSleep ==
    \A s \in sleepers :
        IF s = Main THEN mpc = "wait" /\ MustWait
        ELSE wpc[s] = "idle" /\ state[s] = "READY"

\* A worker works only for a RUNNING task.
OnlyRunningWork == \A t \in Task : Working(t) => state[t] = "RUNNING"

\* A range to draw from and a winner exist whenever the code goes on to use
\* them; a result line is owed only until the wait for it is over.
InScope ==
    /\ mpc = "draw" => active_tickets > 0
    /\ mpc \in {"decide", "dispatch"} => winner \in Task
    /\ pending => winner \in Task /\ mpc \in {"wait", "after"}

\* The task about to be dispatched is READY, so that the result of
\* task_transition_to_running, which the caller ignores, is never false.
WinnerIsReady == mpc \in {"decide", "dispatch"} => state[winner] = "READY"

\* What the unlocked part of a scan has established so far.
ScannedSoFar ==
    /\ mpc \notin {"create", "configure", "finished", "count", "pick", "join", "returned1"}
         => cur = 1
    /\ mpc \notin {"count", "pick"} => acc = 0
    /\ mpc = "finished" => \A t \in Task : t < cur => state[t] = "FINISHED"
    /\ mpc = "join" => \A t \in Task : t < cur => wpc[t] = "exited"

\* The scan for the winner sees the tickets that were counted: the ticket it
\* looks for is among them, and no task before the cursor has it.
TicketIsAhead ==
    mpc = "pick" =>
        /\ active_tickets > 0
        /\ ticket <= active_tickets
        /\ acc < ticket \/ acc = 0

\* All of them hold in every reachable state, with the properties they need.
SafetyInvariant ==
    /\ InScope /\ HolderIsAtLockPoint /\ SleepersMustSleep
    /\ OnlyRunningWork /\ SoleRunner /\ WinnerIsReady
    /\ ScannedSoFar /\ TicketIsAhead
=============================================================================
