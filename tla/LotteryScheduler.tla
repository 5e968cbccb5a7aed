-------------------------- MODULE LotteryScheduler --------------------------
(***************************************************************************)
(* The threads of the lottery scheduler: main() after the command line,    *)
(* with scheduler.c inlined, and one worker thread per task running        *)
(* task_do_work_unit.  They share one mutex and one condition variable      *)
(* (task.c:25-34).                                                         *)
(*                                                                         *)
(* A step is what a thread does between two points where another thread     *)
(* may interfere.  A critical section is two steps, the acquisition         *)
(* (Lock) and the body, which ends by releasing the mutex or by            *)
(* pthread_cond_wait; a thread inside a critical section is a thread        *)
(* waiting at one of its lock points that has become the mutex's holder.    *)
(*                                                                         *)
(* An operator whose comment starts with "Wrong:" is used nowhere: it is a   *)
(* mistake one could make in the definition that follows it, kept to show   *)
(* that the properties notice.                                             *)
(***************************************************************************)
EXTENDS Lottery

VARIABLES
    options,            \* the command line of this run (parser.c:18-26)
    state, done,        \* task_t.state, task_t.work_units_done
    dispatches, first_dispatch, last_dispatch,
    effective_tickets, slice_size,
    mutex,              \* the holder of the global mutex, or Nobody
    sleepers,           \* the threads inside pthread_cond_wait
    wpc, units_run,     \* each worker's place in task_do_work_unit and its count
    mpc,                \* the main thread's place
    cur,                \* current_node of the loop the main thread is in
    acc,                \* cumulative_ticket_sum of the scan it is in
    active_tickets,     \* cumulative_ticket_sum of scheduler_main_loop
    ticket,             \* winner_ticket
    winner,             \* winner_task, or NoTask for NULL
    units_before, pending, pending_number, global_dispatch,
    rng_seed,           \* rng.c:12
    log,                \* the last line of the event log
    summary             \* what logger_write_summary wrote, or NoSummary

taskVars == <<state, done, dispatches, first_dispatch, last_dispatch,
              effective_tickets, slice_size>>
lockVars == <<mutex, sleepers>>
workerVars == <<wpc, units_run>>
scanVars == <<cur, acc>>
drawVars == <<active_tickets, ticket, winner, rng_seed>>
loopVars == <<units_before, pending, pending_number, global_dispatch>>
outputVars == <<log, summary>>
vars == <<options, taskVars, lockVars, workerVars, mpc, scanVars, drawVars,
          loopVars, outputVars>>

Main == 0
Thread == {Main} \cup Task
Nobody == -1

NoLine == [event |-> "none", dispatch |-> 0, task |-> NoTask,
           run_units |-> 0, completed |-> 0, remaining |-> 0]

NoSummary == << >>

\* Each variable has the C type and the range the code gives it: words for
\* uint32_t, task positions for current_node, so that no scan leaves the list.
TypeOK ==
    /\ options \in Options
    /\ state \in [Task -> {"READY", "RUNNING", "FINISHED"}]
    /\ done \in [Task -> Nat]
    /\ dispatches \in [Task -> Word]
    /\ first_dispatch \in [Task -> Word]
    /\ last_dispatch \in [Task -> Word]
    /\ effective_tickets \in [Task -> Word]
    /\ slice_size \in [Task -> Word]
    /\ mutex \in Thread \cup {Nobody}
    /\ sleepers \subseteq Thread
    /\ wpc \in [Task -> {"unborn", "idle", "compute", "report", "exited"}]
    /\ units_run \in [Task -> Nat]
    /\ mpc \in {"create", "configure", "wait", "after", "shutdown", "finished",
                "count", "draw", "pick", "decide", "dispatch", "summary",
                "join", "clean", "returned0", "returned1"}
    /\ cur \in Task
    /\ acc \in Nat
    /\ active_tickets \in Nat
    /\ ticket \in Word
    /\ winner \in Task \cup {NoTask}
    /\ units_before \in Nat
    /\ pending \in BOOLEAN
    /\ pending_number \in Word
    /\ global_dispatch \in Word
    /\ rng_seed \in Words \cup {0}

-----------------------------------------------------------------------------
\* parser_load has created the tasks (task_create), rng_xorshift32_seed has
\* run; the main thread is about to create the first worker.
Init ==
    /\ options \in Options
    /\ state = [t \in Task |-> "READY"]
    /\ done = [t \in Task |-> 0]
    /\ dispatches = [t \in Task |-> 0]
    /\ first_dispatch = [t \in Task |-> 0]
    /\ last_dispatch = [t \in Task |-> 0]
    /\ effective_tickets = Tickets
    /\ slice_size = [t \in Task |-> 0]
    /\ mutex = Nobody
    /\ sleepers = {}
    /\ wpc = [t \in Task |-> "unborn"]
    /\ units_run = [t \in Task |-> 0]
    /\ mpc = "create"
    /\ cur = 1
    /\ acc = 0
    /\ active_tickets = 0
    /\ ticket = 0
    /\ winner = NoTask
    /\ units_before = 0
    /\ pending = FALSE
    /\ pending_number = 0
    /\ global_dispatch = 1
    /\ rng_seed = options.seed
    /\ log = NoLine
    /\ summary = NoSummary

-----------------------------------------------------------------------------
\* The mutex and the condition variable.

\* Once main has returned, the process and all its threads are gone.
Alive == mpc \notin {"returned0", "returned1"}

AtLockPoint(t) ==
    IF t = Main
    THEN mpc \in {"wait", "shutdown", "finished", "count", "pick", "dispatch"}
    ELSE wpc[t] \in {"idle", "report"}

\* pthread_mutex_lock, also the one at the end of pthread_cond_wait.
Lock(t) ==
    /\ Alive
    /\ AtLockPoint(t)
    /\ t \notin sleepers
    /\ mutex = Nobody
    /\ mutex' = t
    /\ UNCHANGED <<options, taskVars, sleepers, workerVars, mpc, scanVars,
                   drawVars, loopVars, outputVars>>

CondWait(t) ==
    /\ mutex' = Nobody
    /\ sleepers' = sleepers \cup {t}

\* Wrong: pthread_cond_signal where a broadcast is needed.
SignalOne == IF sleepers = {} THEN {}
             ELSE sleepers \ {CHOOSE t \in sleepers : \A u \in sleepers : t <= u}

\* Who still sleeps after pthread_cond_broadcast.
StillAsleep == {}

\* pthread_cond_wait may return although nobody signalled.
SpuriousWakeup ==
    /\ Alive
    /\ \E t \in sleepers : sleepers' = sleepers \ {t}
    /\ UNCHANGED <<options, taskVars, mutex, workerVars, mpc, scanVars,
                   drawVars, loopVars, outputVars>>

-----------------------------------------------------------------------------
\* Wrong: the loop runs past the last node.
RunsPastTheEnd == cur <= NumTasks

\* FOR_EACH_NODE goes on to another node.
HasNext == cur < NumTasks

\* main and scheduler_init, scheduler_configure_cooperative.

\* pthread_create for the task under the cursor succeeds.
CreateWorker ==
    /\ mpc = "create"
    /\ wpc' = [wpc EXCEPT ![cur] = "idle"]
    /\ IF HasNext
       THEN cur' = cur + 1 /\ mpc' = mpc
       ELSE /\ cur' = 1
            /\ mpc' = IF options.mode = "cooperative" THEN "configure" ELSE "wait"
    /\ UNCHANGED <<options, taskVars, lockVars, units_run, acc, drawVars,
                   loopVars, outputVars>>

\* pthread_create fails: scheduler_init returns NULL, main returns 1.
CreateWorkerFails ==
    /\ mpc = "create"
    /\ mpc' = "returned1"
    /\ UNCHANGED <<options, taskVars, lockVars, workerVars, scanVars, drawVars,
                   loopVars, outputVars>>

ConfigureCooperative ==
    /\ mpc = "configure"
    /\ slice_size' = [slice_size EXCEPT
                        ![cur] = CooperativeSlice[cur][options.slicePercent]]
    /\ IF HasNext
       THEN cur' = cur + 1 /\ mpc' = mpc
       ELSE cur' = 1 /\ mpc' = "wait"
    /\ UNCHANGED <<options, state, done, dispatches, first_dispatch,
                   last_dispatch, effective_tickets, lockVars, workerVars, acc,
                   drawVars, loopVars, outputVars>>

-----------------------------------------------------------------------------
\* scheduler_main_loop.

\* Wrong: the main thread does not wait.
NeverMustWait == FALSE

MustWait == \E t \in Task : state[t] = "RUNNING"

\* One round of task_wait_until_no_running.
WaitUntilNoRunning ==
    /\ mpc = "wait"
    /\ mutex = Main
    /\ IF MustWait
       THEN CondWait(Main) /\ mpc' = mpc
       ELSE mutex' = Nobody /\ sleepers' = sleepers /\ mpc' = "after"
    /\ UNCHANGED <<options, taskVars, workerVars, scanVars, drawVars, loopVars,
                   outputVars>>

\* Wrong: reports the number that is next, not the one it remembered.
NextNumberLine ==
    [event |-> "result", dispatch |-> global_dispatch, task |-> winner,
     run_units |-> done[winner] - units_before, completed |-> done[winner],
     remaining |-> WorkUnits[winner] - done[winner]]

\* The line of scheduler.c:217-227.
ResultLine ==
    [event |-> "result", dispatch |-> pending_number, task |-> winner,
     run_units |-> done[winner] - units_before, completed |-> done[winner],
     remaining |-> WorkUnits[winner] - done[winner]]

\* Wrong: lets one dispatch too many through.
LateLimitReached ==
    options.maxDispatches > 0 /\ global_dispatch > Inc(options.maxDispatches)

LimitReached == options.maxDispatches > 0 /\ global_dispatch > options.maxDispatches

\* Wrong: forgets to clear has_pending_after_log.
StillPending == pending

PendingAfterLog == FALSE

\* Wrong: the limit cuts off the result of the last dispatch.
OwesUntilLimit == pending /\ ~LimitReached

OwesResult == pending

\* The owed compensation and result line, then the test of the limit.
AfterDispatch ==
    /\ mpc = "after"
    /\ IF OwesResult
       THEN /\ effective_tickets' =
                 [effective_tickets EXCEPT
                    ![winner] = TicketsAfter(winner, options.compensation)]
            /\ log' = ResultLine
       ELSE UNCHANGED <<effective_tickets, log>>
    /\ pending' = PendingAfterLog
    /\ mpc' = IF LimitReached THEN "shutdown" ELSE "finished"
    /\ UNCHANGED <<options, state, done, dispatches, first_dispatch,
                   last_dispatch, slice_size, lockVars, workerVars, scanVars,
                   drawVars, units_before, pending_number, global_dispatch,
                   summary>>

TaskShutdownAll ==
    /\ mpc = "shutdown"
    /\ mutex = Main
    /\ state' = [t \in Task |-> IF state[t] = "READY" THEN "FINISHED" ELSE state[t]]
    /\ sleepers' = StillAsleep
    /\ mutex' = Nobody
    /\ mpc' = "summary"
    /\ UNCHANGED <<options, done, dispatches, first_dispatch, last_dispatch,
                   effective_tickets, slice_size, workerVars, scanVars, drawVars,
                   loopVars, outputVars>>

\* task_is_finished inside scheduler_all_tasks_finished.
CheckFinished ==
    /\ mpc = "finished"
    /\ mutex = Main
    /\ mutex' = Nobody
    /\ IF state[cur] = "FINISHED" /\ HasNext
       THEN cur' = cur + 1 /\ mpc' = mpc
       ELSE /\ cur' = 1
            /\ mpc' = IF state[cur] = "FINISHED" THEN "summary" ELSE "count"
    /\ UNCHANGED <<options, taskVars, sleepers, workerVars, acc, drawVars,
                   loopVars, outputVars>>

IsEligible(t) == state[t] = "READY"

\* One node of scheduler_calculate_cumulutive_tickets; after the last one the
\* loop goes on to the draw, or starts over if nobody has a ticket.
CountTickets ==
    LET sum == acc + (IF IsEligible(cur) THEN effective_tickets[cur] ELSE 0)
    IN  /\ mpc = "count"
        /\ mutex = Main
        /\ mutex' = Nobody
        /\ IF HasNext
           THEN /\ cur' = cur + 1 /\ acc' = sum
                /\ UNCHANGED <<mpc, active_tickets>>
           ELSE /\ cur' = 1 /\ acc' = 0
                /\ active_tickets' = sum
                /\ mpc' = IF sum = 0 THEN "wait" ELSE "draw"
        /\ UNCHANGED <<options, taskVars, sleepers, workerVars, ticket, winner,
                       rng_seed, loopVars, outputVars>>

\* scheduler_sort_winner_ticket with a seeded generator.
DrawTicket ==
    /\ mpc = "draw"
    /\ rng_seed # 0
    /\ \E x \in RngNext[rng_seed] :
          /\ rng_seed' = x
          /\ ticket' = WinningTicket(x, active_tickets)
    /\ mpc' = "pick"
    /\ UNCHANGED <<options, taskVars, lockVars, workerVars, scanVars,
                   active_tickets, winner, loopVars, outputVars>>

\* rng_xorshift32_get refuses to work without a seed; the ticket is then 0.
DrawTicketUnseeded ==
    /\ mpc = "draw"
    /\ rng_seed = 0
    /\ ticket' = 0
    /\ mpc' = "pick"
    /\ UNCHANGED <<options, taskVars, lockVars, workerVars, scanVars,
                   active_tickets, winner, rng_seed, loopVars, outputVars>>

\* Wrong: the comparison with > in place of >=.
StrictlyCovers(sum, k) == sum > k

Covers(sum, k) == sum >= k

\* One node of scheduler_winner_task.  A list scanned without a winner gives
\* NULL, and the main loop breaks.
PickWinner ==
    LET sum == acc + (IF IsEligible(cur) THEN effective_tickets[cur] ELSE 0)
        wins == IsEligible(cur) /\ Covers(sum, ticket)
    IN  /\ mpc = "pick"
        /\ mutex = Main
        /\ mutex' = Nobody
        /\ IF ~wins /\ HasNext
           THEN /\ cur' = cur + 1 /\ acc' = sum
                /\ UNCHANGED <<mpc, winner>>
           ELSE /\ cur' = 1 /\ acc' = 0
                /\ winner' = IF wins THEN cur ELSE NoTask
                /\ mpc' = IF wins THEN "decide" ELSE "summary"
        /\ UNCHANGED <<options, taskVars, sleepers, workerVars, active_tickets,
                       ticket, rng_seed, loopVars, outputVars>>

\* The line of scheduler.c:302-310, written before the winner is woken.
LogDecision ==
    /\ mpc = "decide"
    /\ units_before' = done[winner]
    /\ log' = [event |-> "decision", dispatch |-> global_dispatch,
               task |-> winner, run_units |-> 0, completed |-> done[winner],
               remaining |-> WorkUnits[winner] - done[winner]]
    /\ mpc' = "dispatch"
    /\ UNCHANGED <<options, taskVars, lockVars, workerVars, scanVars, drawVars,
                   pending, pending_number, global_dispatch, summary>>

\* Wrong: first_dispatch overwritten by every dispatch.
AlwaysFirst(t) == TRUE

FirstTime(t) == Inc(dispatches[t]) = 1

\* task_transition_to_running, whose result the caller ignores, and the end of
\* the loop body.
TransitionToRunning ==
    /\ mpc = "dispatch"
    /\ mutex = Main
    /\ IF state[winner] = "READY"
       THEN /\ state' = [state EXCEPT ![winner] = "RUNNING"]
            /\ dispatches' = [dispatches EXCEPT ![winner] = Inc(@)]
            /\ first_dispatch' = [first_dispatch EXCEPT
                   ![winner] = IF FirstTime(winner) THEN global_dispatch ELSE @]
            /\ last_dispatch' = [last_dispatch EXCEPT ![winner] = global_dispatch]
            /\ sleepers' = StillAsleep
       ELSE UNCHANGED <<state, dispatches, first_dispatch, last_dispatch, sleepers>>
    /\ mutex' = Nobody
    /\ pending' = TRUE
    /\ pending_number' = global_dispatch
    /\ global_dispatch' = Inc(global_dispatch)
    /\ mpc' = "wait"
    /\ ticket' = 0 /\ active_tickets' = 0   \* locals of one iteration
    /\ UNCHANGED <<options, done, effective_tickets, slice_size, workerVars,
                   scanVars, winner, rng_seed, units_before, outputVars>>

-----------------------------------------------------------------------------
\* logger_write_summary and scheduler_deinit.

\* The summary file cannot always be opened, and main ignores that.
WriteSummary ==
    /\ mpc = "summary"
    /\ summary' \in {NoSummary,
                     [t \in Task |-> <<done[t], dispatches[t], last_dispatch[t]>>]}
    /\ mpc' = "join"
    /\ UNCHANGED <<options, taskVars, lockVars, workerVars, scanVars, drawVars,
                   loopVars, log>>

\* Wrong: a deinit that does not wait for its threads.
JoinsNobody(t) == TRUE

\* pthread_join returns once the thread has returned.
Joinable(t) == wpc[t] = "exited"

JoinWorker ==
    /\ mpc = "join"
    /\ Joinable(cur)
    /\ IF HasNext
       THEN cur' = cur + 1 /\ mpc' = mpc
       ELSE cur' = 1 /\ mpc' = "clean"
    /\ UNCHANGED <<options, taskVars, lockVars, workerVars, acc, drawVars,
                   loopVars, outputVars>>

\* dll_clean_list frees every task and node; main returns 0.
CleanList ==
    /\ mpc = "clean"
    /\ mpc' = "returned0"
    /\ UNCHANGED <<options, taskVars, lockVars, workerVars, scanVars, drawVars,
                   loopVars, outputVars>>

-----------------------------------------------------------------------------
\* task_do_work_unit, the body of every worker.

\* Wrong: leaves the wait without looking for FINISHED.
NoLongerReady(t) == state[t] # "READY"

Dispatched(t) == state[t] = "RUNNING"

\* The three ways out of the test at the top of the loop.
SleepWhileReady(t) ==
    /\ Alive
    /\ wpc[t] = "idle" /\ mutex = t
    /\ state[t] = "READY"
    /\ CondWait(t)
    /\ UNCHANGED <<options, taskVars, workerVars, mpc, scanVars, drawVars,
                   loopVars, outputVars>>

StartDispatch(t) ==
    /\ Alive
    /\ wpc[t] = "idle" /\ mutex = t
    /\ Dispatched(t)
    /\ mutex' = Nobody
    /\ wpc' = [wpc EXCEPT ![t] = "compute"]
    /\ units_run' = [units_run EXCEPT ![t] = 0]
    /\ UNCHANGED <<options, taskVars, sleepers, mpc, scanVars, drawVars,
                   loopVars, outputVars>>

Exit(t) ==
    /\ Alive
    /\ wpc[t] = "idle" /\ mutex = t
    /\ state[t] = "FINISHED"
    /\ mutex' = Nobody
    /\ wpc' = [wpc EXCEPT ![t] = "exited"]
    /\ UNCHANGED <<options, taskVars, sleepers, units_run, mpc, scanVars,
                   drawVars, loopVars, outputVars>>

HasMode(t) == slice_size[t] > 0 \/ options.quantum > 0

\* The slice in cooperative mode, the quantum otherwise.
UnitsPerDispatch(t) ==
    IF slice_size[t] > 0 THEN slice_size[t] ELSE options.quantum

\* Wrong: the dispatch is not cut short by yield_fraction.
FullDispatch(t) == AtLeastOne(UnitsPerDispatch(t))

DispatchUnits(t) == EarlyLimit[t][UnitsPerDispatch(t)]

\* Wrong: a loop that only looks at the size of the dispatch.
IgnoresWork(t) == units_run[t] < DispatchUnits(t)

MoreUnits(t) == units_run[t] < DispatchUnits(t) /\ done[t] < WorkUnits[t]

\* task_do_one_working_unit inside one of the two loops.
RunUnit(t) ==
    /\ Alive
    /\ wpc[t] = "compute"
    /\ HasMode(t) /\ MoreUnits(t)
    /\ done' = [done EXCEPT ![t] = @ + 1]
    /\ units_run' = [units_run EXCEPT ![t] = @ + 1]
    /\ UNCHANGED <<options, state, dispatches, first_dispatch, last_dispatch,
                   effective_tickets, slice_size, lockVars, wpc, mpc, scanVars,
                   drawVars, loopVars, outputVars>>

EndDispatch(t) ==
    /\ Alive
    /\ wpc[t] = "compute"
    /\ HasMode(t) /\ ~MoreUnits(t)
    /\ wpc' = [wpc EXCEPT ![t] = "report"]
    /\ UNCHANGED <<options, taskVars, lockVars, units_run, mpc, scanVars,
                   drawVars, loopVars, outputVars>>

\* No slice and no quantum: a single unit, not to hang the scheduler.
RunWithoutMode(t) ==
    /\ Alive
    /\ wpc[t] = "compute"
    /\ ~HasMode(t)
    /\ done' = [done EXCEPT ![t] = @ + 1]
    /\ wpc' = [wpc EXCEPT ![t] = "report"]
    /\ UNCHANGED <<options, state, dispatches, first_dispatch, last_dispatch,
                   effective_tickets, slice_size, lockVars, units_run, mpc,
                   scanVars, drawVars, loopVars, outputVars>>

\* Wrong: one unit short.
DoneTooSoon(t) == IF done[t] + 1 >= WorkUnits[t] THEN "FINISHED" ELSE "READY"

StateAfterWork(t) == IF done[t] >= WorkUnits[t] THEN "FINISHED" ELSE "READY"

Report(t) ==
    /\ Alive
    /\ wpc[t] = "report" /\ mutex = t
    /\ state' = [state EXCEPT ![t] = StateAfterWork(t)]
    /\ sleepers' = StillAsleep
    /\ mutex' = Nobody
    /\ wpc' = [wpc EXCEPT ![t] = "idle"]
    /\ UNCHANGED <<options, done, dispatches, first_dispatch, last_dispatch,
                   effective_tickets, slice_size, units_run, mpc, scanVars,
                   drawVars, loopVars, outputVars>>

-----------------------------------------------------------------------------
MainStep ==
    \/ CreateWorker \/ CreateWorkerFails \/ ConfigureCooperative
    \/ Lock(Main) \/ WaitUntilNoRunning \/ AfterDispatch \/ TaskShutdownAll
    \/ CheckFinished \/ CountTickets \/ DrawTicket \/ DrawTicketUnseeded
    \/ PickWinner \/ LogDecision \/ TransitionToRunning
    \/ WriteSummary \/ JoinWorker \/ CleanList

WorkerStep(t) ==
    \/ Lock(t) \/ SleepWhileReady(t) \/ StartDispatch(t) \/ Exit(t)
    \/ RunUnit(t) \/ EndDispatch(t) \/ RunWithoutMode(t) \/ Report(t)

Terminated == ~Alive /\ UNCHANGED vars

Next == MainStep \/ (\E t \in Task : WorkerStep(t)) \/ SpuriousWakeup \/ Terminated

\* The operating system keeps running every thread that can run, and a wait
\* is not interrupted spuriously for ever.
Fairness ==
    /\ WF_vars(MainStep)
    /\ \A t \in Task : WF_vars(WorkerStep(t))
    /\ <>[][~SpuriousWakeup]_vars

Spec == Init /\ [][Next]_vars

FairSpec == Spec /\ Fairness
=============================================================================
