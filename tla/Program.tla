------------------------------- MODULE Program -------------------------------
(***************************************************************************)
(* A run of the program from main to its exit: the command line, the task   *)
(* file, the generator, the table of threads and the log, put together.     *)
(*                                                                         *)
(* The main loop is the sequential one that the threads implement (see      *)
(* SequentialLottery).  A draw picks any task that has work left, and a       *)
(* dispatch does any amount of that work: which task is a matter of the      *)
(* tickets, and how much one of the allotments.                            *)
(***************************************************************************)
EXTENDS EventLog, TaskFile, XorShift32

CONSTANT BitsOf     \* the word of each uint32_t

ASSUME BitsOfAssumption ==
    /\ BitsOf \in [0..UintMax -> BitWord]
    /\ \A n \in 0..UintMax : BitsOf[n] = Zero => n = 0

VARIABLES
    phase,              \* where main is
    outcome,            \* how the program ended
    threads_per_task,   \* for each id, the node whose worker it is
    started,            \* the number of workers created
    joined,             \* the nodes whose workers were joined, in order
    work_units_done, global_dispatch,
    pending             \* the node of the dispatch not logged yet, or 0

loopVars == <<work_units_done, global_dispatch, pending>>
threadVars == <<threads_per_task, started, joined>>
mainVars == <<phase, outcome, threadVars, loopVars>>
vars == <<cliVars, logVars, fileVars, rng_seed, mainVars>>

Nodes == DOMAIN tasks

Slots == 0..MaxTasks    \* MAX_TASK_THREADS is one more than MAX_TASKS

ProgramInit ==
    /\ CommandInit /\ LogInit /\ FileInit
    /\ rng_seed = Zero
    /\ phase = "options"
    /\ outcome = "none"
    /\ threads_per_task = [id \in Slots |-> 0]
    /\ started = 0
    /\ joined = << >>
    /\ work_units_done = << >>
    /\ global_dispatch = 1
    /\ pending = 0

Exit(how) ==
    /\ phase' = "ended"
    /\ outcome' = how

GoTo(place) ==
    /\ phase' = place
    /\ UNCHANGED outcome

-----------------------------------------------------------------------------
\* The command line and the task file.

ReadOptions ==
    /\ phase = "options"
    /\ CommandStep
    /\ UNCHANGED <<logVars, fileVars, rng_seed, mainVars>>

OptionsRead ==
    /\ phase = "options"
    /\ \/ cli \in {"validated", "helped"} /\ GoTo("load")
       \/ cli = "refused" /\ Exit("exit1")
       \/ cli = "crashed" /\ Exit("crash")
    /\ UNCHANGED <<cliVars, logVars, fileVars, rng_seed, threadVars, loopVars>>

\* A path that is NULL or no file cannot be read.
Load ==
    /\ phase = "load"
    /\ LoadStep
    /\ load' = "header" => param.input \in RegularFiles
    /\ UNCHANGED <<cliVars, logVars, rng_seed, mainVars>>

Loaded ==
    /\ phase = "load"
    /\ \/ load = "failed" /\ Exit("exit1") /\ UNCHANGED <<rng_seed, loopVars>>
       \/ /\ load = "loaded"
          /\ SeedWith(BitsOf[param.seed])
          /\ work_units_done' = [i \in Nodes |-> 0]
          /\ UNCHANGED <<global_dispatch, pending>>
          /\ GoTo("threads")
    /\ UNCHANGED <<cliVars, logVars, fileVars, threadVars>>

-----------------------------------------------------------------------------
\* The workers.

\* What is written beyond the table is undefined.
CreateWorker ==
    /\ phase = "threads"
    /\ started < Len(tasks)
    /\ LET id == tasks[started + 1].id
       IN  IF id \in Slots
           THEN /\ threads_per_task' = [threads_per_task EXCEPT ![id] = started + 1]
                /\ started' = started + 1
                /\ UNCHANGED <<phase, outcome>>
           ELSE /\ Exit("undefined")
                /\ UNCHANGED <<threads_per_task, started>>
    /\ UNCHANGED <<cliVars, logVars, fileVars, rng_seed, joined, loopVars>>

CreateWorkerFails ==
    /\ phase = "threads"
    /\ started < Len(tasks)
    /\ Exit("exit1")
    /\ UNCHANGED <<cliVars, logVars, fileVars, rng_seed, threadVars, loopVars>>

AllCreated == \A i \in Nodes : tasks[i].created

\* A worker, or main in the loop or while it configures the slices, follows
\* the pointer of a node that has no task.
MissingTaskCrashes ==
    /\ phase \in {"threads", "configure", "logger", "loop"}
    /\ \E i \in 1..started : ~tasks[i].created
    /\ Exit("crash")
    /\ UNCHANGED <<cliVars, logVars, fileVars, rng_seed, threadVars, loopVars>>

WorkersCreated ==
    /\ phase = "threads"
    /\ started = Len(tasks)
    /\ GoTo("configure")
    /\ UNCHANGED <<cliVars, logVars, fileVars, rng_seed, threadVars, loopVars>>

\* The slices are configured in the cooperative mode only, from the tasks.
\* strcmp crashes on a mode that is NULL.
Configure ==
    /\ phase = "configure"
    /\ IF param.mode = NULL THEN Exit("crash") ELSE GoTo("logger")
    /\ param.mode = "cooperative" => AllCreated
    /\ UNCHANGED <<cliVars, logVars, fileVars, rng_seed, threadVars, loopVars>>

InitLogger ==
    /\ phase = "logger"
    /\ LogStep
    /\ IF logger' = "ready" THEN GoTo("loop") ELSE UNCHANGED <<phase, outcome>>
    /\ UNCHANGED <<cliVars, fileVars, rng_seed, threadVars, loopVars>>

-----------------------------------------------------------------------------
\* The main loop.

Unfinished == {i \in Nodes : work_units_done[i] < tasks[i].work}

\* Wrong: global_dispatch is the number of the next dispatch, not of the last.
LimitMet == param.max_dispatches > 0 /\ global_dispatch >= param.max_dispatches

LimitReached == param.max_dispatches > 0 /\ global_dispatch > param.max_dispatches

\* The winner does a unit at least, and no more than its work.  How many is a
\* matter of its slice or quantum and of its yield (see WorkSizing).
CanReach(i) == (work_units_done[i] + 1)..tasks[i].work

Event(event, dispatch, i) ==
    [event |-> event, dispatch |-> dispatch, winner_id |-> tasks[i].id]

\* Without a seed the ticket is 0, and the first task wins.
Draw(i) ==
    \/ Get
    \/ GetRefused /\ \A k \in Unfinished : i <= k

\* A draw, its line in the log, and the work of the winner.
Dispatch ==
    /\ phase = "loop"
    /\ AllCreated
    /\ pending = 0
    /\ ~LimitReached
    /\ \E i \in Unfinished :
          /\ Draw(i)
          /\ LogEvent(Event("decision", global_dispatch, i))
          /\ \E done \in CanReach(i) :
                work_units_done' = [work_units_done EXCEPT ![i] = done]
          /\ pending' = i
    /\ global_dispatch' = (global_dispatch + 1) % (UintMax + 1)
    /\ UNCHANGED <<cliVars, fileVars, phase, outcome, threadVars>>

\* The result line, in the next iteration.
LogResult ==
    /\ phase = "loop"
    /\ pending # 0
    /\ LogEvent(Event("result", (global_dispatch - 1) % (UintMax + 1), pending))
    /\ pending' = 0
    /\ UNCHANGED <<cliVars, fileVars, rng_seed, phase, outcome, threadVars,
                   work_units_done, global_dispatch>>

LogCrashes ==
    /\ phase = "loop"
    /\ ~CanOpen(events_path)
    /\ Exit("crash")
    /\ UNCHANGED <<cliVars, logVars, fileVars, rng_seed, threadVars, loopVars>>

\* Wrong: at the limit nothing is drawn, but the loop goes on.
OnlyWhenFinished == Unfinished = {}

\* task_shutdown_all at the limit, scheduler_all_tasks_finished otherwise.
LoopOver == LimitReached \/ Unfinished = {}

LoopEnds ==
    /\ phase = "loop"
    /\ pending = 0
    /\ LoopOver
    /\ GoTo("summary")
    /\ UNCHANGED <<cliVars, logVars, fileVars, rng_seed, threadVars, loopVars>>

SummaryRows ==
    [i \in Nodes |->
        [task_id |-> tasks[i].id, work |-> tasks[i].work, done |-> work_units_done[i]]]

Summarise ==
    /\ phase = "summary"
    /\ WriteSummary(SummaryRows)
    /\ GoTo("join")
    /\ UNCHANGED <<cliVars, fileVars, rng_seed, threadVars, loopVars>>

\* The thread joined is the one its id finds.
JoinWorker ==
    /\ phase = "join"
    /\ Len(joined) < Len(tasks)
    /\ joined' = Append(joined, threads_per_task[tasks[Len(joined) + 1].id])
    /\ UNCHANGED <<cliVars, logVars, fileVars, rng_seed, phase, outcome,
                   threads_per_task, started, loopVars>>

CleanList ==
    /\ phase = "join"
    /\ Len(joined) = Len(tasks)
    /\ allocated' = allocated - Owned
    /\ tasks' = << >>
    /\ Exit("exit0")
    /\ UNCHANGED <<cliVars, logVars, load, file, unread, total_tickets, out_of_memory,
                   rng_seed, threadVars, loopVars>>

MainStep ==
    \/ OptionsRead \/ Load \/ Loaded
    \/ CreateWorker \/ CreateWorkerFails \/ WorkersCreated \/ MissingTaskCrashes
    \/ Configure \/ InitLogger
    \/ Dispatch \/ LogResult \/ LogCrashes \/ LoopEnds
    \/ Summarise \/ JoinWorker \/ CleanList

CommandLineEnds ==
    /\ phase = "options"
    /\ EndOfOptions
    /\ UNCHANGED <<logVars, fileVars, rng_seed, mainVars>>

ProgramNext == ReadOptions \/ MainStep

ProgramSpec == ProgramInit /\ [][ProgramNext]_vars

\* The program is run, and its command line ends.
FairProgram ==
    /\ ProgramSpec
    /\ WF_vars(MainStep)
    /\ WF_vars(CommandLineEnds)

-----------------------------------------------------------------------------
Makeable(p) == Directory[p] \in directories \cup Creatable /\ p \notin Unwritable

\* A run whose options were validated, whose memory sufficed, whose ids have
\* an entry in the table and both of whose paths can be made does not crash,
\* whatever options came in which order (parser.c:232-271, main.c:30-43,
\* scheduler.c:122, logger.c:129-150).
SoundRunsDoNotCrash ==
    outcome \in {"crash", "undefined"} =>
        \/ cli # "validated"
        \/ out_of_memory = "task"
        \/ \E i \in Nodes : tasks[i].id \notin Slots
        \/ ~Makeable(EventsTarget)
        \/ ~Makeable(SummaryTarget)

\* The lines of a log with a decision and a result for each dispatch.
InPairs(log) ==
    /\ Len(log) = 2 * (global_dispatch - 1)
    /\ \A d \in 1..(global_dispatch - 1) :
          /\ log[2 * d - 1].event = "decision"
          /\ log[2 * d] = [log[2 * d - 1] EXCEPT !.event = "result"]
          /\ log[2 * d].dispatch = d

\* At the end of a run the event log holds a decision and a result for each
\* dispatch, in order and for the same winner, and nothing of an earlier run,
\* unless the summary went over it (scheduler.c:206-229, 302-339,
\* logger.c:136-141).
EventLogIsComplete ==
    outcome = "exit0" /\ events_path # summary_path => InPairs(files[events_path])

\* The rows of a summary against the lines of a log.
Agree(summary, log) ==
    \A i \in DOMAIN summary :
       /\ summary[i].done > 0 <=>
             \E k \in DOMAIN log : log[k].winner_id = summary[i].task_id
       /\ summary[i].done < summary[i].work => Len(log) = 2 * param.max_dispatches

\* The two files of a run tell the same story: a task has done something in the
\* summary exactly if it won a dispatch in the log, and it is short of its work
\* only if the log has as many dispatches as --max-dispatches allows
\* (scheduler.c:231-245, logger.c:165-214).
SummaryAgreesWithLog ==
    outcome = "exit0" /\ events_path # summary_path /\ CanOpen(summary_path) =>
        Agree(files[summary_path], files[events_path])

\* A run that ends well has joined each worker it created exactly once, and
\* has freed what the parser allocated (scheduler.c:343-363): looking a thread
\* up by the id of its task finds it, as no two tasks have the same id.
EndsClean ==
    outcome = "exit0" =>
        /\ Len(joined) = started
        /\ {joined[k] : k \in DOMAIN joined} = 1..started
        /\ allocated = 0

\* A run with validated options never finds the generator without a seed, so
\* that no draw is refused (parser.c:255-258, scheduler.c:60, rng.c:29-32).
DrawsAreNeverRefused == cli = "validated" /\ phase = "loop" => ~Unseeded

\* Every run ends, whatever it is given (main.c:16-50).
ProgramEnds == <>(phase = "ended")
=============================================================================
