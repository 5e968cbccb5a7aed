# Verification of the lottery scheduler

The program is a C simulation of lottery scheduling: a main thread repeatedly
draws a winner among the ready tasks of a CSV file, lets the winner's worker
thread compute terms of the arcsine series for pi for a quantum or a slice, and
writes an event log and a summary. This directory holds TLA+ modules
that follow the C code, TLC configurations that model-check them, and TLAPS
proofs. Line numbers refer to `src/src/*.c` and `src/include/*.h` as of this
commit.

## 1. The system

| Component | Files | State | Operations |
|---|---|---|---|
| Scheduler main loop and worker threads | `scheduler.c`, `task.c`, `main.c` | `threads_per_task`, `mutex`, `state_cond`; per task `state`, `work_units_done`, `slice_size`, `effective_tickets`, `dispatch_count`, `first_dispatch`, `last_dispatch`; the locals of `scheduler_main_loop` | `scheduler_init`, `scheduler_configure_cooperative`, `scheduler_main_loop`, `scheduler_deinit`; `task_do_work_unit`, `task_wait_until_no_running`, `task_transition_to_running`, `task_shutdown_all`, `task_is_eligible`, `task_is_finished`, `task_apply_compensation` |
| Lottery arithmetic | `scheduler.c`, `task.c` | none | ticket sums, draw, search for the winner, slice, early limit, compensation |
| xorshift32 generator | `rng.c` | one 32-bit word and whether it has been seeded | `rng_xorshift32_seed`, `rng_xorshift32_get` |
| Doubly linked list | `double_linked_list.c` | nodes with id, data, next, prev | create, append, insert, find, delete, `dll_clean_list`, `FOR_EACH_NODE` |
| Task file parser | `parser.c` (`parser_load`) | the list being built, the ticket sum | accept or reject a CSV file of 5 to 25 tasks |
| Command line parser | `parser.c` (`parser_parameter_get`) | the parsed options | accept, reject, or `--help` |
| Event log and summary | `logger.c` | two paths and the log file | `logger_init_structure`, `logger_log_tod`, `LOG_EVENT`, `logger_write_summary` |
| Pi approximation | `task.c` | partial sum, current term | `task_do_one_working_unit` |
| Task functions without a caller | `task.c`, `scheduler.c` | - | `task_transition_to_ready`, `task_transition_to_finished`, `task_wait_for_state_change`, `task_is_there_any_running_task`, `task_broadcast_signal_to_wake_threads`, `task_destroy`, `scheduler_configure_quantum` |
| Unit tests, stress script, Makefiles | `src/tests`, `src/Makefile` | - | - |

How they interact. `main` parses the command line, `scheduler_init` loads the
list and starts one worker per task, and from then on the main thread and the
workers share the list under one mutex and one condition variable on which
everybody waits and which everybody broadcasts. The scheduler marks the winner
RUNNING and, in the next iteration, waits until nothing is RUNNING. Between
those points the worker computes *without* the mutex, and when nothing is
RUNNING the main thread reads and writes task fields *without* the mutex: the
state RUNNING is the real lock. The compensation and the result line of a
dispatch are deferred to the iteration after it.

What is hard. The hand-over of exclusive control through `state`; wakeups on a
shared condition variable, spurious ones included; two separate scans of the
list, each locking node by node, that must see the same tickets; variables
remembered across a wait; the shutdown by `--max-dispatches` while workers
sleep; joining threads and freeing their list; unsigned wrap-around; and
the many ways in which quantum, slice, yield and remaining work meet, in
floating-point arithmetic. Around the threads: failures that one component
reports and the next ignores (`task_create`, `logger_init_structure`), options
that are never validated, pointers in a list that is being changed. The
hazards are listed line by line in `PROJECT.json`.

What makes each component correct:

- *Main loop and workers*: one task runs at a time, nobody sleeps over a
  condition that has come true, task fields are never touched by two threads at
  once, the loop ends with every task FINISHED, so the joins return and the list
  is freed after its last use; counters and log lines agree with what was
  done; the program ends.
- *Arithmetic*: each ready task wins with exactly its share of the tickets,
  compensation makes up for the units not used, no ticket is without owner, the
  amount of work does not depend on luck.
- *Generator*: a nonzero seed never leads to 0.
- *List*: the order of insertion, `prev` inverse to `next`, no leak, no walk
  without end; to its callers it is a sequence.
- *Task file*: exactly the files that are right as a whole are accepted, and
  what the scheduler gets is what it relies on; a rejected file leaves nothing.
- *Command line*: what reaches `main` as accepted was validated, or `--help` was
  given.
- *Logger*: one decision and one result per dispatch, those of this run only; a
  summary of final values that agrees with the log.
- *The whole run*: it ends, crashes only where it cannot be helped, joins every
  worker and frees every task.

## 2. Modules

| Module | Models |
|---|---|
| `Floats` | `float`, `double` and 32-bit arithmetic: slices, early limits, boosts, and what rounding leaves of them |
| `Lottery` | extends `Floats`: constants with their assumptions, each task's slices, limits and boosts, prefix sums, draw and winner |
| `LotteryScheduler` | main and workers, one action per step between two points of interference |
| `LotteryCorrectness` | the properties of the threads and the parts of the inductive invariant |
| `SequentialLottery` | what the threads promise: one sequential loop (draw, dispatch, work, settle, halt) |
| `LotteryRefinement` | the refinement mapping from the threads to the loop |
| `Floats_proofs` | lemmas on rounding and on the three sizes |
| `Lottery_proofs` | lemmas on sums, winners and dispatches |
| `LotteryScheduler_proofs`, `LotteryDispatch_proofs`, `SequentialLottery_proofs` | theorems and proofs |
| `DoubleLinkedList` | the list on a heap, one node per step |
| `TaskSequence` | what the list promises: a sequence of ids |
| `ListRefinement` | the refinement mapping from the list to the sequence |
| `Words` | the width of `uint32_t` for the parsers |
| `TaskFile` | `parser_load`, line by line, and a description of right files |
| `CommandLine` | `parser_parameter_get`, option by option, and validation |
| `EventLog` | `logger.c`: paths, directories, files |
| `XorShift32` | `rng.c` on sets of bits |
| `WorkSizing` | extends `Floats`: one task from its configuration to its end, from one end of the ranges of floats and words to the other |
| `Program` | `main` from the command line to the exit: extends `EventLog` (which extends `CommandLine`), `TaskFile` and `XorShift32` |
| `DoubleLinkedList_proofs`, `WorkSizing_proofs` | theorems and proofs |
| `Program_proofs` | theorems and proofs of the task file, the generator and the whole run |
| `MCLottery`, `MCSequential`, `MCTaskFile`, `MCProgram`, `MCSizing` | instances for TLC; the constants of `ListRefinement` are plain enough for its `.cfg` |

`LotteryScheduler` and `Program` model `main` at two grains. The first has all
threads, and takes options and tasks as given constants; the second has
everything before and after the threads, and in their place the sequential loop
that `LotteryRefinement` shows them to implement.

**State.** Every field of `task_t` that is control or is reported has a variable
(`done` is `work_units_done`, `dispatches` is `dispatch_count`); `tickets`,
`work_units` and `yield_fraction` never change and are constants. `mpc` and
`wpc[t]` are places in the code of the main thread and of worker `t`. `cur` and
`acc` are the cursor and the sum of the scan in progress; `winner`,
`units_before`, `pending`, `pending_number`, `global_dispatch`,
`active_tickets` and `ticket` are the locals of `scheduler_main_loop`. Tasks are
named by their position in the list.

**Critical sections.** Every critical section of the code takes the one mutex,
changes or reads the list, and ends in an unlock or in `pthread_cond_wait`. It
is two steps: `Lock(t)`, by which thread `t` at a lock point becomes the holder,
and an action whose guard is `mutex = t`. `pthread_cond_wait` releases the mutex
and joins `sleepers`; a broadcast empties `sleepers`, after which a thread must
`Lock` again and re-test, as the `while` loops of the code do. `SpuriousWakeup`
takes any thread out of `sleepers`. Functions that lock for each node
(`task_is_finished`, `task_is_eligible` in the two ticket scans) are one
critical section per node.

| Action | Code |
|---|---|
| `CreateWorker`, `CreateWorkerFails` | `scheduler.c:110-128`, one `pthread_create` |
| `ConfigureCooperative` | `scheduler.c:130-138`, one task |
| `WaitUntilNoRunning` | `task.c:150-213` |
| `AfterDispatch` | `scheduler.c:197-235`, owed compensation and result line, test of the limit |
| `TaskShutdownAll` | `task.c:477-487` |
| `CheckFinished`, `CountTickets`, `PickWinner` | `scheduler.c:40-47`, `22-38`, `69-95`, one node |
| `DrawTicket`, `DrawTicketUnseeded` | `scheduler.c:49-67` with `rng.c:27-51` |
| `LogDecision`, `TransitionToRunning` | `scheduler.c:287-341` with `task.c:76-124` |
| `WriteSummary`, `JoinWorker`, `CleanList` | `logger.c:165-214`, `scheduler.c:343-363`, `double_linked_list.c:79-90` |
| `SleepWhileReady`, `StartDispatch`, `Exit` | `task.c:360-393` |
| `RunUnit`, `EndDispatch`, `RunWithoutMode` | `task.c:286-345`, `395-415` |
| `Report` | `task.c:418-443` |

Other modules:

| Action | Code |
|---|---|
| `InsertCall`, `InsertFirst`, `InsertWalk`, `InsertLast`, `InsertOutOfMemory` | `dll_insert_node`, `double_linked_list.c:15-53` |
| `Search`, `SearchWalk`, `NotFound`, `FindNode`, `RemoveNode` | `dll_remove_node`, `dll_find_node`, `double_linked_list.c:56-77, 92-108` |
| `CleanCall`, `CleanNode`, `CleanEnd` | `dll_clean_list`, `double_linked_list.c:79-90` |
| `OpenFile`, `OpenFails`, `ReadHeader` | `parser.c:95-117` |
| `SkipEmptyLine`, `AcceptLine`, `RejectLine`, `InsertFails`, `EndOfFile` | the loop and the ends of `parser_load`, `parser.c:119-230` |
| `OptionWithArgument`, `ShortTextOption`, `ShortNumberOption`, `Compensation`, `Help`, `UnknownOption`, `EndOfOptions` | `parser.c:232-354` |
| `FillPaths`, `MakeSummaryTree`, `MakeEventsTree` | `logger_init_structure`, `logger.c:14-126` |
| `LogEvent`, `WriteSummary` | `logger.h:59-68` with `logger.c:129-162`; `logger.c:165-214` |
| `Get`, `GetRefused`, `SeedWith` | `rng.c:15-51` |
| `ConfigureCooperative`, `Dispatch` of `WorkSizing` | `scheduler.c:130-138`, `task.c:281-345` and `219-227` |
| `OptionsRead`, `Load`, `Loaded`, `CreateWorker`, `CreateWorkerFails`, `WorkersCreated`, `Configure`, `InitLogger` | `main.c:16-41` with `scheduler.c:110-138` |
| `Dispatch`, `LogResult`, `LoopEnds`, `LogCrashes`, `MissingTaskCrashes` | `scheduler.c:149-341`, seen from the main thread |
| `Summarise`, `JoinWorker`, `CleanList` | `main.c:45-50` with `scheduler.c:343-362` |

**Abstractions.**

- `yield_fraction` and `slice_percent` are whole percentages, and the arithmetic
  on them is that of the code: a floating-point number is a fraction, and each
  operation rounds to so many bits. `task_t` keeps the yield as a `float`
  (`task.h:59`), so a boost divides by the `float` next to the percentage. The
  exponents are not bounded.
- A conversion to `uint32_t` of a `float` that is none is undefined. `WorkSizing`
  lets it wrap or saturate each time; in `Lottery` one build does one or the
  other, and nothing is assumed about which.
- `Program` leaves all of this out: a dispatch does any number of units from 1 to
  what is left of the work (`CanReach`).
- A node and the task it owns are one address in `DoubleLinkedList`, as the list
  frees them together. In `TaskFile` the list is a sequence, which
  `ImplementsSequence` justifies, and a node may lack its task.
- A line of a task file is what `fgets` and `sscanf` make of it. A fourth field
  that is not a number at all (NaN) passes both range tests and becomes 1.0 in
  `task_create`, as in the code. A first line that is a task is skipped like a
  header.
- An option's argument is the number that `strtoul` or `strtof` reads; `strtoul`
  accepts a minus sign and negates in 64 bits, so `Unsigned` takes the remainder.
- A path lies in one directory, and a directory can be made or not. Two paths are
  two files. `fopen` fails for a path without its directory, for one in
  `Unwritable`, and for the empty one.
- In `Program` the winner is any task with work left, unless the draw is refused;
  what an id outside the table does is the outcome `"undefined"`.
- `UintMax` stands for `UINT32_MAX` and is small in the runs; every theorem
  holds for any value. Truncation to 32 bits is `% (UintMax + 1)`.
- The generator is a relation `RngNext` between nonzero words. In the runs any
  word may follow any word, which covers every seed.
- `task_do_one_working_unit` can fail only if a term of the series is not
  finite; each term is the one before times a factor below 1, so that branch is
  unreachable and is left out.
- In `LotteryScheduler` the event log can be opened and every node has its task;
  `Program` has the other cases. `pthread_join` does not fail.
  `pthread_create` may fail. The summary file may fail to open.
- Options not validated because `--help` returned early (mode, quantum or
  seed missing) are among `Options`.
- Operators whose comment begins with *Wrong:* are not used. Each is a
  plausible mistake in the definition below it; putting it in its place makes
  the property named in `PROJECT.json` fail.

## 3. What is checked

| Run | Instance | Shows |
|---|---|---|
| `threads` | 5 tasks, quantum mode, one task that yields, with and without a limit; no fairness | `SoleRunner`, `RaceFree`, `NoLostWakeup`, `LoopEndsFinished`, `FreedAfterExit`, `DispatchesAccounted`, `SummaryIsFinal`, `LastResultIsLogged`, `FinishedIsTerminal`, `LogPairs`, `SafetyInvariant` under every interleaving and spurious wakeup |
| `modes` | 3 tasks, one of which yields, floats of 8 bits, doubles of 14, words of 9; both modes, compensation on and off, limits, validated or not; fair threads | `FinishedShortOnlyByLimit`, `DispatchesWithinLimit`, `WorkMatchesDispatches`, `CompensationIsCurrent`, `EveryReadyTaskCanWin`, that the threads implement the sequential loop and its progress, `Terminates`, `DispatchEnds` |
| `sequential` | 4 tasks, floats of 7 bits, doubles of 13, words of 8 | `DrawIsProportional`, `LuckDoesNotChangeTheWork`, `Halts`, and that boosted tickets and dispatch numbers stay words |
| `list` | 4 nodes, 2 ids, any sequence of calls | `WellLinked`, `CallReturns`, and that the list implements the sequence of `TaskSequence` |
| `taskfile` | files of up to 4 lines over 14 kinds of line, after a header or a task; 2 to 3 tasks, words up to 9 | `AcceptedIsSchedulable`, `RejectedLeavesNothing`, `AcceptsExactlyTaskFiles` |
| `program` | words of 3 bits, 18 arguments, 3 task files, 2 disks | `SoundRunsDoNotCrash`, `EventLogIsComplete`, `SummaryAgreesWithLog`, `EndsClean`, `DrawsAreNeverRefused`, `ProgramEnds` |
| `sizing` | floats of 11 bits, doubles of 17, words of 12 | `SmallWorkIsCutExactly`, `CompensationIsFair`, `DispatchWithinAllotment` |
| `top_limit`, `heavy_boost`, `thread_ids`, `odd_files`, `whole_slice` | as above or smaller | the findings below |

**Bounds.** The only bounds are the constants: there is no state constraint and
no guard that is not in the code, and every run explores its whole state space,
with deadlock checking on except in `sizing`, whose one task stops when its work
is done. Five tasks are the fewest the file parser accepts;
`threads` gives each of them little work so that all six threads can be anywhere.
Two words suffice there because with five single tickets they select a first or a
later ready task. `modes` has fewer tasks than a file may have, in exchange for
more dispatches per task: a task needs several dispatches, a last one that is cut
short, and a yield that shortens it; with two other tasks a broadcast has somebody
to wake who was not meant. In the runs that expect no
violation the active tickets stay below `UintMax`; in `sequential` the boost of one task
is clamped to it. The yield of 40% in `modes` and `sequential` is a `float` above
0.4, as it is with 24 bits, so that one ticket is boosted to 2 and not to 3.

Nothing bounds the calls in `list` or the options in `program`: the state spaces
are finite because heap and argument sets are. Four nodes give a list with a
first, a last and two inner nodes; two ids make duplicates, which
`dll_remove_node` and `dll_find_node` must resolve in favour of the first. In
`taskfile` a file has at most one faulty line, since nothing is read after it.
`program` has a file with a repeated id, one with an id outside the table, and
one that is right; a summary path that cannot be made; both logs in one file; an
event log left over from an earlier run.

The widths of `sizing` are in the order of the real ones: a word may be too long
for a float and never is for a double. Work units, quanta and tickets lie on both
sides of 2^11, up to which a float holds whole numbers exactly. The tickets reach
from a single one to as many as a word holds, whose boost is clamped; of 1000 the
float of a yield moves the boost to another ticket. Quotients by 100 lie as close to
whole numbers, in units of the last place, as they do with 24 bits.

**Fairness.** `FairSpec` asks that the operating system keeps running each
thread that can run (weak fairness of the main thread and of each worker) and
that a wait is not interrupted spuriously for ever. Weak fairness is enough for
the mutex although it is contended, because contention is finite: at most one
worker runs, all others take the mutex a bounded number of times and go to sleep
until the next broadcast. Nothing is assumed about the draws, so termination
does not depend on luck. `FairSpec` of `DoubleLinkedList` asks that a function
that has been entered goes on; nobody has to call one. `FairProgram` asks that
`main` goes on and that the command line ends, as `argc` is finite.

## 4. What is proved

Every property of the passing runs that is not about liveness is a theorem for
every value of the constants, under the hypotheses named below.

### The scheduler

For any number of tasks, any tickets, work, yields, options, widths of float, double
and word, and any generator that satisfy the named assumptions of `Lottery`:

| Theorem | States |
|---|---|
| `TypeCorrect` | `Spec => []TypeOK` |
| `InductiveInvariant` | `Spec => []Scanning`, the invariant behind all others |
| `InductiveInvariantHolds` | `Spec => []SafetyInvariant` |
| `SchedulerHasExclusiveControl` | `Spec => []SoleRunner` |
| `NoDataRace` | `Spec => []RaceFree` |
| `NobodyOversleeps` | `Spec => []NoLostWakeup` |
| `EveryTaskIsFinishedAtTheEnd` | `Spec => []LoopEndsFinished` |
| `NoUseAfterFree` | `Spec => []FreedAfterExit` |
| `FinishedTasksStayFinished` | `Spec => FinishedIsTerminal` |
| `SummaryIsNeverOutdated` | `Spec => []SummaryIsFinal` |
| `LogLinesPair` | `Spec => LogPairs` |
| `NoResultIsLost` | `Spec => []LastResultIsLogged` |
| `WorkAgreesWithDispatches` | `Spec => []WorkMatchesDispatches` |
| `OnlyTheLimitCutsShort` | `Spec => []FinishedShortOnlyByLimit` |
| `LimitIsKept` | `Spec => [](options.maxDispatches < UintMax => DispatchesWithinLimit)` |
| `DispatchesAreAccounted` | `Spec => []DispatchesAccounted`, if all work together is below `UintMax` |
| `CompensationStaysCurrent` | `Spec => []CompensationIsCurrent` |
| `EveryReadyTaskHasAChance` | `Spec => [](active_tickets <= UintMax => EveryReadyTaskCanWin)` |
| `ThreadsImplementTheLoop` | `Spec => ImplementsSequential`: the threads refine `SequentialLottery` |

The first ten are in `LotteryScheduler_proofs`, the others in
`LotteryDispatch_proofs`.

*Assumptions.* At least one task; the widths of `BitsAssumption` (below); tickets and
work units from 1 to `UintMax`; yields from 10 to 100 per cent; options of the right types;
seeds and successors of words are words, and no nonzero word is followed by 0
(all that is asked of the generator). These are what the parsers guarantee,
or less.

*Hypotheses of single theorems.* They are the edges at which the code fails, or
may fail, and not more. A limit of `UintMax` is never enforced (run `top_limit`),
so `LimitIsKept` asks for a smaller one. With active tickets above `UintMax` the
last tasks cannot win (run `heavy_boost`), so `EveryReadyTaskHasAChance` is about
the other states. The dispatch number wraps after `UintMax`; each dispatch does at
least one unit, so that less work than that keeps it exact.

*The invariant.* `RaceFree` is not inductive: that the main thread waits while a
worker computes follows from `SoleRunner` and `OnlyRunningWork` together, which
need the holder of the mutex to be at its lock point and the winner to be READY
between draw and dispatch (`WinnerIsReady`). `Exclusion` collects these.
`NoLostWakeup` needs in addition that a sleeping worker is in its wait loop
(`SleepersMustSleep`). `LoopEndsFinished` is the deepest: it says that
`scheduler_winner_task` never returns NULL, so the `break` of
`scheduler.c:282-285` is dead code. For this the invariant `Scanning` adds that
the count and the search run over the same prefix sums: while the main thread
scans, nothing is RUNNING (`WeightsAreStable`), so the partial sum of either scan
is the prefix sum at its cursor, and a ticket that is at most the total and has
not been reached by the last node is covered by it. There the prefix sums are
*some* function with the two equations of a sum (`Counted`), which is all this
argument needs; `ScanSums` later shows that it is `PrefixSums`.

`SummaryIsFinal` needs that a summary exists only once the loop is over, when
`LoopEndsFinished` says that no task can change any more (`SummaryAfterLoop`).
`LogPairs` needs `OpenDispatch`: the last line of the log is the decision of the
dispatch whose result is owed (`LastLine`), and the units the winner has done
since are those its worker has counted, at least one of them by the time it
reports (`WorkSinceDecision`), because a dispatch is never of 0 units and a READY
task has work left (`ReadyHasWork`).

*Sums.* `PrefixSums` is a recursive function over `0..NumTasks`. `Lottery_proofs`
first shows that some function satisfies its two equations, and then everything
else by induction over an interval, which rests on the least element of a set of
numbers (`LeastNat`, `UpTo`): sums grow, are bounded term by term, and change
with one term by the change of that term. `TicketsThatWin` counts the tickets for
which a task wins: the interval between two neighbouring prefix sums.

*Dispatches.* `WorkDone` says that a task that does not run has done as many
whole dispatches as it was given, cut off at its work, and that one that runs is
between the last of them and the next. With it `Ledger` says that the sum of the
dispatches is the dispatch number (as long as it has not wrapped), that first and
last dispatch leave room for all, that nobody is dispatched more often than it has
units of work, and that no dispatch begins at the limit. `LimitKept` and
`ShortAfterShutdown` follow the limit from its test to the shutdown.
`TicketsSettled` says that a task's tickets are those of its last dispatch unless
that has not been settled yet, and `LastDispatchSettled` that the last line of the
log is the result of the last winner, who has not worked since, until the next one
is picked.

*The refinement.* `Grounds` collects the invariants that a step of the loop needs
from the threads. There is one lemma for each action of `SequentialLottery`, and
one that says that all other steps of the threads leave the mapped state alone:
creating workers, locking, sleeping, waking, every node of either scan. The draw
is the instructive one: it chooses the winner when the ticket is drawn, though
the threads find it many steps later, so `NotPassed` says that the search has not
gone past it.

`SequentialLottery_proofs`:

| Theorem | States |
|---|---|
| `LoopTypeCorrect` | `Spec => []TypeOK`: boosted tickets and dispatch numbers stay words |
| `DrawsAreProportional` | `Spec => []DrawIsProportional` |
| `LuckIsIrrelevant` | `Spec => []LuckDoesNotChangeTheWork`, if all work together is below `UintMax` |

The last needs `WholeDispatches`, that every task with work left has done a whole
number of dispatches, and `Counts`, that the dispatch number is the sum over the
tasks of the dispatches their work amounts to. The sum is the same for every
sequence of winners.

### Around the scheduler

| Theorem | States |
|---|---|
| `DoubleLinkedList_proofs!ListStaysLinked` | `Spec => []WellLinked`, on any finite heap |
| `DoubleLinkedList_proofs!ListIsASequence` | `Spec => ImplementsSequence`: the list refines `TaskSequence` |
| `Program_proofs!ParserGuaranteesSchedulable` | `FileSpec => []AcceptedIsSchedulable`: what `Lottery` assumes of tasks, for any files and word size |
| `Program_proofs!ParserFreesRejectedLists` | `FileSpec => []RejectedLeavesNothing` |
| `Program_proofs!ParserDecidesTaskFiles` | `FileSpec => []AcceptsExactlyTaskFiles`, for files of any length; the files on which the parser disagrees with its documentation (findings 4 and 5) are left open in one direction |
| `Program_proofs!GeneratorIsInjective` | different words are followed by different words |
| `Program_proofs!GeneratorStaysSeeded` | no word but 0 is followed by 0, which is `RngNextAssumption` of `Lottery` for the real generator |
| `WorkSizing_proofs!SlicesAreExact` | `Spec => []SmallWorkIsCutExactly`, for any widths of float, double and word |
| `WorkSizing_proofs!YieldIsCompensated` | `Spec => []CompensationIsFair` |
| `WorkSizing_proofs!AllotmentIsKept` | `Spec => DispatchWithinAllotment` |
| `Program_proofs!ValidatedRunsDraw` | `ProgramSpec => []DrawsAreNeverRefused` |
| `Program_proofs!RunsEndClean` | `ProgramSpec => []EndsClean` |
| `Program_proofs!CrashesHaveReasons` | `ProgramSpec => []SoundRunsDoNotCrash` |
| `Program_proofs!FilesAgree` | `ProgramSpec => []SummaryAgreesWithLog` |
| `Program_proofs!LimitedRunsAreLogged` | `ProgramSpec => [](LimitGiven => EventLogIsComplete)` |
| `Program_proofs!SmallRunsAreLogged` | `ProgramSpec => []EventLogIsComplete`, if the tasks of a file together have less than `UintMax` units of work |

*Assumptions.* The heap is finite, and `NULL` and what freed memory holds are no
nodes. A file has at least one task (`MIN_TASKS` is 5, `parser.c:14`); what stands
for a missing or meaningless yield is no number. The word size and the shifts of
the generator are positive. The empty string is an invalid path
(`parser.c:260-268`), and the default paths are not empty (`logger.c:66-100`).
A float holds every percentage exactly and not every word, a double holds every
word and has at least 6 bits more than a float (`BitsAssumption`); 24, 53 and 32
bits are such widths. Percentages are those that the parsers let through
(`parser.c:146-157`, `249`).

*The list.* `WellLinked` says that *some* enumeration of the allocated nodes is
the list, so each step of the proof gives the enumeration for the next state:
the old one with the new node at its end, or with one position left out, or
without its first node while the list is freed. There is only one enumeration
(`OneOrder`: two would part at a first place, but they leave it by the same
`next`), so that the refinement can name it. `Searched` says that a search has
seen no node with the id before its cursor; where it stops is the first one, or
the end of a list that has none. All other steps inside a call are stutters.

*The generator.* A shift by at least one position cannot hide every difference:
of two different words take the lowest bit in which they differ (the highest, for
the shift to the right); the bit that is shifted onto it is the same in both, so
the results differ there. Three such steps are injective, and 0 is mapped to 0.

*The parser.* The invariant is the accepted property of the list as it grows,
with the ticket sum below `UintMax` and `allocated` equal to the number of nodes
that have a task. For `ParserDecidesTaskFiles` it adds that the list is the tasks
of the lines read so far, in order (`ListIsSeen`), and that the running sum is
the number of their tickets, counted one by one; a line that is rejected shows
that the file is wrong, and the end of the file that each row passes (`RowsPass`),
which makes the file right if it has a header and no yield that is NaN.

*Rounding.* `RoundTo` chooses the scale, a power of 2, at which a fraction fills
the significand, and takes the nearest whole number there. `Pow2` is a recursive
function, and as induction over it is out of reach for the provers, its
equations and what follows from them (`Pow2Plus`, `Pow2Grows`) come from the least
number at which they would fail (`LeastNat`). `ScaleExists` gives the scale for
every value that occurs (`InReach`); after `Scaled` the lemmas speak of fractions.
What the sizes need is then: rounding keeps the order with respect to every whole
number up to 2^bits (`RoundOrder`), so that it is exact on those; it errs by at most
one part in 2^bits (`RoundError`), and by at most half a unit in the last place
(`RoundUnit`).

`SliceShare` sends `work * percent` below `FloatExact` through the product, which
is then exact, and through the quotient by 100, which may not cross a whole
number; so `ceilf` sees the right one. `CutUp` is the part of `SizingInv` that
carries this from dispatch to dispatch: without yields, `n` of them have done `n`
slices or all the work, and all but the last have left some. For the early limit
(`LimitKeepsShare`) the errors of the stored percentage and of the `float` product
are each one part in `FloatExact` or little more, so that a dispatch loses at
most three parts in `FloatExact` of its share (`KeepsShare`). Since 100 times the
units and the share are whole numbers, nothing is lost at all while three times
the share is below `FloatExact`. For the boost (`BoostFair`) the decisive error is
that of the yield, which `task_t` keeps as a `float` (`task.h:59`). Times its yield,
the boosted tickets are the tickets of the task but for half a yield, from `round`,
and 1.25 parts in `FloatExact` of them (`FairlyBoosted`): with floats of 24 bits a
task may get 2 for one ticket at 40%, where exact division gives 2.5 and rounds to 3,
and be two tickets off for 10^8 of them. The bound holds for any number of tickets,
except that a boost of a whole word or more is clamped to it.

*The run.* `Sound` is the conjunction of what the parts of a run guarantee one
another, in the order in which `main` calls them. Options stay a record of words
and, once validated, have a seed other than 0 and usable paths (`OptionsSound`);
the seed keeps the generator from 0 (`GeneratorSeeded`); a list that has been
loaded has different ids and owns what is allocated (`ListSound`); so every
worker is found in the table under its id (`WorkersFound`), and each is joined
once. With paths that can be made the log can be opened (`PathsOpen`). `Story`
is the main loop: who has work done has a line in the log, and the loop ends
when nobody has work left or the limit is reached. `PairedToLimit` and
`SummaryTold` are what the files say in the end. `FilesAgree` needs no bound: even
if the dispatch number wraps, the two files agree. `EventLogIsComplete` counts
the lines by that number, so it is proved of runs in which it cannot wrap: those
with a limit that is kept, and those with little work, where each dispatch is
charged to a unit of work of its own (`Few`).

### Only model-checked

Liveness (`Terminates`, `DispatchEnds`, `ImplementsFairSequential`, `Halts`,
`CallReturns`, `ProgramEnds`) is out of the prover's reach. The safety part of
`ImplementsFairSequential` is `ThreadsImplementTheLoop`.

## 5. Findings

1. `--max-dispatches 4294967295` is never enforced: the test is
   `global_dispatch > max_dispatches` on `uint32_t` (`scheduler.c:231`, run
   `top_limit`).
2. Compensation can lift the active tickets above `UINT32_MAX`, which the parser
   only rules out for uncompensated tickets; the 32-bit ticket then never reaches
   the end of the list (`scheduler.c:57-67`, run `heavy_boost`). For the same
   reason `DrawIsProportional` is stated for sums that fit a word, and the
   passing run of `EveryReadyTaskCanWin` has only such sums.
3. The table of threads has an entry for ids up to 25, as its comment says
   (`scheduler.c:13-18`), but `parser_load` accepts any id that is a word, and
   `scheduler_init` writes beyond the table (`scheduler.c:122`, run `thread_ids`).
4. The parser's message says that a yield "must be > 0.0 and <= 1.0"
   (`parser.c:146-151`), but NaN passes these tests; the file of run `odd_files` has
   such a line.
5. "The input file must include a header row" (`src/README.md:91`), but the first line
   is skipped unseen (`parser.c:108-113`); a file without one, such as that of
   `odd_files`, is accepted and loses its first task.
6. A slice is said to be `max(1, ceil(work_units * percent / 100))`
   (`scheduler.h:20`), but all of about `UINT32_MAX` units of work rounds to 2^32 as a
   `float`, which is cut to 0 and becomes 1 (`scheduler.c:134-135`, run `whole_slice`).

Seen while modelling, with no run of their own. The crashes among them are in
`Program`, and `SoundRunsDoNotCrash` says that nothing else makes a run crash:

- The documentation has `-i, --input FILE` and so on for all options
  (`src/README.md:74-80`), but the option string `"imqpslzd:h"` (`parser.c:292`)
  gives an argument to `-d` only. `-i FILE` stores NULL, and `-q 5` passes NULL to
  `strtoul`.
- `task.c:406` says that having no mode "should never happen since we validate
  the parameters"; after `--help` nothing was validated, and `main` goes on. With
  no mode at all `strcmp` crashes first (`main.c:33`).
- `LOG_EVENT` handles a log file that could not be opened (`logger.h:65-67`), but
  `logger_log_tod` has crashed on it by then (`logger.c:140-141`). A bad
  `--summary` is enough: it keeps the event log's directory from being made.
- `task_create` may return NULL, and the node is inserted without a task
  (`parser.c:208-209`). A task whose node cannot be allocated is in no list and never
  freed, which `RejectedLeavesNothing` leaves out.
- `task.h:60` says that `effective_tickets` are reset when the task wins; no code
  does. They are set after each dispatch.
- `--log` and `--summary` may name one file, which then holds the summary only.

## 6. Not modelled, and the plan

Not modelled: the value of pi (double-precision arithmetic on which no control
depends), the texts and formats of log, summary and help, time stamps, the cut of
a path at 255 characters, build and test files. The task functions without a
caller in the program are left out because there is no behaviour of the system
in which they take part: what they do under arbitrary callers would be a
property of the model's own making.

The modules were written in the order `Floats`, `Lottery`, `LotteryScheduler`,
`LotteryCorrectness`, `SequentialLottery`, `LotteryRefinement`,
`LotteryScheduler_proofs`; then `DoubleLinkedList`, `TaskSequence`, `XorShift32`,
`TaskFile`, `WorkSizing`, `CommandLine`, `EventLog`, `Program` with their proofs.

What stays open is what the provers cannot reach: the liveness properties, and
what the recursive functions compute beyond the equations used here.
