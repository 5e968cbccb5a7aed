------------------------- MODULE LotteryRefinement -------------------------
(***************************************************************************)
(* The threads of LotteryScheduler implement the loop of SequentialLottery. *)
(*                                                                         *)
(* The abstract winner is fixed by the draw, while the code still scans the *)
(* list for it; the abstract work of a dispatch happens when the worker     *)
(* reports, so until then the task has done what it had done before.        *)
(***************************************************************************)
EXTENDS LotteryCorrectness

SomeoneRuns == \E t \in Task : state[t] = "RUNNING"

AbsPhase ==
    CASE mpc = "returned1" -> "aborted"
      [] mpc \in {"summary", "join", "clean", "returned0"} -> "halted"
      [] mpc \in {"pick", "decide", "dispatch"} -> "drawn"
      [] OTHER -> IF ~pending THEN "ready" ELSE IF SomeoneRuns THEN "running" ELSE "ran"

AbsDone == [t \in Task |-> IF state[t] = "RUNNING" THEN units_before ELSE done[t]]

AbsWinner ==
    IF mpc = "pick" THEN WinnerOf(effective_tickets, Ready, ticket) ELSE winner

Sequential == INSTANCE SequentialLottery WITH
    phase <- AbsPhase, ready <- Ready, done <- AbsDone,
    tickets <- effective_tickets, count <- global_dispatch,
    seed <- rng_seed, winner <- AbsWinner

\* Whatever the interleaving of the main thread and the workers, with their
\* wakeups and critical sections, the run is one of the sequential loop.
ImplementsSequential == Sequential!Spec

\* The threads also make the progress that the sequential loop makes.
ImplementsFairSequential == Sequential!FairSpec
=============================================================================
