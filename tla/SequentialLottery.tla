------------------------- MODULE SequentialLottery -------------------------
(***************************************************************************)
(* What the lottery scheduler promises, without threads: one loop that     *)
(* draws a winner among the ready tasks, lets it work, settles its tickets, *)
(* and starts over.  The random words are the only choice, so a generator   *)
(* with one successor for every word makes the whole run a function of the  *)
(* options.                                                                *)
(***************************************************************************)
EXTENDS Lottery

VARIABLES options, phase, ready, done, tickets, count, seed, winner

vars == <<options, phase, ready, done, tickets, count, seed, winner>>

\* What the loop computes fits in its words: in particular the compensated
\* tickets and the dispatch number (task.c:219-227, scheduler.c:339).
TypeOK ==
    /\ options \in Options
    /\ phase \in {"ready", "drawn", "running", "ran", "halted", "aborted"}
    /\ ready \subseteq Task
    /\ done \in [Task -> Word]
    /\ tickets \in [Task -> Word]
    /\ count \in Word
    /\ seed \in Words \cup {0}
    /\ winner \in Task \cup {NoTask}

Init ==
    /\ options \in Options
    /\ phase = "ready"
    /\ ready = Task
    /\ done = [t \in Task |-> 0]
    /\ tickets = Tickets
    /\ count = 1
    /\ seed = options.seed
    /\ winner = NoTask

LimitReached == options.maxDispatches > 0 /\ count > options.maxDispatches

\* The units of one dispatch: a slice in cooperative mode, else the quantum,
\* shortened by yield_fraction; a single unit when neither is set.
Units(t) ==
    EarlyLimit[t][IF options.mode = "cooperative"
                  THEN CooperativeSlice[t][options.slicePercent]
                  ELSE options.quantum]

\* The first word is drawn from the seed; an unseeded generator gives ticket 0.
Draw ==
    /\ phase = "ready"
    /\ ready # {}
    /\ ~LimitReached
    /\ \E x \in (IF seed = 0 THEN {0} ELSE RngNext[seed]) :
          /\ seed' = x
          /\ winner' = WinnerOf(tickets, ready,
                          IF seed = 0 THEN 0
                          ELSE WinningTicket(x, TotalOver(tickets, ready)))
    /\ winner' # NoTask
    /\ phase' = "drawn"
    /\ UNCHANGED <<options, ready, done, tickets, count>>

Dispatch ==
    /\ phase = "drawn"
    /\ phase' = "running"
    /\ ready' = ready \ {winner}
    /\ count' = Inc(count)
    /\ UNCHANGED <<options, done, tickets, seed, winner>>

\* Wrong: the strict comparison.
CompletesLate(t, units) == units > WorkUnits[t]

Completes(t, units) == units >= WorkUnits[t]

\* The winner works, and is ready again unless its work is complete.
Work ==
    LET units == done[winner] + Units(winner)
        complete == Completes(winner, units)
    IN  /\ phase = "running"
        /\ phase' = "ran"
        /\ done' = [done EXCEPT ![winner] = IF complete THEN WorkUnits[winner] ELSE units]
        /\ ready' = IF complete THEN ready ELSE ready \cup {winner}
        /\ UNCHANGED <<options, tickets, count, seed, winner>>

Settle ==
    /\ phase = "ran"
    /\ phase' = "ready"
    /\ tickets' = [tickets EXCEPT ![winner] = TicketsAfter(winner, options.compensation)]
    /\ UNCHANGED <<options, ready, done, count, seed, winner>>

\* The work is complete, or the dispatch limit retires the remaining tasks.
Halt ==
    /\ phase = "ready"
    /\ ready = {} \/ LimitReached
    /\ phase' = "halted"
    /\ ready' = {}
    /\ UNCHANGED <<options, done, tickets, count, seed, winner>>

\* The scheduler may give up before its first draw.
Abort ==
    /\ phase = "ready"
    /\ count = 1
    /\ phase' = "aborted"
    /\ UNCHANGED <<options, ready, done, tickets, count, seed, winner>>

Stopped == phase \in {"halted", "aborted"} /\ UNCHANGED vars

Next == Draw \/ Dispatch \/ Work \/ Settle \/ Halt \/ Abort \/ Stopped

Spec == Init /\ [][Next]_vars

FairSpec == Spec /\ WF_vars(Next)

-----------------------------------------------------------------------------
\* The lottery is fair: of the words from 1 to the number of active tickets, each
\* ready task is drawn by as many as it has tickets (README.md:103), as long as a
\* word can number all the tickets.
DrawIsProportional ==
    LET active == TotalOver(tickets, ready)
    IN  phase = "ready" /\ active <= UintMax =>
          \A t \in Task :
              LET drawn == {x \in 1..active :
                              WinnerOf(tickets, ready, WinningTicket(x, active)) = t}
              IN  Cardinality(drawn) = IF t \in ready THEN tickets[t] ELSE 0

\* The length of a run does not depend on the draws: without a limit, the
\* dispatches add up to the allotments in the work of each task, whoever wins
\* when.
DispatchesNeeded(t) == CeilDiv(WorkUnits[t], Units(t))

LuckDoesNotChangeTheWork ==
    phase = "halted" /\ options.maxDispatches = 0 =>
        count - 1 = TotalOver([t \in Task |-> DispatchesNeeded(t)], Task)

\* The loop ends.
Halts == <>(phase \in {"halted", "aborted"})
=============================================================================
