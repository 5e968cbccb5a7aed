------------------------------ MODULE Lottery ------------------------------
(***************************************************************************)
(* The data and the draw of the lottery: the task list as parser_load leaves *)
(* it, the command-line options, and the pure functions that size a task's   *)
(* dispatches, settle its tickets and turn a random word into a winner.      *)
(* Tasks are named by their position in the task list, which is the order of *)
(* every scan.  yield_fraction and slice_percent are whole percentages.      *)
(*                                                                         *)
(* An operator whose comment starts with "Wrong:" is used nowhere: it is a   *)
(* mistake one could make in the definition that follows it, kept to show   *)
(* that the properties notice.                                             *)
(***************************************************************************)
EXTENDS Floats, FiniteSets

CONSTANTS
    NumTasks,       \* length of the task list
    Tickets,        \* task_t.tickets
    WorkUnits,      \* task_t.work_units
    YieldPercent,   \* task_t.yield_fraction, in hundredths
    Options,        \* the command lines considered
    Words,          \* the nonzero words the generator can hold
    RngNext         \* the words that can follow a word

Task == 1..NumTasks

\* uint32_t
Word == 0..UintMax

ASSUME NumTasksAssumption == NumTasks \in Nat \ {0}

ASSUME TicketsAssumption == Tickets \in [Task -> 1..UintMax]

ASSUME WorkUnitsAssumption == WorkUnits \in [Task -> 1..UintMax]

ASSUME YieldAssumption == YieldPercent \in [Task -> 10..100]

\* quantum and seed are 0 only after --help, which returns before validation.
OptionRecord == [mode : {"quantum", "cooperative"}, quantum : Word,
                 slicePercent : 0..100, compensation : BOOLEAN,
                 maxDispatches : Word, seed : Word]

ASSUME OptionsAssumption == Options \subseteq OptionRecord

ASSUME WordsAssumption ==
    /\ Words \subseteq Word \ {0}
    /\ \A o \in Options : o.seed \in Words \cup {0}

ASSUME RngNextAssumption == RngNext \in [Words -> (SUBSET Words) \ {{}}]

-----------------------------------------------------------------------------
\* The sizes of a task's dispatches, and its tickets.

Inc(n) == Truncate(n + 1)

\* scheduler_configure_cooperative: the slice of a task for each percentage.
CooperativeSlice ==
    [t \in Task |-> [percent \in 0..100 |-> SliceSize(WorkUnits[t], percent)]]

\* task_compute_early_limit in one build of the program, which settles what the
\* language leaves undefined.
EarlyLimit ==
    [t \in Task |-> [units \in Word |->
        CHOOSE limit \in EarlyLimits(units, YieldPercent[t]) : TRUE]]

\* The tickets of a task that yields, compensated.
BoostedTickets == [t \in Task |-> Boost(Tickets[t], YieldPercent[t])]

\* Wrong: boosts whatever the flag says.
BoostRegardless(t, enabled) ==
    IF YieldPercent[t] < 100 THEN BoostedTickets[t] ELSE Tickets[t]

\* task_apply_compensation.
TicketsAfter(t, enabled) ==
    IF enabled /\ YieldPercent[t] < 100 THEN BoostedTickets[t] ELSE Tickets[t]

-----------------------------------------------------------------------------
\* The draw.

\* Wrong: a draw over 0 .. range - 1.
ZeroBasedTicket(x, range) == Truncate(x % range)

\* The arithmetic of scheduler_sort_winner_ticket: 64-bit, stored in 32 bits.
WinningTicket(x, range) == Truncate((x % range) + 1)

\* sums[n] is the sum of f over the tasks of S among the first n of the list.
PrefixSums(f, S) ==
    LET sum[n \in 0..NumTasks] ==
            IF n = 0 THEN 0
            ELSE sum[n - 1] + (IF n \in S THEN f[n] ELSE 0)
    IN  sum

TotalOver(f, S) == PrefixSums(f, S)[NumTasks]

NoTask == 0

\* Wrong: the comparison with > in place of >=.
LateWinnerOf(tickets, S, ticket) ==
    LET reached == {t \in S : PrefixSums(tickets, S)[t] > ticket}
    IN  IF reached = {} THEN NoTask
        ELSE CHOOSE t \in reached : \A u \in reached : t <= u

\* What scheduler_winner_task promises: the first task of S, in list order,
\* whose prefix sum reaches the ticket.
WinnerOf(tickets, S, ticket) ==
    LET reached == {t \in S : PrefixSums(tickets, S)[t] >= ticket}
    IN  IF reached = {} THEN NoTask
        ELSE CHOOSE t \in reached : \A u \in reached : t <= u

\* Each task of S is the winner for some word the generator can return.
NobodyIsLeftOut(tickets, S) ==
    \A t \in S : \E x \in Word \ {0} :
        WinnerOf(tickets, S, WinningTicket(x, TotalOver(tickets, S))) = t
=============================================================================
