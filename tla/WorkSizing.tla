----------------------------- MODULE WorkSizing -----------------------------
(***************************************************************************)
(* How much work a dispatch does and how many tickets a yield earns, from    *)
(* one end of the ranges of floats and words to the other.  One task runs    *)
(* alone, from its configuration to the end of its work.                    *)
(***************************************************************************)
EXTENDS Floats

CONSTANTS
    WorkUnits, Tickets,     \* what a task may have
    SlicePercents, Quanta,  \* --slice-percent and --quantum
    YieldPercents           \* yield_fraction, in hundredths

ASSUME WordsAssumption == WorkUnits \cup Tickets \cup Quanta \subseteq 1..UintMax
ASSUME PercentAssumption ==
    SlicePercents \subseteq 1..100 /\ YieldPercents \subseteq 10..100

-----------------------------------------------------------------------------
VARIABLES
    work, tickets, yield,   \* of task_t
    slice_percent,          \* 0 in quantum mode
    allotment,              \* slice_size or the quantum, 0 before it is known
    done, dispatches, effective

vars == <<work, tickets, yield, slice_percent, allotment, done, dispatches, effective>>

Init ==
    /\ work \in WorkUnits
    /\ tickets \in Tickets
    /\ yield \in YieldPercents
    /\ slice_percent = 0
    /\ allotment = 0
    /\ done = 0
    /\ dispatches = 0
    /\ effective = tickets

ConfigureCooperative ==
    /\ allotment = 0
    /\ slice_percent' \in SlicePercents
    /\ allotment' = SliceSize(work, slice_percent')
    /\ UNCHANGED <<work, tickets, yield, done, dispatches, effective>>

UseQuantum ==
    /\ allotment = 0
    /\ allotment' \in Quanta
    /\ UNCHANGED <<work, tickets, yield, slice_percent, done, dispatches, effective>>

\* One dispatch and the compensation after it.
Dispatch ==
    /\ allotment > 0
    /\ done < work
    /\ \E limit \in EarlyLimits(allotment, yield) :
          done' = IF done + limit < work THEN done + limit ELSE work
    /\ dispatches' = dispatches + 1
    /\ effective' = IF yield < 100 THEN Boost(tickets, yield) ELSE tickets
    /\ UNCHANGED <<work, tickets, yield, slice_percent, allotment>>

Next == ConfigureCooperative \/ UseQuantum \/ Dispatch

Spec == Init /\ [][Next]_vars

-----------------------------------------------------------------------------
\* While the allotment is a float, a dispatch runs no more units than it, and
\* unless the work ends it runs the share that the task does not yield, rounded
\* up to a whole unit: not less of it than the roundings of two floats can lose
\* (task.c:281-284).
DispatchWithinAllotment ==
    [][(allotment \in 1..FloatExact /\ done' # done) =>
          /\ done' - done <= allotment
          /\ done' < work => KeepsShare(done' - done, allotment, yield)]_vars

\* Small enough work is cut up as scheduler.h says, slices being
\* max(1, ceil(work_units * percent / 100)): rounding neither shortens nor
\* lengthens a slice, and costs no dispatch (scheduler.c:130-138).
SmallWorkIsCutExactly ==
    slice_percent > 0 /\ work * slice_percent < FloatExact =>
        LET slice == CeilDiv(work * slice_percent, 100)
        IN  /\ allotment = slice
            /\ yield = 100 /\ done = work => dispatches = CeilDiv(work, slice)

\* A yield never costs a task tickets, and earns it what the percentage says, to
\* the nearest ticket and the rounding of a float, or as many as a word holds
\* (task.c:219-227).
CompensationIsFair ==
    IF dispatches > 0 THEN FairlyBoosted(effective, tickets, yield)
                      ELSE effective = tickets

-----------------------------------------------------------------------------
\* What scheduler.h:20 says of every task: "slice = max(1, ceil(work_units *
\* percent / 100))".  The slice of a task whose work is rounded up to a float
\* that is no word is cut to 32 bits, and is 1: this is refuted.
SliceIsTheShare ==
    slice_percent > 0 => allotment = AtLeastOne(CeilDiv(work * slice_percent, 100))
=============================================================================
