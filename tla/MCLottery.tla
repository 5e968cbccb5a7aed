----------------------------- MODULE MCLottery -----------------------------
(* Instances of LotteryScheduler that TLC can enumerate. *)
EXTENDS LotteryRefinement

CommandLine(mode, quantum, percent, compensation, limit, seed) ==
    [mode |-> mode, quantum |-> quantum, slicePercent |-> percent,
     compensation |-> compensation, maxDispatches |-> limit, seed |-> seed]

\* Any word may follow any word: all that can be said of the generator
\* without its seed.
AnyWord == [w \in Words |-> Words]

\* Five workers, the fewest parser_load accepts, one of which yields halfway
\* through its quantum; two words, which draw an early or a late ticket.
ThreadTickets == <<1, 1, 1, 1, 1>>
ThreadWork == <<2, 1, 1, 1, 1>>
ThreadYield == <<50, 100, 100, 100, 100>>
ThreadOptions == {CommandLine("quantum", 2, 0, TRUE, limit, 2) : limit \in {0, 2}}

\* Three workers, one of which yields, in both modes, with and without
\* compensation and limit.  After --help nothing has been validated, and quantum,
\* slice or seed may be missing.
ModeTickets == <<2, 1, 1>>
ModeWork == <<1, 3, 2>>
ModeYield == <<100, 40, 100>>
ModeOptions ==
    {CommandLine("quantum", 2, 0, TRUE, 0, 2),
     CommandLine("quantum", 3, 0, TRUE, 2, 2),
     CommandLine("quantum", 2, 0, FALSE, 2, 2),
     CommandLine("cooperative", 0, 100, TRUE, 3, 2),
     CommandLine("cooperative", 0, 40, FALSE, 0, 2),
     CommandLine("quantum", 0, 0, FALSE, 0, 0),
     CommandLine("cooperative", 0, 0, TRUE, 0, 0)}

\* The limit is the largest word, here 255, and the work needs more dispatches.
TopLimitTickets == <<1, 2>>
TopLimitWork == <<130, 130>>
TopLimitYield == <<100, 100>>
TopLimitOptions == {CommandLine("quantum", 1, 0, FALSE, UintMax, 1)}

\* The tickets add up to the largest word, here 255, and the boosts to more.
HeavyTickets == <<80, 80, 95>>
HeavyWork == <<2, 2, 2>>
HeavyYield == <<50, 50, 50>>
HeavyOptions == {CommandLine("quantum", 1, 0, TRUE, 0, 1)}
=============================================================================
