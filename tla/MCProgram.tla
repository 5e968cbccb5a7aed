------------------------------ MODULE MCProgram ------------------------------
(***************************************************************************)
(* Program with words of 3 bits, a few options of each kind, and task files  *)
(* of two or three tasks with ids in and out of the table of threads.       *)
(***************************************************************************)
EXTENDS Program, TLC

MCBitsOf == [n \in 0..UintMax |-> {i \in Bit : (n \div 2^i) % 2 = 1}]

\* -9 is 7 to strtoul.
MCArguments ==
    [input |-> {"tasks", "missing"}, mode |-> {"quantum", "cooperative", "fifo"},
     quantum |-> {1}, slice_percent |-> {0, 50}, seed |-> {0, 4, -9, 8},
     log |-> {"logs/e", ""}, summary |-> {"logs/e", "locked/s"},
     max_dispatches |-> {Garbled, 2}]

MCDirectory ==
    "results/e" :> "results" @@ "results/s" :> "results" @@ "logs/e" :> "logs" @@ "locked/s" :> "locked"

Old == [event |-> "result", dispatch |-> 1, winner_id |-> 1]

MCDisks ==
    {[directories |-> {"."}, files |-> << >>],
     [directories |-> {".", "logs", "results"},
      files |-> [p \in {"logs/e", "results/e", "results/s"} |-> <<Old>>]]}

Row(id, tickets, work, yield) ==
    [kind |-> "task", id |-> id, tickets |-> tickets, work |-> work, yield |-> yield]

Header == [kind |-> "garbled"]

MCTaskFiles ==
    {<<Header, Row(3, 2, 2, 50), Row(1, 1, 1, NoYield)>>,
     <<Header, Row(1, 1, 1, 100), Row(2, 1, 1, 100), Row(1, 1, 1, 100)>>,
     <<Header, Row(1, 1, 1, 100), Row(4, 1, 1, 100)>>}

Ended == phase = "ended" /\ UNCHANGED vars

MCSpec == ProgramInit /\ [][ProgramNext \/ Ended]_vars
          /\ WF_vars(MainStep) /\ WF_vars(CommandLineEnds)
=============================================================================
