------------------------------ MODULE MCSizing ------------------------------
(***************************************************************************)
(* WorkSizing with floats of 11 bits, doubles of 17 and words of 12.       *)
(***************************************************************************)
EXTENDS WorkSizing

MCWorkUnits == 1..12 \cup {29, 33, 100, 102, 513, 2049}

MCTickets == {1, 2, 7, 25, 1000, 4095}

MCQuanta == {7, 20, 33, 100, 333, 1027, 2048, 2051, 4095}
=============================================================================
