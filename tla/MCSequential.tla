---------------------------- MODULE MCSequential ----------------------------
(* Instances of SequentialLottery that TLC can enumerate: four tasks, every  *)
(* word possible after every word.  The boost of the first task reaches the *)
(* largest word.                                                           *)
EXTENDS SequentialLottery

AnyWord == [w \in Words |-> Words]

FourTickets == <<104, 1, 2, 1>>
FourWork == <<2, 3, 1, 4>>
FourYield == <<40, 100, 70, 50>>

FourOptions ==
    [mode : {"quantum"}, quantum : {1, 2}, slicePercent : {0},
     compensation : {TRUE}, maxDispatches : {0, 3}, seed : {1}] \cup
    [mode : {"cooperative"}, quantum : {0}, slicePercent : {50},
     compensation : BOOLEAN, maxDispatches : {0}, seed : {1}]
=============================================================================
