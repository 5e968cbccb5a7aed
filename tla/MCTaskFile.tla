----------------------------- MODULE MCTaskFile -----------------------------
(***************************************************************************)
(* parser_load on all files of a header, or a task in its place, and up to   *)
(* four lines, from lines that are right or wrong in each way the parser     *)
(* looks at, and as a program that runs to its end.                        *)
(***************************************************************************)
EXTENDS TaskFile

Row(id, tickets, work, yield) ==
    [kind |-> "task", id |-> id, tickets |-> tickets, work |-> work, yield |-> yield]

GoodLines == {Row(1, 1, 1, NoYield), Row(2, 2, 9, 50), Row(9, 6, 1, NaN), Row(3, 8, 1, 100)}

BadLines ==
    {Row(0, 1, 1, 100), Row(4, 0, 1, 100), Row(4, 1, -1, 100), Row(10, 1, 1, 100),
     Row(4, 1, 10, 100), Row(4, 1, 1, 0), Row(4, 1, 1, 9), Row(4, 1, 1, 101)}

MCLines == GoodLines \cup BadLines \cup [kind : {"empty", "garbled"}]

Header == [kind |-> "garbled"]

\* At most one bad line: nothing is read after it.
MCTaskFiles ==
    {<< >>} \cup
    {<<first>> \o s : first \in {Header, Row(4, 1, 1, 100)}, s \in {t \in UNION {[1..n -> MCLines] : n \in 0..4} :
        \A i, j \in DOMAIN t : {t[i], t[j]} \subseteq BadLines => i = j}}

\* No header, and a yield that is no number.
MCOddFiles == {<<Row(4, 1, 1, 100), Row(1, 1, 1, NoYield), Row(9, 6, 1, NaN)>>}

Done == LoadEnded /\ UNCHANGED fileVars

MCSpec == FileInit /\ [][LoadStep \/ Done]_fileVars
=============================================================================
