----------------------------- MODULE CommandLine -----------------------------
(***************************************************************************)
(* parser_parameter_get: the options one by one, in any order and number,   *)
(* as getopt_long hands them over, and their validation at the end.         *)
(*                                                                         *)
(* The argument of an option is what strtoul or strtof makes of it: a whole  *)
(* number or Garbled.  The option string of the short options,              *)
(* "imqpslzd:h", gives an argument to -d alone.                             *)
(***************************************************************************)
EXTENDS Words

CONSTANTS
    NULL, Garbled,
    UlongMax,       \* ULONG_MAX
    Arguments,      \* for each option with an argument, those it may have
    RegularFiles,   \* the input paths that stat finds to be regular files
    InvalidStrings  \* empty, or with control characters

ASSUME UlongMaxAssumption == UlongMax \in Nat /\ UlongMax >= UintMax

ASSUME InvalidStringsAssumption == "" \in InvalidStrings

VARIABLES
    cli,    \* what parser_parameter_get is doing or has returned
    param   \* the static variables of parser.c

cliVars == <<cli, param>>

TextOption == {"input", "mode", "log", "summary"}

NumberOption == {"quantum", "seed", "max_dispatches"}

ASSUME ArgumentsAssumption ==
    /\ DOMAIN Arguments = TextOption \cup NumberOption \cup {"slice_percent"}
    /\ \A o \in NumberOption \cup {"slice_percent"} : Arguments[o] \subseteq Int \cup {Garbled}

CommandInit ==
    /\ cli = "reading"
    /\ param = [input |-> NULL, mode |-> NULL, quantum |-> 0, slice_percent |-> 0,
                seed |-> 0, log |-> NULL, summary |-> NULL, max_dispatches |-> 0,
                compensation |-> FALSE]

\* strtoul negates in unsigned arithmetic.
Unsigned(v) == v % (UlongMax + 1)

InRange(v) == v \in -UlongMax..UlongMax

ParsesUint32(v) == v # Garbled /\ InRange(v) /\ Unsigned(v) \in 1..UintMax

ParsesPercentage(v) == v # Garbled /\ v \in 1..100

Legal(o, v) ==
    \/ o \in TextOption
    \/ o \in NumberOption /\ ParsesUint32(v)
    \/ o = "slice_percent" /\ ParsesPercentage(v)

Parsed(o, v) == IF o \in NumberOption THEN Unsigned(v) ELSE v

-----------------------------------------------------------------------------
\* A long option with its argument, or -d with its own: the last one counts.
OptionWithArgument ==
    /\ cli = "reading"
    /\ \E o \in DOMAIN Arguments : \E v \in Arguments[o] :
          \/ Legal(o, v) /\ param' = [param EXCEPT ![o] = Parsed(o, v)] /\ UNCHANGED cli
          \/ ~Legal(o, v) /\ cli' = "refused" /\ UNCHANGED param

\* -i, -m, -l and -z store an optarg that is NULL.
ShortTextOption ==
    /\ cli = "reading"
    /\ \E o \in TextOption : param' = [param EXCEPT ![o] = NULL]
    /\ UNCHANGED cli

\* -q, -p and -s hand it to strtoul or strtof.
ShortNumberOption ==
    /\ cli = "reading"
    /\ cli' = "crashed"
    /\ UNCHANGED param

Compensation ==
    /\ cli = "reading"
    /\ param' = [param EXCEPT !.compensation = TRUE]
    /\ UNCHANGED cli

\* Returns success without validation.
Help ==
    /\ cli = "reading"
    /\ cli' = "helped"
    /\ UNCHANGED param

\* The '?' of getopt_long; also for -c, and for an argument that is missing.
UnknownOption ==
    /\ cli = "reading"
    /\ cli' = "refused"
    /\ UNCHANGED param

IsString(p) == p # NULL /\ p \notin InvalidStrings

InputExists == IsString(param.input) /\ param.input \in RegularFiles

KnownModes == {"quantum", "cooperative"}

\* Wrong: NULL counts as not given and is let through, as for --log.
ModeKnownIfGiven == param.mode # NULL => param.mode \in KnownModes

ModeGiven == param.mode # NULL /\ param.mode \in KnownModes

AllotmentGiven ==
    /\ param.mode = "quantum" => param.quantum # 0
    /\ param.mode = "cooperative" => param.slice_percent \in 1..100

PathsAreStrings == \A p \in {param.log, param.summary} : p # NULL => IsString(p)

Valid ==
    InputExists /\ ModeGiven /\ AllotmentGiven /\ param.seed # 0 /\ PathsAreStrings

EndOfOptions ==
    /\ cli = "reading"
    /\ cli' = IF Valid THEN "validated" ELSE "refused"
    /\ UNCHANGED param

CommandStep ==
    \/ OptionWithArgument \/ ShortTextOption \/ ShortNumberOption
    \/ Compensation \/ Help \/ UnknownOption \/ EndOfOptions
=============================================================================
