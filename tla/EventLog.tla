------------------------------ MODULE EventLog ------------------------------
(***************************************************************************)
(* logger.c and LOG_EVENT: two paths, the directories made for them, and    *)
(* what ends up in the files.  A path lies in one directory; a file is a     *)
(* sequence of lines.                                                      *)
(***************************************************************************)
EXTENDS CommandLine, Sequences

CONSTANTS
    Directory,      \* the directory of each path, "." for the current one
    Creatable,      \* the directories that mkdir can make
    Unwritable,     \* the paths that fopen refuses
    DefaultEvents, DefaultSummary,
    Disks           \* the directories and files there may be at the start

ASSUME DefaultPathsAssumption == "" \notin {DefaultEvents, DefaultSummary}

VARIABLES
    logger,         \* how far logger_init_structure has come
    events_path, summary_path,
    directories,
    files,          \* the contents of each file there is
    events_initialized

pathVars == <<events_path, summary_path>>
logVars == <<logger, pathVars, directories, files, events_initialized>>

LogInit ==
    /\ logger = "fill"
    /\ events_path = ""
    /\ summary_path = ""
    /\ \E disk \in Disks : directories = disk.directories /\ files = disk.files
    /\ events_initialized = FALSE

EventsTarget == IF param.log = NULL THEN DefaultEvents ELSE param.log

SummaryTarget == IF param.summary = NULL THEN DefaultSummary ELSE param.summary

\* snprintf returns 0 for an empty path, and the other one is not filled.
FillPaths ==
    /\ logger = "fill"
    /\ events_path' = EventsTarget
    /\ IF events_path' = ""
       THEN UNCHANGED summary_path
       ELSE summary_path' = SummaryTarget
    /\ logger' = IF "" \in {events_path', summary_path'} THEN "ready" ELSE "summary tree"
    /\ UNCHANGED <<directories, files, events_initialized>>

OpensIn(p, dirs) == p # "" /\ Directory[p] \in dirs /\ p \notin Unwritable

CanOpen(p) == OpensIn(p, directories)

\* The files when p holds what is given.
FilesWith(p, contents) ==
    [q \in DOMAIN files \cup {p} |-> IF q = p THEN contents ELSE files[q]]

\* fopen(p, "a") and fclose.
Touched(p) == IF p \in DOMAIN files THEN files ELSE FilesWith(p, << >>)

\* logger_create_log_tree
MakeTree(p) ==
    /\ directories' = directories \cup ({Directory[p]} \cap Creatable)
    /\ files' = IF OpensIn(p, directories') THEN Touched(p) ELSE files

\* If this fails, no directory is made for the events.
MakeSummaryTree ==
    /\ logger = "summary tree"
    /\ MakeTree(summary_path)
    /\ logger' = IF OpensIn(summary_path, directories') THEN "events tree" ELSE "ready"
    /\ UNCHANGED <<pathVars, events_initialized>>

\* main does not ask for the result.
MakeEventsTree ==
    /\ logger = "events tree"
    /\ MakeTree(events_path)
    /\ logger' = "ready"
    /\ UNCHANGED <<pathVars, events_initialized>>

LogStep == FillPaths \/ MakeSummaryTree \/ MakeEventsTree

\* Wrong: the file of an earlier run is continued.
AlwaysAppended(line) ==
    IF events_path \in DOMAIN files THEN Append(files[events_path], line) ELSE <<line>>

\* The mode is "w" the first time and "a" after that.
Written(line) ==
    IF events_initialized THEN Append(files[events_path], line) ELSE <<line>>

\* LOG_EVENT on a file that can be opened; logger_log_tod crashes on another.
LogEvent(line) ==
    /\ CanOpen(events_path)
    /\ files' = FilesWith(events_path, Written(line))
    /\ events_initialized' = TRUE
    /\ UNCHANGED <<logger, pathVars, directories>>

\* logger_write_summary, whose failure nobody asks for either.
WriteSummary(rows) ==
    /\ files' = IF CanOpen(summary_path) THEN FilesWith(summary_path, rows) ELSE files
    /\ UNCHANGED <<logger, pathVars, directories, events_initialized>>
=============================================================================
