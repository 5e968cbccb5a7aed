------------------------------ MODULE TaskFile ------------------------------
(***************************************************************************)
(* parser_load: the task file, line by line, into the task list.            *)
(*                                                                         *)
(* A line is what fgets and sscanf make of it: empty, garbled (fewer than    *)
(* three numbers), or a task with whole numbers of any size.  A fourth field *)
(* is a percentage, not a number at all (NaN, which strtod accepts), or      *)
(* absent or unreadable (NoYield).                                          *)
(***************************************************************************)
EXTENDS Words, Sequences, FiniteSets

CONSTANTS
    MinTasks, MaxTasks, \* MIN_TASKS and MAX_TASKS
    TaskFiles,          \* the contents a file may have, as sequences of lines
    NoYield, NaN

ASSUME TaskBoundsAssumption == MinTasks \in Nat \ {0} /\ MaxTasks \in Nat
ASSUME YieldAssumption == NoYield \notin Int /\ NaN \notin Int

TaskLine == [kind : {"task"}, id : Int, tickets : Int, work : Int,
             yield : Int \cup {NoYield, NaN}]

Line == TaskLine \cup [kind : {"empty", "garbled"}]

ASSUME TaskFilesAssumption == TaskFiles \subseteq Seq(Line)

VARIABLES
    load,           \* how far parser_load has come
    file,           \* the contents of the file
    unread,         \* the lines not read yet
    tasks,          \* the list: its nodes, each with or without its task_t
    total_tickets,
    allocated,      \* the number of task_t allocated
    out_of_memory   \* the allocation that failed, if one did

fileVars == <<load, file, unread, tasks, total_tickets, allocated, out_of_memory>>

FileInit ==
    /\ load = "closed"
    /\ file = << >>
    /\ unread = << >>
    /\ tasks = << >>        \* dll_init_list
    /\ total_tickets = 0
    /\ allocated = 0
    /\ out_of_memory = "none"

\* The task_t that the list owns and dll_clean_list frees.
Owned == Cardinality({i \in DOMAIN tasks : tasks[i].created})

\* Wrong: leaves the nodes in the list.
KeepsList == tasks

ListAfterFailure == << >>

\* The label err, and a file with too few tasks.
Fail ==
    /\ load' = "failed"
    /\ tasks' = ListAfterFailure
    /\ UNCHANGED <<file, total_tickets>>

FailAndFree ==
    /\ Fail
    /\ allocated' = allocated - Owned
    /\ UNCHANGED out_of_memory

-----------------------------------------------------------------------------
OpenFile ==
    /\ load = "closed"
    /\ load' = "header"
    /\ file' \in TaskFiles
    /\ unread' = file'
    /\ UNCHANGED <<tasks, total_tickets, allocated, out_of_memory>>

OpenFails ==
    /\ load = "closed"
    /\ load' = "failed"
    /\ UNCHANGED <<file, unread, tasks, total_tickets, allocated, out_of_memory>>

\* The first line is skipped, whatever it says.
ReadHeader ==
    /\ load = "header"
    /\ IF unread = << >>
       THEN load' = "failed" /\ unread' = unread
       ELSE load' = "lines" /\ unread' = Tail(unread)
    /\ UNCHANGED <<file, tasks, total_tickets, allocated, out_of_memory>>

SkipEmptyLine ==
    /\ load = "lines"
    /\ unread # << >>
    /\ Head(unread).kind = "empty"
    /\ unread' = Tail(unread)
    /\ UNCHANGED <<load, file, tasks, total_tickets, allocated, out_of_memory>>

RoomLeft == Len(tasks) < MaxTasks

YieldAccepted(l) == l.yield \in 10..100 \cup {NoYield, NaN}

Positive(l) == l.id > 0 /\ l.tickets > 0 /\ l.work > 0

FitsWords(l) == l.id <= UintMax /\ l.tickets <= UintMax /\ l.work <= UintMax

\* Wrong: only a neighbour is compared.
DiffersFromLast(l) == \A i \in DOMAIN tasks : i = Len(tasks) => tasks[i].id # l.id

\* dll_find_node finds no node with the id.
FreshId(l) == \A i \in DOMAIN tasks : tasks[i].id # l.id

\* Wrong: the largest sum is refused.
SumStaysBelow(l) == total_tickets + l.tickets < UintMax

SumFits(l) == total_tickets + l.tickets <= UintMax

Acceptable(l) ==
    /\ RoomLeft
    /\ l.kind = "task"
    /\ YieldAccepted(l) /\ Positive(l) /\ FitsWords(l)
    /\ FreshId(l)
    /\ SumFits(l)

RejectLine ==
    /\ load = "lines"
    /\ unread # << >>
    /\ Head(unread).kind # "empty"
    /\ ~Acceptable(Head(unread))
    /\ FailAndFree
    /\ UNCHANGED unread

\* task_create falls back to 1.0 for what is not in its range.
YieldFraction(l) == IF l.yield \in 10..100 THEN l.yield ELSE 100

NodeFor(l, created) ==
    [id |-> l.id, tickets |-> l.tickets, work |-> l.work,
     yield |-> YieldFraction(l), created |-> created]

\* The node is inserted even if there is no task for it.
AcceptLine ==
    /\ load = "lines"
    /\ unread # << >>
    /\ Acceptable(Head(unread))
    /\ \E created \in BOOLEAN :
          /\ tasks' = Append(tasks, NodeFor(Head(unread), created))
          /\ allocated' = allocated + (IF created THEN 1 ELSE 0)
          /\ out_of_memory' = IF created THEN out_of_memory ELSE "task"
    /\ total_tickets' = total_tickets + Head(unread).tickets
    /\ unread' = Tail(unread)
    /\ UNCHANGED <<load, file>>

\* dll_insert_node fails: the task just created, if any, is in no list.
InsertFails ==
    /\ load = "lines"
    /\ unread # << >>
    /\ Acceptable(Head(unread))
    /\ Fail
    /\ \E created \in {0, 1} : allocated' = allocated - Owned + created
    /\ out_of_memory' = "node"
    /\ UNCHANGED unread

EndOfFile ==
    /\ load = "lines"
    /\ unread = << >>
    /\ IF Len(tasks) < MinTasks
       THEN FailAndFree
       ELSE /\ load' = "loaded"
            /\ UNCHANGED <<file, tasks, total_tickets, allocated, out_of_memory>>
    /\ UNCHANGED unread

LoadStep ==
    \/ OpenFile \/ OpenFails \/ ReadHeader
    \/ SkipEmptyLine \/ RejectLine \/ AcceptLine \/ InsertFails \/ EndOfFile

LoadEnded == load \in {"loaded", "failed"}

FileSpec == FileInit /\ [][LoadStep]_fileVars

-----------------------------------------------------------------------------
\* What the scheduler is given is what its own module assumes of a task list:
\* at least one and not too many tasks, known by their ids, with tickets, work
\* and ids that are words other than 0, yields from 10 to 100 per cent, and a
\* ticket sum that is a word (parser.c:95-230).
AcceptedIsSchedulable ==
    load = "loaded" =>
        /\ Len(tasks) \in MinTasks..MaxTasks
        /\ \A i, j \in DOMAIN tasks : tasks[i].id = tasks[j].id => i = j
        /\ \A i \in DOMAIN tasks :
              /\ {tasks[i].id, tasks[i].tickets, tasks[i].work} \subseteq 1..UintMax
              /\ tasks[i].yield \in 10..100
        /\ total_tickets <= UintMax

\* A file that is not accepted leaves no node and no task behind, but for the
\* task whose node could not be allocated: no list has it, so nobody frees it
\* (parser.c:203-230).
RejectedLeavesNothing ==
    /\ load # "failed" => allocated = Owned
    /\ load = "failed" => /\ tasks = << >>
                          /\ allocated = 0 \/ (allocated = 1 /\ out_of_memory = "node")

-----------------------------------------------------------------------------
\* The file as a whole, without the order in which the code looks at it.

Rows == {k \in 2..Len(file) : file[k].kind # "empty"}

\* The tickets of some lines, one by one.
TicketsOf(rows) == {x \in rows \X (1..UintMax) : x[2] <= file[x[1]].tickets}

\* A header names the columns: it is no task.
HasHeader == file # << >> /\ file[1].kind = "garbled"

YieldInRange(k) == file[k].yield \in 10..100 \cup {NoYield}

IsTaskFile ==
    /\ HasHeader
    /\ Cardinality(Rows) \in MinTasks..MaxTasks
    /\ \A k \in Rows :
          /\ file[k].kind = "task"
          /\ {file[k].id, file[k].tickets, file[k].work} \subseteq 1..UintMax
          /\ YieldInRange(k)
    /\ \A j, k \in Rows : file[j].id = file[k].id => j = k
    /\ Cardinality(TicketsOf(Rows)) <= UintMax

\* The tasks are what these lines say, in their order.
InOrder(rows) ==
    \E line \in [DOMAIN tasks -> rows] :
       /\ rows = {line[i] : i \in DOMAIN tasks}
       /\ \A i, j \in DOMAIN tasks : i < j => line[i] < line[j]
       /\ \A i \in DOMAIN tasks : tasks[i] = NodeFor(file[line[i]], tasks[i].created)

\* A file with a header and with numbers for yields is accepted exactly if all of
\* it is right, and a wrong one never, these two faults aside; the check of each
\* line against those before it neither misses nor invents a fault, and the tasks
\* are the lines in their order (parser.c:119-223).
AcceptsExactlyTaskFiles ==
    /\ load = "loaded" =>
          /\ InOrder(Rows)
          /\ HasHeader /\ (\A k \in Rows : file[k].yield # NaN) => IsTaskFile
    /\ load = "failed" /\ out_of_memory # "node" => ~IsTaskFile

\* What the documentation says of the files it accepts: README.md:91, "The input
\* file must include a header row"; the parser's message on a yield, it "must be
\* > 0.0 and <= 1.0" (parser.c:146-149).  The first line is never looked at
\* (parser.c:109), and NaN passes both tests of a yield: this is refuted.
AcceptedIsTaskFile == load = "loaded" => IsTaskFile

\* The comment on threads_per_task (scheduler.c:13-18): "ids go from 1-25", that
\* is, an id is no larger than the number of tasks a file may have.  The parser
\* accepts any word: this is refuted.
IdsIndexThreads ==
    load = "loaded" => \A i \in DOMAIN tasks : tasks[i].id \in 1..MaxTasks
=============================================================================
