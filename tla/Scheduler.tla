------------------------------- MODULE Scheduler -------------------------------
(***************************************************************************)
(* `bai run` around the Harness: run_harness of cli.py and the admission   *)
(* records of the Scheduler, for several commands started at once.  A      *)
(* background command leaves a deferred record and ends; a foreground one  *)
(* walks over the records there are, marks the deferred ones of its        *)
(* workspace, admits itself, runs the Harness and settles its record.      *)
(* Every record is read and rewritten as a whole, without any lock.        *)
(* Harness.run is its outcome here: module Harness is about what it does.  *)
(***************************************************************************)
EXTENDS FiniteSets

CONSTANTS
    Commands,       \* started commands; each writes one record at most
    Workspaces,     \* workspaces they name
    None,           \* no record; no outcome
    Faults,         \* reads and writes of records may raise
    Crashes         \* a command may be killed, or interrupted from the keyboard

Priorities == {"foreground", "background"}
Deferred == {"deferred", "preemptible_deferred"}
Settled == {"completed", "failed"}
Returned == {"success", "completed_with_denials"}
Raised == {"user-facing", "internal"}
Records ==
    [workspace : Workspaces, priority : Priorities, preempted : SUBSET Commands,
     status : Deferred \union {"accepted"} \union Settled]

ASSUME NoneAssumption ==
    None \notin Records \union Deferred \union {"accepted"} \union Settled
                 \union Returned \union Raised
ASSUME SwitchAssumption == {Faults, Crashes} \subseteq BOOLEAN

VARIABLES
    records,        \* records[c]: the record of c under state/scheduler
    priority,       \* priority[c]: --background or not
    workspace,      \* workspace[c]: --workspace
    pc,             \* pc[c]: where command c is
    queue,          \* queue[c]: records of the glob that c has yet to read
    at,             \* at[c]: whose record c has in hand
    loaded,         \* loaded[c]: that record, as it was when c read it
    preempted,      \* preempted[c]: background tasks c has marked
    outcome,        \* outcome[c]: how Harness.run ended
    seen,           \* history: the records there were when c listed them
    faulty          \* history: a scheduler call of c raised

input == <<priority, workspace>>
history == <<seen, faulty>>
vars == <<records, input, pc, queue, at, loaded, preempted, outcome, history>>
-------------------------------------------------------------------------------
Ended == {"exit 0", "exit nonzero", "killed"}
PCs == {"start", "mark", "rewrite", "admit", "run", "load", "settle"} \union Ended

OnDisk == {c \in Commands : records[c] # None}
Goto(c, label) == pc' = [pc EXCEPT ![c] = label]

Init ==
    /\ records = [c \in Commands |-> None]
    /\ priority \in [Commands -> Priorities]
    /\ workspace \in [Commands -> Workspaces]
    /\ pc = [c \in Commands |-> "start"]
    /\ queue = [c \in Commands |-> {}]
    /\ at = [c \in Commands |-> c]
    /\ loaded = [c \in Commands |-> None]
    /\ preempted = [c \in Commands |-> {}]
    /\ outcome = [c \in Commands |-> None]
    /\ seen = [c \in Commands |-> {}]
    /\ faulty = [c \in Commands |-> FALSE]

Record(c, status) ==
    [workspace |-> workspace[c], priority |-> priority[c],
     preempted |-> preempted[c], status |-> status]

\* atomic_write_text returns, or raises before or after the file is in place.
Write(c, b, record, next) ==
    \/ /\ records' = [records EXCEPT ![b] = record]
       /\ Goto(c, next)
       /\ UNCHANGED history
    \/ /\ Faults
       /\ records' = records \/ records' = [records EXCEPT ![b] = record]
       /\ Goto(c, "exit nonzero")
       /\ faulty' = [faulty EXCEPT ![c] = TRUE]
       /\ UNCHANGED seen

\* defer_background: metadata only, the Harness is not invoked.
DeferBackground(c) ==
    /\ pc[c] = "start" /\ priority[c] = "background"
    /\ Write(c, c, Record(c, "deferred"), "exit 0")
    /\ UNCHANGED <<input, queue, at, loaded, preempted, outcome>>

\* Mutant: the glob takes in names that are no records yet.
ListRecordsAndMore(c) ==
    /\ pc[c] = "start" /\ priority[c] = "foreground"
    /\ queue' = [queue EXCEPT ![c] = Commands]
    /\ seen' = [seen EXCEPT ![c] = OnDisk]
    /\ Goto(c, "mark")
    /\ UNCHANGED <<records, input, at, loaded, preempted, outcome, faulty>>

\* _mark_background_preemptible: the glob is listed before any of it is read.
ListRecords(c) ==
    /\ pc[c] = "start" /\ priority[c] = "foreground"
    /\ queue' = [queue EXCEPT ![c] = OnDisk]
    /\ seen' = [seen EXCEPT ![c] = OnDisk]
    /\ Goto(c, "mark")
    /\ UNCHANGED <<records, input, at, loaded, preempted, outcome, faulty>>

\* Mutant: only records nobody has marked yet.
PreemptibleOnce(c, record) ==
    /\ record.workspace = workspace[c]
    /\ record.priority = "background"
    /\ record.status = "deferred"

\* Mutant: any record of the workspace.
PreemptibleAll(c, record) == record.workspace = workspace[c]

\* The three tests on a record; execution_state goes with the status.
Preemptible(c, record) ==
    /\ record.workspace = workspace[c]
    /\ record.priority = "background"
    /\ record.status \in Deferred

\* The next record of the list: skipped, or in hand to be rewritten. The names
\* are random, so sorting them is any order.
ReadRecord(c) ==
    /\ pc[c] = "mark"
    /\ \E b \in queue[c] :
         /\ queue' = [queue EXCEPT ![c] = @ \ {b}]
         /\ IF Preemptible(c, records[b])
            THEN /\ loaded' = [loaded EXCEPT ![c] = records[b]]
                 /\ at' = [at EXCEPT ![c] = b]
                 /\ Goto(c, "rewrite")
            ELSE UNCHANGED <<loaded, at, pc>>
    /\ UNCHANGED <<records, input, preempted, outcome, history>>

MarkRecord(c) ==
    /\ pc[c] = "rewrite"
    /\ Write(c, at[c], [loaded[c] EXCEPT !.status = "preemptible_deferred"], "mark")
    /\ preempted' = [preempted EXCEPT ![c] = @ \union {at[c]}]
    /\ UNCHANGED <<input, queue, at, loaded, outcome>>

\* The list is done: the admission record names what it preempts.
Admit(c) ==
    /\ pc[c] = "mark" /\ queue[c] = {}
    /\ Write(c, c, Record(c, "accepted"), "run")
    /\ UNCHANGED <<input, queue, at, loaded, preempted, outcome>>

\* Harness.run returns a status, or raises one kind of exception or the other.
RunHarness(c) ==
    /\ pc[c] = "run"
    /\ \E o \in Returned \union Raised : outcome' = [outcome EXCEPT ![c] = o]
    /\ Goto(c, "load")
    /\ UNCHANGED <<records, input, queue, at, loaded, preempted, history>>

\* Mutant: user-facing failures go straight to the error message.
LoadUnlessUserFacing(c) ==
    /\ pc[c] = "load"
    /\ Goto(c, IF outcome[c] = "user-facing" THEN "exit nonzero" ELSE "settle")
    /\ loaded' = [loaded EXCEPT ![c] = records[c]]
    /\ at' = [at EXCEPT ![c] = c]
    /\ UNCHANGED <<records, input, queue, preempted, outcome, history>>

\* _validate_foreground_record
Validated(c) ==
    records[c].workspace = workspace[c] /\ records[c].priority = "foreground"

\* complete_foreground and fail_foreground read c's own record back ...
Load(c) ==
    /\ pc[c] = "load" /\ Validated(c)
    /\ loaded' = [loaded EXCEPT ![c] = records[c]]
    /\ at' = [at EXCEPT ![c] = c]
    /\ Goto(c, "settle")
    /\ UNCHANGED <<records, input, queue, preempted, outcome, history>>

\* Mutant: complete_foreground in a finally clause.
SettleCompleted(c) ==
    /\ pc[c] = "settle"
    /\ Write(c, c, [loaded[c] EXCEPT !.status = "completed"], "exit 0")
    /\ UNCHANGED <<input, queue, at, loaded, preempted, outcome>>

\* ... and rewrite it; a failed run is then raised on, to the exit code.
Settle(c) ==
    /\ pc[c] = "settle"
    /\ IF outcome[c] \in Returned
       THEN Write(c, c, [loaded[c] EXCEPT !.status = "completed"], "exit 0")
       ELSE Write(c, c, [loaded[c] EXCEPT !.status = "failed"], "exit nonzero")
    /\ UNCHANGED <<input, queue, at, loaded, preempted, outcome>>

\* A listing or a read raises, or _validate_foreground_record does.
SchedulerFails(c) ==
    /\ pc[c] \in {"start", "mark", "load"}
    /\ (pc[c] = "load" => Validated(c)) => Faults
    /\ Goto(c, "exit nonzero")
    /\ faulty' = [faulty EXCEPT ![c] = TRUE]
    /\ UNCHANGED <<records, input, queue, at, loaded, preempted, outcome, seen>>

\* KeyboardInterrupt is no Exception: it passes the except clauses like a kill.
Kill(c) ==
    /\ Crashes /\ pc[c] \notin Ended
    /\ Goto(c, "killed")
    /\ UNCHANGED <<records, input, queue, at, loaded, preempted, outcome, history>>

Step(c) ==
    \/ DeferBackground(c) \/ ListRecords(c) \/ ReadRecord(c) \/ MarkRecord(c)
    \/ Admit(c) \/ RunHarness(c) \/ Load(c) \/ Settle(c) \/ SchedulerFails(c)

AllEnded == \A c \in Commands : pc[c] \in Ended

Next ==
    \/ \E c \in Commands : Step(c) \/ Kill(c)
    \/ AllEnded /\ UNCHANGED vars

Spec == Init /\ [][Next]_vars
-------------------------------------------------------------------------------
\* The variables hold values of their types.
TypeOK ==
    /\ records \in [Commands -> Records \union {None}]
    /\ priority \in [Commands -> Priorities]
    /\ workspace \in [Commands -> Workspaces]
    /\ pc \in [Commands -> PCs]
    /\ queue \in [Commands -> SUBSET Commands]
    /\ \A c \in Commands : queue[c] \subseteq OnDisk
    /\ at \in [Commands -> Commands]
    /\ loaded \in [Commands -> Records \union {None}]
    /\ preempted \in [Commands -> SUBSET Commands]
    /\ outcome \in [Commands -> Returned \union Raised \union {None}]
    /\ seen \in [Commands -> SUBSET Commands]
    /\ faulty \in [Commands -> BOOLEAN]

StatusOf(c) == IF records[c] = None THEN None ELSE records[c].status

\* A settled record is never rewritten: no other command's marking, on a record
\* it read earlier, can put a finished task back (no lost update of a status).
SettledIsFinal ==
    [][\A c \in Commands : StatusOf(c) \in Settled => records'[c] = records[c]]_vars

\* The record of a task agrees with what the command did: who is settled ran
\* and ended that way, a deferred task never ran, and whoever ran was admitted.
RecordTellsOutcome ==
    \A c \in Commands :
        /\ StatusOf(c) = "completed" => outcome[c] \in Returned
        /\ StatusOf(c) = "failed" => outcome[c] \in Raised
        /\ StatusOf(c) \in Deferred => priority[c] = "background" /\ outcome[c] = None
        /\ outcome[c] # None => StatusOf(c) \in {"accepted"} \union Settled

\* run_harness: the record "must not remain "accepted" after Harness fails", nor
\* after it returns - unless the command was killed or its settling itself raised.
NoneStaysAccepted ==
    \A c \in Commands :
        StatusOf(c) = "accepted" /\ pc[c] \in Ended => pc[c] = "killed" \/ faulty[c]

\* The records agree with the outcomes, in both directions.
RecordsTellOutcomes == RecordTellsOutcome /\ NoneStaysAccepted

\* The admission record names exactly the background tasks of the workspace that
\* were recorded when the command looked, each of them already marked on disk.
PriorityIsExplicit ==
    \A c \in Commands : records[c] # None /\ priority[c] = "foreground" =>
        /\ records[c].preempted =
             {b \in seen[c] : priority[b] = "background" /\ workspace[b] = workspace[c]}
        /\ \A b \in records[c].preempted : StatusOf(b) = "preemptible_deferred"
===============================================================================
