------------------------------ MODULE Workspaces ------------------------------
(***************************************************************************)
(* WorkspaceStore: workspace records and the index of their display names, *)
(* as concurrent `bai workspace add`, `bai workspace allow-test` and       *)
(* `bai run` commands read and rewrite them.  Every file is replaced as a  *)
(* whole and atomically, but nothing is locked between reading a file and  *)
(* writing it back, and a record and its index entry are two writes.       *)
(* A record is the set of test commands it allows: `add` starts from none, *)
(* and all else in it follows from its id, the name and root it hashes.    *)
(***************************************************************************)
EXTENDS FiniteSets

CONSTANTS
    Commands,       \* started commands
    Names,          \* display names
    Roots,          \* canonical root paths
    Argvs,          \* test commands that may be allowed
    None,           \* no such file
    Faults,         \* writes may raise
    Crashes         \* a command may be killed

Ids == Names \X Roots
NameOf(i) == i[1]
Refs == Names \union Ids
Operations ==
    [kind : {"add"}, ref : Ids]
      \union [kind : {"allow"}, ref : Refs, argv : Argvs]
      \union [kind : {"run"}, ref : Refs]

ASSUME NoneAssumption ==
    /\ None \notin Ids
    /\ \A s \in SUBSET Argvs : s # None
    /\ \A s \in SUBSET Ids : s # None
ASSUME KindAssumption == Names \intersect Ids = {}
ASSUME SwitchAssumption == {Faults, Crashes} \subseteq BOOLEAN

VARIABLES
    records,        \* records[i]: allowed_argv of config/workspaces/<i>.json
    index,          \* index[n]: workspace_ids of config/workspace_names/<n>.json
    op,             \* op[c]: the command line of c
    pc,             \* pc[c]: where command c is
    names,          \* names[c]: the ids c read from an index file
    id,             \* id[c]: the workspace c works on
    loaded,         \* loaded[c]: its record, as c read it
    admitted,       \* admitted[c]: workspace of a run's scheduler record
    granted,        \* history: what finished commands left in each record
    raced           \* history: two writers were at work at once

files == <<records, index>>
history == <<granted, raced>>
vars == <<files, op, pc, names, id, loaded, admitted, history>>
-------------------------------------------------------------------------------
Ended == {"done", "refused", "raised", "killed"}
PCs == {"start", "resolve", "grant", "index", "index write", "again",
        "resolve again"} \union Ended

Init ==
    /\ records = [i \in Ids |-> None]
    /\ index = [n \in Names |-> None]
    /\ op \in [Commands -> Operations]
    /\ pc = [c \in Commands |-> "start"]
    /\ names = [c \in Commands |-> {}]
    /\ id = [c \in Commands |-> None]
    /\ loaded = [c \in Commands |-> {}]
    /\ admitted = [c \in Commands |-> None]
    /\ granted = [i \in Ids |-> None]
    /\ raced = FALSE

Goto(c, label) == pc' = [pc EXCEPT ![c] = label]
Known == {i \in Ids : records[i] # None}
Indexed(n) == IF index[n] = None THEN {} ELSE index[n]
Writer(c) == op[c].kind \in {"add", "allow"}

\* A writer starts: it races with those that are between two of their steps.
StartsWriting(c) ==
    raced' = (raced \/ \E q \in Commands \ {c} :
                          Writer(q) /\ pc[q] \notin {"start"} \union Ended)

\* atomic_write_text of a record returns, or raises with it in place or not.
WriteRecord(c, i, argvs) ==
    \/ records' = [records EXCEPT ![i] = argvs] /\ Goto(c, "index")
    \/ /\ Faults /\ Goto(c, "raised")
       /\ records' = records \/ records' = [records EXCEPT ![i] = argvs]

\* What is added again starts without grants.
Forget(c) ==
    granted' = [granted EXCEPT ![op[c].ref] = IF @ = None THEN None ELSE {}]

\* Mutant: a failing write of the record is passed over.
AddQuietly(c) ==
    /\ pc[c] = "start" /\ op[c].kind = "add"
    /\ records' = [records EXCEPT ![op[c].ref] = {}] \/ (Faults /\ records' = records)
    /\ Goto(c, "index")
    /\ id' = [id EXCEPT ![c] = op[c].ref]
    /\ StartsWriting(c)
    /\ Forget(c)
    /\ UNCHANGED <<index, op, names, loaded, admitted>>

\* add: the default policy, over a record that is there already too.
Add(c) ==
    /\ pc[c] = "start" /\ op[c].kind = "add"
    /\ WriteRecord(c, op[c].ref, {})
    /\ id' = [id EXCEPT ![c] = op[c].ref]
    /\ StartsWriting(c)
    /\ Forget(c)
    /\ UNCHANGED <<index, op, names, loaded, admitted>>

\* get, for allow-test and twice for a run: an id is its own index entry.
Lookup(c) ==
    /\ \/ pc[c] = "start" /\ op[c].kind # "add" /\ Goto(c, "resolve")
       \/ pc[c] = "again" /\ Goto(c, "resolve again")
    /\ names' = [names EXCEPT ![c] =
                   IF op[c].ref \in Ids THEN {op[c].ref} ELSE Indexed(op[c].ref)]
    /\ IF pc[c] = "start" /\ Writer(c) THEN StartsWriting(c) ELSE UNCHANGED raced
    /\ UNCHANGED <<files, op, id, loaded, admitted, granted>>

\* One of them has a record: that one. The CLI admits a run for it, and
\* Harness.run then looks its reference up once more.  A record once written is
\* replaced but never removed, so that a file found is one that can be read.
Resolve(c) ==
    /\ pc[c] \in {"resolve", "resolve again"}
    /\ \E i \in Ids :
         /\ names[c] \intersect Known = {i}
         /\ id' = [id EXCEPT ![c] = i]
         /\ loaded' = [loaded EXCEPT ![c] = records[i]]
         /\ admitted' = IF op[c].kind = "run" /\ pc[c] = "resolve"
                        THEN [admitted EXCEPT ![c] = i] ELSE admitted
    /\ Goto(c, CASE pc[c] = "resolve again" -> "done"
                 [] pc[c] = "resolve" /\ op[c].kind = "run" -> "again"
                 [] OTHER -> "grant")
    /\ UNCHANGED <<files, op, names, history>>

\* KeyError: no index, a stale one, or an ambiguous name.
Refuse(c) ==
    /\ pc[c] \in {"resolve", "resolve again"}
    /\ Cardinality(names[c] \intersect Known) # 1
    /\ Goto(c, "refused")
    /\ UNCHANGED <<files, op, names, id, loaded, admitted, history>>

\* Mutant: the argv replaces the list.
GrantOnly(c) ==
    /\ pc[c] = "grant"
    /\ WriteRecord(c, id[c], {op[c].argv})
    /\ UNCHANGED <<index, op, names, id, loaded, admitted, history>>

\* allow_test: the record that was read, with the argv, is written back.
Grant(c) ==
    /\ pc[c] = "grant"
    /\ WriteRecord(c, id[c], loaded[c] \union {op[c].argv})
    /\ UNCHANGED <<index, op, names, id, loaded, admitted, history>>

\* Mutant: one index file for all names.
ReadNamesOfAll(c) ==
    /\ pc[c] = "index"
    /\ names' = [names EXCEPT ![c] = UNION {Indexed(n) : n \in Names}]
    /\ Goto(c, "index write")
    /\ UNCHANGED <<files, op, id, loaded, admitted, history>>

\* _index_name reads the ids of the name ...
ReadNames(c) ==
    /\ pc[c] = "index"
    /\ names' = [names EXCEPT ![c] = Indexed(NameOf(id[c]))]
    /\ Goto(c, "index write")
    /\ UNCHANGED <<files, op, id, loaded, admitted, history>>

\* Mutant: the index remembers the last workspace of a name.
WithId(c) == {id[c]}

WithOwnId(c) == names[c] \union {id[c]}

\* What the command's success tells its user about the record.
Promised(c) ==
    (IF granted[id[c]] = None THEN {} ELSE granted[id[c]])
      \union (IF op[c].kind = "add" THEN {} ELSE {op[c].argv})

\* ... and writes them back with its own.
WriteNames(c) ==
    /\ pc[c] = "index write"
    /\ \/ /\ index' = [index EXCEPT ![NameOf(id[c])] = WithOwnId(c)]
          /\ granted' = [granted EXCEPT ![id[c]] = Promised(c)]
          /\ Goto(c, "done")
       \/ /\ Faults /\ Goto(c, "raised")
          /\ index' = index \/ index' = [index EXCEPT ![NameOf(id[c])] = WithOwnId(c)]
          /\ UNCHANGED granted
    /\ UNCHANGED <<records, op, names, id, loaded, admitted, raced>>

Kill(c) ==
    /\ Crashes /\ pc[c] \notin Ended
    /\ Goto(c, "killed")
    /\ UNCHANGED <<files, op, names, id, loaded, admitted, history>>

Step(c) ==
    \/ Add(c) \/ Lookup(c) \/ Resolve(c) \/ Refuse(c) \/ Grant(c)
    \/ ReadNames(c) \/ WriteNames(c)

Next ==
    \/ \E c \in Commands : Step(c) \/ Kill(c)
    \/ (\A c \in Commands : pc[c] \in Ended) /\ UNCHANGED vars

Spec == Init /\ [][Next]_vars
-------------------------------------------------------------------------------
\* The variables hold values of their types, and an index names its own ids.
TypeOK ==
    /\ records \in [Ids -> {None} \union SUBSET Argvs]
    /\ index \in [Names -> {None} \union SUBSET Ids]
    /\ \A n \in Names : \A i \in Indexed(n) : NameOf(i) = n
    /\ op \in [Commands -> Operations]
    /\ pc \in [Commands -> PCs]
    /\ names \in [Commands -> SUBSET Ids]
    /\ id \in [Commands -> Ids \union {None}]
    /\ loaded \in [Commands -> SUBSET Argvs]
    /\ admitted \in [Commands -> Ids \union {None}]
    /\ granted \in [Ids -> {None} \union SUBSET Argvs]
    /\ raced \in BOOLEAN

\* An indexed id has its record, whatever fails, dies or races: the record is
\* written first, so "workspace name index is stale" takes somebody else's hand.
IndexNeverDangles == \A n \in Names : Indexed(n) \subseteq Known

\* README.md, "re-add the workspace": once an `add` has succeeded its name finds
\* it - as long as no two writers raced for the index (read, then written back).
AddedIsIndexed ==
    ~raced => \A i \in Ids : granted[i] # None => i \in Indexed(NameOf(i))

\* The index lists what exists, and what was added (but for races of writers).
IndexIsExact == IndexNeverDangles /\ AddedIsIndexed

\* What a successful allow-test granted stays granted until the workspace is
\* added again; two writers at once may lose one of two grants.
GrantsAreKept ==
    ~raced => \A i \in Ids : granted[i] # None => granted[i] \subseteq records[i]

\* The CLI admits a run for one workspace and the Harness looks the reference up
\* again: a name never means another workspace the second time, unless writers
\* raced (then it can: an index that lost an id names the other one alone).
RunsWhereAdmitted ==
    \A c \in Commands :
        op[c].kind = "run" /\ pc[c] = "done" /\ ~raced => id[c] = admitted[c]
===============================================================================
