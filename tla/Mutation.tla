------------------------------- MODULE Mutation -------------------------------
(***************************************************************************)
(* EffectExecutor.execute_approved_mutations, run by several processes at  *)
(* once over the same files: `bai run` has no process-wide lock, and other *)
(* programs (an editor, a formatter) may write the same workspace.  A run  *)
(* walks its proposed changes in order; each approved one goes through the *)
(* policy gate, the per-target mutation guard, the preimage, the approval  *)
(* artifact, a temporary file, the second look at the preimage and the     *)
(* link or replacement.  A call to the file system is one action, and any  *)
(* of them may fail (Faults) or be the last thing the process does         *)
(* (Crashes).  File contents, digests and paths are opaque values.         *)
(***************************************************************************)
EXTENDS Naturals, Sequences, FiniteSets

CONSTANTS
    Runs,           \* concurrent Harness runs
    NoRun,          \* the owner of a lock nobody holds
    Targets,        \* resolved paths that proposals name
    Contents,       \* what a file can contain
    Absent,         \* the preimage of a file that is not there
    Requests,       \* the proposals and command-line approvals a run may get
    Flock,          \* fcntl is importable; else the lock is a directory
    Faults,         \* file-system calls may raise
    Crashes,        \* a process may be killed
    Foreign         \* other programs write the targets too

Operations == {"create", "modify"}
States == Contents \union {Absent}
Changes == [operation : Operations, target : Targets, content : Contents]

ASSUME RequestAssumption ==
    \A q \in Requests :
        /\ q.changes \in Seq(Changes)
        /\ q.approved \subseteq Targets
        /\ q.allowed \subseteq Targets
ASSUME SwitchAssumption == {Flock, Faults, Crashes, Foreign} \subseteq BOOLEAN
ASSUME NobodyAssumption == Absent \notin Contents /\ NoRun \notin Runs

VARIABLES
    disk,           \* disk[t]: the file at path t
    lock,           \* lock[t]: the run in t's mutation guard
    approvals,      \* mutation approval artifacts under state/approvals
    temp,           \* temp[r]: r's temporary file is next to its target
    request,        \* request[r]: proposed_changes, approved_mutation_paths
    pc,             \* pc[r]: where run r is
    index,          \* index[r]: the change r works on
    preimage,       \* preimage[r]: expected_preimage of that change
    raising,        \* raising[r]: an exception is on its way out
    local,          \* local[r]: the lists execute_approved_mutations fills
    report,         \* report[r]: what Harness.run holds of those lists
    writes,         \* history: every write of a target by a run
    raced           \* history: t changed since r's second look at it

store == <<disk, lock, approvals, temp>>
vars == <<store, request, pc, index, preimage, raising, local, report,
          writes, raced>>
-------------------------------------------------------------------------------
\* applied, denied and mutation_approval_paths, as the indices of the changes.
Lists == {"applied", "denied", "approved"}
Nothing == [l \in Lists |-> {}]
Finished == {"done", "failed", "crashed"}
PCs == {"gate", "lock", "preimage", "approve", "temp", "recheck", "commit",
        "sync", "unlink", "release"} \union Finished
InGuard == {"preimage", "approve", "temp", "recheck", "commit", "sync",
            "unlink", "release"}

change(r) == request[r].changes[index[r]]
target(r) == change(r).target

\* The artifact write_mutation_approval leaves for the current change.
Approval(r) ==
    [run |-> r, index |-> index[r], target |-> target(r),
     operation |-> change(r).operation, preimage |-> preimage[r],
     content |-> change(r).content]

Artifacts ==
    [run : Runs, index : Nat, target : Targets, operation : Operations,
     preimage : States, content : Contents]

Write(r) ==
    [run |-> r, index |-> index[r], target |-> target(r),
     operation |-> change(r).operation, before |-> disk[target(r)],
     after |-> change(r).content, raced |-> raced[r]]

Init ==
    /\ disk \in [Targets -> States]
    /\ lock = [t \in Targets |-> NoRun]
    /\ approvals = {}
    /\ temp = [r \in Runs |-> FALSE]
    /\ request \in [Runs -> Requests]
    /\ pc = [r \in Runs |-> "gate"]
    /\ index = [r \in Runs |-> 1]
    /\ preimage = [r \in Runs |-> Absent]
    /\ raising = [r \in Runs |-> FALSE]
    /\ local = [r \in Runs |-> Nothing]
    /\ report = [r \in Runs |-> Nothing]
    /\ writes = {}
    /\ raced = [r \in Runs |-> FALSE]

Goto(r, label) == pc' = [pc EXCEPT ![r] = label]
\* An exception inside the guard: the finally blocks from label on still run.
Raise(r, label) == Goto(r, label) /\ raising' = [raising EXCEPT ![r] = TRUE]
Record(r, list) == local' = [local EXCEPT ![r][list] = @ \union {index[r]}]
-------------------------------------------------------------------------------
\* for change in proposed_changes: the list is done, and its results returned.
Return(r) ==
    /\ pc[r] = "gate" /\ index[r] > Len(request[r].changes)
    /\ Goto(r, "done")
    /\ report' = [report EXCEPT ![r] = local[r]]
    /\ UNCHANGED <<store, request, index, preimage, raising, local, writes, raced>>

\* Mutant: a denied change is skipped without a trace.
DenySilently(r) ==
    /\ pc[r] = "gate" /\ index[r] <= Len(request[r].changes)
    /\ target(r) \notin request[r].approved
    /\ index' = [index EXCEPT ![r] = @ + 1]
    /\ UNCHANGED <<store, request, pc, preimage, raising, local, report, writes, raced>>

\* gate_effect refuses an unapproved change: recorded, and the loop goes on.
Deny(r) ==
    /\ pc[r] = "gate" /\ index[r] <= Len(request[r].changes)
    /\ target(r) \notin request[r].approved
    /\ Record(r, "denied")
    /\ index' = [index EXCEPT ![r] = @ + 1]
    /\ UNCHANGED <<store, request, pc, preimage, raising, report, writes, raced>>

\* gate_effect refuses an approved change: PermissionError, nothing is held yet.
Refuse(r) ==
    /\ pc[r] = "gate" /\ index[r] <= Len(request[r].changes)
    /\ target(r) \in request[r].approved
    /\ target(r) \notin request[r].allowed \/ Faults
    /\ Raise(r, "failed")
    /\ UNCHANGED <<store, request, index, preimage, local, report, writes, raced>>

Accept(r) ==
    /\ pc[r] = "gate" /\ index[r] <= Len(request[r].changes)
    /\ target(r) \in request[r].approved \intersect request[r].allowed
    /\ Goto(r, "lock")
    /\ UNCHANGED <<store, request, index, preimage, raising, local, report,
                   writes, raced>>

\* Mutant: the lock is named after the run instead of the target.
LockFreePerRun(r) == TRUE

LockFree(r) == lock[target(r)] = NoRun

\* flock(LOCK_EX) waits, the directory lock does not: see LockBusy.
Acquire(r) ==
    /\ pc[r] = "lock" /\ LockFree(r)
    /\ lock' = [lock EXCEPT ![target(r)] = r]
    /\ Goto(r, "preimage")
    /\ UNCHANGED <<disk, approvals, temp, request, index, preimage, raising,
                   local, report, writes, raced>>

\* FileExistsError of the fallback's mkdir, or a failing mkdir or open.
LockBusy(r) ==
    /\ pc[r] = "lock"
    /\ (~Flock /\ ~LockFree(r)) \/ Faults
    /\ Raise(r, "failed")
    /\ UNCHANGED <<store, request, index, preimage, local, report, writes, raced>>

ValidPreimage(r) ==
    change(r).operation = "create" <=> disk[target(r)] = Absent

\* file_preimage, then _validate_mutation_preimage.
ReadPreimage(r) ==
    /\ pc[r] = "preimage" /\ ValidPreimage(r)
    /\ preimage' = [preimage EXCEPT ![r] = disk[target(r)]]
    /\ Goto(r, "approve")
    /\ UNCHANGED <<store, request, index, raising, local, report, writes, raced>>

RejectPreimage(r) ==
    /\ pc[r] = "preimage" /\ (~ValidPreimage(r) \/ Faults)
    /\ Raise(r, "release")
    /\ UNCHANGED <<store, request, index, preimage, local, report, writes, raced>>

\* Mutant: the run goes on to the write before its approval is on disk.
WriteApprovalLater(r) ==
    /\ pc[r] = "approve"
    /\ Record(r, "approved")
    /\ Goto(r, "temp")
    /\ UNCHANGED <<store, request, index, preimage, raising, report, writes, raced>>

WriteApproval(r) ==
    /\ pc[r] = "approve"
    /\ approvals' = approvals \union {Approval(r)}
    /\ Record(r, "approved")
    /\ Goto(r, "temp")
    /\ UNCHANGED <<disk, lock, temp, request, index, preimage, raising, report,
                   writes, raced>>

\* The artifact write raises; when fsync_directory does, the file is in place.
ApprovalFails(r) ==
    /\ pc[r] = "approve" /\ Faults
    /\ approvals' \in {approvals, approvals \union {Approval(r)}}
    /\ Raise(r, "release")
    /\ UNCHANGED <<disk, lock, temp, request, index, preimage, local, report,
                   writes, raced>>

WriteTemp(r) ==
    /\ pc[r] = "temp"
    /\ temp' = [temp EXCEPT ![r] = TRUE]
    /\ Goto(r, "recheck")
    /\ UNCHANGED <<disk, lock, approvals, request, index, preimage, raising,
                   local, report, writes, raced>>

\* write_temp_text unlinks its own file before it re-raises.
TempFails(r) ==
    /\ pc[r] = "temp" /\ Faults
    /\ Raise(r, "release")
    /\ UNCHANGED <<store, request, index, preimage, local, report, writes, raced>>

Recheck(r) ==
    /\ pc[r] = "recheck" /\ disk[target(r)] = preimage[r]
    /\ raced' = [raced EXCEPT ![r] = FALSE]
    /\ Goto(r, "commit")
    /\ UNCHANGED <<store, request, index, preimage, raising, local, report, writes>>

\* "mutation target changed after approval"
RecheckFails(r) ==
    /\ pc[r] = "recheck" /\ (disk[target(r)] # preimage[r] \/ Faults)
    /\ Raise(r, "unlink")
    /\ UNCHANGED <<store, request, index, preimage, local, report, writes, raced>>

\* The target now holds the temporary file's content.
Install(r) ==
    /\ disk' = [disk EXCEPT ![target(r)] = change(r).content]
    /\ writes' = writes \union {Write(r)}
    /\ Goto(r, "sync")
    /\ UNCHANGED <<lock, approvals, request, index, preimage, raising, local,
                   report, raced>>

\* Mutant: create by os.rename, which overwrites.
LinkOver(r) ==
    /\ pc[r] = "commit" /\ change(r).operation = "create"
    /\ Install(r)
    /\ UNCHANGED temp

\* os.link is exclusive and keeps the temporary name ...
Link(r) ==
    /\ pc[r] = "commit" /\ change(r).operation = "create"
    /\ disk[target(r)] = Absent
    /\ Install(r)
    /\ UNCHANGED temp

\* ... os.replace is not exclusive, and consumes it.
Replace(r) ==
    /\ pc[r] = "commit" /\ change(r).operation = "modify"
    /\ Install(r)
    /\ temp' = [temp EXCEPT ![r] = FALSE]

\* FileExistsError of os.link, or link or replace failing altogether.
CommitFails(r) ==
    /\ pc[r] = "commit"
    /\ \/ change(r).operation = "create" /\ disk[target(r)] # Absent
       \/ Faults
    /\ Raise(r, "unlink")
    /\ UNCHANGED <<store, request, index, preimage, local, report, writes, raced>>

Sync(r) ==
    /\ pc[r] = "sync"
    /\ Goto(r, "unlink")
    /\ UNCHANGED <<store, request, index, preimage, raising, local, report,
                   writes, raced>>

\* fsync_directory raises, and the target has changed all the same.
SyncFails(r) ==
    /\ pc[r] = "sync" /\ Faults
    /\ Raise(r, "unlink")
    /\ UNCHANGED <<store, request, index, preimage, local, report, writes, raced>>

\* Mutant: the finally clause unlinks only when nothing was raised.
UnlinkUnlessRaising(r) ==
    /\ pc[r] = "unlink"
    /\ temp' = [temp EXCEPT ![r] = raising[r] /\ @]
    /\ Goto(r, "release")
    /\ UNCHANGED <<disk, lock, approvals, request, index, preimage, raising,
                   local, report, writes, raced>>

Unlink(r) ==
    /\ pc[r] = "unlink"
    /\ temp' = [temp EXCEPT ![r] = FALSE]
    /\ Goto(r, "release")
    /\ UNCHANGED <<disk, lock, approvals, request, index, preimage, raising,
                   local, report, writes, raced>>

Unlock(r) == lock' = [lock EXCEPT ![target(r)] = NoRun]

\* Mutant: the index advances twice, skipping a change.
ReleaseSkipping(r) ==
    /\ pc[r] = "release" /\ ~raising[r]
    /\ Unlock(r)
    /\ Record(r, "applied")
    /\ index' = [index EXCEPT ![r] = @ + 2]
    /\ Goto(r, "gate")
    /\ UNCHANGED <<disk, approvals, temp, request, preimage, raising, report,
                   writes, raced>>

\* Leaving the guard normally: the change is appended to applied.
Release(r) ==
    /\ pc[r] = "release" /\ ~raising[r]
    /\ Unlock(r)
    /\ Record(r, "applied")
    /\ index' = [index EXCEPT ![r] = @ + 1]
    /\ Goto(r, "gate")
    /\ UNCHANGED <<disk, approvals, temp, request, preimage, raising, report,
                   writes, raced>>

\* Leaving it with an exception: the three lists die with the frame.
ReleaseRaising(r) ==
    /\ pc[r] = "release" /\ raising[r]
    /\ Unlock(r)
    /\ Goto(r, "failed")
    /\ UNCHANGED <<disk, approvals, temp, request, index, preimage, raising,
                   local, report, writes, raced>>

\* The unlock of the finally clause raises.  Closing the lock file drops a flock
\* all the same; a lock directory that rmdir could not remove stays.
ReleaseFails(r) ==
    /\ pc[r] = "release" /\ Faults
    /\ IF Flock THEN Unlock(r) ELSE UNCHANGED lock
    /\ Raise(r, "failed")
    /\ UNCHANGED <<disk, approvals, temp, request, index, preimage, local,
                   report, writes, raced>>
-------------------------------------------------------------------------------
\* Mutant: the lock outlives its process whatever its kind.
CrashHolding(r) ==
    /\ Crashes /\ pc[r] \notin Finished
    /\ Goto(r, "crashed")
    /\ UNCHANGED <<store, request, index, preimage, raising, local, report,
                   writes, raced>>

\* The kernel drops the flock of a dead process; a lock directory stays.
Crash(r) ==
    /\ Crashes /\ pc[r] \notin Finished
    /\ Goto(r, "crashed")
    /\ lock' = [t \in Targets |->
                  IF Flock /\ lock[t] = r THEN NoRun ELSE lock[t]]
    /\ UNCHANGED <<disk, approvals, temp, request, index, preimage, raising,
                   local, report, writes, raced>>

\* Runs that may leave a lock directory behind: killed, or failed to remove it.
Leavers == {r \in Runs : ~Flock /\ pc[r] \in {"crashed", "failed"}}

\* "lock path: ...": somebody removes the directory such a run has left.
ResolveStaleLock(t) ==
    /\ lock[t] \in Leavers
    /\ lock' = [lock EXCEPT ![t] = NoRun]
    /\ UNCHANGED <<disk, approvals, temp, request, pc, index, preimage, raising,
                   local, report, writes, raced>>

ForeignWrite(t) ==
    /\ Foreign
    /\ \E s \in States \ {disk[t]} : disk' = [disk EXCEPT ![t] = s]
    /\ raced' = [r \in Runs |->
                   raced[r] \/ (pc[r] = "commit" /\ target(r) = t)]
    /\ UNCHANGED <<lock, approvals, temp, request, pc, index, preimage, raising,
                   local, report, writes>>

Step(r) ==
    \/ Return(r) \/ Deny(r) \/ Refuse(r) \/ Accept(r)
    \/ Acquire(r) \/ LockBusy(r)
    \/ ReadPreimage(r) \/ RejectPreimage(r)
    \/ WriteApproval(r) \/ ApprovalFails(r)
    \/ WriteTemp(r) \/ TempFails(r)
    \/ Recheck(r) \/ RecheckFails(r)
    \/ Link(r) \/ Replace(r) \/ CommitFails(r)
    \/ Sync(r) \/ SyncFails(r)
    \/ Unlink(r) \/ Release(r) \/ ReleaseRaising(r) \/ ReleaseFails(r)

AllFinished == \A r \in Runs : pc[r] \in Finished

Next ==
    \/ \E r \in Runs : Step(r) \/ Crash(r)
    \/ \E t \in Targets : ResolveStaleLock(t) \/ ForeignWrite(t)
    \/ AllFinished /\ UNCHANGED vars

\* A run blocked in flock: no failure of the call is sure to rescue it.
Waits(r) == Flock /\ pc[r] = "lock" /\ ~LockFree(r)

\* The operating system runs every live process, and flock wakes its waiters.
Fairness == \A r \in Runs : WF_vars(~Waits(r) /\ Step(r))

Spec == Init /\ [][Next]_vars
FairSpec == Spec /\ Fairness
-------------------------------------------------------------------------------
\* The variables hold values of their types.
TypeOK ==
    /\ disk \in [Targets -> States]
    /\ lock \in [Targets -> Runs \union {NoRun}]
    /\ approvals \subseteq Artifacts
    /\ temp \in [Runs -> BOOLEAN]
    /\ request \in [Runs -> Requests]
    /\ pc \in [Runs -> PCs]
    /\ index \in [Runs -> Nat \ {0}]
    /\ \A r \in Runs : index[r] <= Len(request[r].changes) + 1
    /\ \A r \in Runs : pc[r] \in InGuard \union {"lock"}
                          => index[r] <= Len(request[r].changes)
    /\ preimage \in [Runs -> States]
    /\ raising \in [Runs -> BOOLEAN]
    /\ local \in [Runs -> [Lists -> SUBSET Nat]]
    /\ report \in [Runs -> [Lists -> SUBSET Nat]]
    /\ writes \subseteq
         [run : Runs, index : Nat, target : Targets, operation : Operations,
          before : States, after : Contents, raced : BOOLEAN]
    /\ raced \in [Runs -> BOOLEAN]

\* Two runs are never between the lock and the unlock of one target, and only the
\* directory of a run that was killed, or could not remove it, outlives its run
\* (mutation_guard's finally blocks).
GuardIsExclusive ==
    \A t \in Targets :
        /\ \A r \in Runs : pc[r] \in InGuard /\ target(r) = t => lock[t] = r
        /\ lock[t] # NoRun => \E r \in Runs :
             /\ lock[t] = r
             /\ (pc[r] \in InGuard /\ target(r) = t) \/ r \in Leavers

\* The approval that covers a write: same run, change, target and content.
Covers(a, w) ==
    /\ a.run = w.run /\ a.index = w.index /\ a.target = w.target
    /\ a.operation = w.operation /\ a.content = w.after

\* Every write was preceded by an approval artifact bound to exactly what the
\* write replaced. Only a modify whose target a foreign program changed between
\* the second look at the preimage and os.replace escapes; a create never does.
WritesAreApproved ==
    \A w \in writes : \E a \in approvals :
        /\ Covers(a, w)
        /\ a.preimage = w.before \/ (w.operation = "modify" /\ w.raced)

\* What must hold on the way to a write for that: the artifact is on disk from
\* its write on, the target still is what the artifact says (or a foreign write
\* came in the window), and a create was approved for an absent file.
Prepared(r) ==
    /\ pc[r] \in {"temp", "recheck", "commit"} => Approval(r) \in approvals
    /\ pc[r] = "commit" => raced[r] \/ disk[target(r)] = preimage[r]
    /\ pc[r] \in {"approve", "temp", "recheck", "commit"}
         => (change(r).operation = "create" <=> preimage[r] = Absent)

WritesArePrepared == \A r \in Runs : Prepared(r)

\* The comment in _write_mutation_content: "If another process changed the
\* target after approval, this mutation no longer matches its approval scope
\* and must fail."
ChangedTargetFails ==
    \A w \in writes : \E a \in approvals : Covers(a, w) /\ a.preimage = w.before

\* A run that returned reports exactly what happened: the changes it wrote, the
\* approvals it left behind, and a denial for each of the others.
ReturnedReportIsExact ==
    \A r \in Runs : pc[r] = "done" =>
        /\ report[r].applied = {w.index : w \in {v \in writes : v.run = r}}
        /\ report[r].approved = {a.index : a \in {b \in approvals : b.run = r}}
        /\ report[r].denied = 1..Len(request[r].changes) \ report[r].applied

\* Whatever way a run ends short of being killed, its temporary file is gone.
NoTempLeft == \A r \in Runs : temp[r] => pc[r] \notin {"done", "failed"}

\* Every run ends, whatever the other runs wait for, fail at or die of.
RunsFinish == \A r \in Runs : <>(pc[r] \in Finished)

\* The executor implements the compare-and-swap of ApprovedChange.
Promise == INSTANCE ApprovedChange WITH
    Approvals <- Artifacts,
    spent <- {a \in approvals : \E w \in writes : Covers(a, w)}
SwapsApproved == Promise!Spec
===============================================================================
