-------------------------------- MODULE Harness --------------------------------
(***************************************************************************)
(* The life of a task: Harness.run, finalize_success and the artifact      *)
(* stores they write to, for several runs in one workspace.  A run leaves  *)
(* its story in files: task events, context, approvals, workflow, audit,   *)
(* fix, optic trace, memory.  Each file is written by one action, which    *)
(* may raise before the file is there or, in fsync_directory, after; the   *)
(* exception is either one of EXPECTED_RUN_FAILURES or not, and the code   *)
(* treats the two quite differently.  Paths, ids and texts are left out:   *)
(* an artifact is its status and the artifacts it cites.                   *)
(***************************************************************************)
EXTENDS Naturals, FiniteSets

CONSTANTS
    Runs,           \* concurrent runs of one workspace
    None,           \* no such file; no exception
    MaxFaults,      \* bound on the artifact writes that raise, per run
    LateFaults,     \* such a write may raise after the file is in place
    Crashes         \* a process may be killed

Events == {"started", "completed", "failed"}
Approvals == {"acceptance", "mutation"}
Kinds == {"session", "working"}
Names == Events \union Approvals \union Kinds
           \union {"context", "workflow", "audit", "fix", "trace"}
Statuses == {"recorded", "planned", "completed", "completed_with_denials", "failed"}
Documents == [status : Statuses, cites : SUBSET Names]
Classes == {"expected", "unexpected"}

ASSUME FaultAssumption == MaxFaults \in Nat /\ {LateFaults, Crashes} \subseteq BOOLEAN
ASSUME NoneAssumption == None \notin Documents \union Classes \union Statuses

VARIABLES
    art,            \* art[r][n]: artifact n of run r on disk, or None
    dirs,           \* the workspace's memory directory and those per kind
    permit,         \* permit[r]: r's entry in WorkflowStore._checked_writes
    mode,           \* mode[r]: workflow_mode of the agent output
    pc,             \* pc[r]: the next call of run r
    held,           \* held[r]: artifacts whose paths r's variables hold
    tests,          \* tests[r]: what r knows of its test_runs
    applied,        \* applied[r]: applied_changes is not empty
    denied,         \* denied[r]: denied_changes is not empty
    exc,            \* exc[r]: class of the exception that unwinds r
    notes,          \* notes[r]: failures noted on that exception
    faults,         \* faults[r]: artifact writes that raised so far
    late,           \* history: artifacts in place though their write raised
    changed,        \* history: r wrote a file of the workspace
    swept           \* history: another run removed a directory r had made

blame == <<faults, late>>
story == <<tests, applied, denied, changed>>
vars == <<art, dirs, permit, mode, pc, held, story, exc, notes, blame, swept>>
-------------------------------------------------------------------------------
Ended == {"returned", "raised", "crashed"}
Finalizing == {"completed", "audit", "fix", "trace", "permit"}
Committing == {"session dir", "session subdir", "session", "working dir", "working",
               "final", "final write"}
Cleaning == {"discard", "unlink", "rmdir"}
Recovering == {"fail event", "fail audit", "fail fix", "fail trace", "fail workflow"}
PCs == {"started", "context", "agent", "acceptance", "plan", "inspect", "mutate",
        "test"} \union Finalizing \union Committing \union Cleaning
        \union Recovering \union Ended

\* Mutant: the recovery still holds the memory paths of the finalization.
FinalizerLocalsKept == {"completed", "audit", "fix", "trace"}

\* What finalize_success holds in variables of its own.
FinalizerLocals == {"completed", "audit", "fix", "trace"} \union Kinds

Init ==
    /\ art = [r \in Runs |-> [n \in Names |-> None]]
    /\ dirs = {}
    /\ permit = [r \in Runs |-> FALSE]
    /\ mode \in [Runs -> {"dev", "default"}]
    /\ pc = [r \in Runs |-> "started"]
    /\ held = [r \in Runs |-> {}]
    /\ tests = [r \in Runs |-> "none"]
    /\ applied = [r \in Runs |-> FALSE]
    /\ denied = [r \in Runs |-> FALSE]
    /\ exc = [r \in Runs |-> None]
    /\ notes = [r \in Runs |-> {}]
    /\ faults = [r \in Runs |-> 0]
    /\ late = [r \in Runs |-> {}]
    /\ changed = [r \in Runs |-> FALSE]
    /\ swept = [r \in Runs |-> FALSE]

Goto(r, label) == pc' = [pc EXCEPT ![r] = label]
Put(r, n, d) == [art EXCEPT ![r][n] = d]
Document(s, c) == [status |-> s, cites |-> c]
Event(r) == Document("recorded", {})
\* Mutant: a status nobody else knows.
FinalStatusMisspelt(r) == IF denied[r] THEN "completed_with_denial" ELSE "completed"

FinalStatus(r) == IF denied[r] THEN "completed_with_denials" ELSE "completed"
\* build_fix_proposals: a denied mutation or a failed test command.
HasProposals(r) == denied[r] \/ tests[r] = "failed"

\* An exception of class c leaves the call at pc[r]: through the except clause
\* of finalize_success, into the recovery of Harness.run, or out of it.
Unwind(r, c) ==
    /\ exc' = [exc EXCEPT ![r] = c]
    /\ IF pc[r] \in Committing
       THEN Goto(r, "discard") /\ UNCHANGED held
       ELSE /\ Goto(r, IF c = "expected" THEN "fail event" ELSE "raised")
            /\ held' = [held EXCEPT ![r] = @ \ FinalizerLocals]

\* The atomic write of artifact n returns its path ...
Stored(r, n, d, next) ==
    /\ art' = Put(r, n, d)
    /\ held' = [held EXCEPT ![r] = @ \union {n}]
    /\ Goto(r, next)
    /\ late' = [late EXCEPT ![r] = @ \ {n}]
    /\ UNCHANGED <<exc, notes, faults>>

\* ... or raises, before the rename or (fsync_directory) after it.
Faulty(r, n, d) ==
    /\ faults[r] < MaxFaults
    /\ faults' = [faults EXCEPT ![r] = @ + 1]
    /\ \/ UNCHANGED <<art, late>>
       \/ /\ LateFaults
          /\ art' = Put(r, n, d)
          /\ late' = [late EXCEPT ![r] = @ \union {n}]

Write(r, n, d, next) ==
    /\ \/ Stored(r, n, d, next)
       \/ /\ Faulty(r, n, d) /\ UNCHANGED notes
          /\ \E c \in Classes : Unwind(r, c)
    /\ UNCHANGED <<dirs, permit, mode, story, swept>>

\* A call that writes no artifact of its own raises.
Raise(r, c) ==
    /\ Unwind(r, c)
    /\ UNCHANGED <<art, dirs, permit, mode, story, notes, blame, swept>>
-------------------------------------------------------------------------------
(* Harness.run up to finalize_success.                                         *)

WriteStarted(r) ==
    pc[r] = "started" /\ Write(r, "started", Event(r), "context")

WriteContext(r) ==
    pc[r] = "context" /\ Write(r, "context", Document("recorded", {}), "agent")

\* agent.run and gate_agent_output; the execution copy is held from here on.
RunAgent(r) ==
    /\ pc[r] = "agent"
    /\ Goto(r, "acceptance")
    /\ held' = [held EXCEPT ![r] = @ \union {"output"}]
    /\ UNCHANGED <<art, dirs, permit, mode, story, exc, notes, blame, swept>>

\* Router, agent, policy gates, inspections: failures that leave nothing behind.
FailStep(r) ==
    /\ pc[r] \in {"context", "agent", "acceptance", "inspect", "permit"}
    /\ \E c \in Classes : Raise(r, c)

WriteAcceptance(r) ==
    /\ pc[r] = "acceptance"
    /\ Write(r, "acceptance", Document("recorded", {}), "plan")

WritePlanned(r) ==
    /\ pc[r] = "plan"
    /\ Write(r, "workflow",
             Document("planned", {"context", "acceptance", "started"}), "inspect")

\* dev mutates before it tests, default tests before it mutates.
Inspect(r) ==
    /\ pc[r] = "inspect"
    /\ Goto(r, IF mode[r] = "dev" THEN "mutate" ELSE "test")
    /\ UNCHANGED <<art, dirs, permit, mode, held, story, exc, notes, blame, swept>>

AfterMutate(r) == IF mode[r] = "dev" THEN "test" ELSE "completed"
AfterTest(r) == IF mode[r] = "dev" THEN "completed" ELSE "mutate"

\* execute_approved_mutations returns: every applied change has its approval.
Mutate(r) ==
    /\ pc[r] = "mutate"
    /\ \E wrote, refused \in BOOLEAN :
         /\ changed' = [changed EXCEPT ![r] = wrote]
         /\ applied' = [applied EXCEPT ![r] = wrote]
         /\ denied' = [denied EXCEPT ![r] = refused]
         /\ IF wrote
            THEN /\ art' = Put(r, "mutation", Document("recorded", {"acceptance"}))
                 /\ held' = [held EXCEPT ![r] = @ \union {"mutation"}]
            ELSE UNCHANGED <<art, held>>
    /\ Goto(r, AfterMutate(r))
    /\ UNCHANGED <<dirs, permit, mode, tests, exc, notes, blame, swept>>

\* It raises: Harness holds none of what it did (Mutation: report[r] is empty).
MutateFails(r) ==
    /\ pc[r] = "mutate"
    /\ \/ UNCHANGED <<art, changed>>
       \/ /\ art' = Put(r, "mutation", Document("recorded", {"acceptance"}))
          /\ \E wrote \in BOOLEAN : changed' = [changed EXCEPT ![r] = wrote]
    /\ \E c \in Classes : Unwind(r, c)
    /\ UNCHANGED <<dirs, permit, mode, tests, applied, denied, notes, blame, swept>>

Test(r) ==
    /\ pc[r] = "test"
    /\ \E t \in {"none", "passed"} : tests' = [tests EXCEPT ![r] = t]
    /\ Goto(r, AfterTest(r))
    /\ UNCHANGED <<art, dirs, permit, mode, held, applied, denied, changed, exc,
                   notes, blame, swept>>

\* A nonzero exit carries its test_runs out; a timeout or a denial does not.
TestFails(r) ==
    /\ pc[r] = "test"
    /\ \/ /\ tests' = [tests EXCEPT ![r] = "failed"]
          /\ Unwind(r, "expected")
       \/ /\ UNCHANGED tests
          /\ \E c \in Classes : Unwind(r, c)
    /\ UNCHANGED <<art, dirs, permit, mode, applied, denied, changed, notes,
                   blame, swept>>
-------------------------------------------------------------------------------
(* finalize_success: terminal evidence first, memory late, the workflow last.  *)

\* Mutant: memory before audit, fix and trace.
WriteCompletedNoAudit(r) ==
    /\ pc[r] = "completed"
    /\ Write(r, "completed", Document("recorded", {"acceptance"}), "permit")

WriteCompleted(r) ==
    /\ pc[r] = "completed"
    /\ Write(r, "completed", Document("recorded", {"acceptance"}),
             IF mode[r] = "dev" THEN "audit" ELSE "permit")

\* The audit's status is "warnings" just when a change was denied, so it is
\* written here as the workflow status it goes with.
WriteAudit(r) ==
    /\ pc[r] = "audit"
    /\ Write(r, "audit", Document(FinalStatus(r), (held[r] \ {"output"}) \union {"workflow"}),
             IF HasProposals(r) THEN "fix" ELSE "trace")

WriteFix(r) ==
    pc[r] = "fix" /\ Write(r, "fix", Document("recorded", {"audit"}), "trace")

Evidence(r) == held[r] \intersect
    (Events \union Approvals \union {"context", "audit", "fix"})

WriteTrace(r) ==
    /\ pc[r] = "trace"
    /\ Write(r, "trace", Document(FinalStatus(r), Evidence(r)), "permit")

\* check_write_allowed
IssuePermit(r) ==
    /\ pc[r] = "permit"
    /\ permit' = [permit EXCEPT ![r] = TRUE]
    /\ Goto(r, "session dir")
    /\ UNCHANGED <<art, dirs, mode, held, story, exc, notes, blame, swept>>

\* mkdir(parents=True) finds no directory of the workspace and makes that first.
\* The directory for working memory has one: it holds the session memory by then.
MakeParentDir(r) ==
    /\ pc[r] = "session dir" /\ "workspace" \notin dirs
    /\ dirs' = dirs \union {"workspace"}
    /\ Goto(r, "session subdir")
    /\ UNCHANGED <<art, permit, mode, held, story, exc, notes, blame, swept>>

MakingDir(k) == IF k = "session" THEN {"session dir", "session subdir"} ELSE {"working dir"}

\* Mutant: the memory directories are expected to be there.
MakeMemoryDirNot(r) == \E k \in Kinds :
    /\ pc[r] \in MakingDir(k) /\ "workspace" \in dirs
    /\ Goto(r, k)
    /\ UNCHANGED <<art, dirs, permit, mode, held, story, exc, notes, blame, swept>>

\* The directory of the kind itself.  MemoryStore.write makes it, and again
\* write_temp_text just before it creates the file: here that last call only.
MakeMemoryDir(r) == \E k \in Kinds :
    /\ pc[r] \in MakingDir(k) /\ "workspace" \in dirs
    /\ dirs' = dirs \union {k}
    /\ Goto(r, k)
    /\ UNCHANGED <<art, permit, mode, held, story, exc, notes, blame, swept>>

MemoryDocument(r, k) ==
    Document("recorded", IF k = "session" THEN {} ELSE
        {"workflow"} \union (held[r] \intersect (Approvals \union {"audit", "fix"})))

\* Mutant: the final workflow is written without the working memory.
WriteMemoryOnce(r) == \E k \in Kinds :
    /\ pc[r] = k /\ k \in dirs
    /\ Write(r, k, MemoryDocument(r, k), "final")

WriteMemory(r) == \E k \in Kinds :
    /\ pc[r] = k /\ k \in dirs
    /\ Write(r, k, MemoryDocument(r, k),
             IF k = "session" THEN "working dir" ELSE "final")

\* The labels of calls that create something in a directory, and that directory.
Creating == {"session subdir"} \union Kinds
Expects(r) == IF pc[r] = "session subdir" THEN "workspace" ELSE pc[r]

\* mkdir or mkstemp finds that another run's clean-up took the directory away.
MemoryDirGone(r) ==
    /\ pc[r] \in Creating /\ Expects(r) \notin dirs
    /\ Raise(r, "expected")

\* WorkflowStore.write(checked_path=...) consumes the permit, then writes.
UsePermit(r) ==
    /\ pc[r] = "final" /\ permit[r]
    /\ permit' = [permit EXCEPT ![r] = FALSE]
    /\ Goto(r, "final write")
    /\ UNCHANGED <<art, dirs, mode, held, story, exc, notes, blame, swept>>

\* The paths build_phase_one_workflow puts under "artifacts".
Cited(r) == held[r] \ {"output", "workflow"}

WriteFinal(r) ==
    /\ pc[r] = "final write"
    /\ Write(r, "workflow", Document(FinalStatus(r), Cited(r)), "returned")

\* Mutant: the permit is left for whoever writes next.
DiscardNothing(r) ==
    /\ pc[r] = "discard"
    /\ Goto(r, "unlink")
    /\ UNCHANGED <<art, dirs, permit, mode, held, story, exc, notes, blame, swept>>

\* Its except clause: discard_write_permit, then cleanup_memory_artifacts.
DiscardPermit(r) ==
    /\ pc[r] = "discard"
    /\ permit' = [permit EXCEPT ![r] = FALSE]
    /\ Goto(r, "unlink")
    /\ UNCHANGED <<art, dirs, mode, held, story, exc, notes, blame, swept>>

\* Mutant: the clean-up forgets the files.
UnlinkNothing(r) ==
    /\ pc[r] = "unlink"
    /\ Goto(r, "rmdir")
    /\ UNCHANGED <<art, dirs, permit, mode, held, story, exc, notes, blame, swept>>

\* Mutant: the clean-up removes the whole memory directory, everybody's files.
UnlinkTree(r) ==
    /\ pc[r] = "unlink"
    /\ art' = [q \in Runs |-> [n \in Names |->
                 IF n \in held[r] \intersect Kinds THEN None ELSE art[q][n]]]
    /\ Goto(r, "rmdir")
    /\ UNCHANGED <<dirs, permit, mode, held, story, exc, notes, blame, swept>>

\* unlink of the paths memory.write returned; what cannot be removed is noted.
UnlinkMemory(r) ==
    /\ pc[r] = "unlink"
    /\ \E stuck \in SUBSET (held[r] \intersect Kinds) :
         /\ stuck # {} => faults[r] < MaxFaults
         /\ faults' = [faults EXCEPT ![r] = @ + (IF stuck = {} THEN 0 ELSE 1)]
         /\ notes' = [notes EXCEPT ![r] = @ \union stuck]
         /\ art' = [art EXCEPT ![r] = [n \in Names |->
                      IF n \in (held[r] \intersect Kinds) \ stuck THEN None ELSE @[n]]]
    /\ Goto(r, "rmdir")
    /\ UNCHANGED <<dirs, permit, mode, held, story, exc, late, swept>>

Emptied(r) == {k \in held[r] \intersect Kinds : \A q \in Runs : art[q][k] = None}

\* Of the directories that held them, the empty ones, and then their parent.
Removable(r) == Emptied(r) \union
    (IF dirs \subseteq Emptied(r) \union {"workspace"} THEN {"workspace"} ELSE {})

\* rmdir of each, deepest first; then the re-raise.
RemoveMemoryDirs(r) ==
    /\ pc[r] = "rmdir"
    /\ dirs' = dirs \ Removable(r)
    /\ swept' = [q \in Runs |-> swept[q] \/ Expects(q) \in Removable(r)]
    /\ Unwind(r, exc[r])
    /\ UNCHANGED <<art, permit, mode, story, notes, blame>>
-------------------------------------------------------------------------------
(* Harness.run, except EXPECTED_RUN_FAILURES: failed evidence when possible.   *)

\* One of its writes: on any exception a note is added and the run goes on.
Attempt(r, n, d, next, otherwise) ==
    /\ \/ Stored(r, n, d, next)
       \/ /\ Faulty(r, n, d)
          /\ notes' = [notes EXCEPT ![r] = @ \union {n}]
          /\ Goto(r, otherwise)
          /\ UNCHANGED <<held, exc>>
    /\ UNCHANGED <<dirs, permit, mode, story, swept>>

CanTellStory(r) == {"output", "context", "acceptance"} \subseteq held[r]

FailEvent(r) ==
    /\ pc[r] = "fail event"
    /\ LET next == IF ~CanTellStory(r) THEN "raised"
                   ELSE IF mode[r] = "dev" THEN "fail audit" ELSE "fail workflow"
       IN  Attempt(r, "failed", Event(r), next, next)

\* Mutant: the audit of a failed run is told the status it would have had.
FailAuditPassing(r) ==
    /\ pc[r] = "fail audit"
    /\ Attempt(r, "audit", Document(FinalStatus(r), Evidence(r)),
               IF HasProposals(r) THEN "fail fix" ELSE "fail trace", "fail trace")

FailAudit(r) ==
    /\ pc[r] = "fail audit"
    /\ Attempt(r, "audit", Document("failed", Evidence(r)),
               IF HasProposals(r) THEN "fail fix" ELSE "fail trace", "fail trace")

FailFix(r) ==
    /\ pc[r] = "fail fix"
    /\ Attempt(r, "fix", Document("recorded", {"audit"}), "fail trace", "fail trace")

\* Mutant: a failing trace write ends the recovery.
FailTraceEnds(r) ==
    /\ pc[r] = "fail trace"
    /\ Attempt(r, "trace", Document("failed", Evidence(r)), "fail workflow", "raised")

FailTrace(r) ==
    /\ pc[r] = "fail trace"
    /\ Attempt(r, "trace", Document("failed", Evidence(r)), "fail workflow", "fail workflow")

FailWorkflow(r) ==
    /\ pc[r] = "fail workflow"
    /\ Attempt(r, "workflow", Document("failed", Cited(r)), "raised", "raised")
-------------------------------------------------------------------------------
Crash(r) ==
    /\ Crashes /\ pc[r] \notin Ended
    /\ Goto(r, "crashed")
    /\ UNCHANGED <<art, dirs, permit, mode, held, story, exc, notes, blame, swept>>

Step(r) ==
    \/ WriteStarted(r) \/ WriteContext(r) \/ RunAgent(r) \/ FailStep(r)
    \/ WriteAcceptance(r) \/ WritePlanned(r) \/ Inspect(r)
    \/ Mutate(r) \/ MutateFails(r) \/ Test(r) \/ TestFails(r)
    \/ WriteCompleted(r) \/ WriteAudit(r) \/ WriteFix(r) \/ WriteTrace(r)
    \/ IssuePermit(r) \/ MakeParentDir(r) \/ MakeMemoryDir(r) \/ MemoryDirGone(r)
    \/ WriteMemory(r)
    \/ UsePermit(r) \/ WriteFinal(r)
    \/ DiscardPermit(r) \/ UnlinkMemory(r) \/ RemoveMemoryDirs(r)
    \/ FailEvent(r) \/ FailAudit(r) \/ FailFix(r) \/ FailTrace(r) \/ FailWorkflow(r)

Next ==
    \/ \E r \in Runs : Step(r) \/ Crash(r)
    \/ (\A r \in Runs : pc[r] \in Ended) /\ UNCHANGED vars

Spec == Init /\ [][Next]_vars
-------------------------------------------------------------------------------
\* The variables hold values of their types.
TypeOK ==
    /\ art \in [Runs -> [Names -> Documents \union {None}]]
    /\ dirs \subseteq Kinds \union {"workspace"}
    /\ permit \in [Runs -> BOOLEAN]
    /\ mode \in [Runs -> {"dev", "default"}]
    /\ pc \in [Runs -> PCs]
    /\ held \in [Runs -> SUBSET (Names \union {"output"})]
    /\ tests \in [Runs -> {"none", "passed", "failed"}]
    /\ applied \in [Runs -> BOOLEAN] /\ denied \in [Runs -> BOOLEAN]
    /\ exc \in [Runs -> Classes \union {None}]
    /\ notes \in [Runs -> SUBSET Names]
    /\ faults \in [Runs -> 0..MaxFaults] /\ late \in [Runs -> SUBSET Names]
    /\ changed \in [Runs -> BOOLEAN] /\ swept \in [Runs -> BOOLEAN]

OnDisk(r) == {n \in Names : art[r][n] # None}
WorkflowStatus(r) == IF art[r]["workflow"] = None THEN None ELSE art[r]["workflow"].status
Succeeded == {"completed", "completed_with_denials"}

\* A path that an artifact cites is never dangling, at any moment and after any
\* crash: what is cited was written first and is not removed under the citation.
\* Only an artifact whose own write raised after its rename is no evidence.
CitationsResolve ==
    \A r \in Runs : \A n \in OnDisk(r) \ late[r] : art[r][n].cites \subseteq OnDisk(r)

\* Memory a run has on disk, but for what the clean-up tried to remove and noted,
\* and what was left by a write that raised and gave it no path to remove.
KnownMemory(r) == (OnDisk(r) \intersect Kinds) \ (notes[r] \union late[r])

\* finalize_success, "memory is intentionally late: all terminal non-memory
\* artifacts are durable first": memory implies the completed event, no failed
\* one, and in dev mode an audit of this status and its trace - in every state,
\* those that a kill leaves included.
MemoryIsLast ==
    \A r \in Runs : KnownMemory(r) # {} =>
        /\ "completed" \in OnDisk(r) /\ "failed" \notin OnDisk(r)
        /\ mode[r] = "dev" => \A n \in {"audit", "trace"} :
             n \in OnDisk(r) /\ art[r][n].status = FinalStatus(r)

\* The workflow on disk says a run succeeded only when its memory is there, and
\* the run either returns or died on the way out (or when writing this workflow
\* raised, with the file in place); a returned run's workflow cites everything
\* the run left on disk.
SuccessIsWhole ==
    \A r \in Runs :
        /\ WorkflowStatus(r) \in Succeeded /\ "workflow" \notin late[r] =>
             /\ Kinds \subseteq OnDisk(r)
             /\ pc[r] \in {"returned", "crashed"}
        /\ pc[r] = "returned" =>
             /\ WorkflowStatus(r) = FinalStatus(r)
             /\ art[r]["workflow"].cites = OnDisk(r) \ {"workflow"}

\* What a run leaves of a success is true and complete: no memory before the
\* records it rests on, no successful workflow before its memory, no other task in
\* the way of either.
SuccessIsTrue == MemoryIsLast /\ SuccessIsWhole

\* The comment in finalize_success: "A failed finalization must not leave a
\* reusable workflow permit or success memory."  It leaves memory whose removal
\* failed and was noted, and memory whose write raised after its rename, so that
\* the clean-up never learnt its path, and no other.
FailureIsCleanedUp ==
    \A r \in Runs : pc[r] = "raised" => ~permit[r] /\ KnownMemory(r) = {}

\* A permit exists only between check_write_allowed and its use or disposal.
PermitIsShortLived ==
    \A r \in Runs : permit[r] =>
        pc[r] \in (Committing \ {"final write"}) \union {"discard", "crashed"}

\* A finalization that fails leaves neither permit nor memory, and nothing else
\* leaves a permit behind.
FailureIsUndone == FailureIsCleanedUp /\ PermitIsShortLived

\* A run that ends with an expected failure tells it: failed event, and, once
\* the agent output was accepted, a failed workflow and in dev mode a failed
\* audit and trace - each there, or its own failure noted on the exception.
FailureIsTold ==
    \A r \in Runs : pc[r] = "raised" /\ exc[r] = "expected" =>
        LET told == {"failed"} \union
                    (IF ~CanTellStory(r) THEN {}
                     ELSE IF mode[r] = "dev" THEN {"workflow", "audit", "trace"}
                     ELSE {"workflow"})
        IN  \A n \in told \ notes[r] :
                n \in OnDisk(r) /\ (n # "failed" => art[r][n].status = "failed")

\* The audit that a workflow cites judges the run as the workflow does, unless
\* writing one of the two raised with the file in place.
CitedAuditAgrees ==
    \A r \in Runs :
        (/\ art[r]["workflow"] # None
         /\ "audit" \in art[r]["workflow"].cites
         /\ {"workflow", "audit"} \intersect late[r] = {})
        => art[r]["audit"].status = art[r]["workflow"].status

\* What evidence may be followed to: no citation in an artifact dangles, and the
\* audit that a workflow cites says what the workflow says.
CitationsHold == CitationsResolve /\ CitedAuditAgrees

\* README.md: a run "writes structured task events [...] including `started`
\* and either `completed` or `failed`".
EitherCompletedOrFailed ==
    \A r \in Runs : ~({"completed", "failed"} \subseteq OnDisk(r))

\* README.md: "`approval_artifacts` contains all approval records for the run,
\* including mutation approvals" - the field of the workflow of an ended run.
AllApprovalsListed ==
    \A r \in Runs :
        pc[r] \in {"returned", "raised"} /\ WorkflowStatus(r) \in Succeeded \union {"failed"}
            => OnDisk(r) \intersect Approvals \subseteq art[r]["workflow"].cites

\* A run whose own writes all worked can still have its finalization undone, but
\* only when another run's clean-up removed a memory directory it had just made.
OnlySweptRunsFailLate ==
    \A r \in Runs : pc[r] \in Cleaning /\ faults[r] = 0 => swept[r]
===============================================================================
