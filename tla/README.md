# A TLA+ model of bAI-harness

bAI-harness (`src/`) is a command line harness for coding agents.  `bai run` takes one task in
one registered workspace, lets an agent propose a change, applies the part of it that the user
approved, runs one allowed test command, and leaves an evidence trail of JSON files: task
events, context, approvals, workflow, audit, fix proposals, trace, memory.  There is no
database, no daemon and no cross-process transaction.  Every promise the program makes is about files that
several commands read and write at once, and that a failing call, a full disk or a kill can
leave half told.  Those promises are what this project states, checks and proves.

Source paths below are relative to `src/src/bai/` unless they begin with `src/`.

## 1. The system

| Component | State it keeps | Operations | Talks to |
|---|---|---|---|
| Mutation executor (`execution/effects.py`) | target files, one lock per target, one temporary file per write, the run's lists of applied/denied/approved changes | `execute_approved_mutations`, `mutation_guard`, `_write_mutation_content` | policy gate, approval store, files of the workspace |
| Harness (`execution/harness.py`) | locals of one run | `Harness.run`: evidence before, effects, finalization, recovery after a failure | every artifact store, executor, test command, router, agent |
| Success finalization (`execution/finalize.py`) | memory directories, paths written so far | `finalize_success`, `cleanup_memory_artifacts` | stores, workflow permit |
| Artifact stores (`artifacts/*.py`) | one JSON file per artifact | `write*` | `core/io.py` |
| Workflow store and builders (`artifacts/workflow.py`) | `_checked_writes` (permits) | `check_write_allowed`, `write`, `discard_write_permit`, `write_optic_trace`, builders | `core/io.py` |
| Atomic file writes (`core/io.py`) | none | `atomic_write_text`, `write_temp_text`, `fsync_directory` | file system |
| Scheduler (`execution/scheduler.py`) | admission records `state/scheduler/*.json` | `defer`, `admit_foreground`, `complete_foreground`, `fail_foreground` | `core/io.py` |
| CLI (`cli.py`) | none | `run_harness`, `workspace add`, `workspace allow-test`, provider commands | scheduler, Harness, workspace store |
| Workspace store (`config/workspace.py`) | `config/workspaces/<id>.json`, the name index `config/workspace_names/<name>.json` | `add`, `get`, `allow_test`, `_write_name_index` | `core/io.py` |
| Policy engine (`core/policy.py`) | none (pure) | gates for the agent output, inspections, test commands, mutations, and one per kind of artifact | called by the Harness and the executor |
| Test command executor (`execution/test_command.py`) | a subprocess, two drain threads | run with timeout, previews of both streams | operating system |
| Plan agent (`execution/agent.py`) | none (pure) | parse the request into proposed changes and effects | Harness |
| Router (`config/router.py`) | one provider file | `select`, `set_local` | Harness, CLI |
| Optic category (`optic_category.py`) | registry of role optics and compositions | `validate_composition`, `validate_write` | the trace builder, tests |
| Optics (`core/optics.py`) | registry of optics and bindings | `graph_for`, `project`, `validate_patch` | library and tests |
| Runtime paths, errors (`core/`) | none | path arithmetic, exception classes | everything |

Behaviours that are hard to test here, and the properties that are there for them:

* **Several runs at one file.**  The preimage is read, approved and compared again under an
  advisory lock per target.  *Who holds the guard is alone with the file; each write is covered
  by an approval that was on disk first and is bound to what the write replaced.*
* **A failing call in the middle.**  Any write may raise, before the file is there or (in
  `fsync_directory`) after; a failure of one class is recovered from, one of the other class is not; the
  recovery itself may fail.  *No artifact cites one that is not there; success memory comes last
  and only for a success; a failed finalization is undone; a failure is told by all the
  artifacts it can be told by.*
* **A kill between any two steps.**  The properties above are invariants: they hold in the state a killed
  process leaves as well.
* **Read, then rewrite, with no lock** (scheduler records, workspace records, the name index,
  memory directories).  *What is lost is bounded and named: a settled record is never touched
  again, an index entry never dangles, only a race of two writers loses anything.*
* **Waiting.**  Runs with several changes wait for each other's targets in any order; a test command
  fills two pipes while the harness waits for it, with a timeout.  *Every run ends; what a test
  command returns is about its whole output; a timeout is final.*

* **Records that retell a run.**  Four builders derive a workflow, an audit, a fix proposal and a trace
  from what the run's locals still hold, after a success, a denial or a failure in any phase.
  *They tell what was done, in the order it was done, never contradict each other, and lose exactly what is named.*
* **Checks made before anything happens.**  A request is parsed and gated, a composition of roles
  validated, a graph of optics composed, and then steps follow that are not checked again.  *What was
  checked is enough: nothing unauthorized is carried out, no role misses what it needs, no view
  shows what was not asked for.*

`PROJECT.json` lists each hazard at its line with the properties that cover it, and the one
that no property covers, with the reason.

## 2. The modules

| Module | Models | Size |
|---|---|---|
| `ApprovedChange` | what the executor promises: a compare-and-swap that spends a recorded approval | abstract specification |
| `Mutation` | `execution/effects.py`, one action per file-system call | state machine, implements `ApprovedChange` |
| `MutationProofs` | six theorems about `Mutation` | proofs only |
| `Harness` | `Harness.run`, `finalize_success`, `cleanup_memory_artifacts`, stores, permits | state machine |
| `RunRecord` | what a run does and what its records say: `PlanAgent`, the gates of `PolicyEngine`, `Router.select`, `EffectExecutor`, the builders of `workflow.py`, `audit.py`, `fix.py` | state machine of one run |
| `OpticCategory` | `optic_category.py`, and the roles acting after the validation | operators for each check, a small state machine around them |
| `Optics` | `core/optics.py` | operators for each check, a state machine of one projection |
| `Scheduler` | `run_harness` of `cli.py`, `execution/scheduler.py` | state machine; `Harness.run` is its outcome |
| `Workspaces` | `WorkspaceStore` and the commands that use it | state machine |
| `TestCommand` | `TestCommandExecutor`: main thread, two drain threads, child and helper processes | state machine |
| `HarnessProofs`, `RunRecordProofs` | six theorems each about `Harness` and `RunRecord` | proofs only |
| `SchedulerProofs`, `WorkspacesProofs` | four theorems each about `Scheduler` and `Workspaces` | proofs only |
| `OpticCategoryProofs`, `OpticsProofs` | four theorems each about `OpticCategory` and `Optics` | proofs only |
| `TestCommandProofs` | three theorems about `TestCommand` | proofs only |
| `MCMutation`, `MCHarness`, `MCScheduler`, `MCWorkspaces`, `MCRunRecord` | small instances | constants and symmetry only |
| `MCOptics` | small instances of both optics libraries | constants; each behaviour is about one of the two |

How they fit together: `cli.run_harness` (`Scheduler`) looks a workspace up (`Workspaces`),
calls `Harness.run` (`Harness`), which calls `execute_approved_mutations` (`Mutation`).  Each
level sees the one below through its contract.  `Harness!Mutate` says of the executor only that a
written file has a stored approval and that an exception leaves nothing in the
caller's variables (the lists are locals of the callee); `Mutation` checks the first of these
(`WritesAreApproved`) and the second is the code at `effects.py:153`.  `Harness!Test` takes one of the outcomes of
`TestCommand` (a result, a nonzero exit, an exception).  `Scheduler!RunHarness` takes one of
the four ways in which `Harness.run` ends.  `RunRecord` is the same `Harness.run` seen from the other side:
`Harness` has every file, each write that may fail and a status for a content, `RunRecord` has the
contents, one step for a finalization or a recovery, and a choice of the records that could be written.
The trace that it builds is over the composition that `OpticCategory` defines as `BugFixLoop`, and which
the code validates each time it builds one.

### Mutation

The program counter of a run names the next file-system call: `gate` (loop head and policy gate),
`lock`, `read` (`file_preimage`), `approve` (the approval artifact), `temp` (`write_temp_text`),
`recheck` (the second look at the preimage), `commit` (`os.link` for a create, `os.replace` for a
modify), `sync`, `unlink`, `release`, and then the next change or the return.  `raising` is the
exception that unwinds through the two `finally` blocks.  `index` is the position in the list of changes,
`local` the three lists of the frame, `report` what the caller gets: nothing at all if the call
raises.  `lock[t]` is the flock of the target's lock file; with `Flock = FALSE`, its lock
directory, which outlives an owner that was killed or could not remove it (`Leavers`) and which `ResolveStaleLock` removes by hand
as the error message asks.  Letting go of the lock may itself raise (`ReleaseFails`), after the write: a flock is gone with its file all
the same, a lock directory stays.
`writes` and `raced` are history that only properties read.

The bundled plan agent proposes at most one change, but `Harness` takes any agent and the loop
takes any list, so the model takes lists.

### Harness

`pc[r]` is the next call.  `art[r][n]` is artifact `n` on disk: its status and the artifacts it
cites.  `held[r]` is what the locals of the frame hold, since that is what the recovery can use:
on the way out of `finalize_success` its own locals are forgotten.  The exception class decides
between recovery (`EXPECTED_RUN_FAILURES`) and none.  `permit[r]` is the run's entry in
`_checked_writes`.  `dirs` is shared: the memory directories of the workspace and their parent, which the clean-up of
one run removes when they are empty, possibly between another run's two `mkdir`, of parent and directory, or between
these and its temporary file (from then on the temporary file keeps the directory alive).

A write that raises does so before the rename or, if `LateFaults`, after it (`fsync_directory`).  `MaxFaults` bounds
the raising writes of a run.  `late[r]` is history: the artifacts that are in place although writing them raised.
Nobody has their path, so properties that say what evidence means make an exception for exactly these
artifacts and for no other; the exception is needed in each of them.  In particular a memory write that raises
after its rename leaves its file behind a failed finalization, since the clean-up knows only the
paths of writes that returned (`FailureIsCleanedUp` without the exception is false).  The audit's own status values are represented by the workflow status they are computed from.

### RunRecord

A request is its words, and `PlanOf` is the plan that `PlanAgent` makes of them: `SplitTest` splits at the word "test"
as `_split_test_request` does, `Parts` is what `shlex.split` makes of a quoted phrase.  With `request = None` another agent runs
and returns any of `OtherOutputs`, several changes and mixed effects included, which the
gates have to judge.  `pc` is the phase, `at` the effect or change that comes next (the phases of inspections and
tests each loop over all effects and `Skip` those of another kind), and `known` the lists in
the locals of `Harness.run`, or of the executor's phase while it builds them; `HeldOf` is what is left of them when
the phase raises.  `reason` is the kind of failure text, since two builders look for words in it (`MentionsTest`).  `told` holds the
records; `Terminal` makes all of them at once from what could be written (`ok`).
A run may fail as early as at its acceptance record or its planned workflow (`GateOutput`); then the workflow told may be missing altogether.  `log`,
`onDisk` and `ran` are history, what really was done, and the properties compare the records with them.

### OpticCategory and Optics

Both libraries check declarations and execute nothing, so a property about a check alone would only repeat it.
`OpticCategory` therefore lets the roles act once a composition was found valid (`Act`, the environment): in order, each making its
required outputs and any part of the optional ones.  What reaches a role is then what was really made
and handed on.  `IsValid` has one operator per group of checks of `validate_composition`.  A write surface is
the parts of a path and a flag for the slash at its end; `WritesStayInside` resolves a target
on its own (`Resolved`) and asks where it leads.

`Optics` runs a graph stage by stage, each optic on the view of the one before it, with the errors of `Optic.project`
in their order (`Raised`).  Its properties describe the outcome without going through the stages: which graphs project,
what they show, in terms of the source and of the last optic alone.

### Scheduler and Workspaces

In both a command is a sequence of single file accesses: list, read one record, rewrite it, go on.
`Scheduler!queue` is the rest of the listing that a foreground command walks over; `loaded` is
the copy it will write back.  `Workspaces!names` and `loaded` are the same for the index and the workspace
record.  `Workspaces!raced` is history: it becomes true when two writers (add, allow-test) are at
work at once.  It is a condition in three of the properties (`GrantsAreKept`, `RunsWhereAdmitted`, and the half of `IndexIsExact` that says what is
added is indexed) because without it they are false: the store does
lose one of two racing updates.  These properties describe that loss, as the only one there is; they would not catch it, and
do not say that it does not occur.  It is the known price of a store without locks, and the docs promise nothing else.

### TestCommand

`pc` is the main thread: `spawn`, `wait`, `kill`, the two joins.  `writers[s]` are the processes that hold the
write end of stream `s`; `written[s] - taken[s]` bytes are in its pipe; `chunk[s]` is what `stream.read` has gathered
(it returns a full chunk, or a shorter one at the end of the stream), `buffer[s]` what is
kept.  A byte is its position in the stream, which makes "the first bytes" checkable.  The child may
write, close a stream, exit, or fork a helper that inherits its streams and that `kill()` does not
reach.  The timeout has no clock: it may strike at any moment of the wait, also when the child has
just ended.

## 3. The runs

Twelve runs; a `violation` run exhibits a disagreement between a text of the repository and the code.

| Run | Instance | Distinct states | What it shows |
|---|---|---|---|
| `MutationRuns` | 2 runs, 2 files, 2 contents, 6 proposals of up to 2 changes; every call may fail, every run may be killed; flock | 259 334 | exact reports, no temporary file left, refinement of `ApprovedChange` (every write spends an approval that was on disk), termination although runs wait for each other |
| `MutationFallback` | 2 runs, 1 change each, lock directories, failing calls, kills, locks resolved by hand, an editor that writes at any moment | 446 463 | exclusion without `fcntl`; no deadlock behind an owner that is gone; creates are never wrong, a modify only when the editor hits the window between recheck and replace |
| `MutationRace` (violation) | 1 change each, an editor, no failures | – | finding 1 |
| `HarnessTask` | 1 run, any number of raising writes, before or after their rename, kills | 37 641 | no dangling citation, memory last, whole successes, clean failures, short permits, agreeing audits, failures told |
| `HarnessPair` | 2 runs, 1 raising write each | 2 908 891 | a foreign clean-up may fail a run (only so), and never takes its memory: successes stay whole |
| `HarnessTwoEnds` (violation) | 1 run, 1 raising write | – | finding 2 |
| `HarnessLostApproval` (violation) | 1 run, no raising write | – | finding 3 |
| `SchedulerRuns` | 3 commands, 2 workspaces, failures, kills | 829 388 | records agree with outcomes, settled ones are final, admissions are explicit |
| `WorkspacesRace` | 3 commands, 2 names, 2 roots, 2 test commands, failures, kills | 92 759 | the index never dangles; only races lose anything |
| `RunRecordRuns` | 17 requests, 46 outputs of other agents, 4 provider configurations, 4 workspaces, 4 sets of approved paths, every step may fail, any records may stay unwritten | 35 062 | nothing unauthorized; records tell steps, changes and test runs; records agree; fixes answer findings |
| `OpticsRuns` | the shipped composition and 21 near misses; all compositions of two roles over three types; all graphs of two optics over three fields | 289 943 | what validation promises roles, where writes lead, which graphs project and what they show, grounded patches |
| `TestCommandRuns` | 2 streams, previews and chunks of 2 bytes, pipes of 2, 6 bytes written | 101 147 | exact results, final timeouts, drained pipes, termination |

Several invariants are conjunctions of named parts, each with a statement of its own in the module and, where they
can fail apart, a mutant of its own: `SuccessIsTrue` (`MemoryIsLast`, `SuccessIsWhole`), `CitationsHold` (`CitationsResolve`,
`CitedAuditAgrees`), `FailureIsUndone` (`FailureIsCleanedUp`, `PermitIsShortLived`), `RecordsTellOutcomes`
(`RecordTellsOutcome`, `NoneStaysAccepted`), `IndexIsExact` (`IndexNeverDangles`, `AddedIsIndexed`), `BoundaryIsKept`
(`ExternalsAreNotMade`, `DeclaredOutputsAreMade`), `RunIsTold` (`ChangesAreTold`, `TestRunsAreTold`, `TestNodeIsTrue`),
`DagTellsRun` (`IsDag`, `TellsSteps`), and `DevRecordsAgree` (`StatusesAgree`, `FixesAnswerFindings`).

**Bounds.**  *Mutation*: two runs are enough for every pairwise race over one file, since the guard is per file and
runs share nothing else; two changes are enough for "a later one fails after an earlier one was written" and for
two runs that want two files in opposite orders; the six proposals cover two files in either order, each operation, a denial
for lack of approval, one for scope, the same file twice and the empty list.  The theorems below
lift exclusion, approval and refinement to any number of everything.  *Harness*: `MaxFaults = 7` is no bound for one run: one write raises, then the clean-up and the five attempts of the
recovery may each raise, and that is all.  Two runs with one failing write each
suffice for the clean-up race (one failure starts a clean-up, the other run needs none).  *Scheduler*:
three commands give two background tasks and one walker, or two walkers over one record.  *Workspaces*:
two roots under one name make it ambiguous; three commands give two writers and a reader.
*TestCommand*: preview and chunk have the same size in the code (4096), and six bytes reach two full chunks,
an output of exactly the preview, one byte more (all that is kept), and a full pipe behind a full buffer.
*RunRecord*: the requests take every branch of the parser, in both modes; the outputs have up to three
changes (denied between applied), two tests (the second refused or failing), and inspections before and behind tests, where the
numbering of nodes is not that of the steps; the workspaces allow nothing, an exact command, prefixes, and a prefix longer than the command.
*OpticCategory*: two roles are enough for a check about one role or one handoff, since `IsValid` is a conjunction over those,
and the shipped five roles with each handoff dropped, ill-typed, backward or unknown ones added, and inputs and no-ops that smuggle
or hide a type cover the interplay; the targets include paths shorter and longer than a surface, absolute ones and ones that lead back up.  *Optics*: two optics have a first, a last and (as one) both; a third would be
another stage with no request and a fitting input, as the second is in a graph of two with none.

**Fairness.**  `Mutation` and `TestCommand` state liveness.  `Mutation!FairSpec` has weak fairness for each
run's `Step` as long as the run is not blocked in `flock`: a live process is scheduled by the
operating system, and a blocked `flock` wakes a waiter when the lock is free.  A waiting run (`Waits`) is left out because its
`flock` may also raise, and a failure of the call must not count as the rescue of a run that would otherwise
wait for ever.  Strong fairness is not needed: a run goes through finitely many changes, so
every other run takes a given lock finitely often.  Kills, failures, foreign writes and the
removal of a stale lock are never fair.  `TestCommand!FairSpec` has weak
fairness for the main thread (whose wait always has the timeout to take) and for each drain thread; the
child and its helper owe nothing, so `RunEnds` is conditional on helpers letting go of the pipes,
which `src/README.md:162` names as a known limitation.  `Harness`, `Scheduler` and `Workspaces` have no waiting
at all, so that termination would say nothing about the code there; the same holds of `RunRecord` and both optics modules.

**Deadlock** is checked in every run; a state in which all processes have ended stutters
explicitly.

## 4. The proofs

Every invariant and action property that a passing run checks is also a theorem (and `OpticsTypeOK`, which no run
needs to repeat), for every value of the constants that satisfies the named assumptions; the refinement of `ApprovedChange` is one too.  The inductive
invariants were checked by TLC, as invariants of the runs of section 3 (those of `Harness` on `HarnessTask` and `HarnessPair`),
before they were proved.

Common assumptions: `SwitchAssumption` and `FaultAssumption` (switches are Boolean, `MaxFaults` a natural number) and the
assumption in each module that `None`, `NoRun` or `Absent` is none of the values it is compared with (`NoneAssumption`,
`NobodyAssumption`): in Python `None` differs from every string, path and record.

### MutationProofs

For any sets of runs, files, contents and proposals (`RequestAssumption`: finite sequences of changes on targets) and for all switches:

* `Typing`: `TypeOK`.
* `Exclusion`: `GuardIsExclusive`, for flock as well as for lock directories, with failing calls, kills
  and locks removed by hand.
* `ApprovedWrites`: `WritesAreApproved`.
* `Refinement`: without foreign writers, `Mutation` implements `ApprovedChange`.
* `ExactReport`: `ReturnedReportIsExact`.
* `TempsRemoved`: `NoTempLeft`.

`WritesAreApproved` is not inductive: at `commit` one must know that the approval is
on disk and the file still is what the approval says.  That is `WritesArePrepared`, and it survives the
steps of *other* runs only because of `GuardIsExclusive`: a run that writes a file holds its guard, so
no other run is between its recheck and its commit there (`OneWriter`, `OthersStayPrepared`).  The
inductive invariant is therefore `TypeOK /\ GuardIsExclusive /\ WritesArePrepared /\
WritesAreApproved`, each part preserved by each action under the parts before it.

For the refinement, a step that installs content must spend an approval *that was not spent before*.
`ChangesTakenInOrder` supplies it: a run's writes have indices below the current one, or equal to it
only after the commit.  `NothingRaced` (no foreign writer, so no escape clause) makes the swap
exact.  Every other step adds approvals or stutters (`OtherStepsApprove`).

A report is exact only when it is returned; in between, a file is written before the list says so.  `LedgersBalance` says
what is entered when: up to an exception the lists account for each change before the current one, and the current one
is written just when the run is past its commit.  `TempsAtWork` names the labels at which there is a temporary file.

### TestCommandProofs

For any sizes of previews, chunks, pipes and outputs (`SizeAssumption`: positive numbers):

* `Typing`: `TypeOK`, which bounds what the threads keep.
* `FinalTimeouts`: `TimeoutIsFinal`, from `Orderly`: how far the main thread is tells what has become of the child.
* `ExactResults`: `ResultIsExact`.  The inductive invariant `Exactness` says that a buffer and a chunk hold the
  first and the last of the bytes taken (`Gathered`; a buffer takes no more only when it is full, so there is no gap), that a thread which is
  done has seen a stream nobody can write to any more (`Drained`: the write ends of a pipe can only be inherited from
  one who has them), that a join passes only threads that are done (`Joined`), and that the
  result was taken from such buffers (`Reported`).

### HarnessProofs

For any number of runs, raising writes, kills, and with or without late failures: `Typing`, `ResolvedCitations` (`CitationsHold`),
`TrueSuccess` (`SuccessIsTrue`), `UndoneFailure` (`FailureIsUndone`), `ToldFailure` (`FailureIsTold`), `SweptFailure` (`OnlySweptRunsFailLate`).

The properties speak of files, the steps of what the variables of a frame hold.  The inductive invariant is about one run and
joins the two: on the way to success a run holds exactly what is on disk (`Path`, with `Behind` for what is stored by each
label); once something was raised, disk and variables part by what is late or was removed, and `Story` says what still
holds; `CleanUp` says that the clean-up knows of all memory but late files, and that it has removed it before the recovery
begins; `Recovery` says of each artifact what has been told by when.  `Resolves`, `PermitShort` and `Ending` are the
properties themselves, for one run.  Two runs meet only in the memory directories, whose writers look at nothing of each other,
so each conjunct survives the steps of other runs for the one reason that they leave this run's files alone.  `SweptFailure` alone is about the directories: `Swept`
says that a run at a memory write has its directory unless it was swept.

### RunRecordProofs

For any requests, outputs of other agents, providers, workspaces and approval lists: `Typing`, `AuthorizedSteps` (`NothingUnauthorized`),
`RunTold` (`RunIsTold`), `DevRecords` (`DevRecordsAgree`), `CitedMutations` (`MutationsCiteApproval`), `DagOfRun` (`DagTellsRun`).

Assumptions: `RequestAssumption` (a request is a sequence of words), `RecordAssumption` (a command prefix is a sequence),
`OutputAssumption` (what an output proposes are sequences, and so is the command of an effect: the loops over them and
`_is_string_list` of the output gate accept nothing else).
That the plan of the bundled agent is such an output is a lemma.

The records are made at the end, from `known`, `output` and `reason`; the properties compare them with the history.  So the inductive
invariant follows the three through the phases.  `Phase` is the phase a run is in or, from the kind of its failure,
was in when it failed.  `TestRuns` says for each phase how `known.tests` stands to the processes that ran, `ChangesMade`
the same for changes, with what each kind of failure made the run lose; `Carried` says that steps were authorized, `Held` and `Place`
that lists and positions are of the output; `Told` says that the terminal records are `EndTold(ok)`, a function of what is
held.  What remains is a fact about that function, without actions: `DevRecords` is a proof by cases of what the builders
make of each combination.

`DagOfRun` needs the order of steps: `InOrder` says that the log rises by phase and, in a phase, by position.  The nodes of a
DAG rise likewise, by the lemmas about `Positions` (an enumeration by rank, for which cardinalities of finite sets are
needed), so a later step's node never stands before an earlier one's.

### SchedulerProofs

For any number of commands and workspaces: `Typing`, `TrueRecords` (`RecordsTellOutcomes`), `ExplicitPriority` (`PriorityIsExplicit`),
and the action property `SettledStays` (`SettledIsFinal`).

The store is read and rewritten without a lock, so the danger is a stale copy.  `InHand` is why there is none: a record about to be
rewritten is a background command's, which ended when it was written and never writes again (`RecordIsOwn`), so
what was read can differ from the disk only by the mark that another walker left there meanwhile, and that is the value about to be written.  `Stage` ties the label of a
command to its record, `WalkIsMarked` says of the records behind a walker that each is marked, `AdmissionIsKept` that the admission
keeps them, `Settling` relates outcome and record.

### WorkspacesProofs

For any number of commands, names and roots (`KindAssumption`: no name is an id): `Typing`, `ExactIndex` (`IndexIsExact`), `KeptGrants` (`GrantsAreKept`),
`SameWorkspace` (`RunsWhereAdmitted`).

What holds in any interleaving (an index entry has its record) follows from the order of writes, `WriterAtWork`: an id
is only indexed once it is known.  What holds without races needs `OneWriter`: no race was noticed, so at most
one writer is between its first step and its last, and what it has read is still on disk.  A reader may be interrupted by a
writer all the same; `RunAtWork` says that the workspace it was admitted for stays among those its reference means, since without
races the index only grows.

### OpticCategoryProofs

For any registries and compositions that the constructors accept (`RegistryAssumption`, `CompositionAssumption`), and any paths (`TargetAssumption`: sequences of parts):

* `Typing`: `CategoryTypeOK`.
* `OnlyOptionalIsMissing`: `MissingWasOptional`.  A required input is wired, by a handoff of this type, to a role that
  comes earlier in the order; that role has acted; so it made the artifact unless it was optional.
* `Boundary`: `BoundaryIsKept`.
* `WritesInside`: `WritesStayInside`.  `Resolved` is a recursive function of the parts of a path; that a path without `""`, `.` and
  `..` resolves to itself is shown by the least part at which the walk would differ from the path so far (`PlainResolves`).

The inductive invariant `Progress` adds to the types what "acting in order" means: all roles before `due` have made their
required outputs, and nothing is made but by a role of a valid composition, of its own outputs.  That an order names no role
twice is needed (`WellFormedComposition`, the constructor's check): the position found for a role is otherwise not its turn.

### OpticsProofs

For any optics, bindings and patches that the constructors accept (`LibraryAssumption`, `BindingAssumption`, `PatchAssumption`), any sources and
requests: `Typing`, `RightProjections` (`ProjectsWhenItShould`), `LastViews` (`GraphShowsLastView`), `GroundedPatches` (`PatchIsGrounded`).

The properties speak of the source, a stage looks at the view of the stage before.  `Shown` says what such a view is in terms of the source: it has
the fields it was asked for, each with the lineage it has at the source, all of them in the contract of every optic so far.  Since
a graph that composes asks each stage for what the next one reads, no later stage can fail for want of data, which is `Refusing`: an error is
the fault of the request or of the source.

### Only model-checked

`RunsFinish`, `OutputNeverBlocks` and `RunEnds`: liveness under fairness, which this prover does not reach (it has no `ENABLED`).  The three findings are
counterexamples and have no theorem.

## 5. Findings

1. **A foreign write in the window is overwritten** (`MutationRace`).  The comment at
   `execution/effects.py:277` says that a mutation must fail if another process changed the
   target after approval.  Between the comparison and `os.replace` a program that takes no lock
   can still write.  `MutationFallback` and the theorem `ApprovedWrites` bound this: only a modify, and only in that window.
2. **Both `completed` and `failed`** (`HarnessTwoEnds`).  `src/README.md:132` says a run writes
   either.  The completed event is the first write of the finalization; when a later
   one fails, the failed event joins it.
3. **Approvals missing from the failed workflow** (`HarnessLostApproval`).  `src/README.md:118`
   says `approval_artifacts` lists all of them, mutation approvals included.  When a later change raises,
   the lists of the executor's frame are lost, the approvals stay on disk.

## 6. Modelling decisions

* An exception is an outcome of a call, enabled by `Faults` or bounded by `MaxFaults`; what it leaves
  behind is what the code leaves behind.  `KeyboardInterrupt` passes the `except Exception`
  clauses, and is a kill; removing one's own temporary file is taken to work.
* Failures of `mkdir` are failures of the write that follows.  `file_preimage` is one
  read.  Hashes are collision-free: a content stands for its hash.
* Target paths are resolved before they are compared, so two targets are two files; hard links and
  case-insensitive file systems are left out.
* Task ids are unique (`uuid4`), so artifacts of two runs never collide; the memory directories are what
  they share.

* A thread that cannot be started (`RuntimeError` of `Thread.start`) is left out of `TestCommand`; both
  threads start together with the child, as a thread that is started late is one that is scheduled late.
* In `RunRecord` a request has no blanks at its ends and single ones between words; quotes occur around one phrase.  The content of a
  change and the directory part of a path are left out; an approved path equals a target when it is the same words.
* Failure texts are kinds.  Two builders look for "test command" in the text, and a text may quote a path: no path of the model contains
  these words, and the hazard list names what happens with one that does.
* Audit findings are a set; two test runs give the same note twice in the code.  A failed fix write after a written audit is
  a choice of `ok`; that an audit of the failed finalization may still lie on disk is part of `Harness`.
* Lineage tokens, field names and type names are sets where the code refuses duplicates; data values travel with
  their fields and are left out.

What the code does and a reader may not expect, all within the properties above:

* The planned workflow of a dev run says that its audit node is "completed" before there is an audit.
* The audit status "passed" cannot occur in a run: without a test there is a note that none ran, with one a note
  that it ran without a sandbox.
* A later test that is refused, times out or cannot be started takes the results of earlier ones with it
  (`LosesTests`), and a command that cannot be started leaves the test node "planned".
* "test" between two words splits a request also inside a quoted content.
* `OpticSpec` admits an optic without required lineage, but no valid composition contains it, since the validation result refuses
  an empty entry in its lineage summary.
* `validate_patch` checks evidence for changed fields only, and lets a patch change a field that the projection
  was not asked to show, if its rule requires the lineage of shown fields only.

## 7. Not modelled

* The eight gates of the policy engine that keep artifact writes under their `BAI_HOME` subtree: containment of
  resolved paths, with paths that the stores build themselves (a gate that refuses is one of the failing writes of `Harness`).
* `contains_allowed_path` and `validate` of the workspace store: containment in an allowed path is membership in the scope.
* `ProviderConfigStore.set_local`: one atomic write of a file that nothing else writes.
* Printing, argument parsing and path arithmetic (`core/runtime.py`) have no state; exception classes appear as expected and unexpected.
* `atomic_write_text` under concurrent readers: it appears as the outcomes of a write, not step by step.

`tests/` and `docs/` were read as statements of intent.

## 8. Plan

1. `AtomicWrite`: `atomic_write_text` for several writers and readers of one path, with kills and
   both kinds of failure; abstract specification: a register whose reader sees whole values.  The
   write outcomes that the other modules assume become its contract.
2. The artifact gates with path containment, links included, where `contains_allowed_path` meets them.

Proofs left: every safety property of section 3 is proved.  A proof that `AtomicWrite` implements its register, and
the containment lemmas of the gates, come with these modules; so does a statement that connects `Harness` and
`RunRecord`, two views of one run that are connected by this text only.
