------------------------------- MODULE RunRecord -------------------------------
(***************************************************************************)
(* What one run does and what its records say of it.  PlanAgent parses the *)
(* request, PolicyEngine gates the plan and each effect, EffectExecutor    *)
(* carries the effects out, and the builders of workflow.py, audit.py and  *)
(* fix.py turn what Harness knows of that into a workflow DAG, an audit, a *)
(* fix proposal and an optic trace: in finalize_success when all went      *)
(* well, else in the recovery of Harness.run.  Harness models the files    *)
(* and their order, Mutation the writing of a change; here an artifact is  *)
(* its content.  A request is its words, a path the words it was given as, *)
(* and a failure the kind of its text.                                     *)
(***************************************************************************)
EXTENDS Naturals, Sequences, FiniteSets, SequencesExt, FiniteSetsExt

CONSTANTS
    Requests,       \* sequences of words
    OtherOutputs,   \* what an agent other than PlanAgent may return
    Configs,        \* provider configurations
    Records,        \* workspace records: scope and command policy
    ApprovalLists,  \* sets of paths approved on the command line
    None

VARIABLES
    request,        \* what was asked, or None when another agent runs
    workspace, approved,
    route,          \* the provider configuration that was selected
    output,         \* the execution copy of the agent output
    pc, at,         \* the phase, and the effect or change it comes to next
    known,          \* the lists that Harness holds, or that the phase is building
    reason,         \* the failure that unwound the run
    told,           \* the terminal records, with the planned workflow before
    log,            \* history: steps carried out, as kind and index
    onDisk,         \* history: the changes made
    ran             \* history: exit codes of the test processes; 9: timed out

\* What can make a run fail.
LosesTests == {"test command policy", "test argv list", "test command argv",
               "test writable path", "test command timeout", "test spawn"}
Reasons == LosesTests \union {"provider", "request", "output", "acceptance", "planned workflow",
                              "inspect target", "test command exit", "mutation", "write"}

ASSUME NoneAssumption == None \notin Requests \union OtherOutputs \union Reasons

inputs == <<request, workspace, approved>>
history == <<log, onDisk, ran>>
vars == <<inputs, route, output, pc, at, known, reason, told, history>>
-------------------------------------------------------------------------------
(* PlanAgent.run                                                               *)

\* _split_test_request: the word "test" in front, or first between two others.
SplitTest(words) ==
    LET marks == {i \in 2..(Len(words) - 1) : words[i] = "test"}
        cut == IF words # <<>> /\ words[1] = "test" THEN 1
               ELSE IF marks # {} THEN Min(marks) ELSE Len(words) + 1
    IN  [command |-> SubSeq(words, 1, cut - 1), test |-> SubSeq(words, cut, Len(words))]

\* shlex.split: a quoted phrase is one part, a quote left open raises.
QuoteMarks(words) == {i \in DOMAIN words : words[i] \in {"'run", "suite'"}}
OpenQuote(words) == Cardinality(QuoteMarks(words)) % 2 = 1
Parts(words) ==
    LET marks == QuoteMarks(words)
    IN  IF marks = {} THEN words
        ELSE SubSeq(words, 1, Min(marks) - 1) \o <<"phrase">>
               \o SubSeq(words, Max(marks) + 1, Len(words))

IsDev(words) == words # <<>> /\ words[1] = "dev"
Asked(words) == SplitTest(IF IsDev(words) THEN Tail(words) ELSE words)
Verb(command) == IF Len(command) > 1 THEN command[1] ELSE "none"

\* _modify_proposal and _test_effect
CannotParse(words) ==
    LET asked == Asked(words)
        parts == Parts(Tail(asked.command))
    IN  \/ /\ Verb(asked.command) = "propose-modify"
           /\ OpenQuote(asked.command) \/ Len(parts) # 3 \/ parts[2] # "--content"
        \/ OpenQuote(asked.test)

InspectEffect(path) == [kind |-> "inspect_file", path |-> path, argv |-> <<>>, writable |-> {}]
TestEffect(argv, writable) ==
    [kind |-> "test_command", path |-> <<>>, argv |-> argv, writable |-> writable]

PlanOf(words) ==
    LET asked == Asked(words)
        verb == Verb(asked.command)
        rest == Tail(asked.command)
    IN  [agent |-> "plan", policy |-> "serial",
         mode |-> IF IsDev(words) THEN "dev" ELSE "default",
         changes |-> CASE verb = "propose-create" -> <<[path |-> rest, operation |-> "create"]>>
                       [] verb = "propose-modify" ->
                            <<[path |-> <<Parts(rest)[1]>>, operation |-> "modify"]>>
                       [] OTHER -> <<>>,
         effects |-> (IF verb = "inspect" THEN <<InspectEffect(rest)>> ELSE <<>>)
                       \o IF asked.test = <<>> THEN <<>>
                          ELSE <<TestEffect(Parts(Tail(asked.test)), {})>>]

\* The outputs an agent may return: what it proposes are lists, of commands that
\* are lists, and so are a request and the command prefixes of a workspace.
IsList(s) == s \in Seq(Range(s))
IsOutput(o) ==
    /\ IsList(o.changes) /\ IsList(o.effects)
    /\ \A i \in DOMAIN o.effects : IsList(o.effects[i].argv)

ASSUME RequestAssumption == \A words \in Requests : IsList(words)
ASSUME RecordAssumption == \A w \in Records : \A prefix \in w.prefixes : IsList(prefix)
ASSUME OutputAssumption == \A o \in OtherOutputs : IsOutput(o)

Outputs == OtherOutputs \union {PlanOf(words) : words \in {w \in Requests : ~CannotParse(w)}}
-------------------------------------------------------------------------------
(* Router.select and PolicyEngine                                              *)

IsLocalEndpoint(e) ==
    \/ e.scheme \in {"stub", "local", "file"}
    \/ e.scheme = "http" /\ e.host \in {"127.0.0.1", "localhost"}

Selects(config) ==
    config.provider = "local" /\ ~config.network /\ IsLocalEndpoint(config.endpoint)

\* Mutant: one good effect is enough.
AcceptsSomeEffect(o) ==
    /\ o.agent = "plan" /\ o.policy = "serial"
    /\ \A i \in DOMAIN o.changes : o.changes[i].operation \in {"create", "modify"}
    /\ o.effects # <<>> => o.effects[1].kind \in {"inspect_file", "test_command"}

\* gate_agent_output
AcceptsOutput(o) ==
    /\ o.agent = "plan" /\ o.policy = "serial"
    /\ \A i \in DOMAIN o.changes :
         o.changes[i].operation \in {"create", "modify"} /\ o.changes[i].path # <<>>
    /\ \A i \in DOMAIN o.effects :
         \/ o.effects[i].kind = "inspect_file" /\ o.effects[i].path # <<>>
         \/ o.effects[i].kind = "test_command" /\ o.effects[i].argv # <<>>

\* Mutant: a command that is the beginning of an approved one will do.
MatchesShorter(argv, prefixes) ==
    \E prefix \in prefixes : Len(prefix) >= Len(argv) /\ SubSeq(prefix, 1, Len(argv)) = argv

MatchesPrefix(argv, prefixes) == \E prefix \in prefixes :
    prefix # <<>> /\ Len(argv) >= Len(prefix) /\ SubSeq(argv, 1, Len(prefix)) = prefix

\* gate_effect for each kind of effect; execute_tests passes the root as cwd.
MayInspect(path) == workspace.inspect /\ path \in workspace.scope

TestRefusal(effect) ==
    IF ~workspace.test THEN "test command policy"
    ELSE IF effect.argv = <<>> THEN "test argv list"
    ELSE IF effect.argv \notin workspace.argvs /\ ~MatchesPrefix(effect.argv, workspace.prefixes)
         THEN "test command argv"
    ELSE IF ~(effect.writable \subseteq workspace.writable) THEN "test writable path"
    ELSE "none"
-------------------------------------------------------------------------------
(* workflow.py: the DAG                                                        *)

\* Mutant: nodes of a kind are not numbered.
NodeOnly(kind, i) == <<kind, 1>>

\* "inspect", "inspect_2", ...: the index is that in the whole list of effects.
Node(kind, i) == <<kind, i>>

\* Where the effects of a kind stand among all effects, in order.
EffectsOf(o, kind) == {i \in DOMAIN o.effects : o.effects[i].kind = kind}
Positions(o, kind) ==
    LET here == EffectsOf(o, kind)
    IN  [k \in 1..Cardinality(here) |->
            CHOOSE i \in here : Cardinality({j \in here : j <= i}) = k]
Nodes(kind, positions) == [k \in DOMAIN positions |-> Node(kind, positions[k])]

\* build_phase_one_workflow: every node depends on the one before it.
DefaultDag(o, k) ==
    LET ids == <<Node("plan", 1)>>
                 \o Nodes("inspect", Positions(o, "inspect_file"))
                 \o Nodes("test", Positions(o, "test_command"))
                 \o Nodes("code_mutation", [i \in DOMAIN k.applied |-> i])
                 \o <<Node("memory_write", 1)>>
        Approval(id) == IF id[1] = "code_mutation" /\ id[2] \in DOMAIN k.approvals
                        THEN k.approvals[id[2]] ELSE None
    IN  [i \in DOMAIN ids |-> [id |-> ids[i], approval |-> Approval(ids[i]),
                               after |-> IF i = 1 THEN {} ELSE {ids[i - 1]}]]

\* build_developer_workflow
DevDag ==
    LET dag == <<<<"plan", {}>>, <<"code", {"plan"}>>, <<"doc", {"code"}>>, <<"test", {"code"}>>,
                 <<"audit", {"doc", "test"}>>, <<"fix", {"audit"}>>>>
    IN  [i \in DOMAIN dag |-> [id |-> Node(dag[i][1], 1), approval |-> None,
                               after |-> {Node(n, 1) : n \in dag[i][2]}]]
-------------------------------------------------------------------------------
(* The audit, its fix proposals and the results of the developer nodes         *)

\* Mutant: only an exit code fails the test node.
MentionsExit == {"test command exit"}

\* The failures whose text contains "test command"; no path is taken to do so.
MentionsTest == {"test command policy", "test command argv", "test command timeout",
                 "test command exit"}

Finding(severity, code, change) == [severity |-> severity, code |-> code, change |-> change]

HasTest(o) == EffectsOf(o, "test_command") # {}

\* build_audit_result; findings that repeat one another are one.
AuditFindings(o, k, why) ==
    (IF k.tests = <<>> /\ ~HasTest(o) /\ why = None
     THEN {Finding("info", "no_test_command", None)} ELSE {})
    \union {Finding("warning", "mutation_denied", k.denied[i]) : i \in DOMAIN k.denied}
    \union {Finding("info", "trusted_test_command_no_sandbox", None) : i \in DOMAIN k.tests}
    \union (IF why = "test command exit" \/ \E i \in DOMAIN k.tests : k.tests[i] # 0
            THEN {Finding("error", "test_command_failed", None)} ELSE {})

HasSeverity(findings, severity) == \E f \in findings : f.severity = severity

\* Mutant: a status nobody else knows.
AuditStatusMisspelt(findings, status) ==
    IF status = "failed" THEN "failed" ELSE "passed_with_note"

\* _audit_status
AuditStatus(findings, status) ==
    IF status = "failed" \/ HasSeverity(findings, "error") THEN "failed"
    ELSE IF HasSeverity(findings, "warning") THEN "warnings"
    ELSE IF findings # {} THEN "passed_with_notes" ELSE "passed"

\* Mutant: every finding asks for something.
ProposalsForAll(findings) == {[source |-> f.code, change |-> f.change] : f \in findings}

\* build_fix_proposals
Proposals(findings) ==
    {[source |-> f.code, change |-> f.change] :
        f \in {g \in findings : g.code \in {"mutation_denied", "test_command_failed"}}}

\* developer_node_results, the code node
CodeStatus(o, k) ==
    IF k.applied # <<>> THEN "completed"
    ELSE IF k.denied # <<>> THEN "denied"
    ELSE IF o.changes # <<>> THEN "proposal_only" ELSE "skipped"

\* developer_node_results, the test node
TestStatus(o, k, why) ==
    IF why \in MentionsTest THEN "failed"
    ELSE IF k.tests # <<>> THEN "completed"
    ELSE IF HasTest(o) THEN "planned" ELSE "skipped"

\* The two nodes that apply_audit_result overwrites, before it does: the audit
\* node of the planned workflow says "completed", though none was made.
NodeResults(o, k, why) ==
    [code |-> CodeStatus(o, k), test |-> TestStatus(o, k, why),
     audit |-> IF why = None THEN "completed" ELSE "skipped",
     fix |-> IF k.denied # <<>> /\ why = None THEN "proposal_only" ELSE "skipped"]

\* apply_audit_result
Audited(results, audit, proposals) ==
    [results EXCEPT !.audit = audit.status,
                    !.fix = IF proposals # {} THEN "proposal_only" ELSE "skipped"]

\* Mutant: the code node's status comes before what was applied.
PatcherByNode(results, k) ==
    IF results.code \in {"proposal_only", "denied"} THEN results.code
    ELSE "not_applied_no_patchdiff"

\* _bug_fix_role_status of the Patcher
PatcherStatus(results, k) ==
    IF k.applied # <<>> THEN "applied"
    ELSE IF results.code \in {"proposal_only", "denied"} THEN results.code
    ELSE "not_applied_no_patchdiff"

\* build_bug_fix_optic_trace: role statuses, written artifacts and evidence.
Trace(status, results, k, audited, fixed) ==
    [status |-> status,
     auditor |-> IF audited THEN "completed" ELSE "skipped",
     planner |-> IF fixed THEN "proposal_only" ELSE "completed",
     patcher |-> PatcherStatus(results, k),
     reviewer |-> IF k.applied # <<>> THEN "completed_structural"
                  ELSE "completed_structural_no_patchdiff",
     evidence |-> [i \in DOMAIN k.applied \intersect DOMAIN k.approvals |->
                     <<k.applied[i], k.approvals[i]>>]]

\* Stands for a record that was not written.
Absent == <<>>

Workflow(status, dag, results, k, cites) ==
    [status |-> status, dag |-> dag, results |-> results, applied |-> k.applied,
     denied |-> k.denied, tests |-> k.tests, cites |-> cites]

Planned == Workflow("planned", IF output.mode = "dev" THEN DevDag ELSE DefaultDag(output, known),
                    NodeResults(output, known, None), known, {})

\* All terminal records, when the artifacts in ok could be written.  The fix
\* needs the audit; in the default mode there is a workflow only.
Terminal(status, why, ok) ==
    LET findings == AuditFindings(output, known, why)
        audit == [status |-> AuditStatus(findings, status), findings |-> findings]
        proposals == IF "audit" \in ok THEN Proposals(findings) ELSE {}
        cites == (ok \intersect {"audit", "trace"})
                   \union (IF proposals = {} THEN {} ELSE ok \intersect {"fix"})
        results == Audited(NodeResults(output, known, why), audit, proposals)
        Made(name, content) == IF name \in cites THEN content ELSE Absent
        workflow == IF output.mode = "dev" THEN Workflow(status, DevDag, results, known, cites)
                    ELSE Workflow(status, DefaultDag(output, known), None, known, {})
    IN  [workflow |-> IF "workflow" \in ok THEN workflow ELSE told.workflow,
         audit |-> IF output.mode = "dev" THEN Made("audit", audit) ELSE Absent,
         fix |-> IF output.mode = "dev" THEN Made("fix", [proposals |-> proposals]) ELSE Absent,
         trace |-> IF output.mode # "dev" THEN Absent
                   ELSE Made("trace", Trace(status, results, known,
                                            "audit" \in cites, "fix" \in cites))]
-------------------------------------------------------------------------------
(* Harness.run                                                                 *)

Nothing == [inspections |-> <<>>, tests |-> <<>>, applied |-> <<>>,
            approvals |-> <<>>, denied |-> <<>>]

Init ==
    /\ request \in Requests \union {None}
    /\ workspace \in Records /\ approved \in ApprovalLists
    /\ route = None /\ output = None
    /\ pc = "agent" /\ at = 1 /\ known = Nothing /\ reason = None
    /\ told = [workflow |-> Absent, audit |-> Absent, fix |-> Absent, trace |-> Absent]
    /\ log = <<>> /\ onDisk = <<>> /\ ran = <<>>

\* Mutant: the lists of the finished phases are lost as well.
HeldOfNone(k, exitCode) == Nothing

\* A phase that raises has not returned its lists; only TestCommandRunError
\* carries the test runs.
HeldOf(k, exitCode) ==
    CASE pc = "inspect" -> [k EXCEPT !.inspections = <<>>]
      [] pc = "test" /\ ~exitCode -> [k EXCEPT !.tests = <<>>]
      [] pc = "mutate" -> [k EXCEPT !.applied = <<>>, !.approvals = <<>>, !.denied = <<>>]
      [] OTHER -> k

\* The recovery has a story to tell once the output was accepted.
Unwind(k, why) ==
    /\ reason' = why
    /\ pc' = IF pc \in {"agent", "gate"} THEN "raised" ELSE "recover"
    /\ known' = HeldOf(k, why = "test command exit")
    /\ UNCHANGED <<inputs, route, output, at, told>>

Fail(why) == Unwind(known, why) /\ UNCHANGED history

\* Router.select and agent.run
RunAgent ==
    /\ pc = "agent"
    /\ \E config \in Configs :
         IF ~Selects(config) THEN Fail("provider")
         ELSE IF request # None /\ CannotParse(request) THEN Fail("request")
         ELSE /\ route' = config
              /\ output' \in IF request = None THEN OtherOutputs ELSE {PlanOf(request)}
              /\ pc' = "gate"
              /\ UNCHANGED <<inputs, at, known, reason, told, history>>

\* The output gate; then the acceptance record and the planned workflow, which
\* may be on disk even though writing it raised.
GateOutput ==
    /\ pc = "gate"
    /\ IF ~AcceptsOutput(output) THEN Fail("output")
       ELSE \/ Fail("acceptance")
            \/ /\ \/ /\ told' = [told EXCEPT !.workflow = Planned]
                     /\ pc' = "inspect" /\ reason' = None
                  \/ /\ told' \in {told, [told EXCEPT !.workflow = Planned]}
                     /\ pc' = "recover" /\ reason' = "planned workflow"
               /\ UNCHANGED <<inputs, route, output, at, known, history>>

\* Mutant: dev tests before it mutates, default mutates before it tests.
AfterSwapped(phase) ==
    CASE phase = "inspect" -> IF output.mode = "dev" THEN "test" ELSE "mutate"
      [] phase = "mutate" -> IF output.mode = "dev" THEN "finalize" ELSE "test"
      [] phase = "test" -> IF output.mode = "dev" THEN "mutate" ELSE "finalize"

After(phase) ==
    CASE phase = "inspect" -> IF output.mode = "dev" THEN "mutate" ELSE "test"
      [] phase = "mutate" -> IF output.mode = "dev" THEN "test" ELSE "finalize"
      [] phase = "test" -> IF output.mode = "dev" THEN "finalize" ELSE "mutate"

\* What the loop of a phase goes through.
Todo ==
    CASE pc \in {"inspect", "test"} -> output.effects
      [] pc = "mutate" -> output.changes
      [] OTHER -> <<>>

EndPhase ==
    /\ pc \in {"inspect", "mutate", "test"} /\ at > Len(Todo)
    /\ pc' = After(pc) /\ at' = 1
    /\ UNCHANGED <<inputs, route, output, known, reason, told, history>>

\* It comes to an effect of this kind, or goes on to the next one.
ComesTo(phase, kind) ==
    /\ pc = phase /\ at <= Len(output.effects)
    /\ output.effects[at].kind = kind
Proceed(k) ==
    /\ known' = k /\ at' = at + 1
    /\ UNCHANGED <<inputs, route, output, pc, reason, told>>

\* Effects of another kind are for another phase.
Skip ==
    /\ pc \in {"inspect", "test"} /\ at <= Len(output.effects)
    /\ output.effects[at].kind # IF pc = "inspect" THEN "inspect_file" ELSE "test_command"
    /\ Proceed(known)
    /\ UNCHANGED history

\* execute_inspections; the target may be missing or no file.
Inspect ==
    /\ ComesTo("inspect", "inspect_file")
    /\ LET path == output.effects[at].path
       IN  \/ Fail("inspect target")
           \/ /\ MayInspect(path)
              /\ Proceed([known EXCEPT !.inspections = Append(@, path)])
              /\ log' = Append(log, <<"inspect", at, path>>)
              /\ UNCHANGED <<onDisk, ran>>

\* execute_tests; the child may not start, time out or exit with 0 or 1.
Test ==
    /\ ComesTo("test", "test_command")
    /\ LET effect == output.effects[at]
           refusal == TestRefusal(effect)
       IN  IF refusal # "none" THEN Fail(refusal)
           ELSE \/ Fail("test spawn")
                \/ /\ log' = Append(log, <<"test", at, effect.argv>>)
                   /\ UNCHANGED onDisk
                   /\ \/ Unwind(known, "test command timeout") /\ ran' = Append(ran, 9)
                      \/ \E code \in {0, 1} :
                           LET k == [known EXCEPT !.tests = Append(@, code)]
                           IN  /\ ran' = Append(ran, code)
                               /\ IF code = 0 THEN Proceed(k)
                                  ELSE Unwind(k, "test command exit")

Changed(change) ==
    /\ log' = Append(log, <<"code_mutation", Len(known.applied) + 1, change>>)
    /\ onDisk' = Append(onDisk, change)
    /\ UNCHANGED ran

\* Mutant: a denied change keeps the approval it was not given.
DeniedKeepsApproval(change) ==
    Proceed([known EXCEPT !.denied = Append(@, change), !.approvals = Append(@, change)])

Deny(change) == Proceed([known EXCEPT !.denied = Append(@, change)])

\* execute_approved_mutations; Mutation has the steps in which an approved change
\* can fail, before it is on disk or after.
Mutate ==
    /\ pc = "mutate" /\ at <= Len(output.changes)
    /\ LET change == output.changes[at]
       IN  IF change.path \notin approved THEN Deny(change) /\ UNCHANGED history
           ELSE \/ Fail("mutation")
                \/ /\ change.path \in workspace.scope
                   /\ Changed(change)
                   /\ \/ Unwind(known, "mutation")
                      \/ Proceed([known EXCEPT !.applied = Append(@, change),
                                              !.approvals = Append(@, change)])

Stores == {"audit", "fix", "trace", "workflow"}
FinalStatus == IF known.denied # <<>> THEN "completed_with_denials" ELSE "completed"

\* finalize_success writes all records or fails.
Finalize ==
    /\ pc = "finalize"
    /\ \/ /\ told' = Terminal(FinalStatus, None, Stores)
          /\ pc' = "returned"
          /\ UNCHANGED <<inputs, route, output, at, known, reason, history>>
       \/ Fail("write")

\* The recovery: each record on its own may fail to be written.  All of them
\* failing is also what a failure outside EXPECTED_RUN_FAILURES comes to, which
\* has no recovery.
Recover ==
    /\ pc = "recover"
    /\ \E ok \in SUBSET Stores : told' = Terminal("failed", reason, ok)
    /\ pc' = "raised"
    /\ UNCHANGED <<inputs, route, output, at, known, reason, history>>

Ended == pc \in {"returned", "raised"}

Next ==
    \/ RunAgent \/ GateOutput \/ EndPhase
    \/ Inspect \/ Test \/ Skip \/ Mutate
    \/ Finalize \/ Recover
    \/ Ended /\ UNCHANGED vars

Spec == Init /\ [][Next]_vars
-------------------------------------------------------------------------------
Steps == {"inspect", "test", "code_mutation"}
CodeStatuses == {"completed", "denied", "proposal_only", "skipped"}
TestStatuses == {"failed", "completed", "planned", "skipped"}
AuditStatuses == {"passed", "passed_with_notes", "warnings", "failed"}

TypeOK ==
    /\ pc \in {"agent", "gate", "inspect", "mutate", "test", "finalize", "recover"}
               \union {"returned", "raised"}
    /\ at \in 1..(Len(Todo) + 1) \/ pc \in {"recover", "raised"}
    /\ pc \notin {"agent", "raised"} => output \in Outputs /\ Selects(route)
    /\ reason \in Reasons \union {None}
    /\ (reason # None) = (pc \in {"recover", "raised"})
    /\ \A i \in DOMAIN log : log[i][1] \in Steps
    /\ told.audit # Absent => told.audit.status \in AuditStatuses
    /\ told.workflow # Absent /\ output.mode = "dev" =>
         /\ told.workflow.results.code \in CodeStatuses
         /\ told.workflow.results.test \in TestStatuses

\* What was carried out is what the gates let pass: the output was accepted as a
\* whole, and each step is one of its effects, within the scope and the command
\* policy of the workspace, or a change approved by hand.  A command prefix is
\* never empty and never the longer of the two.
NothingUnauthorized == \A i \in DOMAIN log :
    LET kind == log[i][1]
        what == log[i][3]
    IN  /\ ~route.network /\ output.policy = "serial"
        /\ \A e \in Range(output.effects) : e.kind \in {"inspect_file", "test_command"}
        /\ \A c \in Range(output.changes) : c.operation \in {"create", "modify"}
        /\ kind = "inspect" =>
             /\ \E e \in Range(output.effects) : e.kind = "inspect_file" /\ e.path = what
             /\ workspace.inspect /\ what \in workspace.scope
        /\ kind = "test" =>
             /\ workspace.test
             /\ \E e \in Range(output.effects) :
                  /\ e.kind = "test_command" /\ e.argv = what
                  /\ e.writable \subseteq workspace.writable
             /\ \/ what \in workspace.argvs
                \/ \E n \in 1..Len(what) : SubSeq(what, 1, n) \in workspace.prefixes
        /\ kind = "code_mutation" =>
             /\ what \in Range(output.changes)
             /\ what.path \in approved \intersect workspace.scope

IsTerminal == told.workflow # Absent /\ told.workflow.status # "planned"

\* The node that stands for a step; a dev workflow has none for inspections.
NodeOf(step) ==
    IF output.mode # "dev" THEN <<step[1], step[2]>>
    ELSE IF step[1] = "test" THEN <<"test", 1>>
    ELSE IF step[1] = "code_mutation" THEN <<"code", 1>> ELSE <<"plan", 1>>

\* Every workflow on disk is a DAG below its plan, with one node per id, each
\* depending on nodes before it, and a terminal one tells the order of the run:
\* each step carried out has its node (but for changes lost with a failed
\* mutation), and no step's node stands before, or above, that of an earlier step.
IsDag(dag) ==
    /\ dag # <<>> /\ dag[1].id = <<"plan", 1>>
    /\ \A i, j \in DOMAIN dag : dag[i].id = dag[j].id => i = j
    /\ \A i \in DOMAIN dag :
         /\ dag[i].after \subseteq {dag[j].id : j \in 1..(i - 1)}
         /\ i > 1 => dag[i].after # {}

Places(dag, step) == {n \in DOMAIN dag : dag[n].id = NodeOf(step)}

TellsSteps(dag) == \A i \in DOMAIN log :
    /\ Places(dag, log[i]) # {} \/ (log[i][1] = "code_mutation" /\ reason = "mutation")
    /\ \A j \in (i + 1)..Len(log) :
         \A m \in Places(dag, log[i]), n \in Places(dag, log[j]) : m <= n

DagTellsRun == told.workflow # Absent =>
    /\ IsDag(told.workflow.dag)
    /\ IsTerminal => TellsSteps(told.workflow.dag)

\* Each change that a terminal record lists goes with the approval of that very
\* change: its node in the default workflow, its evidence in the optic trace.
MutationsCiteApproval == IsTerminal =>
    /\ \A node \in Range(told.workflow.dag) : node.id[1] = "code_mutation" =>
         node.approval = told.workflow.applied[node.id[2]]
    /\ told.trace # Absent =>
         told.trace.evidence = [i \in DOMAIN told.workflow.applied |->
                                  <<told.workflow.applied[i], told.workflow.applied[i]>>]

\* A terminal record lists exactly the changes that were made, in order, even
\* when tests or the finalization failed after them.  Only a mutation phase that
\* raises loses its own: then none is listed, whatever was made.
ChangesAreTold == IsTerminal =>
    told.workflow.applied = IF reason = "mutation" THEN <<>> ELSE onDisk

\* A terminal record lists exactly the test runs there were, the failed one
\* included.  Lost are those of a test phase that raises something else than an
\* exit code: a refusal, a timeout, a command that does not start.
TestRunsAreTold == IsTerminal =>
    told.workflow.tests = IF reason \in LosesTests THEN <<>> ELSE ran

\* What the test node of a developer workflow says of the run.
TestNodeIsTrue == IsTerminal /\ output.mode = "dev" =>
    LET status == told.workflow.results.test
        proposed == Cardinality(EffectsOf(output, "test_command"))
    IN  /\ status = "completed" => Len(ran) = proposed /\ Range(ran) = {0}
        /\ status = "skipped" => proposed = 0
        /\ status = "planned" => ran = <<>> \/ reason \in {"test spawn", "test writable path"}
        /\ status = "failed" => reason # None /\ proposed > 0
        /\ Range(ran) \ {0} # {} => status = "failed"

\* What was done is told: the changes, the test runs, and the test node.
RunIsTold == ChangesAreTold /\ TestRunsAreTold /\ TestNodeIsTrue

\* The records of one developer run never contradict each other: the audit and
\* the audit node, the trace's roles and the nodes and artifacts they stand for,
\* and the status of the run and that of its audit.
StatusesAgree == IsTerminal /\ output.mode = "dev" =>
    LET w == told.workflow
        t == told.trace
    IN  /\ w.results.audit = "failed" <=> w.status = "failed"
        /\ w.results.audit = "warnings" <=> w.status = "completed_with_denials"
        /\ told.audit # Absent => told.audit.status = w.results.audit
        /\ told.fix # Absent => told.audit # Absent /\ w.results.fix = "proposal_only"
        /\ {n \in {"audit", "fix", "trace"} : told[n] # Absent} = w.cites
        /\ t # Absent =>
             /\ t.status = w.status
             /\ t.auditor = "completed" <=> told.audit # Absent
             /\ t.planner = "proposal_only" <=> told.fix # Absent
             /\ t.patcher = "applied" <=> w.results.code = "completed"
             /\ t.patcher = "denied" <=> w.results.code = "denied"
             /\ t.reviewer = "completed_structural" <=> t.patcher = "applied"

\* A fix artifact proposes something for every denied change and every failed
\* test, and nothing else: no fix answers notes alone ("Info-only audit findings
\* do not create a fix artifact", README), and none is due and left out of a run
\* that returns.
FixesAnswerFindings ==
    LET denials == {[source |-> "mutation_denied", change |-> c] : c \in Range(known.denied)}
        failure == {[source |-> "test_command_failed", change |-> None] :
                       i \in {i \in DOMAIN ran : ran[i] = 1}}
    IN  /\ told.fix # Absent =>
             told.fix.proposals = denials \union failure /\ told.fix.proposals # {}
        /\ pc = "returned" /\ output.mode = "dev" /\ denials # {} => told.fix # Absent

\* Nothing in the records of a developer run contradicts anything else in them.
DevRecordsAgree == StatusesAgree /\ FixesAnswerFindings
===============================================================================
