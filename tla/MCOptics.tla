-------------------------------- MODULE MCOptics --------------------------------
(* Small instances of the two optics libraries.  They share nothing, so a      *)
(* behaviour is one of the role category's or one of the record views'.        *)
EXTENDS OpticCategory, Optics, TLC

CONSTANTS a, b, c, s, t

VARIABLE used   \* the library this behaviour is about

NonEmpty(set) == SUBSET set \ {{}}
-------------------------------------------------------------------------------
\* Two roles over three artifact types, each reading and making what it may.
RoleOptics == {o \in [inputs : NonEmpty({"x", "y"}), outputs : {{"y"}, {"z"}},
                      optional : {{}, {"y"}}, lineage : {{}, {"x"}, {"y"}},
                      surface : {{}}, conditional : {<<>>}] :
                 WellFormedOptic(o) /\ o.lineage \subseteq o.inputs}
TwoRoles == [{"p", "q"} -> RoleOptics]
Loops == {l \in [order : {<<"p", "q">>, <<"q", "p">>, <<"p">>},
                 handoffs : {{Handoff("p", "y", "q")}, {Handoff("q", "y", "p")},
                             {Handoff("p", "y", "q"), Handoff("q", "z", "p")},
                             {Handoff("p", "y", "q"), Handoff("p", "z", "q")}},
                 inputs : {{"x"}, {"y"}, {"x", "y"}},
                 outputs : {{"z"}, {"y", "z"}}, optional : {{}, {"y"}},
                 noops : {<<>>, [q |-> {"y"}]}] : WellFormedComposition(l)}

\* The shipped composition and its near misses.
Drop(h) == [BugFixLoop EXCEPT !.handoffs = @ \ {h}]
Add(h) == [BugFixLoop EXCEPT !.handoffs = @ \union {h}]
NearMisses ==
    {Drop(h) : h \in BugFixLoop.handoffs}
    \union {Add(Handoff("AuditorOptic", "IssueClaimView", "PlannerOptic")),
            Add(Handoff("PatcherOptic", "PatchDiff", "PlannerOptic")),
            Add(Handoff("ReviewerOptic", "AgentMapDelta", "AuditorOptic")),
            Add([from |-> "PlannerOptic", output |-> "RepairPlan",
                 to |-> "ReviewerOptic", input |-> "PatchDiff"]),
            Add(Handoff("PlannerOptic", "RepairPlan", "Nobody"))}
    \union {[BugFixLoop EXCEPT !.inputs = @ \union {type}] : type \in {"PatchDiff", "Rumour"}}
    \union {[BugFixLoop EXCEPT !.noops = [ReviewerOptic |-> {type}]] :
                type \in {"PatchDiff", "AgentMapDelta", "AuditReport"}}
    \union {[Drop(Handoff("PatcherOptic", "PatchDiff", "ReviewerOptic")) EXCEPT
                !.order = <<"RoadmapExtractorOptic", "AuditorOptic", "PlannerOptic",
                            "ReviewerOptic">>,
                !.handoffs = {h \in @ : h.to # "PatcherOptic"},
                !.noops = [ReviewerOptic |-> {"PatchDiff"}]]}
    \union {[BugFixLoop EXCEPT !.outputs = {"AgentMapDelta"}, !.optional = {}]}

AllRegistries == TwoRoles \union {BugFixOptics}
AllCompositions == Loops \union NearMisses \union {BugFixLoop}

WriteTargets ==
    {<<"docs", "agents", "map">>, <<"docs", "agents">>, <<"docs", "audits", "d", "plan", "p">>,
     <<"docs", "audits", "d", "reports", "review.md">>, <<"docs", "plan", "p">>,
     <<"docs", "audits", "d", "review", "..", "plan", "p">>, <<"docs", "audits", "..", "plan", "p">>,
     <<"docs">>, <<"docs", "audits", "d">>,
     <<"docs", "audits", "d", "reports", "review.md", "x">>,
     <<"", "docs", "agents", "map">>, <<"docs", "agents", "..", "..", "src">>, <<"src", "a">>,
     <<"<repair-plan-authorized-files>">>}
-------------------------------------------------------------------------------
View(name, fields) == [name |-> name, fields |-> fields]
SetRule(lineage) == [operations |-> {"set"}, lineage |-> lineage]

FirstOptics == [in : {View("Record", {a, b, c})}, out : {View("Card", f) : f \in NonEmpty({a, b, c})},
                rules : {<<>>}]
SecondOptics == {o \in [in : [name : {"Card", "Record"}, fields : NonEmpty({a, b, c})],
                        out : [name : {"Target"}, fields : {{a}, {a, b}}],
                        rules : {(a :> SetRule(l)) : l \in SUBSET {a, b}}] : IsOptic(o)}
TwoOptics == {[P |-> first, Q |-> second] : first \in FirstOptics, second \in SecondOptics}
TwoBindings == {<<"P">>, <<"Q">>, <<"P", "Q">>, <<"Q", "P">>}

FullLineage == (a :> {s}) @@ (b :> {t}) @@ (c :> {s, t})
SomeSources == [data : {{a, b, c}, {a, b}},
                lineage : {FullLineage, [FullLineage EXCEPT ![b] = {}], (a :> {s, t})}]
SomeRequests == {NoRequest, {}, {a}, {a, b}, {c}}
SomePatches == {p \in [view : {"Target", "Card"}, operation : {"set", "append"},
                       changes : {{a}, {a, b}},
                       evidence : {a :> {s}, a :> {t}, a :> {s, t}, b :> {t}}] : IsPatch(p)}
-------------------------------------------------------------------------------
CategoryIdle ==
    /\ optics = BugFixOptics /\ loop = BugFixLoop
    /\ verdict = "open" /\ due = 1 /\ made = {} /\ lastWrite = <<>>

SomeLibrary == CHOOSE l \in TwoOptics : TRUE
SomeSource == CHOOSE x \in SomeSources : TRUE

ViewsIdle ==
    /\ library = SomeLibrary /\ binding = <<"P">>
    /\ source = SomeSource /\ request = NoRequest
    /\ stage = 0 /\ view = NoView /\ outcome = "declared" /\ accepted = <<>>

Init ==
    \/ used = "category" /\ CategoryInit /\ ViewsIdle
    \/ used = "views" /\ OpticsInit /\ CategoryIdle

Next ==
    \/ used = "category" /\ CategoryNext /\ UNCHANGED <<used, opticsVars>>
    \/ used = "views" /\ OpticsNext /\ UNCHANGED <<used, categoryVars>>

Spec == Init /\ [][Next]_<<used, categoryVars, opticsVars>>
===============================================================================
