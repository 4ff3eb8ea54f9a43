----------------------------- MODULE OpticCategory -----------------------------
(***************************************************************************)
(* Role optics, their composition by typed handoffs, and the validation    *)
(* that a registry gives a composition before any role acts.  What the     *)
(* validation promises is about what happens afterwards, so the roles then *)
(* act here in their order, each making what it must and any part of what  *)
(* it may; the library itself executes nothing.  Tuples of names without   *)
(* duplicates whose order decides nothing are sets.                        *)
(***************************************************************************)
EXTENDS Naturals, Sequences

CONSTANTS
    Registries,     \* functions from optic ids to optics
    Compositions,   \* composition specs
    Targets,        \* paths a role may try to write, as sequences of parts
    Placeholders,   \* parts in angle brackets, "<domain>" among them
    NoType          \* no output type named with a write

\* OpticSpec.__post_init__
WellFormedOptic(o) ==
    /\ o.inputs # {} /\ o.outputs # {}
    /\ o.outputs \intersect o.optional = {}
    /\ DOMAIN o.conditional \subseteq o.outputs \union o.optional

\* CompositionSpec.__post_init__, _normalize_handoffs, _freeze_type_map
WellFormedComposition(c) ==
    /\ c.order \in Seq(STRING) /\ c.order # <<>>
    /\ \A i, j \in DOMAIN c.order : c.order[i] = c.order[j] => i = j
    /\ c.handoffs # {} /\ c.inputs # {} /\ c.outputs # {}
    /\ c.outputs \intersect c.optional = {}
    /\ \A role \in DOMAIN c.noops : c.noops[role] # {}

ASSUME RegistryAssumption == \A reg \in Registries : \A id \in DOMAIN reg :
                                WellFormedOptic(reg[id])
ASSUME CompositionAssumption == \A c \in Compositions : WellFormedComposition(c)
ASSUME TargetAssumption == Targets \subseteq Seq(STRING)

VARIABLES
    optics,         \* the registry
    loop,           \* the composition
    verdict,        \* of validate_composition: "open", "valid" or "rejected"
    due,            \* position of the role that acts next
    made,           \* pairs of a role and an artifact type that it made
    lastWrite       \* the last write that validate_write let pass

categoryVars == <<optics, loop, verdict, due, made, lastWrite>>
-------------------------------------------------------------------------------
AllOutputs(o) == o.outputs \union o.optional
Roles(c) == {c.order[i] : i \in DOMAIN c.order}
Produced(reg, c) == UNION {AllOutputs(reg[role]) : role \in Roles(c)}

\* Mutant: an optional output will do for a required one.
ProducedMaybe(reg, c) == Produced(reg, c)

ProducedRequired(reg, c) == UNION {reg[role].outputs : role \in Roles(c)}

Consumed(reg, c) == UNION {reg[role].inputs : role \in Roles(c)}
Noops(c, role) == IF role \in DOMAIN c.noops THEN c.noops[role] ELSE {}
NoopTypes(c) == UNION {c.noops[role] : role \in DOMAIN c.noops}

\* Mutant: inputs only have to be consumed.
InputsConsumed(reg, c) == c.inputs \subseteq Consumed(reg, c)

\* What comes from outside is made by no role, and some role reads it.
InputsAreExternal(reg, c) ==
    /\ c.inputs \intersect Produced(reg, c) = {}
    /\ c.inputs \subseteq Consumed(reg, c)

\* A no-op stands for an input of that role which is an optional output.
NoopsAreOptional(reg, c) == \A role \in DOMAIN c.noops :
    /\ role \in Roles(c)
    /\ c.noops[role] \subseteq reg[role].inputs \intersect c.optional

\* Mutant: a role may hand off to one before it.
InAnyOrder(c, from, to) == {from, to} \subseteq Roles(c)

EarlierThan(c, from, to) ==
    \E i, j \in DOMAIN c.order : i < j /\ c.order[i] = from /\ c.order[j] = to

HandoffIsTyped(reg, c, h) ==
    /\ EarlierThan(c, h.from, h.to)
    /\ h.output = h.input
    /\ h.output \in AllOutputs(reg[h.from])
    /\ h.input \in reg[h.to].inputs

Incoming(c, role) == {h \in c.handoffs : h.to = role}
AvailableTo(c, role) ==
    c.inputs \union {h.input : h \in Incoming(c, role)} \union Noops(c, role)

\* The last conjunct: CompositionValidationResult freezes the lineage summary
\* with the rule that no entry is empty, so that an optic without required
\* lineage, which OpticSpec admits, is in no valid composition.
RoleIsSupplied(reg, c, role) ==
    /\ reg[role].inputs \union reg[role].lineage \subseteq AvailableTo(c, role)
    /\ reg[role].lineage # {}

OutputsAreProduced(reg, c) ==
    /\ c.outputs \subseteq ProducedRequired(reg, c)
    /\ c.optional \subseteq Produced(reg, c) \union NoopTypes(c)

\* validate_composition raises unless all of this holds.
IsValid(reg, c) ==
    /\ Roles(c) \subseteq DOMAIN reg
    /\ InputsAreExternal(reg, c)
    /\ NoopsAreOptional(reg, c)
    /\ \A h \in c.handoffs : HandoffIsTyped(reg, c, h)
    /\ \A role \in Roles(c) : RoleIsSupplied(reg, c, role)
    /\ OutputsAreProduced(reg, c)
-------------------------------------------------------------------------------
\* _surface_matches: a surface is the parts of its path and whether it ends in a
\* slash; "<domain>" stands for any one part, any other placeholder for none.
PartMatches(expected, actual) ==
    \/ expected = "<domain>"
    \/ expected \notin Placeholders /\ expected = actual

\* Mutant: parts that lead back up are taken as names.
TargetIsRelative(target) == target[1] # ""

\* _normalize_target_parts; an absolute path begins with an empty part.
TargetIsPlain(target) ==
    \A i \in DOMAIN target : target[i] \notin {"", ".", ".."}

\* Mutant: parts are compared as far as both paths have them, as zip does.
MatchesShortest(surface, target) ==
    /\ TargetIsPlain(target) /\ surface.parts # <<>>
    /\ \A i \in DOMAIN surface.parts \intersect DOMAIN target :
         PartMatches(surface.parts[i], target[i])

SurfaceMatches(surface, target) ==
    /\ TargetIsPlain(target) /\ surface.parts # <<>>
    /\ IF surface.prefix THEN Len(target) >= Len(surface.parts)
                         ELSE Len(target) = Len(surface.parts)
    /\ \A i \in DOMAIN surface.parts : PartMatches(surface.parts[i], target[i])

\* The surfaces validate_write looks at.
SurfacesFor(o, type) ==
    o.surface \union (IF type \in DOMAIN o.conditional THEN o.conditional[type] ELSE {})

\* Mutant: any output type may be named.
MayWriteAsAny(o, target, type) ==
    \E surface \in SurfacesFor(o, type) : SurfaceMatches(surface, target)

MayWrite(o, target, type) ==
    /\ type # NoType => type \in AllOutputs(o)
    /\ \E surface \in SurfacesFor(o, type) : SurfaceMatches(surface, target)
-------------------------------------------------------------------------------
CategoryInit ==
    /\ optics \in Registries /\ loop \in Compositions
    /\ verdict = "open" /\ due = 1 /\ made = {} /\ lastWrite = <<>>

Validate ==
    /\ verdict = "open"
    /\ verdict' = IF IsValid(optics, loop) THEN "valid" ELSE "rejected"
    /\ UNCHANGED <<optics, loop, due, made, lastWrite>>

\* validate_write, at any time; one that raises changes nothing.
WriteTarget(id, target, type) ==
    /\ MayWrite(optics[id], target, type)
    /\ lastWrite' = <<id, target, type>>
    /\ UNCHANGED <<optics, loop, verdict, due, made>>

\* The role whose turn it is has made its outputs and what it chose of the
\* optional ones.
Act(role, chosen) ==
    /\ verdict = "valid" /\ due \in DOMAIN loop.order /\ loop.order[due] = role
    /\ chosen \subseteq optics[role].optional
    /\ made' = made \union ({role} \X (optics[role].outputs \union chosen))
    /\ due' = due + 1
    /\ UNCHANGED <<optics, loop, verdict, lastWrite>>

Concluded == verdict = "rejected" \/ (verdict = "valid" /\ due > Len(loop.order))

Types(reg) == UNION {AllOutputs(reg[id]) : id \in DOMAIN reg}

CategoryNext ==
    \/ Validate
    \/ \E id \in DOMAIN optics, target \in Targets, type \in Types(optics) \union {NoType} :
         WriteTarget(id, target, type)
    \/ \E role \in DOMAIN optics, chosen \in SUBSET Types(optics) : Act(role, chosen)
    \/ Concluded /\ UNCHANGED categoryVars

CategorySpec == CategoryInit /\ [][CategoryNext]_categoryVars
-------------------------------------------------------------------------------
CategoryTypeOK ==
    /\ optics \in Registries /\ loop \in Compositions
    /\ verdict \in {"open", "valid", "rejected"}
    /\ due \in 1..(Len(loop.order) + 1)
    /\ \A artifact \in made :
         artifact[1] \in DOMAIN optics /\ artifact[2] \in AllOutputs(optics[artifact[1]])
    /\ lastWrite # <<>> =>
         /\ lastWrite[1] \in DOMAIN optics
         /\ lastWrite[3] \in AllOutputs(optics[lastWrite[1]]) \union {NoType}

\* What reaches a role: external inputs, its no-ops, and the artifacts that were
\* made and are handed to it.
Reaching(role) ==
    loop.inputs \union Noops(loop, role)
      \union {h.input : h \in {g \in Incoming(loop, role) : <<g.from, g.output>> \in made}}

Needs(role) == optics[role].inputs \union optics[role].lineage

\* The only artifact a role of a valid composition can miss when its turn comes
\* is an optional output of the role that should hand it over: a required
\* input is wired to an earlier role, to the outside, or declared a no-op.
MissingWasOptional ==
    verdict = "valid" /\ due \in DOMAIN loop.order =>
        \A type \in Needs(loop.order[due]) \ Reaching(loop.order[due]) :
            \E h \in Incoming(loop, loop.order[due]) :
                h.output = type /\ type \in optics[h.from].optional

\* When the last role of a valid composition has acted, everything it declares
\* as its outputs exists, whatever optional outputs were left out.
DeclaredOutputsAreMade ==
    verdict = "valid" /\ due > Len(loop.order) =>
        \A type \in loop.outputs : \E role \in Roles(loop) : <<role, type>> \in made

\* No role makes an artifact of a type that comes from outside: what a role reads
\* under an external type is never an intermediate artifact that was smuggled in.
ExternalsAreNotMade == \A artifact \in made : artifact[2] \notin loop.inputs

\* Both sides of a valid composition's boundary: what goes in is made outside,
\* what is to come out is made inside.
BoundaryIsKept == ExternalsAreNotMade /\ DeclaredOutputsAreMade

\* Where a path leads from the root of the workspace: a ".." leaves the directory
\* before it, "" at the front starts at the root of the file system.
Resolved(target) ==
    LET walk[i \in 0..Len(target)] ==
            IF i = 0 THEN <<>>
            ELSE CASE target[i] = "." -> walk[i - 1]
                   [] target[i] = ".." /\ walk[i - 1] # <<>> ->
                        SubSeq(walk[i - 1], 1, Len(walk[i - 1]) - 1)
                   [] OTHER -> Append(walk[i - 1], target[i])
    IN  walk[Len(target)]

\* The place a write goes to, once the path is resolved, lies under a directory
\* (or is the file) that the role may write unconditionally, or may write
\* because it is making that output.
WritesStayInside ==
    lastWrite # <<>> =>
        LET o == optics[lastWrite[1]]
            place == Resolved(lastWrite[2])
            open == o.surface \union
                UNION {o.conditional[t] : t \in DOMAIN o.conditional \intersect {lastWrite[3]}}
        IN  \E surface \in open :
               /\ Len(place) >= Len(surface.parts)
               /\ \A i \in DOMAIN surface.parts :
                    surface.parts[i] \in {"<domain>", place[i]}
               /\ ~surface.prefix => Len(place) = Len(surface.parts)
-------------------------------------------------------------------------------
(* The one composition the program ships.                                      *)

Directory(parts) == [parts |-> parts, prefix |-> TRUE]
File(parts) == [parts |-> parts, prefix |-> FALSE]

Optic(inputs, outputs, optional, surface, conditional) ==
    [inputs |-> inputs, outputs |-> outputs, optional |-> optional,
     lineage |-> inputs, surface |-> surface, conditional |-> conditional]

AgentDocs == Directory(<<"docs", "agents">>)
AuditDocs(name) == Directory(<<"docs", "audits", "<domain>", name>>)

BugFixOptics == [
    RoadmapExtractorOptic |->
        Optic({"RepositoryFiles"}, {"RepositoryMapView"}, {}, {AgentDocs}, <<>>),
    AuditorOptic |->
        Optic({"RepositoryMapView", "IssueClaimView"}, {"AuditReport"}, {},
              {AuditDocs("scripts"), AuditDocs("logs"), AuditDocs("reports")}, <<>>),
    PlannerOptic |->
        Optic({"RepositoryMapView", "AuditReport"}, {"RepairPlan"}, {},
              {AuditDocs("plan")}, <<>>),
    PatcherOptic |->
        Optic({"AuditReport", "RepairPlan"}, {"PatchDiff"}, {},
              {File(<<"<repair-plan-authorized-files>">>)}, <<>>),
    ReviewerOptic |->
        Optic({"RepositoryMapView", "AuditReport", "RepairPlan", "PatchDiff"},
              {"ReviewReport"}, {"AgentMapDelta"},
              {File(<<"docs", "audits", "<domain>", "reports", "review.md">>),
               AuditDocs("review")},
              [AgentMapDelta |-> {AgentDocs}])]

Handoff(from, type, to) == [from |-> from, output |-> type, to |-> to, input |-> type]

BugFixLoop == [
    order |-> <<"RoadmapExtractorOptic", "AuditorOptic", "PlannerOptic",
                "PatcherOptic", "ReviewerOptic">>,
    handoffs |->
        {Handoff("RoadmapExtractorOptic", "RepositoryMapView", to) :
            to \in {"AuditorOptic", "PlannerOptic", "ReviewerOptic"}}
        \union {Handoff("AuditorOptic", "AuditReport", to) :
            to \in {"PlannerOptic", "PatcherOptic", "ReviewerOptic"}}
        \union {Handoff("PlannerOptic", "RepairPlan", to) :
            to \in {"PatcherOptic", "ReviewerOptic"}}
        \union {Handoff("PatcherOptic", "PatchDiff", "ReviewerOptic")},
    inputs |-> {"RepositoryFiles", "IssueClaimView"},
    outputs |-> {"ReviewReport"},
    optional |-> {"PatchDiff", "AgentMapDelta"},
    noops |-> <<>>]
===============================================================================
