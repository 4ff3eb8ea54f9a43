--------------------------------- MODULE Optics ---------------------------------
(***************************************************************************)
(* Optics over record views: a graph of optics projects source data stage  *)
(* by stage, restricted to the requested fields at the last stage, and a   *)
(* patch is validated against the view that came out.  Values travel with  *)
(* their fields and are left out; a view is its fields with their lineage  *)
(* tokens.  Lineage tokens without duplicates are a set, and the empty set *)
(* stands for every token tuple that _freeze_lineage refuses.              *)
(***************************************************************************)
EXTENDS Naturals, Sequences

CONSTANTS
    Libraries,      \* functions from optic names to optics
    Bindings,       \* sequences of optic names
    Sources,        \* records of the fields with data and of the lineage map
    Requests,       \* sets of requested fields, or NoRequest
    NoRequest,
    Patches         \* patch requests

\* Optic.__post_init__, with PatchRule's and ViewSpec's
IsOptic(o) ==
    /\ o.in.fields # {} /\ o.out.fields # {}
    /\ o.out.fields \subseteq o.in.fields
    /\ DOMAIN o.rules \subseteq o.out.fields
    /\ \A f \in DOMAIN o.rules : /\ o.rules[f].operations # {}
                                 /\ o.rules[f].lineage \subseteq o.out.fields

\* OpticRegistry.__post_init__
IsBinding(lib, names) ==
    /\ names \in Seq(DOMAIN lib) /\ names # <<>>
    /\ \A i, j \in DOMAIN names : names[i] = names[j] => i = j

\* OpticPatch.__post_init__
IsPatch(p) ==
    /\ p.changes # {}
    /\ \A f \in DOMAIN p.evidence : p.evidence[f] # {}

ASSUME LibraryAssumption == \A lib \in Libraries : \A name \in DOMAIN lib : IsOptic(lib[name])
ASSUME BindingAssumption == \A lib \in Libraries, names \in Bindings : IsBinding(lib, names)
ASSUME PatchAssumption == \A p \in Patches : IsPatch(p)

VARIABLES
    library, binding, source, request,
    stage,      \* optics of the graph that have projected
    view,       \* the view the last of them gave
    outcome,    \* "declared", "projecting", "projected", or the error raised
    accepted    \* the last patch that was validated, with the optic that did it

opticsVars == <<library, binding, source, request, stage, view, outcome, accepted>>
-------------------------------------------------------------------------------
\* Mutant: names alone make a graph.
NamesFit(graph) ==
    \A i \in 1..(Len(graph) - 1) : graph[i].out.name = graph[i + 1].in.name

\* OpticGraph.__post_init__
Fits(graph) ==
    \A i \in 1..(Len(graph) - 1) :
        /\ graph[i].out.name = graph[i + 1].in.name
        /\ graph[i + 1].in.fields \subseteq graph[i].out.fields

Graph == [i \in DOMAIN binding |-> library[binding[i]]]

\* Mutant: the first optic sees the request.
RequestFirst(i) == IF i = 1 THEN request ELSE NoRequest

\* Only the last optic sees the request.
RequestAt(i) == IF i = Len(binding) THEN request ELSE NoRequest

Wanted(o, req) == IF req = NoRequest THEN o.out.fields ELSE req

\* What Optic.project raises, in the order of its checks.
Raised(o, data, lineage, req) ==
    LET fields == Wanted(o, req)
    IN  IF fields = {} THEN "contract"
        ELSE IF ~(fields \subseteq o.out.fields) THEN "permission"
        ELSE IF ~(fields \subseteq data) THEN "contract"
        ELSE IF ~(fields \subseteq DOMAIN lineage) THEN "permission"
        ELSE IF \E f \in fields : lineage[f] = {} THEN "contract" ELSE "none"

\* Mutant: evidence may cite whatever it likes.
AnyEvidence(v, supplied) == supplied # {}

EvidenceIsVisible(v, supplied) ==
    /\ supplied # {}
    /\ supplied \subseteq UNION {v.lineage[f] : f \in DOMAIN v.lineage}

\* Optic.validate_patch lets it pass.
PatchFits(name, v, p) ==
    LET o == library[name]
        Supplied(f) == IF f \in DOMAIN p.evidence THEN p.evidence[f] ELSE {}
    IN  /\ v.optic = name
        /\ v.name = o.out.name /\ p.view = o.out.name
        /\ \A f \in p.changes :
             /\ f \in DOMAIN o.rules /\ p.operation \in o.rules[f].operations
             /\ EvidenceIsVisible(v, Supplied(f))
             /\ \A required \in o.rules[f].lineage :
                  /\ required \in DOMAIN v.lineage
                  /\ v.lineage[required] \subseteq Supplied(f)
-------------------------------------------------------------------------------
OutcomeAt(n) == IF n = Len(binding) THEN "projected" ELSE "projecting"

NoView == [optic |-> "", name |-> "", lineage |-> <<>>]

OpticsInit ==
    /\ library \in Libraries /\ binding \in Bindings
    /\ source \in Sources /\ request \in Requests
    /\ stage = 0 /\ view = NoView /\ outcome = "declared" /\ accepted = <<>>

\* graph_for; an incompatible pair raises TypeError.
Compose ==
    /\ outcome = "declared"
    /\ outcome' = IF Fits(Graph) THEN "projecting" ELSE "type"
    /\ UNCHANGED <<library, binding, source, request, stage, view, accepted>>

\* One turn of OpticGraph.project: each optic reads what the one before it gave.
ProjectStage ==
    /\ outcome = "projecting"
    /\ LET o == Graph[stage + 1]
           data == IF stage = 0 THEN source.data ELSE DOMAIN view.lineage
           lineage == IF stage = 0 THEN source.lineage ELSE view.lineage
           error == Raised(o, data, lineage, RequestAt(stage + 1))
       IN  IF error # "none" THEN outcome' = error /\ UNCHANGED <<stage, view>>
           ELSE /\ view' = [optic |-> binding[stage + 1], name |-> o.out.name,
                            lineage |-> [f \in Wanted(o, RequestAt(stage + 1)) |-> lineage[f]]]
                /\ stage' = stage + 1
                /\ outcome' = OutcomeAt(stage + 1)
    /\ UNCHANGED <<library, binding, source, request, accepted>>

\* Any optic of the library may be asked to validate; refusing changes nothing.
ValidatePatch(name, p) ==
    /\ outcome = "projected"
    /\ PatchFits(name, view, p)
    /\ accepted' = <<name, p>>
    /\ UNCHANGED <<library, binding, source, request, stage, view, outcome>>

Ended == outcome \notin {"declared", "projecting"}

OpticsNext ==
    \/ Compose
    \/ ProjectStage
    \/ \E name \in DOMAIN library, p \in Patches : ValidatePatch(name, p)
    \/ Ended /\ UNCHANGED opticsVars

OpticsSpec == OpticsInit /\ [][OpticsNext]_opticsVars
-------------------------------------------------------------------------------
OpticsTypeOK ==
    /\ library \in Libraries /\ binding \in Bindings
    /\ source \in Sources /\ request \in Requests
    /\ stage \in 0..Len(binding)
    /\ outcome \in {"declared", "type", "projecting", "contract", "permission", "projected"}
    /\ outcome = "projected" <=> stage = Len(binding)
    /\ stage > 0 => view.optic = binding[stage] /\ view.name = library[view.optic].out.name
    /\ accepted # <<>> => accepted[1] \in DOMAIN library /\ accepted[2] \in Patches

First == Graph[1]
Last == Graph[Len(binding)]

\* The fields that must have data and lineage at the source: those requested, or
\* all that the first optic lets through when more optics follow.
Drawn == Wanted(First, RequestAt(1))

\* A graph projects exactly when its optics fit, the request stays within the
\* last optic's view and the first view can be drawn from the source.  Once
\* composed, no optic after the first can fail for want of data or lineage.
ProjectsWhenItShould ==
    Ended => (outcome = "projected" <=>
        /\ Fits(Graph)
        /\ Wanted(Last, request) # {} /\ Wanted(Last, request) \subseteq Last.out.fields
        /\ Drawn \subseteq source.data \intersect DOMAIN source.lineage
        /\ \A f \in Drawn : source.lineage[f] # {})

\* What a graph shows is what its last optic would show of the source itself: the
\* requested fields of that optic, each with the source's lineage and with
\* nothing that an earlier optic added or that only an earlier one shows.
GraphShowsLastView ==
    outcome = "projected" =>
        /\ view.optic = binding[Len(binding)]
        /\ view.lineage = [f \in Wanted(Last, request) |-> source.lineage[f]]
        /\ \A i \in DOMAIN binding : DOMAIN view.lineage \subseteq Graph[i].out.fields

\* A validated patch rests on what was shown: it was validated by the optic that
\* gave the view, every changed field cites source tokens of shown fields only,
\* and for each field that its rule requires the whole lineage at the source.
PatchIsGrounded ==
    accepted # <<>> =>
        LET p == accepted[2]
            shown == Wanted(Last, request)
        IN  /\ accepted[1] = binding[Len(binding)]
            /\ \A f \in p.changes :
                 /\ f \in DOMAIN p.evidence
                 /\ p.evidence[f] \subseteq UNION {source.lineage[g] : g \in shown}
                 /\ \A g \in Last.rules[f].lineage :
                      g \in shown /\ source.lineage[g] \subseteq p.evidence[f]
===============================================================================
