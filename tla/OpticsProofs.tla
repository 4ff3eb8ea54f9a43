------------------------------ MODULE OpticsProofs ------------------------------
(***************************************************************************)
(* What a graph of optics projects and what a patch may rest on, for every *)
(* library, source and request.  The three properties speak of the source; *)
(* a stage and validate_patch look at the view before them.  So the proof  *)
(* carries along the stages what the view of each of them is in terms of   *)
(* the source, and that no stage after the first can be short of data.     *)
(***************************************************************************)
EXTENDS Optics, TLAPS

\* The fields optic i of the graph is asked for.
Fields(i) == Wanted(Graph[i], RequestAt(i))

\* The first optic can be drawn from the source.
Drawable ==
    /\ Drawn \subseteq source.data \intersect DOMAIN source.lineage
    /\ \A f \in Drawn : source.lineage[f] # {}

\* The request can be met by the last optic.
Requestable == Wanted(Last, request) # {} /\ Wanted(Last, request) \subseteq Last.out.fields

\* graph_for refuses a graph before anything is projected, and only then.
Composing ==
    /\ outcome = "declared" => stage = 0
    /\ outcome = "type" => ~Fits(Graph)
    /\ outcome \notin {"declared", "type"} => Fits(Graph)

\* What the last stage gave: the fields it was asked for with the lineage at the
\* source, all of them let through by every optic so far.
Shown ==
    stage > 0 =>
        /\ Drawable
        /\ Fields(stage) # {}
        /\ view.optic = binding[stage]
        /\ view.lineage = [f \in Fields(stage) |-> source.lineage[f]]
        /\ \A f \in Fields(stage) : source.lineage[f] # {}
        /\ \A i \in 1..stage : Fields(stage) \subseteq Graph[i].out.fields

\* An error of a stage is the fault of the request or of the source.
Refusing == outcome \in {"contract", "permission"} => ~(Requestable /\ Drawable)

\* The accepted patch passes validate_patch on the view the graph gave.
AcceptedFits == PatchFits(accepted[1], view, accepted[2])
Accepting == accepted # <<>> => outcome = "projected" /\ AcceptedFits

IInv == OpticsTypeOK /\ Composing /\ Shown /\ Refusing /\ Accepting
-------------------------------------------------------------------------------
\* Every name bound stands for an optic of the library.
LEMMA GraphIsTyped ==
    ASSUME OpticsTypeOK
    PROVE  /\ Len(binding) \in Nat \ {0} /\ DOMAIN binding = 1..Len(binding)
           /\ \A i \in 1..Len(binding) : binding[i] \in DOMAIN library
           /\ DOMAIN Graph = 1..Len(binding) /\ Len(Graph) = Len(binding)
           /\ \A i \in 1..Len(binding) : Graph[i] = library[binding[i]] /\ IsOptic(Graph[i])
<1>1. IsBinding(library, binding)
    BY BindingAssumption DEF OpticsTypeOK
<1>2. binding \in Seq(DOMAIN library) /\ binding # <<>>
    BY <1>1 DEF IsBinding
<1>3. Len(binding) \in Nat \ {0} /\ DOMAIN binding = 1..Len(binding)
    BY <1>2
<1>4. \A i \in 1..Len(binding) : binding[i] \in DOMAIN library
    BY <1>2
<1>5. Graph \in Seq({library[name] : name \in DOMAIN library}) /\ Len(Graph) = Len(binding)
    BY <1>3, <1>4 DEF Graph
<1>6. \A i \in 1..Len(binding) : Graph[i] = library[binding[i]]
    BY <1>3 DEF Graph
<1>7. \A name \in DOMAIN library : IsOptic(library[name])
    BY LibraryAssumption DEF OpticsTypeOK
<1> QED
    BY <1>3, <1>4, <1>5, <1>6, <1>7 DEF Graph

\* Optic.project passes when none of its checks has anything to refuse.
Passes(o, data, lineage, req) ==
    /\ Wanted(o, req) # {} /\ Wanted(o, req) \subseteq o.out.fields
    /\ Wanted(o, req) \subseteq data /\ Wanted(o, req) \subseteq DOMAIN lineage
    /\ \A f \in Wanted(o, req) : lineage[f] # {}

LEMMA RaisedOrPassed ==
    ASSUME NEW o, NEW data, NEW lineage, NEW req
    PROVE  /\ Raised(o, data, lineage, req) \in {"none", "contract", "permission"}
           /\ Raised(o, data, lineage, req) = "none" <=> Passes(o, data, lineage, req)
    BY DEF Raised, Passes

\* What stage i + 1 reads: the source at first, then the view before it.
DataAt(i) == IF i = 0 THEN source.data ELSE DOMAIN view.lineage
LineageAt(i) == IF i = 0 THEN source.lineage ELSE view.lineage

\* What the stages before it left for stage i + 1 has every field that its optic
\* may want, so only the request can make it fail.
LEMMA LaterStagesPass ==
    ASSUME IInv, outcome = "projecting", stage > 0
    PROVE  /\ Drawable /\ stage < Len(binding) /\ stage + 1 \in 1..Len(binding)
           /\ DOMAIN view.lineage = Graph[stage].out.fields
           /\ Graph[stage + 1].out.fields \subseteq DOMAIN view.lineage
           /\ \A f \in DOMAIN view.lineage : view.lineage[f] = source.lineage[f] /\ view.lineage[f] # {}
<1>1. /\ Len(binding) \in Nat \ {0} /\ stage \in 0..Len(binding) /\ stage # Len(binding)
      /\ Len(Graph) = Len(binding)
      /\ \A i \in 1..Len(binding) : IsOptic(Graph[i])
    BY GraphIsTyped DEF IInv, OpticsTypeOK
<1>2. stage < Len(binding) /\ stage + 1 \in 1..Len(binding) /\ stage \in 1..(Len(Graph) - 1)
    BY <1>1
<1>3. Fields(stage) = Graph[stage].out.fields
    BY <1>2 DEF Fields, RequestAt, Wanted
<1>4. /\ Drawable
      /\ view.lineage = [f \in Fields(stage) |-> source.lineage[f]]
      /\ \A f \in Fields(stage) : source.lineage[f] # {}
    BY DEF IInv, Shown
<1>5. Graph[stage + 1].in.fields \subseteq Graph[stage].out.fields
    BY <1>2 DEF IInv, Composing, Fits
<1>6. Graph[stage + 1].out.fields \subseteq Graph[stage + 1].in.fields
    BY <1>1, <1>2 DEF IsOptic
<1> QED
    BY <1>2, <1>3, <1>4, <1>5, <1>6

\* A stage passes exactly when it should: the first one when the source has what
\* it wants, the last one when the request stays in its view.
LEMMA StagePasses ==
    ASSUME IInv, outcome = "projecting",
           Passes(Graph[stage + 1], DataAt(stage), LineageAt(stage), RequestAt(stage + 1))
    PROVE  /\ Drawable /\ stage + 1 \in 1..Len(binding)
           /\ Fields(stage + 1) # {}
           /\ \A f \in Fields(stage + 1) :
                LineageAt(stage)[f] = source.lineage[f] /\ source.lineage[f] # {}
           /\ \A i \in 1..(stage + 1) : Fields(stage + 1) \subseteq Graph[i].out.fields
<1>1. /\ Fields(stage + 1) # {} /\ Fields(stage + 1) \subseteq Graph[stage + 1].out.fields
      /\ Fields(stage + 1) \subseteq DataAt(stage)
      /\ Fields(stage + 1) \subseteq DOMAIN LineageAt(stage)
      /\ \A f \in Fields(stage + 1) : LineageAt(stage)[f] # {}
    BY DEF Passes, Fields
<1>2. Len(binding) \in Nat \ {0} /\ stage \in 0..Len(binding) /\ stage # Len(binding)
    BY GraphIsTyped DEF IInv, OpticsTypeOK
<1>3. CASE stage = 0
  <2>1. DataAt(stage) = source.data /\ LineageAt(stage) = source.lineage
      BY <1>3 DEF DataAt, LineageAt
  <2>2. Fields(stage + 1) = Drawn
      BY <1>3 DEF Fields, Drawn, First
  <2> QED
      BY <1>1, <1>2, <1>3, <2>1, <2>2 DEF Drawable
<1>4. CASE stage > 0
  <2>1. DataAt(stage) = DOMAIN view.lineage /\ LineageAt(stage) = view.lineage
      BY <1>2, <1>4 DEF DataAt, LineageAt
  <2>2. /\ Drawable /\ stage + 1 \in 1..Len(binding)
        /\ \A f \in DOMAIN view.lineage : view.lineage[f] = source.lineage[f]
      BY <1>4, LaterStagesPass
  <2>3. /\ DOMAIN view.lineage = Fields(stage)
        /\ \A i \in 1..stage : Fields(stage) \subseteq Graph[i].out.fields
      BY <1>4 DEF IInv, Shown
  <2>4. Fields(stage + 1) \subseteq Fields(stage)
      BY <1>1, <2>1, <2>3
  <2>5. \A i \in 1..(stage + 1) : i = stage + 1 \/ i \in 1..stage
      BY <1>2
  <2>6. \A f \in Fields(stage + 1) : LineageAt(stage)[f] = source.lineage[f]
      BY <1>1, <2>1, <2>2
  <2> QED
      BY <1>1, <2>2, <2>3, <2>4, <2>5, <2>6
<1> QED
    BY <1>2, <1>3, <1>4

LEMMA StageFails ==
    ASSUME IInv, outcome = "projecting",
           ~Passes(Graph[stage + 1], DataAt(stage), LineageAt(stage), RequestAt(stage + 1))
    PROVE  ~(Requestable /\ Drawable)
<1> SUFFICES ASSUME Requestable, Drawable
             PROVE  Passes(Graph[stage + 1], DataAt(stage), LineageAt(stage), RequestAt(stage + 1))
    OBVIOUS
<1>1. /\ Len(binding) \in Nat \ {0} /\ stage \in 0..Len(binding) /\ stage # Len(binding)
      /\ \A i \in 1..Len(binding) : IsOptic(Graph[i])
    BY GraphIsTyped DEF IInv, OpticsTypeOK
<1>2. stage + 1 \in 1..Len(binding)
    BY <1>1
<1>3. Fields(stage + 1) # {} /\ Fields(stage + 1) \subseteq Graph[stage + 1].out.fields
  <2>1. CASE stage + 1 = Len(binding)
      BY <2>1 DEF Requestable, Last, Fields, RequestAt
  <2>2. CASE stage + 1 # Len(binding)
    <3>1. Fields(stage + 1) = Graph[stage + 1].out.fields
        BY <2>2 DEF Fields, RequestAt, Wanted
    <3> QED
        BY <1>1, <1>2, <3>1 DEF IsOptic
  <2> QED
      BY <2>1, <2>2
<1>4. CASE stage = 0
  <2>1. DataAt(stage) = source.data /\ LineageAt(stage) = source.lineage
      BY <1>4 DEF DataAt, LineageAt
  <2>2. Fields(stage + 1) = Drawn
      BY <1>4 DEF Fields, Drawn, First
  <2> QED
      BY <1>3, <2>1, <2>2 DEF Drawable, Passes, Fields
<1>5. CASE stage > 0
  <2>1. DataAt(stage) = DOMAIN view.lineage /\ LineageAt(stage) = view.lineage
      BY <1>1, <1>5 DEF DataAt, LineageAt
  <2>2. /\ Graph[stage + 1].out.fields \subseteq DOMAIN view.lineage
        /\ \A f \in DOMAIN view.lineage : view.lineage[f] # {}
      BY <1>5, LaterStagesPass
  <2> QED
      BY <1>3, <2>1, <2>2 DEF Passes, Fields
<1> QED
    BY <1>1, <1>4, <1>5
-------------------------------------------------------------------------------
LEMMA InitIInv == OpticsInit => IInv
<1> SUFFICES ASSUME OpticsInit PROVE IInv
    OBVIOUS
<1>1. Len(binding) \in Nat \ {0}
    BY BindingAssumption DEF OpticsInit, IsBinding
<1> QED
    BY <1>1 DEF OpticsInit, IInv, OpticsTypeOK, Composing, Shown, Refusing, Accepting

\* What the graph, the source and the request say is fixed.
LEMMA Fixed ==
    ASSUME library' = library, binding' = binding, source' = source, request' = request
    PROVE  /\ Graph' = Graph /\ Drawable' = Drawable /\ Requestable' = Requestable
           /\ \A i : Fields(i)' = Fields(i)
    BY DEF Graph, Drawable, Drawn, First, Requestable, Last, RequestAt, Wanted, Fields

\* Nothing that has to do with the graph changes once it has projected.
LEMMA ShownStays ==
    ASSUME IInv, library' = library, binding' = binding, source' = source,
           request' = request, stage' = stage, view' = view, outcome' = outcome
    PROVE  Composing' /\ Refusing' /\ Shown'
<1>1. /\ Graph' = Graph /\ Drawable' = Drawable /\ Requestable' = Requestable
      /\ \A i : Fields(i)' = Fields(i)
    BY Fixed
<1>2. Composing' /\ Refusing'
    BY <1>1 DEF IInv, Composing, Refusing, Fits
<1>3. Shown'
    BY <1>1 DEF IInv, Shown
<1> QED
    BY <1>2, <1>3

LEMMA ComposeKeeps == ASSUME IInv, Compose PROVE IInv'
<1>1. /\ library' = library /\ binding' = binding /\ source' = source /\ request' = request
      /\ stage' = stage /\ view' = view /\ accepted' = accepted
      /\ outcome = "declared" /\ outcome' \in {"projecting", "type"}
      /\ outcome' = "projecting" <=> Fits(Graph)
    BY DEF Compose
<1>2. Graph' = Graph
    BY <1>1 DEF Graph
<1>3. stage = 0 /\ accepted = <<>> /\ stage # Len(binding)
    BY <1>1 DEF IInv, Composing, Accepting, OpticsTypeOK
<1>4. OpticsTypeOK'
    BY <1>1, <1>3 DEF IInv, OpticsTypeOK
<1>5. Composing' /\ Refusing' /\ Accepting' /\ Shown'
    BY <1>1, <1>2, <1>3 DEF Composing, Refusing, Accepting, Shown, Fits
<1> QED
    BY <1>4, <1>5 DEF IInv

LEMMA StageKeeps == ASSUME IInv, ProjectStage PROVE IInv'
<1> DEFINE o == Graph[stage + 1]
           req == RequestAt(stage + 1)
           error == Raised(o, DataAt(stage), LineageAt(stage), req)
<1>1. /\ library' = library /\ binding' = binding /\ source' = source /\ request' = request
      /\ accepted' = accepted /\ outcome = "projecting"
    BY DEF ProjectStage
<1>2. \/ error # "none" /\ outcome' = error /\ stage' = stage /\ view' = view
      \/ /\ error = "none"
         /\ view' = [optic |-> binding[stage + 1], name |-> o.out.name,
                     lineage |-> [f \in Fields(stage + 1) |-> LineageAt(stage)[f]]]
         /\ stage' = stage + 1 /\ outcome' = OutcomeAt(stage + 1)
    BY DEF ProjectStage, DataAt, LineageAt, Fields
<1>3. /\ error \in {"none", "contract", "permission"}
      /\ error = "none" <=> Passes(o, DataAt(stage), LineageAt(stage), req)
    BY RaisedOrPassed
<1>4. /\ Graph' = Graph /\ Drawable' = Drawable /\ Requestable' = Requestable
      /\ \A i : Fields(i)' = Fields(i)
    BY <1>1, Fixed
<1>5. Fits(Graph) /\ accepted = <<>> /\ stage \in 0..Len(binding) /\ stage # Len(binding)
    BY <1>1 DEF IInv, Composing, Accepting, OpticsTypeOK
<1>6. /\ Len(binding) \in Nat \ {0}
      /\ \A i \in 1..Len(binding) : Graph[i] = library[binding[i]]
    BY GraphIsTyped DEF IInv
<1>7. CASE error # "none"
  <2>1. outcome' \in {"contract", "permission"} /\ stage' = stage /\ view' = view
      BY <1>2, <1>3, <1>7
  <2>2. ~(Requestable /\ Drawable)
      BY <1>1, <1>3, <1>7, StageFails
  <2>3. OpticsTypeOK'
      BY <1>1, <1>5, <2>1 DEF IInv, OpticsTypeOK
  <2>4. Composing' /\ Refusing' /\ Accepting'
      BY <1>1, <1>4, <1>5, <2>1, <2>2 DEF Composing, Refusing, Accepting
  <2>5. Shown'
      BY <1>1, <1>4, <2>1 DEF IInv, Shown
  <2> QED
      BY <2>3, <2>4, <2>5 DEF IInv
<1>8. CASE error = "none"
  <2>1. /\ view' = [optic |-> binding[stage + 1], name |-> o.out.name,
                    lineage |-> [f \in Fields(stage + 1) |-> LineageAt(stage)[f]]]
        /\ stage' = stage + 1 /\ outcome' = OutcomeAt(stage + 1)
      BY <1>2, <1>8
  <2>2. /\ Drawable /\ stage + 1 \in 1..Len(binding)
        /\ Fields(stage + 1) # {}
        /\ \A f \in Fields(stage + 1) :
             LineageAt(stage)[f] = source.lineage[f] /\ source.lineage[f] # {}
        /\ \A i \in 1..(stage + 1) : Fields(stage + 1) \subseteq Graph[i].out.fields
      BY <1>1, <1>3, <1>8, StagePasses
  <2>3. /\ view'.optic = binding[stage + 1] /\ view'.name = o.out.name
        /\ view'.lineage = [f \in Fields(stage + 1) |-> source.lineage[f]]
      BY <2>1, <2>2
  <2>4. outcome' \in {"projecting", "projected"} /\ (outcome' = "projected" <=> stage' = Len(binding))
      BY <2>1 DEF OutcomeAt
  <2>5. o = library[binding[stage + 1]]
      BY <1>6, <2>2
  <2>6. OpticsTypeOK'
      BY <1>1, <1>5, <1>6, <2>1, <2>2, <2>3, <2>4, <2>5 DEF IInv, OpticsTypeOK
  <2>7. Composing' /\ Refusing' /\ Accepting'
      BY <1>1, <1>4, <1>5, <2>4 DEF Composing, Refusing, Accepting, Fits
  <2>8. Shown'
      BY <1>1, <1>4, <2>1, <2>2, <2>3 DEF Shown
  <2> QED
      BY <2>6, <2>7, <2>8 DEF IInv
<1> QED
    BY <1>7, <1>8

LEMMA ValidateKeeps ==
    ASSUME IInv, NEW name \in DOMAIN library, NEW p \in Patches, ValidatePatch(name, p)
    PROVE  IInv'
<1>1. /\ library' = library /\ binding' = binding /\ source' = source /\ request' = request
      /\ stage' = stage /\ view' = view /\ outcome' = outcome
      /\ accepted' = <<name, p>> /\ outcome = "projected" /\ PatchFits(name, view, p)
    BY DEF ValidatePatch
<1>2. accepted'[1] = name /\ accepted'[2] = p
    BY <1>1
<1>3. OpticsTypeOK'
    BY <1>1, <1>2 DEF IInv, OpticsTypeOK
<1>4. Accepting'
  <2>1. AcceptedFits' <=> PatchFits(name, view, p)
      BY <1>1, <1>2 DEF AcceptedFits, PatchFits, EvidenceIsVisible
  <2> QED
      BY <1>1, <2>1 DEF Accepting
<1>5. Composing' /\ Refusing' /\ Shown'
    BY <1>1, ShownStays
<1> QED
    BY <1>3, <1>4, <1>5 DEF IInv

LEMMA StepKeepsIInv == IInv /\ [OpticsNext]_opticsVars => IInv'
<1> SUFFICES ASSUME IInv, [OpticsNext]_opticsVars PROVE IInv'
    OBVIOUS
<1>1. CASE UNCHANGED opticsVars
  <2>1. OpticsTypeOK'
      BY <1>1 DEF opticsVars, IInv, OpticsTypeOK
  <2>2. Accepting'
    <3>1. library' = library /\ view' = view /\ accepted' = accepted /\ outcome' = outcome
        BY <1>1 DEF opticsVars
    <3>2. AcceptedFits' <=> AcceptedFits
        BY <3>1 DEF AcceptedFits, PatchFits, EvidenceIsVisible
    <3> QED
        BY <3>1, <3>2 DEF IInv, Accepting
  <2>3. Composing' /\ Refusing' /\ Shown'
      BY <1>1, ShownStays DEF opticsVars
  <2> QED
      BY <2>1, <2>2, <2>3 DEF IInv
<1> QED
    BY <1>1, ComposeKeeps, StageKeeps, ValidateKeeps DEF OpticsNext

LEMMA AlwaysIInv == OpticsSpec => []IInv
    BY InitIInv, StepKeepsIInv, PTL DEF OpticsSpec
-------------------------------------------------------------------------------
\* OpticGraph.project never runs past its optics, and its view is that of the
\* last optic that projected.
THEOREM Typing == OpticsSpec => []OpticsTypeOK
<1>1. IInv => OpticsTypeOK
    BY DEF IInv
<1> QED
    BY <1>1, AlwaysIInv, PTL

\* OpticGraph.project succeeds on exactly the graphs, requests and sources it
\* should: once composed, no optic after the first fails for want of data.
THEOREM RightProjections == OpticsSpec => []ProjectsWhenItShould
<1>1. ASSUME IInv PROVE ProjectsWhenItShould
  <2> SUFFICES ASSUME Ended
               PROVE  outcome = "projected" <=> Fits(Graph) /\ Requestable /\ Drawable
      BY DEF ProjectsWhenItShould, Requestable, Drawable
  <2>1. outcome \in {"type", "contract", "permission", "projected"}
      BY <1>1 DEF IInv, OpticsTypeOK, Ended
  <2>2. ASSUME outcome = "projected" PROVE Requestable /\ Drawable
    <3>1. stage = Len(binding) /\ Len(binding) \in Nat \ {0}
        BY <1>1, <2>2, GraphIsTyped DEF IInv, OpticsTypeOK
    <3>2. /\ Drawable /\ Fields(stage) # {}
          /\ Fields(stage) \subseteq Graph[stage].out.fields
        BY <1>1, <3>1 DEF IInv, Shown
    <3> QED
        BY <3>1, <3>2 DEF Requestable, Fields, RequestAt, Last
  <2> QED
      BY <1>1, <2>1, <2>2 DEF IInv, Composing, Refusing
<1> QED
    BY <1>1, AlwaysIInv, PTL

\* A graph shows what its last optic would show of the source itself, and
\* nothing that any of its optics keeps back.
LEMMA ShowsLast ==
    ASSUME IInv, outcome = "projected"
    PROVE  /\ view.optic = binding[Len(binding)]
           /\ view.lineage = [f \in Wanted(Last, request) |-> source.lineage[f]]
           /\ \A i \in 1..Len(binding) : Wanted(Last, request) \subseteq Graph[i].out.fields
<1>1. stage = Len(binding) /\ Len(binding) \in Nat \ {0}
    BY GraphIsTyped DEF IInv, OpticsTypeOK
<1>2. Fields(stage) = Wanted(Last, request)
    BY <1>1 DEF Fields, RequestAt, Last
<1>3. /\ view.optic = binding[stage]
      /\ view.lineage = [f \in Fields(stage) |-> source.lineage[f]]
      /\ \A i \in 1..stage : Fields(stage) \subseteq Graph[i].out.fields
    BY <1>1 DEF IInv, Shown
<1> QED
    BY <1>1, <1>2, <1>3

\* Of a projection that succeeds OpticGraph.project returns the view of the last
\* optic: its fields with the lineage they have in the source, provided by each
\* stage on the way.
THEOREM LastViews == OpticsSpec => []GraphShowsLastView
<1>1. IInv => GraphShowsLastView
    BY ShowsLast, GraphIsTyped DEF GraphShowsLastView, IInv
<1> QED
    BY <1>1, AlwaysIInv, PTL

\* What validate_patch checks against a view holds of the source: the evidence of
\* an accepted patch cites tokens of shown fields, and all those a rule requires.
THEOREM GroundedPatches == OpticsSpec => []PatchIsGrounded
<1>1. ASSUME IInv PROVE PatchIsGrounded
  <2> DEFINE name == accepted[1]
             p == accepted[2]
             shown == Wanted(Last, request)
             Supplied(f) == IF f \in DOMAIN p.evidence THEN p.evidence[f] ELSE {}
  <2> SUFFICES ASSUME accepted # <<>>
               PROVE  /\ name = binding[Len(binding)]
                      /\ \A f \in p.changes :
                           /\ f \in DOMAIN p.evidence
                           /\ p.evidence[f] \subseteq UNION {source.lineage[g] : g \in shown}
                           /\ \A g \in Last.rules[f].lineage :
                                g \in shown /\ source.lineage[g] \subseteq p.evidence[f]
      BY DEF PatchIsGrounded
  <2>1. outcome = "projected" /\ PatchFits(name, view, p)
      BY <1>1 DEF IInv, Accepting, AcceptedFits
  <2>2. /\ view.optic = binding[Len(binding)]
        /\ view.lineage = [f \in shown |-> source.lineage[f]]
      BY <1>1, <2>1, ShowsLast
  <2>3. /\ name = view.optic
        /\ \A f \in p.changes :
             /\ EvidenceIsVisible(view, Supplied(f))
             /\ \A g \in library[name].rules[f].lineage :
                  g \in DOMAIN view.lineage /\ view.lineage[g] \subseteq Supplied(f)
      BY <2>1 DEF PatchFits
  <2>4. library[name] = Last
      BY <1>1, <2>2, <2>3, GraphIsTyped DEF IInv, Last
  <2> SUFFICES ASSUME NEW f \in p.changes
               PROVE  /\ f \in DOMAIN p.evidence
                      /\ p.evidence[f] \subseteq UNION {source.lineage[g] : g \in shown}
                      /\ \A g \in Last.rules[f].lineage :
                           g \in shown /\ source.lineage[g] \subseteq p.evidence[f]
      BY <2>2, <2>3
  <2>5. Supplied(f) # {} /\ Supplied(f) \subseteq UNION {view.lineage[g] : g \in DOMAIN view.lineage}
      BY <2>3 DEF EvidenceIsVisible
  <2>6. f \in DOMAIN p.evidence /\ Supplied(f) = p.evidence[f]
      BY <2>5
  <2> HIDE DEF Supplied
  <2>7. p.evidence[f] \subseteq UNION {source.lineage[g] : g \in shown}
      BY <2>2, <2>5, <2>6
  <2>8. \A g \in Last.rules[f].lineage :
           g \in shown /\ source.lineage[g] \subseteq p.evidence[f]
    <3>1. \A g \in Last.rules[f].lineage :
             g \in DOMAIN view.lineage /\ view.lineage[g] \subseteq p.evidence[f]
        BY <2>3, <2>4, <2>6
    <3>2. DOMAIN view.lineage = shown /\ \A g \in shown : view.lineage[g] = source.lineage[g]
        BY <2>2
    <3> QED
        BY <3>1, <3>2
  <2> QED
      BY <2>6, <2>7, <2>8
<1> QED
    BY <1>1, AlwaysIInv, PTL
===============================================================================
