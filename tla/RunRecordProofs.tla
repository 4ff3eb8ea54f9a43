---------------------------- MODULE RunRecordProofs ----------------------------
(***************************************************************************)
(* What the records of a run say is what the run did, for every request,   *)
(* output, workspace and list of approvals.  The records are made at the   *)
(* end from what Harness still holds by then, so the proof follows what it *)
(* holds through the phases: of which phase it has the lists, which phases *)
(* a failure made it lose, and which kind of failure each phase has.       *)
(***************************************************************************)
EXTENDS RunRecord, FiniteSetTheorems, WellFoundedInduction, TLAPS

IsDevOutput == output.mode = "dev"
Changes == Range(output.changes)
TestEffects == EffectsOf(output, "test_command")

\* The phase a run is in, or was in when it failed.
TestReasons == LosesTests \union {"test command exit"}
EarlyReasons == {"provider", "request", "output", "acceptance"}
InspectReasons == {"planned workflow", "inspect target"}
Phase ==
    IF reason \in InspectReasons THEN "inspect"
    ELSE IF reason \in TestReasons THEN "test"
    ELSE IF reason = "mutation" THEN "mutate"
    ELSE IF reason = "write" \/ pc = "returned" THEN "finalize"
    ELSE IF reason \in EarlyReasons THEN "gate" ELSE pc

Phases == {"agent", "gate", "inspect", "mutate", "test", "finalize"}
TestsToCome == Phase \in {"agent", "gate", "inspect"} \/ (Phase = "mutate" /\ IsDevOutput)
TestsDone == Phase = "finalize" \/ (Phase = "mutate" /\ ~IsDevOutput)
ChangesToCome == Phase \in {"agent", "gate", "inspect"} \/ (Phase = "test" /\ ~IsDevOutput)

\* What a step may have been.
Authorized ==
    {<<"inspect", i, output.effects[i].path>> :
        i \in {i \in EffectsOf(output, "inspect_file") : MayInspect(output.effects[i].path)}}
    \union {<<"test", i, output.effects[i].argv>> :
        i \in {i \in TestEffects : TestRefusal(output.effects[i]) = "none"}}
    \union {<<"code_mutation", n, c>> :
        n \in Nat, c \in {c \in Changes : c.path \in approved \intersect workspace.scope}}

\* Where the run is.
Place ==
    /\ request \in Requests \union {None}
    /\ pc \in Phases \union {"recover", "returned", "raised"}
    /\ reason \in Reasons \union {None}
    /\ reason # None <=> pc \in {"recover", "raised"}
    /\ reason \in EarlyReasons => pc = "raised"
    /\ at \in Nat \ {0}
    /\ pc = "agent" => output = None
    /\ pc = "gate" => output \in Outputs /\ Selects(route)
    /\ pc \notin {"agent", "gate"} /\ reason \notin EarlyReasons =>
         output \in Outputs /\ Selects(route) /\ AcceptsOutput(output)
    /\ pc \notin {"recover", "raised"} => at \in 1..(Len(Todo) + 1)
    /\ Phase \in {"agent", "gate"} => log = <<>> /\ known = Nothing

\* The lists that Harness holds.
Lists == [inspections : Seq({output.effects[i].path : i \in DOMAIN output.effects}),
          tests : Seq({0, 1}), applied : Seq(Changes), approvals : Seq(Changes),
          denied : Seq(Changes)]
Held == known \in Lists

Carried == Phase \notin {"agent", "gate"} => log \in Seq(Authorized)

\* Test runs: none before the phase, in it one for each test effect it has come
\* past, and all after it.  What a phase that raised had is lost but for the
\* runs of an exit code.
Passed(n) == Cardinality({i \in TestEffects : i < n})
AllPassed == \A i \in DOMAIN ran : ran[i] = 0
TestRuns ==
    /\ ran \in Seq({0, 1, 9})
    /\ TestsToCome => ran = <<>> /\ known.tests = <<>>
    /\ TestsDone =>
         known.tests = ran /\ AllPassed /\ Len(ran) = Cardinality(TestEffects)
    /\ Phase = "test" /\ reason = None =>
         known.tests = ran /\ AllPassed /\ Len(ran) = Passed(at)
    /\ Phase = "test" /\ reason # None => TestEffects # {}
    /\ reason \in LosesTests => known.tests = <<>> /\ (\A i \in DOMAIN ran : ran[i] # 1)
    /\ reason \in LosesTests \ {"test command timeout"} => AllPassed
    /\ reason = "test command exit" =>
         known.tests = ran /\ \E i \in DOMAIN ran : ran[i] = 1

\* Changes: none before the phase, then those made, unless the phase raised.
ChangesMade ==
    /\ onDisk \in Seq(Changes)
    /\ known.approvals = known.applied
    /\ ChangesToCome => onDisk = <<>> /\ known.applied = <<>> /\ known.denied = <<>>
    /\ reason = "mutation" => known.applied = <<>> /\ known.denied = <<>>
    /\ reason # "mutation" => known.applied = onDisk

\* The terminal records, when those in ok could be written.
EndStatus == IF reason = None THEN FinalStatus ELSE "failed"
EndFindings == AuditFindings(output, known, reason)
EndAudit == [status |-> AuditStatus(EndFindings, EndStatus), findings |-> EndFindings]
EndProposals(ok) == IF "audit" \in ok THEN Proposals(EndFindings) ELSE {}
EndCites(ok) == (ok \intersect {"audit", "trace"})
                  \union (IF EndProposals(ok) = {} THEN {} ELSE ok \intersect {"fix"})
EndResults(ok) == Audited(NodeResults(output, known, reason), EndAudit, EndProposals(ok))
EndTrace(ok) == Trace(EndStatus, EndResults(ok), known, "audit" \in EndCites(ok),
                      "fix" \in EndCites(ok))
EndWorkflow(ok) ==
    IF IsDevOutput THEN Workflow(EndStatus, DevDag, EndResults(ok), known, EndCites(ok))
    ELSE Workflow(EndStatus, DefaultDag(output, known), None, known, {})

\* No workflow, where the planned one could not be written, or the planned one.
NotTerminal(w) == w # Absent =>
    /\ w.status = "planned"
    /\ IsDevOutput => w.results.code \in CodeStatuses /\ w.results.test \in TestStatuses

NothingTold ==
    told.audit = Absent /\ told.fix = Absent /\ told.trace = Absent
EndTold(ok) ==
    /\ IF "workflow" \in ok THEN told.workflow = EndWorkflow(ok) ELSE NotTerminal(told.workflow)
    /\ told.audit = IF IsDevOutput /\ "audit" \in EndCites(ok) THEN EndAudit ELSE Absent
    /\ told.fix = IF IsDevOutput /\ "fix" \in EndCites(ok)
                  THEN [proposals |-> EndProposals(ok)] ELSE Absent
    /\ told.trace = IF IsDevOutput /\ "trace" \in EndCites(ok) THEN EndTrace(ok) ELSE Absent

Told ==
    /\ told = [workflow |-> told.workflow, audit |-> told.audit,
               fix |-> told.fix, trace |-> told.trace]
    /\ Phase \in {"agent", "gate"} => NothingTold /\ told.workflow = Absent
    /\ pc \in {"inspect", "mutate", "test", "finalize", "recover"} =>
         NothingTold /\ NotTerminal(told.workflow)
    /\ pc = "returned" => EndTold(Stores)
    /\ pc = "raised" /\ reason \notin EarlyReasons => \E ok \in SUBSET Stores : EndTold(ok)

IInv == Place /\ Held /\ Carried /\ TestRuns /\ ChangesMade /\ Told
-------------------------------------------------------------------------------
LEMMA SeqOfItsRange == ASSUME NEW S, NEW s \in Seq(S) PROVE s \in Seq(Range(s))
    BY DEF Range

LEMMA SingletonSeq == ASSUME NEW S, NEW e \in S PROVE <<e>> \in Seq(S)
    OBVIOUS

LEMMA EmptyDomain == \A S : \A s \in Seq(S) : s = <<>> <=> DOMAIN s = {}
    OBVIOUS

LEMMA EmptyIsSeq == \A S : <<>> \in Seq(S)
    OBVIOUS

LEMMA AppendIsSeq ==
    ASSUME NEW S, NEW s \in Seq(S), NEW e \in S
    PROVE  /\ Append(s, e) \in Seq(S) /\ Len(Append(s, e)) = Len(s) + 1
           /\ Len(s) \in Nat /\ DOMAIN s = 1..Len(s)
           /\ DOMAIN Append(s, e) = 1..(Len(s) + 1)
           /\ \A i \in 1..Len(s) : Append(s, e)[i] = s[i]
           /\ Append(s, e)[Len(s) + 1] = e
    OBVIOUS

\* The least and the greatest place of a mark in a request.
LEMMA LeastExists ==
    ASSUME NEW S \in SUBSET Nat, S # {} PROVE \E x \in S : \A y \in S : x <= y
<1>1. \A x, y \in Nat : <<x, y>> \in OpToRel(<, Nat) <=> x < y
    BY Zenon DEF OpToRel
<1>2. PICK Less : IsWellFoundedOn(Less, Nat) /\ \A x, y \in Nat : <<x, y>> \in Less <=> x < y
    BY <1>1, NatLessThanWellFounded, Zenon
<1>3. \E x \in S : \A y \in S : ~(<<y, x>> \in Less)
  <2>1. \A R, N, T : IsWellFoundedOn(R, N) /\ T \subseteq N /\ T # {} =>
            \E x \in T : \A y \in T : ~(<<y, x>> \in R)
      BY WFMin, Zenon
  <2>2. IsWellFoundedOn(Less, Nat) /\ S \subseteq Nat /\ S # {} =>
            \E x \in S : \A y \in S : ~(<<y, x>> \in Less)
      BY <2>1, Zenon
  <2> QED
      BY <1>2, <2>2
<1>4. PICK x \in S : \A y \in S : ~(<<y, x>> \in Less)
    BY <1>3, Zenon
<1>5. \A y \in S : ~(y < x)
    BY <1>2, <1>4
<1> QED
    BY <1>5

LEMMA MinIsIn == ASSUME NEW S \in SUBSET Nat, S # {} PROVE Min(S) \in S
    BY LeastExists DEF Min

LEMMA MaxIsIn ==
    ASSUME NEW n \in Nat, NEW S \in SUBSET (0..n), S # {} PROVE Max(S) \in S
<1> DEFINE T == {n - x : x \in S}
<1>1. T \in SUBSET Nat /\ T # {}
  <2>1. \A x \in S : n - x \in Nat
    <3>1. \A x \in S : x \in Int /\ x <= n
        OBVIOUS
    <3> QED
        BY <3>1
  <2> QED
      BY <2>1
<1>2. \E t \in T : \A y \in T : t <= y
  <2> HIDE DEF T
  <2> QED
      BY <1>1, LeastExists
<1>3. \E x \in S : \A y \in S : x >= y
  <2>1. PICK x \in S : \A y \in T : n - x <= y
      BY <1>2
  <2>2. \A y \in S : n - x <= n - y
      BY <2>1
  <2> QED
      BY <2>2
<1> QED
    BY <1>3 DEF Max

LEMMA SuffixIn ==
    ASSUME NEW S, NEW s \in Seq(S), NEW m \in Nat \ {0} PROVE SubSeq(s, m, Len(s)) \in Seq(S)
    OBVIOUS

LEMMA PrefixIn ==
    ASSUME NEW S, NEW s \in Seq(S), NEW m \in 0..Len(s) PROVE SubSeq(s, 1, m) \in Seq(S)
    OBVIOUS

\* A request is split into lists.
LEMMA SplitIsTyped ==
    ASSUME NEW S, NEW words \in Seq(S) PROVE SplitTest(words).test \in Seq(S)
<1> DEFINE marks == {i \in 2..(Len(words) - 1) : words[i] = "test"}
           cut == IF words # <<>> /\ words[1] = "test" THEN 1
                  ELSE IF marks # {} THEN Min(marks) ELSE Len(words) + 1
<1>1. Len(words) \in Nat
    OBVIOUS
<1>2. marks \subseteq 2..(Len(words) - 1)
    OBVIOUS
<1>3. marks # {} => Min(marks) \in Nat \ {0}
  <2>1. marks \in SUBSET Nat
      BY <1>1, <1>2
  <2>2. marks # {} => Min(marks) \in marks
    <3> HIDE DEF marks
    <3> QED
      BY <2>1, MinIsIn
  <2> QED
      BY <1>1, <1>2, <2>2
<1>4. cut \in Nat \ {0}
  <2> HIDE DEF marks
  <2>1. cut = 1 \/ (marks # {} /\ cut = Min(marks)) \/ cut = Len(words) + 1
      OBVIOUS
  <2> QED
      BY <1>1, <1>3, <2>1
<1>5. SplitTest(words).test = SubSeq(words, cut, Len(words))
    BY DEF SplitTest
<1> HIDE DEF cut
<1> QED
    BY <1>4, <1>5, SuffixIn

LEMMA AskedIsTyped ==
    ASSUME NEW S, NEW words \in Seq(S) PROVE Asked(words).test \in Seq(S)
<1>1. IsDev(words) => Tail(words) \in Seq(S)
    BY DEF IsDev
<1> QED
    BY <1>1, SplitIsTyped DEF Asked

LEMMA PartsAreTyped ==
    ASSUME NEW S, NEW words \in Seq(S) PROVE Parts(words) \in Seq(S \union {"phrase"})
<1> DEFINE marks == QuoteMarks(words)
           T == S \union {"phrase"}
<1>1. Len(words) \in Nat /\ marks \subseteq 1..Len(words) /\ words \in Seq(T)
    BY DEF QuoteMarks
<1>2. CASE marks = {}
    BY <1>1, <1>2 DEF Parts
<1>3. CASE marks # {}
  <2>1. Min(marks) \in marks /\ Max(marks) \in marks
    <3> HIDE DEF marks
    <3>1. marks \in SUBSET Nat /\ marks \in SUBSET (0..Len(words))
        BY <1>1
    <3> QED
        BY <1>1, <1>3, <3>1, MinIsIn, MaxIsIn
  <2>2. Min(marks) - 1 \in 0..Len(words) /\ Max(marks) + 1 \in Nat \ {0}
    <3>1. \A m \in marks : m \in Int /\ 1 <= m /\ m <= Len(words)
        BY <1>1
    <3> DEFINE low == Min(marks)
               high == Max(marks)
    <3>2. /\ Len(words) \in Nat /\ low \in Int /\ 1 <= low /\ low <= Len(words)
          /\ high \in Int /\ 1 <= high
        BY <1>1, <2>1, <3>1
    <3> HIDE DEF marks, low, high
    <3>3. low - 1 \in 0..Len(words) /\ high + 1 \in Nat \ {0}
        BY <3>2
    <3> QED
        BY <3>3 DEF low, high
  <2>3. SubSeq(words, 1, Min(marks) - 1) \in Seq(T)
      BY <1>1, <2>2, PrefixIn
  <2>4. SubSeq(words, Max(marks) + 1, Len(words)) \in Seq(T)
      BY <1>1, <2>2, SuffixIn
  <2>5. <<"phrase">> \in Seq(T)
      OBVIOUS
  <2>6. Parts(words) = SubSeq(words, 1, Min(marks) - 1) \o <<"phrase">>
                         \o SubSeq(words, Max(marks) + 1, Len(words))
      BY <1>3 DEF Parts
  <2>7. \A a, b, c \in Seq(T) : a \o b \o c \in Seq(T)
      OBVIOUS
  <2>8. Parts(words) \in Seq(T)
    <3> HIDE DEF T
    <3> QED
        BY <2>3, <2>4, <2>5, <2>6, <2>7
  <2> QED
      BY <2>8
<1> QED
    BY <1>2, <1>3

\* Every output is a list of changes and a list of effects.
LEMMA OutputIsTyped ==
    ASSUME output \in Outputs
    PROVE  /\ output.changes \in Seq(Changes) /\ Len(output.changes) \in Nat
           /\ output.effects \in Seq(Range(output.effects)) /\ Len(output.effects) \in Nat
           /\ DOMAIN output.effects = 1..Len(output.effects)
           /\ \A i \in DOMAIN output.effects : IsList(output.effects[i].argv)
<1>1. ASSUME NEW words \in Requests, output = PlanOf(words) PROVE IsOutput(output)
  <2> DEFINE asked == Asked(words)
             rest == Tail(asked.command)
             create == [path |-> rest, operation |-> "create"]
             modify == [path |-> <<Parts(rest)[1]>>, operation |-> "modify"]
             inspection == InspectEffect(rest)
             test == TestEffect(Parts(Tail(asked.test)), {})
             inspections == IF Verb(asked.command) = "inspect" THEN <<inspection>> ELSE <<>>
             tests == IF asked.test = <<>> THEN <<>> ELSE <<test>>
  <2>1. output.changes = <<create>> \/ output.changes = <<modify>> \/ output.changes = <<>>
      BY <1>1 DEF PlanOf
  <2>2. output.effects = inspections \o tests
      BY <1>1, Zenon DEF PlanOf
  <2> HIDE DEF create, modify, inspection, test
  <2>3. output.changes \in Seq({create, modify})
    <3>1. <<create>> \in Seq({create, modify}) /\ <<modify>> \in Seq({create, modify})
        BY SingletonSeq
    <3>2. <<>> \in Seq({create, modify})
        OBVIOUS
    <3> QED
        BY <2>1, <3>1, <3>2, Zenon
  <2>4. inspections \in Seq({inspection, test}) /\ tests \in Seq({inspection, test})
    <3>1. <<inspection>> \in Seq({inspection, test}) /\ <<test>> \in Seq({inspection, test})
        BY SingletonSeq
    <3>2. <<>> \in Seq({inspection, test})
        OBVIOUS
    <3> QED
        BY <3>1, <3>2
  <2>5. output.effects \in Seq({inspection, test})
      BY <2>2, <2>4
  <2>6. IsList(inspection.argv)
      BY EmptyIsSeq DEF inspection, InspectEffect, IsList
  <2>7. asked.test # <<>> => IsList(test.argv)
    <3> DEFINE S == Range(words) \union {"phrase"}
    <3>1. words \in Seq(Range(words))
        BY RequestAssumption DEF IsList
    <3>2. asked.test # <<>> => Tail(asked.test) \in Seq(Range(words))
        BY <3>1, AskedIsTyped
    <3>3. asked.test # <<>> => Parts(Tail(asked.test)) \in Seq(S)
        BY <3>2, PartsAreTyped
    <3>4. test.argv = Parts(Tail(asked.test))
        BY DEF test, TestEffect
    <3> QED
        BY <3>3, <3>4, SeqOfItsRange DEF IsList
  <2>8. \A i \in DOMAIN output.effects : IsList(output.effects[i].argv)
    <3>1. asked.test # <<>> \/ output.effects \in Seq({inspection})
      <4>1. <<inspection>> \in Seq({inspection}) /\ <<>> \in Seq({inspection})
          BY SingletonSeq, EmptyIsSeq
      <4>2. inspections \in Seq({inspection}) /\ (asked.test = <<>> => tests = <<>>)
          BY <4>1
      <4>3. \A s \in Seq({inspection}) : s \o <<>> \in Seq({inspection})
          BY <4>1
      <4> QED
          BY <2>2, <4>2, <4>3
    <3>2. \A i \in DOMAIN output.effects :
            output.effects[i] = inspection \/ (asked.test # <<>> /\ output.effects[i] = test)
        BY <2>5, <3>1
    <3> QED
        BY <2>6, <2>7, <3>2
  <2> QED
      BY <2>3, <2>5, <2>8, SeqOfItsRange DEF IsOutput, IsList
<1>2. IsOutput(output)
    BY <1>1, OutputAssumption DEF Outputs
<1> QED
    BY <1>2 DEF IsOutput, IsList, Changes

LEMMA EffectsAreFinite ==
    ASSUME output \in Outputs, NEW kind
    PROVE  /\ IsFiniteSet(EffectsOf(output, kind))
           /\ Cardinality(EffectsOf(output, kind)) \in Nat
           /\ EffectsOf(output, kind) \subseteq 1..Len(output.effects)
<1>1. EffectsOf(output, kind) \subseteq 1..Len(output.effects) /\ Len(output.effects) \in Nat
    BY OutputIsTyped DEF EffectsOf
<1>2. IsFiniteSet(1..Len(output.effects))
    BY <1>1, FS_Interval
<1> QED
    BY <1>1, <1>2, FS_Subset, FS_CardinalityType

\* How many test effects there are before a place in the list.
LEMMA PassedCounts ==
    ASSUME output \in Outputs
    PROVE  /\ Passed(1) = 0
           /\ Passed(Len(output.effects) + 1) = Cardinality(TestEffects)
           /\ \A n \in Nat : Passed(n) \in Nat
           /\ \A n \in TestEffects : Passed(n + 1) = Passed(n) + 1
           /\ \A n \in Nat \ TestEffects : Passed(n + 1) = Passed(n)
<1> DEFINE last == Len(output.effects)
<1>1. /\ IsFiniteSet(TestEffects) /\ last \in Nat
      /\ \A i \in TestEffects : i \in Nat /\ 1 <= i /\ i <= last
  <2>1. TestEffects \subseteq 1..last /\ IsFiniteSet(TestEffects)
      BY EffectsAreFinite DEF TestEffects
  <2>2. last \in Nat
      BY OutputIsTyped
  <2> HIDE DEF last
  <2> QED
      BY <2>1, <2>2
<1> HIDE DEF last
<1>2. {i \in TestEffects : i < 1} = {}
    BY <1>1
<1>3. {i \in TestEffects : i < last + 1} = TestEffects
    BY <1>1
<1>4. \A n : IsFiniteSet({i \in TestEffects : i < n})
    BY <1>1, FS_Subset
<1>5. ASSUME NEW n \in TestEffects PROVE Passed(n + 1) = Passed(n) + 1
  <2>1. {i \in TestEffects : i < n + 1} = {i \in TestEffects : i < n} \union {n}
      BY <1>1
  <2>2. n \notin {i \in TestEffects : i < n}
      BY <1>1
  <2> QED
      BY <1>4, <2>1, <2>2, FS_AddElement DEF Passed
<1>6. ASSUME NEW n \in Nat \ TestEffects PROVE Passed(n + 1) = Passed(n)
  <2>1. {i \in TestEffects : i < n + 1} = {i \in TestEffects : i < n}
      BY <1>1
  <2> QED
      BY <2>1 DEF Passed
<1> QED
    BY <1>2, <1>3, <1>4, <1>5, <1>6, FS_EmptySet, FS_CardinalityType DEF Passed, last
-------------------------------------------------------------------------------
(* Where a run is.                                                             *)

Working == {"inspect", "mutate", "test", "finalize"}

\* What is taken from the code of the reasons: each has its phase.
LEMMA PhaseIs ==
    ASSUME Place
    PROVE  /\ Phase \in Phases
           /\ reason = None /\ pc # "returned" => Phase = pc
           /\ pc = "returned" => Phase = "finalize"
           /\ reason # None => Phase # "agent"
           /\ reason \in TestReasons <=> Phase = "test" /\ reason # None
           /\ reason = "mutation" <=> Phase = "mutate" /\ reason # None
           /\ reason = "write" <=> Phase = "finalize" /\ reason # None
           /\ reason \in EarlyReasons <=> Phase = "gate" /\ reason # None
    BY NoneAssumption
       DEF Place, Phase, Phases, Reasons, TestReasons, LosesTests, EarlyReasons, InspectReasons

\* The output, the workspace and the approvals are what they were.
SameRun == UNCHANGED <<request, workspace, approved, route, output>>

LEMMA SameRunKeeps ==
    ASSUME SameRun
    PROVE  /\ Authorized' = Authorized /\ Changes' = Changes /\ Lists' = Lists
           /\ TestEffects' = TestEffects /\ (IsDevOutput' <=> IsDevOutput)
           /\ \A n : Passed(n)' = Passed(n)
<1>1. request' = request /\ workspace' = workspace /\ approved' = approved /\ output' = output
    BY DEF SameRun
<1> QED
    BY <1>1 DEF Authorized, Changes, TestEffects, EffectsOf, IsDevOutput, Passed, MayInspect,
                TestRefusal, MatchesPrefix, Range, Lists

\* A working phase goes on, or gives way to the next one, or fails.
GoesOn == pc \in Working /\ pc' \in Working /\ reason' = reason /\ SameRun
Fails == pc \in Working /\ pc' = "recover" /\ reason' \in Reasons \ EarlyReasons /\ SameRun

LEMMA GoingOnPlaces ==
    ASSUME Place, GoesOn, at' \in 1..(Len(Todo)' + 1)
    PROVE  Place' /\ Phase' = pc' /\ Phase = pc
<1>1. /\ reason = None /\ reason' = None /\ pc' \in Working /\ pc \in Working
      /\ output' = output /\ route' = route
      /\ output \in Outputs /\ Selects(route) /\ AcceptsOutput(output)
      /\ request' = request /\ request \in Requests \union {None}
    BY NoneAssumption DEF GoesOn, SameRun, Place, Working, EarlyReasons, Reasons
<1>2. Phase = pc
    BY <1>1, PhaseIs DEF Working
<1>3. Phase' = pc'
    BY <1>1, NoneAssumption
       DEF Phase, Working, Reasons, TestReasons, EarlyReasons, InspectReasons, LosesTests
<1>4. at' \in Nat \ {0}
    OBVIOUS
<1>5. Place'
    BY <1>1, <1>3, <1>4, NoneAssumption
       DEF Place, Working, Phases, EarlyReasons, Reasons, AcceptsOutput, Selects
<1> QED
    BY <1>2, <1>3, <1>5

LEMMA FailurePlaces ==
    ASSUME Place, Fails, at' = at
    PROVE  Place' /\ Phase' \in Working /\ Phase = pc
<1>1. /\ reason = None /\ reason' \in Reasons \ EarlyReasons /\ pc' = "recover"
      /\ reason' # None /\ pc \in Working
      /\ output' = output /\ route' = route
      /\ output \in Outputs /\ Selects(route) /\ AcceptsOutput(output) /\ at \in Nat \ {0}
      /\ request' = request /\ request \in Requests \union {None}
    BY NoneAssumption DEF Fails, SameRun, Place, Working, EarlyReasons, Reasons
<1>2. Phase = pc
    BY <1>1, PhaseIs DEF Working
<1>3. Phase' \in Working
    BY <1>1, NoneAssumption
       DEF Phase, Working, Reasons, TestReasons, EarlyReasons, InspectReasons, LosesTests
<1>4. Place'
    BY <1>1, <1>3 DEF Place, Working, Phases, AcceptsOutput, Selects
<1> QED
    BY <1>2, <1>3, <1>4
-------------------------------------------------------------------------------
(* What a step leaves alone.                                                   *)

LEMMA HeldStays == ASSUME Held, SameRun, known' = known PROVE Held'
    BY SameRunKeeps DEF Held

LEMMA CarriedStays ==
    ASSUME Carried, Phase \in Working, SameRun, log' = log PROVE Carried'
<1>1. log \in Seq(Authorized)
    BY DEF Carried, Working
<1>2. Authorized' = Authorized
    BY SameRunKeeps
<1> QED
    BY <1>1, <1>2 DEF Carried

LEMMA CarriedGrows ==
    ASSUME Carried, Phase \in Working, SameRun, NEW step \in Authorized,
           log' = Append(log, step)
    PROVE  Carried'
<1>1. log \in Seq(Authorized)
    BY DEF Carried, Working
<1>2. Append(log, step) \in Seq(Authorized)
    BY <1>1
<1>3. Authorized' = Authorized
    BY SameRunKeeps
<1> QED
    BY <1>2, <1>3 DEF Carried

LEMMA TestRunsStay ==
    ASSUME TestRuns, SameRun, ran' = ran, known'.tests = known.tests,
           reason \notin TestReasons, reason' \notin TestReasons,
           Phase # "test", Phase' # "test",
           TestsToCome' => TestsToCome, TestsDone' => TestsDone
    PROVE  TestRuns'
    BY SameRunKeeps DEF TestRuns, TestReasons, LosesTests, AllPassed

LEMMA ChangesStay ==
    ASSUME ChangesMade, SameRun, onDisk' = onDisk,
           known'.applied = known.applied, known'.approvals = known.approvals,
           known'.denied = known.denied,
           reason # "mutation", reason' # "mutation", ChangesToCome' => ChangesToCome
    PROVE  ChangesMade'
    BY SameRunKeeps DEF ChangesMade

LEMMA ToldStays ==
    ASSUME Told, SameRun, told' = told, pc \in Working, pc' \in Working \union {"recover"},
           Phase' \in Working
    PROVE  Told'
<1>1. NothingTold /\ NotTerminal(told.workflow)
    BY DEF Told, Working
<1>2. NothingTold'
    BY <1>1 DEF NothingTold
<1>3. NotTerminal(told.workflow)'
    BY <1>1, SameRunKeeps DEF NotTerminal
<1>4. told' = [workflow |-> told'.workflow, audit |-> told'.audit,
               fix |-> told'.fix, trace |-> told'.trace]
    BY DEF Told
<1> QED
    BY <1>2, <1>3, <1>4 DEF Told, Working
-------------------------------------------------------------------------------
(* Before the first phase nothing was done and nothing is told.                *)

Untouched ==
    /\ log = <<>> /\ onDisk = <<>> /\ ran = <<>> /\ known = Nothing
    /\ told = [workflow |-> Absent, audit |-> Absent, fix |-> Absent, trace |-> Absent]

Early ==
    /\ Untouched /\ reason \notin {"mutation"} \union TestReasons
    /\ Phase \in {"agent", "gate"} /\ pc \in {"agent", "gate", "raised"}
    /\ pc = "raised" => reason \in EarlyReasons
Telling == Held /\ Carried /\ TestRuns /\ ChangesMade /\ Told

LEMMA EarlyTells == Early => Telling
<1> SUFFICES ASSUME Early PROVE Telling
    OBVIOUS
<1> USE DEF Early
<1>1. \A S : <<>> \in Seq(S)
    OBVIOUS
<1>2. Held
    BY <1>1 DEF Untouched, Nothing, Held, Lists
<1>3. TestRuns
    BY <1>1 DEF Untouched, Nothing, TestRuns, TestsToCome, TestsDone, AllPassed, TestReasons
<1>4. ChangesMade
    BY <1>1 DEF Untouched, Nothing, ChangesMade, ChangesToCome
<1>5. Carried
    BY DEF Carried
<1>6. Told
    BY DEF Untouched, Told, EarlyReasons, NothingTold
<1> QED
    BY <1>2, <1>3, <1>4, <1>5, <1>6 DEF Telling

LEMMA InitIInv == Init => IInv
<1> SUFFICES ASSUME Init PROVE IInv
    OBVIOUS
<1>1. Untouched
    BY DEF Init, Untouched
<1>2. reason = None /\ pc = "agent" /\ at = 1 /\ output = None /\ known = Nothing /\ log = <<>>
    BY DEF Init
<1>3. Phase = "agent" /\ reason \notin {"mutation"} \union TestReasons
    BY <1>2, NoneAssumption
       DEF Phase, TestReasons, LosesTests, EarlyReasons, InspectReasons, Reasons
<1>4. Todo = <<>> /\ Len(Todo) = 0 /\ request \in Requests \union {None}
    BY <1>2 DEF Todo, Init
<1>5. at \in 1..(Len(Todo) + 1) /\ at \in Nat \ {0}
    BY <1>2, <1>4
<1>6. None \notin Reasons /\ EarlyReasons \subseteq Reasons
    BY NoneAssumption DEF Reasons, EarlyReasons
<1>7. Place
    BY <1>2, <1>3, <1>4, <1>5, <1>6 DEF Place, Phases
<1> QED
    BY <1>1, <1>2, <1>3, <1>7, EarlyTells DEF IInv, Early, Telling

LEMMA EarlyIsUntouched == ASSUME IInv, Phase \in {"agent", "gate"} PROVE Untouched
    BY DEF IInv, Place, TestRuns, TestsToCome, ChangesMade, ChangesToCome, Told, NothingTold,
           Untouched

\* A run fails before its first phase.
LEMMA EarlyFailure ==
    ASSUME IInv, pc \in {"agent", "gate"}, NEW why \in EarlyReasons, Fail(why)
    PROVE  IInv'
<1>1. reason = None /\ Phase = pc /\ at \in Nat \ {0}
    BY NoneAssumption, PhaseIs DEF IInv, Place
<1>2. Untouched
    BY <1>1, EarlyIsUntouched
<1>3. /\ pc' = "raised" /\ reason' = why /\ known' = known /\ at' = at /\ told' = told
      /\ log' = log /\ onDisk' = onDisk /\ ran' = ran /\ output' = output
    BY DEF Fail, Unwind, HeldOf, history
<1>4. Untouched'
    BY <1>2, <1>3 DEF Untouched, Absent, Nothing
<1>5. /\ Phase' = "gate" /\ reason' \notin {"mutation"} \union TestReasons
      /\ reason' \in Reasons /\ reason' # None
    BY <1>3, NoneAssumption
       DEF Phase, TestReasons, LosesTests, EarlyReasons, InspectReasons, Reasons
<1>6. request' = request /\ request \in Requests \union {None}
    BY DEF Fail, Unwind, inputs, IInv, Place
<1>7. Place'
    BY <1>1, <1>3, <1>4, <1>5, <1>6 DEF Place, Phases, Untouched, Nothing, EarlyReasons
<1>8. Early'
    BY <1>3, <1>4, <1>5 DEF Early
<1>9. Telling'
    BY <1>8, EarlyTells, PTL
<1> QED
    BY <1>7, <1>9 DEF IInv, Telling

LEMMA AgentKeeps == ASSUME IInv, RunAgent PROVE IInv'
<1>1. \/ Fail("provider") \/ Fail("request")
      \/ \E config \in Configs : 
           /\ Selects(config) /\ ~(request # None /\ CannotParse(request)) /\ route' = config
           /\ output' \in IF request = None THEN OtherOutputs ELSE {PlanOf(request)}
           /\ pc' = "gate" /\ UNCHANGED <<inputs, at, known, reason, told, history>>
    BY DEF RunAgent
<1>2. CASE Fail("provider") \/ Fail("request")
    BY <1>2, EarlyFailure DEF RunAgent, EarlyReasons
<1>3. CASE \E config \in Configs : 
           /\ Selects(config) /\ ~(request # None /\ CannotParse(request)) /\ route' = config
           /\ output' \in IF request = None THEN OtherOutputs ELSE {PlanOf(request)}
           /\ pc' = "gate" /\ UNCHANGED <<inputs, at, known, reason, told, history>>
  <2>1. PICK config \in Configs : 
           /\ Selects(config) /\ ~(request # None /\ CannotParse(request)) /\ route' = config
           /\ output' \in IF request = None THEN OtherOutputs ELSE {PlanOf(request)}
           /\ pc' = "gate" /\ UNCHANGED <<inputs, at, known, reason, told, history>>
      BY <1>3
  <2>2. /\ at' = at /\ known' = known /\ reason' = reason /\ told' = told
        /\ log' = log /\ onDisk' = onDisk /\ ran' = ran /\ pc = "agent" /\ pc' = "gate"
      BY <2>1 DEF history, RunAgent
  <2>3. reason = None /\ Phase = pc /\ at \in 1..1
      BY <2>2, NoneAssumption, PhaseIs DEF IInv, Place, Todo
  <2>4. Untouched
      BY <2>2, <2>3, EarlyIsUntouched
  <2>5. Untouched'
      BY <2>2, <2>4 DEF Untouched, Absent, Nothing
  <2>6. Phase' = "gate" /\ reason' = None /\ reason' \notin {"mutation"} \union TestReasons
      BY <2>2, <2>3, NoneAssumption
         DEF Phase, TestReasons, LosesTests, EarlyReasons, InspectReasons, Reasons
  <2>7. output' \in Outputs
    <3>1. request \in Requests \union {None}
        BY DEF IInv, Place
    <3> QED
        BY <2>1, <3>1 DEF Outputs
  <2>8. Todo' = <<>> /\ Len(Todo') = 0 /\ request' = request
      BY <2>1, <2>2 DEF Todo, inputs
  <2>9. Selects(route)'
    <3>1. route' = config /\ Selects(config)
        BY <2>1
    <3> QED
        BY <3>1 DEF Selects, IsLocalEndpoint
  <2>10. Place'
    <3>1. at' \in 1..(Len(Todo)' + 1) /\ at' \in Nat \ {0}
        BY <2>2, <2>3, <2>8
    <3>2. None \notin Reasons /\ EarlyReasons \subseteq Reasons
        BY NoneAssumption DEF Reasons, EarlyReasons
    <3>3. request' \in Requests \union {None}
        BY <2>8 DEF IInv, Place
    <3>4. log' = <<>> /\ known' = Nothing
        BY <2>5 DEF Untouched, Nothing
    <3> QED
        BY <2>2, <2>3, <2>6, <2>7, <2>9, <3>1, <3>2, <3>3, <3>4 DEF Place, Phases, Nothing
  <2>11. Early'
      BY <2>2, <2>5, <2>6 DEF Early
  <2>12. Telling'
      BY <2>11, EarlyTells, PTL
  <2> QED
      BY <2>10, <2>12 DEF IInv, Telling
<1> QED
    BY <1>1, <1>2, <1>3

\* The output gate: the planned workflow is told before the first phase.
LEMMA GateKeeps == ASSUME IInv, GateOutput PROVE IInv'
<1>1. CASE Fail("output") \/ Fail("acceptance")
    BY <1>1, EarlyFailure DEF GateOutput, EarlyReasons
<1>2. CASE AcceptsOutput(output) /\ ~Fail("acceptance")
  <2>1. /\ pc = "gate"
        /\ \/ pc' = "inspect" /\ reason' = None
           \/ pc' = "recover" /\ reason' = "planned workflow"
        /\ told' \in {told, [told EXCEPT !.workflow = Planned]}
        /\ at' = at /\ known' = known /\ SameRun
        /\ log' = log /\ onDisk' = onDisk /\ ran' = ran
      BY <1>2 DEF GateOutput, SameRun, inputs, history
  <2>2. reason = None /\ Phase = pc /\ output \in Outputs /\ Selects(route) /\ at \in 1..(Len(Todo) + 1)
      BY <2>1, NoneAssumption, PhaseIs DEF IInv, Place
  <2>3. Untouched
      BY <2>1, <2>2, EarlyIsUntouched
  <2>4. /\ Phase' = "inspect" /\ reason' \notin {"mutation"} \union TestReasons
        /\ reason' \in Reasons \union {None} /\ reason' \notin EarlyReasons
        /\ reason' # None <=> pc' = "recover"
      BY <2>1, NoneAssumption
         DEF Phase, TestReasons, LosesTests, EarlyReasons, InspectReasons, Reasons
  <2>5. Place'
    <3>1. Todo = <<>> /\ at = 1 /\ at' = 1
      <4>1. pc = "gate" /\ at \in 1..(Len(Todo) + 1) /\ at' = at
          BY <2>1, <2>2
      <4> QED
          BY <4>1 DEF Todo
    <3>2. pc' = "inspect" => Todo' = output.effects
        BY <2>1 DEF Todo, SameRun
    <3>3. (pc' = "inspect" => at' \in 1..(Len(Todo)' + 1)) /\ at' \in Nat \ {0}
      <4>1. Len(output.effects) \in Nat
          BY <2>2, OutputIsTyped
      <4> QED
          BY <3>1, <3>2, <4>1
    <3>4. None \notin Reasons /\ EarlyReasons \subseteq Reasons
        BY NoneAssumption DEF Reasons, EarlyReasons
    <3>5. output' = output /\ route' = route /\ request' = request
        BY <2>1 DEF SameRun
    <3>6. Selects(route)' /\ AcceptsOutput(output)' /\ request' \in Requests \union {None}
        BY <1>2, <2>2, <3>5 DEF Selects, IsLocalEndpoint, AcceptsOutput, IInv, Place
    <3> QED
        BY <2>1, <2>2, <2>4, <3>3, <3>4, <3>5, <3>6 DEF Place, Phases
  <2>6. Held'
      BY <2>1, HeldStays DEF IInv
  <2>7. Carried'
    <3>1. \A S : <<>> \in Seq(S)
        OBVIOUS
    <3>2. log' = <<>>
        BY <2>1, <2>3 DEF Untouched
    <3> QED
        BY <3>1, <3>2 DEF Carried
  <2>8. TestRuns'
    <3>1. \A S : <<>> \in Seq(S)
        OBVIOUS
    <3>2. ran' = <<>> /\ known'.tests = <<>>
        BY <2>1, <2>3 DEF Untouched, Nothing
    <3> QED
        BY <2>4, <3>1, <3>2 DEF TestRuns, TestsToCome, TestsDone, TestReasons
  <2>9. ChangesMade'
    <3>1. \A S : <<>> \in Seq(S)
        OBVIOUS
    <3> QED
        BY <2>1, <2>3, <2>4, <3>1 DEF ChangesMade, Untouched, Nothing, ChangesToCome
  <2>10. Told'
    <3>1. \E w \in {Absent, Planned} :
            told' = [workflow |-> w, audit |-> Absent, fix |-> Absent, trace |-> Absent]
        BY <2>1, <2>3 DEF Untouched
    <3>2. NotTerminal(Planned)
        BY DEF NotTerminal, Planned, Workflow, NodeResults, CodeStatus, TestStatus,
               CodeStatuses, TestStatuses, IsDevOutput, Absent
    <3>3. told'.workflow \in {Absent, Planned} /\ NothingTold'
        BY <3>1 DEF NothingTold, Absent
    <3>4. NotTerminal(told.workflow)'
        BY <2>1, <3>2, <3>3, SameRunKeeps DEF NotTerminal, Absent
    <3> QED
        BY <2>1, <2>4, <3>1, <3>3, <3>4 DEF Told, Absent
  <2> QED
      BY <2>5, <2>6, <2>7, <2>8, <2>9, <2>10 DEF IInv
<1> QED
    BY <1>1, <1>2 DEF GateOutput
-------------------------------------------------------------------------------
(* The phases.                                                                 *)

LEMMA WorkingFacts ==
    ASSUME IInv, pc \in Working
    PROVE  /\ reason = None /\ Phase = pc /\ reason \notin TestReasons /\ reason # "mutation"
           /\ output \in Outputs /\ at \in 1..(Len(Todo) + 1)
    BY NoneAssumption, PhaseIs
       DEF IInv, Place, Working, Reasons, TestReasons, EarlyReasons, LosesTests

LEMMA TodoAfter ==
    ASSUME output \in Outputs, SameRun
    PROVE  /\ Len(Todo)' \in Nat
           /\ pc' \in {"inspect", "test"} => Todo' = output.effects
           /\ pc' = "mutate" => Todo' = output.changes
<1>1. /\ Len(output.changes) \in Nat /\ Len(output.effects) \in Nat /\ Len(<<>>) = 0
      /\ output' = output
    BY OutputIsTyped DEF SameRun
<1>2. Todo' = output.effects \/ Todo' = output.changes \/ Todo' = <<>>
    BY <1>1 DEF Todo
<1> QED
    BY <1>1, <1>2 DEF Todo

\* The next phase begins; what a phase that is over leaves is what the one after
\* it, and the records, take for granted.
LEMMA EndPhaseKeeps == ASSUME IInv, EndPhase PROVE IInv'
<1>1. /\ pc \in {"inspect", "mutate", "test"} /\ at > Len(Todo) /\ pc' = After(pc) /\ at' = 1
      /\ SameRun /\ known' = known /\ reason' = reason /\ told' = told
      /\ log' = log /\ onDisk' = onDisk /\ ran' = ran
    BY DEF EndPhase, SameRun, inputs, history
<1>2. /\ reason = None /\ Phase = pc /\ reason \notin TestReasons /\ reason # "mutation"
      /\ output \in Outputs /\ at \in 1..(Len(Todo) + 1)
    BY <1>1, WorkingFacts DEF Working
<1>3. /\ pc = "inspect" => pc' = IF IsDevOutput THEN "mutate" ELSE "test"
      /\ pc = "mutate" => pc' = IF IsDevOutput THEN "test" ELSE "finalize"
      /\ pc = "test" => pc' = IF IsDevOutput THEN "finalize" ELSE "mutate"
    BY <1>1 DEF After, IsDevOutput
<1>4. GoesOn /\ at' \in 1..(Len(Todo)' + 1)
  <2>1. Len(Todo)' \in Nat
      BY <1>1, <1>2, TodoAfter
  <2>2. GoesOn
      BY <1>1, <1>3 DEF GoesOn, Working
  <2> QED
      BY <1>1, <2>1, <2>2
<1>5. Place' /\ Phase' = pc'
    BY <1>4, GoingOnPlaces DEF IInv
<1>6. Held'
    BY <1>1, HeldStays DEF IInv
<1>7. Carried'
    BY <1>1, <1>2, CarriedStays DEF IInv, Working
<1>8. TestRuns'
  <2>1. /\ TestEffects' = TestEffects /\ (IsDevOutput' <=> IsDevOutput)
        /\ \A n : Passed(n)' = Passed(n)
      BY <1>1, SameRunKeeps
  <2>2. CASE pc = "test"
    <3>1. TestsDone' /\ ~TestsToCome' /\ Phase' # "test"
        BY <1>3, <1>5, <2>1, <2>2 DEF TestsDone, TestsToCome
    <3>2. known.tests = ran /\ AllPassed /\ Len(ran) = Passed(at) /\ ran \in Seq({0, 1, 9})
        BY <1>2, <2>2 DEF IInv, TestRuns
    <3>3. at = Len(output.effects) + 1
        BY <1>1, <1>2, <2>2, OutputIsTyped DEF Todo
    <3>4. Len(ran) = Cardinality(TestEffects)
        BY <1>2, <3>2, <3>3, PassedCounts
    <3> QED
        BY <1>1, <1>2, <2>1, <3>1, <3>2, <3>4 DEF TestRuns, TestReasons, AllPassed
  <2>3. CASE pc' = "test"
    <3>1. ~TestsDone' /\ ~TestsToCome' /\ Phase' = "test"
        BY <1>5, <2>3 DEF TestsDone, TestsToCome
    <3>2. TestsToCome
        BY <1>1, <1>2, <1>3, <2>3 DEF TestsToCome
    <3>3. ran = <<>> /\ known.tests = <<>> /\ ran \in Seq({0, 1, 9})
        BY <3>2 DEF IInv, TestRuns
    <3>4. Len(ran) = Passed(1) /\ AllPassed
        BY <1>2, <3>3, PassedCounts DEF AllPassed
    <3> QED
        BY <1>1, <1>2, <2>1, <3>1, <3>3, <3>4 DEF TestRuns, TestReasons, AllPassed
  <2>4. CASE pc # "test" /\ pc' # "test"
    <3>1. (TestsToCome' => TestsToCome) /\ (TestsDone' => TestsDone)
        BY <1>1, <1>2, <1>3, <1>5, <2>1, <2>4 DEF TestsDone, TestsToCome
    <3> QED
        BY <1>1, <1>2, <1>5, <2>4, <3>1, TestRunsStay DEF IInv
  <2> QED
      BY <2>2, <2>3, <2>4
<1>9. ChangesMade'
  <2>1. ChangesToCome' => ChangesToCome
      BY <1>1, <1>2, <1>3, <1>5, SameRunKeeps DEF ChangesToCome
  <2> QED
      BY <1>1, <1>2, <2>1, ChangesStay DEF IInv
<1>10. Told'
    BY <1>1, <1>4, <1>5, ToldStays DEF IInv, GoesOn
<1> QED
    BY <1>5, <1>6, <1>7, <1>8, <1>9, <1>10 DEF IInv

\* An effect that is for another phase.
LEMMA SkipKeeps == ASSUME IInv, Skip PROVE IInv'
<1>1. /\ pc \in {"inspect", "test"} /\ at <= Len(output.effects)
      /\ pc = "test" => output.effects[at].kind # "test_command"
      /\ pc' = pc /\ at' = at + 1
      /\ SameRun /\ known' = known /\ reason' = reason /\ told' = told
      /\ log' = log /\ onDisk' = onDisk /\ ran' = ran
    BY DEF Skip, Proceed, SameRun, inputs, history
<1>2. /\ reason = None /\ Phase = pc /\ reason \notin TestReasons /\ reason # "mutation"
      /\ output \in Outputs /\ at \in 1..(Len(Todo) + 1)
    BY <1>1, WorkingFacts DEF Working
<1>3. at \in 1..Len(output.effects) /\ Len(output.effects) \in Nat
    BY <1>1, <1>2, OutputIsTyped DEF Todo
<1>4. GoesOn /\ at' \in 1..(Len(Todo)' + 1)
  <2>1. Todo' = output.effects
      BY <1>1, <1>2, TodoAfter
  <2> QED
      BY <1>1, <1>3, <2>1 DEF GoesOn, Working
<1>5. Place' /\ Phase' = pc'
    BY <1>4, GoingOnPlaces DEF IInv
<1>6. Held'
    BY <1>1, HeldStays DEF IInv
<1>7. Carried'
    BY <1>1, <1>2, CarriedStays DEF IInv, Working
<1>8. /\ TestEffects' = TestEffects /\ (IsDevOutput' <=> IsDevOutput)
      /\ \A n : Passed(n)' = Passed(n)
    BY <1>1, SameRunKeeps
<1>9. (TestsToCome' <=> TestsToCome) /\ (TestsDone' <=> TestsDone)
      /\ (ChangesToCome' <=> ChangesToCome)
    BY <1>1, <1>2, <1>5, <1>8 DEF TestsDone, TestsToCome, ChangesToCome
<1>10. TestRuns'
  <2>1. CASE pc = "test"
    <3>1. at \notin TestEffects
        BY <1>1, <2>1 DEF TestEffects, EffectsOf
    <3>2. Passed(at + 1) = Passed(at)
        BY <1>2, <1>3, <3>1, PassedCounts
    <3> QED
        BY <1>1, <1>2, <1>5, <1>8, <1>9, <2>1, <3>2
           DEF IInv, TestRuns, TestReasons, AllPassed, TestsDone, TestsToCome
  <2>2. CASE pc # "test"
      BY <1>1, <1>2, <1>5, <1>9, <2>2, TestRunsStay DEF IInv
  <2> QED
      BY <2>1, <2>2
<1>11. ChangesMade'
    BY <1>1, <1>2, <1>9, ChangesStay DEF IInv
<1>12. Told'
    BY <1>1, <1>4, <1>5, ToldStays DEF IInv, GoesOn
<1> QED
    BY <1>5, <1>6, <1>7, <1>10, <1>11, <1>12 DEF IInv

\* Before the test phase, or after it, a failure leaves what is told of tests.
LEMMA FailureElsewhere ==
    ASSUME IInv, Fails, pc # "test", at' = at, told' = told, reason' \notin TestReasons,
           Phase' = Phase, ran' = ran, known'.tests = known.tests
    PROVE  Place' /\ TestRuns' /\ Told' /\ (ChangesToCome' <=> ChangesToCome)
<1>1. /\ SameRun /\ Phase = pc /\ reason \notin TestReasons /\ pc \in Working
      /\ pc' = "recover"
    BY WorkingFacts DEF Fails
<1>2. Place' /\ Phase' \in Working
    BY FailurePlaces DEF IInv
<1>3. /\ TestsToCome' <=> TestsToCome
      /\ TestsDone' <=> TestsDone
      /\ ChangesToCome' <=> ChangesToCome
    BY <1>1, SameRunKeeps DEF TestsToCome, TestsDone, ChangesToCome
<1>4. TestRuns'
    BY <1>1, <1>3, TestRunsStay DEF IInv
<1>5. Told'
    BY <1>1, <1>2, ToldStays DEF IInv
<1> QED
    BY <1>2, <1>3, <1>4, <1>5

\* An inspection is carried out within the scope, or fails.
LEMMA InspectKeeps == ASSUME IInv, Inspect PROVE IInv'
<1> DEFINE path == output.effects[at].path
<1>1. /\ pc = "inspect" /\ at <= Len(output.effects) /\ output.effects[at].kind = "inspect_file"
    BY DEF Inspect, ComesTo
<1>2. /\ reason = None /\ Phase = pc /\ reason \notin TestReasons /\ reason # "mutation"
      /\ output \in Outputs /\ at \in 1..(Len(Todo) + 1) /\ pc \in Working
    BY <1>1, WorkingFacts DEF Working
<1>3. at \in 1..Len(output.effects) /\ at \in DOMAIN output.effects /\ Len(output.effects) \in Nat
    BY <1>1, <1>2, OutputIsTyped DEF Todo
<1>4. known \in Lists
    BY DEF IInv, Held
<1>5. CASE Fail("inspect target")
  <2>1. /\ pc' = "recover" /\ reason' = "inspect target" /\ at' = at /\ told' = told /\ SameRun
        /\ known' = [known EXCEPT !.inspections = <<>>]
        /\ log' = log /\ onDisk' = onDisk /\ ran' = ran
      BY <1>1, <1>5 DEF Fail, Unwind, HeldOf, SameRun, inputs, history
  <2>2. Fails /\ reason' \notin TestReasons /\ Phase' = "inspect" /\ reason' # "mutation"
      BY <1>2, <2>1 DEF Fails, Reasons, EarlyReasons, TestReasons, InspectReasons, LosesTests, Phase
  <2>3. /\ known' \in Lists
        /\ known'.tests = known.tests /\ known'.applied = known.applied
        /\ known'.approvals = known.approvals /\ known'.denied = known.denied
    <3>1. \A S : <<>> \in Seq(S)
        OBVIOUS
    <3> QED
        BY <1>4, <2>1, <3>1 DEF Lists
  <2>4. Place' /\ TestRuns' /\ Told' /\ (ChangesToCome' <=> ChangesToCome)
      BY <1>1, <1>2, <2>1, <2>2, <2>3, FailureElsewhere
  <2>5. Held'
      BY <2>1, <2>3, SameRunKeeps DEF Held
  <2>6. Carried'
      BY <1>2, <2>1, CarriedStays DEF IInv
  <2>7. ChangesMade'
      BY <1>2, <2>1, <2>2, <2>3, <2>4, ChangesStay DEF IInv
  <2> QED
      BY <2>4, <2>5, <2>6, <2>7 DEF IInv
<1>6. CASE /\ MayInspect(path)
           /\ Proceed([known EXCEPT !.inspections = Append(@, path)])
           /\ log' = Append(log, <<"inspect", at, path>>)
           /\ UNCHANGED <<onDisk, ran>>
  <2>1. /\ pc' = pc /\ reason' = reason /\ at' = at + 1 /\ told' = told /\ SameRun
        /\ known' = [known EXCEPT !.inspections = Append(@, path)]
        /\ log' = Append(log, <<"inspect", at, path>>) /\ onDisk' = onDisk /\ ran' = ran
      BY <1>6 DEF Proceed, SameRun, inputs
  <2>2. path \in {output.effects[i].path : i \in DOMAIN output.effects}
      BY <1>3
  <2>3. /\ known' \in Lists
        /\ known'.tests = known.tests /\ known'.applied = known.applied
        /\ known'.approvals = known.approvals /\ known'.denied = known.denied
    <3> DEFINE Paths == {output.effects[i].path : i \in DOMAIN output.effects}
    <3>1. known.inspections \in Seq(Paths)
        BY <1>4 DEF Lists
    <3> HIDE DEF Paths
    <3>2. Append(known.inspections, path) \in Seq(Paths)
        BY <2>2, <3>1 DEF Paths
    <3> QED
        BY <1>4, <2>1, <3>2 DEF Lists, Paths
  <2>4. GoesOn /\ at' \in 1..(Len(Todo)' + 1)
    <3>1. Todo' = output.effects
        BY <1>1, <1>2, <2>1, TodoAfter
    <3> QED
        BY <1>2, <1>3, <2>1, <3>1 DEF GoesOn
  <2>5. Place' /\ Phase' = pc'
      BY <2>4, GoingOnPlaces DEF IInv
  <2>6. Held'
      BY <2>1, <2>3, SameRunKeeps DEF Held
  <2>7. <<"inspect", at, path>> \in Authorized
      BY <1>1, <1>3, <1>6 DEF Authorized, EffectsOf
  <2>8. Carried'
      BY <1>2, <2>1, <2>7, CarriedGrows DEF IInv
  <2>9. /\ TestsToCome' <=> TestsToCome
        /\ TestsDone' <=> TestsDone
        /\ ChangesToCome' <=> ChangesToCome
      BY <1>2, <2>1, <2>5, SameRunKeeps DEF TestsToCome, TestsDone, ChangesToCome
  <2>10. TestRuns'
      BY <1>1, <1>2, <2>1, <2>3, <2>5, <2>9, TestRunsStay DEF IInv
  <2>11. ChangesMade'
      BY <1>2, <2>1, <2>3, <2>9, ChangesStay DEF IInv
  <2>12. Told'
      BY <1>2, <2>1, <2>5, ToldStays DEF IInv
  <2> QED
      BY <2>5, <2>6, <2>8, <2>10, <2>11, <2>12 DEF IInv
<1> QED
    BY <1>5, <1>6 DEF Inspect

\* The runs of a test phase are told if it ends or meets an exit code, and lost
\* if it raises anything else.
LEMMA TestFails ==
    ASSUME IInv, pc = "test", at \in TestEffects, NEW why \in TestReasons, NEW k \in Lists,
           Unwind(k, why), UNCHANGED onDisk,
           k.applied = known.applied, k.approvals = known.approvals, k.denied = known.denied,
           ran' \in Seq({0, 1, 9}),
           why = "test command exit" => k.tests = ran' /\ \E i \in DOMAIN ran' : ran'[i] = 1,
           why \in LosesTests => \A i \in DOMAIN ran' : ran'[i] # 1,
           why \in LosesTests \ {"test command timeout"} => ran' = ran,
           Carried'
    PROVE  IInv'
<1>1. /\ pc' = "recover" /\ reason' = why /\ at' = at /\ told' = told /\ SameRun
      /\ known' = IF why = "test command exit" THEN k ELSE [k EXCEPT !.tests = <<>>]
    BY DEF Unwind, HeldOf, SameRun, inputs
<1>2. /\ reason = None /\ Phase = pc /\ reason \notin TestReasons /\ reason # "mutation"
      /\ output \in Outputs /\ pc \in Working
    BY WorkingFacts DEF Working
<1>3. /\ Fails /\ Phase' = "test" /\ reason' # "mutation" /\ reason' # None
      /\ (why \in LosesTests <=> why # "test command exit")
  <2>1. why \in Reasons \ EarlyReasons /\ why # "mutation" /\ why # None
      BY NoneAssumption DEF Reasons, EarlyReasons, TestReasons, LosesTests
  <2>2. why \notin InspectReasons /\ (why \in LosesTests <=> why # "test command exit")
      BY DEF TestReasons, InspectReasons, LosesTests
  <2> QED
      BY <1>1, <1>2, <2>1, <2>2 DEF Fails, Phase
<1>4. Place'
    BY <1>1, <1>3, FailurePlaces DEF IInv
<1>5. /\ known' \in Lists
      /\ why = "test command exit" => known'.tests = k.tests
      /\ why # "test command exit" => known'.tests = <<>>
      /\ known'.applied = known.applied
      /\ known'.approvals = known.approvals /\ known'.denied = known.denied
  <2>1. \A S : <<>> \in Seq(S)
      BY EmptyIsSeq
  <2> QED
      BY <1>1, <2>1 DEF Lists
<1>6. Held'
    BY <1>1, <1>5, SameRunKeeps DEF Held
<1>7. TestRuns'
  <2>1. ~TestsToCome' /\ ~TestsDone'
      BY <1>3 DEF TestsToCome, TestsDone
  <2>2. TestEffects' # {}
      BY <1>1, SameRunKeeps
  <2>3. AllPassed
      BY <1>2 DEF IInv, TestRuns
  <2> QED
      BY <1>1, <1>3, <1>5, <2>1, <2>2, <2>3 DEF TestRuns, AllPassed
<1>8. ChangesMade'
  <2>1. ChangesToCome' <=> ChangesToCome
      BY <1>1, <1>2, <1>3, SameRunKeeps DEF ChangesToCome
  <2> QED
      BY <1>1, <1>2, <1>3, <1>5, <2>1, ChangesStay DEF IInv
<1>9. Told'
    BY <1>1, <1>2, <1>3, ToldStays DEF IInv, Working
<1> QED
    BY <1>4, <1>6, <1>7, <1>8, <1>9 DEF IInv

LEMMA RefusalIsAReason ==
    ASSUME NEW effect PROVE TestRefusal(effect) \in LosesTests \union {"none"}
    BY DEF TestRefusal, LosesTests

\* One more test run.
LEMMA RunIsAdded ==
    ASSUME ran \in Seq({0, 1, 9}), NEW code \in {0, 1, 9}, ran' = Append(ran, code)
    PROVE  /\ ran' \in Seq({0, 1, 9}) /\ Len(ran') = Len(ran) + 1
           /\ \A i \in DOMAIN ran' : (i \in DOMAIN ran /\ ran'[i] = ran[i]) \/ ran'[i] = code
           /\ \E i \in DOMAIN ran' : ran'[i] = code
    BY AppendIsSeq

LEMMA TestToldGrows ==
    ASSUME known \in Lists, known.tests = ran, NEW code \in {0, 1}
    PROVE  LET k == [known EXCEPT !.tests = Append(@, code)]
           IN  /\ k \in Lists /\ k.tests = Append(ran, code) /\ k.applied = known.applied
               /\ k.approvals = known.approvals /\ k.denied = known.denied
<1>1. known.tests \in Seq({0, 1})
    BY DEF Lists
<1>2. Append(known.tests, code) \in Seq({0, 1})
    BY <1>1, AppendIsSeq
<1> QED
    BY <1>2 DEF Lists

LEMMA TestKeeps == ASSUME IInv, Test PROVE IInv'
<1> DEFINE effect == output.effects[at]
           step == <<"test", at, effect.argv>>
<1>1. /\ pc = "test" /\ at <= Len(output.effects) /\ effect.kind = "test_command"
    BY DEF Test, ComesTo
<1>2. /\ reason = None /\ Phase = pc /\ reason \notin TestReasons /\ reason # "mutation"
      /\ output \in Outputs /\ at \in 1..(Len(Todo) + 1) /\ pc \in Working
    BY <1>1, WorkingFacts DEF Working
<1>3. at \in 1..Len(output.effects) /\ at \in TestEffects /\ Len(output.effects) \in Nat
    BY <1>1, <1>2, OutputIsTyped DEF Todo, TestEffects, EffectsOf
<1>4. /\ known \in Lists /\ known.tests = ran /\ AllPassed /\ Len(ran) = Passed(at)
      /\ ran \in Seq({0, 1, 9}) /\ known.tests \in Seq({0, 1})
    BY <1>1, <1>2 DEF IInv, Held, TestRuns, Lists
<1>5. ASSUME NEW why \in LosesTests, Fail(why) PROVE IInv'
  <2>1. /\ Unwind(known, why) /\ log' = log /\ onDisk' = onDisk /\ ran' = ran /\ SameRun
      BY <1>5 DEF Fail, history, Unwind, SameRun, inputs
  <2>2. Carried'
      BY <1>2, <2>1, CarriedStays DEF IInv
  <2>3. \A i \in DOMAIN ran' : ran'[i] # 1
      BY <1>4, <2>1 DEF AllPassed
  <2>4. why \in TestReasons /\ why # "test command exit"
      BY DEF TestReasons, LosesTests
  <2> QED
      BY <1>1, <1>3, <1>4, <2>1, <2>2, <2>3, <2>4, TestFails
<1>6. ASSUME TestRefusal(effect) = "none", log' = Append(log, step), SameRun PROVE Carried'
  <2>1. step \in Authorized
      BY <1>3, <1>6 DEF Authorized
  <2> QED
      BY <1>2, <1>6, <2>1, CarriedGrows DEF IInv
<1>7. CASE /\ TestRefusal(effect) = "none" /\ log' = Append(log, step) /\ UNCHANGED onDisk
           /\ Unwind(known, "test command timeout") /\ ran' = Append(ran, 9)
  <2>1. SameRun
      BY <1>7 DEF Unwind, SameRun, inputs
  <2>2. Carried'
      BY <1>6, <1>7, <2>1
  <2>3. ran' \in Seq({0, 1, 9}) /\ \A i \in DOMAIN ran' : ran'[i] # 1
    <3>1. /\ ran' \in Seq({0, 1, 9})
          /\ \A i \in DOMAIN ran' : (i \in DOMAIN ran /\ ran'[i] = ran[i]) \/ ran'[i] = 9
        BY <1>4, <1>7, RunIsAdded
    <3> QED
        BY <1>4, <3>1 DEF AllPassed
  <2>4. "test command timeout" \in TestReasons
      BY DEF TestReasons, LosesTests
  <2> QED
      BY <1>1, <1>3, <1>4, <1>7, <2>2, <2>3, <2>4, TestFails
<1>8. ASSUME TestRefusal(effect) = "none", log' = Append(log, step), UNCHANGED onDisk,
             ran' = Append(ran, 1),
             Unwind([known EXCEPT !.tests = Append(@, 1)], "test command exit")
      PROVE  IInv'
  <2> DEFINE k == [known EXCEPT !.tests = Append(@, 1)]
  <2>1. SameRun
      BY <1>8 DEF Unwind, SameRun, inputs
  <2>2. Carried'
      BY <1>6, <1>8, <2>1
  <2>3. ran' \in Seq({0, 1, 9}) /\ \E i \in DOMAIN ran' : ran'[i] = 1
      BY <1>4, <1>8, RunIsAdded
  <2>4. "test command exit" \in TestReasons /\ "test command exit" \notin LosesTests
      BY DEF TestReasons, LosesTests
  <2>5. /\ k \in Lists /\ k.tests = ran' /\ k.applied = known.applied
        /\ k.approvals = known.approvals /\ k.denied = known.denied
      BY <1>4, <1>8, TestToldGrows
  <2> HIDE DEF k
  <2>6. Unwind(k, "test command exit")
      BY <1>8 DEF k
  <2> QED
      BY <1>1, <1>3, <1>8, <2>2, <2>3, <2>4, <2>5, <2>6, TestFails
<1>9. ASSUME TestRefusal(effect) = "none", log' = Append(log, step), UNCHANGED onDisk,
             ran' = Append(ran, 0), Proceed([known EXCEPT !.tests = Append(@, 0)])
      PROVE  IInv'
  <2>1. /\ pc' = pc /\ reason' = reason /\ at' = at + 1 /\ told' = told /\ SameRun
        /\ known' = [known EXCEPT !.tests = Append(@, 0)] /\ onDisk' = onDisk
      BY <1>9 DEF Proceed, SameRun, inputs
  <2>2. Carried'
      BY <1>6, <1>9, <2>1
  <2>3. /\ known' \in Lists /\ known'.tests = ran' /\ known'.applied = known.applied
        /\ known'.approvals = known.approvals /\ known'.denied = known.denied
      BY <1>4, <1>9, <2>1, TestToldGrows
  <2>4. GoesOn /\ at' \in 1..(Len(Todo)' + 1)
    <3>1. Todo' = output.effects
        BY <1>1, <1>2, <2>1, TodoAfter
    <3> QED
        BY <1>2, <1>3, <2>1, <3>1 DEF GoesOn
  <2>5. Place' /\ Phase' = pc'
      BY <2>4, GoingOnPlaces DEF IInv
  <2>6. Held'
      BY <2>1, <2>3, SameRunKeeps DEF Held
  <2>7. /\ ran' \in Seq({0, 1, 9}) /\ AllPassed' /\ Len(ran)' = Len(ran) + 1
      BY <1>4, <1>9, RunIsAdded DEF AllPassed
  <2>8. Len(ran)' = Passed(at)'
    <3>1. Passed(at + 1) = Passed(at) + 1
        BY <1>2, <1>3, PassedCounts
    <3>2. TestEffects' = TestEffects
        BY <2>1, SameRunKeeps
    <3>3. Passed(at)' = Passed(at + 1)
        BY <2>1, <3>2 DEF Passed
    <3> QED
        BY <1>4, <2>7, <3>1, <3>3
  <2>9. TestRuns'
      BY <1>1, <1>2, <2>1, <2>3, <2>5, <2>7, <2>8
         DEF TestRuns, TestReasons, TestsToCome, TestsDone
  <2>10. ChangesMade'
    <3>1. ChangesToCome' <=> ChangesToCome
        BY <1>2, <2>1, <2>5, SameRunKeeps DEF ChangesToCome
    <3> QED
        BY <1>2, <2>1, <2>3, <3>1, ChangesStay DEF IInv
  <2>11. Told'
      BY <1>2, <2>1, <2>5, ToldStays DEF IInv
  <2> QED
      BY <2>2, <2>5, <2>6, <2>9, <2>10, <2>11 DEF IInv
<1>10. CASE TestRefusal(effect) # "none"
  <2>1. TestRefusal(effect) \in LosesTests /\ Fail(TestRefusal(effect))
      BY <1>10, RefusalIsAReason DEF Test
  <2> QED
      BY <1>5, <2>1
<1>11. CASE Fail("test spawn")
    BY <1>5, <1>11 DEF LosesTests
<1> QED
    BY <1>7, <1>8, <1>9, <1>10, <1>11 DEF Test

\* What both outcomes of a mutation phase leave alone: the tests.
LEMMA MutateGoesOn ==
    ASSUME IInv, pc = "mutate", at <= Len(output.changes), pc' = pc, reason' = reason,
           at' = at + 1, told' = told, SameRun, ran' = ran, known'.tests = known.tests
    PROVE  Place' /\ TestRuns' /\ Told' /\ (ChangesToCome' <=> ChangesToCome)
<1>1. /\ reason = None /\ Phase = pc /\ reason \notin TestReasons
      /\ output \in Outputs /\ at \in 1..(Len(Todo) + 1) /\ pc \in Working
    BY WorkingFacts DEF Working
<1>2. GoesOn /\ at' \in 1..(Len(Todo)' + 1)
  <2>1. Todo' = output.changes /\ Len(output.changes) \in Nat
      BY <1>1, TodoAfter, OutputIsTyped
  <2> QED
      BY <1>1, <2>1 DEF GoesOn
<1>3. Place' /\ Phase' = pc'
    BY <1>2, GoingOnPlaces DEF IInv
<1>4. /\ TestsToCome' <=> TestsToCome
      /\ TestsDone' <=> TestsDone
      /\ ChangesToCome' <=> ChangesToCome
    BY <1>1, <1>3, SameRunKeeps DEF TestsToCome, TestsDone, ChangesToCome
<1>5. TestRuns'
    BY <1>1, <1>3, <1>4, TestRunsStay DEF IInv
<1>6. Told'
    BY <1>1, <1>3, ToldStays DEF IInv
<1> QED
    BY <1>3, <1>4, <1>5, <1>6

\* A mutation phase that raises loses what it had made.
LEMMA MutateFails ==
    ASSUME IInv, pc = "mutate", Unwind(known, "mutation"), ran' = ran,
           onDisk' \in Seq(Changes), Carried'
    PROVE  IInv'
<1>1. /\ pc' = "recover" /\ reason' = "mutation" /\ at' = at /\ told' = told /\ SameRun
      /\ known' = [known EXCEPT !.applied = <<>>, !.approvals = <<>>, !.denied = <<>>]
    BY DEF Unwind, HeldOf, SameRun, inputs
<1>2. /\ reason = None /\ Phase = pc /\ known \in Lists /\ pc \in Working
    BY WorkingFacts DEF Working, IInv, Held
<1>3. Fails /\ reason' \notin TestReasons /\ Phase' = "mutate"
    BY <1>1, <1>2 DEF Fails, Reasons, EarlyReasons, TestReasons, InspectReasons, LosesTests, Phase
<1>4. /\ known' \in Lists /\ known'.tests = known.tests
      /\ known'.applied = <<>> /\ known'.approvals = <<>> /\ known'.denied = <<>>
  <2>1. \A S : <<>> \in Seq(S)
      BY EmptyIsSeq
  <2> QED
      BY <1>1, <1>2, <2>1 DEF Lists
<1>5. Place' /\ TestRuns' /\ Told'
    BY <1>1, <1>2, <1>3, <1>4, FailureElsewhere
<1>6. Held'
    BY <1>1, <1>4, SameRunKeeps DEF Held
<1>7. ChangesMade'
    BY <1>1, <1>3, <1>4, SameRunKeeps DEF ChangesMade, ChangesToCome
<1> QED
    BY <1>5, <1>6, <1>7 DEF IInv

LEMMA MutateKeeps == ASSUME IInv, Mutate PROVE IInv'
<1> DEFINE change == output.changes[at]
           step == <<"code_mutation", Len(known.applied) + 1, change>>
<1>1. pc = "mutate" /\ at <= Len(output.changes)
    BY DEF Mutate
<1>2. /\ reason = None /\ Phase = pc /\ reason # "mutation"
      /\ output \in Outputs /\ at \in 1..(Len(Todo) + 1) /\ pc \in Working
    BY <1>1, WorkingFacts DEF Working
<1>3. at \in 1..Len(output.changes) /\ change \in Changes
    BY <1>1, <1>2, OutputIsTyped DEF Todo, Changes, Range
<1>4. /\ known \in Lists /\ known.approvals = known.applied /\ known.applied = onDisk
      /\ onDisk \in Seq(Changes) /\ known.denied \in Seq(Changes) /\ known.applied \in Seq(Changes)
      /\ ~ChangesToCome
    BY <1>1, <1>2 DEF IInv, Held, ChangesMade, Lists, ChangesToCome
<1>5. CASE change.path \notin approved
  <2>1. Deny(change) /\ UNCHANGED history
      BY <1>5 DEF Mutate
  <2>2. /\ pc' = pc /\ reason' = reason /\ at' = at + 1 /\ told' = told /\ SameRun
        /\ known' = [known EXCEPT !.denied = Append(@, change)]
        /\ log' = log /\ onDisk' = onDisk /\ ran' = ran
      BY <2>1 DEF Deny, Proceed, SameRun, inputs, history
  <2>3. Append(known.denied, change) \in Seq(Changes)
      BY <1>3, <1>4, AppendIsSeq
  <2>4. /\ known' \in Lists /\ known'.tests = known.tests
        /\ known'.applied = known.applied /\ known'.approvals = known.approvals
      BY <1>4, <2>2, <2>3 DEF Lists
  <2>5. Place' /\ TestRuns' /\ Told' /\ (ChangesToCome' <=> ChangesToCome)
      BY <1>1, <2>2, <2>4, MutateGoesOn
  <2>6. Held'
      BY <2>2, <2>4, SameRunKeeps DEF Held
  <2>7. Carried'
      BY <1>2, <2>2, CarriedStays DEF IInv
  <2>8. ChangesMade'
      BY <1>2, <1>4, <2>2, <2>4, <2>5, SameRunKeeps DEF ChangesMade
  <2> QED
      BY <2>5, <2>6, <2>7, <2>8 DEF IInv
<1>6. CASE Fail("mutation")
  <2>1. /\ Unwind(known, "mutation") /\ log' = log /\ onDisk' = onDisk /\ ran' = ran /\ SameRun
      BY <1>6 DEF Fail, history, Unwind, SameRun, inputs
  <2>2. Carried'
      BY <1>2, <2>1, CarriedStays DEF IInv
  <2> QED
      BY <1>1, <1>4, <2>1, <2>2, MutateFails
<1>7. ASSUME change.path \in approved, change.path \in workspace.scope, Changed(change),
             Unwind(known, "mutation")
             \/ Proceed([known EXCEPT !.applied = Append(@, change),
                                      !.approvals = Append(@, change)])
      PROVE  IInv'
  <2>1. /\ log' = Append(log, step) /\ onDisk' = Append(onDisk, change) /\ ran' = ran
        /\ SameRun
      BY <1>7 DEF Changed, Unwind, Proceed, SameRun, inputs
  <2>2. onDisk' \in Seq(Changes)
      BY <1>3, <1>4, <2>1, AppendIsSeq
  <2>3. step \in Authorized
    <3>1. Len(known.applied) + 1 \in Nat
        BY <1>4
    <3> QED
        BY <1>3, <1>7, <3>1 DEF Authorized
  <2>4. Carried'
      BY <1>2, <2>1, <2>3, CarriedGrows DEF IInv
  <2>5. CASE Unwind(known, "mutation")
      BY <1>1, <2>1, <2>2, <2>4, <2>5, MutateFails
  <2>6. CASE Proceed([known EXCEPT !.applied = Append(@, change),
                                   !.approvals = Append(@, change)])
    <3>1. /\ pc' = pc /\ reason' = reason /\ at' = at + 1 /\ told' = told
          /\ known' = [known EXCEPT !.applied = Append(@, change),
                                    !.approvals = Append(@, change)]
        BY <2>6 DEF Proceed
    <3>2. Append(known.applied, change) \in Seq(Changes)
        BY <1>3, <1>4, AppendIsSeq
    <3>3. /\ known' \in Lists /\ known'.tests = known.tests /\ known'.denied = known.denied
          /\ known'.applied = onDisk' /\ known'.approvals = onDisk'
        BY <1>4, <2>1, <3>1, <3>2 DEF Lists
    <3>4. Place' /\ TestRuns' /\ Told' /\ (ChangesToCome' <=> ChangesToCome)
        BY <1>1, <2>1, <3>1, <3>3, MutateGoesOn
    <3>5. Held'
        BY <2>1, <3>3, SameRunKeeps DEF Held
    <3>6. ChangesMade'
        BY <1>2, <1>4, <2>1, <2>2, <3>1, <3>3, <3>4, SameRunKeeps DEF ChangesMade
    <3> QED
        BY <2>4, <3>4, <3>5, <3>6 DEF IInv
  <2> QED
      BY <1>7, <2>5, <2>6
<1> QED
    BY <1>5, <1>6, <1>7 DEF Mutate
-------------------------------------------------------------------------------
(* The end.                                                                    *)

LEMMA TerminalIs ==
    ASSUME NEW ok \in SUBSET Stores
    PROVE  Terminal(EndStatus, reason, ok) =
             [workflow |-> IF "workflow" \in ok THEN EndWorkflow(ok) ELSE told.workflow,
              audit |-> IF IsDevOutput /\ "audit" \in EndCites(ok) THEN EndAudit ELSE Absent,
              fix |-> IF IsDevOutput /\ "fix" \in EndCites(ok)
                      THEN [proposals |-> EndProposals(ok)] ELSE Absent,
              trace |-> IF IsDevOutput /\ "trace" \in EndCites(ok) THEN EndTrace(ok) ELSE Absent]
<1> DEFINE findings == AuditFindings(output, known, reason)
           audit == [status |-> AuditStatus(findings, EndStatus), findings |-> findings]
           proposals == IF "audit" \in ok THEN Proposals(findings) ELSE {}
           cites == (ok \intersect {"audit", "trace"})
                      \union (IF proposals = {} THEN {} ELSE ok \intersect {"fix"})
           results == Audited(NodeResults(output, known, reason), audit, proposals)
           Made(name, content) == IF name \in cites THEN content ELSE Absent
           trace == Trace(EndStatus, results, known, "audit" \in cites, "fix" \in cites)
           workflow == IF output.mode = "dev"
                       THEN Workflow(EndStatus, DevDag, results, known, cites)
                       ELSE Workflow(EndStatus, DefaultDag(output, known), None, known, {})
<1>1. EndAudit = audit /\ EndProposals(ok) = proposals
    BY DEF EndAudit, EndFindings, EndProposals
<1>2. EndCites(ok) = cites
    BY <1>1 DEF EndCites
<1>3. EndResults(ok) = results
    BY <1>1 DEF EndResults
<1>4. EndTrace(ok) = trace /\ EndWorkflow(ok) = workflow
    BY <1>2, <1>3 DEF EndTrace, EndWorkflow, IsDevOutput
<1>5. Terminal(EndStatus, reason, ok) =
        [workflow |-> IF "workflow" \in ok THEN workflow ELSE told.workflow,
         audit |-> IF output.mode = "dev" THEN Made("audit", audit) ELSE Absent,
         fix |-> IF output.mode = "dev" THEN Made("fix", [proposals |-> proposals]) ELSE Absent,
         trace |-> IF output.mode # "dev" THEN Absent ELSE Made("trace", trace)]
    BY DEF Terminal
<1> HIDE DEF audit, proposals, cites, results, trace, workflow
<1>6. /\ (IF output.mode = "dev" THEN Made("audit", audit) ELSE Absent)
           = IF IsDevOutput /\ "audit" \in cites THEN audit ELSE Absent
      /\ (IF output.mode = "dev" THEN Made("fix", [proposals |-> proposals]) ELSE Absent)
           = IF IsDevOutput /\ "fix" \in cites THEN [proposals |-> proposals] ELSE Absent
      /\ (IF output.mode # "dev" THEN Absent ELSE Made("trace", trace))
           = IF IsDevOutput /\ "trace" \in cites THEN trace ELSE Absent
    BY DEF IsDevOutput
<1> QED
    BY <1>1, <1>2, <1>4, <1>5, <1>6

\* The records are a matter of the output, the lists and the reason.
LEMMA EndIsFixed ==
    ASSUME SameRun, known' = known, reason' = reason, NEW ok
    PROVE  /\ EndWorkflow(ok)' = EndWorkflow(ok) /\ EndAudit' = EndAudit
           /\ EndProposals(ok)' = EndProposals(ok) /\ EndCites(ok)' = EndCites(ok)
           /\ EndTrace(ok)' = EndTrace(ok)
<1>1. output' = output
    BY DEF SameRun
<1> QED
    BY <1>1 DEF EndWorkflow, EndAudit, EndProposals, EndCites, EndTrace, EndResults, EndStatus,
                EndFindings, IsDevOutput, FinalStatus

LEMMA TerminalEnds ==
    ASSUME NEW ok \in SUBSET Stores, SameRun, known' = known, reason' = reason,
           NotTerminal(told.workflow), told' = Terminal(EndStatus, reason, ok)
    PROVE  /\ EndTold(ok)'
           /\ told' = [workflow |-> told'.workflow, audit |-> told'.audit,
                       fix |-> told'.fix, trace |-> told'.trace]
<1>1. told' = [workflow |-> IF "workflow" \in ok THEN EndWorkflow(ok) ELSE told.workflow,
               audit |-> IF IsDevOutput /\ "audit" \in EndCites(ok) THEN EndAudit ELSE Absent,
               fix |-> IF IsDevOutput /\ "fix" \in EndCites(ok)
                       THEN [proposals |-> EndProposals(ok)] ELSE Absent,
               trace |-> IF IsDevOutput /\ "trace" \in EndCites(ok) THEN EndTrace(ok) ELSE Absent]
    BY TerminalIs
<1>2. /\ EndWorkflow(ok)' = EndWorkflow(ok) /\ EndAudit' = EndAudit
      /\ EndProposals(ok)' = EndProposals(ok) /\ EndCites(ok)' = EndCites(ok)
      /\ EndTrace(ok)' = EndTrace(ok) /\ (IsDevOutput' <=> IsDevOutput)
    BY EndIsFixed, SameRunKeeps
<1>3. "workflow" \notin ok => NotTerminal(told.workflow)'
    BY <1>1, <1>2 DEF NotTerminal, Absent
<1>4. EndTold(ok)'
    BY <1>1, <1>2, <1>3 DEF EndTold, Absent
<1> QED
    BY <1>1, <1>4

LEMMA FinalizeKeeps == ASSUME IInv, Finalize PROVE IInv'
<1>1. pc = "finalize"
    BY DEF Finalize
<1>2. /\ reason = None /\ Phase = pc /\ reason \notin TestReasons /\ reason # "mutation"
      /\ output \in Outputs /\ at \in 1..(Len(Todo) + 1) /\ pc \in Working
    BY <1>1, WorkingFacts DEF Working
<1>3. CASE Fail("write")
  <2>1. /\ pc' = "recover" /\ reason' = "write" /\ known' = known /\ at' = at /\ told' = told
        /\ SameRun /\ log' = log /\ onDisk' = onDisk /\ ran' = ran
      BY <1>1, <1>3 DEF Fail, Unwind, HeldOf, SameRun, inputs, history
  <2>2. Fails /\ reason' \notin TestReasons /\ Phase' = "finalize" /\ reason' # "mutation"
      BY <1>2, <2>1 DEF Fails, Reasons, EarlyReasons, TestReasons, InspectReasons, LosesTests, Phase
  <2>3. Place' /\ TestRuns' /\ Told' /\ (ChangesToCome' <=> ChangesToCome)
      BY <1>1, <1>2, <2>1, <2>2, FailureElsewhere
  <2>4. Held' /\ Carried'
      BY <1>2, <2>1, HeldStays, CarriedStays DEF IInv
  <2>5. ChangesMade'
      BY <1>2, <2>1, <2>2, <2>3, ChangesStay DEF IInv
  <2> QED
      BY <2>3, <2>4, <2>5 DEF IInv
<1>4. CASE told' = Terminal(FinalStatus, None, Stores) /\ ~Fail("write")
  <2>1. /\ pc' = "returned" /\ reason' = reason /\ known' = known /\ at' = at
        /\ SameRun /\ log' = log /\ onDisk' = onDisk /\ ran' = ran
      BY <1>4 DEF Finalize, SameRun, inputs, history
  <2>2. Phase' = "finalize"
      BY <1>2, <2>1, NoneAssumption
         DEF Phase, Reasons, TestReasons, LosesTests, EarlyReasons, InspectReasons
  <2>3. Place'
    <3>1. Todo = <<>> /\ Todo' = <<>>
        BY <1>1, <2>1 DEF Todo
    <3>2. at' \in 1..(Len(Todo)' + 1) /\ at' \in Nat \ {0}
        BY <1>2, <2>1, <3>1
    <3>3. output' = output /\ route' = route /\ request' = request
        BY <2>1 DEF SameRun
    <3>4. /\ Selects(route)' /\ AcceptsOutput(output)' /\ request' \in Requests \union {None}
          /\ reason \notin EarlyReasons
        BY <1>1, <1>2, <3>3, NoneAssumption
           DEF Selects, IsLocalEndpoint, AcceptsOutput, IInv, Place, Reasons, EarlyReasons
    <3> QED
        BY <1>2, <2>1, <2>2, <3>2, <3>3, <3>4 DEF Place, Phases
  <2>4. Held' /\ Carried'
      BY <1>2, <2>1, HeldStays, CarriedStays DEF IInv
  <2>5. /\ TestsToCome' <=> TestsToCome
        /\ TestsDone' <=> TestsDone
        /\ ChangesToCome' <=> ChangesToCome
      BY <1>1, <1>2, <2>1, <2>2, SameRunKeeps DEF TestsToCome, TestsDone, ChangesToCome
  <2>6. TestRuns'
      BY <1>1, <1>2, <2>1, <2>2, <2>5, TestRunsStay DEF IInv
  <2>7. ChangesMade'
      BY <1>2, <2>1, <2>5, ChangesStay DEF IInv
  <2>8. Told'
    <3>1. NotTerminal(told.workflow)
        BY <1>1 DEF IInv, Told
    <3>2. told' = Terminal(EndStatus, reason, Stores)
        BY <1>2, <1>4 DEF EndStatus
    <3>3. /\ EndTold(Stores)'
          /\ told' = [workflow |-> told'.workflow, audit |-> told'.audit,
                      fix |-> told'.fix, trace |-> told'.trace]
        BY <2>1, <3>1, <3>2, TerminalEnds
    <3> QED
        BY <2>1, <2>2, <3>3 DEF Told
  <2> QED
      BY <2>3, <2>4, <2>6, <2>7, <2>8 DEF IInv
<1> QED
    BY <1>3, <1>4 DEF Finalize

LEMMA RecoverKeeps == ASSUME IInv, Recover PROVE IInv'
<1>1. /\ pc = "recover" /\ pc' = "raised" /\ reason' = reason /\ known' = known /\ at' = at
      /\ SameRun /\ log' = log /\ onDisk' = onDisk /\ ran' = ran
    BY DEF Recover, SameRun, inputs, history
<1>2. /\ reason # None /\ reason \in Reasons \ EarlyReasons /\ at \in Nat \ {0}
      /\ output \in Outputs /\ Selects(route) /\ AcceptsOutput(output)
      /\ request \in Requests \union {None}
    BY <1>1, NoneAssumption DEF IInv, Place, EarlyReasons
<1>3. Phase \in Working /\ Phase' = Phase
    BY <1>1, <1>2 DEF Phase, Working, Reasons, TestReasons, LosesTests, EarlyReasons, InspectReasons
<1>4. Place'
  <2>1. output' = output /\ route' = route /\ request' = request
      BY <1>1 DEF SameRun
  <2>2. Selects(route)' /\ AcceptsOutput(output)'
      BY <1>2, <2>1 DEF Selects, IsLocalEndpoint, AcceptsOutput
  <2> QED
      BY <1>1, <1>2, <1>3, <2>1, <2>2 DEF Place, Phases, Working
<1>5. Held' /\ Carried'
    BY <1>1, <1>3, HeldStays, CarriedStays DEF IInv
<1>6. /\ TestsToCome' <=> TestsToCome
      /\ TestsDone' <=> TestsDone
      /\ ChangesToCome' <=> ChangesToCome
    BY <1>1, <1>3, SameRunKeeps DEF TestsToCome, TestsDone, ChangesToCome
<1>7. TestRuns'
    BY <1>1, <1>2, <1>3, <1>6, SameRunKeeps DEF IInv, TestRuns, AllPassed
<1>8. ChangesMade'
    BY <1>1, <1>2, <1>3, <1>6, SameRunKeeps DEF IInv, ChangesMade
<1>9. Told'
  <2>1. NotTerminal(told.workflow)
      BY <1>1 DEF IInv, Told
  <2>2. PICK ok \in SUBSET Stores : told' = Terminal("failed", reason, ok)
      BY DEF Recover
  <2>3. EndStatus = "failed"
      BY <1>2 DEF EndStatus
  <2>4. /\ EndTold(ok)'
        /\ told' = [workflow |-> told'.workflow, audit |-> told'.audit,
                    fix |-> told'.fix, trace |-> told'.trace]
      BY <1>1, <2>1, <2>2, <2>3, TerminalEnds
  <2> QED
      BY <1>1, <1>3, <2>4 DEF Told, Working
<1> QED
    BY <1>4, <1>5, <1>7, <1>8, <1>9 DEF IInv

LEMMA StutterKeeps == ASSUME IInv, UNCHANGED vars PROVE IInv'
<1>1. /\ pc' = pc /\ reason' = reason /\ known' = known /\ at' = at /\ told' = told
      /\ SameRun /\ log' = log /\ onDisk' = onDisk /\ ran' = ran
    BY DEF vars, SameRun, inputs, history
<1>2. Phase' = Phase
    BY <1>1 DEF Phase
<1>3. Place'
  <2>1. output' = output /\ route' = route /\ request' = request
      BY <1>1 DEF SameRun
  <2>2. Selects(route)' = Selects(route) /\ AcceptsOutput(output)' = AcceptsOutput(output)
      BY <2>1 DEF Selects, IsLocalEndpoint, AcceptsOutput
  <2>3. Todo' = Todo
      BY <1>1, <2>1 DEF Todo
  <2> QED
      BY <1>1, <1>2, <2>1, <2>2, <2>3 DEF IInv, Place
<1>4. /\ TestsToCome' <=> TestsToCome
      /\ TestsDone' <=> TestsDone
      /\ ChangesToCome' <=> ChangesToCome
    BY <1>1, <1>2, SameRunKeeps DEF TestsToCome, TestsDone, ChangesToCome
<1>5. Held' /\ Carried'
    BY <1>1, <1>2, SameRunKeeps DEF IInv, Held, Carried
<1>6. TestRuns' /\ ChangesMade'
    BY <1>1, <1>2, <1>4, SameRunKeeps DEF IInv, TestRuns, AllPassed, ChangesMade
<1>7. \A ok : EndTold(ok)' <=> EndTold(ok)
  <2>1. NotTerminal(told.workflow)' <=> NotTerminal(told.workflow)
      BY <1>1, SameRunKeeps DEF NotTerminal, Absent
  <2> QED
      BY <1>1, <2>1, EndIsFixed, SameRunKeeps DEF EndTold, Absent
<1>8. Told'
  <2>1. NothingTold' <=> NothingTold
      BY <1>1 DEF NothingTold, Absent
  <2>2. NotTerminal(told.workflow)' <=> NotTerminal(told.workflow)
      BY <1>1, SameRunKeeps DEF NotTerminal, Absent
  <2>3. Told
      BY DEF IInv
  <2> QED
      BY <1>1, <1>2, <1>7, <2>1, <2>2, <2>3 DEF Told, Absent
<1> QED
    BY <1>3, <1>5, <1>6, <1>8 DEF IInv

LEMMA AlwaysIInv == Spec => []IInv
<1>1. IInv /\ [Next]_vars => IInv'
    BY AgentKeeps, GateKeeps, EndPhaseKeeps, SkipKeeps, InspectKeeps, TestKeeps, MutateKeeps,
       FinalizeKeeps, RecoverKeeps, StutterKeeps
       DEF Next
<1> QED
    BY InitIInv, <1>1, PTL DEF Spec
-------------------------------------------------------------------------------
(* What follows from it.                                                       *)

\* A terminal workflow is there at the end only, with the records of that end.
LEMMA TerminalIsTheEnd ==
    ASSUME IInv, IsTerminal
    PROVE  /\ pc \in {"returned", "raised"} /\ reason \notin EarlyReasons
           /\ pc = "returned" <=> reason = None
           /\ output \in Outputs
           /\ \E ok \in SUBSET Stores : EndTold(ok) /\ told.workflow = EndWorkflow(ok)
<1>1. told.workflow # Absent /\ ~NotTerminal(told.workflow)
    BY DEF IsTerminal, NotTerminal
<1>2. Phase \notin {"agent", "gate"}
    BY <1>1 DEF IInv, Told
<1>3. reason \notin EarlyReasons /\ pc \notin {"agent", "gate"}
  <2>1. reason \in EarlyReasons => Phase = "gate"
      BY PhaseIs DEF IInv
  <2>2. pc \in {"agent", "gate"} => Phase = pc
      BY PhaseIs DEF IInv, Place
  <2> QED
      BY <1>2, <2>1, <2>2
<1>4. pc \in {"returned", "raised"} /\ (pc = "returned" <=> reason = None) /\ output \in Outputs
  <2>1. pc \notin {"inspect", "mutate", "test", "finalize", "recover"}
      BY <1>1 DEF IInv, Told
  <2> QED
      BY <1>3, <2>1 DEF IInv, Place, Phases
<1>5. \E ok \in SUBSET Stores : EndTold(ok)
    BY <1>3, <1>4 DEF IInv, Told
<1> QED
    BY <1>1, <1>3, <1>4, <1>5 DEF EndTold

\* The parts of a terminal workflow.
LEMMA EndWorkflowIs ==
    ASSUME NEW ok
    PROVE  /\ EndWorkflow(ok).status = EndStatus
           /\ EndWorkflow(ok).applied = known.applied
           /\ EndWorkflow(ok).tests = known.tests
           /\ EndWorkflow(ok).dag = IF IsDevOutput THEN DevDag ELSE DefaultDag(output, known)
           /\ IsDevOutput => /\ EndWorkflow(ok).cites = EndCites(ok)
                             /\ EndWorkflow(ok).results = EndResults(ok)
<1>1. \A dag, results, cites :
        LET w == Workflow(EndStatus, dag, results, known, cites)
        IN  /\ w.status = EndStatus /\ w.applied = known.applied /\ w.tests = known.tests
            /\ w.dag = dag /\ w.results = results /\ w.cites = cites
    BY DEF Workflow
<1> QED
    BY <1>1 DEF EndWorkflow

\* What there is on disk at any time.
LEMMA ToldIs ==
    ASSUME IInv
    PROVE  \/ NothingTold /\ NotTerminal(told.workflow)
           \/ \E ok \in SUBSET Stores : EndTold(ok)
<1>1. CASE Phase \in {"agent", "gate"}
    BY <1>1 DEF IInv, Told, NotTerminal
<1>2. CASE Phase \notin {"agent", "gate"}
  <2>1. reason \notin EarlyReasons /\ pc \notin {"agent", "gate"}
      BY <1>2, PhaseIs DEF IInv, Place
  <2>2. pc \in {"inspect", "mutate", "test", "finalize", "recover"} \union {"returned", "raised"}
      BY <2>1 DEF IInv, Place, Phases
  <2> QED
      BY <2>1, <2>2 DEF IInv, Told, Stores
<1> QED
    BY <1>1, <1>2

LEMMA EndResultsAre ==
    ASSUME NEW ok
    PROVE  /\ EndResults(ok).code = CodeStatus(output, known)
           /\ EndResults(ok).test = TestStatus(output, known, reason)
           /\ EndResults(ok).audit = AuditStatus(EndFindings, EndStatus)
           /\ EndResults(ok).fix = IF EndProposals(ok) # {} THEN "proposal_only" ELSE "skipped"
    BY DEF EndResults, Audited, NodeResults, EndAudit

\* Every state of a run is one of the states named, and the records hold the
\* statuses the schemas know: what _require_status of workflow.py asks for.
THEOREM Typing == Spec => []TypeOK
<1>1. IInv => TypeOK
  <2> SUFFICES ASSUME IInv PROVE TypeOK
      OBVIOUS
  <2>1. /\ pc \in {"agent", "gate", "inspect", "mutate", "test", "finalize", "recover"}
                   \union {"returned", "raised"}
        /\ at \in 1..(Len(Todo) + 1) \/ pc \in {"recover", "raised"}
        /\ pc \notin {"agent", "raised"} => output \in Outputs /\ Selects(route)
        /\ reason \in Reasons \union {None}
        /\ (reason # None) = (pc \in {"recover", "raised"})
      BY DEF IInv, Place, Phases
  <2>2. \A i \in DOMAIN log : log[i][1] \in Steps
    <3>1. CASE Phase \in {"agent", "gate"}
        BY <3>1 DEF IInv, Place
    <3>2. CASE Phase \notin {"agent", "gate"}
      <4>1. \A i \in DOMAIN log : log[i] \in Authorized
          BY <3>2 DEF IInv, Carried
      <4>2. \A step \in Authorized : step[1] \in Steps
          BY DEF Authorized, Steps
      <4> QED
          BY <4>1, <4>2
    <3> QED
        BY <3>1, <3>2
  <2>3. told.audit # Absent => told.audit.status \in AuditStatuses
    <3>1. told.audit = Absent \/ told.audit = EndAudit
        BY ToldIs DEF NothingTold, EndTold
    <3>2. EndAudit.status \in AuditStatuses
        BY DEF EndAudit, AuditStatus, AuditStatuses
    <3> QED
        BY <3>1, <3>2
  <2>4. ASSUME told.workflow # Absent, output.mode = "dev"
        PROVE  /\ told.workflow.results.code \in CodeStatuses
               /\ told.workflow.results.test \in TestStatuses
    <3>1. CASE IsTerminal
      <4>1. PICK ok : told.workflow = EndWorkflow(ok)
          BY <3>1, TerminalIsTheEnd
      <4>2. told.workflow.results = EndResults(ok)
          BY <2>4, <4>1, EndWorkflowIs DEF IsDevOutput
      <4> QED
          BY <4>2, EndResultsAre DEF CodeStatus, TestStatus, CodeStatuses, TestStatuses
    <3>2. CASE ~IsTerminal
      <4>1. told.workflow.status = "planned"
          BY <2>4, <3>2 DEF IsTerminal
      <4>2. ASSUME NEW ok, EndTold(ok) PROVE NotTerminal(told.workflow)
        <5>1. EndWorkflow(ok).status # "planned"
            BY EndWorkflowIs DEF EndStatus, FinalStatus
        <5> QED
            BY <4>1, <4>2, <5>1 DEF EndTold
      <4> QED
          BY <2>4, <4>2, ToldIs DEF NotTerminal, IsDevOutput
    <3> QED
        BY <3>1, <3>2
  <2> QED
      BY <2>1, <2>2, <2>3, <2>4 DEF TypeOK
<1> QED
    BY AlwaysIInv, <1>1, PTL

\* The workspace is a record all along.
OfARecord == workspace \in Records

LEMMA WorkspaceIsKept == Spec => []OfARecord
<1>1. Init => OfARecord
    BY DEF Init, OfARecord
<1>2. OfARecord /\ [Next]_vars => OfARecord'
  <2> SUFFICES ASSUME OfARecord, [Next]_vars PROVE workspace' = workspace
      BY DEF OfARecord
  <2> USE DEF inputs
  <2>1. CASE RunAgent \/ GateOutput \/ EndPhase \/ Skip \/ Finalize \/ Recover \/ UNCHANGED vars
      BY <2>1 DEF RunAgent, GateOutput, EndPhase, Skip, Proceed, Finalize, Recover, vars, Fail,
                  Unwind
  <2>2. CASE Inspect \/ Mutate
      BY <2>2 DEF Inspect, Mutate, Deny, Proceed, Fail, Unwind
  <2>3. CASE Test
      BY <2>3 DEF Test, Proceed, Fail, Unwind
  <2> QED
      BY <2>1, <2>2, <2>3 DEF Next
<1> QED
    BY <1>1, <1>2, PTL DEF Spec

\* A list begins with a list that is not longer.
LEMMA PrefixIsInside ==
    ASSUME NEW prefixes, \A prefix \in prefixes : IsList(prefix),
           NEW argv, IsList(argv), MatchesPrefix(argv, prefixes)
    PROVE  \E n \in 1..Len(argv) : SubSeq(argv, 1, n) \in prefixes
<1>1. PICK prefix \in prefixes :
        prefix # <<>> /\ Len(argv) >= Len(prefix) /\ SubSeq(argv, 1, Len(prefix)) = prefix
    BY DEF MatchesPrefix
<1>2. Len(prefix) \in Nat /\ Len(argv) \in Nat /\ (Len(prefix) = 0 => prefix = <<>>)
    BY DEF IsList
<1>3. Len(prefix) \in 1..Len(argv)
    BY <1>1, <1>2
<1> QED
    BY <1>1, <1>3

\* What was carried out is what the gates let pass, the output gate once and the
\* gate of each effect or the list of approvals: PolicyEngine.gate_agent_output
\* and gate_effect, and execute_approved_mutations.
THEOREM AuthorizedSteps == Spec => []NothingUnauthorized
<1>1. IInv /\ OfARecord => NothingUnauthorized
  <2> SUFFICES ASSUME IInv, OfARecord, NEW i \in DOMAIN log
               PROVE  LET kind == log[i][1]
                          what == log[i][3]
                      IN  /\ ~route.network /\ output.policy = "serial"
                          /\ \A e \in Range(output.effects) :
                               e.kind \in {"inspect_file", "test_command"}
                          /\ \A c \in Range(output.changes) : c.operation \in {"create", "modify"}
                          /\ kind = "inspect" =>
                               /\ \E e \in Range(output.effects) :
                                    e.kind = "inspect_file" /\ e.path = what
                               /\ workspace.inspect /\ what \in workspace.scope
                          /\ kind = "test" =>
                               /\ workspace.test
                               /\ \E e \in Range(output.effects) :
                                    /\ e.kind = "test_command" /\ e.argv = what
                                    /\ e.writable \subseteq workspace.writable
                               /\ \/ what \in workspace.argvs
                                  \/ \E n \in 1..Len(what) :
                                       SubSeq(what, 1, n) \in workspace.prefixes
                          /\ kind = "code_mutation" =>
                               /\ what \in Range(output.changes)
                               /\ what.path \in approved \intersect workspace.scope
      BY DEF NothingUnauthorized
  <2>1. log # <<>> /\ Phase \notin {"agent", "gate"}
      BY DEF IInv, Place
  <2>2. output \in Outputs /\ Selects(route) /\ AcceptsOutput(output)
    <3>1. reason \notin EarlyReasons /\ pc \notin {"agent", "gate"}
        BY <2>1, PhaseIs DEF IInv, Place
    <3> QED
        BY <3>1 DEF IInv, Place
  <2>3. log[i] \in Authorized
      BY <2>1 DEF IInv, Carried
  <2>4. /\ ~route.network /\ output.policy = "serial"
        /\ \A e \in Range(output.effects) : e.kind \in {"inspect_file", "test_command"}
        /\ \A c \in Range(output.changes) : c.operation \in {"create", "modify"}
      BY <2>2 DEF Selects, AcceptsOutput, Range
  <2>5. CASE \E n \in EffectsOf(output, "inspect_file") :
               /\ log[i] = <<"inspect", n, output.effects[n].path>>
               /\ MayInspect(output.effects[n].path)
    <3>1. PICK n \in EffectsOf(output, "inspect_file") :
            /\ log[i] = <<"inspect", n, output.effects[n].path>>
            /\ MayInspect(output.effects[n].path)
        BY <2>5
    <3>2. /\ log[i][1] = "inspect" /\ log[i][3] = output.effects[n].path
          /\ workspace.inspect /\ output.effects[n].path \in workspace.scope
          /\ output.effects[n] \in Range(output.effects) /\ output.effects[n].kind = "inspect_file"
        BY <3>1 DEF MayInspect, EffectsOf, Range
    <3> QED
        BY <2>4, <3>2
  <2>6. CASE \E n \in TestEffects :
               /\ log[i] = <<"test", n, output.effects[n].argv>>
               /\ TestRefusal(output.effects[n]) = "none"
    <3>1. PICK n \in TestEffects :
            /\ log[i] = <<"test", n, output.effects[n].argv>>
            /\ TestRefusal(output.effects[n]) = "none"
        BY <2>6
    <3> DEFINE effect == output.effects[n]
    <3>2. /\ workspace.test /\ effect.writable \subseteq workspace.writable
          /\ effect.argv \in workspace.argvs \/ MatchesPrefix(effect.argv, workspace.prefixes)
        BY <3>1 DEF TestRefusal
    <3>3. /\ effect \in Range(output.effects) /\ effect.kind = "test_command"
          /\ IsList(effect.argv)
      <4>1. n \in DOMAIN output.effects /\ effect.kind = "test_command"
          BY DEF TestEffects, EffectsOf
      <4> QED
          BY <2>2, <4>1, OutputIsTyped DEF Range
    <3>4. MatchesPrefix(effect.argv, workspace.prefixes) =>
            \E k \in 1..Len(effect.argv) : SubSeq(effect.argv, 1, k) \in workspace.prefixes
        BY <3>3, RecordAssumption, PrefixIsInside DEF OfARecord
    <3>5. log[i][1] = "test" /\ log[i][3] = effect.argv
        BY <3>1
    <3> HIDE DEF effect
    <3> QED
        BY <2>4, <3>2, <3>3, <3>4, <3>5
  <2>7. CASE \E n \in Nat, c \in Changes :
               /\ log[i] = <<"code_mutation", n, c>>
               /\ c.path \in approved \intersect workspace.scope
    <3>1. PICK n \in Nat, c \in Changes :
            /\ log[i] = <<"code_mutation", n, c>>
            /\ c.path \in approved \intersect workspace.scope
        BY <2>7
    <3>2. log[i][1] = "code_mutation" /\ log[i][3] = c /\ c \in Range(output.changes)
        BY <3>1 DEF Changes
    <3> QED
        BY <2>4, <3>1, <3>2
  <2> QED
      BY <2>3, <2>5, <2>6, <2>7 DEF Authorized
<1> QED
    BY AlwaysIInv, WorkspaceIsKept, <1>1, PTL

\* A command without words was refused with the output, long before its turn.
NoEmptyCommand == reason # "test argv list"

LEMMA NoCommandIsEmpty == Spec => [](IInv /\ NoEmptyCommand)
<1>1. Init => NoEmptyCommand
    BY NoneAssumption DEF Init, NoEmptyCommand, Reasons, LosesTests
<1>2. IInv /\ NoEmptyCommand /\ [Next]_vars => NoEmptyCommand'
  <2> SUFFICES ASSUME IInv, NoEmptyCommand, [Next]_vars PROVE reason' # "test argv list"
      BY DEF NoEmptyCommand
  <2>1. CASE RunAgent \/ GateOutput \/ EndPhase \/ Skip \/ Finalize \/ Recover \/ UNCHANGED vars
    <3>1. CASE GateOutput
      <4>1. reason' \in {None, "output", "acceptance", "planned workflow"}
          BY <3>1 DEF GateOutput, Fail, Unwind
      <4> QED
          BY <4>1, NoneAssumption DEF Reasons, LosesTests
    <3>2. CASE ~GateOutput
        BY <2>1, <3>2 DEF RunAgent, EndPhase, Skip, Proceed, Finalize, Recover, vars, Fail,
                          Unwind, NoEmptyCommand
    <3> QED
        BY <3>1, <3>2
  <2>2. CASE Inspect \/ Mutate
      BY <2>2 DEF Inspect, Mutate, Deny, Proceed, Fail, Unwind, NoEmptyCommand
  <2>3. CASE Test
    <3> DEFINE effect == output.effects[at]
    <3>1. pc = "test" /\ at <= Len(output.effects) /\ effect.kind = "test_command"
        BY <2>3 DEF Test, ComesTo
    <3>2. output \in Outputs /\ at \in 1..(Len(Todo) + 1) /\ AcceptsOutput(output)
        BY <3>1, WorkingFacts DEF Working, IInv, Place, EarlyReasons
    <3>3. at \in DOMAIN output.effects
        BY <3>1, <3>2, OutputIsTyped DEF Todo
    <3>4. effect.argv # <<>>
        BY <3>1, <3>2, <3>3 DEF AcceptsOutput
    <3>5. TestRefusal(effect) # "test argv list"
        BY <3>4 DEF TestRefusal
    <3>6. \/ reason' = reason
          \/ reason' \in {TestRefusal(effect), "test spawn", "test command timeout",
                          "test command exit"}
        BY <2>3 DEF Test, Fail, Unwind, Proceed
    <3> QED
        BY <3>5, <3>6 DEF NoEmptyCommand
  <2> QED
      BY <2>1, <2>2, <2>3 DEF Next
<1> QED
    BY AlwaysIInv, <1>1, <1>2, PTL DEF Spec

\* How a run that has a terminal workflow came to its end.
LEMMA WaysToEnd ==
    ASSUME IInv, IsTerminal
    PROVE  \/ reason = None /\ Phase = "finalize"
           \/ reason \in InspectReasons /\ Phase = "inspect"
           \/ reason \in LosesTests /\ Phase = "test"
           \/ reason = "test command exit" /\ Phase = "test"
           \/ reason = "mutation" /\ Phase = "mutate"
           \/ reason = "write" /\ Phase = "finalize"
<1>1. /\ reason \in Reasons \union {None} /\ reason \notin EarlyReasons
      /\ pc = "returned" <=> reason = None
    BY TerminalIsTheEnd DEF IInv, Place
<1> QED
    BY <1>1, PhaseIs
       DEF IInv, Reasons, EarlyReasons, InspectReasons, TestReasons, LosesTests, Phase

LEMMA HowManyTests ==
    ASSUME output \in Outputs
    PROVE  /\ Cardinality(TestEffects) \in Nat
           /\ Cardinality(TestEffects) = 0 <=> TestEffects = {}
           /\ HasTest(output) <=> TestEffects # {}
    BY EffectsAreFinite, FS_EmptySet DEF TestEffects, HasTest

\* The set of the elements of a list.
LEMMA RangeIs ==
    /\ Range(<<>>) = {}
    /\ \A S : \A s \in Seq(S) : \A x :
         s # <<>> /\ (\A i \in DOMAIN s : s[i] = x) => Range(s) = {x}
<1>1. DOMAIN <<>> = {}
    OBVIOUS
<1>2. ASSUME NEW S, NEW s \in Seq(S), NEW x, s # <<>>, \A i \in DOMAIN s : s[i] = x
      PROVE  Range(s) = {x}
  <2>1. 1 \in DOMAIN s
      BY <1>2
  <2> QED
      BY <1>2, <2>1 DEF Range
<1> QED
    BY <1>1, <1>2 DEF Range

LEMMA ToldChanges == ASSUME IInv PROVE ChangesAreTold
<1> SUFFICES ASSUME IsTerminal
             PROVE  told.workflow.applied = IF reason = "mutation" THEN <<>> ELSE onDisk
    BY DEF ChangesAreTold
<1>1. told.workflow.applied = known.applied
    BY TerminalIsTheEnd, EndWorkflowIs
<1> QED
    BY <1>1 DEF IInv, ChangesMade

LEMMA ToldTestRuns == ASSUME IInv PROVE TestRunsAreTold
<1> SUFFICES ASSUME IsTerminal
             PROVE  told.workflow.tests = IF reason \in LosesTests THEN <<>> ELSE ran
    BY DEF TestRunsAreTold
<1>1. told.workflow.tests = known.tests
    BY TerminalIsTheEnd, EndWorkflowIs
<1> QED
    BY <1>1, WaysToEnd DEF IInv, TestRuns, TestsToCome, TestsDone, LosesTests

\* What the run did, for each status of the test node.
LEMMA ToldTestNode == ASSUME IInv, NoEmptyCommand PROVE TestNodeIsTrue
<1> DEFINE status == told.workflow.results.test
           proposed == Cardinality(TestEffects)
<1> SUFFICES ASSUME IsTerminal, IsDevOutput
             PROVE  /\ status = "completed" => Len(ran) = proposed /\ Range(ran) = {0}
                    /\ status = "skipped" => proposed = 0
                    /\ status = "planned" =>
                         ran = <<>> \/ reason \in {"test spawn", "test writable path"}
                    /\ status = "failed" => reason # None /\ proposed > 0
                    /\ Range(ran) \ {0} # {} => status = "failed"
    BY DEF TestNodeIsTrue, IsDevOutput, TestEffects
<1>1. status = TestStatus(output, known, reason) /\ output \in Outputs
    BY TerminalIsTheEnd, EndWorkflowIs, EndResultsAre
<1>2. proposed \in Nat /\ (proposed = 0 <=> TestEffects = {}) /\ (HasTest(output) <=> proposed # 0)
    BY <1>1, HowManyTests
<1>3. /\ TestsToCome <=> reason \in InspectReasons \union {"mutation"}
      /\ TestsDone <=> reason \in {None, "write"}
      /\ reason \in LosesTests \union InspectReasons
                      \union {"mutation", None, "write", "test command exit"}
    BY WaysToEnd, NoneAssumption DEF TestsToCome, TestsDone, InspectReasons, Reasons, LosesTests
<1>4. ran \in Seq({0, 1, 9}) /\ (AllPassed => Range(ran) \subseteq {0})
  <2>1. ran \in Seq({0, 1, 9})
      BY DEF IInv, TestRuns
  <2> QED
      BY <2>1 DEF AllPassed, Range
<1>5. CASE reason \in InspectReasons \union {"mutation"}
  <2>1. ran = <<>> /\ known.tests = <<>> /\ Range(ran) = {}
      BY <1>3, <1>5, RangeIs DEF IInv, TestRuns
  <2> QED
      BY <1>1, <1>2, <1>5, <2>1 DEF TestStatus, MentionsTest, InspectReasons
<1>6. CASE reason \in {None, "write"}
  <2>1. known.tests = ran /\ AllPassed /\ Len(ran) = proposed
      BY <1>3, <1>6 DEF IInv, TestRuns
  <2>2. reason \notin MentionsTest
      BY <1>6, NoneAssumption DEF MentionsTest, Reasons, LosesTests
  <2>3. ran # <<>> => Range(ran) = {0}
      BY <1>4, <2>1, RangeIs DEF AllPassed
  <2> QED
      BY <1>1, <1>2, <1>4, <2>1, <2>2, <2>3 DEF TestStatus
<1>7. CASE reason = "test command exit"
  <2>1. status = "failed" /\ TestEffects # {} /\ reason # None
      BY <1>1, <1>7, NoneAssumption, WaysToEnd
         DEF TestStatus, MentionsTest, InspectReasons, Reasons, LosesTests, IInv, TestRuns
  <2> QED
      BY <1>2, <2>1
<1>8. CASE reason \in LosesTests
  <2>1. /\ Phase = "test" /\ reason # None /\ TestEffects # {} /\ known.tests = <<>>
        /\ reason # "test command timeout" => AllPassed
      BY <1>8, NoneAssumption, WaysToEnd DEF InspectReasons, Reasons, LosesTests, IInv, TestRuns
  <2>2. CASE reason \in MentionsTest
    <3>1. status = "failed"
        BY <1>1, <2>2 DEF TestStatus
    <3>2. reason # None /\ TestEffects # {}
        BY <2>1
    <3>3. proposed > 0
        BY <1>2, <3>2
    <3> QED
        BY <3>1, <3>2, <3>3, Zenon
  <2>3. CASE reason \notin MentionsTest
    <3>1. reason \in {"test spawn", "test writable path"}
        BY <1>8, <2>3 DEF NoEmptyCommand, LosesTests, MentionsTest
    <3>2. status = "planned" /\ AllPassed
        BY <1>1, <1>2, <2>1, <2>3, <3>1 DEF TestStatus
    <3> QED
        BY <1>4, <3>1, <3>2
  <2> QED
      BY <2>2, <2>3
<1> QED
    BY <1>3, <1>5, <1>6, <1>7, <1>8

\* The terminal workflow of a run tells what was done: the changes and the test
\* runs, but for those of a phase that raised, and the test node: what becomes of
\* the lists in finalize_success and in the recovery of Harness.run.
THEOREM RunTold == Spec => []RunIsTold
<1>1. IInv /\ NoEmptyCommand => RunIsTold
    BY ToldChanges, ToldTestRuns, ToldTestNode DEF RunIsTold
<1> QED
    BY NoCommandIsEmpty, <1>1, PTL

LEMMA ZeroIsNotOne == 0 # 1
    OBVIOUS

\* How a run that has an end record came to it, be the workflow written or not.
LEMMA EndsOfRuns ==
    ASSUME IInv, pc \in {"returned", "raised"}, reason \notin EarlyReasons
    PROVE  /\ pc = "returned" <=> reason = None
           /\ output \in Outputs
           /\ (\E i \in DOMAIN ran : ran[i] = 1) <=> reason = "test command exit"
           /\ reason # "test command exit" => \A i \in DOMAIN known.tests : known.tests[i] = 0
<1>1. (pc = "returned" <=> reason = None) /\ output \in Outputs
    BY DEF IInv, Place
<1>2. \/ reason \in {None, "write"} /\ Phase = "finalize"
      \/ reason \in InspectReasons /\ Phase = "inspect"
      \/ reason \in LosesTests /\ Phase = "test"
      \/ reason = "test command exit" /\ Phase = "test"
      \/ reason = "mutation" /\ Phase = "mutate"
    BY <1>1, PhaseIs
       DEF IInv, Place, Reasons, EarlyReasons, InspectReasons, TestReasons, LosesTests, Phase
<1>3. reason \in InspectReasons \union {None, "write", "mutation"} =>
        known.tests = ran /\ (\A i \in DOMAIN ran : ran[i] = 0) /\ reason # "test command exit"
  <2>1. reason \in InspectReasons \union {None, "write", "mutation"} =>
          (ran = <<>> /\ known.tests = <<>>) \/ (known.tests = ran /\ AllPassed)
      BY <1>2, NoneAssumption
         DEF IInv, TestRuns, TestsToCome, TestsDone, InspectReasons, Reasons, LosesTests
  <2>2. DOMAIN <<>> = {}
      OBVIOUS
  <2>3. ran = <<>> => \A i \in DOMAIN ran : ran[i] = 0
      BY <2>2
  <2>4. reason \in InspectReasons \union {None, "write", "mutation"} => reason # "test command exit"
      BY NoneAssumption DEF InspectReasons, Reasons
  <2> QED
      BY <2>1, <2>3, <2>4 DEF AllPassed
<1>4. reason \in LosesTests =>
        known.tests = <<>> /\ (\A i \in DOMAIN ran : ran[i] # 1) /\ reason # "test command exit"
    BY DEF IInv, TestRuns, LosesTests
<1>5. reason = "test command exit" => \E i \in DOMAIN ran : ran[i] = 1
    BY DEF IInv, TestRuns
<1>6. known.tests = <<>> => \A i \in DOMAIN known.tests : known.tests[i] = 0
  <2>1. DOMAIN <<>> = {}
      OBVIOUS
  <2> QED
      BY <2>1
<1>7. ASSUME NEW i \in DOMAIN ran, ran[i] = 1 PROVE reason = "test command exit"
  <2>1. reason \notin LosesTests
      BY <1>4, <1>7
  <2>2. reason \notin InspectReasons \union {None, "write", "mutation"}
    <3> SUFFICES ASSUME reason \in InspectReasons \union {None, "write", "mutation"} PROVE FALSE
        OBVIOUS
    <3>1. ran[i] = 0
        BY <1>3
    <3> QED
        BY <1>7, <3>1, ZeroIsNotOne, Zenon
  <2> QED
      BY <1>2, <2>1, <2>2
<1>8. reason # "test command exit" => \A i \in DOMAIN known.tests : known.tests[i] = 0
    BY <1>2, <1>3, <1>4, <1>6
<1> QED
    BY <1>1, <1>5, <1>7, <1>8

\* What the audit finds, by severity and by what it asks for.
LEMMA FindingsAre ==
    ASSUME IInv, pc \in {"returned", "raised"}, reason \notin EarlyReasons
    PROVE  /\ HasSeverity(EndFindings, "error") <=> reason = "test command exit"
           /\ HasSeverity(EndFindings, "warning") <=> known.denied # <<>>
<1> DEFINE notes == IF known.tests = <<>> /\ ~HasTest(output) /\ reason = None
                    THEN {Finding("info", "no_test_command", None)} ELSE {}
           denials == {Finding("warning", "mutation_denied", known.denied[i]) :
                         i \in DOMAIN known.denied}
           runs == {Finding("info", "trusted_test_command_no_sandbox", None) :
                      i \in DOMAIN known.tests}
           failure == IF reason = "test command exit" \/ \E i \in DOMAIN known.tests :
                                                           known.tests[i] # 0
                      THEN {Finding("error", "test_command_failed", None)} ELSE {}
<1>1. EndFindings = notes \union denials \union runs \union failure
    BY DEF EndFindings, AuditFindings
<1>2. failure = IF reason = "test command exit"
                THEN {Finding("error", "test_command_failed", None)} ELSE {}
    BY EndsOfRuns
<1>3. /\ \A f \in notes : f.severity = "info"
      /\ \A f \in runs : f.severity = "info"
      /\ \A f \in denials : f.severity = "warning"
      /\ \A f \in failure : f.severity = "error"
  <2>1. \A code, change : /\ Finding("info", code, change).severity = "info"
                          /\ Finding("warning", code, change).severity = "warning"
                          /\ Finding("error", code, change).severity = "error"
      BY DEF Finding
  <2>2. \A f \in notes : f.severity = "info"
      BY <2>1
  <2>3. \A f \in runs : f.severity = "info"
      BY <2>1
  <2>4. \A f \in denials : f.severity = "warning"
      BY <2>1
  <2>5. \A f \in failure : f.severity = "error"
      BY <1>2, <2>1
  <2> QED
      BY <2>2, <2>3, <2>4, <2>5
<1>4. denials # {} <=> known.denied # <<>>
  <2>1. known.denied # <<>> <=> DOMAIN known.denied # {}
    <3>1. known.denied \in Seq(Changes)
        BY DEF IInv, Held, Lists
    <3> QED
        BY <3>1, EmptyDomain
  <2> QED
      BY <2>1
<1>5. failure # {} <=> reason = "test command exit"
    BY <1>2
<1> HIDE DEF notes, denials, runs, failure
<1> QED
    BY <1>1, <1>3, <1>4, <1>5 DEF HasSeverity

LEMMA ProposalsAre ==
    ASSUME IInv, pc \in {"returned", "raised"}, reason \notin EarlyReasons
    PROVE  Proposals(EndFindings) =
             {[source |-> "mutation_denied", change |-> c] : c \in Range(known.denied)}
             \union {[source |-> "test_command_failed", change |-> None] :
                        i \in {i \in DOMAIN ran : ran[i] = 1}}
<1> DEFINE Asks(findings) ==
             {[source |-> f.code, change |-> f.change] :
                f \in {g \in findings : g.code \in {"mutation_denied", "test_command_failed"}}}
           notes == IF known.tests = <<>> /\ ~HasTest(output) /\ reason = None
                    THEN {Finding("info", "no_test_command", None)} ELSE {}
           denials == {Finding("warning", "mutation_denied", known.denied[i]) :
                         i \in DOMAIN known.denied}
           runs == {Finding("info", "trusted_test_command_no_sandbox", None) :
                      i \in DOMAIN known.tests}
           failure == IF reason = "test command exit" \/ \E i \in DOMAIN known.tests :
                                                           known.tests[i] # 0
                      THEN {Finding("error", "test_command_failed", None)} ELSE {}
<1>1. Proposals(EndFindings) = Asks(notes \union denials \union runs \union failure)
    BY DEF Proposals, EndFindings, AuditFindings
<1>2. Asks(notes \union denials \union runs \union failure)
        = Asks(notes) \union Asks(denials) \union Asks(runs) \union Asks(failure)
  <2> HIDE DEF notes, denials, runs, failure
  <2> QED
      OBVIOUS
<1>3. Asks(notes) = {} /\ Asks(runs) = {}
    BY DEF Finding
<1>4. Asks(denials) = {[source |-> "mutation_denied", change |-> c] : c \in Range(known.denied)}
  <2>1. \A c : /\ Finding("warning", "mutation_denied", c).code = "mutation_denied"
               /\ Finding("warning", "mutation_denied", c).change = c
      BY DEF Finding
  <2>2. denials = {Finding("warning", "mutation_denied", c) : c \in Range(known.denied)}
      BY DEF Range
  <2> HIDE DEF denials
  <2> QED
      BY <2>1, <2>2
<1>5. Asks(failure) = {[source |-> "test_command_failed", change |-> None] :
                          i \in {i \in DOMAIN ran : ran[i] = 1}}
  <2>1. failure = IF \E i \in DOMAIN ran : ran[i] = 1
                  THEN {Finding("error", "test_command_failed", None)} ELSE {}
      BY EndsOfRuns
  <2>2. Asks({Finding("error", "test_command_failed", None)})
          = {[source |-> "test_command_failed", change |-> None]}
    <3> DEFINE found == Finding("error", "test_command_failed", None)
    <3>1. found.code = "test_command_failed" /\ found.change = None
        BY DEF Finding
    <3> HIDE DEF found
    <3>2. Asks({found}) = {[source |-> found.code, change |-> found.change]}
        BY <3>1
    <3> QED
        BY <3>1, <3>2 DEF found
  <2>3. {[source |-> "test_command_failed", change |-> None] :
           i \in {i \in DOMAIN ran : ran[i] = 1}}
          = IF \E i \in DOMAIN ran : ran[i] = 1
            THEN {[source |-> "test_command_failed", change |-> None]} ELSE {}
      OBVIOUS
  <2>4. Asks({}) = {}
      OBVIOUS
  <2> HIDE DEF failure, Asks
  <2> QED
      BY <2>1, <2>2, <2>3, <2>4
<1> HIDE DEF notes, denials, runs, failure, Asks
<1>6. Proposals(EndFindings)
        = Asks(notes) \union Asks(denials) \union Asks(runs) \union Asks(failure)
    BY <1>1, <1>2, Zenon
<1>7. \A a, b : {} \union a \union {} \union b = a \union b
    OBVIOUS
<1>8. Proposals(EndFindings) = Asks(denials) \union Asks(failure)
    BY <1>3, <1>6, <1>7, Zenon
<1> QED
    BY <1>4, <1>5, <1>8, Zenon

LEMMA RangeIsEmpty == ASSUME NEW S, NEW s \in Seq(S) PROVE Range(s) = {} <=> s = <<>>
    BY EmptyDomain DEF Range

\* Which artifacts a developer run has: those the terminal workflow cites.
LEMMA CitedAreThere ==
    ASSUME IsDevOutput, NEW ok \in SUBSET Stores, EndTold(ok)
    PROVE  /\ told.audit # Absent => told.audit = EndAudit
           /\ told.fix # Absent => told.fix = [proposals |-> EndProposals(ok)]
           /\ told.trace # Absent => told.trace = EndTrace(ok)
           /\ told.audit # Absent <=> "audit" \in EndCites(ok)
           /\ told.fix # Absent <=> "fix" \in EndCites(ok)
           /\ told.trace # Absent <=> "trace" \in EndCites(ok)
           /\ EndCites(ok) \subseteq {"audit", "fix", "trace"}
           /\ "fix" \in EndCites(ok) => "audit" \in EndCites(ok) /\ EndProposals(ok) # {}
<1>1. EndAudit # Absent /\ [proposals |-> EndProposals(ok)] # Absent /\ EndTrace(ok) # Absent
  <2>1. DOMAIN Absent = {}
      BY DEF Absent
  <2>2. /\ "status" \in DOMAIN EndAudit /\ "status" \in DOMAIN EndTrace(ok)
        /\ "proposals" \in DOMAIN [proposals |-> EndProposals(ok)]
      BY DEF EndAudit, EndTrace, Trace
  <2> QED
      BY <2>1, <2>2
<1>2. /\ told.audit = IF "audit" \in EndCites(ok) THEN EndAudit ELSE Absent
      /\ told.fix = IF "fix" \in EndCites(ok) THEN [proposals |-> EndProposals(ok)]
                    ELSE Absent
      /\ told.trace = IF "trace" \in EndCites(ok) THEN EndTrace(ok) ELSE Absent
    BY DEF EndTold
<1>3. /\ EndCites(ok) \subseteq {"audit", "fix", "trace"}
      /\ "fix" \in EndCites(ok) => "audit" \in EndCites(ok) /\ EndProposals(ok) # {}
    BY DEF EndCites, EndProposals
<1> QED
    BY <1>1, <1>2, <1>3

LEMMA AgreeingStatuses == ASSUME IInv PROVE StatusesAgree
<1> SUFFICES ASSUME IsTerminal, IsDevOutput
             PROVE  LET w == told.workflow
                        t == told.trace
                    IN  /\ w.results.audit = "failed" <=> w.status = "failed"
                        /\ w.results.audit = "warnings" <=> w.status = "completed_with_denials"
                        /\ told.audit # Absent => told.audit.status = w.results.audit
                        /\ told.fix # Absent =>
                             told.audit # Absent /\ w.results.fix = "proposal_only"
                        /\ {n \in {"audit", "fix", "trace"} : told[n] # Absent} = w.cites
                        /\ t # Absent =>
                             /\ t.status = w.status
                             /\ t.auditor = "completed" <=> told.audit # Absent
                             /\ t.planner = "proposal_only" <=> told.fix # Absent
                             /\ t.patcher = "applied" <=> w.results.code = "completed"
                             /\ t.patcher = "denied" <=> w.results.code = "denied"
                             /\ t.reviewer = "completed_structural" <=> t.patcher = "applied"
    BY DEF StatusesAgree, IsDevOutput
<1>1. PICK ok \in SUBSET Stores : EndTold(ok) /\ told.workflow = EndWorkflow(ok)
    BY TerminalIsTheEnd
<1>2. /\ pc \in {"returned", "raised"} /\ reason \notin EarlyReasons
      /\ pc = "returned" <=> reason = None
    BY TerminalIsTheEnd
<1>3. /\ told.workflow.status = EndStatus /\ told.workflow.results = EndResults(ok)
      /\ told.workflow.cites = EndCites(ok)
    BY <1>1, EndWorkflowIs
<1>4. /\ EndResults(ok).audit = AuditStatus(EndFindings, EndStatus)
      /\ EndResults(ok).code = CodeStatus(output, known)
      /\ EndResults(ok).fix = IF EndProposals(ok) # {} THEN "proposal_only" ELSE "skipped"
    BY EndResultsAre
<1>5. /\ AuditStatus(EndFindings, EndStatus) = "failed" <=> EndStatus = "failed"
      /\ AuditStatus(EndFindings, EndStatus) = "warnings" <=> EndStatus = "completed_with_denials"
  <2>1. /\ HasSeverity(EndFindings, "error") <=> reason = "test command exit"
        /\ HasSeverity(EndFindings, "warning") <=> known.denied # <<>>
      BY <1>2, FindingsAre
  <2>2. /\ reason = "test command exit" => reason # None
        /\ EndStatus = "failed" <=> reason # None
        /\ EndStatus = "completed_with_denials" <=> reason = None /\ known.denied # <<>>
      BY NoneAssumption DEF EndStatus, FinalStatus, Reasons
  <2> QED
      BY <2>1, <2>2 DEF AuditStatus
<1>6. told.audit # Absent => told.audit.status = AuditStatus(EndFindings, EndStatus)
  <2>1. told.audit # Absent => told.audit = EndAudit
      BY <1>1, CitedAreThere
  <2>2. EndAudit.status = AuditStatus(EndFindings, EndStatus)
      BY DEF EndAudit
  <2> QED
      BY <2>1, <2>2
<1>7. told.fix # Absent => told.audit # Absent /\ EndResults(ok).fix = "proposal_only"
    BY <1>1, <1>4, CitedAreThere
<1>8. {n \in {"audit", "fix", "trace"} : told[n] # Absent} = EndCites(ok)
  <2>1. told["audit"] = told.audit /\ told["fix"] = told.fix /\ told["trace"] = told.trace
      OBVIOUS
  <2>2. /\ told.audit # Absent <=> "audit" \in EndCites(ok)
        /\ told.fix # Absent <=> "fix" \in EndCites(ok)
        /\ told.trace # Absent <=> "trace" \in EndCites(ok)
        /\ EndCites(ok) \subseteq {"audit", "fix", "trace"}
      BY <1>1, CitedAreThere
  <2>3. ASSUME NEW n \in {"audit", "fix", "trace"}
        PROVE  told[n] # Absent <=> n \in EndCites(ok)
      BY <2>1, <2>2
  <2> QED
      BY <2>2, <2>3
<1>9. ASSUME told.trace # Absent
      PROVE  /\ told.trace.status = EndStatus
             /\ told.trace.auditor = "completed" <=> told.audit # Absent
             /\ told.trace.planner = "proposal_only" <=> told.fix # Absent
             /\ told.trace.patcher = "applied" <=> EndResults(ok).code = "completed"
             /\ told.trace.patcher = "denied" <=> EndResults(ok).code = "denied"
             /\ told.trace.reviewer = "completed_structural" <=> told.trace.patcher = "applied"
  <2>1. told.trace = EndTrace(ok)
      BY <1>1, <1>9, CitedAreThere
  <2>2. /\ EndTrace(ok).status = EndStatus
        /\ EndTrace(ok).auditor = IF "audit" \in EndCites(ok) THEN "completed" ELSE "skipped"
        /\ EndTrace(ok).planner = IF "fix" \in EndCites(ok) THEN "proposal_only" ELSE "completed"
        /\ EndTrace(ok).patcher = PatcherStatus(EndResults(ok), known)
        /\ EndTrace(ok).reviewer = IF known.applied # <<>> THEN "completed_structural"
                                   ELSE "completed_structural_no_patchdiff"
      BY DEF EndTrace, Trace
  <2>3. /\ PatcherStatus(EndResults(ok), known) = "applied" <=> known.applied # <<>>
        /\ CodeStatus(output, known) = "completed" <=> known.applied # <<>>
        /\ PatcherStatus(EndResults(ok), known) = "denied" <=>
             CodeStatus(output, known) = "denied"
      BY <1>4 DEF PatcherStatus, CodeStatus
  <2>4. /\ told.audit # Absent <=> "audit" \in EndCites(ok)
        /\ told.fix # Absent <=> "fix" \in EndCites(ok)
      BY <1>1, CitedAreThere
  <2> QED
      BY <1>4, <2>1, <2>2, <2>3, <2>4
<1> QED
    BY <1>3, <1>4, <1>5, <1>6, <1>7, <1>8, <1>9

LEMMA AnsweringFixes == ASSUME IInv PROVE FixesAnswerFindings
<1> DEFINE denials == {[source |-> "mutation_denied", change |-> c] : c \in Range(known.denied)}
           failure == {[source |-> "test_command_failed", change |-> None] :
                          i \in {i \in DOMAIN ran : ran[i] = 1}}
<1>1. ASSUME told.fix # Absent
      PROVE  told.fix.proposals = denials \union failure /\ told.fix.proposals # {}
  <2>1. PICK ok \in SUBSET Stores : EndTold(ok)
      BY <1>1, ToldIs DEF NothingTold
  <2>2. IsDevOutput
      BY <1>1, <2>1 DEF EndTold
  <2>3. "fix" \in EndCites(ok) /\ EndProposals(ok) # {} /\ told.fix.proposals = EndProposals(ok)
    <3>1. /\ told.fix = [proposals |-> EndProposals(ok)]
          /\ "fix" \in EndCites(ok) /\ EndProposals(ok) # {}
        BY <1>1, <2>1, <2>2, CitedAreThere
    <3> QED
        BY <3>1
  <2>4. EndProposals(ok) = Proposals(EndFindings)
      BY <2>3 DEF EndProposals
  <2>5. pc \in {"returned", "raised"} /\ reason \notin EarlyReasons
      BY <1>1, PhaseIs DEF IInv, Told, NothingTold, Place, Phases
  <2>6. Proposals(EndFindings) = denials \union failure
      BY <2>5, ProposalsAre
  <2> QED
      BY <2>3, <2>4, <2>6
<1>2. ASSUME pc = "returned", IsDevOutput, denials # {} PROVE told.fix # Absent
  <2>1. EndTold(Stores) /\ reason \notin EarlyReasons
      BY <1>2, NoneAssumption DEF IInv, Told, Place
  <2>2. Proposals(EndFindings) = denials \union failure
      BY <1>2, <2>1, ProposalsAre
  <2>3. EndProposals(Stores) # {}
      BY <1>2, <2>2 DEF EndProposals, Stores
  <2>4. "fix" \in EndCites(Stores)
      BY <2>3 DEF EndCites, Stores
  <2> QED
      BY <1>2, <2>1, <2>4, CitedAreThere
<1> QED
    BY <1>1, <1>2 DEF FixesAnswerFindings, IsDevOutput

\* The records of one developer run never contradict each other, and its fix
\* proposals answer the findings of its audit: what finalize_success and the
\* recovery write from build_audit_result, build_fix_proposals,
\* developer_node_results and build_bug_fix_optic_trace.
THEOREM DevRecords == Spec => []DevRecordsAgree
<1>1. IInv => DevRecordsAgree
    BY AgreeingStatuses, AnsweringFixes DEF DevRecordsAgree
<1> QED
    BY AlwaysIInv, <1>1, PTL

\* The ids of the nodes of a kind.
IdsOf(kind, positions) == {<<kind, positions[k]>> : k \in DOMAIN positions}

LEMMA NodesAre ==
    ASSUME NEW kind, NEW n \in Nat, NEW positions, DOMAIN positions = 1..n
    PROVE  Nodes(kind, positions) \in Seq(IdsOf(kind, positions))
    BY DEF Nodes, Node, IdsOf

\* A node of a change stands for a change that was applied.
LEMMA MutationNodes ==
    ASSUME output \in Outputs, NEW applied, applied \in Seq(Range(applied)),
           NEW k, k.applied = applied, k.approvals = applied
    PROVE  \A node \in Range(DefaultDag(output, k)) :
             node.id[1] = "code_mutation" => node.approval = applied[node.id[2]]
<1> DEFINE inspections == Positions(output, "inspect_file")
           tests == Positions(output, "test_command")
           changes == [i \in DOMAIN applied |-> i]
           ids == <<Node("plan", 1)>> \o Nodes("inspect", inspections) \o Nodes("test", tests)
                    \o Nodes("code_mutation", changes) \o <<Node("memory_write", 1)>>
           Approval(id) == IF id[1] = "code_mutation" /\ id[2] \in DOMAIN applied
                           THEN applied[id[2]] ELSE None
           dag == [i \in DOMAIN ids |-> [id |-> ids[i], approval |-> Approval(ids[i]),
                                         after |-> IF i = 1 THEN {} ELSE {ids[i - 1]}]]
           others == {<<"plan", 1>>, <<"memory_write", 1>>}
                       \union IdsOf("inspect", inspections) \union IdsOf("test", tests)
           all == others \union {<<"code_mutation", i>> : i \in DOMAIN applied}
<1>1. DefaultDag(output, k) = dag
    BY DEF DefaultDag
<1>2. ids \in Seq(all)
  <2>1. <<Node("plan", 1)>> \in Seq(all) /\ <<Node("memory_write", 1)>> \in Seq(all)
    <3>1. Node("plan", 1) \in all /\ Node("memory_write", 1) \in all
        BY DEF Node
    <3> QED
        BY <3>1, SingletonSeq
  <2>2. Nodes("inspect", inspections) \in Seq(all) /\ Nodes("test", tests) \in Seq(all)
    <3>1. /\ Cardinality(EffectsOf(output, "inspect_file")) \in Nat
          /\ Cardinality(EffectsOf(output, "test_command")) \in Nat
        BY EffectsAreFinite
    <3>2. /\ DOMAIN inspections = 1..Cardinality(EffectsOf(output, "inspect_file"))
          /\ DOMAIN tests = 1..Cardinality(EffectsOf(output, "test_command"))
        BY DEF Positions
    <3>3. /\ Nodes("inspect", inspections) \in Seq(IdsOf("inspect", inspections))
          /\ Nodes("test", tests) \in Seq(IdsOf("test", tests))
      <4> HIDE DEF inspections, tests
      <4> QED
          BY <3>1, <3>2, NodesAre
    <3> HIDE DEF inspections, tests
    <3> QED
        BY <3>3
  <2>3. Nodes("code_mutation", changes) \in Seq(all)
    <3>1. DOMAIN changes = 1..Len(applied) /\ Len(applied) \in Nat /\ DOMAIN applied = 1..Len(applied)
        OBVIOUS
    <3>2. Nodes("code_mutation", changes)
            \in Seq(IdsOf("code_mutation", changes))
        BY <3>1, NodesAre
    <3>3. IdsOf("code_mutation", changes) \subseteq all
        BY <3>1 DEF IdsOf
    <3> HIDE DEF all, changes
    <3> QED
        BY <3>2, <3>3
  <2>4. \A a, b, c, d, e \in Seq(all) : a \o b \o c \o d \o e \in Seq(all)
      OBVIOUS
  <2> HIDE DEF all, inspections, tests, changes
  <2> QED
      BY <2>1, <2>2, <2>3, <2>4
<1>3. \A id \in all : id[1] = "code_mutation" => id[2] \in DOMAIN applied
    BY DEF IdsOf
<1>4. \A i \in DOMAIN ids : ids[i] \in all
  <2> HIDE DEF ids, all
  <2> QED
      BY <1>2
<1> HIDE DEF ids, all
<1>5. \A i \in DOMAIN dag : dag[i].id = ids[i] /\ dag[i].approval = Approval(ids[i])
    OBVIOUS
<1>6. \A i \in DOMAIN dag : dag[i].id[1] = "code_mutation" =>
        dag[i].approval = applied[dag[i].id[2]]
    BY <1>3, <1>4, <1>5
<1> HIDE DEF dag
<1> QED
    BY <1>1, <1>6 DEF Range

LEMMA CitedApprovals == ASSUME IInv PROVE MutationsCiteApproval
<1> SUFFICES ASSUME IsTerminal
             PROVE  /\ \A node \in Range(told.workflow.dag) : node.id[1] = "code_mutation" =>
                         node.approval = told.workflow.applied[node.id[2]]
                    /\ told.trace # Absent =>
                         told.trace.evidence =
                           [i \in DOMAIN told.workflow.applied |->
                              <<told.workflow.applied[i], told.workflow.applied[i]>>]
    BY DEF MutationsCiteApproval
<1>1. PICK ok \in SUBSET Stores : EndTold(ok) /\ told.workflow = EndWorkflow(ok)
    BY TerminalIsTheEnd
<1>2. /\ output \in Outputs /\ known.approvals = known.applied
      /\ known.applied \in Seq(Range(known.applied))
  <2>1. known.applied \in Seq(Changes)
      BY DEF IInv, Held, Lists
  <2> QED
      BY <2>1, TerminalIsTheEnd, SeqOfItsRange DEF IInv, ChangesMade
<1>3. /\ told.workflow.applied = known.applied
      /\ told.workflow.dag = IF IsDevOutput THEN DevDag ELSE DefaultDag(output, known)
    BY <1>1, EndWorkflowIs
<1>4. \A node \in Range(DevDag) : node.id[1] # "code_mutation"
  <2> DEFINE dag == <<<<"plan", {}>>, <<"code", {"plan"}>>, <<"doc", {"code"}>>,
                      <<"test", {"code"}>>, <<"audit", {"doc", "test"}>>, <<"fix", {"audit"}>>>>
  <2>1. DOMAIN dag = 1..6
      OBVIOUS
  <2>2. \A i \in 1..6 : dag[i][1] # "code_mutation"
      OBVIOUS
  <2>3. DOMAIN DevDag = DOMAIN dag /\ \A i \in DOMAIN dag : DevDag[i].id[1] = dag[i][1]
      BY DEF DevDag, Node
  <2> HIDE DEF dag
  <2> QED
      BY <2>1, <2>2, <2>3 DEF Range
<1>5. \A node \in Range(told.workflow.dag) : node.id[1] = "code_mutation" =>
        node.approval = told.workflow.applied[node.id[2]]
    BY <1>2, <1>3, <1>4, MutationNodes
<1>6. ASSUME told.trace # Absent
      PROVE  told.trace.evidence = [i \in DOMAIN known.applied |->
                                      <<known.applied[i], known.applied[i]>>]
  <2>1. IsDevOutput
      BY <1>1, <1>6 DEF EndTold
  <2>2. told.trace = EndTrace(ok)
      BY <1>1, <1>6, <2>1, CitedAreThere
  <2>3. EndTrace(ok).evidence = [i \in DOMAIN known.applied \intersect DOMAIN known.approvals |->
                                   <<known.applied[i], known.approvals[i]>>]
      BY DEF EndTrace, Trace
  <2> QED
      BY <1>2, <2>2, <2>3
<1> QED
    BY <1>3, <1>5, <1>6

\* Each change a terminal record lists goes with the approval of that very change:
\* build_phase_one_workflow and build_bug_fix_optic_trace put the two lists of
\* execute_approved_mutations side by side.
THEOREM CitedMutations == Spec => []MutationsCiteApproval
<1>1. IInv => MutationsCiteApproval
    BY CitedApprovals
<1> QED
    BY AlwaysIInv, <1>1, PTL
-------------------------------------------------------------------------------
(* The workflow and the order of the steps.                                    *)

\* The order of the phases, of the steps in them, and of the nodes for them.
Turn(what) ==
    CASE what = "plan" -> 1
      [] what = "inspect" -> 2
      [] what = "test" -> IF IsDevOutput THEN 4 ELSE 3
      [] what \in {"mutate", "code_mutation"} -> IF IsDevOutput THEN 3 ELSE 4
      [] OTHER -> 5
Before(a, b) == Turn(a[1]) < Turn(b[1]) \/ (a[1] = b[1] /\ a[2] < b[2])
Rises(s) == \A i, j \in DOMAIN s : i < j => Before(s[i], s[j])

LEMMA TurnIs ==
    /\ \A what : Turn(what) \in 1..5
    /\ Turn("plan") = 1 /\ Turn("inspect") = 2 /\ Turn("memory_write") = 5 /\ Turn("finalize") = 5
    /\ Turn("mutate") = Turn("code_mutation")
    /\ IsDevOutput => Turn("code_mutation") = 3 /\ Turn("test") = 4
    /\ ~IsDevOutput => Turn("test") = 3 /\ Turn("code_mutation") = 4
    BY DEF Turn

LEMMA JoinRises ==
    ASSUME NEW S, NEW s \in Seq(S), NEW t \in Seq(S), Rises(s), Rises(t),
           \A i \in DOMAIN s, j \in DOMAIN t : Before(s[i], t[j])
    PROVE  Rises(s \o t)
<1> SUFFICES ASSUME NEW i \in DOMAIN (s \o t), NEW j \in DOMAIN (s \o t), i < j
             PROVE  Before((s \o t)[i], (s \o t)[j])
    BY DEF Rises
<1>1. /\ i \in 1..Len(s) => (s \o t)[i] = s[i]
      /\ i \notin 1..Len(s) => (s \o t)[i] = t[i - Len(s)] /\ i - Len(s) \in DOMAIN t
      /\ j \in 1..Len(s) => (s \o t)[j] = s[j]
      /\ j \notin 1..Len(s) => (s \o t)[j] = t[j - Len(s)] /\ j - Len(s) \in DOMAIN t
      /\ i \in Nat /\ j \in Nat /\ Len(s) \in Nat /\ DOMAIN s = 1..Len(s)
      /\ i >= 1 /\ j >= 1
    OBVIOUS
<1>2. CASE j \in 1..Len(s)
  <2>1. i \in 1..Len(s)
      BY <1>1, <1>2
  <2> QED
      BY <1>1, <1>2, <2>1 DEF Rises
<1>3. CASE i \notin 1..Len(s)
  <2>1. j \notin 1..Len(s) /\ i - Len(s) < j - Len(s)
      BY <1>1, <1>3
  <2> QED
      BY <1>1, <1>3, <2>1 DEF Rises
<1>4. CASE i \in 1..Len(s) /\ j \notin 1..Len(s)
    BY <1>1, <1>4
<1> QED
    BY <1>2, <1>3, <1>4

\* How many effects of a kind there are up to a place in the list.
Rank(kind, n) == Cardinality({i \in EffectsOf(output, kind) : i <= n})

LEMMA RanksGrow ==
    ASSUME output \in Outputs, NEW kind
    PROVE  /\ Rank(kind, 0) = 0
           /\ Rank(kind, Len(output.effects)) = Cardinality(EffectsOf(output, kind))
           /\ \A n \in Nat : Rank(kind, n) \in Nat
           /\ \A n \in Nat : n + 1 \notin EffectsOf(output, kind) =>
                               Rank(kind, n + 1) = Rank(kind, n)
           /\ \A n \in Nat : n + 1 \in EffectsOf(output, kind) =>
                               Rank(kind, n + 1) = Rank(kind, n) + 1
           /\ \A m, n \in Nat : m <= n => Rank(kind, m) <= Rank(kind, n)
<1> DEFINE last == Len(output.effects)
           here == EffectsOf(output, kind)
           upto(n) == {i \in here : i <= n}
<1>1. /\ IsFiniteSet(here) /\ last \in Nat
      /\ \A i \in here : i \in Nat /\ 1 <= i /\ i <= last
  <2>1. here \subseteq 1..last /\ IsFiniteSet(here)
      BY EffectsAreFinite
  <2>2. last \in Nat
      BY OutputIsTyped
  <2> HIDE DEF last, here
  <2> QED
      BY <2>1, <2>2
<1> HIDE DEF last, here
<1>2. \A n : Rank(kind, n) = Cardinality(upto(n))
    BY DEF Rank, here
<1>3. \A n : IsFiniteSet(upto(n))
    BY <1>1, FS_Subset
<1>4. upto(0) = {} /\ upto(last) = here
    BY <1>1
<1>5. ASSUME NEW n \in Nat, n + 1 \notin here PROVE Rank(kind, n + 1) = Rank(kind, n)
  <2>1. upto(n + 1) = upto(n)
      BY <1>1, <1>5
  <2> QED
      BY <1>2, <2>1
<1>6. ASSUME NEW n \in Nat, n + 1 \in here PROVE Rank(kind, n + 1) = Rank(kind, n) + 1
  <2>1. upto(n + 1) = upto(n) \union {n + 1} /\ n + 1 \notin upto(n)
      BY <1>1, <1>6
  <2> HIDE DEF upto
  <2> QED
      BY <1>2, <1>3, <2>1, FS_AddElement
<1>7. ASSUME NEW m \in Nat, NEW n \in Nat, m <= n PROVE Rank(kind, m) <= Rank(kind, n)
  <2>1. upto(m) \subseteq upto(n)
      BY <1>1, <1>7
  <2> HIDE DEF upto
  <2> QED
      BY <1>2, <1>3, <2>1, FS_Subset
<1>8. \A n \in Nat : Rank(kind, n) \in Nat
    BY <1>2, <1>3, FS_CardinalityType
<1>9. Rank(kind, 0) = 0 /\ Rank(kind, last) = Cardinality(here)
    BY <1>2, <1>4, FS_EmptySet
<1> QED
    BY <1>5, <1>6, <1>7, <1>8, <1>9 DEF last, here

\* There is an effect of each rank: the first place where the count gets there.
LEMMA RankIsTaken ==
    ASSUME output \in Outputs, NEW kind, NEW k \in 1..Cardinality(EffectsOf(output, kind))
    PROVE  \E i \in EffectsOf(output, kind) : Rank(kind, i) = k
<1> DEFINE here == EffectsOf(output, kind)
           last == Len(output.effects)
           S == {n \in Nat : k <= Rank(kind, n)}
<1>1. Cardinality(here) \in Nat /\ last \in Nat /\ k \in Nat /\ 1 <= k /\ k <= Cardinality(here)
    BY EffectsAreFinite, OutputIsTyped
<1>2. last \in S
    BY <1>1, RanksGrow
<1>3. \E x \in S : \A y \in S : x <= y
  <2>1. S \in SUBSET Nat /\ S # {}
      BY <1>2
  <2> HIDE DEF S
  <2> QED
      BY <2>1, LeastExists
<1>4. PICK x \in S : \A y \in S : x <= y
    BY <1>3
<1>5. x \in Nat /\ k <= Rank(kind, x) /\ x # 0
    BY <1>1, <1>4, RanksGrow
<1>6. x - 1 \in Nat /\ Rank(kind, x - 1) \in Nat /\ Rank(kind, x) \in Nat
    BY <1>5, RanksGrow
<1>7. Rank(kind, x - 1) < k
  <2>1. x - 1 \notin S
      BY <1>4, <1>5
  <2> QED
      BY <1>1, <1>6, <2>1
<1>8. PICK y \in Nat : y = x - 1 /\ y + 1 = x
    BY <1>5, <1>6
<1>9. x \in here /\ Rank(kind, x) = Rank(kind, x - 1) + 1
  <2>1. Rank(kind, y + 1) = Rank(kind, y) \/ y + 1 \in here
      BY RanksGrow
  <2>2. y + 1 \in here => Rank(kind, y + 1) = Rank(kind, y) + 1
      BY RanksGrow
  <2>3. Rank(kind, y) < Rank(kind, y + 1)
      BY <1>1, <1>5, <1>6, <1>7, <1>8
  <2> QED
      BY <1>6, <1>8, <2>1, <2>2, <2>3
<1> QED
    BY <1>1, <1>5, <1>6, <1>7, <1>9

\* Positions lists the places of the effects of a kind, from first to last.
LEMMA PositionsRise ==
    ASSUME output \in Outputs, NEW kind, NEW p, p = Positions(output, kind)
    PROVE  /\ DOMAIN p = 1..Cardinality(EffectsOf(output, kind))
           /\ \A k \in DOMAIN p : p[k] \in EffectsOf(output, kind) /\ p[k] \in Nat
           /\ \A k, l \in DOMAIN p : k < l => p[k] < p[l]
           /\ \A i \in EffectsOf(output, kind) : \E k \in DOMAIN p : p[k] = i
<1> DEFINE here == EffectsOf(output, kind)
           size == Cardinality(here)
<1>1. size \in Nat /\ \A i \in here : i \in Nat /\ i # 0
    BY EffectsAreFinite, OutputIsTyped
<1>2. p = [k \in 1..size |-> CHOOSE i \in here : Rank(kind, i) = k]
    BY DEF Positions, Rank
<1>3. \A k \in 1..size : p[k] \in here /\ Rank(kind, p[k]) = k
    BY <1>2, RankIsTaken
<1>4. DOMAIN p = 1..size
    BY <1>2
<1> HIDE DEF size
<1>5. ASSUME NEW k \in 1..size, NEW l \in 1..size, k < l PROVE p[k] < p[l]
  <2>1. p[k] \in Nat /\ p[l] \in Nat
      BY <1>1, <1>3
  <2>2. p[l] <= p[k] => Rank(kind, p[l]) <= Rank(kind, p[k])
      BY <2>1, RanksGrow
  <2> QED
      BY <1>1, <1>3, <1>5, <2>1, <2>2
<1>6. ASSUME NEW i \in here PROVE \E k \in 1..size : p[k] = i
  <2>1. i \in Nat /\ i # 0 /\ i - 1 \in Nat /\ (i - 1) + 1 = i
      BY <1>1
  <2>2. Rank(kind, i) = Rank(kind, i - 1) + 1 /\ Rank(kind, i - 1) \in Nat
      BY <2>1, RanksGrow
  <2>3. Rank(kind, i) \in 1..size
    <3>1. i <= Len(output.effects) /\ Len(output.effects) \in Nat
        BY EffectsAreFinite, OutputIsTyped
    <3>2. Rank(kind, i) <= size
        BY <2>1, <3>1, RanksGrow DEF size
    <3> QED
        BY <1>1, <2>2, <3>2
  <2> DEFINE q == p[Rank(kind, i)]
  <2>3a. q \in here /\ q \in Nat /\ q # 0 /\ Rank(kind, q) = Rank(kind, i)
      BY <1>1, <1>3, <2>3
  <2> HIDE DEF q
  <2>4. q < i => FALSE
    <3>1. q < i => Rank(kind, q) <= Rank(kind, i - 1)
        BY <2>1, <2>3a, RanksGrow
    <3> QED
        BY <2>2, <2>3a, <3>1, RanksGrow
  <2>5. i < q => FALSE
    <3>1. q - 1 \in Nat /\ (q - 1) + 1 = q
        BY <2>3a
    <3>2. Rank(kind, q) = Rank(kind, q - 1) + 1 /\ Rank(kind, q - 1) \in Nat
        BY <2>3a, <3>1, RanksGrow
    <3>3. i < q => Rank(kind, i) <= Rank(kind, q - 1)
        BY <2>1, <2>3a, <3>1, RanksGrow
    <3> QED
        BY <2>2, <2>3a, <3>2, <3>3
  <2>6. q = i
      BY <2>1, <2>3a, <2>4, <2>5
  <2> QED
      BY <2>3, <2>6 DEF q
<1> QED
    BY <1>1, <1>3, <1>4, <1>5, <1>6 DEF size

LEMMA JoinIs ==
    ASSUME NEW S, NEW s \in Seq(S), NEW t \in Seq(S)
    PROVE  /\ s \o t \in Seq(S)
           /\ Range(s \o t) = Range(s) \union Range(t)
           /\ s # <<>> => s \o t # <<>> /\ (s \o t)[1] = s[1]
<1>1. /\ s \o t \in Seq(S) /\ Len(s \o t) = Len(s) + Len(t)
      /\ Len(s) \in Nat /\ Len(t) \in Nat /\ DOMAIN s = 1..Len(s) /\ DOMAIN t = 1..Len(t)
      /\ DOMAIN (s \o t) = 1..(Len(s) + Len(t))
      /\ \A i \in 1..Len(s) : (s \o t)[i] = s[i]
      /\ \A i \in (Len(s) + 1)..(Len(s) + Len(t)) : (s \o t)[i] = t[i - Len(s)]
    OBVIOUS
<1>2. ASSUME NEW i \in DOMAIN (s \o t) PROVE (s \o t)[i] \in Range(s) \union Range(t)
  <2>1. i \in 1..Len(s) \/ (i \in (Len(s) + 1)..(Len(s) + Len(t)) /\ i - Len(s) \in 1..Len(t))
      BY <1>1
  <2> QED
      BY <1>1, <2>1 DEF Range
<1>3. ASSUME NEW i \in DOMAIN s PROVE s[i] \in Range(s \o t)
  <2>1. i \in DOMAIN (s \o t) /\ (s \o t)[i] = s[i]
      BY <1>1
  <2> QED
      BY <2>1 DEF Range
<1>4. ASSUME NEW i \in DOMAIN t PROVE t[i] \in Range(s \o t)
  <2>1. /\ i + Len(s) \in (Len(s) + 1)..(Len(s) + Len(t))
        /\ i + Len(s) \in DOMAIN (s \o t) /\ (i + Len(s)) - Len(s) = i
      BY <1>1
  <2>2. (s \o t)[i + Len(s)] = t[i]
      BY <1>1, <2>1
  <2> QED
      BY <2>1, <2>2 DEF Range
<1>5. Range(s \o t) = Range(s) \union Range(t)
  <2>1. \A x \in Range(s \o t) : x \in Range(s) \union Range(t)
      BY <1>2 DEF Range
  <2>2. \A x \in Range(s) : x \in Range(s \o t)
      BY <1>3 DEF Range
  <2>3. \A x \in Range(t) : x \in Range(s \o t)
      BY <1>4 DEF Range
  <2> QED
      BY <2>1, <2>2, <2>3
<1>6. s # <<>> => s \o t # <<>> /\ (s \o t)[1] = s[1]
    OBVIOUS
<1> QED
    BY <1>1, <1>5, <1>6

\* The nodes that follow are of a later turn.
UpTo(s, n) == \A i \in DOMAIN s : Turn(s[i][1]) <= n

LEMMA LaterRises ==
    ASSUME NEW S, NEW s \in Seq(S), NEW t \in Seq(S), NEW m \in 1..5, NEW n \in 1..5, m < n,
           Rises(s), Rises(t), UpTo(s, m), \A j \in DOMAIN t : Turn(t[j][1]) = n
    PROVE  Rises(s \o t) /\ UpTo(s \o t, n)
<1>1. Rises(s \o t)
  <2>1. ASSUME NEW i \in DOMAIN s, NEW j \in DOMAIN t PROVE Before(s[i], t[j])
    <3>1. Turn(s[i][1]) <= m /\ Turn(t[j][1]) = n /\ Turn(s[i][1]) \in 1..5
        BY TurnIs DEF UpTo
    <3> QED
        BY <3>1 DEF Before
  <2> QED
      BY <2>1, JoinRises
<1>2. UpTo(s \o t, n)
  <2> SUFFICES ASSUME NEW i \in DOMAIN (s \o t) PROVE Turn((s \o t)[i][1]) <= n
      BY DEF UpTo
  <2>1. (s \o t)[i] \in Range(s) \union Range(t)
      BY JoinIs DEF Range
  <2>2. \A x \in Range(s) : Turn(x[1]) <= m /\ Turn(x[1]) \in 1..5
      BY TurnIs DEF UpTo, Range
  <2>3. \A x \in Range(t) : Turn(x[1]) = n
      BY DEF Range
  <2> QED
      BY <2>1, <2>2, <2>3
<1> QED
    BY <1>1, <1>2

NodeIds == {"plan", "inspect", "test", "code_mutation", "memory_write"} \X Nat

Ascends(p, n) ==
    /\ DOMAIN p = 1..n /\ \A k \in DOMAIN p : p[k] \in Nat
    /\ \A k, l \in DOMAIN p : k < l => p[k] < p[l]

\* The nodes of one kind, for what is at these positions.
LEMMA NodesRise ==
    ASSUME NEW kind \in {"inspect", "test", "code_mutation"}, NEW n \in Nat,
           NEW p, Ascends(p, n)
    PROVE  /\ Nodes(kind, p) \in Seq(NodeIds)
           /\ Rises(Nodes(kind, p))
           /\ \A k \in DOMAIN Nodes(kind, p) : Nodes(kind, p)[k][1] = kind
           /\ \A k \in DOMAIN p : <<kind, p[k]>> \in Range(Nodes(kind, p))
<1> USE DEF Ascends
<1>1. DOMAIN Nodes(kind, p) = 1..n /\ \A k \in 1..n : Nodes(kind, p)[k] = <<kind, p[k]>>
    BY DEF Nodes, Node
<1>2. Nodes(kind, p) \in Seq(NodeIds)
  <2>1. Nodes(kind, p) = [k \in 1..n |-> <<kind, p[k]>>]
      BY DEF Nodes, Node
  <2>2. \A k \in 1..n : <<kind, p[k]>> \in NodeIds
      BY DEF NodeIds
  <2> QED
      BY <2>1, <2>2
<1>3. Rises(Nodes(kind, p))
    BY <1>1 DEF Rises, Before
<1>4. \A k \in DOMAIN Nodes(kind, p) : Nodes(kind, p)[k][1] = kind
    BY <1>1
<1>5. \A k \in DOMAIN p : <<kind, p[k]>> \in Range(Nodes(kind, p))
    BY <1>1 DEF Range
<1> QED
    BY <1>2, <1>3, <1>4, <1>5

DefaultIds(k) ==
    <<Node("plan", 1)>>
      \o Nodes("inspect", Positions(output, "inspect_file"))
      \o Nodes("test", Positions(output, "test_command"))
      \o Nodes("code_mutation", [i \in DOMAIN k.applied |-> i])
      \o <<Node("memory_write", 1)>>

\* The nodes of the default workflow: in their order, and which there are.
LEMMA DefaultIdsRise ==
    ASSUME output \in Outputs, ~IsDevOutput, NEW k, NEW size \in Nat, DOMAIN k.applied = 1..size
    PROVE  /\ DefaultIds(k) \in Seq(NodeIds) /\ DefaultIds(k) # <<>>
           /\ DefaultIds(k)[1] = <<"plan", 1>>
           /\ Rises(DefaultIds(k))
           /\ \A i \in EffectsOf(output, "inspect_file") : <<"inspect", i>> \in Range(DefaultIds(k))
           /\ \A i \in TestEffects : <<"test", i>> \in Range(DefaultIds(k))
           /\ \A i \in 1..size : <<"code_mutation", i>> \in Range(DefaultIds(k))
<1> DEFINE S == NodeIds
           a == <<Node("plan", 1)>>
           p == Positions(output, "inspect_file")
           b == Nodes("inspect", p)
           q == Positions(output, "test_command")
           c == Nodes("test", q)
           r == [i \in DOMAIN k.applied |-> i]
           d == Nodes("code_mutation", r)
           e == <<Node("memory_write", 1)>>
<1>1. /\ a \in Seq(S) /\ a # <<>> /\ a[1] = <<"plan", 1>> /\ e \in Seq(S)
      /\ Rises(a) /\ Rises(e)
      /\ UpTo(a, 1) /\ \A j \in DOMAIN e : Turn(e[j][1]) = 5
  <2>1. a = <<<<"plan", 1>>>> /\ e = <<<<"memory_write", 1>>>>
      BY DEF Node
  <2>2. \A x \in S : /\ <<x>> \in Seq(S) /\ <<x>> # <<>> /\ <<x>>[1] = x /\ DOMAIN <<x>> = 1..1
    <3> HIDE DEF S
    <3> QED
        BY SingletonSeq
  <2>3. <<"plan", 1>> \in S /\ <<"memory_write", 1>> \in S
      BY DEF NodeIds
  <2> HIDE DEF a, e, S
  <2>4. a \in Seq(S) /\ a # <<>> /\ a[1] = <<"plan", 1>> /\ DOMAIN a = 1..1
      BY <2>1, <2>2, <2>3
  <2>5. e \in Seq(S) /\ e[1] = <<"memory_write", 1>> /\ DOMAIN e = 1..1
      BY <2>1, <2>2, <2>3
  <2>6. Rises(a) /\ Rises(e)
      BY <2>4, <2>5 DEF Rises
  <2>7. Turn("plan") <= 1 /\ Turn("memory_write") = 5
      BY TurnIs
  <2>8. UpTo(a, 1) /\ \A j \in DOMAIN e : Turn(e[j][1]) = 5
      BY <2>4, <2>5, <2>7 DEF UpTo
  <2> QED
      BY <2>4, <2>5, <2>6, <2>8
<1>2. /\ b \in Seq(S) /\ Rises(b) /\ \A j \in DOMAIN b : Turn(b[j][1]) = 2
      /\ \A i \in EffectsOf(output, "inspect_file") : <<"inspect", i>> \in Range(b)
  <2>1. Cardinality(EffectsOf(output, "inspect_file")) \in Nat
      BY EffectsAreFinite
  <2>2. /\ DOMAIN p = 1..Cardinality(EffectsOf(output, "inspect_file"))
        /\ \A i \in DOMAIN p : p[i] \in Nat
        /\ \A i, j \in DOMAIN p : i < j => p[i] < p[j]
        /\ \A i \in EffectsOf(output, "inspect_file") : \E j \in DOMAIN p : p[j] = i
      BY PositionsRise
  <2> HIDE DEF p
  <2>3. /\ b \in Seq(S) /\ Rises(b) /\ \A j \in DOMAIN b : b[j][1] = "inspect"
        /\ \A j \in DOMAIN p : <<"inspect", p[j]>> \in Range(b)
    <3>1. PICK n \in Nat : DOMAIN p = 1..n
        BY <2>1, <2>2
    <3>2. Ascends(p, n) /\ "inspect" \in {"inspect", "test", "code_mutation"}
        BY <2>2, <3>1 DEF Ascends
    <3>3. /\ Nodes("inspect", p) \in Seq(NodeIds) /\ Rises(Nodes("inspect", p))
          /\ \A j \in DOMAIN Nodes("inspect", p) : Nodes("inspect", p)[j][1] = "inspect"
          /\ \A j \in DOMAIN p : <<"inspect", p[j]>> \in Range(Nodes("inspect", p))
      <4> HIDE DEF S, b
      <4> QED
          BY <3>2, NodesRise
    <3> QED
        BY <3>3
  <2> HIDE DEF b, S
  <2> QED
      BY <2>2, <2>3, TurnIs
<1>3. /\ c \in Seq(S) /\ Rises(c) /\ \A j \in DOMAIN c : Turn(c[j][1]) = 3
      /\ \A i \in TestEffects : <<"test", i>> \in Range(c)
  <2>1. Cardinality(TestEffects) \in Nat
      BY EffectsAreFinite DEF TestEffects
  <2>2. /\ DOMAIN q = 1..Cardinality(TestEffects)
        /\ \A i \in DOMAIN q : q[i] \in Nat
        /\ \A i, j \in DOMAIN q : i < j => q[i] < q[j]
        /\ \A i \in TestEffects : \E j \in DOMAIN q : q[j] = i
      BY PositionsRise DEF TestEffects
  <2> HIDE DEF q
  <2>3. /\ c \in Seq(S) /\ Rises(c) /\ \A j \in DOMAIN c : c[j][1] = "test"
        /\ \A j \in DOMAIN q : <<"test", q[j]>> \in Range(c)
    <3>1. PICK n \in Nat : DOMAIN q = 1..n
        BY <2>1, <2>2
    <3>2. Ascends(q, n) /\ "test" \in {"inspect", "test", "code_mutation"}
        BY <2>2, <3>1 DEF Ascends
    <3>3. /\ Nodes("test", q) \in Seq(NodeIds) /\ Rises(Nodes("test", q))
          /\ \A j \in DOMAIN Nodes("test", q) : Nodes("test", q)[j][1] = "test"
          /\ \A j \in DOMAIN q : <<"test", q[j]>> \in Range(Nodes("test", q))
      <4> HIDE DEF S, c
      <4> QED
          BY <3>2, NodesRise
    <3> QED
        BY <3>3
  <2> HIDE DEF c, S
  <2> QED
      BY <2>2, <2>3, TurnIs
<1>4. /\ d \in Seq(S) /\ Rises(d) /\ \A j \in DOMAIN d : Turn(d[j][1]) = 4
      /\ \A i \in 1..size : <<"code_mutation", i>> \in Range(d)
  <2>1. DOMAIN r = 1..size /\ \A i \in 1..size : r[i] = i /\ i \in Nat
      OBVIOUS
  <2> HIDE DEF r
  <2>2. /\ \A i \in DOMAIN r : r[i] \in Nat
        /\ \A i, j \in DOMAIN r : i < j => r[i] < r[j]
      BY <2>1
  <2>3. /\ d \in Seq(S) /\ Rises(d)
        /\ \A j \in DOMAIN d : d[j][1] = "code_mutation"
        /\ \A j \in DOMAIN r : <<"code_mutation", r[j]>> \in Range(d)
    <3>1. Ascends(r, size) /\ "code_mutation" \in {"inspect", "test", "code_mutation"}
        BY <2>1, <2>2 DEF Ascends
    <3> QED
        BY <3>1, NodesRise
  <2> HIDE DEF d, S
  <2> QED
      BY <2>1, <2>3, TurnIs
<1>5. DefaultIds(k) = a \o b \o c \o d \o e
    BY DEF DefaultIds
<1> HIDE DEF a, b, c, d, e, p, q, r, S
<1>6. /\ a \o b \in Seq(S) /\ a \o b # <<>> /\ (a \o b)[1] = a[1]
      /\ Range(a \o b) = Range(a) \union Range(b)
      /\ Rises(a \o b) /\ UpTo(a \o b, 2)
    BY <1>1, <1>2, JoinIs, LaterRises
<1> DEFINE ab == a \o b
<1> HIDE DEF ab
<1>7. /\ ab \o c \in Seq(S) /\ ab \o c # <<>> /\ (ab \o c)[1] = a[1]
      /\ Range(ab \o c) = Range(a) \union Range(b) \union Range(c)
      /\ Rises(ab \o c) /\ UpTo(ab \o c, 3)
  <2>1. ab \in Seq(S) /\ ab # <<>> /\ ab[1] = a[1] /\ Range(ab) = Range(a) \union Range(b)
        /\ Rises(ab) /\ UpTo(ab, 2)
      BY <1>6 DEF ab
  <2> QED
      BY <1>3, <2>1, JoinIs, LaterRises
<1> DEFINE abc == ab \o c
<1> HIDE DEF abc
<1>8. /\ abc \o d \in Seq(S) /\ abc \o d # <<>> /\ (abc \o d)[1] = a[1]
      /\ Range(abc \o d) = Range(a) \union Range(b) \union Range(c) \union Range(d)
      /\ Rises(abc \o d) /\ UpTo(abc \o d, 4)
  <2>1. /\ abc \in Seq(S) /\ abc # <<>> /\ abc[1] = a[1]
        /\ Range(abc) = Range(a) \union Range(b) \union Range(c)
        /\ Rises(abc) /\ UpTo(abc, 3)
      BY <1>7 DEF abc
  <2> QED
      BY <1>4, <2>1, JoinIs, LaterRises
<1> DEFINE abcd == abc \o d
<1> HIDE DEF abcd
<1>9. /\ abcd \o e \in Seq(S) /\ abcd \o e # <<>> /\ (abcd \o e)[1] = a[1]
      /\ Range(b) \union Range(c) \union Range(d) \subseteq Range(abcd \o e)
      /\ Rises(abcd \o e)
  <2>1. /\ abcd \in Seq(S) /\ abcd # <<>> /\ abcd[1] = a[1]
        /\ Range(abcd) = Range(a) \union Range(b) \union Range(c) \union Range(d)
        /\ Rises(abcd) /\ UpTo(abcd, 4)
      BY <1>8 DEF abcd
  <2> QED
      BY <1>1, <2>1, JoinIs, LaterRises
<1>10. DefaultIds(k) = abcd \o e
    BY <1>5 DEF ab, abc, abcd
<1>11. /\ DefaultIds(k) \in Seq(S) /\ DefaultIds(k) # <<>> /\ DefaultIds(k)[1] = <<"plan", 1>>
       /\ Rises(DefaultIds(k))
       /\ Range(b) \union Range(c) \union Range(d) \subseteq Range(DefaultIds(k))
    BY <1>1, <1>9, <1>10
<1> QED
    BY <1>2, <1>3, <1>4, <1>11 DEF S

LEMMA BeforeIsStrict ==
    ASSUME NEW a \in NodeIds, NEW b \in NodeIds PROVE ~(Before(a, b) /\ Before(b, a))
<1>1. /\ a[2] \in Nat /\ b[2] \in Nat
      /\ Turn(a[1]) \in 1..5 /\ Turn(b[1]) \in 1..5
    BY TurnIs DEF NodeIds
<1>2. Turn(a[1]) < Turn(b[1]) => a[1] # b[1] /\ ~(Turn(b[1]) < Turn(a[1]))
    BY <1>1
<1>3. Turn(b[1]) < Turn(a[1]) => a[1] # b[1]
    BY <1>1
<1>4. a[2] < b[2] => ~(b[2] < a[2])
    BY <1>1
<1> QED
    BY <1>2, <1>3, <1>4 DEF Before

LEMMA ListIs ==
    ASSUME NEW f, NEW n \in Nat, DOMAIN f = 1..n, f = [i \in DOMAIN f |-> f[i]]
    PROVE  f \in Seq(Range(f)) /\ Len(f) = n /\ (f # <<>> <=> n # 0)
<1>1. \A i \in 1..n : f[i] \in Range(f)
    BY DEF Range
<1>2. f \in Seq(Range(f)) /\ Len(f) = n
    BY <1>1
<1>3. f = <<>> <=> 1..n = {}
    BY <1>2, EmptyDomain
<1> QED
    BY <1>2, <1>3

\* Each node of a default workflow depends on the one before it.
LEMMA DefaultIsDag ==
    ASSUME output \in Outputs, ~IsDevOutput, NEW k, NEW size \in Nat, DOMAIN k.applied = 1..size
    PROVE  /\ IsDag(DefaultDag(output, k))
           /\ DOMAIN DefaultDag(output, k) = DOMAIN DefaultIds(k)
           /\ \A i \in DOMAIN DefaultIds(k) : DefaultDag(output, k)[i].id = DefaultIds(k)[i]
<1> DEFINE ids == DefaultIds(k)
           dag == DefaultDag(output, k)
<1>1. /\ ids \in Seq(NodeIds) /\ ids # <<>> /\ ids[1] = <<"plan", 1>> /\ Rises(ids)
    BY DefaultIdsRise
<1>2. /\ DOMAIN dag = DOMAIN ids
      /\ \A i \in DOMAIN ids : dag[i].id = ids[i] /\ dag[i].after = IF i = 1 THEN {} ELSE {ids[i - 1]}
    BY DEF DefaultDag, DefaultIds
<1>3. dag \in Seq(Range(dag)) /\ Len(dag) = Len(ids) /\ (dag # <<>> <=> Len(ids) # 0)
  <2>1. dag = [i \in DOMAIN dag |-> dag[i]]
      BY DEF DefaultDag
  <2>2. DOMAIN dag = 1..Len(ids) /\ Len(ids) \in Nat
    <3> HIDE DEF ids, dag
    <3> QED
        BY <1>1, <1>2
  <2> HIDE DEF ids, dag
  <2> QED
      BY <2>1, <2>2, ListIs
<1> HIDE DEF ids, dag
<1>4. /\ Len(ids) \in Nat /\ DOMAIN ids = 1..Len(ids) /\ 1 \in DOMAIN ids
      /\ \A i \in DOMAIN ids : ids[i] \in NodeIds
  <2>1. \A S : \A s \in Seq(S) : /\ Len(s) \in Nat /\ DOMAIN s = 1..Len(s)
                                  /\ \A i \in DOMAIN s : s[i] \in S
      OBVIOUS
  <2>2. DOMAIN ids # {}
      BY <1>1, EmptyDomain
  <2> QED
      BY <1>1, <2>1, <2>2
<1>5. dag # <<>> /\ dag[1].id = <<"plan", 1>>
  <2>1. Len(ids) # 0
      BY <1>4
  <2>2. dag # <<>>
      BY <1>3, <2>1
  <2>3. dag[1].id = ids[1]
      BY <1>2, <1>4
  <2> QED
      BY <1>1, <2>2, <2>3
<1>6. ASSUME NEW i \in DOMAIN dag, NEW j \in DOMAIN dag, dag[i].id = dag[j].id PROVE i = j
  <2>1. i \in 1..Len(ids) /\ j \in 1..Len(ids) /\ Len(ids) \in Nat
      BY <1>2, <1>4
  <2>2. ids[i] \in NodeIds /\ ids[i] = ids[j]
      BY <1>2, <1>4, <1>6
  <2>3. ~Before(ids[i], ids[j]) /\ ~Before(ids[j], ids[i])
      BY <2>2, BeforeIsStrict
  <2>4. ~(i < j) /\ ~(j < i)
      BY <1>1, <1>2, <2>3 DEF Rises
  <2> QED
      BY <2>1, <2>4
<1>7. ASSUME NEW i \in DOMAIN dag
      PROVE  /\ dag[i].after \subseteq {dag[j].id : j \in 1..(i - 1)}
             /\ i > 1 => dag[i].after # {}
  <2>1. CASE i = 1
    <3>1. dag[i].after = {}
        BY <1>2, <2>1
    <3> QED
        BY <2>1, <3>1
  <2>2. CASE i # 1
    <3>1. i - 1 \in 1..(i - 1) /\ i - 1 \in DOMAIN ids
        BY <1>2, <1>4, <2>2
    <3>2. dag[i - 1].id = ids[i - 1] /\ dag[i].after = {ids[i - 1]}
        BY <1>2, <2>2, <3>1
    <3> QED
        BY <3>1, <3>2
  <2> QED
      BY <2>1, <2>2
<1>8. IsDag(dag)
    BY <1>5, <1>6, <1>7 DEF IsDag
<1> QED
    BY <1>2, <1>8 DEF ids, dag

\* The six nodes of a developer workflow.
LEMMA DevNodesAre ==
    /\ DevDag \in Seq(Range(DevDag)) /\ DOMAIN DevDag = 1..6 /\ DevDag # <<>>
    /\ DevDag[1].id = <<"plan", 1>> /\ DevDag[1].after = {}
    /\ DevDag[2].id = <<"code", 1>> /\ DevDag[2].after = {<<"plan", 1>>}
    /\ DevDag[3].id = <<"doc", 1>> /\ DevDag[3].after = {<<"code", 1>>}
    /\ DevDag[4].id = <<"test", 1>> /\ DevDag[4].after = {<<"code", 1>>}
    /\ DevDag[5].id = <<"audit", 1>> /\ DevDag[5].after = {<<"doc", 1>>, <<"test", 1>>}
    /\ DevDag[6].id = <<"fix", 1>> /\ DevDag[6].after = {<<"audit", 1>>}
<1> DEFINE dag == <<<<"plan", {}>>, <<"code", {"plan"}>>, <<"doc", {"code"}>>,
                    <<"test", {"code"}>>, <<"audit", {"doc", "test"}>>, <<"fix", {"audit"}>>>>
<1>1. /\ DOMAIN dag = 1..6
      /\ dag[1] = <<"plan", {}>> /\ dag[2] = <<"code", {"plan"}>> /\ dag[3] = <<"doc", {"code"}>>
      /\ dag[4] = <<"test", {"code"}>> /\ dag[5] = <<"audit", {"doc", "test"}>>
      /\ dag[6] = <<"fix", {"audit"}>>
    OBVIOUS
<1>2. DevDag = [i \in DOMAIN dag |-> [id |-> Node(dag[i][1], 1), approval |-> None,
                                      after |-> {Node(n, 1) : n \in dag[i][2]}]]
    BY DEF DevDag
<1> HIDE DEF dag
<1>3. /\ DOMAIN DevDag = 1..6
      /\ \A i \in 1..6 : /\ DevDag[i].id = <<dag[i][1], 1>>
                         /\ DevDag[i].after = {<<n, 1>> : n \in dag[i][2]}
    BY <1>1, <1>2 DEF Node
<1>4. DevDag \in Seq(Range(DevDag)) /\ DevDag # <<>>
  <2>1. DevDag = [i \in DOMAIN DevDag |-> DevDag[i]]
      BY <1>1, <1>2
  <2>2. 6 \in Nat /\ 6 # 0
      OBVIOUS
  <2> QED
      BY <1>3, <2>1, <2>2, ListIs
<1>5. DevDag[1].id = <<"plan", 1>> /\ DevDag[1].after = {}
    BY <1>1, <1>3
<1>6. DevDag[2].id = <<"code", 1>> /\ DevDag[2].after = {<<"plan", 1>>}
    BY <1>1, <1>3
<1>7. DevDag[3].id = <<"doc", 1>> /\ DevDag[3].after = {<<"code", 1>>}
    BY <1>1, <1>3
<1>8. DevDag[4].id = <<"test", 1>> /\ DevDag[4].after = {<<"code", 1>>}
    BY <1>1, <1>3
<1>9. DevDag[5].id = <<"audit", 1>> /\ DevDag[5].after = {<<"doc", 1>>, <<"test", 1>>}
    BY <1>1, <1>3
<1>10. DevDag[6].id = <<"fix", 1>> /\ DevDag[6].after = {<<"audit", 1>>}
    BY <1>1, <1>3
<1> QED
    BY <1>3, <1>4, <1>5, <1>6, <1>7, <1>8, <1>9, <1>10

LEMMA DevIsDag == IsDag(DevDag)
<1>1. ASSUME NEW i \in 1..6, NEW j \in 1..6, DevDag[i].id = DevDag[j].id PROVE i = j
    BY <1>1, DevNodesAre
<1>2. ASSUME NEW i \in 1..6
      PROVE  /\ DevDag[i].after \subseteq {DevDag[j].id : j \in 1..(i - 1)}
             /\ i > 1 => DevDag[i].after # {}
  <2>1. CASE i = 1
      BY <2>1, DevNodesAre
  <2>2. CASE i = 2
      BY <2>2, DevNodesAre
  <2>3. CASE i = 3
      BY <2>3, DevNodesAre
  <2>4. CASE i = 4
      BY <2>4, DevNodesAre
  <2>5. CASE i = 5
      BY <2>5, DevNodesAre
  <2>6. CASE i = 6
      BY <2>6, DevNodesAre
  <2> QED
      BY <2>1, <2>2, <2>3, <2>4, <2>5, <2>6
<1> QED
    BY <1>1, <1>2, DevNodesAre DEF IsDag

\* The log is in the order of the phases, and in each phase in that of its list.
InOrder ==
    /\ Rises(log)
    /\ \A i \in DOMAIN log : log[i][1] = "code_mutation" => log[i][2] \in 1..Len(onDisk)
    /\ pc \in Working => \A i \in DOMAIN log :
         Turn(log[i][1]) <= Turn(pc) /\ (log[i][1] = pc => log[i][2] < at)

LEMMA StepsAre ==
    ASSUME output \in Outputs, NEW step \in Authorized
    PROVE  /\ step[1] \in Steps /\ step[2] \in Nat
           /\ step[1] = "inspect" => step[2] \in EffectsOf(output, "inspect_file")
           /\ step[1] = "test" => step[2] \in TestEffects
<1>1. /\ \A i \in EffectsOf(output, "inspect_file") : i \in Nat
      /\ \A i \in TestEffects : i \in Nat
    BY EffectsAreFinite, OutputIsTyped DEF TestEffects
<1>2. CASE step \in {<<"inspect", i, output.effects[i].path>> :
                       i \in {i \in EffectsOf(output, "inspect_file") :
                                MayInspect(output.effects[i].path)}}
    BY <1>1, <1>2 DEF Steps
<1>3. CASE step \in {<<"test", i, output.effects[i].argv>> :
                       i \in {i \in TestEffects : TestRefusal(output.effects[i]) = "none"}}
    BY <1>1, <1>3 DEF Steps
<1>4. CASE step \in {<<"code_mutation", n, c>> :
                       n \in Nat, c \in {c \in Changes : c.path \in approved \intersect workspace.scope}}
    BY <1>1, <1>4 DEF Steps
<1> QED
    BY <1>2, <1>3, <1>4 DEF Authorized

LEMMA TurnStays ==
    ASSUME SameRun
    PROVE  /\ \A what : Turn(what)' = Turn(what)
           /\ log' = log => (Rises(log)' <=> Rises(log))
<1>1. IsDevOutput' <=> IsDevOutput
    BY SameRunKeeps
<1>2. \A what : Turn(what)' = Turn(what)
    BY <1>1 DEF Turn
<1> QED
    BY <1>2 DEF Rises, Before

LEMMA OrderStays ==
    ASSUME InOrder, SameRun, log' = log, onDisk' = onDisk,
           pc' \in Working => /\ pc' = pc /\ at \in Nat /\ at' \in {at, at + 1}
                              /\ \A i \in DOMAIN log : log[i][2] \in Nat
    PROVE  InOrder'
<1>1. Rises(log)'
    BY TurnStays DEF InOrder
<1>2. \A i \in DOMAIN log' : log'[i][1] = "code_mutation" => log'[i][2] \in 1..Len(onDisk')
    BY DEF InOrder
<1>3. ASSUME pc' \in Working, NEW i \in DOMAIN log'
      PROVE  Turn(log[i][1])' <= Turn(pc)' /\ (log'[i][1] = pc' => log'[i][2] < at')
  <2>1. Turn(log[i][1]) <= Turn(pc) /\ (log[i][1] = pc => log[i][2] < at)
      BY <1>3 DEF InOrder
  <2>2. Turn(log[i][1])' = Turn(log[i][1]) /\ Turn(pc)' = Turn(pc)
      BY <1>3, TurnStays DEF Turn
  <2>3. log[i][2] < at => log[i][2] < at'
      BY <1>3
  <2> QED
      BY <1>3, <2>1, <2>2, <2>3
<1> QED
    BY <1>1, <1>2, <1>3 DEF InOrder

LEMMA WorkingLog ==
    ASSUME IInv, pc \in Working
    PROVE  /\ log \in Seq(Authorized) /\ Len(log) \in Nat /\ DOMAIN log = 1..Len(log)
           /\ \A i \in DOMAIN log : log[i][1] \in Steps /\ log[i][2] \in Nat
<1>1. log \in Seq(Authorized) /\ output \in Outputs
    BY WorkingFacts DEF IInv, Carried, Working
<1>2. Len(log) \in Nat /\ DOMAIN log = 1..Len(log) /\ \A i \in DOMAIN log : log[i] \in Authorized
    BY <1>1
<1> QED
    BY <1>1, <1>2, StepsAre

\* A step that is carried out is the last so far.
LEMMA OrderGrows ==
    ASSUME IInv, InOrder, pc \in {"inspect", "test", "mutate"}, SameRun,
           NEW step \in Authorized, log' = Append(log, step),
           step[1] = IF pc = "mutate" THEN "code_mutation" ELSE pc,
           pc = "mutate" => /\ step[2] = Len(known.applied) + 1
                            /\ Len(onDisk') = Len(onDisk) + 1,
           pc # "mutate" => step[2] = at /\ onDisk' = onDisk,
           pc' \in Working => pc' = pc /\ at' = at + 1
    PROVE  InOrder'
<1>1. /\ log \in Seq(Authorized) /\ Len(log) \in Nat /\ DOMAIN log = 1..Len(log)
      /\ \A i \in DOMAIN log : log[i][1] \in Steps /\ log[i][2] \in Nat
    BY WorkingLog DEF Working
<1>2. /\ DOMAIN log' = 1..(Len(log) + 1)
      /\ \A i \in 1..Len(log) : log'[i] = log[i]
      /\ log'[Len(log) + 1] = step
    BY <1>1, AppendIsSeq
<1>3. /\ at \in Nat /\ onDisk \in Seq(Changes) /\ Len(onDisk) \in Nat
      /\ known.applied = onDisk
  <2>1. reason # "mutation" /\ at \in Nat
      BY WorkingFacts DEF IInv, Place, Working
  <2>2. onDisk \in Seq(Changes) /\ known.applied = onDisk
      BY <2>1 DEF IInv, ChangesMade
  <2> QED
      BY <2>1, <2>2
<1>4. Turn(step[1]) = Turn(pc) /\ step[2] \in Nat
    BY <1>3, TurnIs
<1>5. ASSUME NEW i \in DOMAIN log PROVE Before(log[i], step)
  <2>1. Turn(log[i][1]) <= Turn(pc) /\ (log[i][1] = pc => log[i][2] < at)
      BY DEF InOrder, Working
  <2>2. log[i][1] \in Steps /\ Turn(log[i][1]) \in 1..5 /\ Turn(pc) \in 1..5
      BY <1>1, TurnIs
  <2>3. Turn(log[i][1]) = Turn(pc) => log[i][1] = step[1]
      BY <2>2, TurnIs DEF Steps
  <2>4. log[i][1] = step[1] => log[i][2] < step[2]
    <3>1. CASE pc = "mutate"
      <4>1. log[i][1] = "code_mutation" => log[i][2] \in 1..Len(onDisk)
          BY DEF InOrder
      <4> QED
          BY <1>3, <3>1, <4>1
    <3>2. CASE pc # "mutate"
        BY <2>1, <3>2
    <3> QED
        BY <3>1, <3>2
  <2> QED
      BY <1>4, <2>1, <2>2, <2>3, <2>4 DEF Before
<1>6. Rises(log')
  <2> SUFFICES ASSUME NEW i \in DOMAIN log', NEW j \in DOMAIN log', i < j
               PROVE  Before(log'[i], log'[j])
      BY DEF Rises
  <2>1. i \in 1..Len(log) /\ j \in 1..(Len(log) + 1)
      BY <1>1, <1>2
  <2>2. CASE j = Len(log) + 1
      BY <1>1, <1>2, <1>5, <2>1, <2>2
  <2>3. CASE j # Len(log) + 1
    <3>1. j \in 1..Len(log)
        BY <1>1, <2>1, <2>3
    <3>2. Before(log[i], log[j])
        BY <1>1, <2>1, <3>1 DEF InOrder, Rises
    <3> QED
        BY <1>2, <2>1, <3>1, <3>2
  <2> QED
      BY <2>2, <2>3
<1>7. Rises(log)'
  <2>1. \A what : Turn(what)' = Turn(what)
      BY TurnStays
  <2> QED
      BY <1>6, <2>1 DEF Rises, Before
<1>8. ASSUME NEW i \in DOMAIN log', log'[i][1] = "code_mutation" PROVE log'[i][2] \in 1..Len(onDisk')
  <2>1. CASE i = Len(log) + 1
      BY <1>2, <1>3, <1>8, <2>1
  <2>2. CASE i # Len(log) + 1
    <3>1. i \in DOMAIN log /\ log'[i] = log[i]
        BY <1>1, <1>2, <2>2
    <3>2. log[i][2] \in 1..Len(onDisk)
        BY <1>8, <3>1 DEF InOrder
    <3>3. Len(onDisk') = Len(onDisk) \/ Len(onDisk') = Len(onDisk) + 1
        OBVIOUS
    <3> QED
        BY <1>3, <3>1, <3>2, <3>3
  <2> QED
      BY <2>1, <2>2
<1>9. ASSUME pc' \in Working, NEW i \in DOMAIN log'
      PROVE  Turn(log[i][1])' <= Turn(pc)' /\ (log'[i][1] = pc' => log'[i][2] < at')
  <2>1. Turn(log[i][1])' = Turn(log'[i][1]) /\ Turn(pc)' = Turn(pc')
      BY <1>9, TurnStays DEF Turn
  <2>2. CASE i = Len(log) + 1
    <3>1. log'[i] = step /\ (step[1] = pc => step[2] = at)
        BY <1>2, <2>2
    <3>2. Turn(pc) \in 1..5 /\ at < at + 1
        BY <1>3, TurnIs
    <3> QED
        BY <1>4, <1>9, <2>1, <3>1, <3>2
  <2>3. CASE i # Len(log) + 1
    <3>1. i \in DOMAIN log /\ log'[i] = log[i]
        BY <1>1, <1>2, <2>3
    <3>2. Turn(log[i][1]) <= Turn(pc) /\ (log[i][1] = pc => log[i][2] < at)
        BY <3>1 DEF InOrder, Working
    <3>3. log[i][2] < at => log[i][2] < at + 1
        BY <1>1, <1>3, <3>1
    <3> QED
        BY <1>9, <2>1, <3>1, <3>2, <3>3
  <2> QED
      BY <2>2, <2>3
<1> QED
    BY <1>7, <1>8, <1>9 DEF InOrder

LEMMA InOrderStep == ASSUME IInv, InOrder, [Next]_vars PROVE InOrder'
<1>1. CASE RunAgent \/ GateOutput
  <2>1. log' = log /\ pc \in {"agent", "gate"}
      BY <1>1 DEF RunAgent, GateOutput, Fail, history
  <2>2. log = <<>>
    <3>1. Phase \in {"agent", "gate"}
        BY <2>1, PhaseIs DEF IInv, Place
    <3> QED
        BY <3>1 DEF IInv, Place
  <2>3. DOMAIN <<>> = {}
      OBVIOUS
  <2> QED
      BY <2>1, <2>2, <2>3 DEF InOrder, Rises
<1>2. CASE EndPhase
  <2>1. /\ pc \in {"inspect", "mutate", "test"} /\ pc' = After(pc)
        /\ SameRun /\ log' = log /\ onDisk' = onDisk
      BY <1>2 DEF EndPhase, SameRun, inputs, history
  <2>2. Turn(pc) < Turn(pc')
    <3>1. /\ pc = "inspect" => pc' = IF IsDevOutput THEN "mutate" ELSE "test"
          /\ pc = "mutate" => pc' = IF IsDevOutput THEN "test" ELSE "finalize"
          /\ pc = "test" => pc' = IF IsDevOutput THEN "finalize" ELSE "mutate"
        BY <2>1 DEF After, IsDevOutput
    <3> QED
        BY <2>1, <3>1, TurnIs
  <2>3. ASSUME NEW i \in DOMAIN log
        PROVE  Turn(log[i][1])' <= Turn(pc)' /\ log[i][1] # pc'
    <3>1. Turn(log[i][1]) <= Turn(pc)
        BY <2>1 DEF InOrder, Working
    <3>2. Turn(log[i][1]) \in 1..5 /\ Turn(pc) \in 1..5 /\ Turn(pc') \in 1..5
        BY TurnIs
    <3>3. Turn(log[i][1])' = Turn(log[i][1]) /\ Turn(pc)' = Turn(pc')
        BY <2>1, TurnStays DEF Turn
    <3> QED
        BY <2>2, <3>1, <3>2, <3>3
  <2>4. Rises(log)'
      BY <2>1, TurnStays DEF InOrder
  <2> QED
      BY <2>1, <2>3, <2>4 DEF InOrder
<1>3. CASE Skip
  <2>1. pc' = pc /\ at' = at + 1 /\ pc \in Working /\ SameRun /\ log' = log /\ onDisk' = onDisk
      BY <1>3 DEF Skip, Proceed, SameRun, inputs, history, Working
  <2>2. at \in Nat /\ \A i \in DOMAIN log : log[i][2] \in Nat
      BY <2>1, WorkingLog DEF IInv, Place
  <2> QED
      BY <2>1, <2>2, OrderStays
<1>4. ASSUME pc \in Working, NEW why, Fail(why) PROVE InOrder'
  <2>1. pc' \notin Working /\ SameRun /\ log' = log /\ onDisk' = onDisk
      BY <1>4 DEF Fail, Unwind, SameRun, inputs, history, Working
  <2> QED
      BY <2>1, OrderStays
<1>5. CASE Inspect
  <2> DEFINE path == output.effects[at].path
             step == <<"inspect", at, path>>
  <2>1. pc = "inspect" /\ at <= Len(output.effects) /\ output.effects[at].kind = "inspect_file"
      BY <1>5 DEF Inspect, ComesTo
  <2>2. CASE Fail("inspect target")
      BY <1>4, <2>1, <2>2 DEF Working
  <2>3. CASE ~Fail("inspect target")
    <3>1. /\ MayInspect(path) /\ log' = Append(log, step) /\ pc' = pc /\ at' = at + 1
          /\ onDisk' = onDisk /\ SameRun
        BY <1>5, <2>3 DEF Inspect, Proceed, SameRun, inputs
    <3>2. at \in EffectsOf(output, "inspect_file")
        BY <2>1, WorkingFacts, OutputIsTyped DEF Working, Todo, EffectsOf
    <3>3. step \in Authorized
        BY <3>1, <3>2 DEF Authorized
    <3>4. step[1] = "inspect" /\ step[2] = at
        OBVIOUS
    <3> HIDE DEF step, path
    <3> QED
        BY <2>1, <3>1, <3>3, <3>4, OrderGrows
  <2> QED
      BY <2>2, <2>3
<1>6. CASE Test
  <2> DEFINE effect == output.effects[at]
             step == <<"test", at, effect.argv>>
  <2>1. pc = "test" /\ at <= Len(output.effects) /\ effect.kind = "test_command"
      BY <1>6 DEF Test, ComesTo
  <2>2. \/ \E why : Fail(why)
        \/ /\ TestRefusal(effect) = "none" /\ log' = Append(log, step) /\ onDisk' = onDisk
           /\ \/ \E k : Proceed(k)
              \/ \E k, why : Unwind(k, why)
      BY <1>6 DEF Test
  <2>3. CASE \E why : Fail(why)
      BY <1>4, <2>1, <2>3 DEF Working
  <2>4. CASE /\ TestRefusal(effect) = "none" /\ log' = Append(log, step) /\ onDisk' = onDisk
             /\ \/ \E k : Proceed(k)
                \/ \E k, why : Unwind(k, why)
    <3>1. SameRun /\ ((pc' = pc /\ at' = at + 1) \/ pc' \notin Working)
        BY <2>1, <2>4 DEF Proceed, Unwind, SameRun, inputs, Working
    <3>2. at \in TestEffects
        BY <2>1, WorkingFacts, OutputIsTyped DEF Working, Todo, TestEffects, EffectsOf
    <3>3. step \in Authorized
        BY <2>4, <3>2 DEF Authorized
    <3>4. step[1] = "test" /\ step[2] = at
        OBVIOUS
    <3>5. log' = Append(log, step) /\ onDisk' = onDisk
        BY <2>4
    <3> HIDE DEF step, effect
    <3> QED
        BY <2>1, <3>1, <3>3, <3>4, <3>5, OrderGrows
  <2> QED
      BY <2>2, <2>3, <2>4
<1>7. CASE Mutate
  <2> DEFINE change == output.changes[at]
             step == <<"code_mutation", Len(known.applied) + 1, change>>
  <2>1. pc = "mutate" /\ at <= Len(output.changes)
      BY <1>7 DEF Mutate
  <2>2. \/ Deny(change) /\ UNCHANGED history
        \/ Fail("mutation")
        \/ /\ change.path \in approved \intersect workspace.scope /\ Changed(change)
           /\ \/ \E k : Proceed(k)
              \/ \E k, why : Unwind(k, why)
      BY <1>7 DEF Mutate
  <2>3. CASE Deny(change) /\ UNCHANGED history
    <3>1. pc' = pc /\ at' = at + 1 /\ SameRun /\ log' = log /\ onDisk' = onDisk
        BY <2>3 DEF Deny, Proceed, SameRun, inputs, history
    <3>2. at \in Nat /\ \A i \in DOMAIN log : log[i][2] \in Nat
        BY <2>1, WorkingLog DEF IInv, Place, Working
    <3> QED
        BY <3>1, <3>2, OrderStays
  <2>4. CASE Fail("mutation")
      BY <1>4, <2>1, <2>4 DEF Working
  <2>5. CASE /\ change.path \in approved \intersect workspace.scope /\ Changed(change)
             /\ \/ \E k : Proceed(k)
                \/ \E k, why : Unwind(k, why)
    <3>1. /\ SameRun /\ ((pc' = pc /\ at' = at + 1) \/ pc' \notin Working)
          /\ log' = Append(log, step) /\ onDisk' = Append(onDisk, change)
        BY <2>1, <2>5 DEF Proceed, Unwind, Changed, SameRun, inputs, Working
    <3>2. /\ known.applied \in Seq(Changes) /\ onDisk \in Seq(Changes) /\ output \in Outputs
          /\ change \in Changes
      <4>1. at \in 1..Len(output.changes) /\ output \in Outputs
          BY <2>1, WorkingFacts DEF Working, Todo
      <4>2. change \in Changes
          BY <4>1, OutputIsTyped DEF Changes, Range
      <4>3. known.applied \in Seq(Changes) /\ onDisk \in Seq(Changes)
          BY DEF IInv, Held, Lists, ChangesMade
      <4> QED
          BY <4>1, <4>2, <4>3
    <3>3. step \in Authorized
      <4>1. Len(known.applied) + 1 \in Nat
          BY <3>2
      <4> QED
          BY <2>5, <3>2, <4>1 DEF Authorized
    <3>4. step[1] = "code_mutation" /\ step[2] = Len(known.applied) + 1
        OBVIOUS
    <3>5. Len(onDisk') = Len(onDisk) + 1
        BY <3>1, <3>2, AppendIsSeq
    <3> HIDE DEF step, change
    <3> QED
        BY <2>1, <3>1, <3>3, <3>4, <3>5, OrderGrows
  <2> QED
      BY <2>2, <2>3, <2>4, <2>5
<1>8. CASE Finalize
  <2>1. pc = "finalize" /\ SameRun /\ log' = log /\ onDisk' = onDisk /\ pc' \notin Working
      BY <1>8 DEF Finalize, Fail, Unwind, SameRun, inputs, history, Working
  <2> QED
      BY <2>1, OrderStays
<1>9. CASE Recover
  <2>1. SameRun /\ log' = log /\ onDisk' = onDisk /\ pc' \notin Working
      BY <1>9 DEF Recover, SameRun, inputs, history, Working
  <2> QED
      BY <2>1, OrderStays
<1>10. CASE UNCHANGED vars
  <2>1. SameRun /\ log' = log /\ onDisk' = onDisk /\ pc' = pc /\ at' = at
      BY <1>10 DEF vars, SameRun, inputs, history
  <2>2. pc \in Working => at \in Nat /\ \A i \in DOMAIN log : log[i][2] \in Nat
      BY WorkingLog DEF IInv, Place
  <2> QED
      BY <2>1, <2>2, OrderStays
<1> QED
    BY <1>1, <1>2, <1>3, <1>5, <1>6, <1>7, <1>8, <1>9, <1>10 DEF Next

\* A workflow on disk is a DAG: the planned one from the start.
DagOnDisk == told.workflow # Absent => IsDag(told.workflow.dag)

LEMMA MadeIsDag ==
    ASSUME output \in Outputs, known \in Lists
    PROVE  IsDag(IF IsDevOutput THEN DevDag ELSE DefaultDag(output, known))
<1>1. known.applied \in Seq(Changes)
    BY DEF Lists
<1>2. Len(known.applied) \in Nat /\ DOMAIN known.applied = 1..Len(known.applied)
    BY <1>1
<1>3. ~IsDevOutput => IsDag(DefaultDag(output, known))
    BY <1>2, DefaultIsDag
<1> QED
    BY <1>3, DevIsDag

LEMMA DagStep == ASSUME IInv, DagOnDisk, [Next]_vars PROVE DagOnDisk'
<1>1. ASSUME told'.workflow = told.workflow PROVE DagOnDisk'
    BY <1>1 DEF DagOnDisk, Absent
<1>2. CASE GateOutput /\ told' = [told EXCEPT !.workflow = Planned]
  <2>1. pc = "gate" /\ told' = [told EXCEPT !.workflow = Planned]
      BY <1>2 DEF GateOutput
  <2>2. output \in Outputs /\ known \in Lists
      BY <2>1 DEF IInv, Place, Held
  <2>3. Planned.dag = IF IsDevOutput THEN DevDag ELSE DefaultDag(output, known)
      BY DEF Planned, Workflow, IsDevOutput
  <2>4. told' = [workflow |-> Planned, audit |-> told.audit, fix |-> told.fix, trace |-> told.trace]
    <3>1. told = [workflow |-> told.workflow, audit |-> told.audit,
                  fix |-> told.fix, trace |-> told.trace]
        BY DEF IInv, Told
    <3> HIDE DEF Planned
    <3> QED
        BY <2>1, <3>1
  <2>5. told'.workflow = Planned
      BY <2>4
  <2> QED
      BY <2>2, <2>3, <2>5, MadeIsDag DEF DagOnDisk
<1>3. ASSUME NEW ok \in SUBSET Stores, told' = Terminal(EndStatus, reason, ok), output \in Outputs
      PROVE  DagOnDisk'
  <2>1. told'.workflow = IF "workflow" \in ok THEN EndWorkflow(ok) ELSE told.workflow
      BY <1>3, TerminalIs
  <2>2. IsDag(EndWorkflow(ok).dag)
      BY <1>3, EndWorkflowIs, MadeIsDag DEF IInv, Held
  <2>3. CASE "workflow" \in ok
      BY <2>1, <2>2, <2>3 DEF DagOnDisk
  <2> QED
      BY <1>1, <2>1, <2>3
<1>4. CASE Finalize
  <2>1. pc = "finalize" /\ reason = None /\ output \in Outputs
      BY <1>4, WorkingFacts DEF Finalize, Working
  <2>2. told' = Terminal(EndStatus, reason, Stores) \/ told' = told
      BY <1>4, <2>1 DEF Finalize, Fail, Unwind, EndStatus
  <2> QED
      BY <1>1, <1>3, <2>1, <2>2
<1>5. CASE Recover
  <2>1. pc = "recover" /\ \E ok \in SUBSET Stores : told' = Terminal("failed", reason, ok)
      BY <1>5 DEF Recover
  <2>2. reason # None /\ output \in Outputs
      BY <2>1 DEF IInv, Place
  <2>3. EndStatus = "failed"
      BY <2>2 DEF EndStatus
  <2> QED
      BY <1>3, <2>1, <2>2, <2>3
<1>6. CASE RunAgent \/ (GateOutput /\ told' # [told EXCEPT !.workflow = Planned])
  <2>1. told' = told
      BY <1>6 DEF RunAgent, GateOutput, Fail, Unwind
  <2> QED
      BY <1>1, <2>1
<1>7. CASE EndPhase \/ Inspect \/ Test \/ Skip \/ Mutate
  <2>1. \/ EndPhase \/ (\E k : Proceed(k)) \/ \E k, why : Unwind(k, why)
      BY <1>7 DEF Inspect, Test, Skip, Mutate, Deny, Fail
  <2>2. told' = told
      BY <2>1 DEF EndPhase, Proceed, Unwind
  <2> QED
      BY <1>1, <2>2
<1>8. CASE UNCHANGED vars
    BY <1>1, <1>8 DEF vars
<1> QED
    BY <1>2, <1>4, <1>5, <1>6, <1>7, <1>8 DEF Next

LEMMA AlwaysInOrder == Spec => [](IInv /\ InOrder /\ DagOnDisk)
<1>1. Init => InOrder /\ DagOnDisk
  <2>1. DOMAIN <<>> = {}
      OBVIOUS
  <2>2. Init => InOrder
      BY <2>1 DEF Init, InOrder, Rises
  <2>3. Init => DagOnDisk
      BY DEF Init, DagOnDisk, Absent
  <2> QED
      BY <2>2, <2>3
<1>2. IInv /\ InOrder /\ DagOnDisk /\ [Next]_vars => (InOrder /\ DagOnDisk)'
    BY InOrderStep, DagStep
<1> QED
    BY <1>1, <1>2, AlwaysIInv, PTL DEF Spec

\* What a terminal workflow is of, for the steps of a run that has ended.
LEMMA EndedLog ==
    ASSUME IInv, IsTerminal
    PROVE  /\ log \in Seq(Authorized) /\ output \in Outputs
           /\ told.workflow.dag = IF IsDevOutput THEN DevDag ELSE DefaultDag(output, known)
           /\ known.applied \in Seq(Changes)
           /\ reason # "mutation" => known.applied = onDisk
<1>1. PICK ok \in SUBSET Stores : EndTold(ok) /\ told.workflow = EndWorkflow(ok)
    BY TerminalIsTheEnd
<1>2. output \in Outputs /\ pc \in {"returned", "raised"} /\ reason \notin EarlyReasons
      /\ (pc = "returned" <=> reason = None)
    BY TerminalIsTheEnd
<1>3. Phase \notin {"agent", "gate"}
    BY <1>2, PhaseIs DEF IInv, Place
<1> QED
    BY <1>1, <1>2, <1>3, EndWorkflowIs DEF IInv, Carried, Held, Lists, ChangesMade

\* The nodes of the steps of a default run.
LEMMA DefaultTells ==
    ASSUME IInv, InOrder, IsTerminal, ~IsDevOutput PROVE TellsSteps(told.workflow.dag)
<1> DEFINE ids == DefaultIds(known)
           dag == told.workflow.dag
           size == Len(known.applied)
<1>1. /\ log \in Seq(Authorized) /\ output \in Outputs
      /\ dag = DefaultDag(output, known) /\ known.applied \in Seq(Changes)
      /\ reason # "mutation" => known.applied = onDisk
    BY EndedLog
<1>2. size \in Nat /\ DOMAIN known.applied = 1..size
    BY <1>1
<1>3. /\ ids \in Seq(NodeIds) /\ Rises(ids)
      /\ \A i \in EffectsOf(output, "inspect_file") : <<"inspect", i>> \in Range(ids)
      /\ \A i \in TestEffects : <<"test", i>> \in Range(ids)
      /\ \A i \in 1..size : <<"code_mutation", i>> \in Range(ids)
    BY <1>1, <1>2, DefaultIdsRise
<1>4. DOMAIN dag = DOMAIN ids /\ \A i \in DOMAIN ids : dag[i].id = ids[i]
    BY <1>1, <1>2, DefaultIsDag
<1> HIDE DEF ids, dag, size
<1>5. /\ DOMAIN log = 1..Len(log) /\ Len(log) \in Nat
      /\ \A i \in DOMAIN log : log[i] \in Authorized
      /\ DOMAIN ids = 1..Len(ids) /\ Len(ids) \in Nat
      /\ \A i \in DOMAIN ids : ids[i] \in NodeIds
  <2>1. \A S : \A s \in Seq(S) : /\ DOMAIN s = 1..Len(s) /\ Len(s) \in Nat
                                  /\ \A i \in DOMAIN s : s[i] \in S
      OBVIOUS
  <2> QED
      BY <1>1, <1>3, <2>1
<1>6. \A i \in DOMAIN log : NodeOf(log[i]) = <<log[i][1], log[i][2]>>
    BY DEF NodeOf, IsDevOutput
<1>7. ASSUME NEW i \in DOMAIN log, ~(log[i][1] = "code_mutation" /\ reason = "mutation")
      PROVE  Places(dag, log[i]) # {}
  <2>1. /\ log[i][1] \in Steps /\ log[i][2] \in Nat
        /\ log[i][1] = "inspect" => log[i][2] \in EffectsOf(output, "inspect_file")
        /\ log[i][1] = "test" => log[i][2] \in TestEffects
      BY <1>1, <1>5, StepsAre
  <2>2. log[i][1] = "code_mutation" => log[i][2] \in 1..size
      BY <1>1, <1>7 DEF InOrder, size
  <2>3. NodeOf(log[i]) \in Range(ids)
      BY <1>3, <1>6, <2>1, <2>2 DEF Steps
  <2>4. PICK n \in DOMAIN ids : ids[n] = NodeOf(log[i])
      BY <2>3 DEF Range
  <2> QED
      BY <1>4, <2>4 DEF Places
<1>8. ASSUME NEW i \in DOMAIN log, NEW j \in (i + 1)..Len(log),
             NEW m \in Places(dag, log[i]), NEW n \in Places(dag, log[j])
      PROVE  m <= n
  <2>1. j \in DOMAIN log /\ i < j
      BY <1>5
  <2>2. /\ m \in DOMAIN ids /\ ids[m] = <<log[i][1], log[i][2]>>
        /\ n \in DOMAIN ids /\ ids[n] = <<log[j][1], log[j][2]>>
      BY <1>4, <1>6, <2>1 DEF Places
  <2>3. Before(ids[m], ids[n])
    <3>1. Before(log[i], log[j])
        BY <2>1 DEF InOrder, Rises
    <3> QED
        BY <2>2, <3>1 DEF Before
  <2>4. ~Before(ids[n], ids[m])
      BY <1>5, <2>2, <2>3, BeforeIsStrict
  <2>5. ~(n < m)
      BY <1>3, <2>2, <2>4 DEF Rises
  <2>6. m \in 1..Len(ids) /\ n \in 1..Len(ids)
      BY <1>5, <2>2
  <2> QED
      BY <1>5, <2>5, <2>6
<1>9. TellsSteps(dag)
    BY <1>7, <1>8 DEF TellsSteps
<1> QED
    BY <1>9 DEF dag

\* Those of a developer run.
LEMMA DevTells ==
    ASSUME IInv, InOrder, IsTerminal, IsDevOutput PROVE TellsSteps(told.workflow.dag)
<1> DEFINE dag == told.workflow.dag
<1>1. log \in Seq(Authorized) /\ output \in Outputs /\ dag = DevDag
    BY EndedLog
<1> HIDE DEF dag
<1>2. /\ DOMAIN log = 1..Len(log) /\ Len(log) \in Nat
      /\ \A i \in DOMAIN log : log[i] \in Authorized
    BY <1>1
<1>3. ASSUME NEW i \in DOMAIN log
      PROVE  Places(dag, log[i]) = {IF log[i][1] = "inspect" THEN 1
                                    ELSE IF log[i][1] = "code_mutation" THEN 2 ELSE 4}
  <2>1. log[i][1] \in Steps
      BY <1>1, <1>2, StepsAre
  <2>2. NodeOf(log[i]) = IF log[i][1] = "inspect" THEN <<"plan", 1>>
                         ELSE IF log[i][1] = "code_mutation" THEN <<"code", 1>>
                         ELSE <<"test", 1>>
      BY <2>1 DEF NodeOf, IsDevOutput, Steps
  <2>3. /\ {n \in 1..6 : DevDag[n].id = <<"plan", 1>>} = {1}
        /\ {n \in 1..6 : DevDag[n].id = <<"code", 1>>} = {2}
        /\ {n \in 1..6 : DevDag[n].id = <<"test", 1>>} = {4}
      BY DevNodesAre
  <2> QED
      BY <1>1, <2>1, <2>2, <2>3, DevNodesAre DEF Places, Steps
<1>4. ASSUME NEW i \in DOMAIN log, NEW j \in (i + 1)..Len(log),
             NEW m \in Places(dag, log[i]), NEW n \in Places(dag, log[j])
      PROVE  m <= n
  <2>1. j \in DOMAIN log /\ i < j
      BY <1>2
  <2>2. log[i][1] \in Steps /\ log[j][1] \in Steps
      BY <1>1, <1>2, <2>1, StepsAre
  <2>3. Turn(log[i][1]) <= Turn(log[j][1])
    <3>1. Before(log[i], log[j])
        BY <2>1 DEF InOrder, Rises
    <3>2. Turn(log[i][1]) \in 1..5 /\ Turn(log[j][1]) \in 1..5
        BY TurnIs
    <3> QED
        BY <3>1, <3>2 DEF Before
  <2>4. Turn("inspect") = 2 /\ Turn("code_mutation") = 3 /\ Turn("test") = 4
      BY TurnIs
  <2> QED
      BY <1>3, <2>1, <2>2, <2>3, <2>4 DEF Steps
<1>5. \A i \in DOMAIN log : Places(dag, log[i]) # {}
    BY <1>3
<1>6. TellsSteps(dag)
    BY <1>4, <1>5 DEF TellsSteps
<1> QED
    BY <1>6 DEF dag

\* The workflow on disk is a DAG below its plan at any moment, and a terminal one
\* has a node for each step of the run, in the order in which they were carried
\* out: build_phase_one_workflow numbers and chains its nodes, build_developer_workflow
\* has fixed ones, and Harness.run orders the phases by the mode.
THEOREM DagOfRun == Spec => []DagTellsRun
<1>1. IInv /\ InOrder /\ DagOnDisk => DagTellsRun
    BY DefaultTells, DevTells DEF DagOnDisk, DagTellsRun
<1> QED
    BY AlwaysInOrder, <1>1, PTL
===============================================================================
