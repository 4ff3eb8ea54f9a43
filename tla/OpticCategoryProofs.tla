-------------------------- MODULE OpticCategoryProofs --------------------------
(***************************************************************************)
(* What validate_composition checks is enough, for every registry and      *)
(* every composition, and whatever its roles make of their optional        *)
(* outputs: no role misses what it requires, and the composition keeps     *)
(* its boundary.                                                           *)
(***************************************************************************)
EXTENDS OpticCategory, WellFoundedInduction, TLAPS

\* How far a composition has come: a role that has acted made all its required
\* outputs, and only roles that have acted made anything, each what it may.
Progress ==
    /\ optics \in Registries /\ loop \in Compositions
    /\ verdict \in {"open", "valid", "rejected"}
    /\ due \in 1..(Len(loop.order) + 1)
    /\ verdict = "valid" => IsValid(optics, loop)
    /\ verdict # "valid" => due = 1
    /\ \A i \in DOMAIN loop.order : i < due =>
         \A type \in optics[loop.order[i]].outputs : <<loop.order[i], type>> \in made
    /\ \A artifact \in made :
         /\ verdict = "valid"
         /\ artifact[1] \in Roles(loop)
         /\ artifact[2] \in AllOutputs(optics[artifact[1]])

LastWriteIsTyped ==
    lastWrite # <<>> =>
        /\ lastWrite[1] \in DOMAIN optics
        /\ lastWrite[3] \in AllOutputs(optics[lastWrite[1]]) \union {NoType}
-------------------------------------------------------------------------------
LEMMA InitProgress == CategoryInit => Progress /\ LastWriteIsTyped
<1> SUFFICES ASSUME CategoryInit PROVE Progress /\ LastWriteIsTyped
    OBVIOUS
<1>1. loop.order \in Seq(STRING)
    BY CompositionAssumption DEF CategoryInit, WellFormedComposition
<1>2. Len(loop.order) \in Nat
    BY <1>1
<1> QED
    BY <1>2 DEF CategoryInit, Progress, LastWriteIsTyped

\* A role acts once: its position, its outputs and the roles before it.
LEMMA ActProgresses ==
    ASSUME Progress, NEW role \in DOMAIN optics, NEW chosen, Act(role, chosen)
    PROVE  Progress'
<1>1. loop.order \in Seq(STRING) /\ Len(loop.order) \in Nat
    BY CompositionAssumption DEF Progress, WellFormedComposition
<1>2. /\ verdict = "valid" /\ due \in DOMAIN loop.order /\ loop.order[due] = role
      /\ made' = made \union ({role} \X (optics[role].outputs \union chosen))
      /\ chosen \subseteq optics[role].optional
      /\ due' = due + 1
      /\ optics' = optics /\ loop' = loop /\ verdict' = verdict
    BY DEF Act
<1>3. DOMAIN loop.order = 1..Len(loop.order)
    BY <1>1
<1>4. due' \in 1..(Len(loop.order) + 1)
    BY <1>1, <1>2, <1>3 DEF Progress
<1>5. \A i \in DOMAIN loop.order : i < due' =>
         \A type \in optics[loop.order[i]].outputs : <<loop.order[i], type>> \in made'
  <2> SUFFICES ASSUME NEW i \in DOMAIN loop.order, i < due',
                      NEW type \in optics[loop.order[i]].outputs
               PROVE  <<loop.order[i], type>> \in made'
      OBVIOUS
  <2>1. CASE i < due
      BY <2>1, <1>2 DEF Progress
  <2>2. CASE i = due
      BY <2>2, <1>2
  <2> QED
      BY <2>1, <2>2, <1>1, <1>2, <1>3 DEF Progress
<1>6. \A artifact \in made' :
         /\ artifact[1] \in Roles(loop)
         /\ artifact[2] \in AllOutputs(optics[artifact[1]])
  <2>1. role \in Roles(loop)
      BY <1>2 DEF Roles
  <2> QED
      BY <2>1, <1>2 DEF Progress, AllOutputs
<1> QED
    BY <1>1, <1>2, <1>4, <1>5, <1>6 DEF Progress, IsValid, Roles, AllOutputs

LEMMA ValidateProgresses == ASSUME Progress, Validate PROVE Progress'
<1>1. Len(loop.order) \in Nat
    BY CompositionAssumption DEF Progress, WellFormedComposition
<1>2. optics' = optics /\ loop' = loop /\ due' = due /\ made' = made
    BY DEF Validate
<1>3. /\ verdict' \in {"valid", "rejected"}
      /\ verdict' = "valid" => IsValid(optics, loop)
      /\ verdict = "open"
    BY DEF Validate
<1> QED
    BY <1>1, <1>2, <1>3 DEF Progress, IsValid, Roles, AllOutputs

LEMMA StepProgresses ==
    Progress /\ LastWriteIsTyped /\ [CategoryNext]_categoryVars
      => Progress' /\ LastWriteIsTyped'
<1> SUFFICES ASSUME Progress, LastWriteIsTyped, [CategoryNext]_categoryVars
             PROVE  Progress' /\ LastWriteIsTyped'
    OBVIOUS
<1>1. CASE Validate
    BY <1>1, ValidateProgresses DEF Validate, LastWriteIsTyped, AllOutputs
<1>2. ASSUME NEW id \in DOMAIN optics, NEW target \in Targets,
             NEW type \in Types(optics) \union {NoType}, WriteTarget(id, target, type)
      PROVE  Progress' /\ LastWriteIsTyped'
  <2>1. Progress'
      BY <1>2 DEF WriteTarget, Progress, IsValid, Roles, AllOutputs
  <2>2. type \in AllOutputs(optics[id]) \union {NoType}
      BY <1>2 DEF WriteTarget, MayWrite
  <2>3. lastWrite' = <<id, target, type>> /\ optics' = optics
      BY <1>2 DEF WriteTarget
  <2> QED
      BY <2>1, <2>2, <2>3 DEF LastWriteIsTyped, AllOutputs
<1>3. ASSUME NEW role \in DOMAIN optics, NEW chosen \in SUBSET Types(optics), Act(role, chosen)
      PROVE  Progress' /\ LastWriteIsTyped'
    BY <1>3, ActProgresses DEF Act, LastWriteIsTyped, AllOutputs
<1>4. CASE UNCHANGED categoryVars
    BY <1>4 DEF categoryVars, Progress, LastWriteIsTyped, IsValid, Roles, AllOutputs
<1> QED
    BY <1>1, <1>2, <1>3, <1>4 DEF CategoryNext

LEMMA AlwaysProgress == CategorySpec => [](Progress /\ LastWriteIsTyped)
    BY InitProgress, StepProgresses, PTL DEF CategorySpec
-------------------------------------------------------------------------------
LEMMA RolesAreOptics ==
    ASSUME Progress, verdict = "valid", NEW role \in Roles(loop)
    PROVE  role \in DOMAIN optics
    BY DEF Progress, IsValid

\* The state of a registry, a composition and its roles is well typed.
THEOREM Typing == CategorySpec => []CategoryTypeOK
<1>1. Progress /\ LastWriteIsTyped => CategoryTypeOK
    BY RolesAreOptics DEF Progress, LastWriteIsTyped, CategoryTypeOK
<1> QED
    BY <1>1, AlwaysProgress, PTL

\* In a valid composition a role can miss nothing but an optional output of the
\* role that should hand it over: what the checks of inputs, handoffs, lineage
\* and order in validate_composition are for.
THEOREM OnlyOptionalIsMissing == CategorySpec => []MissingWasOptional
<1>1. ASSUME Progress PROVE MissingWasOptional
  <2> SUFFICES ASSUME verdict = "valid", due \in DOMAIN loop.order,
                      NEW type \in Needs(loop.order[due]) \ Reaching(loop.order[due])
               PROVE  \E h \in Incoming(loop, loop.order[due]) :
                        h.output = type /\ type \in optics[h.from].optional
      BY DEF MissingWasOptional
  <2> DEFINE role == loop.order[due]
  <2>1. IsValid(optics, loop) /\ role \in Roles(loop)
      BY <1>1 DEF Progress, Roles
  <2>2. type \in AvailableTo(loop, role)
      BY <2>1 DEF IsValid, RoleIsSupplied, Needs
  <2>3. PICK h \in Incoming(loop, role) : h.input = type
      BY <2>2 DEF AvailableTo, Reaching
  <2>4. HandoffIsTyped(optics, loop, h) /\ h.to = role /\ h.output = type
      BY <2>1, <2>3 DEF IsValid, HandoffIsTyped, Incoming
  <2>5. <<h.from, type>> \notin made
      BY <2>3, <2>4 DEF Reaching
  <2>6. PICK i, j \in DOMAIN loop.order : i < j /\ loop.order[i] = h.from /\ loop.order[j] = role
      BY <2>4 DEF HandoffIsTyped, EarlierThan
  <2>7. j = due
      BY <1>1, <2>6, CompositionAssumption DEF Progress, WellFormedComposition
  <2>8. type \notin optics[h.from].outputs
      BY <1>1, <2>5, <2>6, <2>7 DEF Progress
  <2>9. type \in AllOutputs(optics[h.from])
      BY <2>4 DEF HandoffIsTyped
  <2> QED
      BY <2>3, <2>4, <2>8, <2>9 DEF AllOutputs
<1> QED
    BY <1>1, AlwaysProgress, PTL

\* What a valid composition declares as its outputs exists when its roles have
\* acted: OutputsAreProduced looks at required outputs only, and those are made.
LEMMA OutputsExist == ASSUME Progress PROVE DeclaredOutputsAreMade
<1> SUFFICES ASSUME verdict = "valid", due > Len(loop.order), NEW type \in loop.outputs
             PROVE  \E role \in Roles(loop) : <<role, type>> \in made
    BY DEF DeclaredOutputsAreMade
<1>1. PICK i \in DOMAIN loop.order : type \in optics[loop.order[i]].outputs
    BY DEF Progress, IsValid, OutputsAreProduced, ProducedRequired, Roles
<1>2. i < due
  <2>1. loop.order \in Seq(STRING)
      BY <1>1, CompositionAssumption DEF Progress, WellFormedComposition
  <2> QED
      BY <1>1, <2>1 DEF Progress
<1> QED
    BY <1>1, <1>2 DEF Progress, Roles

\* Both sides of the boundary of validate_composition: no role makes anything of
\* a type that comes from outside, and what the composition declares exists.
THEOREM Boundary == CategorySpec => []BoundaryIsKept
<1>1. ASSUME Progress PROVE ExternalsAreNotMade
    BY <1>1 DEF Progress, ExternalsAreNotMade, IsValid, InputsAreExternal, Produced
<1> QED
    BY <1>1, OutputsExist, AlwaysProgress, PTL DEF BoundaryIsKept
-------------------------------------------------------------------------------
LEMMA LeastExists ==
    ASSUME NEW S \in SUBSET Nat, S # {} PROVE \E x \in S : \A y \in S : x <= y
<1>1. \A x, y \in Nat : <<x, y>> \in OpToRel(<, Nat) <=> x < y
    BY Zenon DEF OpToRel
<1>2. PICK Less : IsWellFoundedOn(Less, Nat) /\ \A x, y \in Nat : <<x, y>> \in Less <=> x < y
    BY <1>1, NatLessThanWellFounded, Zenon
<1>3. \E x \in S : \A y \in S : ~(<<y, x>> \in Less)
  <2>1. \A R, N, T : IsWellFoundedOn(R, N) /\ T \subseteq N /\ T # {} =>
            \E x \in T : \A y \in T : ~(<<y, x>> \in R)
      BY WFMin, Zenon
  <2>2. IsWellFoundedOn(Less, Nat) /\ S \subseteq Nat /\ S # {} =>
            \E x \in S : \A y \in S : ~(<<y, x>> \in Less)
      BY <2>1, Zenon
  <2> QED
      BY <1>2, <2>2
<1>4. PICK x \in S : \A y \in S : ~(<<y, x>> \in Less)
    BY <1>3, Zenon
<1>5. \A y \in S : ~(y < x)
    BY <1>2, <1>4
<1> QED
    BY <1>5

\* A function on 0..n that starts empty and appends the parts of a path one by
\* one holds the path's first i parts at i.
LEMMA WalkAppends ==
    ASSUME NEW target \in Seq(STRING), NEW w,
           w[0] = <<>>,
           \A i \in 1..Len(target) : w[i] = Append(w[i - 1], target[i])
    PROVE  w[Len(target)] = target
<1> DEFINE Prefix(i) == [k \in 1..i |-> target[k]]
           Wrong == {i \in 0..Len(target) : w[i] # Prefix(i)}
<1>1. \A i \in 0..Len(target) : Prefix(i) \in Seq(STRING) /\ Len(Prefix(i)) = i
    OBVIOUS
<1>2. \A i \in 1..Len(target) : Prefix(i) = Append(Prefix(i - 1), target[i])
    OBVIOUS
<1>3. Prefix(0) = <<>>
    BY <1>1
<1>4. Wrong = {}
  <2> SUFFICES ASSUME Wrong # {} PROVE FALSE
      OBVIOUS
  <2>1. PICK i \in Wrong : \A j \in Wrong : i <= j
    <3>1. Wrong \in SUBSET Nat
        OBVIOUS
    <3> HIDE DEF Wrong
    <3> QED
        BY <3>1, LeastExists
  <2> HIDE DEF Prefix
  <2>2. i \in 0..Len(target) /\ w[i] # Prefix(i)
      BY <2>1
  <2>3. i # 0
      BY <2>2, <1>3
  <2>4. i - 1 \in 0..Len(target) /\ i - 1 < i /\ i \in 1..Len(target)
      BY <2>2, <2>3
  <2>5. w[i - 1] = Prefix(i - 1)
      BY <2>1, <2>4
  <2> QED
      BY <2>2, <2>4, <2>5, <1>2
<1>5. w[Len(target)] = Prefix(Len(target))
  <2>1. Len(target) \in 0..Len(target)
      OBVIOUS
  <2> HIDE DEF Prefix
  <2> QED
      BY <2>1, <1>4
<1>6. Prefix(Len(target)) = target
    OBVIOUS
<1> QED
    BY <1>5, <1>6

\* A path without "", "." and ".." leads where it says.
LEMMA PlainResolves ==
    ASSUME NEW target \in Seq(STRING), TargetIsPlain(target) PROVE Resolved(target) = target
<1> DEFINE Walk(w) == [i \in 0..Len(target) |->
            IF i = 0 THEN <<>>
            ELSE CASE target[i] = "." -> w[i - 1]
                   [] target[i] = ".." /\ w[i - 1] # <<>> ->
                        SubSeq(w[i - 1], 1, Len(w[i - 1]) - 1)
                   [] OTHER -> Append(w[i - 1], target[i])]
           walk == CHOOSE w : w = Walk(w)
<1>1. Resolved(target) = walk[Len(target)]
    BY DEF Resolved
<1>2. ASSUME NEW w, NEW i \in 1..Len(target)
      PROVE  Walk(w)[i] = Append(w[i - 1], target[i])
  <2>1. target[i] # "." /\ target[i] # ".."
    <3>1. i \in DOMAIN target
        OBVIOUS
    <3>2. target[i] \notin {"", ".", ".."}
        BY <3>1, Zenon DEF TargetIsPlain
    <3> QED
        BY <3>2, Zenon
  <2>2. i \in 0..Len(target) /\ i # 0
      OBVIOUS
  <2>3. Walk(w)[i] = CASE target[i] = "." -> w[i - 1]
                       [] target[i] = ".." /\ w[i - 1] # <<>> ->
                            SubSeq(w[i - 1], 1, Len(w[i - 1]) - 1)
                       [] OTHER -> Append(w[i - 1], target[i])
      BY <2>2
  <2> QED
      BY <2>1, <2>3
<1>3. \A w : Walk(w)[0] = <<>>
    OBVIOUS
<1>4. \E w : w = Walk(w)
  <2> DEFINE p == [i \in 0..Len(target) |-> [k \in 1..i |-> target[k]]]
  <2>1. p[0] = Walk(p)[0]
      OBVIOUS
  <2>2. \A i \in 1..Len(target) : p[i] = Append(p[i - 1], target[i])
      OBVIOUS
  <2>3. \A i \in 0..Len(target) : p[i] = Walk(p)[i]
    <3>1. \A i \in 0..Len(target) : i = 0 \/ i \in 1..Len(target)
        OBVIOUS
    <3> HIDE DEF Walk, p
    <3> QED
        BY <3>1, <2>1, <2>2, <1>2
  <2>4. p = Walk(p)
      BY <2>3
  <2> QED
      BY <2>4
<1>5. walk = Walk(walk)
    BY <1>4
<1> HIDE DEF walk, Walk
<1>6. walk[0] = <<>> /\ \A i \in 1..Len(target) : walk[i] = Append(walk[i - 1], target[i])
    BY <1>2, <1>3, <1>5
<1> QED
    BY <1>1, <1>6, WalkAppends

\* The last write that validate_write let pass is one it lets pass.
LastWriteMay ==
    lastWrite # <<>> =>
        /\ lastWrite[2] \in Targets
        /\ MayWrite(optics[lastWrite[1]], lastWrite[2], lastWrite[3])

LEMMA StepMay == LastWriteMay /\ [CategoryNext]_categoryVars => LastWriteMay'
<1> SUFFICES ASSUME LastWriteMay, [CategoryNext]_categoryVars PROVE LastWriteMay'
    OBVIOUS
<1>1. CASE UNCHANGED <<optics, lastWrite>>
    BY <1>1 DEF LastWriteMay
<1>2. ASSUME NEW id \in DOMAIN optics, NEW target \in Targets,
             NEW type \in Types(optics) \union {NoType}, WriteTarget(id, target, type)
      PROVE  LastWriteMay'
  <2>1. /\ lastWrite' = <<id, target, type>> /\ optics' = optics
        /\ MayWrite(optics[id], target, type)
      BY <1>2 DEF WriteTarget
  <2>2. lastWrite'[1] = id /\ lastWrite'[2] = target /\ lastWrite'[3] = type
      BY <2>1
  <2>3. MayWrite(optics'[lastWrite'[1]], lastWrite'[2], lastWrite'[3])
      BY <2>1, <2>2
  <2> QED
      BY <2>2, <2>3 DEF LastWriteMay
<1> QED
    BY <1>1, <1>2 DEF CategoryNext, Validate, Act, categoryVars

\* A surface that matches a target stands for a place the target is in.
LEMMA MatchIsInside ==
    ASSUME NEW surface, NEW target \in Seq(STRING), SurfaceMatches(surface, target)
    PROVE  /\ Len(target) >= Len(surface.parts)
           /\ \A i \in DOMAIN surface.parts : surface.parts[i] \in {"<domain>", target[i]}
           /\ ~surface.prefix => Len(target) = Len(surface.parts)
<1>1. \A i \in DOMAIN surface.parts : surface.parts[i] \in {"<domain>", target[i]}
    BY DEF SurfaceMatches, PartMatches
<1> QED
    BY <1>1 DEF SurfaceMatches

LEMMA MayIsInside == LastWriteMay => WritesStayInside
<1> SUFFICES ASSUME LastWriteMay, lastWrite # <<>> PROVE WritesStayInside
    BY DEF WritesStayInside
<1> DEFINE o == optics[lastWrite[1]]
           target == lastWrite[2]
           type == lastWrite[3]
           open == o.surface \union
                     UNION {o.conditional[t] : t \in DOMAIN o.conditional \intersect {type}}
<1>1. target \in Seq(STRING) /\ MayWrite(o, target, type)
    BY TargetAssumption DEF LastWriteMay
<1>2. PICK surface \in SurfacesFor(o, type) : SurfaceMatches(surface, target)
    BY <1>1 DEF MayWrite
<1>3. surface \in open
    BY <1>2 DEF SurfacesFor
<1>4. Resolved(target) = target
    BY <1>1, <1>2, PlainResolves DEF SurfaceMatches
<1>5. /\ Len(target) >= Len(surface.parts)
      /\ \A i \in DOMAIN surface.parts : surface.parts[i] \in {"<domain>", target[i]}
      /\ ~surface.prefix => Len(target) = Len(surface.parts)
    BY <1>1, <1>2, MatchIsInside
<1> QED
    BY <1>3, <1>4, <1>5 DEF WritesStayInside

\* What validate_write lets pass stays, wherever the path leads once it is
\* resolved, under a directory the role may write: a surface is only matched by
\* a path in which no part leads back up or to the root.
THEOREM WritesInside == CategorySpec => []WritesStayInside
<1>1. CategoryInit => LastWriteMay
    BY DEF CategoryInit, LastWriteMay
<1> QED
    BY <1>1, StepMay, MayIsInside, PTL DEF CategorySpec
===============================================================================
