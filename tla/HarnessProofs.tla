----------------------------- MODULE HarnessProofs -----------------------------
(***************************************************************************)
(* What holds of the artifacts of a task for any number of runs, failing   *)
(* writes and kills.  A run's story is its own: the invariant is about one *)
(* run, and only the memory directories are shared.                        *)
(***************************************************************************)
EXTENDS Harness, TLAPS

\* The labels of a run that nothing has gone wrong with yet, in their order.
Opening == {"started", "context", "agent", "acceptance", "plan"}
Executing == {"inspect", "mutate", "test"}
Normal == Opening \union Executing \union Finalizing \union Committing
Live == Normal \union Cleaning \union Recovering

Planned == Document("planned", {"context", "acceptance", "started"})

\* What a run has stored when it gets to a label.
Behind(r) ==
    /\ pc[r] # "started" => "started" \in held[r]
    /\ pc[r] \notin {"started", "context"} => "context" \in held[r]
    /\ pc[r] \notin {"started", "context", "agent"} => "output" \in held[r]
    /\ pc[r] \notin Opening \ {"plan"} => "acceptance" \in held[r]
    /\ pc[r] \notin Opening => "workflow" \in held[r]
    /\ pc[r] \in (Finalizing \ {"completed"}) \union Committing => "completed" \in held[r]
    /\ pc[r] \in {"fix", "trace"} => "audit" \in held[r]
    /\ pc[r] \in {"permit"} \union Committing /\ mode[r] = "dev" =>
         {"audit", "trace"} \subseteq held[r]
    /\ pc[r] \in {"working dir", "working", "final", "final write"} => "session" \in held[r]
    /\ pc[r] \in {"final", "final write"} => "working" \in held[r]

\* On its way to success a run has exactly what its variables hold.
Path(r) == pc[r] \in Normal =>
    /\ late[r] = {} /\ OnDisk(r) = held[r] \ {"output"} /\ "failed" \notin held[r]
    /\ Behind(r)
    /\ pc[r] \notin Committing => held[r] \intersect Kinds = {}
    /\ pc[r] \in Opening \union Executing \union {"completed"} =>
         {"audit", "trace"} \intersect held[r] = {}
    /\ \A n \in {"audit", "trace"} \intersect held[r] : art[r][n].status = FinalStatus(r)

\* Until a run ends, its workflow is the planned one, nothing cites memory, and
\* what it holds is there - but for memory that the clean-up has just removed.
Story(r) == pc[r] \in Live =>
    /\ "workflow" \in OnDisk(r) \ late[r] => art[r]["workflow"] = Planned
    /\ \A n \in OnDisk(r) \ late[r] : art[r][n].cites \intersect Kinds = {}
    /\ held[r] \ ({"output"} \union IF pc[r] = "rmdir" THEN Kinds ELSE {}) \subseteq OnDisk(r)

\* The clean-up knows of all memory there is, but for late files.
CleanUp(r) ==
    /\ pc[r] \in Cleaning => exc[r] \in Classes
    /\ pc[r] \in {"discard", "unlink"} =>
         /\ (OnDisk(r) \intersect Kinds) \ late[r] \subseteq held[r]
         /\ "completed" \in OnDisk(r) /\ "failed" \notin OnDisk(r)
         /\ mode[r] = "dev" => \A n \in {"audit", "trace"} :
              n \in OnDisk(r) /\ art[r][n].status = FinalStatus(r)
    /\ pc[r] \in {"rmdir", "raised"} \union Recovering => KnownMemory(r) = {}

\* An artifact of a failed run is there and says so, or its failure is noted.
Told(r, n) ==
    n \notin notes[r] => n \in OnDisk(r) /\ (n # "failed" => art[r][n].status = "failed")

\* What a run that recovers has told when it gets to a label.
RecoveryStage(r) ==
    /\ pc[r] # "fail event" => CanTellStory(r) /\ Told(r, "failed")
    /\ pc[r] \in {"fail audit", "fail fix", "fail trace"} => mode[r] = "dev"
    /\ pc[r] = "fail fix" => "audit" \in held[r]
    /\ pc[r] \in {"fail fix", "fail trace", "fail workflow"} /\ mode[r] = "dev" =>
         Told(r, "audit")
    /\ pc[r] = "fail workflow" /\ mode[r] = "dev" => Told(r, "trace")

Recovery(r) == pc[r] \in Recovering =>
    /\ exc[r] = "expected"
    /\ "audit" \in held[r] => art[r]["audit"].status = "failed"
    /\ RecoveryStage(r)

\* What the properties say of one run.
Resolves(r) == \A n \in OnDisk(r) \ late[r] : art[r][n].cites \subseteq OnDisk(r)
AuditAgrees(r) ==
    (/\ art[r]["workflow"] # None
     /\ "audit" \in art[r]["workflow"].cites
     /\ {"workflow", "audit"} \intersect late[r] = {})
    => art[r]["audit"].status = art[r]["workflow"].status
MemoryLast(r) == KnownMemory(r) # {} =>
    /\ "completed" \in OnDisk(r) /\ "failed" \notin OnDisk(r)
    /\ mode[r] = "dev" => \A n \in {"audit", "trace"} :
         n \in OnDisk(r) /\ art[r][n].status = FinalStatus(r)
Whole(r) ==
    /\ WorkflowStatus(r) \in Succeeded /\ "workflow" \notin late[r] =>
         Kinds \subseteq OnDisk(r) /\ pc[r] \in {"returned", "crashed"}
    /\ pc[r] = "returned" =>
         /\ WorkflowStatus(r) = FinalStatus(r)
         /\ art[r]["workflow"].cites = OnDisk(r) \ {"workflow"}
PermitShort(r) == permit[r] =>
    pc[r] \in (Committing \ {"final write"}) \union {"discard", "crashed"}
FailureTold(r) == pc[r] = "raised" /\ exc[r] = "expected" =>
    /\ Told(r, "failed")
    /\ CanTellStory(r) => Told(r, "workflow")
    /\ CanTellStory(r) /\ mode[r] = "dev" => Told(r, "audit") /\ Told(r, "trace")

Ending(r) == pc[r] \in Ended =>
    AuditAgrees(r) /\ MemoryLast(r) /\ Whole(r) /\ FailureTold(r)

Inv(r) ==
    /\ Path(r) /\ Story(r) /\ CleanUp(r) /\ Recovery(r)
    /\ Resolves(r) /\ PermitShort(r) /\ Ending(r)
IInv == \A r \in Runs : Inv(r)

\* A run that is about to create something has the directory, unless it was swept.
Swept(r) ==
    /\ pc[r] \in Creating /\ Expects(r) \notin dirs => swept[r]
    /\ pc[r] \in Cleaning /\ faults[r] = 0 => swept[r]
-------------------------------------------------------------------------------
LEMMA InitHolds == Init => TypeOK /\ IInv /\ \A r \in Runs : Swept(r)
<1> SUFFICES ASSUME Init PROVE TypeOK /\ IInv /\ \A r \in Runs : Swept(r)
    OBVIOUS
<1>1. TypeOK
    BY FaultAssumption DEF Init, TypeOK, PCs
<1>2. ASSUME NEW r \in Runs PROVE Inv(r) /\ Swept(r)
  <2>1. /\ pc[r] = "started" /\ held[r] = {} /\ late[r] = {} /\ permit[r] = FALSE
        /\ OnDisk(r) = {} /\ swept[r] = FALSE
      BY DEF Init, OnDisk
  <2>2. Path(r)
      BY <2>1
         DEF Path, Behind, Opening, Executing, Normal, Finalizing, Committing
  <2>3. Story(r) /\ Resolves(r) /\ PermitShort(r)
      BY <2>1 DEF Story, Resolves, PermitShort
  <2>4. CleanUp(r) /\ Recovery(r) /\ Ending(r) /\ Swept(r)
      BY <2>1 DEF CleanUp, Recovery, Ending, Swept, Cleaning, Recovering, Ended,
             Creating, Kinds
  <2> QED
      BY <2>2, <2>3, <2>4 DEF Inv
<1> QED
    BY <1>1, <1>2 DEF IInv
-------------------------------------------------------------------------------
(* A run's story is its own.                                                   *)

Same(q) ==
    /\ art'[q] = art[q] /\ pc'[q] = pc[q] /\ held'[q] = held[q] /\ late'[q] = late[q]
    /\ mode'[q] = mode[q] /\ denied'[q] = denied[q] /\ permit'[q] = permit[q]
    /\ exc'[q] = exc[q] /\ notes'[q] = notes[q]

LEMMA Bystander ==
    ASSUME NEW q \in Runs, Inv(q), Same(q)
    PROVE  Inv(q)'
<1> USE DEF Same
<1>1. /\ OnDisk(q)' = OnDisk(q) /\ FinalStatus(q)' = FinalStatus(q)
      /\ WorkflowStatus(q)' = WorkflowStatus(q) /\ CanTellStory(q)' = CanTellStory(q)
    BY DEF OnDisk, FinalStatus, WorkflowStatus, CanTellStory
<1>2. KnownMemory(q)' = KnownMemory(q)
    BY <1>1 DEF KnownMemory
<1>3. \A n : Told(q, n)' <=> Told(q, n)
    BY <1>1 DEF Told
<1>4. Path(q)'
  <2>1. Behind(q)' <=> Behind(q)
      BY DEF Behind
  <2> QED
      BY <1>1, <2>1 DEF Inv, Path
<1>5. Story(q)' /\ CleanUp(q)'
    BY <1>1, <1>2 DEF Inv, Story, CleanUp
<1>6. Recovery(q)' /\ Resolves(q)' /\ PermitShort(q)'
    BY <1>1, <1>3 DEF Inv, Recovery, RecoveryStage, Resolves, PermitShort
<1>7. Ending(q)'
    BY <1>1, <1>2, <1>3 DEF Inv, Ending, AuditAgrees, MemoryLast, Whole, FailureTold
<1> QED
    BY <1>4, <1>5, <1>6, <1>7 DEF Inv

LEMMA OthersKept ==
    ASSUME IInv, NEW r \in Runs, \A q \in Runs \ {r} : Same(q), Inv(r)'
    PROVE  IInv'
<1>1. ASSUME NEW q \in Runs, q # r PROVE Inv(q)'
    BY <1>1, Bystander DEF IInv
<1> QED
    BY <1>1 DEF IInv
-------------------------------------------------------------------------------
(* The labels.                                                                 *)

LEMMA Labels ==
    /\ Committing \subseteq Normal /\ Finalizing \subseteq Normal
    /\ Opening \subseteq Normal /\ Executing \subseteq Normal
    /\ Normal \subseteq Live /\ Cleaning \subseteq Live /\ Recovering \subseteq Live
    /\ Normal \intersect (Cleaning \union Recovering \union Ended) = {}
    /\ Cleaning \intersect (Recovering \union Ended) = {}
    /\ Recovering \intersect Ended = {}
    /\ PCs = Live \union Ended
<1>1. Normal \intersect (Cleaning \union Recovering \union Ended) = {}
    BY DEF Normal, Opening, Executing, Finalizing, Committing, Cleaning, Recovering, Ended
<1>2. /\ Cleaning \intersect (Recovering \union Ended) = {}
      /\ Recovering \intersect Ended = {}
    BY DEF Cleaning, Recovering, Ended
<1>3. PCs = Live \union Ended
    BY DEF PCs, Live, Normal, Opening, Executing
<1> QED
    BY <1>1, <1>2, <1>3 DEF Live, Normal

\* What a document on disk is.
LEMMA OnDiskType ==
    ASSUME TypeOK, NEW r \in Runs, NEW n \in OnDisk(r)
    PROVE  n \in Names /\ art[r][n] \in Documents
BY DEF TypeOK, OnDisk

\* A document that a run puts in place.
Puts(r, n, d) == art'[r] = [art[r] EXCEPT ![n] = d]

LEMMA PutEffect ==
    ASSUME TypeOK, NEW r \in Runs, NEW n \in Names, NEW d \in Documents,
           Puts(r, n, d)
    PROVE  /\ OnDisk(r)' = OnDisk(r) \union {n}
           /\ art'[r][n] = d
           /\ \A m \in Names \ {n} : art'[r][m] = art[r][m]
<1>1. art[r] \in [Names -> Documents \union {None}] /\ d # None
    BY NoneAssumption DEF TypeOK
<1>2. /\ art'[r][n] = d
      /\ \A m \in Names \ {n} : art'[r][m] = art[r][m]
    BY <1>1 DEF Puts
<1> QED
    BY <1>1, <1>2 DEF OnDisk
-------------------------------------------------------------------------------
(* Steps on the way to success: a move, and a move that stores a document.     *)

LEMMA NormalOnly ==
    ASSUME NEW r \in Runs, pc'[r] \in Normal,
           Path(r)', Story(r)', Resolves(r)', PermitShort(r)'
    PROVE  Inv(r)'
<1>1. /\ pc'[r] \notin Cleaning \union Recovering \union Ended
      /\ pc'[r] \notin {"discard", "unlink", "rmdir", "raised"}
    BY Labels DEF Cleaning, Ended
<1> QED
    BY <1>1 DEF Inv, CleanUp, Recovery, Ending

LEMMA MovedOnPath ==
    ASSUME TypeOK, NEW r \in Runs, Inv(r), pc[r] \in Normal, pc'[r] \in Normal,
           art'[r] = art[r], late'[r] = late[r], mode'[r] = mode[r],
           denied'[r] = denied[r] \/ {"audit", "trace"} \intersect held[r] = {},
           held'[r] = held[r] \/ held'[r] = held[r] \union {"output"},
           pc[r] \in Committing => pc'[r] \in Committing,
           pc'[r] \in Opening \union Executing \union {"completed"} =>
             {"audit", "trace"} \intersect held[r] = {},
           Behind(r)', PermitShort(r)'
    PROVE  Inv(r)'
<1>1. /\ OnDisk(r)' = OnDisk(r)
      /\ {"audit", "trace"} \intersect held[r] # {} => FinalStatus(r)' = FinalStatus(r)
    BY DEF OnDisk, FinalStatus
<1>2. /\ held'[r] \ {"output"} = held[r] \ {"output"}
      /\ \A n \in Names : n \in held'[r] <=> n \in held[r]
    BY DEF Names, Events, Approvals, Kinds
<1>3. Path(r)
    BY DEF Inv
<1>4. Path(r)'
  <2>1. late'[r] = {} /\ OnDisk(r)' = held'[r] \ {"output"} /\ "failed" \notin held'[r]
      BY <1>1, <1>2, <1>3 DEF Path
  <2>2. pc'[r] \notin Committing => held'[r] \intersect Kinds = {}
      BY <1>2, <1>3 DEF Path, Names
  <2>3. {"audit", "trace"} \intersect held'[r] = {"audit", "trace"} \intersect held[r]
      OBVIOUS
  <2> QED
      BY <1>1, <1>3, <2>1, <2>2, <2>3 DEF Path
<1>5. Story(r)' /\ Resolves(r)'
  <2>1. Story(r) /\ Resolves(r) /\ pc[r] \in Live
      BY Labels DEF Inv
  <2>2. held'[r] \ {"output"} \subseteq OnDisk(r)'
      BY <1>4 DEF Path
  <2> QED
      BY <1>1, <2>1, <2>2 DEF Story, Resolves
<1> QED
    BY <1>4, <1>5, NormalOnly

LEMMA StoredOnPath ==
    ASSUME TypeOK, NEW r \in Runs, Inv(r), pc[r] \in Normal, pc'[r] \in Normal,
           NEW n \in Names \ {"failed"}, NEW d \in Documents,
           Puts(r, n, d), held'[r] = held[r] \union {n},
           late'[r] = late[r] \ {n}, mode'[r] = mode[r],
           denied'[r] = denied[r] \/ {"audit", "trace"} \intersect held[r] = {},
           d.cites \subseteq OnDisk(r), d.cites \intersect Kinds = {},
           n = "workflow" => d = Planned,
           n \in {"audit", "trace"} => d.status = FinalStatus(r)',
           pc'[r] \notin Committing => pc[r] \notin Committing /\ n \notin Kinds,
           pc'[r] \in Opening \union Executing \union {"completed"} =>
             {"audit", "trace"} \intersect (held[r] \union {n}) = {},
           Behind(r)', PermitShort(r)'
    PROVE  Inv(r)'
<1>1. /\ OnDisk(r)' = OnDisk(r) \union {n} /\ art'[r][n] = d
      /\ \A m \in Names \ {n} : art'[r][m] = art[r][m]
  <2>1. n \in Names
      OBVIOUS
  <2> QED
      BY <2>1, PutEffect
<1>2. Path(r) /\ Story(r) /\ Resolves(r) /\ pc[r] \in Live
    BY Labels DEF Inv
<1>3. OnDisk(r) \subseteq Names /\ "output" \notin Names
    BY DEF OnDisk, Names, Events, Approvals, Kinds
<1>4. Path(r)'
  <2>1. late'[r] = {} /\ "failed" \notin held'[r]
      BY <1>2 DEF Path
  <2>2. OnDisk(r)' = held'[r] \ {"output"}
      BY <1>1, <1>2, <1>3 DEF Path
  <2>3. pc'[r] \notin Committing => held'[r] \intersect Kinds = {}
      BY <1>2 DEF Path
  <2>4. ASSUME NEW m \in {"audit", "trace"} \intersect held'[r]
        PROVE  art'[r][m].status = FinalStatus(r)'
    <3>1. CASE m = n
        BY <1>1, <3>1
    <3>2. CASE m # n
      <4>1. m \in held[r] /\ m \in Names
          BY <3>2 DEF Names
      <4> QED
          BY <1>1, <1>2, <3>2, <4>1 DEF Path, FinalStatus
    <3> QED
        BY <3>1, <3>2
  <2> QED
      BY <2>1, <2>2, <2>3, <2>4 DEF Path
<1>5. late[r] = {} /\ late'[r] = {}
    BY <1>2 DEF Path
<1>6. Story(r)'
  <2>1. "workflow" \in OnDisk(r)' => art'[r]["workflow"] = Planned
      BY <1>1, <1>2, <1>5 DEF Story, Names
  <2>2. \A m \in OnDisk(r)' : art'[r][m].cites \intersect Kinds = {}
      BY <1>1, <1>2, <1>3, <1>5 DEF Story
  <2>3. held'[r] \ {"output"} \subseteq OnDisk(r)'
      BY <1>4 DEF Path
  <2> QED
      BY <1>5, <2>1, <2>2, <2>3 DEF Story
<1>7. Resolves(r)'
  <2>1. \A m \in OnDisk(r) : art[r][m].cites \subseteq OnDisk(r)'
      BY <1>1, <1>2, <1>5 DEF Resolves
  <2> QED
      BY <1>1, <1>3, <1>5, <2>1 DEF Resolves
<1> QED
    BY <1>4, <1>6, <1>7, NormalOnly
-------------------------------------------------------------------------------
(* Steps that leave it: an exception before the memory, and one after.         *)

\* What a raising call leaves on disk: nothing new, or a late document of N.
Disturbed(r, N) ==
    \/ art'[r] = art[r] /\ late'[r] = late[r]
    \/ \E n \in N : \E d \in Documents :
         Puts(r, n, d) /\ late'[r] = late[r] \union {n}

\* A failing mutation may also leave an approval that cites the acceptance.
ApprovalLeft(r) ==
    /\ pc[r] \in Executing /\ late'[r] = late[r]
    /\ \E d \in Documents :
         d.cites = {"acceptance"} /\ Puts(r, "mutation", d)

\* Either way, what is there and not late is what was there, or the approval.
LEMMA DisturbedEffect ==
    ASSUME TypeOK, NEW r \in Runs, NEW N \in SUBSET (Names \ {"mutation"}),
           Path(r), pc[r] \in Normal,
           Disturbed(r, N) \/ ApprovalLeft(r)
    PROVE  /\ OnDisk(r) \subseteq OnDisk(r)' /\ late[r] \subseteq late'[r]
           /\ OnDisk(r)' \subseteq OnDisk(r) \union N \union {"mutation"}
           /\ late'[r] \subseteq late[r] \union N
           /\ \A m \in OnDisk(r)' \ late'[r] :
                \/ m \in OnDisk(r) \ late[r] /\ art'[r][m] = art[r][m]
                \/ m = "mutation" /\ art'[r][m].cites = {"acceptance"}
                   /\ "acceptance" \in OnDisk(r)
           /\ \A m \in OnDisk(r) \ (N \union {"mutation"}) : art'[r][m] = art[r][m]
<1>0. N \subseteq Names /\ "mutation" \in Names /\ OnDisk(r) \subseteq Names
    BY DEF Names, Approvals, OnDisk
<1>1. ASSUME art'[r] = art[r] PROVE OnDisk(r)' = OnDisk(r)
    BY <1>1 DEF OnDisk
<1>2. ASSUME NEW n \in N, NEW d \in Documents,
             Puts(r, n, d), late'[r] = late[r] \union {n}
      PROVE  /\ OnDisk(r)' = OnDisk(r) \union {n}
             /\ \A m \in OnDisk(r) \ {n} : art'[r][m] = art[r][m]
    BY <1>0, <1>2, PutEffect
<1>3. ASSUME NEW d \in Documents, d.cites = {"acceptance"},
             Puts(r, "mutation", d)
      PROVE  /\ OnDisk(r)' = OnDisk(r) \union {"mutation"}
             /\ art'[r]["mutation"].cites = {"acceptance"}
             /\ \A m \in OnDisk(r) \ {"mutation"} : art'[r][m] = art[r][m]
    BY <1>0, <1>3, PutEffect
<1>4. ASSUME ApprovalLeft(r) PROVE "acceptance" \in OnDisk(r)
  <2>1. pc[r] \notin Opening \ {"plan"}
      BY <1>4 DEF ApprovalLeft, Executing, Opening
  <2> QED
      BY <2>1 DEF Path, Behind
<1> DEFINE Effect ==
      /\ OnDisk(r) \subseteq OnDisk(r)' /\ late[r] \subseteq late'[r]
      /\ OnDisk(r)' \subseteq OnDisk(r) \union N \union {"mutation"}
      /\ late'[r] \subseteq late[r] \union N
      /\ \A m \in OnDisk(r)' \ late'[r] :
           \/ m \in OnDisk(r) \ late[r] /\ art'[r][m] = art[r][m]
           \/ m = "mutation" /\ art'[r][m].cites = {"acceptance"} /\ "acceptance" \in OnDisk(r)
      /\ \A m \in OnDisk(r) \ (N \union {"mutation"}) : art'[r][m] = art[r][m]
<1>5. ASSUME Disturbed(r, N) PROVE Effect
  <2>1. CASE art'[r] = art[r] /\ late'[r] = late[r]
      BY <1>1, <2>1
  <2>2. ASSUME NEW n \in N, NEW d \in Documents,
               Puts(r, n, d), late'[r] = late[r] \union {n}
        PROVE  Effect
    <3>1. /\ OnDisk(r)' = OnDisk(r) \union {n}
          /\ \A m \in OnDisk(r) \ {n} : art'[r][m] = art[r][m]
        BY <1>2, <2>2
    <3> QED
        BY <2>2, <3>1
  <2> QED
      BY <1>5, <2>1, <2>2 DEF Disturbed
<1>6. ASSUME ApprovalLeft(r) PROVE Effect
  <2>1. PICK d \in Documents :
          d.cites = {"acceptance"} /\ Puts(r, "mutation", d)
      BY <1>6 DEF ApprovalLeft
  <2>2. /\ OnDisk(r)' = OnDisk(r) \union {"mutation"}
        /\ art'[r]["mutation"].cites = {"acceptance"}
        /\ \A m \in OnDisk(r) \ {"mutation"} : art'[r][m] = art[r][m]
      BY <1>3, <2>1
  <2> QED
      BY <1>4, <1>6, <2>2 DEF ApprovalLeft
<1> QED
    BY <1>5, <1>6

\* An unexpected exception leaves a run that never told a success.
LEMMA RaisedEnding ==
    ASSUME TypeOK, NEW r \in Runs, pc'[r] = "raised", exc'[r] # "expected",
           KnownMemory(r)' = {},
           "workflow" \in OnDisk(r)' \ late'[r] => art'[r]["workflow"] = Planned
    PROVE  Ending(r)'
<1>1. Planned.status \notin Succeeded /\ "audit" \notin Planned.cites
    BY DEF Planned, Document, Succeeded
<1>2. "workflow" \in Names
    BY DEF Names
<1>3. AuditAgrees(r)' /\ Whole(r)'
    BY <1>1, <1>2, NoneAssumption
       DEF AuditAgrees, Whole, WorkflowStatus, OnDisk, Succeeded, Statuses
<1> QED
    BY <1>3 DEF Ending, MemoryLast, FailureTold

LEMMA UnwoundEarly ==
    ASSUME TypeOK, NEW r \in Runs, Inv(r), pc[r] \in Normal \ Committing,
           NEW c \in Classes, exc'[r] = c, notes'[r] = notes[r], permit'[r] = permit[r],
           pc'[r] = IF c = "expected" THEN "fail event" ELSE "raised",
           held'[r] = held[r] \ FinalizerLocals, mode'[r] = mode[r], denied'[r] = denied[r],
           Disturbed(r, Names \ (Kinds \union {"mutation"})) \/ ApprovalLeft(r)
    PROVE  Inv(r)'
<1> DEFINE N == Names \ (Kinds \union {"mutation"})
<1>1. Path(r) /\ Story(r) /\ Resolves(r) /\ PermitShort(r) /\ pc[r] \in Live
    BY Labels DEF Inv
<1>2. /\ OnDisk(r) \subseteq OnDisk(r)'
      /\ OnDisk(r)' \subseteq OnDisk(r) \union N \union {"mutation"}
      /\ late[r] \subseteq late'[r]
      /\ \A m \in OnDisk(r)' \ late'[r] :
           \/ m \in OnDisk(r) \ late[r] /\ art'[r][m] = art[r][m]
           \/ m = "mutation" /\ art'[r][m].cites = {"acceptance"} /\ "acceptance" \in OnDisk(r)
  <2>1. N \in SUBSET (Names \ {"mutation"})
      OBVIOUS
  <2> HIDE DEF N
  <2>2. Disturbed(r, N) \/ ApprovalLeft(r)
      BY DEF N
  <2> QED
      BY <1>1, <2>1, <2>2, DisturbedEffect
<1>3. pc'[r] \in {"fail event", "raised"}
    OBVIOUS
<1>4. KnownMemory(r)' = {}
  <2>1. OnDisk(r) \intersect Kinds = {}
      BY <1>1 DEF Path
  <2>2. "mutation" \notin Kinds /\ N \intersect Kinds = {}
      BY DEF Kinds
  <2> HIDE DEF N
  <2>3. OnDisk(r)' \intersect Kinds = {}
      BY <1>2, <2>1, <2>2
  <2> QED
      BY <2>3 DEF KnownMemory
<1>5. "workflow" \in OnDisk(r)' \ late'[r] => art'[r]["workflow"] = Planned
    BY <1>1, <1>2 DEF Story
<1>6. Resolves(r)'
  <2>1. ASSUME NEW m \in OnDisk(r)' \ late'[r] PROVE art'[r][m].cites \subseteq OnDisk(r)'
    <3>1. CASE m \in OnDisk(r) \ late[r] /\ art'[r][m] = art[r][m]
        BY <1>1, <1>2, <3>1 DEF Resolves
    <3>2. CASE art'[r][m].cites = {"acceptance"} /\ "acceptance" \in OnDisk(r)
        BY <1>2, <3>2
    <3> QED
        BY <1>2, <2>1, <3>1, <3>2
  <2> QED
      BY <2>1 DEF Resolves
<1>7. Story(r)'
  <2>1. \A m \in OnDisk(r)' \ late'[r] : art'[r][m].cites \intersect Kinds = {}
      BY <1>1, <1>2 DEF Story, Kinds
  <2>2. held'[r] \ {"output"} \subseteq OnDisk(r)'
      BY <1>1, <1>2 DEF Path
  <2> QED
      BY <1>5, <2>1, <2>2 DEF Story
<1>8. PermitShort(r)'
  <2>1. ~permit[r]
      BY <1>1, Labels DEF PermitShort, Cleaning, Ended
  <2> QED
      BY <2>1 DEF PermitShort
<1>9. CleanUp(r)'
    BY <1>3, <1>4 DEF CleanUp, Cleaning
<1>10. Recovery(r)'
  <2>1. "audit" \notin held'[r]
      BY DEF FinalizerLocals
  <2> QED
      BY <1>3, <2>1 DEF Recovery, RecoveryStage, Recovering
<1>11. Ending(r)'
  <2>1. CASE pc'[r] = "fail event"
      BY <2>1 DEF Ending, Ended
  <2>2. CASE pc'[r] = "raised"
    <3>1. exc'[r] # "expected"
        BY <2>2
    <3> QED
        BY <1>4, <1>5, <2>2, <3>1, RaisedEnding
  <2> QED
      BY <1>3, <2>1, <2>2
<1>12. Path(r)'
    BY <1>3, Labels DEF Path, Recovering, Ended
<1> QED
    BY <1>6, <1>7, <1>8, <1>9, <1>10, <1>11, <1>12 DEF Inv

LEMMA UnwoundLate ==
    ASSUME TypeOK, NEW r \in Runs, Inv(r), pc[r] \in Committing, pc'[r] = "discard",
           exc'[r] \in Classes, notes'[r] = notes[r], permit'[r] = permit[r],
           held'[r] = held[r], mode'[r] = mode[r], denied'[r] = denied[r],
           Disturbed(r, Kinds \union {"workflow"})
    PROVE  Inv(r)'
<1> DEFINE N == Kinds \union {"workflow"}
<1>1. Path(r) /\ Story(r) /\ Resolves(r) /\ PermitShort(r) /\ pc[r] \in Live
      /\ pc[r] \in Normal
    BY Labels DEF Inv
<1>2. /\ OnDisk(r) \subseteq OnDisk(r)'
      /\ OnDisk(r)' \subseteq OnDisk(r) \union N \union {"mutation"}
      /\ late[r] \subseteq late'[r]
      /\ \A m \in OnDisk(r)' \ late'[r] :
           \/ m \in OnDisk(r) \ late[r] /\ art'[r][m] = art[r][m]
           \/ m = "mutation" /\ art'[r][m].cites = {"acceptance"} /\ "acceptance" \in OnDisk(r)
      /\ \A m \in OnDisk(r) \ (N \union {"mutation"}) : art'[r][m] = art[r][m]
  <2>1. N \in SUBSET (Names \ {"mutation"})
      BY DEF Names, Kinds
  <2> HIDE DEF N
  <2>2. Disturbed(r, N)
      BY DEF N
  <2> QED
      BY <1>1, <2>1, <2>2, DisturbedEffect
<1>3. FinalStatus(r)' = FinalStatus(r)
    BY DEF FinalStatus
<1>4. CleanUp(r)'
  <2>1. (OnDisk(r)' \intersect Kinds) \ late'[r] \subseteq held'[r]
      BY <1>1, <1>2 DEF Path, Kinds
  <2>2. /\ "completed" \in OnDisk(r) /\ "failed" \notin OnDisk(r)
        /\ mode[r] = "dev" => {"audit", "trace"} \subseteq held[r]
      BY <1>1 DEF Path, Behind
  <2>3. "completed" \in OnDisk(r)' /\ "failed" \notin OnDisk(r)'
      BY <1>2, <2>2 DEF Kinds
  <2>4. ASSUME mode[r] = "dev", NEW n \in {"audit", "trace"}
        PROVE  n \in OnDisk(r)' /\ art'[r][n].status = FinalStatus(r)'
    <3>1. n \in held[r] /\ n \in OnDisk(r) /\ art[r][n].status = FinalStatus(r)
        BY <1>1, <2>2, <2>4 DEF Path
    <3>2. n \notin N \union {"mutation"}
        BY DEF Kinds
    <3> QED
        BY <1>2, <1>3, <3>1, <3>2
  <2>5. pc'[r] \notin {"rmdir", "raised"} \union Recovering
      BY DEF Recovering
  <2> QED
      BY <2>1, <2>3, <2>4, <2>5 DEF CleanUp
<1>5. Story(r)' /\ Resolves(r)'
  <2>1. "workflow" \in OnDisk(r)' \ late'[r] => art'[r]["workflow"] = Planned
      BY <1>1, <1>2 DEF Story
  <2>2. \A m \in OnDisk(r)' \ late'[r] : art'[r][m].cites \intersect Kinds = {}
      BY <1>1, <1>2 DEF Story, Kinds
  <2>3. held'[r] \ {"output"} \subseteq OnDisk(r)'
      BY <1>1, <1>2 DEF Path
  <2>4. Resolves(r)'
      BY <1>1, <1>2 DEF Resolves
  <2> QED
      BY <2>1, <2>2, <2>3, <2>4 DEF Story
<1>6. /\ pc'[r] \notin Normal /\ pc'[r] \notin Recovering /\ pc'[r] \notin Ended
    BY Labels DEF Cleaning
<1> QED
    BY <1>4, <1>5, <1>6 DEF Inv, Path, Recovery, PermitShort, Ending
-------------------------------------------------------------------------------
(* The two ends of a write, and of any call that may raise.                    *)

\* Where an exception of class c takes a run.
Unwound(r, c) ==
    /\ exc'[r] = c
    /\ IF pc[r] \in Committing
       THEN pc'[r] = "discard" /\ held'[r] = held[r]
       ELSE /\ pc'[r] = IF c = "expected" THEN "fail event" ELSE "raised"
            /\ held'[r] = held[r] \ FinalizerLocals

Quiet(r) ==
    /\ mode'[r] = mode[r] /\ denied'[r] = denied[r] /\ permit'[r] = permit[r]
    /\ notes'[r] = notes[r]

LEMMA UnwindEffect ==
    ASSUME TypeOK, NEW r \in Runs, NEW c, Unwind(r, c)
    PROVE  /\ Unwound(r, c)
           /\ \A q \in Runs \ {r} : pc'[q] = pc[q] /\ held'[q] = held[q] /\ exc'[q] = exc[q]
<1>1. exc' = [exc EXCEPT ![r] = c]
    BY DEF Unwind
<1>2. CASE pc[r] \in Committing
  <2>1. pc' = [pc EXCEPT ![r] = "discard"] /\ held' = held
      BY <1>2 DEF Unwind, Goto
  <2> QED
      BY <1>1, <1>2, <2>1 DEF TypeOK, Unwound
<1>3. CASE pc[r] \notin Committing
  <2>1. /\ pc' = [pc EXCEPT ![r] = IF c = "expected" THEN "fail event" ELSE "raised"]
        /\ held' = [held EXCEPT ![r] = @ \ FinalizerLocals]
      BY <1>3 DEF Unwind, Goto
  <2> QED
      BY <1>1, <1>3, <2>1 DEF TypeOK, Unwound
<1> QED
    BY <1>2, <1>3

LEMMA UnwoundInv ==
    ASSUME TypeOK, NEW r \in Runs, Inv(r), pc[r] \in Normal, NEW c \in Classes,
           Unwound(r, c), Quiet(r),
           \/ pc[r] \notin Committing /\ ApprovalLeft(r)
           \/ \E N \in SUBSET Names :
                /\ Disturbed(r, N)
                /\ IF pc[r] \in Committing THEN N \subseteq Kinds \union {"workflow"}
                   ELSE N \subseteq Names \ (Kinds \union {"mutation"})
    PROVE  Inv(r)'
<1>1. ASSUME NEW N, NEW M, N \subseteq M, Disturbed(r, N) PROVE Disturbed(r, M)
    BY <1>1 DEF Disturbed
<1>2. CASE pc[r] \in Committing
  <2>1. Disturbed(r, Kinds \union {"workflow"})
      BY <1>1, <1>2
  <2>2. /\ pc'[r] = "discard" /\ exc'[r] \in Classes /\ held'[r] = held[r]
        /\ mode'[r] = mode[r] /\ denied'[r] = denied[r] /\ permit'[r] = permit[r]
        /\ notes'[r] = notes[r]
      BY <1>2 DEF Unwound, Quiet
  <2> QED
      BY <1>2, <2>1, <2>2, UnwoundLate
<1>3. CASE pc[r] \notin Committing
  <2>1. Disturbed(r, Names \ (Kinds \union {"mutation"})) \/ ApprovalLeft(r)
      BY <1>1, <1>3
  <2>2. /\ pc'[r] = IF c = "expected" THEN "fail event" ELSE "raised"
        /\ exc'[r] = c /\ held'[r] = held[r] \ FinalizerLocals
        /\ mode'[r] = mode[r] /\ denied'[r] = denied[r] /\ permit'[r] = permit[r]
        /\ notes'[r] = notes[r]
      BY <1>3 DEF Unwound, Quiet
  <2>3. pc[r] \in Normal \ Committing
      BY <1>3
  <2> QED
      BY <2>1, <2>2, <2>3, UnwoundEarly
<1> QED
    BY <1>2, <1>3

\* A call raised that wrote nothing.
LEMMA RaiseStep ==
    ASSUME TypeOK, IInv, NEW r \in Runs, pc[r] \in Normal, NEW c \in Classes, Raise(r, c)
    PROVE  IInv'
<1>1. Unwound(r, c) /\ \A q \in Runs \ {r} :
        pc'[q] = pc[q] /\ held'[q] = held[q] /\ exc'[q] = exc[q]
    BY UnwindEffect DEF Raise
<1>2. UNCHANGED <<art, mode, denied, permit, notes, late>>
    BY DEF Raise, story, blame
<1>3. Disturbed(r, {}) /\ {} \in SUBSET Names
    BY <1>2 DEF Disturbed
<1>4. \E N \in SUBSET Names :
        /\ Disturbed(r, N)
        /\ IF pc[r] \in Committing THEN N \subseteq Kinds \union {"workflow"}
           ELSE N \subseteq Names \ (Kinds \union {"mutation"})
    BY <1>3
<1>5. Inv(r)'
    BY <1>1, <1>2, <1>4, UnwoundInv DEF IInv, Quiet
<1> QED
    BY <1>1, <1>2, <1>5, OthersKept DEF Same

PutsIn(r, n, d) ==
    /\ Puts(r, n, d) /\ held'[r] = held[r] \union {n} /\ late'[r] = late[r] \ {n}

LEMMA StoredEffect ==
    ASSUME TypeOK, NEW r \in Runs, NEW n \in Names, NEW d, NEW next, Stored(r, n, d, next)
    PROVE  /\ PutsIn(r, n, d) /\ pc'[r] = next /\ exc'[r] = exc[r] /\ notes'[r] = notes[r]
           /\ \A q \in Runs \ {r} : /\ art'[q] = art[q] /\ pc'[q] = pc[q] /\ held'[q] = held[q]
                                    /\ late'[q] = late[q] /\ exc'[q] = exc[q]
                                    /\ notes'[q] = notes[q]
<1>1. /\ art' = [art EXCEPT ![r] = [art[r] EXCEPT ![n] = d]]
      /\ held' = [held EXCEPT ![r] = @ \union {n}] /\ pc' = [pc EXCEPT ![r] = next]
      /\ late' = [late EXCEPT ![r] = @ \ {n}] /\ exc' = exc /\ notes' = notes
    BY DEF Stored, Put, Goto
<1>2. Puts(r, n, d) /\ \A q \in Runs \ {r} : art'[q] = art[q]
    BY <1>1 DEF TypeOK, Puts
<1> QED
    BY <1>1, <1>2 DEF TypeOK, PutsIn

LEMMA FaultyEffect ==
    ASSUME TypeOK, NEW r \in Runs, NEW n \in Names, NEW d \in Documents, Faulty(r, n, d)
    PROVE  /\ Disturbed(r, {n})
           /\ \A q \in Runs \ {r} : art'[q] = art[q] /\ late'[q] = late[q]
<1>1. \/ art' = art /\ late' = late
      \/ /\ art' = [art EXCEPT ![r] = [art[r] EXCEPT ![n] = d]]
         /\ late' = [late EXCEPT ![r] = @ \union {n}]
    BY DEF Faulty, Put
<1>2. CASE art' = art /\ late' = late
    BY <1>2 DEF Disturbed
<1>3. CASE /\ art' = [art EXCEPT ![r] = [art[r] EXCEPT ![n] = d]]
           /\ late' = [late EXCEPT ![r] = @ \union {n}]
  <2>1. Puts(r, n, d) /\ \A q \in Runs \ {r} : art'[q] = art[q]
      BY <1>3 DEF TypeOK, Puts
  <2>2. late'[r] = late[r] \union {n} /\ \A q \in Runs \ {r} : late'[q] = late[q]
      BY <1>3 DEF TypeOK
  <2> QED
      BY <2>1, <2>2 DEF Disturbed
<1> QED
    BY <1>1, <1>2, <1>3

\* A write returns and the document is held, or it raises.
LEMMA WriteEffect ==
    ASSUME TypeOK, NEW r \in Runs, NEW n \in Names, NEW d \in Documents, NEW next,
           Write(r, n, d, next)
    PROVE  /\ \A q \in Runs \ {r} : Same(q)
           /\ Quiet(r)
           /\ \/ PutsIn(r, n, d) /\ pc'[r] = next /\ exc'[r] = exc[r]
              \/ Disturbed(r, {n}) /\ \E c \in Classes : Unwound(r, c)
<1>1. UNCHANGED <<permit, mode, denied>>
    BY DEF Write, story
<1>2. ASSUME Stored(r, n, d, next)
      PROVE  /\ \A q \in Runs \ {r} : Same(q)
             /\ Quiet(r) /\ PutsIn(r, n, d) /\ pc'[r] = next /\ exc'[r] = exc[r]
    BY <1>1, <1>2, StoredEffect DEF Same, Quiet
<1>3. ASSUME Faulty(r, n, d), UNCHANGED notes, NEW c \in Classes, Unwind(r, c)
      PROVE  /\ \A q \in Runs \ {r} : Same(q)
             /\ Quiet(r) /\ Disturbed(r, {n}) /\ Unwound(r, c)
    BY <1>1, <1>3, FaultyEffect, UnwindEffect DEF Same, Quiet
<1> QED
    BY <1>2, <1>3 DEF Write
-------------------------------------------------------------------------------
(* The actions on the way to success.                                          *)

Undecided == Opening \union Executing \union {"completed"}

LEMMA WriteOnPath ==
    ASSUME TypeOK, IInv, NEW r \in Runs, pc[r] \in Normal,
           NEW n \in Names \ {"failed", "mutation"}, NEW d \in Documents,
           NEW next \in Normal \ {"final write"}, Write(r, n, d, next),
           d.cites \subseteq OnDisk(r), d.cites \intersect Kinds = {},
           n = "workflow" => d = Planned,
           n \in {"audit", "trace"} => d.status = FinalStatus(r),
           pc[r] \in Committing <=> n \in Kinds, next \in Committing <=> n \in Kinds,
           next \in Undecided => pc[r] \in Undecided /\ n \notin {"audit", "trace"},
           PutsIn(r, n, d) /\ pc'[r] = next /\ mode'[r] = mode[r] => Behind(r)'
    PROVE  IInv'
<1>1. n \in Names /\ Inv(r) /\ Path(r) /\ PermitShort(r)
    BY DEF IInv, Inv
<1>2. /\ \A q \in Runs \ {r} : Same(q)
      /\ Quiet(r)
      /\ \/ PutsIn(r, n, d) /\ pc'[r] = next /\ exc'[r] = exc[r]
         \/ Disturbed(r, {n}) /\ \E c \in Classes : Unwound(r, c)
    BY <1>1, WriteEffect
<1>3. CASE PutsIn(r, n, d) /\ pc'[r] = next
  <2>1. /\ Puts(r, n, d) /\ held'[r] = held[r] \union {n} /\ late'[r] = late[r] \ {n}
        /\ mode'[r] = mode[r] /\ denied'[r] = denied[r] /\ Behind(r)'
        /\ FinalStatus(r)' = FinalStatus(r)
      BY <1>2, <1>3 DEF PutsIn, Quiet, FinalStatus
  <2>2. PermitShort(r)'
    <3>1. permit[r] => pc[r] \in Committing
        BY <1>1, Labels DEF PermitShort, Cleaning, Ended
    <3> QED
        BY <1>2, <1>3, <3>1 DEF PermitShort, Quiet
  <2>3. next \in Undecided => {"audit", "trace"} \intersect (held[r] \union {n}) = {}
      BY <1>1 DEF Path, Undecided
  <2>4. n \in Names \ {"failed"} /\ pc'[r] \in Normal
      BY <1>3
  <2>5. pc'[r] \notin Committing => pc[r] \notin Committing /\ n \notin Kinds
      BY <1>3
  <2>6. n \in {"audit", "trace"} => d.status = FinalStatus(r)'
      BY <2>1
  <2>7. pc'[r] \in Opening \union Executing \union {"completed"} =>
          {"audit", "trace"} \intersect (held[r] \union {n}) = {}
      BY <1>3, <2>3 DEF Undecided
  <2>8. Inv(r)'
      BY <1>1, <2>1, <2>2, <2>4, <2>5, <2>6, <2>7, StoredOnPath
  <2> QED
      BY <1>2, <2>8, OthersKept
<1>4. CASE Disturbed(r, {n}) /\ \E c \in Classes : Unwound(r, c)
  <2>1. {n} \in SUBSET Names
      BY <1>1
  <2>2. IF pc[r] \in Committing THEN {n} \subseteq Kinds \union {"workflow"}
        ELSE {n} \subseteq Names \ (Kinds \union {"mutation"})
      BY <1>1
  <2>3. \E N \in SUBSET Names :
          /\ Disturbed(r, N)
          /\ IF pc[r] \in Committing THEN N \subseteq Kinds \union {"workflow"}
             ELSE N \subseteq Names \ (Kinds \union {"mutation"})
      BY <1>4, <2>1, <2>2
  <2>4. Inv(r)'
      BY <1>1, <1>2, <1>4, <2>3, UnwoundInv
  <2> QED
      BY <1>2, <2>4, OthersKept
<1> QED
    BY <1>2, <1>3, <1>4

\* What a document cites is a set of names.
LEMMA DocumentType ==
    ASSUME NEW status \in Statuses, NEW cites \in SUBSET Names
    PROVE  /\ Document(status, cites) \in Documents
           /\ Document(status, cites).status = status
           /\ Document(status, cites).cites = cites
BY DEF Document, Documents

LEMMA StatusType ==
    ASSUME NEW r
    PROVE  FinalStatus(r) \in Succeeded /\ FinalStatus(r) \in Statuses
BY DEF FinalStatus, Succeeded, Statuses

LEMMA OpeningSteps ==
    ASSUME TypeOK, IInv, NEW r \in Runs,
           WriteStarted(r) \/ WriteContext(r) \/ WriteAcceptance(r) \/ WritePlanned(r)
    PROVE  IInv'
<1>1. Path(r)
    BY DEF IInv, Inv
<1>2. {"started", "context", "agent", "acceptance", "plan", "inspect"} \subseteq
        (Undecided \ Committing) \intersect (Normal \ {"final write"})
    BY DEF Undecided, Opening, Executing, Normal, Committing
<1>3. {"started", "context", "acceptance", "workflow"} \subseteq
        Names \ ({"failed", "mutation", "audit", "trace"} \union Kinds)
    BY DEF Names, Events, Approvals, Kinds
<1>4. /\ Document("recorded", {}) \in Documents /\ Planned \in Documents
      /\ Document("recorded", {}).cites = {} /\ Planned.cites = {"context", "acceptance", "started"}
    BY <1>3, DocumentType DEF Planned, Statuses
<1>5. CASE WriteStarted(r)
  <2>1. pc[r] = "started" /\ Write(r, "started", Document("recorded", {}), "context")
      BY <1>5 DEF WriteStarted, Event
  <2>2. PutsIn(r, "started", Document("recorded", {})) /\ pc'[r] = "context" => Behind(r)'
      BY DEF Behind, PutsIn, Opening, Finalizing, Committing
  <2> QED
      BY <1>2, <1>3, <1>4, <2>1, <2>2, WriteOnPath
<1>6. CASE WriteContext(r)
  <2>1. pc[r] = "context" /\ Write(r, "context", Document("recorded", {}), "agent")
      BY <1>6 DEF WriteContext
  <2>2. Behind(r)
      BY <1>1, <1>2, <2>1 DEF Path
  <2>3. PutsIn(r, "context", Document("recorded", {})) /\ pc'[r] = "agent" => Behind(r)'
      BY <2>1, <2>2 DEF Behind, PutsIn, Opening, Finalizing, Committing
  <2> QED
      BY <1>2, <1>3, <1>4, <2>1, <2>3, WriteOnPath
<1>7. CASE WriteAcceptance(r)
  <2>1. pc[r] = "acceptance" /\ Write(r, "acceptance", Document("recorded", {}), "plan")
      BY <1>7 DEF WriteAcceptance
  <2>2. Behind(r)
      BY <1>1, <1>2, <2>1 DEF Path
  <2>3. PutsIn(r, "acceptance", Document("recorded", {})) /\ pc'[r] = "plan" => Behind(r)'
      BY <2>1, <2>2 DEF Behind, PutsIn, Opening, Finalizing, Committing
  <2> QED
      BY <1>2, <1>3, <1>4, <2>1, <2>3, WriteOnPath
<1>8. CASE WritePlanned(r)
  <2>1. pc[r] = "plan" /\ Write(r, "workflow", Planned, "inspect")
      BY <1>8 DEF WritePlanned, Planned
  <2>2. Behind(r) /\ OnDisk(r) = held[r] \ {"output"}
      BY <1>1, <1>2, <2>1 DEF Path
  <2>3. Planned.cites \subseteq OnDisk(r)
      BY <1>4, <2>1, <2>2 DEF Behind, Opening
  <2>4. PutsIn(r, "workflow", Planned) /\ pc'[r] = "inspect" => Behind(r)'
      BY <2>1, <2>2 DEF Behind, PutsIn, Opening, Finalizing, Committing
  <2> QED
      BY <1>2, <1>3, <1>4, <2>1, <2>3, <2>4, WriteOnPath DEF Kinds
<1> QED
    BY <1>5, <1>6, <1>7, <1>8

LEMMA FinalizingSteps ==
    ASSUME TypeOK, IInv, NEW r \in Runs,
           WriteCompleted(r) \/ WriteAudit(r) \/ WriteFix(r) \/ WriteTrace(r)
    PROVE  IInv'
<1>1. /\ Path(r) /\ pc[r] \in Finalizing /\ pc[r] \in Normal /\ pc[r] \notin Committing
      /\ Behind(r) /\ OnDisk(r) = held[r] \ {"output"} /\ held[r] \intersect Kinds = {}
  <2>1. pc[r] \in {"completed", "audit", "fix", "trace"}
      BY DEF WriteCompleted, WriteAudit, WriteFix, WriteTrace
  <2>2. pc[r] \in Finalizing /\ pc[r] \in Normal /\ pc[r] \notin Committing
      BY <2>1 DEF Finalizing, Committing, Normal
  <2> QED
      BY <2>2 DEF IInv, Inv, Path
<1>2. /\ {"audit", "fix", "trace", "permit"} \subseteq (Normal \ {"final write"})
      /\ {"audit", "fix", "trace", "permit"} \intersect Committing = {}
      /\ {"audit", "fix", "trace", "permit"} \intersect Undecided = {}
    BY DEF Undecided, Opening, Executing, Normal, Committing, Finalizing
<1>3. /\ {"completed", "audit", "fix", "trace"} \subseteq Names \ ({"failed", "mutation"} \union Kinds)
      /\ {"acceptance", "workflow", "audit"} \subseteq Names \ Kinds
      /\ "completed" \notin {"audit", "trace", "workflow"} /\ "fix" \notin {"audit", "trace", "workflow"}
    BY DEF Names, Events, Approvals, Kinds
<1>4. held[r] \ {"output"} \subseteq Names
    BY DEF TypeOK
<1>5. /\ "acceptance" \in OnDisk(r) /\ "workflow" \in OnDisk(r)
      /\ pc[r] \in {"fix", "trace"} => "audit" \in OnDisk(r)
    BY <1>1 DEF Behind, Opening, Finalizing
<1>6. CASE WriteCompleted(r)
  <2> DEFINE d == Document("recorded", {"acceptance"})
             next == IF mode[r] = "dev" THEN "audit" ELSE "permit"
  <2>1. pc[r] = "completed" /\ Write(r, "completed", d, next)
      BY <1>6 DEF WriteCompleted
  <2>2. d \in Documents /\ d.cites = {"acceptance"}
      BY <1>3, DocumentType DEF Statuses
  <2>3. ASSUME PutsIn(r, "completed", d), pc'[r] = next, mode'[r] = mode[r] PROVE Behind(r)'
      BY <1>1, <2>1, <2>3 DEF Behind, PutsIn, Opening, Finalizing, Committing
  <2>4. next \in Normal \ {"final write"} /\ next \notin Committing /\ next \notin Undecided
      BY <1>2
  <2> HIDE DEF d, next
  <2> QED
      BY <1>1, <1>3, <1>5, <2>1, <2>2, <2>3, <2>4, WriteOnPath
<1>7. CASE WriteAudit(r)
  <2> DEFINE d == Document(FinalStatus(r), (held[r] \ {"output"}) \union {"workflow"})
             next == IF HasProposals(r) THEN "fix" ELSE "trace"
  <2>1. pc[r] = "audit" /\ Write(r, "audit", d, next)
      BY <1>7 DEF WriteAudit
  <2>2. /\ d \in Documents /\ d.status = FinalStatus(r)
        /\ d.cites = (held[r] \ {"output"}) \union {"workflow"}
      BY <1>3, <1>4, StatusType, DocumentType
  <2>3. ASSUME PutsIn(r, "audit", d), pc'[r] = next PROVE Behind(r)'
      BY <1>1, <2>1, <2>3 DEF Behind, PutsIn, Opening, Finalizing, Committing
  <2>4. next \in Normal \ {"final write"} /\ next \notin Committing /\ next \notin Undecided
      BY <1>2
  <2>5. d.cites \subseteq OnDisk(r) /\ d.cites \intersect Kinds = {}
      BY <1>1, <1>3, <1>5, <2>2
  <2>6. /\ "audit" \in Names \ {"failed", "mutation"} /\ "audit" \notin Kinds
        /\ pc[r] \in Normal /\ pc[r] \notin Committing
      BY <1>1, <1>3, <2>1 DEF Committing, Kinds
  <2> HIDE DEF d, next
  <2> QED
      BY <2>1, <2>2, <2>3, <2>4, <2>5, <2>6, WriteOnPath
<1>8. CASE WriteFix(r)
  <2> DEFINE d == Document("recorded", {"audit"})
  <2>1. pc[r] = "fix" /\ Write(r, "fix", d, "trace")
      BY <1>8 DEF WriteFix
  <2>2. d \in Documents /\ d.cites = {"audit"}
      BY <1>3, DocumentType DEF Statuses
  <2>3. ASSUME PutsIn(r, "fix", d), pc'[r] = "trace" PROVE Behind(r)'
      BY <1>1, <2>1, <2>3 DEF Behind, PutsIn, Opening, Finalizing, Committing
  <2>4. /\ "fix" \in Names \ {"failed", "mutation"} /\ "fix" \notin Kinds
        /\ "fix" \notin {"audit", "trace", "workflow"}
        /\ pc[r] \in Normal /\ pc[r] \notin Committing
      BY <1>1, <1>3, <2>1 DEF Committing, Kinds
  <2>5. d.cites \subseteq OnDisk(r) /\ d.cites \intersect Kinds = {}
      BY <1>3, <1>5, <2>1, <2>2
  <2>6. "trace" \in Normal \ {"final write"} /\ "trace" \notin Committing \union Undecided
      BY <1>2
  <2> HIDE DEF d
  <2> QED
      BY <2>1, <2>2, <2>3, <2>4, <2>5, <2>6, WriteOnPath
<1>9. CASE WriteTrace(r)
  <2> DEFINE d == Document(FinalStatus(r), Evidence(r))
  <2>1. pc[r] = "trace" /\ Write(r, "trace", d, "permit")
      BY <1>9 DEF WriteTrace
  <2>2. Evidence(r) \subseteq held[r] \ {"output"}
      BY DEF Evidence, Events, Approvals
  <2>3. d \in Documents /\ d.status = FinalStatus(r) /\ d.cites = Evidence(r)
      BY <1>4, <2>2, StatusType, DocumentType
  <2>4. ASSUME PutsIn(r, "trace", d), pc'[r] = "permit" PROVE Behind(r)'
      BY <1>1, <2>1, <2>4 DEF Behind, PutsIn, Opening, Finalizing, Committing
  <2>5. d.cites \subseteq OnDisk(r) /\ d.cites \intersect Kinds = {}
      BY <1>1, <2>2, <2>3
  <2> HIDE DEF d
  <2> QED
      BY <1>1, <1>2, <1>3, <2>1, <2>3, <2>4, <2>5, WriteOnPath
<1> QED
    BY <1>6, <1>7, <1>8, <1>9

LEMMA MemoryStep == ASSUME TypeOK, IInv, NEW r \in Runs, WriteMemory(r) PROVE IInv'
<1> DEFINE d(k) == MemoryDocument(r, k)
           next(k) == IF k = "session" THEN "working dir" ELSE "final"
<1>1. PICK k \in Kinds : pc[r] = k /\ Write(r, k, d(k), next(k))
    BY DEF WriteMemory
<1>2. /\ pc[r] \in Committing /\ pc[r] \in Normal
      /\ k \in Names \ {"failed", "mutation"} /\ k \notin {"audit", "trace", "workflow"}
      /\ next(k) \in Normal \ {"final write"} /\ next(k) \in Committing
      /\ next(k) \notin Undecided
    BY <1>1
       DEF Kinds, Committing, Normal, Names, Approvals, Events, Undecided, Opening, Executing
<1>3. Path(r) /\ Behind(r) /\ OnDisk(r) = held[r] \ {"output"}
    BY <1>2 DEF IInv, Inv, Path
<1>4. /\ d(k) \in Documents /\ d(k).cites \subseteq OnDisk(r) /\ d(k).cites \intersect Kinds = {}
  <2> DEFINE cites == IF k = "session" THEN {}
                      ELSE {"workflow"} \union (held[r] \intersect (Approvals \union {"audit", "fix"}))
  <2>1. cites \subseteq OnDisk(r)
    <3>1. "workflow" \in held[r]
        BY <1>1, <1>3 DEF Behind, Kinds, Opening
    <3> QED
        BY <1>3, <3>1 DEF Approvals
  <2>2. cites \intersect Kinds = {} /\ OnDisk(r) \subseteq Names
      BY DEF Kinds, Approvals, OnDisk
  <2>3. d(k) = Document("recorded", cites)
      BY DEF MemoryDocument
  <2> HIDE DEF cites
  <2> QED
      BY <2>1, <2>2, <2>3, DocumentType DEF Statuses
<1>5. ASSUME PutsIn(r, k, d(k)), pc'[r] = next(k), mode'[r] = mode[r] PROVE Behind(r)'
    BY <1>1, <1>3, <1>5 DEF Behind, PutsIn, Opening, Finalizing, Committing, Kinds
<1> HIDE DEF d, next
<1> QED
    BY <1>1, <1>2, <1>4, <1>5, WriteOnPath

\* A step along the way that writes nothing.
LEMMA MoveOnPath ==
    ASSUME TypeOK, IInv, NEW r \in Runs, pc[r] \in Normal, NEW next \in Normal,
           pc' = [pc EXCEPT ![r] = next], UNCHANGED <<art, late, mode, exc, notes>>,
           held' = held \/ held' = [held EXCEPT ![r] = @ \union {"output"}],
           denied'[r] = denied[r] \/ {"audit", "trace"} \intersect held[r] = {},
           \A q \in Runs \ {r} : denied'[q] = denied[q] /\ permit'[q] = permit[q],
           pc[r] \in Committing => next \in Committing,
           next \in Undecided => pc[r] \in Undecided,
           Behind(r)', PermitShort(r)'
    PROVE  IInv'
<1>1. /\ pc'[r] = next
      /\ held'[r] = held[r] \/ held'[r] = held[r] \union {"output"}
      /\ \A q \in Runs \ {r} : Same(q)
    BY DEF TypeOK, Same
<1>2. Inv(r) /\ Path(r)
    BY DEF IInv, Inv
<1>3. next \in Undecided => {"audit", "trace"} \intersect held[r] = {}
    BY <1>2 DEF Path, Undecided
<1>4. /\ pc[r] \in Committing => pc'[r] \in Committing
      /\ pc'[r] \in Opening \union Executing \union {"completed"} =>
           {"audit", "trace"} \intersect held[r] = {}
      /\ pc'[r] \in Normal
    BY <1>1, <1>3 DEF Undecided
<1>5. /\ art'[r] = art[r] /\ late'[r] = late[r] /\ mode'[r] = mode[r]
      /\ held'[r] = held[r] \/ held'[r] = held[r] \union {"output"}
    BY <1>1
<1>6. Inv(r)'
    BY <1>2, <1>4, <1>5, MovedOnPath
<1> QED
    BY <1>1, <1>6, OthersKept

LEMMA ExecutionMoves ==
    ASSUME TypeOK, IInv, NEW r \in Runs, RunAgent(r) \/ Inspect(r) \/ Test(r)
    PROVE  IInv'
<1>1. /\ UNCHANGED <<art, late, mode, exc, notes, denied, permit>>
    BY DEF RunAgent, Inspect, Test, story, blame
<1>2. \/ /\ pc[r] = "agent" /\ pc' = [pc EXCEPT ![r] = "acceptance"]
         /\ held' = [held EXCEPT ![r] = @ \union {"output"}]
      \/ /\ pc[r] \in {"inspect", "test"} /\ held' = held
         /\ \E next \in {"mutate", "test", "completed"} : pc' = [pc EXCEPT ![r] = next]
    BY DEF RunAgent, Inspect, Test, Goto, AfterTest
<1>3. PICK next \in {"acceptance", "mutate", "test", "completed"} :
        /\ pc' = [pc EXCEPT ![r] = next]
        /\ \/ /\ pc[r] = "agent" /\ next = "acceptance"
              /\ held' = [held EXCEPT ![r] = @ \union {"output"}]
           \/ pc[r] \in {"inspect", "test"} /\ next # "acceptance" /\ held' = held
    BY <1>2
<1>4. /\ pc[r] \in Normal /\ pc[r] \notin Committing /\ pc[r] \in Undecided
      /\ next \in Normal
    BY <1>3 DEF Normal, Opening, Executing, Finalizing, Committing, Undecided
<1>5. Behind(r)
    BY <1>4 DEF IInv, Inv, Path
<1>6. pc'[r] = next
    BY <1>3 DEF TypeOK
<1>7. Behind(r)'
  <2>1. CASE pc[r] = "agent" /\ next = "acceptance" /\ held' = [held EXCEPT ![r] = @ \union {"output"}]
    <3>1. held'[r] = held[r] \union {"output"}
        BY <2>1 DEF TypeOK
    <3> QED
        BY <1>5, <1>6, <2>1, <3>1 DEF Behind, Opening, Finalizing, Committing
  <2>2. CASE pc[r] \in {"inspect", "test"} /\ next # "acceptance" /\ held' = held
      BY <1>5, <1>6, <2>2 DEF Behind, Opening, Finalizing, Committing
  <2> QED
      BY <1>3, <2>1, <2>2
<1>8. PermitShort(r)'
  <2>1. ~permit[r]
      BY <1>4, Labels DEF IInv, Inv, PermitShort, Cleaning, Ended
  <2> QED
      BY <1>1, <2>1 DEF PermitShort
<1> QED
    BY <1>1, <1>3, <1>4, <1>7, <1>8, MoveOnPath

LEMMA CommittingMoves ==
    ASSUME TypeOK, IInv, NEW r \in Runs,
           IssuePermit(r) \/ MakeParentDir(r) \/ MakeMemoryDir(r) \/ UsePermit(r)
    PROVE  IInv'
<1>1. UNCHANGED <<art, late, mode, exc, notes, denied, held>>
    BY DEF IssuePermit, MakeParentDir, MakeMemoryDir, UsePermit, story, blame
<1>2. PICK next \in {"session dir", "session subdir", "session", "working", "final write"} :
        /\ pc' = [pc EXCEPT ![r] = next]
        /\ \/ pc[r] = "permit" /\ next = "session dir" /\ permit' = [permit EXCEPT ![r] = TRUE]
           \/ pc[r] = "session dir" /\ next = "session subdir" /\ permit' = permit
           \/ /\ pc[r] \in {"session dir", "session subdir"} /\ next = "session"
              /\ permit' = permit
           \/ pc[r] = "working dir" /\ next = "working" /\ permit' = permit
           \/ pc[r] = "final" /\ next = "final write" /\ permit' = [permit EXCEPT ![r] = FALSE]
  <2>1. CASE IssuePermit(r)
      BY <2>1 DEF IssuePermit, Goto
  <2>2. CASE UsePermit(r)
      BY <2>2 DEF UsePermit, Goto
  <2>3. CASE MakeMemoryDir(r)
    <3>1. PICK k \in Kinds : /\ pc[r] \in MakingDir(k)
                             /\ pc' = [pc EXCEPT ![r] = k] /\ permit' = permit
        BY <2>3 DEF MakeMemoryDir, Goto
    <3>2. CASE k = "session"
        BY <3>1, <3>2 DEF MakingDir
    <3>3. CASE k = "working"
        BY <3>1, <3>3 DEF MakingDir
    <3> QED
        BY <3>2, <3>3 DEF Kinds
  <2>4. CASE MakeParentDir(r)
      BY <2>4 DEF MakeParentDir, Goto
  <2> QED
      BY <2>1, <2>2, <2>3, <2>4
<1>3. /\ pc[r] \in Normal /\ next \in Normal /\ next \in Committing /\ next \notin Undecided
      /\ pc[r] \in {"permit"} \union Committing
    BY <1>2 DEF Normal, Opening, Executing, Committing, Finalizing, Undecided
<1>4. Behind(r) /\ PermitShort(r)
    BY <1>3 DEF IInv, Inv, Path
<1>5. pc'[r] = next
    BY <1>2 DEF TypeOK
<1>6. Behind(r)'
    BY <1>1, <1>2, <1>4, <1>5 DEF Behind, Opening, Finalizing, Committing
<1>7. PermitShort(r)'
    BY <1>2, <1>3, <1>5 DEF PermitShort, TypeOK
<1>8. \A q \in Runs \ {r} : denied'[q] = denied[q] /\ permit'[q] = permit[q]
    BY <1>1, <1>2 DEF TypeOK
<1> QED
    BY <1>1, <1>2, <1>3, <1>6, <1>7, <1>8, MoveOnPath

LEMMA MutateStep == ASSUME TypeOK, IInv, NEW r \in Runs, Mutate(r) PROVE IInv'
<1> DEFINE d == Document("recorded", {"acceptance"})
           next == AfterMutate(r)
<1>1. /\ UNCHANGED <<mode, exc, notes, permit, late>> /\ pc[r] = "mutate"
      /\ pc' = [pc EXCEPT ![r] = next]
      /\ \A q \in Runs \ {r} : denied'[q] = denied[q]
    BY DEF Mutate, blame, Goto, TypeOK
<1>2. \/ /\ art' = [art EXCEPT ![r] = [art[r] EXCEPT !["mutation"] = d]]
         /\ held' = [held EXCEPT ![r] = @ \union {"mutation"}]
      \/ art' = art /\ held' = held
    BY DEF Mutate, Put
<1>3. /\ pc[r] \in Normal /\ pc[r] \notin Committing /\ pc[r] \in Undecided
      /\ next \in {"test", "completed"} /\ next \in Normal /\ next \notin Committing
    BY <1>1 DEF Normal, Opening, Executing, Finalizing, Committing, Undecided, AfterMutate
<1>4. Inv(r) /\ Path(r) /\ Behind(r) /\ PermitShort(r)
    BY <1>3 DEF IInv, Inv, Path
<1>5. /\ {"audit", "trace"} \intersect held[r] = {} /\ OnDisk(r) = held[r] \ {"output"}
      /\ late[r] = {} /\ pc'[r] = next
    BY <1>1, <1>3, <1>4 DEF Path, Undecided, TypeOK
<1>6. ASSUME held[r] \subseteq held'[r] PROVE Behind(r)'
    BY <1>1, <1>3, <1>4, <1>5, <1>6 DEF Behind, Opening, Finalizing, Committing
<1>7. PermitShort(r)'
  <2>1. ~permit[r]
      BY <1>3, <1>4, Labels DEF PermitShort, Cleaning, Ended
  <2> QED
      BY <1>1, <2>1 DEF PermitShort
<1>8. CASE art' = art /\ held' = held
    BY <1>1, <1>3, <1>5, <1>6, <1>7, <1>8, MoveOnPath
<1>9. CASE /\ art' = [art EXCEPT ![r] = [art[r] EXCEPT !["mutation"] = d]]
           /\ held' = [held EXCEPT ![r] = @ \union {"mutation"}]
  <2>1. /\ Puts(r, "mutation", d) /\ held'[r] = held[r] \union {"mutation"}
        /\ \A q \in Runs \ {r} : art'[q] = art[q] /\ held'[q] = held[q]
      BY <1>9 DEF TypeOK, Puts
  <2>2. /\ "mutation" \in Names \ {"failed"} /\ "acceptance" \in Names \ Kinds
        /\ "mutation" \notin {"audit", "trace", "workflow"} \union Kinds
      BY DEF Names, Approvals, Kinds
  <2>3. d \in Documents /\ d.cites = {"acceptance"}
      BY <2>2, DocumentType DEF Statuses
  <2>4. "acceptance" \in OnDisk(r)
      BY <1>1, <1>4, <1>5 DEF Behind, Opening
  <2>5. late'[r] = late[r] \ {"mutation"} /\ mode'[r] = mode[r] /\ Behind(r)'
      BY <1>1, <1>5, <1>6, <2>1
  <2>6. {"audit", "trace"} \intersect (held[r] \union {"mutation"}) = {}
      BY <1>5
  <2> HIDE DEF d, next
  <2>7. Inv(r)'
      BY <1>3, <1>4, <1>5, <1>7, <2>1, <2>2, <2>3, <2>4, <2>5, <2>6, StoredOnPath
  <2>8. \A q \in Runs \ {r} : Same(q)
      BY <1>1, <2>1 DEF Same, TypeOK
  <2> QED
      BY <2>7, <2>8, OthersKept
<1> QED
    BY <1>2, <1>8, <1>9

\* Calls that raise before the finalization: the mutations and the tests may have
\* left an approval or a result, the others leave nothing.
LEMMA FailingSteps ==
    ASSUME TypeOK, IInv, NEW r \in Runs,
           FailStep(r) \/ MemoryDirGone(r) \/ MutateFails(r) \/ TestFails(r)
    PROVE  IInv'
<1>1. CASE FailStep(r) \/ MemoryDirGone(r)
  <2>1. pc[r] \in Normal
      BY <1>1 DEF FailStep, MemoryDirGone, Normal, Opening, Executing, Finalizing,
                  Committing, Creating, Kinds
  <2>2. PICK c \in Classes : Raise(r, c)
      BY <1>1 DEF FailStep, MemoryDirGone, Classes
  <2> QED
      BY <2>1, <2>2, RaiseStep
<1>2. CASE MutateFails(r) \/ TestFails(r)
  <2>1. /\ pc[r] \in Executing /\ pc[r] \in Normal /\ pc[r] \notin Committing
        /\ UNCHANGED <<mode, denied, permit, notes, late>>
      BY <1>2 DEF MutateFails, TestFails, blame, Executing, Normal, Committing
  <2>2. PICK c \in Classes : Unwind(r, c)
      BY <1>2 DEF MutateFails, TestFails, Classes
  <2>3. /\ Unwound(r, c)
        /\ \A q \in Runs \ {r} : pc'[q] = pc[q] /\ held'[q] = held[q] /\ exc'[q] = exc[q]
      BY <2>2, UnwindEffect
  <2>4. \/ art' = art
        \/ art' = [art EXCEPT ![r] = [art[r] EXCEPT !["mutation"] =
                                         Document("recorded", {"acceptance"})]]
      BY <1>2 DEF MutateFails, TestFails, Put
  <2>5. \A q \in Runs \ {r} : Same(q)
      BY <2>1, <2>3, <2>4 DEF Same, TypeOK
  <2>6. Inv(r) /\ Quiet(r)
      BY <2>1 DEF IInv, Quiet
  <2>7. CASE art' = art
    <3>1. Disturbed(r, {}) /\ {} \in SUBSET Names
        BY <2>1, <2>7 DEF Disturbed
    <3>2. Inv(r)'
        BY <2>1, <2>3, <2>6, <3>1, UnwoundInv
    <3> QED
        BY <2>5, <3>2, OthersKept
  <2>8. CASE art' = [art EXCEPT ![r] = [art[r] EXCEPT !["mutation"] =
                                          Document("recorded", {"acceptance"})]]
    <3>1. Puts(r, "mutation", Document("recorded", {"acceptance"}))
        BY <2>8 DEF Puts, TypeOK
    <3>2. /\ Document("recorded", {"acceptance"}) \in Documents
          /\ Document("recorded", {"acceptance"}).cites = {"acceptance"}
        BY DocumentType DEF Statuses, Names, Approvals
    <3>3. ApprovalLeft(r)
        BY <2>1, <3>1, <3>2 DEF ApprovalLeft
    <3>4. Inv(r)'
        BY <2>1, <2>3, <2>6, <3>3, UnwoundInv
    <3> QED
        BY <2>5, <3>4, OthersKept
  <2> QED
      BY <2>4, <2>7, <2>8
<1> QED
    BY <1>1, <1>2

\* The successful workflow is written with everything it rests on in place.
LEMMA FinalStep == ASSUME TypeOK, IInv, NEW r \in Runs, WriteFinal(r) PROVE IInv'
<1> DEFINE d == Document(FinalStatus(r), Cited(r))
<1>1. pc[r] = "final write" /\ Write(r, "workflow", d, "returned")
    BY DEF WriteFinal
<1>2. /\ pc[r] \in Normal /\ pc[r] \in Committing /\ "workflow" \in Names
      /\ "audit" \in Names /\ "workflow" \notin Kinds
    BY <1>1 DEF Normal, Committing, Names, Kinds
<1>3. Inv(r) /\ Path(r) /\ Behind(r) /\ PermitShort(r) /\ Resolves(r)
    BY <1>2 DEF IInv, Inv, Path
<1>4. /\ OnDisk(r) = held[r] \ {"output"} /\ late[r] = {} /\ "failed" \notin held[r]
      /\ {"completed", "workflow", "session", "working"} \subseteq held[r]
      /\ mode[r] = "dev" => {"audit", "trace"} \subseteq held[r]
      /\ \A n \in {"audit", "trace"} \intersect held[r] : art[r][n].status = FinalStatus(r)
    BY <1>1, <1>2, <1>3 DEF Path, Behind, Opening
<1>5. /\ d \in Documents /\ d.status = FinalStatus(r)
      /\ d.cites = held[r] \ {"output", "workflow"} /\ d.cites \subseteq OnDisk(r)
  <2>1. held[r] \ {"output", "workflow"} \in SUBSET Names
      BY DEF TypeOK
  <2> QED
      BY <1>4, <2>1, StatusType, DocumentType DEF Cited
<1> HIDE DEF d
<1>6. /\ \A q \in Runs \ {r} : Same(q)
      /\ Quiet(r)
      /\ \/ PutsIn(r, "workflow", d) /\ pc'[r] = "returned"
         \/ Disturbed(r, {"workflow"}) /\ \E c \in Classes : Unwound(r, c)
    BY <1>1, <1>2, <1>5, WriteEffect
<1>7. CASE Disturbed(r, {"workflow"}) /\ \E c \in Classes : Unwound(r, c)
  <2>1. \E N \in SUBSET Names :
          /\ Disturbed(r, N)
          /\ IF pc[r] \in Committing THEN N \subseteq Kinds \union {"workflow"}
             ELSE N \subseteq Names \ (Kinds \union {"mutation"})
      BY <1>2, <1>7
  <2>2. Inv(r)'
      BY <1>2, <1>3, <1>6, <1>7, <2>1, UnwoundInv
  <2> QED
      BY <1>6, <2>2, OthersKept
<1>8. CASE PutsIn(r, "workflow", d) /\ pc'[r] = "returned"
  <2>1. /\ OnDisk(r)' = OnDisk(r) \union {"workflow"} /\ art'[r]["workflow"] = d
        /\ \A m \in Names \ {"workflow"} : art'[r][m] = art[r][m]
      BY <1>2, <1>5, <1>8, PutEffect DEF PutsIn
  <2>2. /\ FinalStatus(r)' = FinalStatus(r) /\ late'[r] = {} /\ mode'[r] = mode[r]
        /\ permit'[r] = permit[r]
      BY <1>4, <1>6, <1>8 DEF PutsIn, Quiet, FinalStatus
  <2>3. OnDisk(r) \subseteq Names
      BY DEF OnDisk
  <2>4. Resolves(r)'
    <3>1. \A m \in OnDisk(r) : art[r][m].cites \subseteq OnDisk(r)'
        BY <1>3, <1>4, <2>1 DEF Resolves
    <3> QED
        BY <1>5, <2>1, <2>2, <2>3, <3>1 DEF Resolves
  <2>5. PermitShort(r)'
    <3>1. ~permit[r]
        BY <1>1, <1>3 DEF PermitShort
    <3> QED
        BY <2>2, <3>1 DEF PermitShort
  <2>6. AuditAgrees(r)'
    <3>1. "audit" \in d.cites => art'[r]["audit"].status = d.status
        BY <1>2, <1>4, <1>5, <2>1
    <3> QED
        BY <2>1, <3>1 DEF AuditAgrees
  <2>7. MemoryLast(r)'
    <3>1. "completed" \in OnDisk(r)' /\ "failed" \notin OnDisk(r)'
        BY <1>4, <2>1
    <3>2. mode[r] = "dev" => \A n \in {"audit", "trace"} :
            n \in OnDisk(r)' /\ art'[r][n].status = FinalStatus(r)'
        BY <1>4, <2>1, <2>2, <2>3
    <3> QED
        BY <2>2, <3>1, <3>2 DEF MemoryLast
  <2>8. Whole(r)'
    <3>1. d # None
        BY <1>5, NoneAssumption
    <3>2. Kinds \subseteq OnDisk(r)'
        BY <1>4, <2>1 DEF Kinds
    <3>3. d.cites = OnDisk(r)' \ {"workflow"}
        BY <1>4, <1>5, <2>1
    <3>4. WorkflowStatus(r)' = FinalStatus(r)'
        BY <1>5, <2>1, <2>2, <3>1 DEF WorkflowStatus
    <3> QED
        BY <1>8, <2>1, <3>2, <3>3, <3>4 DEF Whole
  <2>9. Ending(r)'
      BY <1>8, <2>6, <2>7, <2>8 DEF Ending, FailureTold
  <2>10. /\ pc'[r] \notin Live /\ pc'[r] \notin Normal \union Cleaning \union Recovering
         /\ pc'[r] \notin {"discard", "unlink", "rmdir", "raised"}
      BY <1>8, Labels DEF Ended, Live
  <2>11. Inv(r)'
      BY <2>4, <2>5, <2>9, <2>10 DEF Inv, Path, Story, CleanUp, Recovery
  <2> QED
      BY <1>6, <2>11, OthersKept
<1> QED
    BY <1>6, <1>7, <1>8
-------------------------------------------------------------------------------
(* The clean-up of a finalization.                                             *)

LEMMA DiscardStep == ASSUME TypeOK, IInv, NEW r \in Runs, DiscardPermit(r) PROVE IInv'
<1>1. /\ pc[r] = "discard" /\ pc'[r] = "unlink" /\ ~permit'[r]
      /\ art'[r] = art[r] /\ held'[r] = held[r] /\ late'[r] = late[r] /\ exc'[r] = exc[r]
      /\ mode'[r] = mode[r] /\ denied'[r] = denied[r] /\ notes'[r] = notes[r]
      /\ \A q \in Runs \ {r} : Same(q)
    BY DEF DiscardPermit, Goto, Same, TypeOK, blame, story
<1>2. /\ OnDisk(r)' = OnDisk(r) /\ FinalStatus(r)' = FinalStatus(r)
    BY <1>1 DEF OnDisk, FinalStatus
<1>3. /\ pc[r] \in Live /\ pc'[r] \notin Normal \union Recovering \union Ended
      /\ pc'[r] \notin {"rmdir", "raised"} \union Recovering
    BY <1>1, Labels DEF Cleaning
<1>4. Story(r) /\ CleanUp(r) /\ Resolves(r)
    BY DEF IInv, Inv
<1>5. Story(r)' /\ Resolves(r)'
    BY <1>1, <1>2, <1>3, <1>4 DEF Story, Resolves
<1>6. CleanUp(r)'
    BY <1>1, <1>2, <1>3, <1>4 DEF CleanUp, Cleaning
<1>7. Inv(r)'
    BY <1>1, <1>3, <1>5, <1>6 DEF Inv, Path, Recovery, PermitShort, Ending
<1> QED
    BY <1>1, <1>7, OthersKept

LEMMA UnlinkStep == ASSUME TypeOK, IInv, NEW r \in Runs, UnlinkMemory(r) PROVE IInv'
<1>1. PICK stuck \in SUBSET (held[r] \intersect Kinds) :
        /\ notes' = [notes EXCEPT ![r] = @ \union stuck]
        /\ art' = [art EXCEPT ![r] = [n \in Names |->
                     IF n \in (held[r] \intersect Kinds) \ stuck THEN None ELSE @[n]]]
    BY DEF UnlinkMemory
<1>2. /\ pc[r] = "unlink" /\ pc'[r] = "rmdir" /\ permit'[r] = permit[r]
      /\ held'[r] = held[r] /\ late'[r] = late[r] /\ exc'[r] = exc[r]
      /\ mode'[r] = mode[r] /\ denied'[r] = denied[r] /\ notes'[r] = notes[r] \union stuck
    BY <1>1 DEF UnlinkMemory, Goto, TypeOK, story
<1>3. \A q \in Runs \ {r} : Same(q)
    BY <1>1 DEF UnlinkMemory, Goto, Same, TypeOK, story
<1>4. \A n \in Names :
        art'[r][n] = IF n \in (held[r] \intersect Kinds) \ stuck THEN None ELSE art[r][n]
    BY <1>1 DEF TypeOK
<1>5. /\ OnDisk(r)' = OnDisk(r) \ ((held[r] \intersect Kinds) \ stuck)
      /\ \A n \in OnDisk(r)' : art'[r][n] = art[r][n]
    BY <1>4 DEF OnDisk
<1>6. /\ pc[r] \in Live /\ pc'[r] \notin Normal \union Recovering \union Ended
      /\ pc'[r] \in Cleaning /\ pc[r] \in Cleaning
    BY <1>2, Labels DEF Cleaning
<1>7. Story(r) /\ CleanUp(r) /\ Resolves(r) /\ PermitShort(r)
    BY DEF IInv, Inv
<1>8. KnownMemory(r)' = {}
  <2>1. (OnDisk(r) \intersect Kinds) \ late[r] \subseteq held[r]
      BY <1>2, <1>7 DEF CleanUp
  <2> QED
      BY <1>2, <1>5, <2>1 DEF KnownMemory
<1>9. CleanUp(r)'
    BY <1>2, <1>6, <1>7, <1>8 DEF CleanUp
<1>10. Story(r)'
  <2>1. "workflow" \in OnDisk(r)' \ late'[r] => art'[r]["workflow"] = Planned
      BY <1>2, <1>5, <1>6, <1>7 DEF Story
  <2>2. \A n \in OnDisk(r)' \ late'[r] : art'[r][n].cites \intersect Kinds = {}
      BY <1>2, <1>5, <1>6, <1>7 DEF Story
  <2>3. held'[r] \ ({"output"} \union Kinds) \subseteq OnDisk(r)'
      BY <1>2, <1>5, <1>6, <1>7 DEF Story
  <2> QED
      BY <1>2, <2>1, <2>2, <2>3 DEF Story
<1>11. Resolves(r)'
  <2>1. ASSUME NEW n \in OnDisk(r)' \ late'[r] PROVE art'[r][n].cites \subseteq OnDisk(r)'
    <3>1. /\ n \in OnDisk(r) \ late[r] /\ art'[r][n] = art[r][n]
          /\ art[r][n].cites \intersect Kinds = {}
        BY <1>2, <1>5, <1>6, <1>7, <2>1 DEF Story
    <3> QED
        BY <1>5, <1>7, <3>1 DEF Resolves
  <2> QED
      BY <2>1 DEF Resolves
<1>12. PermitShort(r)'
    BY <1>2, <1>7 DEF PermitShort, Committing
<1>13. Inv(r)'
    BY <1>6, <1>9, <1>10, <1>11, <1>12 DEF Inv, Path, Recovery, Ending
<1> QED
    BY <1>3, <1>13, OthersKept

\* The exception goes on to the recovery, or out of the run.
LEMMA RemoveDirsStep ==
    ASSUME TypeOK, IInv, NEW r \in Runs, RemoveMemoryDirs(r)
    PROVE  IInv'
<1>1. pc[r] = "rmdir" /\ UNCHANGED <<art, permit, mode, denied, notes, late>>
    BY DEF RemoveMemoryDirs, story, blame
<1>2. /\ pc[r] \in Cleaning /\ pc[r] \in Live /\ pc[r] \notin Committing
    BY <1>1, Labels DEF Cleaning, Committing
<1>3. Story(r) /\ CleanUp(r) /\ Resolves(r) /\ PermitShort(r)
    BY DEF IInv, Inv
<1>4. exc[r] \in Classes /\ KnownMemory(r) = {}
    BY <1>1, <1>2, <1>3 DEF CleanUp
<1>5. /\ Unwound(r, exc[r])
      /\ \A q \in Runs \ {r} : pc'[q] = pc[q] /\ held'[q] = held[q] /\ exc'[q] = exc[q]
    BY UnwindEffect DEF RemoveMemoryDirs
<1>6. /\ exc'[r] = exc[r] /\ held'[r] = held[r] \ FinalizerLocals
      /\ pc'[r] = IF exc[r] = "expected" THEN "fail event" ELSE "raised"
    BY <1>2, <1>5 DEF Unwound
<1>7. /\ art'[r] = art[r] /\ late'[r] = late[r] /\ OnDisk(r)' = OnDisk(r)
      /\ KnownMemory(r)' = {}
    BY <1>1, <1>4 DEF OnDisk, KnownMemory
<1>8. /\ pc'[r] \in {"fail event", "raised"} /\ pc'[r] \notin Normal \union Cleaning
      /\ pc'[r] \notin {"discard", "unlink", "rmdir"}
    BY <1>6, Labels DEF Recovering, Ended
<1>9. Story(r)'
  <2>1. held'[r] \ {"output"} \subseteq OnDisk(r)'
      BY <1>1, <1>2, <1>3, <1>6, <1>7 DEF Story, FinalizerLocals
  <2> QED
      BY <1>2, <1>3, <1>7, <2>1 DEF Story
<1>10. Resolves(r)' /\ CleanUp(r)'
    BY <1>3, <1>7, <1>8 DEF Resolves, CleanUp
<1>11. PermitShort(r)'
    BY <1>1, <1>3 DEF PermitShort, Committing
<1>12. Recovery(r)'
  <2>1. "audit" \notin held'[r]
      BY <1>6 DEF FinalizerLocals
  <2> QED
      BY <1>6, <1>8, <2>1 DEF Recovery, RecoveryStage, Recovering
<1>13. Ending(r)'
  <2>1. CASE pc'[r] = "fail event"
      BY <2>1 DEF Ending, Ended
  <2>2. CASE pc'[r] = "raised"
    <3>1. exc'[r] # "expected"
        BY <1>6, <2>2
    <3>2. "workflow" \in OnDisk(r)' \ late'[r] => art'[r]["workflow"] = Planned
        BY <1>2, <1>3, <1>7 DEF Story
    <3> QED
        BY <1>7, <2>2, <3>1, <3>2, RaisedEnding
  <2> QED
      BY <1>8, <2>1, <2>2
<1>14. Inv(r)'
    BY <1>8, <1>9, <1>10, <1>11, <1>12, <1>13 DEF Inv, Path
<1>15. \A q \in Runs \ {r} : Same(q)
    BY <1>1, <1>5 DEF Same
<1> QED
    BY <1>14, <1>15, OthersKept
-------------------------------------------------------------------------------
(* The writes of the recovery: each is there when the run goes on, or noted.   *)

\* Only a write that returns takes the run to next with its path.
Onward(r, n, next, otherwise) ==
    (pc'[r] = next /\ n \in held'[r]) \/ pc'[r] = otherwise

Attempted(r, n, d) ==
    /\ OnDisk(r) \subseteq OnDisk(r)' /\ OnDisk(r)' \subseteq OnDisk(r) \union {n}
    /\ \A m \in Names \ {n} : art'[r][m] = art[r][m] /\ (m \in late'[r] <=> m \in late[r])
    /\ art'[r][n] \in {d, art[r][n]}
    /\ n \in OnDisk(r)' \ late'[r] =>
         art'[r][n] = d \/ (n \in OnDisk(r) \ late[r] /\ art'[r][n] = art[r][n])
    /\ \/ held'[r] = held[r]
       \/ held'[r] = held[r] \union {n} /\ n \in OnDisk(r)' /\ art'[r][n] = d
    /\ notes[r] \subseteq notes'[r]
    /\ n \notin notes'[r] => n \in OnDisk(r)' /\ art'[r][n] = d

LEMMA AttemptEffect ==
    ASSUME TypeOK, NEW r \in Runs, NEW n \in Names, NEW d \in Documents,
           NEW next, NEW otherwise, Attempt(r, n, d, next, otherwise)
    PROVE  /\ \A q \in Runs \ {r} : Same(q)
           /\ mode'[r] = mode[r] /\ permit'[r] = permit[r] /\ exc'[r] = exc[r]
           /\ Attempted(r, n, d)
           /\ Onward(r, n, next, otherwise)
<1>1. UNCHANGED <<permit, mode, denied>>
    BY DEF Attempt, story
<1>2. CASE Stored(r, n, d, next)
  <2>1. /\ PutsIn(r, n, d) /\ pc'[r] = next /\ exc'[r] = exc[r] /\ notes'[r] = notes[r]
        /\ \A q \in Runs \ {r} : Same(q)
      BY <1>1, <1>2, StoredEffect DEF Same
  <2>2. /\ OnDisk(r)' = OnDisk(r) \union {n} /\ art'[r][n] = d
        /\ \A m \in Names \ {n} : art'[r][m] = art[r][m]
      BY <2>1, PutEffect DEF PutsIn
  <2>3. held'[r] = held[r] \union {n} /\ late'[r] = late[r] \ {n}
      BY <2>1 DEF PutsIn
  <2>4. Attempted(r, n, d)
      BY <2>1, <2>2, <2>3 DEF Attempted
  <2> QED
      BY <1>1, <2>1, <2>3, <2>4 DEF Onward
<1>3. CASE /\ Faulty(r, n, d) /\ notes' = [notes EXCEPT ![r] = @ \union {n}]
           /\ Goto(r, otherwise) /\ UNCHANGED <<held, exc>>
  <2>1. /\ Disturbed(r, {n})
        /\ \A q \in Runs \ {r} : art'[q] = art[q] /\ late'[q] = late[q]
      BY <1>3, FaultyEffect
  <2>2. /\ notes'[r] = notes[r] \union {n} /\ pc'[r] = otherwise
        /\ held'[r] = held[r] /\ exc'[r] = exc[r]
        /\ \A q \in Runs \ {r} : Same(q)
      BY <1>1, <1>3, <2>1 DEF Goto, TypeOK, Same
  <2>3. CASE art'[r] = art[r] /\ late'[r] = late[r]
    <3>1. OnDisk(r)' = OnDisk(r)
        BY <2>3 DEF OnDisk
    <3>2. Attempted(r, n, d)
        BY <2>2, <2>3, <3>1 DEF Attempted
    <3> QED
        BY <1>1, <2>2, <3>2 DEF Onward
  <2>4. ASSUME Puts(r, n, d), late'[r] = late[r] \union {n}
        PROVE  Attempted(r, n, d)
    <3>1. /\ OnDisk(r)' = OnDisk(r) \union {n} /\ art'[r][n] = d
          /\ \A m \in Names \ {n} : art'[r][m] = art[r][m]
        BY <2>4, PutEffect
    <3> QED
        BY <2>2, <2>4, <3>1 DEF Attempted
  <2>5. \/ art'[r] = art[r] /\ late'[r] = late[r]
        \/ Puts(r, n, d) /\ late'[r] = late[r] \union {n}
    <3>1. \/ art' = art /\ late' = late
          \/ /\ art' = [art EXCEPT ![r] = [art[r] EXCEPT ![n] = d]]
             /\ late' = [late EXCEPT ![r] = @ \union {n}]
        BY <1>3 DEF Faulty, Put
    <3> QED
        BY <3>1 DEF TypeOK, Puts
  <2> QED
      BY <1>1, <2>2, <2>3, <2>4, <2>5 DEF Onward
<1> QED
    BY <1>2, <1>3 DEF Attempt

\* What has been told stays told, and now artifact n is.
LEMMA ToldKept ==
    ASSUME NEW r \in Runs, NEW n \in Names, NEW d \in Documents, Attempted(r, n, d)
    PROVE  /\ \A m \in Names \ {n} : Told(r, m) => Told(r, m)'
           /\ n = "failed" \/ d.status = "failed" => Told(r, n)'
<1>1. ASSUME NEW m \in Names \ {n}, Told(r, m) PROVE Told(r, m)'
    BY <1>1 DEF Told, Attempted
<1>2. ASSUME n = "failed" \/ d.status = "failed" PROVE Told(r, n)'
    BY <1>2 DEF Told, Attempted
<1> QED
    BY <1>1, <1>2

LEMMA AttemptInv ==
    ASSUME TypeOK, IInv, NEW r \in Runs, pc[r] \in Recovering,
           NEW n \in Names \ Kinds, NEW d \in Documents, Attempted(r, n, d),
           mode'[r] = mode[r], permit'[r] = permit[r], exc'[r] = exc[r],
           pc'[r] \in Recovering \union {"raised"},
           d.cites \subseteq OnDisk(r),
           n = "audit" => d.status = "failed",
           pc'[r] \in Recovering =>
             n # "workflow" /\ d.cites \intersect Kinds = {} /\ RecoveryStage(r)',
           n = "workflow" => /\ d.status = "failed"
                             /\ "audit" \in d.cites => "audit" \in held[r],
           pc'[r] = "raised" => FailureTold(r)'
    PROVE  Inv(r)'
<1>1. /\ Story(r) /\ CleanUp(r) /\ Recovery(r) /\ Resolves(r) /\ PermitShort(r)
      /\ pc[r] \in Live /\ pc[r] # "rmdir" /\ ~permit[r]
    BY Labels DEF IInv, Inv, PermitShort, Cleaning, Committing, Recovering
<1>2. /\ pc'[r] \notin Normal \union Cleaning /\ pc'[r] \notin {"discard", "unlink", "rmdir"}
      /\ pc'[r] \in Recovering => pc'[r] \notin Ended
    BY Labels DEF Recovering, Ended, Cleaning
<1>3. /\ n \in Names /\ {"workflow", "audit"} \subseteq Names
      /\ OnDisk(r) \subseteq Names /\ OnDisk(r)' \subseteq Names
    BY DEF Names, OnDisk
<1>4. held[r] \ {"output"} \subseteq OnDisk(r)
    BY <1>1 DEF Story
<1>5. KnownMemory(r)' = {}
  <2>1. KnownMemory(r) = {}
      BY <1>1 DEF CleanUp
  <2> QED
      BY <1>3, <2>1 DEF KnownMemory, Attempted
<1>6. ASSUME NEW m \in OnDisk(r)' \ late'[r]
      PROVE  \/ m \in OnDisk(r) \ late[r] /\ art'[r][m] = art[r][m]
             \/ m = n /\ art'[r][m] = d
    BY <1>3, <1>6 DEF Attempted
<1>7. Resolves(r)'
  <2>1. OnDisk(r) \subseteq OnDisk(r)'
      BY DEF Attempted
  <2> QED
      BY <1>1, <1>6, <2>1 DEF Resolves
<1>8. Story(r)'
  <2> SUFFICES ASSUME pc'[r] \in Live PROVE Story(r)'
      BY DEF Story
  <2>1. pc'[r] \in Recovering
      BY Labels DEF Ended, Live
  <2>2. "workflow" \in OnDisk(r)' \ late'[r] => art'[r]["workflow"] = Planned
      BY <1>1, <1>6, <2>1 DEF Story
  <2>3. \A m \in OnDisk(r)' \ late'[r] : art'[r][m].cites \intersect Kinds = {}
      BY <1>1, <1>6, <2>1 DEF Story
  <2>4. held'[r] \ {"output"} \subseteq OnDisk(r)'
      BY <1>4 DEF Attempted
  <2> QED
      BY <2>2, <2>3, <2>4 DEF Story
<1>9. CleanUp(r)'
    BY <1>2, <1>5 DEF CleanUp
<1>10. Recovery(r)'
  <2>1. "audit" \in held'[r] => art'[r]["audit"].status = "failed"
    <3>1. "audit" \in held[r] => art[r]["audit"].status = "failed"
        BY <1>1 DEF Recovery
    <3>2. CASE n = "audit"
        BY <3>1, <3>2 DEF Attempted
    <3>3. CASE n # "audit"
        BY <1>3, <3>1, <3>3 DEF Attempted
    <3> QED
        BY <3>2, <3>3
  <2>2. exc'[r] = "expected"
      BY <1>1 DEF Recovery
  <2> QED
      BY <2>1, <2>2 DEF Recovery
<1>11. Ending(r)'
  <2> SUFFICES ASSUME pc'[r] = "raised" PROVE Ending(r)'
      BY <1>2 DEF Ending
  <2>1. Planned.status \notin Succeeded \union {"failed"} /\ "audit" \notin Planned.cites
      BY DEF Planned, Document, Succeeded
  <2>2. "workflow" \in OnDisk(r)' \ late'[r] =>
          art'[r]["workflow"] = Planned \/ (n = "workflow" /\ art'[r]["workflow"] = d)
      BY <1>1, <1>6 DEF Story
  <2>3. AuditAgrees(r)'
    <3>1. n = "workflow" /\ "audit" \in held[r] => art'[r]["audit"].status = "failed"
        BY <1>1, <1>3 DEF Recovery, Attempted
    <3> QED
        BY <1>3, <2>1, <2>2, <3>1 DEF AuditAgrees, OnDisk
  <2>4. Whole(r)'
    <3>1. WorkflowStatus(r)' \in Succeeded => "workflow" \in OnDisk(r)'
        BY <1>3, NoneAssumption DEF WorkflowStatus, OnDisk, Succeeded, Statuses
    <3>2. "workflow" \in OnDisk(r)' \ late'[r] => art'[r]["workflow"].status \notin Succeeded
        BY <2>1, <2>2 DEF Succeeded
    <3> QED
        BY <3>1, <3>2, NoneAssumption DEF Whole, WorkflowStatus, OnDisk
  <2> QED
      BY <1>5, <2>3, <2>4 DEF Ending, MemoryLast
<1>12. PermitShort(r)' /\ Path(r)'
    BY <1>1, <1>2 DEF PermitShort, Path
<1> QED
    BY <1>7, <1>8, <1>9, <1>10, <1>11, <1>12 DEF Inv

\* The evidence a recovering run may cite.
LEMMA EvidenceHeld ==
    ASSUME TypeOK, IInv, NEW r \in Runs, pc[r] \in Recovering
    PROVE  /\ Evidence(r) \subseteq OnDisk(r) /\ Cited(r) \subseteq OnDisk(r)
           /\ Evidence(r) \in SUBSET Names /\ Cited(r) \in SUBSET Names
           /\ Evidence(r) \intersect Kinds = {}
           /\ "audit" \in held[r] => "audit" \in OnDisk(r)
<1>1. Story(r) /\ pc[r] \in Live /\ pc[r] # "rmdir"
    BY Labels DEF IInv, Inv, Recovering
<1>2. held[r] \ {"output"} \subseteq OnDisk(r) /\ OnDisk(r) \subseteq Names
    BY <1>1 DEF Story, OnDisk
<1> QED
    BY <1>2 DEF Evidence, Cited, Events, Approvals, Kinds

LEMMA FailEventStep == ASSUME TypeOK, IInv, NEW r \in Runs, FailEvent(r) PROVE IInv'
<1> DEFINE d == Document("recorded", {})
           next == IF ~CanTellStory(r) THEN "raised"
                   ELSE IF mode[r] = "dev" THEN "fail audit" ELSE "fail workflow"
<1>1. pc[r] = "fail event" /\ Attempt(r, "failed", d, next, next)
    BY DEF FailEvent, Event
<1>2. /\ pc[r] \in Recovering /\ "failed" \in Names /\ "failed" \in Names \ Kinds
      /\ next \in {"fail audit", "fail workflow", "raised"}
    BY <1>1 DEF Recovering, Names, Events, Kinds
<1>3. d \in Documents /\ d.cites = {}
    BY DocumentType DEF Statuses
<1> HIDE DEF d
<1>typed. "failed" \in Names /\ d \in Documents
    BY <1>2, <1>3
<1>4. /\ \A q \in Runs \ {r} : Same(q)
      /\ mode'[r] = mode[r] /\ permit'[r] = permit[r] /\ exc'[r] = exc[r]
      /\ Attempted(r, "failed", d) /\ pc'[r] = next
  <2>1. Attempt(r, "failed", d, next, next)
      BY <1>1
  <2> HIDE DEF next
  <2> QED
      BY <1>typed, <2>1, AttemptEffect DEF Onward
<1>5. Told(r, "failed")'
    BY <1>2, <1>3, <1>4, ToldKept
<1>6. CanTellStory(r)' <=> CanTellStory(r)
    BY <1>4 DEF CanTellStory, Attempted
<1>7. pc'[r] \in Recovering => RecoveryStage(r)'
    BY <1>4, <1>5, <1>6 DEF RecoveryStage, Recovering
<1>8. pc'[r] = "raised" => FailureTold(r)'
    BY <1>4, <1>5, <1>6 DEF FailureTold
<1>9. pc'[r] \in Recovering \union {"raised"}
    BY <1>2, <1>4 DEF Recovering
<1>10. Inv(r)'
    BY <1>2, <1>3, <1>4, <1>7, <1>8, <1>9, AttemptInv
<1> QED
    BY <1>4, <1>10, OthersKept

LEMMA FailAuditStep == ASSUME TypeOK, IInv, NEW r \in Runs, FailAudit(r) PROVE IInv'
<1> DEFINE d == Document("failed", Evidence(r))
           next == IF HasProposals(r) THEN "fail fix" ELSE "fail trace"
<1>1. pc[r] = "fail audit" /\ Attempt(r, "audit", d, next, "fail trace")
    BY DEF FailAudit
<1>2. /\ pc[r] \in Recovering /\ "audit" \in Names /\ "audit" \in Names \ Kinds
      /\ "failed" \in Names \ {"audit"} /\ next \in {"fail fix", "fail trace"}
    BY <1>1 DEF Recovering, Names, Events, Kinds
<1>3. /\ d \in Documents /\ d.status = "failed" /\ d.cites \subseteq OnDisk(r)
      /\ d.cites \intersect Kinds = {}
    BY <1>2, EvidenceHeld, DocumentType DEF Statuses
<1> HIDE DEF d, next
<1>typed. "audit" \in Names /\ d \in Documents
    BY <1>2, <1>3
<1>4. /\ \A q \in Runs \ {r} : Same(q)
      /\ mode'[r] = mode[r] /\ permit'[r] = permit[r] /\ exc'[r] = exc[r]
      /\ Attempted(r, "audit", d)
      /\ (pc'[r] = next /\ "audit" \in held'[r]) \/ pc'[r] = "fail trace"
  <2>1. Attempt(r, "audit", d, next, "fail trace")
      BY <1>1
  <2>2. /\ Attempted(r, "audit", d) /\ \A q \in Runs \ {r} : Same(q)
        /\ mode'[r] = mode[r] /\ permit'[r] = permit[r] /\ exc'[r] = exc[r]
      BY <1>typed, <2>1, AttemptEffect
  <2>3. Onward(r, "audit", next, "fail trace")
      BY <1>typed, <2>1, AttemptEffect
  <2> QED
      BY <2>2, <2>3 DEF Onward
<1>5. RecoveryStage(r)
    BY <1>2 DEF IInv, Inv, Recovery
<1>6. Told(r, "failed")' /\ Told(r, "audit")'
    BY <1>1, <1>2, <1>3, <1>4, <1>5, ToldKept DEF RecoveryStage
<1>7. CanTellStory(r)' <=> CanTellStory(r)
    BY <1>4 DEF CanTellStory, Attempted
<1>8. RecoveryStage(r)'
    BY <1>1, <1>2, <1>4, <1>5, <1>6, <1>7 DEF RecoveryStage
<1>9. pc'[r] \in Recovering /\ pc'[r] # "raised"
    BY <1>2, <1>4 DEF Recovering
<1>10. Inv(r)'
    BY <1>2, <1>3, <1>4, <1>8, <1>9, AttemptInv
<1> QED
    BY <1>4, <1>10, OthersKept

LEMMA FailFixStep == ASSUME TypeOK, IInv, NEW r \in Runs, FailFix(r) PROVE IInv'
<1> DEFINE d == Document("recorded", {"audit"})
<1>1. pc[r] = "fail fix" /\ Attempt(r, "fix", d, "fail trace", "fail trace")
    BY DEF FailFix
<1>2. /\ pc[r] \in Recovering /\ "fix" \in Names /\ "fix" \in Names \ Kinds
      /\ {"failed", "audit"} \subseteq Names \ {"fix"} /\ "audit" \notin Kinds
    BY <1>1 DEF Recovering, Names, Events, Kinds
<1>3. RecoveryStage(r)
    BY <1>2 DEF IInv, Inv, Recovery
<1>4. /\ d \in Documents /\ d.cites \subseteq OnDisk(r) /\ d.cites \intersect Kinds = {}
  <2>1. d \in Documents /\ d.cites = {"audit"}
      BY <1>2, DocumentType DEF Statuses
  <2>2. "audit" \in OnDisk(r)
      BY <1>1, <1>2, <1>3, EvidenceHeld DEF RecoveryStage
  <2> QED
      BY <1>2, <2>1, <2>2
<1> HIDE DEF d
<1>typed. "fix" \in Names /\ d \in Documents
    BY <1>2, <1>4
<1>5. /\ \A q \in Runs \ {r} : Same(q)
      /\ mode'[r] = mode[r] /\ permit'[r] = permit[r] /\ exc'[r] = exc[r]
      /\ Attempted(r, "fix", d) /\ pc'[r] = "fail trace"
  <2>1. /\ \A q \in Runs \ {r} : Same(q)
        /\ mode'[r] = mode[r] /\ permit'[r] = permit[r] /\ exc'[r] = exc[r]
        /\ Attempted(r, "fix", d) /\ Onward(r, "fix", "fail trace", "fail trace")
      BY <1>1, <1>typed, AttemptEffect
  <2>2. pc'[r] = "fail trace"
      BY <2>1 DEF Onward
  <2> QED
      BY <2>1, <2>2
<1>6. Told(r, "failed")' /\ Told(r, "audit")'
    BY <1>1, <1>2, <1>3, <1>4, <1>5, ToldKept DEF RecoveryStage
<1>7. CanTellStory(r)' <=> CanTellStory(r)
    BY <1>5 DEF CanTellStory, Attempted
<1>8. RecoveryStage(r)'
    BY <1>1, <1>3, <1>5, <1>6, <1>7 DEF RecoveryStage
<1>9. pc'[r] \in Recovering /\ pc'[r] # "raised"
    BY <1>5 DEF Recovering
<1>10. Inv(r)'
    BY <1>2, <1>4, <1>5, <1>8, <1>9, AttemptInv
<1> QED
    BY <1>5, <1>10, OthersKept

LEMMA FailTraceStep == ASSUME TypeOK, IInv, NEW r \in Runs, FailTrace(r) PROVE IInv'
<1> DEFINE d == Document("failed", Evidence(r))
<1>1. pc[r] = "fail trace" /\ Attempt(r, "trace", d, "fail workflow", "fail workflow")
    BY DEF FailTrace
<1>2. /\ pc[r] \in Recovering /\ "trace" \in Names /\ "trace" \in Names \ Kinds
      /\ {"failed", "audit"} \subseteq Names \ {"trace"}
    BY <1>1 DEF Recovering, Names, Events, Kinds
<1>3. /\ d \in Documents /\ d.status = "failed" /\ d.cites \subseteq OnDisk(r)
      /\ d.cites \intersect Kinds = {}
    BY <1>2, EvidenceHeld, DocumentType DEF Statuses
<1> HIDE DEF d
<1>typed. "trace" \in Names /\ d \in Documents
    BY <1>2, <1>3
<1>4. /\ \A q \in Runs \ {r} : Same(q)
      /\ mode'[r] = mode[r] /\ permit'[r] = permit[r] /\ exc'[r] = exc[r]
      /\ Attempted(r, "trace", d) /\ pc'[r] = "fail workflow"
  <2>1. /\ \A q \in Runs \ {r} : Same(q)
        /\ mode'[r] = mode[r] /\ permit'[r] = permit[r] /\ exc'[r] = exc[r]
        /\ Attempted(r, "trace", d) /\ Onward(r, "trace", "fail workflow", "fail workflow")
      BY <1>1, <1>typed, AttemptEffect
  <2>2. pc'[r] = "fail workflow"
      BY <2>1 DEF Onward
  <2> QED
      BY <2>1, <2>2
<1>5. RecoveryStage(r)
    BY <1>2 DEF IInv, Inv, Recovery
<1>6. /\ Told(r, "failed")' /\ Told(r, "trace")'
      /\ mode[r] = "dev" => Told(r, "audit")'
    BY <1>1, <1>2, <1>3, <1>4, <1>5, ToldKept DEF RecoveryStage
<1>7. CanTellStory(r)' <=> CanTellStory(r)
    BY <1>4 DEF CanTellStory, Attempted
<1>8. RecoveryStage(r)'
    BY <1>1, <1>4, <1>5, <1>6, <1>7 DEF RecoveryStage
<1>9. pc'[r] \in Recovering /\ pc'[r] # "raised"
    BY <1>4 DEF Recovering
<1>10. Inv(r)'
    BY <1>2, <1>3, <1>4, <1>8, <1>9, AttemptInv
<1> QED
    BY <1>4, <1>10, OthersKept

LEMMA FailWorkflowStep == ASSUME TypeOK, IInv, NEW r \in Runs, FailWorkflow(r) PROVE IInv'
<1> DEFINE d == Document("failed", Cited(r))
<1>1. pc[r] = "fail workflow" /\ Attempt(r, "workflow", d, "raised", "raised")
    BY DEF FailWorkflow
<1>2. /\ pc[r] \in Recovering /\ "workflow" \in Names /\ "workflow" \in Names \ Kinds
      /\ {"failed", "audit", "trace"} \subseteq Names \ {"workflow"}
    BY <1>1 DEF Recovering, Names, Events, Kinds
<1>3. /\ d \in Documents /\ d.status = "failed" /\ d.cites \subseteq OnDisk(r)
      /\ "audit" \in d.cites => "audit" \in held[r]
    BY <1>2, EvidenceHeld, DocumentType DEF Statuses, Cited
<1> HIDE DEF d
<1>typed. "workflow" \in Names /\ d \in Documents
    BY <1>2, <1>3
<1>4. /\ \A q \in Runs \ {r} : Same(q)
      /\ mode'[r] = mode[r] /\ permit'[r] = permit[r] /\ exc'[r] = exc[r]
      /\ Attempted(r, "workflow", d) /\ pc'[r] = "raised"
  <2>1. /\ \A q \in Runs \ {r} : Same(q)
        /\ mode'[r] = mode[r] /\ permit'[r] = permit[r] /\ exc'[r] = exc[r]
        /\ Attempted(r, "workflow", d) /\ Onward(r, "workflow", "raised", "raised")
      BY <1>1, <1>typed, AttemptEffect
  <2>2. pc'[r] = "raised"
      BY <2>1 DEF Onward
  <2> QED
      BY <2>1, <2>2
<1>5. RecoveryStage(r)
    BY <1>2 DEF IInv, Inv, Recovery
<1>6. /\ Told(r, "failed")' /\ Told(r, "workflow")'
      /\ mode[r] = "dev" => Told(r, "audit")' /\ Told(r, "trace")'
    BY <1>1, <1>2, <1>3, <1>4, <1>5, ToldKept DEF RecoveryStage
<1>7. FailureTold(r)'
    BY <1>4, <1>6 DEF FailureTold
<1>8. pc'[r] \notin Recovering /\ pc'[r] \in Recovering \union {"raised"}
    BY <1>4 DEF Recovering
<1>9. Inv(r)'
    BY <1>2, <1>3, <1>4, <1>7, <1>8, AttemptInv
<1> QED
    BY <1>4, <1>9, OthersKept
-------------------------------------------------------------------------------
(* A kill, and every step together.                                            *)

\* A run that has not ended tells nothing false: no success yet, and memory only
\* after what it rests on.
LEMMA LiveIsHonest ==
    ASSUME TypeOK, NEW r \in Runs, Inv(r), pc[r] \in Live
    PROVE  /\ AuditAgrees(r) /\ MemoryLast(r)
           /\ WorkflowStatus(r) \in Succeeded => "workflow" \in late[r]
<1>1. Path(r) /\ Story(r) /\ CleanUp(r)
    BY DEF Inv
<1>2. Planned.status \notin Succeeded /\ "audit" \notin Planned.cites
    BY DEF Planned, Document, Succeeded
<1>3. "workflow" \in Names
    BY DEF Names
<1>4. art[r]["workflow"] # None /\ "workflow" \notin late[r] => art[r]["workflow"] = Planned
    BY <1>1, <1>3 DEF Story, OnDisk
<1>5. AuditAgrees(r)
    BY <1>2, <1>4 DEF AuditAgrees
<1>6. WorkflowStatus(r) \in Succeeded => "workflow" \in late[r]
    BY <1>2, <1>4, NoneAssumption DEF WorkflowStatus, Succeeded, Statuses
<1>7. MemoryLast(r)
  <2> SUFFICES ASSUME KnownMemory(r) # {} PROVE MemoryLast(r)
      BY DEF MemoryLast
  <2>1. CASE pc[r] \in Normal
    <3>1. pc[r] \in Committing
        BY <1>1, <2>1 DEF Path, KnownMemory, Kinds
    <3>2. /\ OnDisk(r) = held[r] \ {"output"} /\ "failed" \notin held[r]
          /\ "completed" \in held[r]
          /\ mode[r] = "dev" => {"audit", "trace"} \subseteq held[r]
          /\ \A n \in {"audit", "trace"} \intersect held[r] : art[r][n].status = FinalStatus(r)
        BY <1>1, <2>1, <3>1 DEF Path, Behind
    <3> QED
        BY <3>2 DEF MemoryLast
  <2>2. CASE pc[r] \in {"discard", "unlink"}
      BY <1>1, <2>2 DEF CleanUp, MemoryLast
  <2>3. CASE pc[r] \in {"rmdir"} \union Recovering
      BY <1>1, <2>3 DEF CleanUp
  <2> QED
      BY <2>1, <2>2, <2>3 DEF Live, Cleaning
<1> QED
    BY <1>5, <1>6, <1>7

LEMMA CrashStep == ASSUME TypeOK, IInv, NEW r \in Runs, Crash(r) PROVE IInv'
<1>1. /\ pc[r] \in Live /\ pc'[r] = "crashed"
      /\ UNCHANGED <<art, permit, mode, held, denied, exc, notes, late>>
      /\ \A q \in Runs \ {r} : pc'[q] = pc[q]
    BY Labels DEF Crash, Goto, TypeOK, story, blame
<1>2. Inv(r) /\ Resolves(r)
    BY DEF IInv, Inv
<1>3. /\ AuditAgrees(r) /\ MemoryLast(r)
      /\ WorkflowStatus(r) \in Succeeded => "workflow" \in late[r]
    BY <1>1, <1>2, LiveIsHonest
<1>4. /\ OnDisk(r)' = OnDisk(r) /\ KnownMemory(r)' = KnownMemory(r)
      /\ FinalStatus(r)' = FinalStatus(r) /\ WorkflowStatus(r)' = WorkflowStatus(r)
    BY <1>1 DEF OnDisk, KnownMemory, FinalStatus, WorkflowStatus
<1>5. Ending(r)'
    BY <1>1, <1>3, <1>4 DEF Ending, AuditAgrees, MemoryLast, Whole, FailureTold
<1>6. Resolves(r)' /\ PermitShort(r)'
    BY <1>1, <1>2, <1>4 DEF Resolves, PermitShort
<1>7. /\ pc'[r] \notin Live /\ pc'[r] \notin Normal \union Cleaning \union Recovering
      /\ pc'[r] \notin {"discard", "unlink", "rmdir", "raised"}
    BY <1>1, Labels DEF Ended, Live
<1>8. Inv(r)'
    BY <1>5, <1>6, <1>7 DEF Inv, Path, Story, CleanUp, Recovery
<1>9. \A q \in Runs \ {r} : Same(q)
    BY <1>1 DEF Same
<1> QED
    BY <1>8, <1>9, OthersKept

LEMMA StepNext == ASSUME TypeOK, IInv, [Next]_vars PROVE IInv'
<1>1. ASSUME NEW r \in Runs, Step(r) PROVE IInv'
  <2>1. CASE \/ WriteStarted(r) \/ WriteContext(r) \/ WriteAcceptance(r) \/ WritePlanned(r)
      BY <2>1, OpeningSteps
  <2>2. CASE RunAgent(r) \/ Inspect(r) \/ Test(r)
      BY <2>2, ExecutionMoves
  <2>3. CASE FailStep(r) \/ MemoryDirGone(r) \/ MutateFails(r) \/ TestFails(r)
      BY <2>3, FailingSteps
  <2>4. CASE Mutate(r)
      BY <2>4, MutateStep
  <2>5. CASE WriteCompleted(r) \/ WriteAudit(r) \/ WriteFix(r) \/ WriteTrace(r)
      BY <2>5, FinalizingSteps
  <2>6. CASE IssuePermit(r) \/ MakeParentDir(r) \/ MakeMemoryDir(r) \/ UsePermit(r)
      BY <2>6, CommittingMoves
  <2>7. CASE WriteMemory(r)
      BY <2>7, MemoryStep
  <2>8. CASE WriteFinal(r)
      BY <2>8, FinalStep
  <2>9. CASE DiscardPermit(r) \/ UnlinkMemory(r) \/ RemoveMemoryDirs(r)
      BY <2>9, DiscardStep, UnlinkStep, RemoveDirsStep
  <2>10. CASE FailEvent(r) \/ FailAudit(r) \/ FailFix(r) \/ FailTrace(r) \/ FailWorkflow(r)
      BY <2>10, FailEventStep, FailAuditStep, FailFixStep, FailTraceStep, FailWorkflowStep
  <2> QED
      BY <1>1, <2>1, <2>2, <2>3, <2>4, <2>5, <2>6, <2>7, <2>8, <2>9, <2>10 DEF Step
<1>2. ASSUME NEW r \in Runs, Crash(r) PROVE IInv'
    BY <1>2, CrashStep
<1>3. ASSUME UNCHANGED vars PROVE IInv'
  <2>1. \A q \in Runs : Same(q)
      BY <1>3 DEF vars, story, blame, Same
  <2> QED
      BY <2>1, Bystander DEF IInv
<1> QED
    BY <1>1, <1>2, <1>3 DEF Next
-------------------------------------------------------------------------------
(* Types, and which runs may lose their memory directory.                      *)

Sweeping == \A r \in Runs : Swept(r)
Settled == PCs \ (Creating \union Cleaning)

\* Memory directories only appear, and the step does not take r to a label that
\* Swept is about - or only with a reason.
LEMMA SweptKept ==
    ASSUME Sweeping, NEW r \in Runs, swept' = swept, dirs \subseteq dirs',
           \A q \in Runs \ {r} : pc'[q] = pc[q] /\ faults'[q] = faults[q],
           pc'[r] \in Creating => Expects(r)' \in dirs',
           pc'[r] \in Cleaning /\ faults'[r] = 0 => swept[r]
    PROVE  Sweeping'
BY DEF Sweeping, Swept, Expects

LEMMA DocumentPut ==
    ASSUME TypeOK, NEW r \in Runs, NEW n \in Names, NEW d \in Documents
    PROVE  Put(r, n, d) \in [Runs -> [Names -> Documents \union {None}]]
BY DEF TypeOK, Put

LEMMA UnwindTypes ==
    ASSUME TypeOK, NEW r \in Runs, NEW c \in Classes, Unwind(r, c)
    PROVE  /\ pc' \in [Runs -> PCs] /\ held' \in [Runs -> SUBSET (Names \union {"output"})]
           /\ exc' \in [Runs -> Classes \union {None}]
           /\ \A q \in Runs \ {r} : pc'[q] = pc[q]
           /\ pc'[r] \notin Creating
           /\ pc'[r] \in Cleaning => pc[r] \in Committing
<1>1. {"discard", "fail event", "raised"} \subseteq PCs \ Creating
    BY DEF PCs, Cleaning, Recovering, Ended, Creating, Kinds
<1>2. exc' \in [Runs -> Classes \union {None}]
    BY DEF Unwind, TypeOK
<1>3. CASE pc[r] \in Committing
  <2>1. pc' = [pc EXCEPT ![r] = "discard"] /\ held' = held
      BY <1>3 DEF Unwind, Goto
  <2> QED
      BY <1>1, <1>2, <1>3, <2>1 DEF TypeOK
<1>4. CASE pc[r] \notin Committing
  <2>1. PICK label \in {"fail event", "raised"} : pc' = [pc EXCEPT ![r] = label]
      BY <1>4 DEF Unwind, Goto
  <2>2. held' = [held EXCEPT ![r] = @ \ FinalizerLocals]
      BY <1>4 DEF Unwind
  <2>3. pc' \in [Runs -> PCs] /\ pc'[r] = label /\ \A q \in Runs \ {r} : pc'[q] = pc[q]
      BY <1>1, <2>1 DEF TypeOK
  <2>4. held' \in [Runs -> SUBSET (Names \union {"output"})]
      BY <2>2 DEF TypeOK
  <2> QED
      BY <1>1, <1>2, <2>3, <2>4 DEF Cleaning
<1> QED
    BY <1>3, <1>4

LEMMA FaultyTypes ==
    ASSUME TypeOK, NEW r \in Runs, NEW n \in Names, NEW d \in Documents, Faulty(r, n, d)
    PROVE  /\ art' \in [Runs -> [Names -> Documents \union {None}]]
           /\ faults' \in [Runs -> 0..MaxFaults] /\ late' \in [Runs -> SUBSET Names]
           /\ faults'[r] # 0 /\ \A q \in Runs \ {r} : faults'[q] = faults[q]
<1>1. /\ faults[r] < MaxFaults /\ faults' = [faults EXCEPT ![r] = @ + 1]
      /\ faults[r] \in 0..MaxFaults /\ faults \in [Runs -> 0..MaxFaults]
    BY DEF Faulty, TypeOK
<1>2. faults[r] + 1 \in 0..MaxFaults /\ faults[r] + 1 # 0
    BY <1>1, FaultAssumption
<1>3. art' = art \/ art' = Put(r, n, d)
    BY DEF Faulty
<1>4. late' = late \/ late' = [late EXCEPT ![r] = @ \union {n}]
    BY DEF Faulty
<1>5. late' \in [Runs -> SUBSET Names]
  <2>1. late \in [Runs -> SUBSET Names] /\ late[r] \union {n} \in SUBSET Names
      BY DEF TypeOK
  <2> QED
      BY <1>4, <2>1
<1>6. art' \in [Runs -> [Names -> Documents \union {None}]]
    BY <1>3, DocumentPut DEF TypeOK
<1> QED
    BY <1>1, <1>2, <1>5, <1>6

LEMMA StoredTypes ==
    ASSUME TypeOK, NEW r \in Runs, NEW n \in Names, NEW d \in Documents,
           NEW next \in PCs, Stored(r, n, d, next)
    PROVE  /\ art' \in [Runs -> [Names -> Documents \union {None}]]
           /\ pc' \in [Runs -> PCs] /\ held' \in [Runs -> SUBSET (Names \union {"output"})]
           /\ late' \in [Runs -> SUBSET Names] /\ UNCHANGED <<exc, notes, faults>>
           /\ pc'[r] = next /\ \A q \in Runs \ {r} : pc'[q] = pc[q]
<1>1. art' \in [Runs -> [Names -> Documents \union {None}]]
    BY DocumentPut DEF Stored
<1>2. /\ pc' \in [Runs -> PCs] /\ pc'[r] = next
      /\ \A q \in Runs \ {r} : pc'[q] = pc[q]
    BY DEF Stored, Goto, TypeOK
<1>3. /\ held' \in [Runs -> SUBSET (Names \union {"output"})]
      /\ late' \in [Runs -> SUBSET Names] /\ UNCHANGED <<exc, notes, faults>>
    BY DEF Stored, TypeOK
<1> QED
    BY <1>1, <1>2, <1>3

LEMMA WriteTypes ==
    ASSUME TypeOK, Sweeping, NEW r \in Runs, NEW n \in Names, NEW d \in Documents,
           NEW next \in Settled, Write(r, n, d, next)
    PROVE  TypeOK' /\ Sweeping'
<1>1. UNCHANGED <<dirs, permit, mode, tests, applied, denied, changed, swept, notes>>
    BY DEF Write, Stored, story
<1>2. next \in PCs /\ next \notin Creating /\ next \notin Cleaning
    BY DEF Settled
<1>3. CASE Stored(r, n, d, next)
  <2>1. /\ art' \in [Runs -> [Names -> Documents \union {None}]]
        /\ pc' \in [Runs -> PCs] /\ held' \in [Runs -> SUBSET (Names \union {"output"})]
        /\ late' \in [Runs -> SUBSET Names] /\ UNCHANGED <<exc, notes, faults>>
        /\ pc'[r] = next /\ \A q \in Runs \ {r} : pc'[q] = pc[q]
      BY <1>2, <1>3, StoredTypes
  <2>2. TypeOK'
      BY <1>1, <2>1 DEF TypeOK
  <2>3. Sweeping'
      BY <1>1, <1>2, <2>1, SweptKept
  <2> QED
      BY <2>2, <2>3
<1>4. ASSUME Faulty(r, n, d), NEW c \in Classes, Unwind(r, c) PROVE TypeOK' /\ Sweeping'
  <2>1. /\ pc' \in [Runs -> PCs] /\ held' \in [Runs -> SUBSET (Names \union {"output"})]
        /\ exc' \in [Runs -> Classes \union {None}]
        /\ \A q \in Runs \ {r} : pc'[q] = pc[q]
        /\ pc'[r] \notin Creating
      BY <1>4, UnwindTypes
  <2>2. /\ art' \in [Runs -> [Names -> Documents \union {None}]]
        /\ faults' \in [Runs -> 0..MaxFaults] /\ late' \in [Runs -> SUBSET Names]
        /\ faults'[r] # 0 /\ \A q \in Runs \ {r} : faults'[q] = faults[q]
      BY <1>4, FaultyTypes
  <2>3. TypeOK'
      BY <1>1, <2>1, <2>2 DEF TypeOK
  <2>4. Sweeping'
      BY <1>1, <2>1, <2>2, SweptKept
  <2> QED
      BY <2>3, <2>4
<1> QED
    BY <1>3, <1>4 DEF Write

LEMMA AttemptTypes ==
    ASSUME TypeOK, Sweeping, NEW r \in Runs, NEW n \in Names, NEW d \in Documents,
           NEW next \in Settled, NEW otherwise \in Settled,
           Attempt(r, n, d, next, otherwise)
    PROVE  TypeOK' /\ Sweeping'
<1>1. UNCHANGED <<dirs, permit, mode, tests, applied, denied, changed, swept>>
    BY DEF Attempt, story
<1>2. /\ next \in PCs /\ next \notin Creating /\ next \notin Cleaning
      /\ otherwise \in PCs /\ otherwise \notin Creating /\ otherwise \notin Cleaning
    BY DEF Settled
<1>3. CASE Stored(r, n, d, next)
  <2>1. /\ art' \in [Runs -> [Names -> Documents \union {None}]]
        /\ pc' \in [Runs -> PCs] /\ held' \in [Runs -> SUBSET (Names \union {"output"})]
        /\ late' \in [Runs -> SUBSET Names] /\ UNCHANGED <<exc, notes, faults>>
        /\ pc'[r] = next /\ \A q \in Runs \ {r} : pc'[q] = pc[q]
      BY <1>2, <1>3, StoredTypes
  <2>2. TypeOK'
      BY <1>1, <2>1 DEF TypeOK
  <2>3. Sweeping'
      BY <1>1, <1>2, <2>1, SweptKept
  <2> QED
      BY <2>2, <2>3
<1>4. CASE /\ Faulty(r, n, d) /\ notes' = [notes EXCEPT ![r] = @ \union {n}]
           /\ Goto(r, otherwise) /\ UNCHANGED <<held, exc>>
  <2>1. /\ art' \in [Runs -> [Names -> Documents \union {None}]]
        /\ faults' \in [Runs -> 0..MaxFaults] /\ late' \in [Runs -> SUBSET Names]
        /\ faults'[r] # 0 /\ \A q \in Runs \ {r} : faults'[q] = faults[q]
      BY <1>4, FaultyTypes
  <2>2. /\ pc' \in [Runs -> PCs] /\ pc'[r] = otherwise
        /\ \A q \in Runs \ {r} : pc'[q] = pc[q]
      BY <1>2, <1>4 DEF Goto, TypeOK
  <2>3. notes' \in [Runs -> SUBSET Names] /\ UNCHANGED <<held, exc>>
      BY <1>4 DEF TypeOK
  <2>4. TypeOK'
      BY <1>1, <2>1, <2>2, <2>3 DEF TypeOK
  <2>5. Sweeping'
      BY <1>1, <1>2, <2>1, <2>2, SweptKept
  <2> QED
      BY <2>4, <2>5
<1> QED
    BY <1>3, <1>4 DEF Attempt

LEMMA RaiseTypes ==
    ASSUME TypeOK, Sweeping, NEW r \in Runs, NEW c \in Classes, Raise(r, c),
           pc[r] \in Committing => swept[r]
    PROVE  TypeOK' /\ Sweeping'
<1>1. UNCHANGED <<art, dirs, permit, mode, tests, applied, denied, changed, notes,
                  faults, late, swept>>
    BY DEF Raise, story, blame
<1>2. /\ pc' \in [Runs -> PCs] /\ held' \in [Runs -> SUBSET (Names \union {"output"})]
      /\ exc' \in [Runs -> Classes \union {None}]
      /\ \A q \in Runs \ {r} : pc'[q] = pc[q]
      /\ pc'[r] \notin Creating
      /\ pc'[r] \in Cleaning => pc[r] \in Committing
    BY UnwindTypes DEF Raise
<1>3. TypeOK'
    BY <1>1, <1>2 DEF TypeOK
<1>4. Sweeping'
    BY <1>1, <1>2, SweptKept
<1> QED
    BY <1>3, <1>4

\* Steps that only take r to another label, and change what is its own.
LEMMA GotoTypes ==
    ASSUME TypeOK, NEW r \in Runs, NEW next \in PCs, Goto(r, next)
    PROVE  /\ pc' \in [Runs -> PCs] /\ pc'[r] = next
           /\ \A q \in Runs \ {r} : pc'[q] = pc[q]
BY DEF Goto, TypeOK

LEMMA WritingTypes ==
    ASSUME TypeOK, Sweeping, NEW r \in Runs,
           \/ WriteStarted(r) \/ WriteContext(r) \/ WriteAcceptance(r) \/ WritePlanned(r)
           \/ WriteCompleted(r) \/ WriteAudit(r) \/ WriteFix(r) \/ WriteTrace(r)
           \/ WriteMemory(r) \/ WriteFinal(r)
    PROVE  TypeOK' /\ Sweeping'
<1>1. {"context", "agent", "plan", "inspect", "audit", "fix", "trace", "permit",
       "working dir", "final", "returned"} \subseteq Settled
    BY DEF Settled, PCs, Finalizing, Committing, Ended, Creating, Kinds, Cleaning
<1>2. /\ {"started", "context", "acceptance", "workflow", "completed", "audit", "fix",
          "trace", "session", "working"} \subseteq Names
      /\ Approvals \union {"audit", "fix"} \subseteq Names
      /\ Events \union Approvals \union {"context", "audit", "fix"} \subseteq Names
    BY DEF Names, Events, Approvals, Kinds
<1>3. {"recorded", "planned"} \subseteq Statuses /\ FinalStatus(r) \in Statuses
    BY StatusType DEF Statuses
<1>4. held[r] \ {"output"} \subseteq Names /\ held[r] \ {"output", "workflow"} \subseteq Names
    BY DEF TypeOK
<1>5. PICK n \in Names, s \in Statuses, c \in SUBSET Names, next \in Settled :
        Write(r, n, Document(s, c), next)
  <2>1. CASE WriteStarted(r)
      BY <1>1, <1>2, <1>3, <2>1 DEF WriteStarted, Event
  <2>2. CASE WriteContext(r)
      BY <1>1, <1>2, <1>3, <2>2 DEF WriteContext
  <2>3. CASE WriteAcceptance(r)
      BY <1>1, <1>2, <1>3, <2>3 DEF WriteAcceptance
  <2>4. CASE WritePlanned(r)
      BY <1>1, <1>2, <1>3, <2>4 DEF WritePlanned
  <2>5. CASE WriteCompleted(r)
      BY <1>1, <1>2, <1>3, <2>5 DEF WriteCompleted
  <2>6. CASE WriteAudit(r)
      BY <1>1, <1>2, <1>3, <1>4, <2>6 DEF WriteAudit
  <2>7. CASE WriteFix(r)
      BY <1>1, <1>2, <1>3, <2>7 DEF WriteFix
  <2>8. CASE WriteTrace(r)
    <3>1. Evidence(r) \in SUBSET Names
        BY <1>2 DEF Evidence
    <3> QED
        BY <1>1, <1>2, <1>3, <2>8, <3>1 DEF WriteTrace
  <2>9. CASE WriteMemory(r)
    <3>1. PICK k \in Kinds : Write(r, k, MemoryDocument(r, k),
                                   IF k = "session" THEN "working dir" ELSE "final")
        BY <2>9 DEF WriteMemory
    <3> DEFINE c == IF k = "session" THEN {} ELSE
                      {"workflow"} \union (held[r] \intersect (Approvals \union {"audit", "fix"}))
               next == IF k = "session" THEN "working dir" ELSE "final"
    <3>2. MemoryDocument(r, k) = Document("recorded", c)
        BY DEF MemoryDocument
    <3>3. c \in SUBSET Names /\ next \in Settled /\ k \in Names
        BY <1>1, <1>2 DEF Kinds
    <3>4. Write(r, k, Document("recorded", c), next)
        BY <3>1, <3>2
    <3> HIDE DEF c, next
    <3> QED
        BY <1>3, <3>3, <3>4
  <2>10. CASE WriteFinal(r)
    <3>1. Cited(r) \in SUBSET Names
        BY <1>4 DEF Cited
    <3> QED
        BY <1>1, <1>2, <1>3, <2>10, <3>1 DEF WriteFinal
  <2> QED
      BY <2>1, <2>2, <2>3, <2>4, <2>5, <2>6, <2>7, <2>8, <2>9, <2>10
<1>6. Document(s, c) \in Documents
    BY DocumentType
<1> QED
    BY <1>5, <1>6, WriteTypes

LEMMA RecoveringTypes ==
    ASSUME TypeOK, Sweeping, NEW r \in Runs,
           FailEvent(r) \/ FailAudit(r) \/ FailFix(r) \/ FailTrace(r) \/ FailWorkflow(r)
    PROVE  TypeOK' /\ Sweeping'
<1>1. {"fail audit", "fail fix", "fail trace", "fail workflow", "raised"} \subseteq Settled
    BY DEF Settled, PCs, Recovering, Ended, Creating, Kinds, Cleaning
<1>2. /\ {"failed", "audit", "fix", "trace", "workflow"} \subseteq Names
      /\ {"recorded", "failed"} \subseteq Statuses
    BY DEF Names, Events, Statuses
<1>3. Evidence(r) \in SUBSET Names /\ Cited(r) \in SUBSET Names
    BY DEF Evidence, Cited, TypeOK, Names
<1>4. PICK n \in Names, s \in Statuses, c \in SUBSET Names,
           next \in Settled, otherwise \in Settled :
        Attempt(r, n, Document(s, c), next, otherwise)
  <2>1. CASE FailEvent(r)
      BY <1>1, <1>2, <2>1 DEF FailEvent, Event
  <2>2. CASE FailAudit(r)
      BY <1>1, <1>2, <1>3, <2>2 DEF FailAudit
  <2>3. CASE FailFix(r)
      BY <1>1, <1>2, <2>3 DEF FailFix
  <2>4. CASE FailTrace(r)
      BY <1>1, <1>2, <1>3, <2>4 DEF FailTrace
  <2>5. CASE FailWorkflow(r)
      BY <1>1, <1>2, <1>3, <2>5 DEF FailWorkflow
  <2> QED
      BY <2>1, <2>2, <2>3, <2>4, <2>5
<1>5. Document(s, c) \in Documents
    BY DocumentType
<1> QED
    BY <1>4, <1>5, AttemptTypes

LEMMA RaisingTypes ==
    ASSUME TypeOK, Sweeping, NEW r \in Runs, FailStep(r) \/ MemoryDirGone(r)
    PROVE  TypeOK' /\ Sweeping'
<1>1. PICK c \in Classes : Raise(r, c)
    BY DEF FailStep, MemoryDirGone, Classes
<1>2. pc[r] \in Committing => swept[r]
    BY DEF FailStep, MemoryDirGone, Committing, Sweeping, Swept
<1> QED
    BY <1>1, <1>2, RaiseTypes

LEMMA ExecutingTypes ==
    ASSUME TypeOK, Sweeping, NEW r \in Runs,
           \/ RunAgent(r) \/ Inspect(r) \/ Mutate(r) \/ MutateFails(r) \/ Test(r) \/ TestFails(r)
    PROVE  TypeOK' /\ Sweeping'
<1>1. {"acceptance", "mutate", "test", "completed"} \subseteq PCs \ (Creating \union Cleaning)
    BY DEF PCs, Creating, Kinds, Cleaning, Finalizing
<1>2. UNCHANGED <<dirs, permit, mode, notes, faults, late, swept>>
    BY DEF RunAgent, Inspect, Mutate, MutateFails, Test, TestFails, blame
<1>3. /\ pc' \in [Runs -> PCs] /\ \A q \in Runs \ {r} : pc'[q] = pc[q]
      /\ pc'[r] \notin Creating /\ pc'[r] \notin Cleaning
      /\ exc' \in [Runs -> Classes \union {None}]
  <2>1. CASE RunAgent(r) \/ Inspect(r) \/ Mutate(r) \/ Test(r)
    <3>1. PICK next \in {"acceptance", "mutate", "test", "completed"} : Goto(r, next)
        BY <2>1 DEF RunAgent, Inspect, Mutate, Test, AfterMutate, AfterTest
    <3>2. exc' = exc
        BY <2>1 DEF RunAgent, Inspect, Mutate, Test
    <3> QED
        BY <1>1, <3>1, <3>2, GotoTypes DEF TypeOK
  <2>2. CASE MutateFails(r) \/ TestFails(r)
    <3>1. PICK c \in Classes : Unwind(r, c)
        BY <2>2 DEF MutateFails, TestFails, Classes
    <3>2. pc[r] \notin Committing
        BY <2>2 DEF MutateFails, TestFails, Committing
    <3> QED
        BY <3>1, <3>2, UnwindTypes
  <2> QED
      BY <2>1, <2>2
<1>4. held' \in [Runs -> SUBSET (Names \union {"output"})]
  <2>1. CASE RunAgent(r)
      BY <2>1 DEF RunAgent, TypeOK
  <2>2. CASE Inspect(r) \/ Test(r)
      BY <2>2 DEF Inspect, Test, TypeOK
  <2>3. CASE Mutate(r)
    <3>1. "mutation" \in Names
        BY DEF Names, Approvals
    <3>2. held' = held \/ held' = [held EXCEPT ![r] = @ \union {"mutation"}]
        BY <2>3 DEF Mutate
    <3>3. /\ held \in [Runs -> SUBSET (Names \union {"output"})]
          /\ held[r] \union {"mutation"} \in SUBSET (Names \union {"output"})
        BY <3>1 DEF TypeOK
    <3> QED
        BY <3>2, <3>3
  <2>4. CASE MutateFails(r) \/ TestFails(r)
      BY <2>4, UnwindTypes DEF MutateFails, TestFails, Classes
  <2> QED
      BY <2>1, <2>2, <2>3, <2>4
<1>5. art' \in [Runs -> [Names -> Documents \union {None}]]
  <2> DEFINE d == Document("recorded", {"acceptance"})
  <2>1. "mutation" \in Names /\ d \in Documents
      BY DocumentType DEF Names, Approvals, Statuses
  <2>2. art' = art \/ art' = Put(r, "mutation", d)
      BY DEF RunAgent, Inspect, Mutate, MutateFails, Test, TestFails
  <2> HIDE DEF d
  <2> QED
      BY <2>1, <2>2, DocumentPut DEF TypeOK
<1>6. /\ tests' \in [Runs -> {"none", "passed", "failed"}]
      /\ applied' \in [Runs -> BOOLEAN] /\ denied' \in [Runs -> BOOLEAN]
      /\ changed' \in [Runs -> BOOLEAN]
  <2>1. CASE RunAgent(r) \/ Inspect(r)
      BY <2>1 DEF RunAgent, Inspect, story, TypeOK
  <2>2. CASE Mutate(r)
      BY <2>2 DEF Mutate, TypeOK
  <2>3. CASE MutateFails(r)
    <3>1. /\ tests' = tests /\ applied' = applied /\ denied' = denied
          /\ \/ changed' = changed
             \/ \E wrote \in BOOLEAN : changed' = [changed EXCEPT ![r] = wrote]
        BY <2>3 DEF MutateFails
    <3> QED
        BY <3>1 DEF TypeOK
  <2>4. CASE Test(r)
      BY <2>4 DEF Test, TypeOK
  <2>5. CASE TestFails(r)
    <3>1. /\ tests' = tests \/ tests' = [tests EXCEPT ![r] = "failed"]
          /\ applied' = applied /\ denied' = denied /\ changed' = changed
        BY <2>5 DEF TestFails
    <3> QED
        BY <3>1 DEF TypeOK
  <2> QED
      BY <2>1, <2>2, <2>3, <2>4, <2>5
<1>7. TypeOK'
    BY <1>2, <1>3, <1>4, <1>5, <1>6 DEF TypeOK
<1>8. Sweeping'
    BY <1>2, <1>3, SweptKept
<1> QED
    BY <1>7, <1>8

LEMMA CommittingTypes ==
    ASSUME TypeOK, Sweeping, NEW r \in Runs,
           \/ IssuePermit(r) \/ MakeParentDir(r) \/ MakeMemoryDir(r) \/ UsePermit(r)
           \/ DiscardPermit(r) \/ Crash(r)
    PROVE  TypeOK' /\ Sweeping'
<1>1. /\ {"session dir", "final write", "unlink", "crashed"} \subseteq PCs \ Creating
      /\ Creating \subseteq PCs
    BY DEF PCs, Creating, Kinds, Cleaning, Committing, Ended
<1>2. /\ UNCHANGED <<art, mode, held, tests, applied, denied, changed, exc, notes,
                     faults, late, swept>>
      /\ dirs \subseteq dirs' /\ dirs' \subseteq Kinds \union {"workspace"}
    BY DEF IssuePermit, MakeParentDir, MakeMemoryDir, UsePermit, DiscardPermit, Crash, story,
           blame, TypeOK
<1>3. permit' \in [Runs -> BOOLEAN]
  <2>1. \/ permit' = permit \/ permit' = [permit EXCEPT ![r] = TRUE]
        \/ permit' = [permit EXCEPT ![r] = FALSE]
      BY DEF IssuePermit, MakeParentDir, MakeMemoryDir, UsePermit, DiscardPermit, Crash
  <2> QED
      BY <2>1 DEF TypeOK
<1>4. \E next \in PCs :
        /\ Goto(r, next)
        /\ next \in Creating =>
             (IF next = "session subdir" THEN "workspace" ELSE next) \in dirs'
        /\ next \in Cleaning => pc[r] \in Cleaning
  <2>1. CASE IssuePermit(r) \/ UsePermit(r) \/ Crash(r)
    <3>1. PICK next \in {"session dir", "final write", "crashed"} : Goto(r, next)
        BY <2>1 DEF IssuePermit, UsePermit, Crash
    <3> QED
        BY <1>1, <3>1 DEF Cleaning
  <2>2. CASE DiscardPermit(r)
      BY <1>1, <2>2 DEF DiscardPermit, Cleaning
  <2>3. CASE MakeMemoryDir(r)
    <3>1. PICK k \in Kinds : Goto(r, k) /\ k \in dirs'
        BY <2>3 DEF MakeMemoryDir
    <3> QED
        BY <1>1, <3>1 DEF Cleaning, Creating, Kinds
  <2>4. CASE MakeParentDir(r)
      BY <1>1, <2>4 DEF MakeParentDir, Cleaning, Creating
  <2> QED
      BY <2>1, <2>2, <2>3, <2>4
<1>5. /\ pc' \in [Runs -> PCs] /\ \A q \in Runs \ {r} : pc'[q] = pc[q]
      /\ pc'[r] \in Creating => Expects(r)' \in dirs'
      /\ pc'[r] \in Cleaning => pc[r] \in Cleaning
    BY <1>4, GotoTypes DEF Expects
<1>6. TypeOK'
    BY <1>2, <1>3, <1>5 DEF TypeOK
<1>7. Sweeping'
  <2>1. pc'[r] \in Cleaning /\ faults'[r] = 0 => swept[r]
      BY <1>2, <1>5 DEF Sweeping, Swept
  <2> QED
      BY <1>2, <1>5, <2>1, SweptKept
<1> QED
    BY <1>6, <1>7

LEMMA UnlinkTypes ==
    ASSUME TypeOK, Sweeping, NEW r \in Runs, UnlinkMemory(r)
    PROVE  TypeOK' /\ Sweeping'
<1>1. PICK stuck \in SUBSET (held[r] \intersect Kinds) :
        /\ stuck # {} => faults[r] < MaxFaults
        /\ faults' = [faults EXCEPT ![r] = @ + (IF stuck = {} THEN 0 ELSE 1)]
        /\ notes' = [notes EXCEPT ![r] = @ \union stuck]
        /\ art' = [art EXCEPT ![r] = [n \in Names |->
                     IF n \in (held[r] \intersect Kinds) \ stuck THEN None ELSE @[n]]]
    BY DEF UnlinkMemory
<1>2. /\ UNCHANGED <<dirs, permit, mode, held, tests, applied, denied, changed, exc,
                     late, swept>>
      /\ pc[r] = "unlink" /\ Goto(r, "rmdir")
    BY DEF UnlinkMemory, story
<1>3. /\ pc' \in [Runs -> PCs] /\ pc'[r] = "rmdir" /\ \A q \in Runs \ {r} : pc'[q] = pc[q]
    BY <1>2, GotoTypes DEF PCs, Cleaning
<1>4. /\ faults' \in [Runs -> 0..MaxFaults] /\ \A q \in Runs \ {r} : faults'[q] = faults[q]
      /\ faults'[r] = 0 => faults[r] = 0
  <2>1. faults \in [Runs -> 0..MaxFaults] /\ faults[r] \in 0..MaxFaults
      BY DEF TypeOK
  <2>2. CASE stuck = {}
      BY <1>1, <2>1, <2>2
  <2>3. CASE stuck # {}
    <3>1. faults[r] + 1 \in 0..MaxFaults /\ faults[r] + 1 # 0
        BY <1>1, <2>1, <2>3, FaultAssumption
    <3>2. faults' = [faults EXCEPT ![r] = faults[r] + 1]
        BY <1>1, <2>3
    <3> QED
        BY <2>1, <3>1, <3>2
  <2> QED
      BY <2>2, <2>3
<1>5. notes' \in [Runs -> SUBSET Names]
  <2>1. stuck \subseteq Names
      BY DEF Names
  <2> QED
      BY <1>1, <2>1 DEF TypeOK
<1>6. art' \in [Runs -> [Names -> Documents \union {None}]]
  <2> DEFINE row == [n \in Names |->
                       IF n \in (held[r] \intersect Kinds) \ stuck THEN None ELSE art[r][n]]
  <2>1. row \in [Names -> Documents \union {None}]
      BY DEF TypeOK
  <2>2. art' = [art EXCEPT ![r] = row]
      BY <1>1
  <2> HIDE DEF row
  <2> QED
      BY <2>1, <2>2 DEF TypeOK
<1>7. TypeOK'
    BY <1>2, <1>3, <1>4, <1>5, <1>6 DEF TypeOK
<1>8. Sweeping'
  <2>1. pc[r] \in Cleaning /\ pc'[r] \notin Creating
      BY <1>2, <1>3 DEF Cleaning, Creating, Kinds
  <2>2. faults'[r] = 0 => swept[r]
      BY <1>4, <2>1 DEF Sweeping, Swept
  <2> QED
      BY <1>2, <1>3, <1>4, <2>1, <2>2, SweptKept
<1> QED
    BY <1>7, <1>8

\* A run whose directory goes while it is about to write there is marked.
LEMMA RemoveDirsTypes ==
    ASSUME TypeOK, IInv, Sweeping, NEW r \in Runs, RemoveMemoryDirs(r)
    PROVE  TypeOK' /\ Sweeping'
<1>1. /\ UNCHANGED <<art, permit, mode, tests, applied, denied, changed, notes,
                     faults, late>>
      /\ pc[r] = "rmdir" /\ Unwind(r, exc[r]) /\ dirs' = dirs \ Removable(r)
      /\ swept' = [q \in Runs |-> swept[q] \/ Expects(q) \in Removable(r)]
    BY DEF RemoveMemoryDirs, story, blame
<1>2. exc[r] \in Classes
    BY <1>1 DEF IInv, Inv, CleanUp, Cleaning
<1>3. /\ pc' \in [Runs -> PCs] /\ held' \in [Runs -> SUBSET (Names \union {"output"})]
      /\ exc' \in [Runs -> Classes \union {None}]
      /\ \A q \in Runs \ {r} : pc'[q] = pc[q]
      /\ pc'[r] \notin Creating
      /\ pc'[r] \in Cleaning => pc[r] \in Committing
    BY <1>1, <1>2, UnwindTypes
<1>4. TypeOK'
  <2>1. swept' \in [Runs -> BOOLEAN] /\ dirs' \subseteq Kinds \union {"workspace"}
      BY <1>1 DEF TypeOK
  <2> QED
      BY <1>1, <1>3, <2>1 DEF TypeOK
<1>5. ASSUME NEW q \in Runs PROVE Swept(q)'
  <2>1. Swept(q) /\ (swept'[q] <=> swept[q] \/ Expects(q) \in Removable(r))
      BY <1>1 DEF Sweeping
  <2>2. CASE q = r
      BY <1>1, <1>3, <2>2 DEF Swept, Committing
  <2>3. CASE q # r
      BY <1>1, <1>3, <2>1, <2>3 DEF Swept, Expects
  <2> QED
      BY <2>2, <2>3
<1> QED
    BY <1>4, <1>5 DEF Sweeping

LEMMA TypesNext ==
    ASSUME TypeOK, IInv, Sweeping, [Next]_vars
    PROVE  TypeOK' /\ Sweeping'
<1>1. ASSUME NEW r \in Runs, Step(r) \/ Crash(r) PROVE TypeOK' /\ Sweeping'
    BY <1>1, WritingTypes, RecoveringTypes, RaisingTypes, ExecutingTypes, CommittingTypes,
       UnlinkTypes, RemoveDirsTypes DEF Step
<1>2. CASE UNCHANGED vars
    BY <1>2 DEF vars, story, blame, TypeOK, Sweeping, Swept, Expects
<1> QED
    BY <1>1, <1>2 DEF Next
-------------------------------------------------------------------------------
LEMMA Invariance == Spec => [](TypeOK /\ IInv /\ Sweeping)
<1>1. Init => TypeOK /\ IInv /\ Sweeping
    BY InitHolds DEF Sweeping
<1>2. TypeOK /\ IInv /\ Sweeping /\ [Next]_vars => (TypeOK /\ IInv /\ Sweeping)'
    BY StepNext, TypesNext
<1> QED
    BY <1>1, <1>2, PTL DEF Spec

\* The variables of any number of concurrent runs hold values of their types.
THEOREM Typing == Spec => []TypeOK
BY Invariance, PTL

\* No artifact that finalize_success, the recovery of Harness.run or the stores
\* leave on disk cites a path that is not there, at any moment and after any kill,
\* and the audit a workflow cites judges the run as the workflow does.
THEOREM ResolvedCitations == Spec => []CitationsHold
<1>1. ASSUME TypeOK, IInv PROVE CitationsHold
  <2>1. ASSUME NEW r \in Runs PROVE Resolves(r) /\ AuditAgrees(r)
    <3>1. Inv(r) /\ (pc[r] \in Live \/ pc[r] \in Ended)
        BY <1>1, Labels DEF IInv, TypeOK
    <3> QED
        BY <1>1, <3>1, LiveIsHonest DEF Inv, Ending
  <2>2. CitationsResolve
      BY <2>1 DEF CitationsResolve, Resolves
  <2>3. CitedAuditAgrees
      BY <2>1 DEF CitedAuditAgrees, AuditAgrees
  <2> QED
      BY <2>2, <2>3 DEF CitationsHold
<1> QED
    BY <1>1, Invariance, PTL

\* finalize_success writes memory late and the successful workflow last: memory on
\* disk rests on the completed event, the audit and the trace, and a workflow that
\* says a run succeeded has all its memory and is of a run that returns.
THEOREM TrueSuccess == Spec => []SuccessIsTrue
<1>1. ASSUME TypeOK, IInv PROVE SuccessIsTrue
  <2>1. ASSUME NEW r \in Runs PROVE MemoryLast(r) /\ Whole(r)
    <3>1. Inv(r) /\ (pc[r] \in Live \/ pc[r] \in Ended)
        BY <1>1, Labels DEF IInv, TypeOK
    <3>2. CASE pc[r] \in Live
      <4>1. pc[r] # "returned"
          BY <3>2, Labels DEF Ended, Live
      <4> QED
          BY <1>1, <3>1, <3>2, <4>1, LiveIsHonest DEF Whole
    <3> QED
        BY <3>1, <3>2 DEF Inv, Ending
  <2>2. MemoryIsLast
      BY <2>1 DEF MemoryIsLast, MemoryLast
  <2>3. SuccessIsWhole
      BY <2>1 DEF SuccessIsWhole, Whole
  <2> QED
      BY <2>2, <2>3 DEF SuccessIsTrue
<1> QED
    BY <1>1, Invariance, PTL

\* The except clause of finalize_success: a run that raises leaves no permit to
\* write a workflow, and no memory but what it noted or never had the path of.
THEOREM UndoneFailure == Spec => []FailureIsUndone
<1>1. ASSUME TypeOK, IInv PROVE FailureIsUndone
  <2>1. ASSUME NEW r \in Runs
        PROVE  /\ pc[r] = "raised" => ~permit[r] /\ KnownMemory(r) = {}
               /\ permit[r] =>
                    pc[r] \in (Committing \ {"final write"}) \union {"discard", "crashed"}
    <3>1. PermitShort(r) /\ CleanUp(r)
        BY <1>1 DEF IInv, Inv
    <3> QED
        BY <3>1 DEF PermitShort, CleanUp, Committing
  <2> QED
      BY <2>1 DEF FailureIsUndone, FailureIsCleanedUp, PermitIsShortLived
<1> QED
    BY <1>1, Invariance, PTL

\* The recovery of Harness.run: a run that an expected failure ends has its failed
\* event and, once its output was accepted, its failed workflow, audit and trace -
\* or a note of each that could not be written.
THEOREM ToldFailure == Spec => []FailureIsTold
<1>1. ASSUME TypeOK, IInv PROVE FailureIsTold
  <2> DEFINE told(r) == {"failed"} \union
                          (IF ~CanTellStory(r) THEN {}
                           ELSE IF mode[r] = "dev" THEN {"workflow", "audit", "trace"}
                           ELSE {"workflow"})
  <2>1. ASSUME NEW r \in Runs, pc[r] = "raised", exc[r] = "expected",
               NEW n \in told(r) \ notes[r]
        PROVE  n \in OnDisk(r) /\ (n # "failed" => art[r][n].status = "failed")
    <3>1. FailureTold(r)
        BY <1>1, <2>1 DEF IInv, Inv, Ending, Ended
    <3>2. Told(r, n)
        BY <2>1, <3>1 DEF FailureTold
    <3> QED
        BY <2>1, <3>2 DEF Told
  <2> QED
      BY <2>1 DEF FailureIsTold
<1> QED
    BY <1>1, Invariance, PTL

\* finalize_success undoes a run none of whose own writes raised only when the
\* clean-up of another run took away the memory directory it had just made.
THEOREM SweptFailure == Spec => []OnlySweptRunsFailLate
<1>1. Sweeping => OnlySweptRunsFailLate
    BY DEF Sweeping, Swept, OnlySweptRunsFailLate
<1> QED
    BY <1>1, Invariance, PTL
===============================================================================
