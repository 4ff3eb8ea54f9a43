---------------------------- MODULE MutationProofs ----------------------------
(* What holds of Mutation for any number of runs, files and proposals, with   *)
(* or without flock, failing calls, crashes and foreign writers.              *)
EXTENDS Mutation, TLAPS

\* A run between the gate and the end of its guard works on a proposed change.
Working(r) == pc[r] \in InGuard \union {"lock"}

\* The change at a run's index is a proposal: its target, operation and content
\* are what execute_approved_mutations may read from it.
LEMMA ChangeType ==
    ASSUME TypeOK, NEW r \in Runs, index[r] \in 1..Len(request[r].changes)
    PROVE  /\ change(r) \in Changes
           /\ target(r) \in Targets
           /\ change(r).operation \in Operations
           /\ change(r).content \in Contents
<1>1. request[r] \in Requests
  BY DEF TypeOK
<1>2. request[r].changes \in Seq(Changes)
  BY <1>1, RequestAssumption
<1>3. change(r) \in Changes
  BY <1>2 DEF change
<1> QED
  BY <1>3 DEF Changes, target

\* A run that waits for the guard or is in it has such a change at hand.
LEMMA WorkingType ==
    ASSUME TypeOK, NEW r \in Runs, Working(r)
    PROVE  /\ index[r] \in 1..Len(request[r].changes)
           /\ target(r) \in Targets
           /\ change(r).operation \in Operations
           /\ change(r).content \in Contents
<1>1. index[r] \in 1..Len(request[r].changes)
  <2>1. request[r] \in Requests /\ index[r] \in Nat \ {0}
    BY DEF TypeOK
  <2>2. Len(request[r].changes) \in Nat
    BY <2>1, RequestAssumption
  <2>3. index[r] <= Len(request[r].changes)
    BY DEF TypeOK, Working
  <2> QED
    BY <2>1, <2>2, <2>3
<1> QED
  BY <1>1, ChangeType

\* The initial states are well typed.
LEMMA TypeInit == Init => TypeOK
<1> SUFFICES ASSUME Init PROVE TypeOK
  OBVIOUS
<1>1. \A r \in Runs : index[r] <= Len(request[r].changes) + 1
  <2> SUFFICES ASSUME NEW r \in Runs PROVE 1 <= Len(request[r].changes) + 1
    BY DEF Init
  <2>1. Len(request[r].changes) \in Nat
    BY RequestAssumption DEF Init
  <2> QED
    BY <2>1
<1> QED
  BY <1>1 DEF Init, TypeOK, PCs, InGuard, Nothing, States, Finished

\* Every step of a run, a crash, a lock resolved by hand and a foreign write
\* keep the types; in particular the index stays within the proposals.
LEMMA TypeNext == TypeOK /\ [Next]_vars => TypeOK'
<1> SUFFICES ASSUME TypeOK, [Next]_vars PROVE TypeOK'
  OBVIOUS
<1> USE DEF vars, store
<1>1. ASSUME NEW r \in Runs, Return(r) PROVE TypeOK'
  BY <1>1 DEF Return, TypeOK, Goto, PCs, InGuard, Finished
<1>2. ASSUME NEW r \in Runs, Deny(r) PROVE TypeOK'
  <2>1. local' \in [Runs -> [Lists -> SUBSET Nat]]
    BY <1>2 DEF Deny, TypeOK, Record, Lists
  <2>2. /\ index' \in [Runs -> Nat \ {0}]
        /\ \A q \in Runs : index'[q] <= Len(request[q].changes) + 1
        /\ \A q \in Runs : pc[q] \in InGuard \union {"lock"}
                              => index'[q] <= Len(request[q].changes)
    BY <1>2, RequestAssumption DEF Deny, TypeOK, InGuard
  <2> QED
    BY <1>2, <2>1, <2>2 DEF Deny, TypeOK
<1>3. ASSUME NEW r \in Runs, Refuse(r) PROVE TypeOK'
  BY <1>3 DEF Refuse, TypeOK, Raise, Goto, PCs, InGuard, Finished
<1>4. ASSUME NEW r \in Runs, Accept(r) PROVE TypeOK'
  BY <1>4 DEF Accept, TypeOK, Goto, PCs, InGuard
<1>5. ASSUME NEW r \in Runs, Acquire(r) PROVE TypeOK'
  BY <1>5 DEF Acquire, TypeOK, Goto, PCs, InGuard
<1>6. ASSUME NEW r \in Runs, LockBusy(r) PROVE TypeOK'
  BY <1>6 DEF LockBusy, TypeOK, Raise, Goto, PCs, InGuard, Finished
<1>7. ASSUME NEW r \in Runs, ReadPreimage(r) PROVE TypeOK'
  <2>1. target(r) \in Targets
    BY <1>7, WorkingType DEF Working, ReadPreimage, InGuard
  <2> QED
    BY <1>7, <2>1 DEF ReadPreimage, TypeOK, Goto, PCs, InGuard
<1>8. ASSUME NEW r \in Runs, RejectPreimage(r) PROVE TypeOK'
  BY <1>8 DEF RejectPreimage, TypeOK, Raise, Goto, PCs, InGuard
<1>9. ASSUME NEW r \in Runs, WriteApproval(r) \/ ApprovalFails(r) PROVE TypeOK'
  <2>1. Approval(r) \in Artifacts
    <3>1. Working(r)
      BY <1>9 DEF Working, WriteApproval, ApprovalFails, InGuard
    <3> QED
      BY <3>1, WorkingType DEF TypeOK, Approval, Artifacts
  <2>2. CASE WriteApproval(r)
    BY <2>1, <2>2 DEF WriteApproval, TypeOK, Record, Lists, Goto, PCs, InGuard
  <2>3. CASE ApprovalFails(r)
    BY <2>1, <2>3 DEF ApprovalFails, TypeOK, Raise, Goto, PCs, InGuard
  <2> QED
    BY <1>9, <2>2, <2>3
<1>10. ASSUME NEW r \in Runs, WriteTemp(r) \/ TempFails(r) PROVE TypeOK'
  BY <1>10 DEF WriteTemp, TempFails, TypeOK, Raise, Goto, PCs, InGuard
<1>11. ASSUME NEW r \in Runs, Recheck(r) \/ RecheckFails(r) PROVE TypeOK'
  BY <1>11 DEF Recheck, RecheckFails, TypeOK, Raise, Goto, PCs, InGuard
<1>12. ASSUME NEW r \in Runs, Link(r) \/ Replace(r) PROVE TypeOK'
  <2>1. Working(r) /\ pc[r] = "commit" /\ Install(r) /\ temp' \in [Runs -> BOOLEAN]
    BY <1>12 DEF Working, Link, Replace, InGuard, TypeOK
  <2>2. /\ target(r) \in Targets /\ change(r).content \in Contents
        /\ change(r).operation \in Operations
    BY <2>1, WorkingType
  <2>3. Write(r) \in [run : Runs, index : Nat, target : Targets,
                      operation : Operations, before : States,
                      after : Contents, raced : BOOLEAN]
    BY <2>2 DEF Write, TypeOK
  <2> QED
    BY <2>1, <2>2, <2>3 DEF Install, TypeOK, Goto, PCs, InGuard, States
<1>13. ASSUME NEW r \in Runs, CommitFails(r) PROVE TypeOK'
  BY <1>13 DEF CommitFails, TypeOK, Raise, Goto, PCs, InGuard
<1>14. ASSUME NEW r \in Runs, Sync(r) \/ SyncFails(r) PROVE TypeOK'
  BY <1>14 DEF Sync, SyncFails, TypeOK, Raise, Goto, PCs, InGuard
<1>15. ASSUME NEW r \in Runs, Unlink(r) PROVE TypeOK'
  BY <1>15 DEF Unlink, TypeOK, Goto, PCs, InGuard
<1>16. ASSUME NEW r \in Runs, Release(r) PROVE TypeOK'
  <2>1. index[r] \in 1..Len(request[r].changes)
    BY <1>16, WorkingType DEF Working, Release, InGuard
  <2>2. index' \in [Runs -> Nat \ {0}]
    BY <1>16 DEF Release, TypeOK
  <2>3. local' \in [Runs -> [Lists -> SUBSET Nat]]
    BY <1>16 DEF Release, TypeOK, Record, Lists
  <2>4. \A q \in Runs : index'[q] <= Len(request'[q].changes) + 1
    BY <1>16, <2>1 DEF Release, TypeOK
  <2>5. \A q \in Runs : pc'[q] \in InGuard \union {"lock"}
                           => index'[q] <= Len(request'[q].changes)
    BY <1>16 DEF Release, TypeOK, Goto, InGuard
  <2> QED
    BY <1>16, <2>2, <2>3, <2>4, <2>5 DEF Release, TypeOK, Unlock, Goto, PCs
<1>17. ASSUME NEW r \in Runs, ReleaseRaising(r) \/ ReleaseFails(r) PROVE TypeOK'
  BY <1>17 DEF ReleaseRaising, ReleaseFails, TypeOK, Unlock, Goto, Raise, PCs, InGuard,
               Finished
<1>18. ASSUME NEW r \in Runs, Crash(r) PROVE TypeOK'
  BY <1>18 DEF Crash, TypeOK, Goto, PCs, InGuard, Finished
<1>19. ASSUME NEW t \in Targets, ResolveStaleLock(t) PROVE TypeOK'
  BY <1>19 DEF ResolveStaleLock, TypeOK
<1>20. ASSUME NEW t \in Targets, ForeignWrite(t) PROVE TypeOK'
  BY <1>20 DEF ForeignWrite, TypeOK
<1>21. CASE UNCHANGED vars
  BY <1>21 DEF TypeOK
<1> QED
  BY <1>1, <1>2, <1>3, <1>4, <1>5, <1>6, <1>7, <1>8, <1>9, <1>10, <1>11, <1>12,
     <1>13, <1>14, <1>15, <1>16, <1>17, <1>18, <1>19, <1>20, <1>21
     DEF Next, Step

\* The state of any number of executors is well typed, and no run is past the
\* gate without a proposed change to work on.
THEOREM Typing == Spec => []TypeOK
BY TypeInit, TypeNext, PTL DEF Spec
-------------------------------------------------------------------------------
\* A step that leaves locks and changes alone and does not cross the border of
\* the guard keeps GuardIsExclusive.
LEMMA GuardKept ==
    ASSUME TypeOK, GuardIsExclusive, NEW r \in Runs, NEW label,
           Goto(r, label), UNCHANGED <<lock, request, index>>,
           pc[r] \in InGuard <=> label \in InGuard, pc[r] \notin {"crashed", "failed"}
    PROVE  GuardIsExclusive'
BY DEF TypeOK, GuardIsExclusive, Leavers, Goto, target, change

\* Only entering and leaving mutation_guard move a lock, and both in step with
\* the run's place; a killed run leaves its flock, or its directory, behind.
LEMMA GuardNext == TypeOK /\ GuardIsExclusive /\ [Next]_vars => GuardIsExclusive'
<1> SUFFICES ASSUME TypeOK, GuardIsExclusive, [Next]_vars
             PROVE  GuardIsExclusive'
  OBVIOUS
<1> USE DEF vars, store
<1>1. ASSUME NEW r \in Runs,
             Return(r) \/ Refuse(r) \/ Accept(r) \/ LockBusy(r)
      PROVE  GuardIsExclusive'
  BY <1>1, GuardKept DEF Return, Refuse, Accept, LockBusy, Raise, InGuard
<1>2. ASSUME NEW r \in Runs, Deny(r) PROVE GuardIsExclusive'
  BY <1>2 DEF Deny, TypeOK, GuardIsExclusive, Leavers, InGuard, target, change
<1>3. ASSUME NEW r \in Runs, Acquire(r) PROVE GuardIsExclusive'
  <2>1. target(r) \in Targets
    BY <1>3, WorkingType DEF Working, Acquire
  <2>2. \A q \in Runs : target(q)' = target(q)
    BY <1>3 DEF Acquire, target, change
  <2>3. \A q \in Runs : pc'[q] = IF q = r THEN "preimage" ELSE pc[q]
    BY <1>3 DEF Acquire, Goto, TypeOK
  <2>4. \A t \in Targets : lock'[t] = IF t = target(r) THEN r ELSE lock[t]
    BY <1>3 DEF Acquire, TypeOK
  <2>5. lock[target(r)] = NoRun /\ pc[r] = "lock"
    BY <1>3 DEF Acquire, LockFree
  <2>6. \A t \in Targets \ {target(r)} : lock[t] # r
    BY <2>5, NobodyAssumption DEF GuardIsExclusive, Leavers, InGuard
  <2>7. ASSUME NEW t \in Targets, NEW q \in Runs, pc'[q] \in InGuard, target(q)' = t
        PROVE  lock'[t] = q
    <3>1. CASE q = r
      BY <3>1, <2>2, <2>4, <2>7
    <3>2. CASE q # r
      <4>1. lock[t] = q
        BY <3>2, <2>2, <2>3, <2>7 DEF GuardIsExclusive
      <4>2. t # target(r)
        BY <4>1, <2>5, NobodyAssumption
      <4> QED
        BY <4>1, <4>2, <2>4
    <3> QED
      BY <3>1, <3>2
  <2>8. ASSUME NEW t \in Targets, lock'[t] # NoRun
        PROVE  \E q \in Runs : /\ lock'[t] = q
                               /\ (pc'[q] \in InGuard /\ target(q)' = t) \/ q \in Leavers'
    <3>1. CASE t = target(r)
      BY <3>1, <2>2, <2>3, <2>4 DEF InGuard
    <3>2. CASE t # target(r)
      BY <3>2, <2>2, <2>3, <2>4, <2>5, <2>6, <2>8 DEF GuardIsExclusive, Leavers
    <3> QED
      BY <3>1, <3>2
  <2> QED
    BY <2>7, <2>8 DEF GuardIsExclusive
<1>4. ASSUME NEW r \in Runs,
             \/ ReadPreimage(r) \/ RejectPreimage(r)
             \/ WriteApproval(r) \/ ApprovalFails(r)
             \/ WriteTemp(r) \/ TempFails(r)
             \/ Recheck(r) \/ RecheckFails(r)
             \/ CommitFails(r) \/ Sync(r) \/ SyncFails(r) \/ Unlink(r)
      PROVE  GuardIsExclusive'
  BY <1>4, GuardKept
     DEF ReadPreimage, RejectPreimage, WriteApproval, ApprovalFails, WriteTemp,
         TempFails, Recheck, RecheckFails, CommitFails, Sync, SyncFails, Unlink,
         Raise, InGuard
<1>5. ASSUME NEW r \in Runs, Link(r) \/ Replace(r) PROVE GuardIsExclusive'
  BY <1>5, GuardKept DEF Link, Replace, Install, InGuard
<1>6. ASSUME NEW r \in Runs,
             Release(r) \/ ReleaseRaising(r) \/ (Flock /\ ReleaseFails(r))
      PROVE  GuardIsExclusive'
  <2>1. lock[target(r)] = r /\ target(r) \in Targets /\ pc[r] = "release"
    BY <1>6, WorkingType
       DEF Release, ReleaseRaising, ReleaseFails, GuardIsExclusive, Working, InGuard
  <2>2. \A q \in Runs \ {r} : target(q)' = target(q) /\ pc'[q] = pc[q]
    BY <1>6 DEF Release, ReleaseRaising, ReleaseFails, Raise, Goto, TypeOK, target, change
  <2>3. pc'[r] \notin InGuard
    BY <1>6 DEF Release, ReleaseRaising, ReleaseFails, Raise, Goto, TypeOK, InGuard
  <2>4. \A t \in Targets : lock'[t] = IF t = target(r) THEN NoRun ELSE lock[t]
    BY <1>6 DEF Release, ReleaseRaising, ReleaseFails, Unlock, TypeOK
  <2>5. ASSUME NEW t \in Targets
        PROVE  \A q \in Runs : pc'[q] \in InGuard /\ target(q)' = t => lock'[t] = q
    BY <2>1, <2>2, <2>3, <2>4 DEF GuardIsExclusive
  <2>6. ASSUME NEW t \in Targets, lock'[t] # NoRun
        PROVE  \E q \in Runs : /\ lock'[t] = q
                               /\ (pc'[q] \in InGuard /\ target(q)' = t) \/ q \in Leavers'
    <3>1. t # target(r) /\ lock'[t] = lock[t]
      BY <2>4, <2>6
    <3>2. PICK q \in Runs : /\ lock[t] = q
                            /\ (pc[q] \in InGuard /\ target(q) = t) \/ q \in Leavers
      BY <2>6, <3>1 DEF GuardIsExclusive
    <3>3. q # r
      BY <3>1, <3>2, <2>1 DEF Leavers
    <3> QED
      BY <3>1, <3>2, <3>3, <2>2 DEF Leavers
  <2> QED
    BY <2>5, <2>6 DEF GuardIsExclusive
<1>7. ASSUME NEW r \in Runs, Crash(r) PROVE GuardIsExclusive'
  <2>1. \A q \in Runs : target(q)' = target(q)
    BY <1>7 DEF Crash, target, change
  <2>2. \A q \in Runs : pc'[q] = IF q = r THEN "crashed" ELSE pc[q]
    BY <1>7 DEF Crash, Goto, TypeOK
  <2>3. \A t \in Targets :
          lock'[t] = IF Flock /\ lock[t] = r THEN NoRun ELSE lock[t]
    BY <1>7 DEF Crash
  <2> QED
    BY <2>1, <2>2, <2>3, NobodyAssumption DEF GuardIsExclusive, Leavers, InGuard, TypeOK
<1>8. ASSUME NEW r \in Runs, ~Flock, ReleaseFails(r) PROVE GuardIsExclusive'
  <2>1. \A q \in Runs : target(q)' = target(q)
    BY <1>8 DEF ReleaseFails, target, change
  <2>2. \A q \in Runs : pc'[q] = IF q = r THEN "failed" ELSE pc[q]
    BY <1>8 DEF ReleaseFails, Raise, Goto, TypeOK
  <2>3. lock' = lock
    BY <1>8 DEF ReleaseFails
  <2> QED
    BY <1>8, <2>1, <2>2, <2>3 DEF GuardIsExclusive, Leavers, InGuard, TypeOK
<1>9. ASSUME NEW t \in Targets, ResolveStaleLock(t) PROVE GuardIsExclusive'
  BY <1>9, NobodyAssumption
     DEF ResolveStaleLock, TypeOK, GuardIsExclusive, Leavers, InGuard, target, change
<1>10. ASSUME NEW t \in Targets, ForeignWrite(t) PROVE GuardIsExclusive'
  BY <1>10 DEF ForeignWrite, GuardIsExclusive, Leavers, target, change
<1>11. CASE UNCHANGED vars
  BY <1>11 DEF GuardIsExclusive, Leavers, target, change
<1> QED
  BY <1>1, <1>2, <1>3, <1>4, <1>5, <1>6, <1>7, <1>8, <1>9, <1>10, <1>11
     DEF Next, Step

\* mutation_guard serialises everything between the preimage and the unlock of
\* a target, for any number of runs and with either kind of lock.
THEOREM Exclusion == Spec => []GuardIsExclusive
<1>1. Init => GuardIsExclusive
  BY NobodyAssumption DEF Init, GuardIsExclusive, InGuard
<1> QED
  BY <1>1, GuardNext, Typing, PTL DEF Spec
-------------------------------------------------------------------------------
\* The owner of a guard is the only run that can be about to write its target.
LEMMA OneWriter ==
    ASSUME GuardIsExclusive, TypeOK, NEW r \in Runs, NEW q \in Runs,
           pc[r] \in InGuard, pc[q] \in InGuard, target(r) = target(q)
    PROVE  q = r
<1>1. target(r) \in Targets
  BY WorkingType DEF Working
<1> QED
  BY <1>1 DEF GuardIsExclusive

\* A step of run r leaves the change, the approval and the preimage of every
\* other run as they are.
OthersKeep(r) ==
    \A q \in Runs \ {r} :
        /\ pc'[q] = pc[q] /\ index'[q] = index[q] /\ preimage'[q] = preimage[q]
        /\ raced'[q] = raced[q] /\ change(q)' = change(q)
        /\ target(q)' = target(q) /\ Approval(q)' = Approval(q)

\* A run's step leaves the local state of all other runs alone.
LEMMA StepKeepsOthers ==
    ASSUME TypeOK, NEW r \in Runs, Step(r) \/ Crash(r)
    PROVE  OthersKeep(r) /\ request' = request
<1> DEFINE Same(q) == pc'[q] = pc[q] /\ index'[q] = index[q]
                      /\ preimage'[q] = preimage[q] /\ raced'[q] = raced[q]
<1>1. request' = request
  BY DEF Step, Crash, Return, Deny, Refuse, Accept, Acquire, LockBusy,
         ReadPreimage, RejectPreimage, WriteApproval, ApprovalFails, WriteTemp,
         TempFails, Recheck, RecheckFails, Link, Replace, Install, CommitFails,
         Sync, SyncFails, Unlink, Release, ReleaseRaising, ReleaseFails
<1>2. \A q \in Runs \ {r} : Same(q)
  BY DEF Step, Crash, Return, Deny, Refuse, Accept, Acquire, LockBusy,
         ReadPreimage, RejectPreimage, WriteApproval, ApprovalFails, WriteTemp,
         TempFails, Recheck, RecheckFails, Link, Replace, Install, CommitFails,
         Sync, SyncFails, Unlink, Release, ReleaseRaising, ReleaseFails, Goto, Raise, TypeOK
<1>3. ASSUME NEW q \in Runs \ {r}, Same(q)
      PROVE  /\ change(q)' = change(q) /\ target(q)' = target(q)
             /\ Approval(q)' = Approval(q)
  BY <1>1, <1>3 DEF change, target, Approval
<1> QED
  BY <1>1, <1>2, <1>3 DEF OthersKeep

\* A step that grows the approvals and leaves the targets of the other runs
\* between their second look and their commit alone keeps them prepared.
LEMMA OthersStayPrepared ==
    ASSUME TypeOK, WritesArePrepared, NEW r \in Runs, Step(r) \/ Crash(r),
           approvals \subseteq approvals',
           \A q \in Runs \ {r} : pc[q] = "commit"
                                   => disk'[target(q)] = disk[target(q)]
    PROVE  \A q \in Runs \ {r} : Prepared(q)'
<1> SUFFICES ASSUME NEW q \in Runs \ {r} PROVE Prepared(q)'
  OBVIOUS
<1>1. /\ pc'[q] = pc[q] /\ preimage'[q] = preimage[q] /\ raced'[q] = raced[q]
      /\ change(q)' = change(q) /\ target(q)' = target(q)
      /\ Approval(q)' = Approval(q)
  BY StepKeepsOthers DEF OthersKeep
<1>2. Prepared(q)
  BY DEF WritesArePrepared
<1> QED
  BY <1>1, <1>2 DEF Prepared

\* Between the approval and the write nobody but a foreign program (noted in
\* raced) changes the target: the other runs are kept out by the guard.
LEMMA PreparedNext ==
    TypeOK /\ GuardIsExclusive /\ WritesArePrepared /\ [Next]_vars
        => WritesArePrepared'
<1> SUFFICES ASSUME TypeOK, GuardIsExclusive, WritesArePrepared, [Next]_vars
             PROVE  WritesArePrepared'
  OBVIOUS
<1> USE DEF vars, store
<1>1. ASSUME NEW r \in Runs, Link(r) \/ Replace(r) PROVE WritesArePrepared'
  <2>1. pc[r] = "commit" /\ pc'[r] = "sync" /\ approvals' = approvals
    BY <1>1 DEF Link, Replace, Install, Goto, TypeOK
  <2>2. ASSUME NEW q \in Runs \ {r}, pc[q] = "commit"
        PROVE  disk'[target(q)] = disk[target(q)]
    <3>1. target(q) # target(r)
      BY <2>1, <2>2, OneWriter DEF InGuard
    <3>2. target(q) \in Targets
      BY <2>2, WorkingType DEF Working, InGuard
    <3> QED
      BY <1>1, <3>1, <3>2 DEF Link, Replace, Install, TypeOK
  <2>3. \A q \in Runs \ {r} : Prepared(q)'
    BY <1>1, <2>1, <2>2, OthersStayPrepared DEF Step
  <2>4. Prepared(r)'
    BY <2>1 DEF Prepared
  <2> QED
    BY <2>3, <2>4 DEF WritesArePrepared
<1>2. ASSUME NEW r \in Runs, Step(r) \/ Crash(r), ~Link(r), ~Replace(r)
      PROVE  WritesArePrepared'
  <2>1. disk' = disk
    BY <1>2 DEF Step, Crash, Return, Deny, Refuse, Accept, Acquire, LockBusy,
         ReadPreimage, RejectPreimage, WriteApproval, ApprovalFails, WriteTemp,
         TempFails, Recheck, RecheckFails, CommitFails, Sync, SyncFails,
         Unlink, Release, ReleaseRaising, ReleaseFails
  <2>2. approvals \subseteq approvals'
    BY <1>2 DEF Step, Crash, Return, Deny, Refuse, Accept, Acquire, LockBusy,
         ReadPreimage, RejectPreimage, WriteApproval, ApprovalFails, WriteTemp,
         TempFails, Recheck, RecheckFails, CommitFails, Sync, SyncFails,
         Unlink, Release, ReleaseRaising, ReleaseFails
  <2>3. \A q \in Runs \ {r} : Prepared(q)'
    BY <1>2, <2>1, <2>2, OthersStayPrepared
  <2>4. Prepared(r)
    BY DEF WritesArePrepared
  <2>5. Prepared(r)'
    <3>1. CASE ReadPreimage(r)
      BY <3>1, <2>1 DEF ReadPreimage, ValidPreimage, Prepared, Goto, TypeOK,
                        target, change
    <3>2. CASE WriteApproval(r)
      BY <3>2, <2>4 DEF WriteApproval, Prepared, Goto, TypeOK, Approval,
                        target, change
    <3>3. CASE WriteTemp(r)
      BY <3>3, <2>4 DEF WriteTemp, Prepared, Goto, TypeOK, Approval,
                        target, change
    <3>4. CASE Recheck(r)
      BY <3>4, <2>4 DEF Recheck, Prepared, Goto, TypeOK, Approval,
                        target, change
    <3>5. CASE /\ ~ReadPreimage(r) /\ ~WriteApproval(r)
               /\ ~WriteTemp(r) /\ ~Recheck(r)
      <4>1. pc'[r] \notin {"approve", "temp", "recheck", "commit"}
        BY <1>2, <3>5
           DEF Step, Crash, Return, Deny, Refuse, Accept, Acquire, LockBusy,
               RejectPreimage, ApprovalFails, TempFails, RecheckFails,
               CommitFails, Sync, SyncFails, Unlink, Release, ReleaseRaising, ReleaseFails,
               Goto, Raise, TypeOK
      <4> QED
        BY <4>1 DEF Prepared
    <3> QED
      BY <3>1, <3>2, <3>3, <3>4, <3>5
  <2> QED
    BY <2>3, <2>5 DEF WritesArePrepared
<1>3. ASSUME NEW t \in Targets, ResolveStaleLock(t) PROVE WritesArePrepared'
  BY <1>3 DEF ResolveStaleLock, WritesArePrepared, Prepared, Approval, target, change
<1>4. ASSUME NEW t \in Targets, ForeignWrite(t) PROVE WritesArePrepared'
  <2> SUFFICES ASSUME NEW r \in Runs PROVE Prepared(r)'
    BY DEF WritesArePrepared
  <2>1. /\ target(r)' = target(r) /\ change(r)' = change(r)
        /\ Approval(r)' = Approval(r)
    BY <1>4 DEF ForeignWrite, target, change, Approval
  <2>2. Prepared(r)
    BY DEF WritesArePrepared
  <2>3. pc[r] = "commit" => raced'[r] \/ disk'[target(r)] = preimage'[r]
    <3>1. pc[r] = "commit" => target(r) \in Targets
      BY WorkingType DEF Working, InGuard
    <3> QED
      BY <1>4, <2>2, <3>1 DEF ForeignWrite, Prepared, TypeOK
  <2> QED
    BY <1>4, <2>1, <2>2, <2>3 DEF ForeignWrite, Prepared
<1>5. CASE UNCHANGED vars
  BY <1>5 DEF WritesArePrepared, Prepared, Approval, target, change
<1> QED
  BY <1>1, <1>2, <1>3, <1>4, <1>5 DEF Next

\* A prepared run that links or replaces does so under its own approval.
LEMMA ApprovedNext ==
    TypeOK /\ WritesArePrepared /\ WritesAreApproved /\ [Next]_vars
        => WritesAreApproved'
<1> SUFFICES ASSUME TypeOK, WritesArePrepared, WritesAreApproved, [Next]_vars
             PROVE  WritesAreApproved'
  OBVIOUS
<1> USE DEF vars, store
<1>1. ASSUME NEW r \in Runs, Link(r) \/ Replace(r) PROVE WritesAreApproved'
  <2>1. /\ pc[r] = "commit" /\ approvals' = approvals
        /\ writes' = writes \union {Write(r)}
    BY <1>1 DEF Link, Replace, Install
  <2>2. /\ Approval(r) \in approvals
        /\ raced[r] \/ disk[target(r)] = preimage[r]
        /\ change(r).operation = "create" <=> preimage[r] = Absent
    BY <2>1 DEF WritesArePrepared, Prepared
  <2>3. change(r).operation = "create" => disk[target(r)] = Absent
    BY <1>1 DEF Link, Replace
  <2>4. change(r).operation \in {"create", "modify"}
    BY <2>1, WorkingType DEF Working, InGuard, Operations
  <2>5. /\ Covers(Approval(r), Write(r))
        /\ \/ Approval(r).preimage = Write(r).before
           \/ Write(r).operation = "modify" /\ Write(r).raced
    BY <2>2, <2>3, <2>4 DEF Covers, Approval, Write
  <2> QED
    BY <2>1, <2>2, <2>5 DEF WritesAreApproved
<1>2. ASSUME NEW r \in Runs, Step(r) \/ Crash(r), ~Link(r), ~Replace(r)
      PROVE  writes' = writes /\ approvals \subseteq approvals'
  BY <1>2 DEF Step, Crash, Return, Deny, Refuse, Accept, Acquire, LockBusy,
       ReadPreimage, RejectPreimage, WriteApproval, ApprovalFails, WriteTemp,
       TempFails, Recheck, RecheckFails, CommitFails, Sync, SyncFails,
       Unlink, Release, ReleaseRaising, ReleaseFails
<1>3. ASSUME NEW t \in Targets, ResolveStaleLock(t) \/ ForeignWrite(t)
      PROVE  writes' = writes /\ approvals \subseteq approvals'
  BY <1>3 DEF ResolveStaleLock, ForeignWrite
<1>4. CASE writes' = writes /\ approvals \subseteq approvals'
  BY <1>4 DEF WritesAreApproved
<1> QED
  BY <1>1, <1>2, <1>3, <1>4 DEF Next

\* No history of runs, failures, crashes and foreign writes has a write without
\* an approval artifact for it, nor one whose artifact names another preimage
\* than the one replaced, but for a modify raced in the recheck-replace window.
THEOREM ApprovedWrites == Spec => []WritesAreApproved
<1>1. Init => WritesArePrepared /\ WritesAreApproved
  BY DEF Init, WritesArePrepared, Prepared, WritesAreApproved
<1>2. /\ TypeOK /\ GuardIsExclusive
      /\ WritesArePrepared /\ WritesAreApproved /\ [Next]_vars
      => WritesArePrepared' /\ WritesAreApproved'
  BY PreparedNext, ApprovedNext
<1> QED
  BY <1>1, <1>2, Typing, Exclusion, PTL DEF Spec
-------------------------------------------------------------------------------
(* Refinement: without foreign writers every step of Mutation is a step of     *)
(* ApprovedChange or leaves its variables alone.                               *)

\* A run approves and writes its changes in order, each at most once.
InOrder(r) ==
    /\ \A w \in writes : w.run = r =>
         /\ w.index <= index[r]
         /\ w.index = index[r] =>
              pc[r] \in {"sync", "unlink", "release", "failed", "crashed"}
    /\ \A a \in approvals : a.run = r =>
         /\ a.index <= index[r]
         /\ a.index = index[r] =>
              /\ pc[r] \notin {"gate", "lock", "preimage", "approve"}
              /\ a = Approval(r)

ChangesTakenInOrder == \A r \in Runs : InOrder(r)
NothingRaced == \A r \in Runs : ~raced[r]

spent == {a \in approvals : \E w \in writes : Covers(a, w)}

\* What a step of run r may add to the two histories.
LEMMA HistoryStep ==
    ASSUME TypeOK, NEW r \in Runs, Step(r) \/ Crash(r)
    PROVE  /\ writes' = writes \/ ((Link(r) \/ Replace(r))
                                   /\ writes' = writes \union {Write(r)})
           /\ approvals' = approvals \/ ((WriteApproval(r) \/ ApprovalFails(r))
                                /\ approvals' = approvals \union {Approval(r)})
<1> USE DEF vars, store
<1>1. CASE Link(r) \/ Replace(r)
  BY <1>1 DEF Link, Replace, Install
<1>2. CASE WriteApproval(r) \/ ApprovalFails(r)
  BY <1>2 DEF WriteApproval, ApprovalFails
<1>3. CASE /\ ~Link(r) /\ ~Replace(r)
           /\ ~WriteApproval(r) /\ ~ApprovalFails(r)
  BY <1>3 DEF Step, Crash, Return, Deny, Refuse, Accept, Acquire, LockBusy,
       ReadPreimage, RejectPreimage, WriteTemp, TempFails, Recheck,
       RecheckFails, CommitFails, Sync, SyncFails, Unlink, Release,
       ReleaseRaising, ReleaseFails
<1> QED
  BY <1>1, <1>2, <1>3

\* A run takes its changes in order: approvals and writes of a change come
\* after those of the changes before it, and at most once each.
LEMMA InOrderNext ==
    TypeOK /\ ChangesTakenInOrder /\ [Next]_vars => ChangesTakenInOrder'
<1> SUFFICES ASSUME TypeOK, ChangesTakenInOrder, [Next]_vars
             PROVE  ChangesTakenInOrder'
  OBVIOUS
<1> USE DEF vars, store
<1>1. ASSUME NEW r \in Runs, Step(r) \/ Crash(r) PROVE ChangesTakenInOrder'
  <2>1. ASSUME NEW q \in Runs \ {r} PROVE InOrder(q)'
    <3>1. InOrder(q)
      BY DEF ChangesTakenInOrder
    <3>2. pc'[q] = pc[q] /\ index'[q] = index[q] /\ Approval(q)' = Approval(q)
      BY <1>1, StepKeepsOthers DEF OthersKeep
    <3>3. \A w \in writes' : w.run = q => w \in writes
      BY <1>1, HistoryStep DEF Write
    <3>4. \A a \in approvals' : a.run = q => a \in approvals
      BY <1>1, HistoryStep DEF Approval
    <3> QED
      BY <3>1, <3>2, <3>3, <3>4 DEF InOrder
  <2>2. InOrder(r)
    BY DEF ChangesTakenInOrder
  <2>3. InOrder(r)'
    <3>1. CASE Link(r) \/ Replace(r)
      <4>1. /\ writes' = writes \union {Write(r)} /\ approvals' = approvals
            /\ index' = index /\ preimage' = preimage /\ request' = request
            /\ pc[r] = "commit" /\ pc'[r] = "sync"
        BY <3>1 DEF Link, Replace, Install, Goto, TypeOK
      <4>2. Approval(r)' = Approval(r) /\ Write(r).index = index[r]
        BY <4>1 DEF Approval, target, change, Write
      <4>3. index[r] \in Nat
        BY DEF TypeOK
      <4> QED
        BY <4>1, <4>2, <4>3, <2>2 DEF InOrder
    <3>2. CASE WriteApproval(r) \/ ApprovalFails(r)
      <4>1. /\ writes' = writes
            /\ approvals' \subseteq approvals \union {Approval(r)}
            /\ index' = index /\ preimage' = preimage /\ request' = request
            /\ pc[r] = "approve" /\ pc'[r] \in {"temp", "release"}
        BY <3>2 DEF WriteApproval, ApprovalFails, Goto, Raise, TypeOK
      <4>2. Approval(r)' = Approval(r) /\ Approval(r).index = index[r]
        BY <4>1 DEF Approval, target, change
      <4>3. index[r] \in Nat
        BY DEF TypeOK
      <4> QED
        BY <4>1, <4>2, <4>3, <2>2 DEF InOrder
    <3>3. CASE ReadPreimage(r)
      BY <3>3, <2>2 DEF InOrder, ReadPreimage, Goto, TypeOK
    <3>4. CASE Release(r) \/ Deny(r)
      <4>1. index'[r] = index[r] + 1 /\ index[r] \in Nat
        BY <3>4 DEF Release, Deny, TypeOK
      <4>2. \A w \in writes : w.index \in Nat
        BY DEF TypeOK
      <4>3. \A a \in approvals : a.index \in Nat
        BY DEF TypeOK, Artifacts
      <4>4. writes' = writes /\ approvals' = approvals
        BY <3>4 DEF Release, Deny
      <4> QED
        BY <4>1, <4>2, <4>3, <4>4, <2>2 DEF InOrder
    <3>5. CASE /\ ~Link(r) /\ ~Replace(r) /\ ~WriteApproval(r)
               /\ ~ApprovalFails(r) /\ ~ReadPreimage(r) /\ ~Release(r) /\ ~Deny(r)
      <4>1. /\ writes' = writes /\ approvals' = approvals
            /\ index' = index /\ preimage' = preimage /\ request' = request
        BY <1>1, <3>5
           DEF Step, Crash, Return, Refuse, Accept, Acquire, LockBusy,
               RejectPreimage, WriteTemp, TempFails, Recheck, RecheckFails,
               CommitFails, Sync, SyncFails, Unlink, ReleaseRaising, ReleaseFails
      <4>2. /\ pc[r] \in {"sync", "unlink", "release", "failed", "crashed"}
                 => pc'[r] \in {"sync", "unlink", "release", "failed", "crashed"}
            /\ pc[r] \notin {"gate", "lock", "preimage", "approve"}
                 => pc'[r] \notin {"gate", "lock", "preimage", "approve"}
        BY <1>1, <3>5
           DEF Step, Crash, Return, Refuse, Accept, Acquire, LockBusy,
               RejectPreimage, WriteTemp, TempFails, Recheck, RecheckFails,
               CommitFails, Sync, SyncFails, Unlink, ReleaseRaising, ReleaseFails,
               Goto, Raise, TypeOK
      <4>3. Approval(r)' = Approval(r)
        BY <4>1 DEF Approval, target, change
      <4> QED
        BY <4>1, <4>2, <4>3, <2>2 DEF InOrder
    <3> QED
      BY <3>1, <3>2, <3>3, <3>4, <3>5
  <2> QED
    BY <2>1, <2>3 DEF ChangesTakenInOrder
<1>2. ASSUME NEW t \in Targets, ResolveStaleLock(t) \/ ForeignWrite(t)
      PROVE  ChangesTakenInOrder'
  BY <1>2 DEF ResolveStaleLock, ForeignWrite, ChangesTakenInOrder, InOrder,
              Approval, target, change
<1>3. CASE UNCHANGED vars
  BY <1>3 DEF ChangesTakenInOrder, InOrder, Approval, target, change
<1> QED
  BY <1>1, <1>2, <1>3 DEF Next

\* Without foreign writers no target changes behind a run's second look.
LEMMA NothingRacedNext ==
    ASSUME ~Foreign
    PROVE  TypeOK /\ NothingRaced /\ [Next]_vars => NothingRaced'
<1> SUFFICES ASSUME TypeOK, NothingRaced, [Next]_vars PROVE NothingRaced'
  OBVIOUS
<1>1. ASSUME NEW r \in Runs, Step(r) \/ Crash(r) PROVE NothingRaced'
  <2>1. raced' = raced \/ raced' = [raced EXCEPT ![r] = FALSE]
    BY <1>1 DEF Step, Crash, Return, Deny, Refuse, Accept, Acquire, LockBusy,
         ReadPreimage, RejectPreimage, WriteApproval, ApprovalFails, WriteTemp,
         TempFails, Recheck, RecheckFails, Link, Replace, Install, CommitFails,
         Sync, SyncFails, Unlink, Release, ReleaseRaising, ReleaseFails
  <2>2. raced \in [Runs -> BOOLEAN]
    BY DEF TypeOK
  <2>3. CASE raced' = raced
    BY <2>3 DEF NothingRaced
  <2>4. CASE raced' = [raced EXCEPT ![r] = FALSE]
    BY <2>2, <2>4, Zenon DEF NothingRaced
  <2> QED
    BY <2>1, <2>3, <2>4
<1>2. ASSUME NEW t \in Targets, ResolveStaleLock(t) \/ ForeignWrite(t) PROVE NothingRaced'
  BY <1>2 DEF ResolveStaleLock, ForeignWrite, NothingRaced
<1>3. CASE UNCHANGED vars
  BY <1>3 DEF NothingRaced, vars
<1> QED
  BY <1>1, <1>2, <1>3 DEF Next

\* Installing the content spends exactly the approval of the change at hand.
LEMMA InstallSpends ==
    ASSUME TypeOK, WritesArePrepared, ChangesTakenInOrder, NothingRaced,
           NEW r \in Runs, Link(r) \/ Replace(r)
    PROVE  Promise!Apply(Approval(r)) /\ Approval(r) \in approvals
<1>1. /\ pc[r] = "commit" /\ approvals' = approvals
      /\ writes' = writes \union {Write(r)}
      /\ disk' = [disk EXCEPT ![target(r)] = change(r).content]
  BY DEF Link, Replace, Install
<1>2. Approval(r) \in approvals /\ disk[target(r)] = preimage[r]
  BY <1>1 DEF WritesArePrepared, Prepared, NothingRaced
<1>3. Approval(r) \notin spent
  <2>1. \A w \in writes : w.run = r => w.index # index[r]
    BY <1>1 DEF ChangesTakenInOrder, InOrder
  <2> QED
    BY <2>1 DEF spent, Covers, Approval
<1>4. Covers(Approval(r), Write(r))
  BY DEF Covers, Approval, Write
<1>5. ASSUME NEW a \in approvals, Covers(a, Write(r)) PROVE a = Approval(r)
  <2>1. a.run = r /\ a.index = index[r]
    BY <1>5 DEF Covers, Write
  <2> QED
    BY <2>1 DEF ChangesTakenInOrder, InOrder
<1>6. spent' = spent \union {Approval(r)}
  BY <1>1, <1>2, <1>4, <1>5 DEF spent, Covers
<1> QED
  BY <1>1, <1>2, <1>3, <1>6 DEF Promise!Apply, spent, Approval

\* Any other step at most records approvals, none of them already spent.
LEMMA OtherStepsApprove ==
    ASSUME TypeOK, ChangesTakenInOrder, NEW r \in Runs, Step(r) \/ Crash(r),
           ~Link(r), ~Replace(r)
    PROVE  Promise!Approve
<1>1. disk' = disk
  BY DEF Step, Crash, Return, Deny, Refuse, Accept, Acquire, LockBusy,
       ReadPreimage, RejectPreimage, WriteApproval, ApprovalFails, WriteTemp,
       TempFails, Recheck, RecheckFails, CommitFails, Sync, SyncFails,
       Unlink, Release, ReleaseRaising, ReleaseFails, store
<1>2. writes' = writes
  BY HistoryStep
<1>3. CASE approvals' = approvals
  BY <1>1, <1>2, <1>3 DEF Promise!Approve, TypeOK
<1>4. CASE /\ WriteApproval(r) \/ ApprovalFails(r)
           /\ approvals' = approvals \union {Approval(r)}
  <2>1. pc[r] = "approve"
    BY <1>4 DEF WriteApproval, ApprovalFails
  <2>2. \A w \in writes : ~Covers(Approval(r), w)
    BY <2>1 DEF ChangesTakenInOrder, InOrder, Covers, Approval
  <2>3. spent' = spent
    BY <1>2, <1>4, <2>2 DEF spent, Covers
  <2>4. Approval(r) \in Artifacts
    BY <2>1, WorkingType DEF Working, InGuard, TypeOK, Approval, Artifacts
  <2> QED
    BY <1>1, <1>4, <2>3, <2>4 DEF Promise!Approve, TypeOK, spent
<1> QED
  BY <1>3, <1>4, HistoryStep

\* Without foreign writers the executor is a compare-and-swap on each target
\* that spends every approval at most once, whatever fails and whoever dies.
THEOREM Refinement ==
    ASSUME ~Foreign
    PROVE  Spec => SwapsApproved
<1>1. Init => /\ WritesArePrepared /\ ChangesTakenInOrder /\ NothingRaced
              /\ Promise!Init
  BY DEF Init, WritesArePrepared, Prepared, ChangesTakenInOrder, InOrder,
         NothingRaced, Promise!Init
<1>2. TypeOK /\ GuardIsExclusive /\ WritesArePrepared /\ ChangesTakenInOrder
      /\ NothingRaced /\ [Next]_vars
      => WritesArePrepared' /\ ChangesTakenInOrder' /\ NothingRaced'
  BY PreparedNext, InOrderNext, NothingRacedNext
<1>3. TypeOK /\ WritesArePrepared /\ ChangesTakenInOrder /\ NothingRaced
      /\ [Next]_vars => [Promise!Next]_Promise!vars
  <2> SUFFICES ASSUME TypeOK, WritesArePrepared, ChangesTakenInOrder,
                      NothingRaced, [Next]_vars
               PROVE  [Promise!Next]_Promise!vars
    OBVIOUS
  <2>1. ASSUME NEW r \in Runs, Link(r) \/ Replace(r)
        PROVE  Promise!Next
    BY <2>1, InstallSpends DEF Promise!Next
  <2>2. ASSUME NEW r \in Runs, Step(r) \/ Crash(r), ~Link(r), ~Replace(r)
        PROVE  Promise!Next
    BY <2>2, OtherStepsApprove DEF Promise!Next
  <2>3. ASSUME NEW t \in Targets, ResolveStaleLock(t) \/ ForeignWrite(t)
        PROVE  UNCHANGED Promise!vars
    BY <2>3 DEF ResolveStaleLock, ForeignWrite, Promise!vars, Covers
  <2>4. CASE UNCHANGED vars
    BY <2>4 DEF vars, store, Promise!vars, Covers
  <2> QED
    BY <2>1, <2>2, <2>3, <2>4 DEF Next
<1> QED
  BY <1>1, <1>2, <1>3, Typing, Exclusion, PTL
     DEF Spec, SwapsApproved, Promise!Spec
-------------------------------------------------------------------------------
(* The report: what a run's lists say while it is on its way, and at its end.  *)

Written(r) == {w.index : w \in {v \in writes : v.run = r}}
Approved(r) == {a.index : a \in {b \in approvals : b.run = r}}

\* Until an exception the lists account for every change before the current one,
\* and the current one is written just when the run is past the commit.
Ledger(r) ==
    /\ pc[r] \notin {"unlink", "release", "failed", "crashed"} => ~raising[r]
    /\ pc[r] \notin {"failed", "crashed"} /\ ~raising[r] =>
         /\ local[r].applied \union local[r].denied = 1..(index[r] - 1)
         /\ local[r].applied \intersect local[r].denied = {}
         /\ Written(r) = local[r].applied \union
              (IF pc[r] \in {"sync", "unlink", "release"} THEN {index[r]} ELSE {})
         /\ Approved(r) = local[r].approved
    /\ pc[r] = "done" =>
         report[r] = local[r] /\ index[r] = Len(request[r].changes) + 1

LedgersBalance == \A r \in Runs : Ledger(r)

TempAtWork(r) == temp[r] => pc[r] \in {"recheck", "commit", "sync", "unlink", "crashed"}
TempsAtWork == \A r \in Runs : TempAtWork(r)

\* A step of run r leaves the books of every other run as they are.
LEMMA StepKeepsBooks ==
    ASSUME TypeOK, NEW r \in Runs, Step(r) \/ Crash(r), NEW q \in Runs \ {r}
    PROVE  /\ local'[q] = local[q] /\ report'[q] = report[q]
           /\ raising'[q] = raising[q] /\ temp'[q] = temp[q]
           /\ pc'[q] = pc[q] /\ index'[q] = index[q] /\ request'[q] = request[q]
           /\ Written(q)' = Written(q) /\ Approved(q)' = Approved(q)
<1> USE DEF store
<1>1. local'[q] = local[q] /\ report'[q] = report[q]
  BY DEF Step, Crash, Return, Deny, Refuse, Accept, Acquire, LockBusy,
         ReadPreimage, RejectPreimage, WriteApproval, ApprovalFails, WriteTemp,
         TempFails, Recheck, RecheckFails, Link, Replace, Install, CommitFails,
         Sync, SyncFails, Unlink, Release, ReleaseRaising, ReleaseFails, Record, TypeOK
<1>2. raising'[q] = raising[q] /\ temp'[q] = temp[q]
  BY DEF Step, Crash, Return, Deny, Refuse, Accept, Acquire, LockBusy,
         ReadPreimage, RejectPreimage, WriteApproval, ApprovalFails, WriteTemp,
         TempFails, Recheck, RecheckFails, Link, Replace, Install, CommitFails,
         Sync, SyncFails, Unlink, Release, ReleaseRaising, ReleaseFails, Raise, TypeOK
<1>3. pc'[q] = pc[q] /\ index'[q] = index[q] /\ request' = request
  BY StepKeepsOthers DEF OthersKeep
<1>4. {v \in writes' : v.run = q} = {v \in writes : v.run = q}
  BY HistoryStep DEF Write
<1>5. {b \in approvals' : b.run = q} = {b \in approvals : b.run = q}
  BY HistoryStep DEF Approval
<1> QED
  BY <1>1, <1>2, <1>3, <1>4, <1>5 DEF Written, Approved

\* What a step may add to the books of its own run.
LEMMA BooksStep ==
    ASSUME TypeOK, NEW r \in Runs, Step(r) \/ Crash(r)
    PROVE  /\ IF Link(r) \/ Replace(r)
              THEN Written(r)' = Written(r) \union {index[r]}
              ELSE Written(r)' = Written(r)
           /\ ~WriteApproval(r) /\ ~ApprovalFails(r) => Approved(r)' = Approved(r)
           /\ WriteApproval(r) => Approved(r)' = Approved(r) \union {index[r]}
<1>1. CASE Link(r) \/ Replace(r)
  <2>1. writes' = writes \union {Write(r)} /\ approvals' = approvals
    BY <1>1 DEF Link, Replace, Install
  <2>2. Write(r).run = r /\ Write(r).index = index[r]
    BY DEF Write
  <2>3. Written(r)' = Written(r) \union {index[r]}
    BY <2>1, <2>2 DEF Written
  <2>4. ~WriteApproval(r)
    BY <1>1 DEF Link, Replace, WriteApproval
  <2> QED
    BY <1>1, <2>1, <2>3, <2>4 DEF Approved
<1>2. CASE ~Link(r) /\ ~Replace(r)
  <2>1. writes' = writes
    BY <1>2, HistoryStep
  <2>2. ASSUME WriteApproval(r) PROVE Approved(r)' = Approved(r) \union {index[r]}
    <3>1. approvals' = approvals \union {Approval(r)}
      BY <2>2 DEF WriteApproval
    <3>2. Approval(r).run = r /\ Approval(r).index = index[r]
      BY DEF Approval
    <3> QED
      BY <3>1, <3>2 DEF Approved
  <2>3. ASSUME ~WriteApproval(r), ~ApprovalFails(r) PROVE Approved(r)' = Approved(r)
    BY <2>3, HistoryStep DEF Approved
  <2> QED
    BY <1>2, <2>1, <2>2, <2>3 DEF Written
<1> QED
  BY <1>1, <1>2

\* Every step of a run keeps its ledger balanced.
LEMMA LedgerStep ==
    ASSUME TypeOK, NEW r \in Runs, Ledger(r), Step(r) \/ Crash(r)
    PROVE  Ledger(r)'
<1> USE DEF store
<1> DEFINE Raised == pc'[r] \in {"failed", "crashed"} \/ (raising'[r]
                       /\ pc'[r] \in {"unlink", "release"})
<1>1. ASSUME Raised PROVE Ledger(r)'
  BY <1>1 DEF Ledger
<1>2. CASE \/ Refuse(r) \/ LockBusy(r) \/ RejectPreimage(r) \/ ApprovalFails(r)
           \/ TempFails(r) \/ RecheckFails(r) \/ CommitFails(r) \/ SyncFails(r)
           \/ ReleaseRaising(r) \/ ReleaseFails(r) \/ Crash(r)
  <2>1. Raised
    BY <1>2 DEF Refuse, LockBusy, RejectPreimage, ApprovalFails, TempFails,
         RecheckFails, CommitFails, SyncFails, ReleaseRaising,
         ReleaseFails, Crash, Raise, Goto, TypeOK
  <2> QED
    BY <1>1, <2>1
<1>3. CASE Return(r)
  <2>1. /\ pc[r] = "gate" /\ pc'[r] = "done" /\ report'[r] = local[r]
        /\ index[r] > Len(request[r].changes)
        /\ UNCHANGED <<request, index, raising, local>>
    BY <1>3 DEF Return, Goto, TypeOK
  <2>2. Len(request[r].changes) \in Nat /\ index[r] \in Nat
        /\ index[r] <= Len(request[r].changes) + 1
    BY RequestAssumption DEF TypeOK
  <2>3. index[r] = Len(request[r].changes) + 1
    BY <2>1, <2>2
  <2>4. Written(r)' = Written(r) /\ Approved(r)' = Approved(r)
    BY <1>3, BooksStep DEF Return, Link, Replace, WriteApproval, ApprovalFails
  <2> QED
    BY <2>1, <2>3, <2>4 DEF Ledger
<1>4. CASE Deny(r)
  <2>1. /\ pc[r] = "gate" /\ UNCHANGED <<pc, request, raising, report>>
        /\ index'[r] = index[r] + 1 /\ index[r] \in Nat \ {0}
        /\ local'[r].denied = local[r].denied \union {index[r]}
        /\ local'[r].applied = local[r].applied /\ local'[r].approved = local[r].approved
    BY <1>4 DEF Deny, Record, TypeOK, Lists
  <2>2. Written(r)' = Written(r) /\ Approved(r)' = Approved(r)
    BY <1>4, BooksStep DEF Deny, Link, Replace, WriteApproval, ApprovalFails
  <2>3. 1..(index'[r] - 1) = 1..(index[r] - 1) \union {index[r]}
        /\ index[r] \notin 1..(index[r] - 1)
    BY <2>1
  <2>4. ~raising[r] /\ pc'[r] = "gate" /\ ~raising'[r]
    BY <2>1 DEF Ledger
  <2>5. /\ local[r].applied \union local[r].denied = 1..(index[r] - 1)
        /\ local[r].applied \intersect local[r].denied = {}
        /\ Written(r) = local[r].applied /\ Approved(r) = local[r].approved
    BY <2>1, <2>4 DEF Ledger
  <2> QED
    BY <2>1, <2>2, <2>3, <2>4, <2>5 DEF Ledger
<1>5. CASE WriteApproval(r)
  <2>1. /\ pc[r] = "approve" /\ pc'[r] = "temp" /\ UNCHANGED <<request, index, raising>>
        /\ local'[r].approved = local[r].approved \union {index[r]}
        /\ local'[r].applied = local[r].applied /\ local'[r].denied = local[r].denied
    BY <1>5 DEF WriteApproval, Record, Goto, TypeOK, Lists
  <2>2. Written(r)' = Written(r) /\ Approved(r)' = Approved(r) \union {index[r]}
    BY <1>5, BooksStep DEF WriteApproval, Link, Replace
  <2> QED
    BY <2>1, <2>2 DEF Ledger
<1>6. CASE Link(r) \/ Replace(r)
  <2>1. /\ pc[r] = "commit" /\ pc'[r] = "sync"
        /\ UNCHANGED <<request, index, raising, local>>
    BY <1>6 DEF Link, Replace, Install, Goto, TypeOK
  <2>2. Written(r)' = Written(r) \union {index[r]} /\ Approved(r)' = Approved(r)
    BY <1>6, BooksStep DEF WriteApproval, ApprovalFails, Link, Replace
  <2> QED
    BY <2>1, <2>2 DEF Ledger
<1>7. CASE Release(r)
  <2>1. /\ pc[r] = "release" /\ pc'[r] = "gate" /\ ~raising[r]
        /\ UNCHANGED <<request, raising, report>>
        /\ index'[r] = index[r] + 1 /\ index[r] \in Nat \ {0}
        /\ local'[r].applied = local[r].applied \union {index[r]}
        /\ local'[r].denied = local[r].denied /\ local'[r].approved = local[r].approved
    BY <1>7 DEF Release, Record, Goto, TypeOK, Lists
  <2>2. Written(r)' = Written(r) /\ Approved(r)' = Approved(r)
    BY <1>7, BooksStep DEF Release, Link, Replace, WriteApproval, ApprovalFails
  <2>3. 1..(index'[r] - 1) = 1..(index[r] - 1) \union {index[r]}
        /\ index[r] \notin 1..(index[r] - 1)
    BY <2>1
  <2>4. /\ local[r].applied \union local[r].denied = 1..(index[r] - 1)
        /\ local[r].applied \intersect local[r].denied = {}
        /\ Written(r) = local[r].applied \union {index[r]} /\ Approved(r) = local[r].approved
    BY <2>1 DEF Ledger
  <2> QED
    BY <2>1, <2>2, <2>3, <2>4 DEF Ledger
<1>8. CASE \/ Accept(r) \/ Acquire(r) \/ ReadPreimage(r) \/ WriteTemp(r) \/ Recheck(r)
           \/ Sync(r) \/ Unlink(r)
  <2>1. /\ pc[r] \in {"gate", "lock", "preimage", "temp", "recheck"} =>
             pc'[r] \in {"lock", "preimage", "approve", "recheck", "commit"}
        /\ pc[r] \in {"sync", "unlink"} => pc'[r] \in {"unlink", "release"}
        /\ pc[r] \in {"gate", "lock", "preimage", "temp", "recheck", "sync", "unlink"}
        /\ UNCHANGED <<request, index, raising, local>>
    BY <1>8 DEF Accept, Acquire, ReadPreimage, WriteTemp, Recheck, Sync, Unlink, Goto, TypeOK
  <2>2. Written(r)' = Written(r) /\ Approved(r)' = Approved(r)
    BY <1>8, BooksStep DEF Accept, Acquire, ReadPreimage, WriteTemp, Recheck, Sync, Unlink,
         Link, Replace, WriteApproval, ApprovalFails
  <2> QED
    BY <2>1, <2>2 DEF Ledger
<1> QED
  BY <1>2, <1>3, <1>4, <1>5, <1>6, <1>7, <1>8 DEF Step

LEMMA LedgerNext ==
    TypeOK /\ LedgersBalance /\ TempsAtWork /\ [Next]_vars
        => LedgersBalance' /\ TempsAtWork'
<1> SUFFICES ASSUME TypeOK, LedgersBalance, TempsAtWork, [Next]_vars
             PROVE  LedgersBalance' /\ TempsAtWork'
  OBVIOUS
<1>1. ASSUME NEW r \in Runs, Step(r) \/ Crash(r) PROVE LedgersBalance' /\ TempsAtWork'
  <2>1. Ledger(r)'
    BY <1>1, LedgerStep DEF LedgersBalance
  <2>2. ASSUME NEW q \in Runs \ {r} PROVE Ledger(q)' /\ TempAtWork(q)'
    <3>1. /\ local'[q] = local[q] /\ report'[q] = report[q]
          /\ raising'[q] = raising[q] /\ temp'[q] = temp[q]
          /\ pc'[q] = pc[q] /\ index'[q] = index[q] /\ request'[q] = request[q]
          /\ Written(q)' = Written(q) /\ Approved(q)' = Approved(q)
      BY <1>1, StepKeepsBooks
    <3>2. Ledger(q) /\ TempAtWork(q)
      BY DEF LedgersBalance, TempsAtWork
    <3> QED
      BY <3>1, <3>2 DEF Ledger, TempAtWork
  <2>3. TempAtWork(r)'
    <3>1. TempAtWork(r)
      BY DEF TempsAtWork
    <3> QED
      BY <1>1, <3>1 DEF TempAtWork, Step, Crash, Return, Deny, Refuse, Accept, Acquire,
           LockBusy, ReadPreimage, RejectPreimage, WriteApproval, ApprovalFails, WriteTemp,
           TempFails, Recheck, RecheckFails, Link, Replace, Install, CommitFails, Sync,
           SyncFails, Unlink, Release, ReleaseRaising, ReleaseFails, Raise, Goto, TypeOK, store
  <2> QED
    BY <2>1, <2>2, <2>3 DEF LedgersBalance, TempsAtWork
<1>2. ASSUME NEW t \in Targets, ResolveStaleLock(t) \/ ForeignWrite(t)
      PROVE  LedgersBalance' /\ TempsAtWork'
  <2>1. UNCHANGED <<local, report, raising, temp, pc, index, request, writes, approvals>>
    BY <1>2 DEF ResolveStaleLock, ForeignWrite, store
  <2>2. LedgersBalance'
    BY <2>1 DEF LedgersBalance, Ledger, Written, Approved
  <2>3. TempsAtWork'
    BY <2>1 DEF TempsAtWork, TempAtWork
  <2> QED
    BY <2>2, <2>3
<1>3. CASE UNCHANGED vars
  BY <1>3 DEF vars, store, LedgersBalance, Ledger, TempsAtWork, TempAtWork, Written, Approved
<1> QED
  BY <1>1, <1>2, <1>3 DEF Next

LEMMA LedgerInvariance == Spec => [](LedgersBalance /\ TempsAtWork)
<1>1. Init => LedgersBalance /\ TempsAtWork
  BY DEF Init, Nothing, Lists, LedgersBalance, Ledger, TempsAtWork, TempAtWork, Written,
         Approved
<1> QED
  BY <1>1, LedgerNext, Typing, PTL DEF Spec

\* The lists that execute_approved_mutations returns to Harness.run are what the run
\* did: the changes it wrote, the approvals on disk, a denial for each of the others.
THEOREM ExactReport == Spec => []ReturnedReportIsExact
<1>1. ASSUME TypeOK, LedgersBalance PROVE ReturnedReportIsExact
  <2>1. ASSUME NEW r \in Runs, pc[r] = "done"
        PROVE  /\ report[r].applied = Written(r) /\ report[r].approved = Approved(r)
               /\ report[r].denied = 1..Len(request[r].changes) \ report[r].applied
    <3>1. /\ report[r] = local[r] /\ index[r] = Len(request[r].changes) + 1
          /\ local[r].applied \union local[r].denied = 1..(index[r] - 1)
          /\ local[r].applied \intersect local[r].denied = {}
          /\ Written(r) = local[r].applied /\ Approved(r) = local[r].approved
      <4>1. Ledger(r)
        BY <1>1 DEF LedgersBalance
      <4>2. /\ pc[r] \notin {"unlink", "release", "failed", "crashed"}
            /\ pc[r] \notin {"sync", "unlink", "release"}
        BY <2>1
      <4> QED
        BY <2>1, <4>1, <4>2 DEF Ledger
    <3>2. Len(request[r].changes) \in Nat
      BY <1>1, RequestAssumption DEF TypeOK
    <3>3. local[r].applied \union local[r].denied = 1..Len(request[r].changes)
      BY <3>1, <3>2
    <3> QED
      BY <3>1, <3>3
  <2> QED
    BY <2>1 DEF ReturnedReportIsExact, Written, Approved
<1> QED
  BY <1>1, LedgerInvariance, Typing, PTL

\* write_temp_text and the finally clause of _write_mutation_content: a run that was
\* not killed leaves no temporary file behind, whatever failed.
THEOREM TempsRemoved == Spec => []NoTempLeft
<1>1. TempsAtWork => NoTempLeft
  BY DEF TempsAtWork, TempAtWork, NoTempLeft
<1> QED
  BY <1>1, LedgerInvariance, PTL
===============================================================================
