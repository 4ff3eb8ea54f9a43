---------------------------- MODULE SchedulerProofs ----------------------------
(***************************************************************************)
(* What holds of the admission records for any number of commands and      *)
(* workspaces, with or without failing record accesses and kills, although *)
(* every record is read and rewritten as a whole and nothing is locked.    *)
(***************************************************************************)
EXTENDS Scheduler, TLAPS

Marking == {"mark", "rewrite"}
Admitted == {"run", "load", "settle"}

\* A record on disk is its command's own, whoever rewrote it last: only a
\* background command has one that waits, and it ended when it was written.
RecordIsOwn(c) == records[c] # None =>
    /\ records[c].workspace = workspace[c]
    /\ records[c].priority = priority[c]
    /\ records[c].status \in Deferred <=> priority[c] = "background"
    /\ priority[c] = "background" => pc[c] \in Ended /\ outcome[c] = None

\* How far a command is tells what it has written, and how its run ended.
Stage(c) ==
    /\ pc[c] \in {"start"} \union Marking => records[c] = None
    /\ pc[c] = "start" => preempted[c] = {}
    /\ pc[c] \in Marking \union Admitted => priority[c] = "foreground"
    /\ pc[c] \in {"start"} \union Marking \union {"run"} => outcome[c] = None
    /\ pc[c] \in Admitted => StatusOf(c) = "accepted"
    /\ pc[c] \in {"load", "settle"} => outcome[c] # None
    /\ pc[c] = "settle" => loaded[c] = records[c]
    /\ outcome[c] # None => priority[c] = "foreground" /\ records[c] # None

\* The record that is about to be rewritten is still the deferred one that was
\* read, but for the mark that another command may have left on it meanwhile.
InHand(c) == pc[c] = "rewrite" =>
    /\ at[c] \in seen[c] \ queue[c]
    /\ priority[at[c]] = "background" /\ workspace[at[c]] = workspace[c]
    /\ records[at[c]] # None /\ loaded[c] # None
    /\ loaded[c].workspace = records[at[c]].workspace
    /\ loaded[c].priority = records[at[c]].priority
    /\ loaded[c].preempted = records[at[c]].preempted

\* The background tasks of c's workspace that c has seen and gone past.
Passed(c) ==
    {b \in seen[c] \ queue[c] : priority[b] = "background" /\ workspace[b] = workspace[c]}

\* The walk over the records: what is behind is marked, in memory and on disk.
WalkIsMarked(c) ==
    /\ queue[c] \subseteq seen[c] /\ seen[c] \subseteq OnDisk
    /\ pc[c] = "mark" => preempted[c] = Passed(c)
    /\ pc[c] = "rewrite" => preempted[c] = Passed(c) \ {at[c]}
    /\ pc[c] \in Marking => \A b \in preempted[c] : StatusOf(b) = "preemptible_deferred"

\* The admission record keeps what the walk found.
AdmissionIsKept(c) == records[c] # None /\ priority[c] = "foreground" =>
    /\ records[c].preempted =
         {b \in seen[c] : priority[b] = "background" /\ workspace[b] = workspace[c]}
    /\ \A b \in records[c].preempted : StatusOf(b) = "preemptible_deferred"

\* The outcome and the record of who settled, or did not.
Settling(c) ==
    /\ StatusOf(c) = "completed" => outcome[c] \in Returned
    /\ StatusOf(c) = "failed" => outcome[c] \in Raised
    /\ StatusOf(c) \in Settled => pc[c] \in Ended
    /\ StatusOf(c) = "accepted" /\ pc[c] \in Ended => pc[c] = "killed" \/ faulty[c]

Inv(c) ==
    /\ RecordIsOwn(c) /\ Stage(c) /\ InHand(c)
    /\ WalkIsMarked(c) /\ AdmissionIsKept(c) /\ Settling(c)
IInv == \A c \in Commands : Inv(c)
-------------------------------------------------------------------------------
LEMMA InitHolds == Init => TypeOK /\ IInv
<1> SUFFICES ASSUME Init PROVE TypeOK /\ IInv
    OBVIOUS
<1>1. TypeOK
    BY DEF Init, TypeOK, PCs, OnDisk
<1>2. ASSUME NEW c \in Commands PROVE Inv(c)
  <2>1. /\ records[c] = None /\ StatusOf(c) = None /\ pc[c] = "start"
        /\ outcome[c] = None /\ queue[c] = {} /\ preempted[c] = {} /\ seen[c] = {}
      BY <1>2 DEF Init, StatusOf
  <2>2. StatusOf(c) \notin {"accepted", "completed", "failed"}
      BY <2>1, NoneAssumption DEF Settled
  <2> QED
      BY <2>1, <2>2
         DEF Inv, RecordIsOwn, Stage, InHand, WalkIsMarked, AdmissionIsKept, Settling,
             Ended, Marking, Admitted, Settled, OnDisk
<1> QED
    BY <1>1, <1>2 DEF IInv

\* What a write of a record can do, whether it returns or raises.
LEMMA WriteEffect ==
    ASSUME TypeOK, NEW c \in Commands, NEW b \in Commands, NEW record \in Records,
           NEW next \in PCs, Write(c, b, record, next)
    PROVE  /\ records' \in [Commands -> Records \union {None}]
           /\ records' = records \/ records' = [records EXCEPT ![b] = record]
           /\ pc' \in [Commands -> PCs]
           /\ \/ pc' = [pc EXCEPT ![c] = next] /\ faulty' = faulty
                 /\ records' = [records EXCEPT ![b] = record]
              \/ pc' = [pc EXCEPT ![c] = "exit nonzero"] /\ faulty' = [faulty EXCEPT ![c] = TRUE]
           /\ faulty' \in [Commands -> BOOLEAN]
           /\ seen' = seen
           /\ OnDisk \subseteq OnDisk'
<1>1. \/ pc' = [pc EXCEPT ![c] = next] /\ faulty' = faulty
         /\ records' = [records EXCEPT ![b] = record]
      \/ /\ pc' = [pc EXCEPT ![c] = "exit nonzero"] /\ faulty' = [faulty EXCEPT ![c] = TRUE]
         /\ records' = records \/ records' = [records EXCEPT ![b] = record]
    BY DEF Write, Goto, history
<1>2. seen' = seen
    BY DEF Write, history
<1>3. "exit nonzero" \in PCs
    BY DEF PCs, Ended
<1>4. records' \in [Commands -> Records \union {None}] /\ pc' \in [Commands -> PCs]
  <2>1. records \in [Commands -> Records \union {None}] /\ pc \in [Commands -> PCs]
      BY DEF TypeOK
  <2>2. pc' \in [Commands -> PCs]
      BY <1>1, <1>3, <2>1
  <2>3. records' = records \/ records' = [records EXCEPT ![b] = record]
      BY <1>1
  <2> QED
      BY <2>1, <2>2, <2>3
<1>5. faulty' \in [Commands -> BOOLEAN]
    BY <1>1 DEF TypeOK
<1>6. OnDisk \subseteq OnDisk'
  <2>1. record # None
      BY NoneAssumption
  <2>2. \A d \in Commands : records'[d] = records[d] \/ records'[d] = record
      BY <1>1 DEF TypeOK
  <2> QED
      BY <2>1, <2>2 DEF OnDisk
<1> QED
    BY <1>1, <1>2, <1>4, <1>5, <1>6

\* The records that the program writes are records.
LEMMA RecordType ==
    ASSUME TypeOK, NEW c \in Commands,
           NEW status \in Deferred \union {"accepted"} \union Settled
    PROVE  Record(c, status) \in Records
BY DEF TypeOK, Record, Records

LEMMA LoadedType ==
    ASSUME TypeOK, NEW c \in Commands, loaded[c] # None,
           NEW status \in Deferred \union {"accepted"} \union Settled
    PROVE  /\ loaded[c] \in Records
           /\ [loaded[c] EXCEPT !.status = status] \in Records
BY DEF TypeOK, Records

LEMMA TypeNext == TypeOK /\ IInv /\ [Next]_vars => TypeOK'
<1> SUFFICES ASSUME TypeOK, IInv, [Next]_vars PROVE TypeOK'
    OBVIOUS
<1> USE DEF input, history
<1>1. ASSUME NEW c \in Commands, DeferBackground(c) PROVE TypeOK'
  <2>1. Record(c, "deferred") \in Records /\ "exit 0" \in PCs
      BY RecordType DEF Deferred, PCs, Ended
  <2> QED
      BY <1>1, <2>1, WriteEffect DEF DeferBackground, TypeOK
<1>2. ASSUME NEW c \in Commands, ListRecords(c) PROVE TypeOK'
    BY <1>2 DEF ListRecords, TypeOK, Goto, PCs, OnDisk
<1>3. ASSUME NEW c \in Commands, ReadRecord(c) PROVE TypeOK'
  <2>1. PICK b \in queue[c] :
          /\ queue' = [queue EXCEPT ![c] = @ \ {b}]
          /\ at' = at \/ at' = [at EXCEPT ![c] = b]
          /\ loaded' = loaded \/ loaded' = [loaded EXCEPT ![c] = records[b]]
          /\ pc' = pc \/ pc' = [pc EXCEPT ![c] = "rewrite"]
      BY <1>3 DEF ReadRecord, Goto
  <2>2. b \in Commands /\ "rewrite" \in PCs
      BY <2>1 DEF TypeOK, PCs
  <2>3. queue' \in [Commands -> SUBSET Commands] /\ \A d \in Commands : queue'[d] \subseteq queue[d]
      BY <2>1 DEF TypeOK
  <2>4. /\ at' \in [Commands -> Commands] /\ loaded' \in [Commands -> Records \union {None}]
        /\ pc' \in [Commands -> PCs]
      BY <2>1, <2>2 DEF TypeOK
  <2> QED
      BY <1>3, <2>3, <2>4 DEF ReadRecord, TypeOK, OnDisk
<1>4. ASSUME NEW c \in Commands, MarkRecord(c) PROVE TypeOK'
  <2>1. at[c] \in Commands /\ loaded[c] # None
      BY <1>4 DEF MarkRecord, TypeOK, IInv, Inv, InHand
  <2>2. [loaded[c] EXCEPT !.status = "preemptible_deferred"] \in Records /\ "mark" \in PCs
      BY <2>1, LoadedType DEF Deferred, PCs
  <2>3. /\ Write(c, at[c], [loaded[c] EXCEPT !.status = "preemptible_deferred"], "mark")
        /\ preempted' = [preempted EXCEPT ![c] = @ \union {at[c]}]
        /\ UNCHANGED <<priority, workspace, queue, at, loaded, outcome>>
      BY <1>4 DEF MarkRecord
  <2>4. /\ records' \in [Commands -> Records \union {None}] /\ pc' \in [Commands -> PCs]
        /\ faulty' \in [Commands -> BOOLEAN] /\ seen' = seen /\ OnDisk \subseteq OnDisk'
      BY <2>1, <2>2, <2>3, WriteEffect
  <2>5. preempted' \in [Commands -> SUBSET Commands]
      BY <2>1, <2>3 DEF TypeOK
  <2> QED
      BY <2>3, <2>4, <2>5 DEF TypeOK
<1>5. ASSUME NEW c \in Commands, Admit(c) PROVE TypeOK'
  <2>1. Record(c, "accepted") \in Records /\ "run" \in PCs
      BY RecordType DEF PCs
  <2> QED
      BY <1>5, <2>1, WriteEffect DEF Admit, TypeOK
<1>6. ASSUME NEW c \in Commands, RunHarness(c) PROVE TypeOK'
    BY <1>6 DEF RunHarness, TypeOK, Goto, PCs, OnDisk
<1>7. ASSUME NEW c \in Commands, Load(c) PROVE TypeOK'
    BY <1>7 DEF Load, TypeOK, Goto, PCs, OnDisk
<1>8. ASSUME NEW c \in Commands, Settle(c) PROVE TypeOK'
  <2>1. loaded[c] # None
      BY <1>8, NoneAssumption DEF Settle, IInv, Inv, Stage, Admitted, StatusOf
  <2>2. /\ [loaded[c] EXCEPT !.status = "completed"] \in Records
        /\ [loaded[c] EXCEPT !.status = "failed"] \in Records
        /\ {"exit 0", "exit nonzero"} \subseteq PCs
      BY <2>1, LoadedType DEF Settled, PCs, Ended
  <2> QED
      BY <1>8, <2>2, WriteEffect DEF Settle, TypeOK
<1>9. ASSUME NEW c \in Commands, SchedulerFails(c) PROVE TypeOK'
    BY <1>9 DEF SchedulerFails, TypeOK, Goto, PCs, Ended, OnDisk
<1>10. ASSUME NEW c \in Commands, Kill(c) PROVE TypeOK'
    BY <1>10 DEF Kill, TypeOK, Goto, PCs, Ended, OnDisk
<1>11. CASE UNCHANGED vars
    BY <1>11 DEF vars, TypeOK, OnDisk
<1> QED
    BY <1>1, <1>2, <1>3, <1>4, <1>5, <1>6, <1>7, <1>8, <1>9, <1>10, <1>11 DEF Next, Step
-------------------------------------------------------------------------------
(* A record that is there only ever changes its status; one that is marked     *)
(* stays so.                                                                   *)

Grows(b) == records[b] # None =>
    /\ records'[b] # None
    /\ records'[b].workspace = records[b].workspace
    /\ records'[b].priority = records[b].priority
    /\ records'[b].preempted = records[b].preempted
    /\ records[b].status = "preemptible_deferred" => records'[b].status = "preemptible_deferred"

\* All that anybody else does to d's record is to mark it.
OnlyMarked(d) ==
    \/ records'[d] = records[d]
    \/ /\ records[d] # None /\ priority[d] = "background"
       /\ records'[d] = [records[d] EXCEPT !.status = "preemptible_deferred"]

LocalsKept(d) ==
    /\ pc'[d] = pc[d] /\ queue'[d] = queue[d] /\ at'[d] = at[d] /\ loaded'[d] = loaded[d]
    /\ preempted'[d] = preempted[d] /\ outcome'[d] = outcome[d]
    /\ seen'[d] = seen[d] /\ faulty'[d] = faulty[d]

\* What others do to a command's record and to those it has seen keeps its part
\* of the invariant.
LEMMA Bystander ==
    ASSUME TypeOK, NEW d \in Commands, Inv(d), UNCHANGED input,
           \A b \in Commands : Grows(b), OnlyMarked(d), LocalsKept(d)
    PROVE  Inv(d)'
<1> USE DEF input, LocalsKept
<1>1. seen[d] \subseteq Commands /\ queue[d] \subseteq Commands /\ at[d] \in Commands
    BY DEF TypeOK
<1>2. records[d] \in Records \union {None}
    BY DEF TypeOK
<1>3. \/ records'[d] = records[d]
      \/ /\ records[d] # None /\ records'[d] # None /\ priority[d] = "background"
         /\ records'[d].status = "preemptible_deferred"
    BY <1>2, NoneAssumption DEF OnlyMarked, Records, Grows
<1>4. RecordIsOwn(d)'
    BY <1>3 DEF Inv, RecordIsOwn, Grows, Deferred
<1>5. Stage(d)'
  <2>1. priority[d] = "background" /\ records[d] # None =>
            pc[d] \in Ended /\ outcome[d] = None
      BY DEF Inv, RecordIsOwn
  <2> QED
      BY <1>3, <2>1 DEF Inv, Stage, StatusOf, Ended, Marking, Admitted
<1>6. InHand(d)'
    BY <1>1 DEF Inv, InHand, Grows
<1>7. Passed(d)' = Passed(d)
    BY DEF Passed
<1>8. \A b \in Commands : StatusOf(b) = "preemptible_deferred" =>
                          StatusOf(b)' = "preemptible_deferred"
    BY NoneAssumption DEF Grows, StatusOf, Deferred
<1>9. WalkIsMarked(d)'
  <2>1. OnDisk \subseteq OnDisk'
      BY DEF OnDisk, Grows
  <2>2. preempted[d] \subseteq Commands
      BY DEF TypeOK
  <2> QED
      BY <1>1, <1>7, <1>8, <2>1, <2>2 DEF Inv, WalkIsMarked
<1>10. AdmissionIsKept(d)'
  <2> SUFFICES ASSUME records'[d] # None, priority[d] = "foreground"
               PROVE  /\ records'[d].preempted =
                           {b \in seen[d] : priority[b] = "background" /\ workspace[b] = workspace[d]}
                      /\ \A b \in records'[d].preempted : StatusOf(b)' = "preemptible_deferred"
      BY DEF AdmissionIsKept
  <2>1. records'[d] = records[d]
      BY <1>3
  <2> QED
      BY <1>1, <1>8, <2>1 DEF Inv, AdmissionIsKept
<1>11. Settling(d)'
  <2>1. StatusOf(d)' = StatusOf(d) \/ StatusOf(d)' \notin Settled \union {"accepted"}
      BY <1>3 DEF StatusOf, Settled
  <2> QED
      BY <2>1 DEF Inv, Settling, Settled
<1> QED
    BY <1>4, <1>5, <1>6, <1>9, <1>10, <1>11 DEF Inv

\* No record changes in a step that leaves the records alone.
LEMMA RecordsKept ==
    ASSUME UNCHANGED records
    PROVE  \A d \in Commands : Grows(d) /\ OnlyMarked(d)
BY DEF Grows, OnlyMarked

\* A command's first record is nobody else's business.
LEMMA FirstRecord ==
    ASSUME TypeOK, NEW c \in Commands, records[c] = None, NEW record \in Records,
           records' = records \/ records' = [records EXCEPT ![c] = record]
    PROVE  /\ \A b \in Commands : Grows(b)
           /\ \A d \in Commands \ {c} : OnlyMarked(d)
BY DEF TypeOK, Grows, OnlyMarked

\* What remains of the invariant is that of the command that took the step.
LEMMA OthersKept ==
    ASSUME TypeOK, IInv, NEW c \in Commands, UNCHANGED input,
           \A b \in Commands : Grows(b),
           \A d \in Commands \ {c} : OnlyMarked(d) /\ LocalsKept(d),
           Inv(c)'
    PROVE  IInv'
<1>1. ASSUME NEW d \in Commands PROVE Inv(d)'
  <2>1. CASE d = c
      BY <2>1
  <2>2. CASE d # c
      BY <2>2, Bystander DEF IInv
  <2> QED
      BY <2>1, <2>2
<1> QED
    BY <1>1 DEF IInv, input

LEMMA DeferStep == ASSUME TypeOK, IInv, NEW c \in Commands, DeferBackground(c) PROVE IInv'
<1>0. UNCHANGED <<priority, workspace, queue, at, loaded, preempted, outcome>>
    BY DEF DeferBackground, input
<1>1. /\ pc[c] = "start" /\ priority[c] = "background" /\ records[c] = None
      /\ outcome[c] = None /\ preempted[c] = {}
    BY DEF DeferBackground, IInv, Inv, Stage
<1>2. Record(c, "deferred") \in Records /\ "exit 0" \in PCs
    BY RecordType DEF Deferred, PCs, Ended
<1>3. /\ records' = records \/ records' = [records EXCEPT ![c] = Record(c, "deferred")]
      /\ pc' = [pc EXCEPT ![c] = "exit 0"] \/ pc' = [pc EXCEPT ![c] = "exit nonzero"]
      /\ faulty' = faulty \/ faulty' = [faulty EXCEPT ![c] = TRUE]
      /\ seen' = seen
  <2>1. Write(c, c, Record(c, "deferred"), "exit 0")
      BY DEF DeferBackground
  <2>2. /\ records' = records \/ records' = [records EXCEPT ![c] = Record(c, "deferred")]
        /\ seen' = seen
        /\ \/ pc' = [pc EXCEPT ![c] = "exit 0"] /\ faulty' = faulty
              /\ records' = [records EXCEPT ![c] = Record(c, "deferred")]
           \/ pc' = [pc EXCEPT ![c] = "exit nonzero"] /\ faulty' = [faulty EXCEPT ![c] = TRUE]
      BY <2>1 DEF Write, Goto, history
  <2> QED
      BY <2>2
<1>4. \A d \in Commands \ {c} : LocalsKept(d)
    BY <1>0, <1>3 DEF TypeOK, LocalsKept
<1>5. /\ \A b \in Commands : Grows(b)
      /\ \A d \in Commands \ {c} : OnlyMarked(d)
    BY <1>1, <1>2, <1>3, FirstRecord
<1>6. Inv(c)'
  <2>1. pc'[c] \in Ended /\ pc'[c] \notin {"start"} \union Marking \union Admitted
    <3>1. pc'[c] \in {"exit 0", "exit nonzero"}
        BY <1>3 DEF TypeOK
    <3> QED
        BY <3>1 DEF Ended, Marking, Admitted
  <2>2. records'[c] = None \/ records'[c] = Record(c, "deferred")
      BY <1>1, <1>3 DEF TypeOK
  <2>3. RecordIsOwn(c)'
      BY <1>0, <1>1, <2>1, <2>2 DEF RecordIsOwn, Record, Deferred
  <2>4. StatusOf(c)' \notin {"accepted"} \union Settled
      BY <2>2, NoneAssumption DEF StatusOf, Record, Settled
  <2>5. WalkIsMarked(c)'
    <3>1. OnDisk \subseteq OnDisk'
        BY <1>5 DEF OnDisk, Grows
    <3> QED
        BY <1>0, <1>3, <2>1, <3>1 DEF IInv, Inv, WalkIsMarked, Marking
  <2>6. Stage(c)' /\ InHand(c)'
      BY <1>0, <1>1, <2>1 DEF Stage, InHand, Marking, Admitted
  <2>7. AdmissionIsKept(c)' /\ Settling(c)'
      BY <1>0, <1>1, <2>4 DEF AdmissionIsKept, Settling, Settled
  <2> QED
      BY <2>3, <2>5, <2>6, <2>7 DEF Inv
<1> QED
    BY <1>0, <1>4, <1>5, <1>6, OthersKept DEF input

LEMMA ListStep == ASSUME TypeOK, IInv, NEW c \in Commands, ListRecords(c) PROVE IInv'
<1> USE DEF input
<1>1. \A d \in Commands : Grows(d) /\ OnlyMarked(d)
    BY RecordsKept DEF ListRecords
<1>2. \A d \in Commands \ {c} : LocalsKept(d)
    BY DEF ListRecords, TypeOK, LocalsKept, Goto
<1>3. Inv(c)'
  <2>1. /\ records[c] = None /\ preempted[c] = {} /\ outcome[c] = None
        /\ pc'[c] = "mark" /\ queue'[c] = OnDisk /\ seen'[c] = OnDisk
      BY DEF ListRecords, IInv, Inv, Stage, TypeOK, Goto
  <2>2. Passed(c)' = {} /\ OnDisk' = OnDisk
      BY <2>1 DEF Passed, ListRecords, OnDisk
  <2>3. StatusOf(c)' \notin {"accepted"} \union Settled
      BY <2>1, NoneAssumption DEF StatusOf, ListRecords, Settled
  <2> QED
      BY <2>1, <2>2, <2>3
         DEF ListRecords, Inv, RecordIsOwn, Stage, InHand, WalkIsMarked, AdmissionIsKept,
             Settling, Marking, Admitted, Settled
<1> QED
    BY <1>1, <1>2, <1>3, OthersKept DEF ListRecords

LEMMA ReadStep == ASSUME TypeOK, IInv, NEW c \in Commands, ReadRecord(c) PROVE IInv'
<1> USE DEF input, history
<1>1. \A d \in Commands : Grows(d) /\ OnlyMarked(d)
    BY RecordsKept DEF ReadRecord
<1>2. PICK b \in queue[c] :
        /\ queue' = [queue EXCEPT ![c] = @ \ {b}]
        /\ IF Preemptible(c, records[b])
           THEN /\ loaded' = [loaded EXCEPT ![c] = records[b]]
                /\ at' = [at EXCEPT ![c] = b]
                /\ pc' = [pc EXCEPT ![c] = "rewrite"]
           ELSE UNCHANGED <<loaded, at, pc>>
    BY DEF ReadRecord, Goto
<1>3. \A d \in Commands \ {c} : LocalsKept(d)
    BY <1>2 DEF ReadRecord, TypeOK, LocalsKept
<1>4. /\ b \in Commands /\ records[b] # None /\ b \in seen[c]
      /\ records[b].workspace = workspace[b] /\ records[b].priority = priority[b]
      /\ records[b].status \in Deferred <=> priority[b] = "background"
    BY DEF TypeOK, OnDisk, IInv, Inv, WalkIsMarked, RecordIsOwn
<1>5. /\ pc[c] = "mark" /\ records[c] = None /\ priority[c] = "foreground" /\ outcome[c] = None
      /\ preempted[c] = Passed(c) /\ queue[c] \subseteq seen[c] /\ seen[c] \subseteq OnDisk
      /\ \A q \in preempted[c] : StatusOf(q) = "preemptible_deferred"
    BY DEF ReadRecord, IInv, Inv, Stage, WalkIsMarked, Marking
<1>6. /\ queue'[c] = queue[c] \ {b} /\ preempted'[c] = preempted[c] /\ seen'[c] = seen[c]
      /\ records' = records
    BY <1>2 DEF ReadRecord, TypeOK
<1>7. /\ RecordIsOwn(c)' /\ AdmissionIsKept(c)' /\ Settling(c)'
  <2>1. StatusOf(c)' \notin {"accepted"} \union Settled
      BY <1>5, <1>6, NoneAssumption DEF StatusOf, Settled
  <2> QED
      BY <1>5, <1>6, <2>1 DEF RecordIsOwn, AdmissionIsKept, Settling, Settled
<1>8. CASE Preemptible(c, records[b])
  <2>1. /\ priority[b] = "background" /\ workspace[b] = workspace[c]
        /\ pc'[c] = "rewrite" /\ at'[c] = b /\ loaded'[c] = records[b]
      BY <1>2, <1>4, <1>8 DEF Preemptible, TypeOK
  <2>2. Passed(c)' = Passed(c) \union {b} /\ b \notin Passed(c)
      BY <1>4, <1>6, <2>1 DEF Passed, ReadRecord
  <2>3. WalkIsMarked(c)'
      BY <1>5, <1>6, <2>1, <2>2 DEF WalkIsMarked, OnDisk, StatusOf
  <2>4. InHand(c)'
      BY <1>4, <1>6, <2>1 DEF InHand, ReadRecord
  <2>5. Stage(c)'
      BY <1>5, <1>6, <2>1 DEF Stage, ReadRecord, Marking, Admitted
  <2> QED
      BY <1>1, <1>3, <1>7, <2>3, <2>4, <2>5, OthersKept DEF Inv, ReadRecord
<1>9. CASE ~Preemptible(c, records[b])
  <2>1. pc'[c] = "mark"
      BY <1>2, <1>5, <1>9
  <2>2. Passed(c)' = Passed(c)
    <3>1. ~(priority[b] = "background" /\ workspace[b] = workspace[c])
        BY <1>4, <1>9 DEF Preemptible
    <3> QED
        BY <1>6, <3>1 DEF Passed, ReadRecord
  <2>3. WalkIsMarked(c)'
      BY <1>5, <1>6, <2>1, <2>2 DEF WalkIsMarked, OnDisk, StatusOf
  <2>4. InHand(c)' /\ Stage(c)'
      BY <1>5, <1>6, <2>1 DEF InHand, Stage, ReadRecord, Marking, Admitted
  <2> QED
      BY <1>1, <1>3, <1>7, <2>3, <2>4, OthersKept DEF Inv, ReadRecord
<1> QED
    BY <1>8, <1>9

\* The rewritten record is the one on disk with its mark, whatever happened to it
\* since it was read: no status of a task is lost in the rewriting.
LEMMA MarkedRecord ==
    ASSUME TypeOK, IInv, NEW c \in Commands, pc[c] = "rewrite"
    PROVE  /\ at[c] \in Commands /\ at[c] # c
           /\ records[at[c]] \in Records /\ priority[at[c]] = "background"
           /\ [loaded[c] EXCEPT !.status = "preemptible_deferred"]
                = [records[at[c]] EXCEPT !.status = "preemptible_deferred"]
<1>1. /\ at[c] \in Commands /\ priority[at[c]] = "background"
      /\ records[at[c]] \in Records /\ loaded[c] \in Records
      /\ loaded[c].workspace = records[at[c]].workspace
      /\ loaded[c].priority = records[at[c]].priority
      /\ loaded[c].preempted = records[at[c]].preempted
    BY DEF TypeOK, IInv, Inv, InHand
<1>2. priority[c] = "foreground"
    BY DEF IInv, Inv, Stage, Marking
<1>3. [loaded[c] EXCEPT !.status = "preemptible_deferred"]
        = [records[at[c]] EXCEPT !.status = "preemptible_deferred"]
    BY <1>1 DEF Records
<1> QED
    BY <1>1, <1>2, <1>3

LEMMA MarkStep == ASSUME TypeOK, IInv, NEW c \in Commands, MarkRecord(c) PROVE IInv'
<1> DEFINE b == at[c]
           marked == [records[b] EXCEPT !.status = "preemptible_deferred"]
<1>0. /\ UNCHANGED <<priority, workspace, queue, at, loaded, outcome>>
      /\ preempted' = [preempted EXCEPT ![c] = @ \union {b}] /\ pc[c] = "rewrite"
    BY DEF MarkRecord, input
<1>1. /\ b \in Commands /\ b # c /\ records[b] \in Records /\ priority[b] = "background"
      /\ [loaded[c] EXCEPT !.status = "preemptible_deferred"] = marked
    BY <1>0, MarkedRecord
<1>2. /\ seen' = seen
      /\ \/ /\ pc' = [pc EXCEPT ![c] = "mark"] /\ faulty' = faulty
            /\ records' = [records EXCEPT ![b] = marked]
         \/ /\ pc' = [pc EXCEPT ![c] = "exit nonzero"] /\ faulty' = [faulty EXCEPT ![c] = TRUE]
            /\ records' = records \/ records' = [records EXCEPT ![b] = marked]
    BY <1>1 DEF MarkRecord, Write, Goto, history
<1>3. \A d \in Commands \ {c} : LocalsKept(d)
  <2>1. \A d \in Commands \ {c} : pc'[d] = pc[d] /\ faulty'[d] = faulty[d]
      BY <1>2 DEF TypeOK
  <2>2. \A d \in Commands \ {c} : preempted'[d] = preempted[d]
      BY <1>0 DEF TypeOK
  <2> QED
      BY <1>0, <1>2, <2>1, <2>2 DEF LocalsKept
<1>4. marked \in Records /\ marked # None /\ records[b] # None
  <2>1. marked \in Records
      BY <1>1 DEF Records, Deferred
  <2> QED
      BY <1>1, <2>1, NoneAssumption
<1>5. \A d \in Commands : Grows(d) /\ OnlyMarked(d)
  <2>1. /\ marked.workspace = records[b].workspace /\ marked.priority = records[b].priority
        /\ marked.preempted = records[b].preempted /\ marked.status = "preemptible_deferred"
      BY <1>1 DEF Records
  <2>2. CASE records' = records
      BY <2>2, RecordsKept
  <2>3. CASE records' = [records EXCEPT ![b] = marked]
      BY <1>1, <1>4, <2>1, <2>3 DEF TypeOK, Grows, OnlyMarked
  <2> QED
      BY <1>2, <2>2, <2>3
<1>6. /\ records[c] = None /\ priority[c] = "foreground" /\ outcome[c] = None
      /\ queue[c] \subseteq seen[c] /\ seen[c] \subseteq OnDisk
      /\ b \in seen[c] \ queue[c] /\ workspace[b] = workspace[c]
      /\ preempted[c] = Passed(c) \ {b}
      /\ \A q \in preempted[c] : StatusOf(q) = "preemptible_deferred"
    BY <1>0 DEF IInv, Inv, Stage, InHand, WalkIsMarked, Marking
<1>7. records'[c] = None
  <2>1. records' = records \/ records' = [records EXCEPT ![b] = marked]
      BY <1>2
  <2> HIDE DEF marked
  <2> QED
      BY <1>1, <1>6, <2>1 DEF TypeOK
<1>8. preempted'[c] = Passed(c) /\ Passed(c)' = Passed(c)
  <2>1. b \in Passed(c)
      BY <1>1, <1>6 DEF Passed
  <2>2. preempted'[c] = preempted[c] \union {b}
      BY <1>0 DEF TypeOK
  <2>3. Passed(c)' = Passed(c)
      BY <1>0, <1>2 DEF Passed
  <2> QED
      BY <1>6, <2>1, <2>2, <2>3
<1>9. OnDisk \subseteq OnDisk'
    BY <1>5 DEF OnDisk, Grows
<1>10. RecordIsOwn(c)' /\ AdmissionIsKept(c)' /\ Settling(c)'
  <2>1. StatusOf(c)' \notin {"accepted"} \union Settled
      BY <1>7, NoneAssumption DEF StatusOf, Settled
  <2> QED
      BY <1>7, <2>1 DEF RecordIsOwn, AdmissionIsKept, Settling, Settled
<1>11. CASE pc' = [pc EXCEPT ![c] = "mark"] /\ records' = [records EXCEPT ![b] = marked]
  <2>1. pc'[c] = "mark"
      BY <1>11 DEF TypeOK
  <2>2. \A q \in Passed(c) : StatusOf(q)' = "preemptible_deferred"
    <3>1. ASSUME NEW q \in {b} PROVE StatusOf(q)' = "preemptible_deferred"
      <4>1. records'[q] = marked
          BY <1>1, <1>11 DEF TypeOK
      <4>2. marked.status = "preemptible_deferred"
          BY <1>1 DEF Records
      <4> QED
          BY <1>4, <4>1, <4>2 DEF StatusOf
    <3>2. \A q \in Passed(c) \ {b} : StatusOf(q)' = "preemptible_deferred"
      <4>1. \A q \in Passed(c) \ {b} : q \in Commands /\ records'[q] = records[q]
          BY <1>11 DEF TypeOK, Passed
      <4> QED
          BY <1>6, <4>1 DEF StatusOf
    <3> QED
        BY <3>1, <3>2
  <2>3. WalkIsMarked(c)'
      BY <1>0, <1>2, <1>6, <1>8, <1>9, <2>1, <2>2 DEF WalkIsMarked
  <2>4. Stage(c)' /\ InHand(c)'
      BY <1>0, <1>6, <1>7, <2>1 DEF Stage, InHand, Marking, Admitted
  <2> QED
      BY <1>0, <1>3, <1>5, <1>10, <2>3, <2>4, OthersKept DEF Inv, input
<1>12. CASE pc' = [pc EXCEPT ![c] = "exit nonzero"]
  <2>1. pc'[c] = "exit nonzero"
      BY <1>12 DEF TypeOK
  <2>2. WalkIsMarked(c)'
      BY <1>0, <1>2, <1>6, <1>9, <2>1 DEF WalkIsMarked, Marking
  <2>3. Stage(c)' /\ InHand(c)'
      BY <1>0, <1>6, <1>7, <2>1 DEF Stage, InHand, Marking, Admitted
  <2> QED
      BY <1>0, <1>3, <1>5, <1>10, <2>2, <2>3, OthersKept DEF Inv, input
<1> QED
    BY <1>2, <1>11, <1>12

LEMMA AdmitStep == ASSUME TypeOK, IInv, NEW c \in Commands, Admit(c) PROVE IInv'
<1> DEFINE record == Record(c, "accepted")
<1>0. /\ UNCHANGED <<priority, workspace, queue, at, loaded, preempted, outcome>>
      /\ pc[c] = "mark" /\ queue[c] = {}
    BY DEF Admit, input
<1>1. /\ seen' = seen
      /\ \/ /\ pc' = [pc EXCEPT ![c] = "run"] /\ faulty' = faulty
            /\ records' = [records EXCEPT ![c] = record]
         \/ /\ pc' = [pc EXCEPT ![c] = "exit nonzero"] /\ faulty' = [faulty EXCEPT ![c] = TRUE]
            /\ records' = records \/ records' = [records EXCEPT ![c] = record]
    BY DEF Admit, Write, Goto, history
<1>2. /\ records[c] = None /\ priority[c] = "foreground" /\ outcome[c] = None
      /\ queue[c] \subseteq seen[c] /\ seen[c] \subseteq OnDisk /\ preempted[c] = Passed(c)
      /\ \A q \in preempted[c] : StatusOf(q) = "preemptible_deferred"
    BY <1>0 DEF IInv, Inv, Stage, WalkIsMarked, Marking
<1>3. record \in Records /\ record # None
    BY RecordType, NoneAssumption
<1>4. /\ record.workspace = workspace[c] /\ record.priority = priority[c]
      /\ record.preempted = preempted[c] /\ record.status = "accepted"
    BY DEF Record
<1>5. \A d \in Commands \ {c} : LocalsKept(d)
    BY <1>0, <1>1 DEF TypeOK, LocalsKept
<1>6. /\ \A b \in Commands : Grows(b)
      /\ \A d \in Commands \ {c} : OnlyMarked(d)
    BY <1>1, <1>2, <1>3, FirstRecord
<1>7. /\ records'[c] = record \/ (records'[c] = None /\ pc'[c] = "exit nonzero")
      /\ \/ pc'[c] = "run" /\ records'[c] = record
         \/ pc'[c] = "exit nonzero" /\ faulty'[c]
    BY <1>1, <1>2 DEF TypeOK
<1>8. RecordIsOwn(c)'
    BY <1>0, <1>2, <1>4, <1>7 DEF RecordIsOwn, Deferred
<1>9. \/ StatusOf(c)' = "accepted" /\ (pc'[c] = "run" \/ (pc'[c] = "exit nonzero" /\ faulty'[c]))
      \/ StatusOf(c)' = None /\ pc'[c] = "exit nonzero"
    BY <1>3, <1>4, <1>7 DEF StatusOf
<1>10. Settling(c)'
    BY <1>9, NoneAssumption DEF Settling, Settled, Ended
<1>11. Stage(c)' /\ InHand(c)'
    BY <1>0, <1>2, <1>7, <1>9 DEF Stage, InHand, Marking, Admitted
<1>12. WalkIsMarked(c)'
  <2>1. OnDisk \subseteq OnDisk'
      BY <1>6 DEF OnDisk, Grows
  <2> QED
      BY <1>0, <1>1, <1>2, <1>7, <2>1 DEF WalkIsMarked, Marking
<1>13. AdmissionIsKept(c)'
  <2> SUFFICES ASSUME records'[c] # None
               PROVE  /\ records'[c].preempted =
                           {b \in seen[c] : priority[b] = "background" /\ workspace[b] = workspace[c]}
                      /\ \A b \in records'[c].preempted : StatusOf(b)' = "preemptible_deferred"
      BY <1>0, <1>1 DEF AdmissionIsKept
  <2>1. records'[c].preempted = Passed(c)
      BY <1>2, <1>4, <1>7
  <2>2. Passed(c) = {b \in seen[c] : priority[b] = "background" /\ workspace[b] = workspace[c]}
      BY <1>0 DEF Passed
  <2>3. \A b \in Passed(c) : b \in Commands /\ b # c /\ records'[b] = records[b]
      BY <1>1, <1>2 DEF Passed, TypeOK
  <2> QED
      BY <1>2, <2>1, <2>2, <2>3 DEF StatusOf
<1> QED
    BY <1>0, <1>5, <1>6, <1>8, <1>10, <1>11, <1>12, <1>13, OthersKept DEF Inv, input

\* Steps that write no record: what they change is where c is and what it holds.
LEMMA SilentStep ==
    ASSUME TypeOK, IInv, NEW c \in Commands, UNCHANGED <<records, input, queue, preempted, seen>>,
           \A d \in Commands \ {c} : LocalsKept(d),
           pc'[c] \notin {"start"} \union Marking,
           Stage(c)', Settling(c)',
           priority[c] = "background" /\ records[c] # None => pc'[c] \in Ended /\ outcome'[c] = None
    PROVE  IInv'
<1> USE DEF input
<1>1. \A d \in Commands : Grows(d) /\ OnlyMarked(d)
    BY RecordsKept
<1>2. Inv(c)
    BY DEF IInv
<1>3. RecordIsOwn(c)' /\ AdmissionIsKept(c)'
    BY <1>2 DEF Inv, RecordIsOwn, AdmissionIsKept, StatusOf
<1>4. WalkIsMarked(c)' /\ InHand(c)'
    BY <1>2 DEF Inv, WalkIsMarked, InHand, OnDisk, Marking
<1> QED
    BY <1>1, <1>3, <1>4, OthersKept DEF Inv

LEMMA RunStep == ASSUME TypeOK, IInv, NEW c \in Commands, RunHarness(c) PROVE IInv'
<1>1. /\ UNCHANGED <<records, input, queue, preempted, seen, faulty, loaded>>
      /\ pc[c] = "run" /\ pc'[c] = "load" /\ outcome'[c] \in Returned \union Raised
      /\ \A d \in Commands \ {c} : LocalsKept(d)
    BY DEF RunHarness, TypeOK, LocalsKept, Goto, history
<1>2. StatusOf(c) = "accepted" /\ priority[c] = "foreground" /\ records[c] # None
    BY <1>1, NoneAssumption DEF IInv, Inv, Stage, Admitted, StatusOf
<1>3. Stage(c)' /\ Settling(c)'
    BY <1>1, <1>2, NoneAssumption
       DEF Stage, Settling, StatusOf, Ended, Settled, Marking, Admitted, input
<1> QED
    BY <1>1, <1>2, <1>3, SilentStep DEF Marking

LEMMA LoadStep == ASSUME TypeOK, IInv, NEW c \in Commands, Load(c) PROVE IInv'
<1>1. /\ UNCHANGED <<records, input, queue, preempted, seen, faulty, outcome>>
      /\ pc[c] = "load" /\ pc'[c] = "settle" /\ loaded'[c] = records[c]
      /\ \A d \in Commands \ {c} : LocalsKept(d)
    BY DEF Load, TypeOK, LocalsKept, Goto, history
<1>2. StatusOf(c) = "accepted" /\ priority[c] = "foreground" /\ records[c] # None /\ outcome[c] # None
    BY <1>1, NoneAssumption DEF IInv, Inv, Stage, Admitted, StatusOf
<1>3. Stage(c)' /\ Settling(c)'
    BY <1>1, <1>2 DEF Stage, Settling, StatusOf, Ended, Settled, Marking, Admitted, input
<1> QED
    BY <1>1, <1>2, <1>3, SilentStep DEF Marking

LEMMA EndStep ==
    ASSUME TypeOK, IInv, NEW c \in Commands, SchedulerFails(c) \/ Kill(c)
    PROVE  IInv'
<1>1. /\ UNCHANGED <<records, input, queue, preempted, seen, loaded, outcome>>
      /\ pc'[c] = "killed" \/ (pc'[c] = "exit nonzero" /\ faulty'[c])
      /\ \A d \in Commands \ {c} : LocalsKept(d)
    BY DEF SchedulerFails, Kill, TypeOK, LocalsKept, Goto, history
<1>2. Inv(c)
    BY DEF IInv
<1>3. Stage(c)' /\ Settling(c)'
    BY <1>1, <1>2 DEF Inv, Stage, Settling, StatusOf, Ended, Settled, Marking, Admitted, input
<1>4. priority[c] = "background" /\ records[c] # None => outcome[c] = None
    BY <1>2 DEF Inv, RecordIsOwn
<1> QED
    BY <1>1, <1>3, <1>4, SilentStep DEF Marking, Ended

LEMMA SettleStep == ASSUME TypeOK, IInv, NEW c \in Commands, Settle(c) PROVE IInv'
<1>0. UNCHANGED <<priority, workspace, queue, at, loaded, preempted, outcome>> /\ pc[c] = "settle"
    BY DEF Settle, input
<1>1. /\ loaded[c] = records[c] /\ StatusOf(c) = "accepted" /\ outcome[c] # None
      /\ priority[c] = "foreground" /\ RecordIsOwn(c) /\ AdmissionIsKept(c) /\ WalkIsMarked(c)
    BY <1>0 DEF IInv, Inv, Stage, Admitted
<1>2. records[c] \in Records /\ records[c].status = "accepted" /\ records[c] # None
    BY <1>1, NoneAssumption DEF StatusOf, TypeOK
<1>3. PICK ending \in Settled :
        /\ (ending = "completed" /\ outcome[c] \in Returned)
             \/ (ending = "failed" /\ outcome[c] \in Raised)
        /\ seen' = seen
        /\ \/ /\ \E exit \in {"exit 0", "exit nonzero"} : pc' = [pc EXCEPT ![c] = exit]
              /\ faulty' = faulty
              /\ records' = [records EXCEPT ![c] = [loaded[c] EXCEPT !.status = ending]]
           \/ /\ pc' = [pc EXCEPT ![c] = "exit nonzero"] /\ faulty' = [faulty EXCEPT ![c] = TRUE]
              /\ \/ records' = records
                 \/ records' = [records EXCEPT ![c] = [loaded[c] EXCEPT !.status = ending]]
  <2>1. CASE outcome[c] \in Returned
    <3>1. Write(c, c, [loaded[c] EXCEPT !.status = "completed"], "exit 0")
        BY <2>1 DEF Settle
    <3> QED
        BY <2>1, <3>1 DEF Write, Goto, history, Settled
  <2>2. CASE outcome[c] \notin Returned
    <3>1. Write(c, c, [loaded[c] EXCEPT !.status = "failed"], "exit nonzero")
        BY <2>2 DEF Settle
    <3>2. outcome[c] \in Raised
        BY <1>1, <2>2 DEF TypeOK
    <3> QED
        BY <3>1, <3>2 DEF Write, Goto, history, Settled
  <2> QED
      BY <2>1, <2>2
<1> DEFINE settled == [records[c] EXCEPT !.status = ending]
<1>4. /\ settled \in Records /\ settled # None /\ settled.status = ending
      /\ settled.workspace = records[c].workspace /\ settled.priority = records[c].priority
      /\ settled.preempted = records[c].preempted
  <2>1. settled \in Records
      BY <1>2, <1>3 DEF Records
  <2> QED
      BY <1>2, <2>1, NoneAssumption DEF Records
<1>5. records' = records \/ records' = [records EXCEPT ![c] = settled]
    BY <1>1, <1>3
<1>6. \A b \in Commands : Grows(b)
  <2>1. CASE records' = records
      BY <2>1, RecordsKept
  <2>2. CASE records' = [records EXCEPT ![c] = settled]
      BY <1>2, <1>4, <2>2 DEF TypeOK, Grows
  <2> QED
      BY <1>5, <2>1, <2>2
<1>7. \A d \in Commands \ {c} : OnlyMarked(d) /\ LocalsKept(d)
  <2>1. \A d \in Commands \ {c} : records'[d] = records[d]
      BY <1>5 DEF TypeOK
  <2>2. \A d \in Commands \ {c} : pc'[d] = pc[d] /\ faulty'[d] = faulty[d]
      BY <1>3 DEF TypeOK
  <2> QED
      BY <1>0, <1>3, <2>1, <2>2 DEF OnlyMarked, LocalsKept
<1>8. /\ pc'[c] \in {"exit 0", "exit nonzero"}
      /\ records'[c] = settled \/ (records'[c] = records[c] /\ faulty'[c])
  <2>1. pc'[c] \in {"exit 0", "exit nonzero"}
    <3>1. \E exit \in {"exit 0", "exit nonzero"} : pc' = [pc EXCEPT ![c] = exit]
        BY <1>3
    <3> QED
        BY <3>1 DEF TypeOK
  <2>2. \/ records' = [records EXCEPT ![c] = settled]
        \/ records' = records /\ faulty' = [faulty EXCEPT ![c] = TRUE]
      BY <1>1, <1>3
  <2> QED
      BY <2>1, <2>2 DEF TypeOK
<1>9. /\ records'[c] # None
      /\ records'[c].workspace = workspace[c] /\ records'[c].priority = priority[c]
      /\ records'[c].preempted = records[c].preempted
      /\ records'[c].status = ending \/ (records'[c].status = "accepted" /\ faulty'[c])
    BY <1>1, <1>2, <1>4, <1>8 DEF RecordIsOwn
<1>10. RecordIsOwn(c)'
    BY <1>0, <1>1, <1>3, <1>9 DEF RecordIsOwn, Settled, Deferred
<1>11. Stage(c)' /\ InHand(c)'
    BY <1>0, <1>1, <1>8, <1>9 DEF Stage, InHand, Marking, Admitted
<1>12. WalkIsMarked(c)'
  <2>1. OnDisk \subseteq OnDisk'
      BY <1>6 DEF OnDisk, Grows
  <2> QED
      BY <1>0, <1>1, <1>3, <1>8, <2>1 DEF WalkIsMarked, Marking
<1>13. AdmissionIsKept(c)'
  <2>1. /\ records'[c].preempted =
             {b \in seen[c] : priority[b] = "background" /\ workspace[b] = workspace[c]}
        /\ \A b \in records[c].preempted : StatusOf(b) = "preemptible_deferred"
      BY <1>1, <1>2, <1>9 DEF AdmissionIsKept
  <2>2. records[c].preempted \subseteq Commands
      BY <1>2 DEF Records
  <2>3. \A b \in records[c].preempted : StatusOf(b)' = "preemptible_deferred"
      BY <1>6, <2>1, <2>2, NoneAssumption DEF Grows, StatusOf, Deferred
  <2> QED
      BY <1>0, <1>3, <1>9, <2>1, <2>3 DEF AdmissionIsKept
<1>14. Settling(c)'
  <2>1. StatusOf(c)' = ending \/ (StatusOf(c)' = "accepted" /\ faulty'[c])
      BY <1>9 DEF StatusOf
  <2> QED
      BY <1>0, <1>3, <1>8, <2>1 DEF Settling, Settled, Ended
<1> QED
    BY <1>0, <1>6, <1>7, <1>10, <1>11, <1>12, <1>13, <1>14, OthersKept DEF Inv, input

LEMMA StepNext == TypeOK /\ IInv /\ [Next]_vars => IInv'
<1> SUFFICES ASSUME TypeOK, IInv, [Next]_vars PROVE IInv'
    OBVIOUS
<1>1. CASE UNCHANGED vars
    BY <1>1
       DEF vars, input, history, IInv, Inv, RecordIsOwn, Stage, InHand, WalkIsMarked, Passed,
           AdmissionIsKept, Settling, StatusOf, OnDisk
<1>2. ASSUME NEW c \in Commands, Step(c) \/ Kill(c) PROVE IInv'
    BY <1>2, DeferStep, ListStep, ReadStep, MarkStep, AdmitStep, RunStep, LoadStep,
       SettleStep, EndStep DEF Step
<1> QED
    BY <1>1, <1>2 DEF Next
-------------------------------------------------------------------------------
LEMMA Invariance == Spec => [](TypeOK /\ IInv)
<1>1. Init => TypeOK /\ IInv
    BY InitHolds
<1>2. TypeOK /\ IInv /\ [Next]_vars => (TypeOK /\ IInv)'
    BY TypeNext, StepNext
<1> QED
    BY <1>1, <1>2, PTL DEF Spec

\* The variables hold values of their types: what is read of a record on disk, and
\* what is made of it, is a record again, and only names on disk are queued.
THEOREM Typing == Spec => []TypeOK
BY Invariance, PTL

\* The records agree with what their commands did: who is completed or failed ran
\* and ended that way, a deferred task never ran, whoever ran was admitted, and
\* none stays "accepted" once its command has ended, unless it was killed or its
\* settling itself raised (run_harness of cli.py).
THEOREM TrueRecords == Spec => []RecordsTellOutcomes
<1>1. TypeOK /\ IInv => RecordsTellOutcomes
  <2> SUFFICES ASSUME TypeOK, IInv, NEW c \in Commands
               PROVE  /\ StatusOf(c) = "completed" => outcome[c] \in Returned
                      /\ StatusOf(c) = "failed" => outcome[c] \in Raised
                      /\ StatusOf(c) \in Deferred =>
                           priority[c] = "background" /\ outcome[c] = None
                      /\ outcome[c] # None => StatusOf(c) \in {"accepted"} \union Settled
                      /\ StatusOf(c) = "accepted" /\ pc[c] \in Ended =>
                           pc[c] = "killed" \/ faulty[c]
      BY DEF RecordsTellOutcomes, RecordTellsOutcome, NoneStaysAccepted
  <2>1. RecordIsOwn(c) /\ Stage(c) /\ Settling(c)
      BY DEF IInv, Inv
  <2>2. StatusOf(c) \in Deferred => priority[c] = "background" /\ outcome[c] = None
      BY <2>1, NoneAssumption DEF RecordIsOwn, StatusOf
  <2>3. ASSUME outcome[c] # None PROVE StatusOf(c) \in {"accepted"} \union Settled
    <3>1. priority[c] = "foreground" /\ records[c] # None
        BY <2>1, <2>3 DEF Stage
    <3>2. records[c].status \in Deferred \union {"accepted"} \union Settled
        BY <3>1 DEF TypeOK, Records
    <3>3. records[c].status \notin Deferred
        BY <2>1, <3>1 DEF RecordIsOwn
    <3> QED
        BY <3>1, <3>2, <3>3 DEF StatusOf
  <2> QED
      BY <2>1, <2>2, <2>3 DEF Settling
<1> QED
    BY <1>1, Invariance, PTL

\* The admission record of a foreground command names exactly the background
\* tasks of its workspace that were there when it looked, and each stays marked
\* on disk (_mark_background_preemptible, then the admission).
THEOREM ExplicitPriority == Spec => []PriorityIsExplicit
<1>1. IInv => PriorityIsExplicit
    BY DEF IInv, Inv, AdmissionIsKept, PriorityIsExplicit
<1> QED
    BY <1>1, Invariance, PTL

LEMMA OneRecord ==
    ASSUME TypeOK, NEW c \in Commands, NEW b \in Commands, NEW record, NEW next,
           Write(c, b, record, next)
    PROVE  \A d \in Commands \ {b} : records'[d] = records[d]
<1>1. records' = records \/ records' = [records EXCEPT ![b] = record]
    BY DEF Write
<1> QED
    BY <1>1 DEF TypeOK

LEMMA NoRewrite ==
    ASSUME TypeOK, IInv, Next, NEW d \in Commands, StatusOf(d) \in Settled
    PROVE  records'[d] = records[d]
<1>0. /\ records[d] # None /\ records[d].status \in Settled
      /\ RecordIsOwn(d) /\ Settling(d)
  <2>1. None \notin Settled
      BY NoneAssumption
  <2> QED
      BY <2>1 DEF StatusOf, IInv, Inv
<1>1. pc[d] \in Ended /\ priority[d] # "background"
  <2>1. records[d].status \notin Deferred
      BY <1>0 DEF Settled, Deferred
  <2> QED
      BY <1>0, <2>1 DEF RecordIsOwn, Settling
<1>2. ASSUME NEW c \in Commands, DeferBackground(c) \/ Admit(c) \/ Settle(c)
      PROVE  records'[d] = records[d]
  <2>1. c # d
    <3>1. pc[c] \in {"start", "mark", "settle"}
        BY <1>2 DEF DeferBackground, Admit, Settle
    <3> QED
        BY <1>1, <3>1 DEF Ended
  <2>2. CASE DeferBackground(c)
    <3>1. Write(c, c, Record(c, "deferred"), "exit 0")
        BY <2>2 DEF DeferBackground
    <3> QED
        BY <2>1, <3>1, OneRecord
  <2>3. CASE Admit(c)
    <3>1. Write(c, c, Record(c, "accepted"), "run")
        BY <2>3 DEF Admit
    <3> QED
        BY <2>1, <3>1, OneRecord
  <2>4. CASE Settle(c)
    <3>1. PICK record, next : Write(c, c, record, next)
        BY <2>4 DEF Settle
    <3> QED
        BY <2>1, <3>1, OneRecord
  <2> QED
      BY <1>2, <2>2, <2>3, <2>4
<1>3. ASSUME NEW c \in Commands, MarkRecord(c) PROVE records'[d] = records[d]
  <2>1. pc[c] = "rewrite" /\ \E record, next : Write(c, at[c], record, next)
      BY <1>3 DEF MarkRecord
  <2>2. at[c] \in Commands /\ priority[at[c]] = "background"
      BY <2>1, MarkedRecord
  <2>3. \A b \in Commands \ {at[c]} : records'[b] = records[b]
      BY <2>1, <2>2, OneRecord
  <2> QED
      BY <1>1, <2>2, <2>3
<1>4. ASSUME NEW c \in Commands, \/ ListRecords(c) \/ ReadRecord(c) \/ RunHarness(c)
                                 \/ Load(c) \/ SchedulerFails(c) \/ Kill(c)
      PROVE  records'[d] = records[d]
    BY <1>4 DEF ListRecords, ReadRecord, RunHarness, Load, SchedulerFails, Kill
<1>5. CASE UNCHANGED vars
    BY <1>5 DEF vars
<1> QED
    BY <1>2, <1>3, <1>4, <1>5 DEF Next, Step

\* A settled record is never rewritten: what another command still has in hand of
\* an earlier reading can put no finished task back.
THEOREM SettledStays == Spec => SettledIsFinal
<1>1. TypeOK /\ IInv /\ [Next]_vars =>
        [\A c \in Commands : StatusOf(c) \in Settled => records'[c] = records[c]]_vars
    BY NoRewrite
<1> QED
    BY <1>1, Invariance, PTL DEF Spec, SettledIsFinal
===============================================================================
