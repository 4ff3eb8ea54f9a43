---------------------------- MODULE WorkspacesProofs ----------------------------
(***************************************************************************)
(* What holds of workspace records and their index for any number of       *)
(* commands, names and roots: what no interleaving breaks, and what only   *)
(* two writers at once can.                                                *)
(***************************************************************************)
EXTENDS Workspaces, TLAPS

\* A writer between its first step and its last.
Writing(c) == Writer(c) /\ pc[c] \notin {"start"} \union Ended

\* Nobody races as long as there is at most one writer at work.
OneWriter == ~raced => \A c, d \in Commands : Writing(c) /\ Writing(d) => c = d

\* What was promised exists.
GrantedIsKnown == \A i \in Ids : granted[i] # None => i \in Known

\* What a lookup has to do with the reference: the index only grows without races.
Means(c, ids) ==
    /\ op[c].ref \in Ids => ids \subseteq {op[c].ref}
    /\ op[c].ref \in Names /\ ~raced => ids \subseteq Indexed(op[c].ref)

\* A writer works on a workspace that exists; what it has read is still so.
WriterAtWork(c) ==
    /\ pc[c] \in {"grant", "index", "index write"} => Writer(c) /\ id[c] \in Known
    /\ pc[c] = "grant" =>
         op[c].kind = "allow" /\ (~raced => loaded[c] = records[id[c]])
    /\ pc[c] \in {"index", "index write"} /\ op[c].kind = "allow" /\ ~raced =>
         op[c].argv \in records[id[c]]
    /\ pc[c] = "index write" =>
         /\ names[c] \subseteq {i \in Known : NameOf(i) = NameOf(id[c])}
         /\ ~raced => names[c] = Indexed(NameOf(id[c]))

\* A run has been admitted for a workspace its reference still means.
RunAtWork(c) ==
    /\ pc[c] = "resolve" => op[c].kind # "add" /\ Means(c, names[c])
    /\ pc[c] \in {"again", "resolve again"} =>
         op[c].kind = "run" /\ admitted[c] \in Known /\ Means(c, {admitted[c]})
    /\ pc[c] = "resolve again" /\ ~raced => admitted[c] \in names[c]
    /\ pc[c] = "done" /\ op[c].kind = "run" /\ ~raced => id[c] = admitted[c]

Mine(c) == WriterAtWork(c) /\ RunAtWork(c)

Kept == IndexIsExact /\ GrantsAreKept /\ GrantedIsKnown
IInv == OneWriter /\ Kept /\ \A c \in Commands : Mine(c)
-------------------------------------------------------------------------------
\* What a command line can be.
LEMMA OpType ==
    ASSUME TypeOK, NEW c \in Commands
    PROVE  /\ op[c].kind \in {"add", "allow", "run"}
           /\ op[c].kind = "add" => op[c].ref \in Ids
           /\ op[c].ref \in Names \union Ids
           /\ op[c].kind = "allow" => op[c].argv \in Argvs
BY DEF TypeOK, Operations, Refs

LEMMA IdType == \A i \in Ids : NameOf(i) \in Names
BY DEF Ids, NameOf

LEMMA InitHolds == Init => TypeOK /\ IInv
<1> SUFFICES ASSUME Init PROVE TypeOK /\ IInv
    OBVIOUS
<1>1. \A n \in Names : Indexed(n) = {}
    BY DEF Init, Indexed
<1>2. TypeOK
    BY <1>1 DEF Init, TypeOK, PCs
<1>3. OneWriter
    BY DEF Init, OneWriter, Writing
<1>4. Kept
    BY <1>1 DEF Init, Kept, IndexIsExact, IndexNeverDangles, AddedIsIndexed,
                GrantsAreKept, GrantedIsKnown
<1>5. \A c \in Commands : Mine(c)
    BY DEF Init, Mine, WriterAtWork, RunAtWork, Ended
<1> QED
    BY <1>2, <1>3, <1>4, <1>5 DEF IInv
-------------------------------------------------------------------------------
LocalsKept(d) ==
    /\ pc'[d] = pc[d] /\ names'[d] = names[d] /\ id'[d] = id[d]
    /\ loaded'[d] = loaded[d] /\ admitted'[d] = admitted[d]

\* Either c is the only writer, or a race is on the record.
Clear(c) == ~raced' => ~raced /\ \A q \in Commands \ {c} : ~Writing(q)

Grows ==
    /\ Known \subseteq Known'
    /\ raced => raced'
    /\ ~raced' => \A n \in Names : Indexed(n) \subseteq Indexed(n)'

LEMMA WriterIsClear ==
    ASSUME IInv, NEW c \in Commands, Writing(c), UNCHANGED raced
    PROVE  Clear(c)
BY DEF IInv, OneWriter, Clear

LEMMA StartIsClear ==
    ASSUME TypeOK, NEW c \in Commands, StartsWriting(c)
    PROVE  Clear(c) /\ (raced => raced') /\ raced' \in BOOLEAN
BY DEF StartsWriting, Clear, Writing, TypeOK

\* What others do meanwhile keeps a command's part of the invariant.
LEMMA Bystander ==
    ASSUME TypeOK, NEW d \in Commands, Mine(d), UNCHANGED op, LocalsKept(d), Grows,
           UNCHANGED files \/ (~raced' => ~Writing(d))
    PROVE  Mine(d)'
<1> USE DEF LocalsKept
<1>1. ~raced' => ~raced
    BY DEF Grows
<1>2. \A i \in Known : i \in Known'
    BY DEF Grows
<1>3. WriterAtWork(d)'
  <2>1. pc[d] \in {"grant", "index", "index write"} => Writer(d) /\ Writing(d) /\ id[d] \in Known
      BY DEF Mine, WriterAtWork, Writing, Ended
  <2>2. pc[d] = "grant" /\ ~raced' => loaded[d] = records'[id[d]]
      BY <1>1, <2>1 DEF Mine, WriterAtWork, files
  <2>3. pc[d] \in {"index", "index write"} /\ op[d].kind = "allow" /\ ~raced' =>
          op[d].argv \in records'[id[d]]
      BY <1>1, <2>1 DEF Mine, WriterAtWork, files
  <2>4. pc[d] = "index write" /\ ~raced' => names[d] = Indexed(NameOf(id[d]))'
    <3>1. pc[d] = "index write" /\ ~raced' => index' = index /\ id'[d] = id[d]
        BY <2>1 DEF files
    <3> QED
        BY <1>1, <3>1 DEF Mine, WriterAtWork, Indexed
  <2>5. pc[d] = "index write" =>
          names[d] \subseteq {i \in Known' : NameOf(i) = NameOf(id[d])}
      BY <1>2 DEF Mine, WriterAtWork
  <2> QED
      BY <1>2, <2>1, <2>2, <2>3, <2>4, <2>5 DEF WriterAtWork, Writer, Mine
<1>4. RunAtWork(d)'
  <2>1. ASSUME NEW ids, Means(d, ids) PROVE /\ op[d].ref \in Ids => ids \subseteq {op[d].ref}
                                           /\ op[d].ref \in Names /\ ~raced' =>
                                                ids \subseteq Indexed(op[d].ref)'
      BY <1>1, <2>1 DEF Means, Grows
  <2>2. pc[d] = "resolve" => Means(d, names[d])'
      BY <2>1 DEF Mine, RunAtWork, Means
  <2>3. pc[d] \in {"again", "resolve again"} => Means(d, {admitted[d]})'
      BY <2>1 DEF Mine, RunAtWork, Means
  <2> QED
      BY <1>1, <1>2, <2>2, <2>3 DEF Mine, RunAtWork
<1> QED
    BY <1>3, <1>4 DEF Mine

\* A step of c that leaves its part of the invariant, and the promises, intact.
LEMMA Advance ==
    ASSUME TypeOK, IInv, NEW c \in Commands, UNCHANGED op,
           \A d \in Commands \ {c} : LocalsKept(d),
           Grows, (UNCHANGED files /\ ~Writing(c)') \/ Clear(c),
           Mine(c)', Kept'
    PROVE  IInv'
<1>1. ASSUME NEW d \in Commands \ {c} PROVE Mine(d)'
  <2>1. UNCHANGED files \/ (~raced' => ~Writing(d))
      BY <1>1 DEF Clear
  <2> QED
      BY <1>1, <2>1, Bystander DEF IInv
<1>2. OneWriter'
  <2> SUFFICES ASSUME ~raced', NEW d \in Commands, NEW e \in Commands, Writing(d)', Writing(e)'
               PROVE  d = e
      BY DEF OneWriter
  <2>1. ASSUME NEW q \in Commands \ {c}, Writing(q)' PROVE Writing(q)
      BY <2>1 DEF LocalsKept, Writing, Writer
  <2>2. ~raced
      BY DEF Grows
  <2>3. CASE d = c \/ e = c
      BY <2>1, <2>3 DEF Clear
  <2>4. CASE d # c /\ e # c
      BY <2>1, <2>2, <2>4 DEF IInv, OneWriter
  <2> QED
      BY <2>3, <2>4
<1> QED
    BY <1>1, <1>2 DEF IInv

\* A step that leaves the files and the promises alone.
LEMMA QuietStep ==
    ASSUME TypeOK, IInv, NEW c \in Commands, UNCHANGED <<files, op, granted>>,
           \A d \in Commands \ {c} : LocalsKept(d),
           raced => raced', ~Writing(c)' \/ Clear(c), Mine(c)'
    PROVE  IInv'
<1>1. Grows
    BY DEF Grows, files, Known, Indexed
<1>2. Kept'
    BY DEF IInv, Kept, IndexIsExact, IndexNeverDangles, AddedIsIndexed, GrantsAreKept,
           GrantedIsKnown, files, Known, Indexed
<1> QED
    BY <1>1, <1>2, Advance

\* add: the record is written over; whoever promised something else raced.
LEMMA AddStep == ASSUME TypeOK, IInv, NEW c \in Commands, Add(c) PROVE IInv'
<1> DEFINE i == op[c].ref
<1>1. /\ pc[c] = "start" /\ op[c].kind = "add" /\ i \in Ids
      /\ UNCHANGED <<index, op, names, loaded, admitted>>
      /\ id' = [id EXCEPT ![c] = i]
      /\ granted' = [granted EXCEPT ![i] = IF @ = None THEN None ELSE {}]
    BY OpType DEF Add, Forget
<1>2. \/ records' = [records EXCEPT ![i] = {}] /\ pc' = [pc EXCEPT ![c] = "index"]
      \/ /\ pc' = [pc EXCEPT ![c] = "raised"]
         /\ records' = records \/ records' = [records EXCEPT ![i] = {}]
    BY DEF Add, WriteRecord, Goto
<1>3. Clear(c) /\ (raced => raced')
    BY StartIsClear DEF Add
<1>4. \A d \in Commands \ {c} : LocalsKept(d)
    BY <1>1, <1>2 DEF TypeOK, LocalsKept
<1>5. {} # None
    BY NoneAssumption
<1>6. \A j \in Ids : records'[j] = records[j] \/ (j = i /\ records'[j] = {})
    BY <1>2 DEF TypeOK
<1>7. Grows
    BY <1>1, <1>3, <1>5, <1>6 DEF Grows, Known, Indexed
<1>8. Mine(c)'
  <2>1. \/ pc'[c] = "raised"
        \/ pc'[c] = "index" /\ records'[i] = {}
      BY <1>1, <1>2 DEF TypeOK
  <2>2. id'[c] = i
      BY <1>1 DEF TypeOK
  <2> QED
      BY <1>1, <1>5, <2>1, <2>2 DEF Mine, WriterAtWork, RunAtWork, Writer, Known
<1>9. Kept'
  <2>1. \A j \in Ids : /\ j # i => granted'[j] = granted[j]
                       /\ granted'[i] = {} \/ granted'[i] = None
                       /\ granted'[j] # None => granted[j] # None
      BY <1>1 DEF TypeOK
  <2>2. \A n \in Names : Indexed(n)' = Indexed(n)
      BY <1>1 DEF Indexed
  <2>3. IndexIsExact'
      BY <1>3, <1>7, <2>1, <2>2, IdType
         DEF IInv, Kept, IndexIsExact, IndexNeverDangles, AddedIsIndexed, Grows
  <2>4. GrantsAreKept'
      BY <1>1, <1>3, <1>6, <2>1 DEF IInv, Kept, GrantsAreKept
  <2>5. GrantedIsKnown'
      BY <1>7, <2>1 DEF IInv, Kept, GrantedIsKnown, Grows
  <2> QED
      BY <2>3, <2>4, <2>5 DEF Kept
<1> QED
    BY <1>1, <1>3, <1>4, <1>7, <1>8, <1>9, Advance

\* get: what is looked up is what the reference means now.
LEMMA LookupStep == ASSUME TypeOK, IInv, NEW c \in Commands, Lookup(c) PROVE IInv'
<1> DEFINE ids == IF op[c].ref \in Ids THEN {op[c].ref} ELSE Indexed(op[c].ref)
<1>1. /\ UNCHANGED <<files, op, id, loaded, admitted, granted>>
      /\ names' = [names EXCEPT ![c] = ids]
      /\ \/ /\ pc[c] = "start" /\ op[c].kind # "add"
            /\ pc' = [pc EXCEPT ![c] = "resolve"]
         \/ /\ pc[c] = "again" /\ pc' = [pc EXCEPT ![c] = "resolve again"]
    BY DEF Lookup, Goto
<1>2. \/ pc[c] = "start" /\ Writer(c) /\ StartsWriting(c)
      \/ ~(pc[c] = "start" /\ Writer(c)) /\ UNCHANGED raced
    BY DEF Lookup
<1>3. /\ pc'[c] \in {"resolve", "resolve again"} /\ names'[c] = ids
      /\ pc'[c] = "resolve again" => pc[c] = "again"
      /\ \A d \in Commands \ {c} : LocalsKept(d)
    BY <1>1 DEF TypeOK, LocalsKept
<1>4. (raced => raced') /\ (~Writing(c)' \/ Clear(c))
  <2>1. CASE pc[c] = "start" /\ Writer(c)
      BY <1>2, <2>1, StartIsClear
  <2>2. CASE ~(pc[c] = "start" /\ Writer(c))
    <3>1. ~Writer(c)
        BY <1>1, <2>2 DEF Writer, IInv, Mine, RunAtWork
    <3>2. op' = op /\ raced' = raced
        BY <1>1, <1>2, <2>2
    <3>3. ~Writing(c)'
        BY <3>1, <3>2 DEF Writing, Writer
    <3> QED
        BY <3>2, <3>3
  <2> QED
      BY <2>1, <2>2
<1>5. Mine(c)'
  <2>1. WriterAtWork(c)'
      BY <1>3 DEF WriterAtWork
  <2>2. ~raced' => ~raced
      BY <1>4
  <2>3. \A n \in Names : Indexed(n)' = Indexed(n)
      BY <1>1 DEF files, Indexed
  <2>4. op'[c] = op[c] /\ admitted'[c] = admitted[c] /\ Known' = Known
      BY <1>1 DEF files, Known
  <2>5. CASE pc'[c] = "resolve"
    <3>1. op[c].kind # "add"
        BY <1>1, <2>5 DEF TypeOK
    <3>2. Means(c, names[c])'
        BY <1>3, <2>3, <2>4, KindAssumption DEF Means
    <3> QED
        BY <2>1, <2>4, <2>5, <3>1, <3>2 DEF Mine, RunAtWork
  <2>6. CASE pc'[c] = "resolve again"
    <3>1. op[c].kind = "run" /\ admitted[c] \in Known /\ Means(c, {admitted[c]})
        BY <1>3, <2>6 DEF IInv, Mine, RunAtWork
    <3>2. Means(c, {admitted[c]})'
        BY <2>2, <2>3, <2>4, <3>1 DEF Means
    <3>3. ~raced' => admitted'[c] \in names'[c]
        BY <1>3, <2>2, <2>4, <3>1, OpType DEF Means
    <3> QED
        BY <2>1, <2>4, <2>6, <3>1, <3>2, <3>3 DEF Mine, RunAtWork
  <2> QED
      BY <1>3, <2>5, <2>6
<1> QED
    BY <1>1, <1>3, <1>4, <1>5, QuietStep

\* One record of what was looked up: the workspace of a writer or, for a run, the
\* one it is admitted for, and then still the same.
LEMMA ResolveStep == ASSUME TypeOK, IInv, NEW c \in Commands, Resolve(c) PROVE IInv'
<1>1. PICK i \in Ids :
        /\ names[c] \intersect Known = {i}
        /\ id' = [id EXCEPT ![c] = i]
        /\ loaded' = [loaded EXCEPT ![c] = records[i]]
        /\ admitted' = IF op[c].kind = "run" /\ pc[c] = "resolve"
                       THEN [admitted EXCEPT ![c] = i] ELSE admitted
    BY DEF Resolve
<1>2. /\ UNCHANGED <<files, op, names, granted, raced>>
      /\ pc[c] \in {"resolve", "resolve again"}
      /\ pc' = [pc EXCEPT ![c] = CASE pc[c] = "resolve again" -> "done"
                                  [] pc[c] = "resolve" /\ op[c].kind = "run" -> "again"
                                  [] OTHER -> "grant"]
    BY DEF Resolve, Goto, history
<1>3. Mine(c)
    BY DEF IInv
<1>4. \A d \in Commands \ {c} : LocalsKept(d)
    BY <1>1, <1>2 DEF TypeOK, LocalsKept
<1>5. /\ id'[c] = i /\ loaded'[c] = records[i] /\ i \in Known /\ i \in names[c]
      /\ Known' = Known /\ records' = records /\ \A n \in Names : Indexed(n)' = Indexed(n)
    BY <1>1, <1>2 DEF TypeOK, Known, files, Indexed
<1>6. CASE pc[c] = "resolve again"
  <2>0. op[c].kind = "run" /\ admitted' = admitted
      BY <1>1, <1>3, <1>6 DEF Mine, RunAtWork
  <2>1. pc'[c] = "done"
      BY <1>2, <1>6 DEF TypeOK
  <2>2. ~raced => i = admitted[c]
      BY <1>1, <1>3, <1>6 DEF Mine, RunAtWork
  <2>3. Mine(c)' /\ ~Writing(c)'
      BY <1>2, <1>5, <2>0, <2>1, <2>2 DEF Mine, WriterAtWork, RunAtWork, Writing, Ended
  <2> QED
      BY <1>2, <1>4, <2>3, QuietStep
<1>7. CASE pc[c] = "resolve" /\ op[c].kind = "run"
  <2>1. pc'[c] = "again" /\ admitted'[c] = i
      BY <1>1, <1>2, <1>7 DEF TypeOK
  <2>2. Means(c, {admitted[c]})'
      BY <1>2, <1>3, <1>5, <1>7, <2>1 DEF Means, Mine, RunAtWork
  <2>3. Mine(c)' /\ ~Writing(c)'
      BY <1>2, <1>5, <1>7, <2>1, <2>2
         DEF Mine, WriterAtWork, RunAtWork, Writing, Writer
  <2> QED
      BY <1>2, <1>4, <2>3, QuietStep
<1>8. CASE pc[c] = "resolve" /\ op[c].kind # "run"
  <2>1. pc'[c] = "grant" /\ op[c].kind = "allow"
      BY <1>2, <1>3, <1>8, OpType DEF TypeOK, Mine, RunAtWork
  <2>2. Mine(c)' /\ Writing(c)
      BY <1>2, <1>5, <1>8, <2>1 DEF Mine, WriterAtWork, RunAtWork, Writing, Writer, Ended
  <2> QED
      BY <1>2, <1>4, <2>2, WriterIsClear, QuietStep
<1> QED
    BY <1>2, <1>6, <1>7, <1>8

\* A refusal or a kill ends the command.
LEMMA EndStep ==
    ASSUME TypeOK, IInv, NEW c \in Commands, Refuse(c) \/ Kill(c)
    PROVE  IInv'
<1>1. /\ UNCHANGED <<files, op, names, id, loaded, admitted, granted, raced>>
      /\ pc'[c] \in {"refused", "killed"}
      /\ \A d \in Commands \ {c} : LocalsKept(d)
    BY DEF Refuse, Kill, Goto, TypeOK, LocalsKept, history
<1>2. Mine(c)' /\ ~Writing(c)'
    BY <1>1 DEF Mine, WriterAtWork, RunAtWork, Writing, Ended
<1> QED
    BY <1>1, <1>2, QuietStep

\* allow_test: what is written back is what is there, with the grant.
LEMMA GrantStep == ASSUME TypeOK, IInv, NEW c \in Commands, Grant(c) PROVE IInv'
<1> DEFINE i == id[c]
           argvs == loaded[c] \union {op[c].argv}
<1>1. /\ pc[c] = "grant" /\ op[c].kind = "allow" /\ i \in Known /\ i \in Ids
      /\ ~raced => loaded[c] = records[i]
      /\ UNCHANGED <<index, op, names, id, loaded, admitted, granted, raced>>
    BY DEF Grant, history, IInv, Mine, WriterAtWork, Known
<1>2. \/ records' = [records EXCEPT ![i] = argvs] /\ pc' = [pc EXCEPT ![c] = "index"]
      \/ /\ pc' = [pc EXCEPT ![c] = "raised"]
         /\ records' = records \/ records' = [records EXCEPT ![i] = argvs]
    BY DEF Grant, WriteRecord, Goto
<1>3. Clear(c)
    BY <1>1, WriterIsClear DEF Writing, Writer, Ended
<1>4. \A d \in Commands \ {c} : LocalsKept(d)
    BY <1>1, <1>2 DEF TypeOK, LocalsKept
<1>5. argvs \in SUBSET Argvs /\ argvs # None
  <2>1. loaded[c] \in SUBSET Argvs /\ op[c].argv \in Argvs
      BY <1>1, OpType DEF TypeOK
  <2> QED
      BY <2>1, NoneAssumption
<1>6. \A j \in Ids : records'[j] = records[j] \/ (j = i /\ records'[j] = argvs)
    BY <1>2 DEF TypeOK
<1>7. Grows
    BY <1>1, <1>5, <1>6 DEF Grows, Known, Indexed
<1>8. Mine(c)'
  <2>1. \/ pc'[c] = "raised"
        \/ pc'[c] = "index" /\ records'[i] = argvs
      BY <1>1, <1>2 DEF TypeOK
  <2> QED
      BY <1>1, <1>5, <2>1 DEF Mine, WriterAtWork, RunAtWork, Writer, Known
<1>9. Kept'
  <2>1. \A n \in Names : Indexed(n)' = Indexed(n)
      BY <1>1 DEF Indexed
  <2>2. IndexIsExact'
      BY <1>1, <1>7, <2>1, IdType
         DEF IInv, Kept, IndexIsExact, IndexNeverDangles, AddedIsIndexed, Grows
  <2>3. GrantsAreKept'
    <3>1. ~raced => \A j \in Ids : records[j] \subseteq records'[j]
        BY <1>1, <1>6
    <3> QED
        BY <1>1, <3>1 DEF IInv, Kept, GrantsAreKept
  <2>4. GrantedIsKnown'
      BY <1>1, <1>7 DEF IInv, Kept, GrantedIsKnown, Grows
  <2> QED
      BY <2>2, <2>3, <2>4 DEF Kept
<1> QED
    BY <1>1, <1>3, <1>4, <1>7, <1>8, <1>9, Advance

\* _index_name: what is read of an index is what is there ...
LEMMA ReadNamesStep == ASSUME TypeOK, IInv, NEW c \in Commands, ReadNames(c) PROVE IInv'
<1>1. /\ UNCHANGED <<files, op, id, loaded, admitted, granted, raced>>
      /\ names' = [names EXCEPT ![c] = Indexed(NameOf(id[c]))]
      /\ pc[c] = "index" /\ pc' = [pc EXCEPT ![c] = "index write"]
    BY DEF ReadNames, Goto, history
<1>2. /\ \A d \in Commands \ {c} : LocalsKept(d)
      /\ pc'[c] = "index write" /\ names'[c] = Indexed(NameOf(id[c]))
    BY <1>1 DEF TypeOK, LocalsKept
<1>3. /\ Writer(c) /\ id[c] \in Known
      /\ op[c].kind = "allow" /\ ~raced => op[c].argv \in records[id[c]]
    BY <1>1 DEF IInv, Mine, WriterAtWork
<1>4. Clear(c)
    BY <1>1, <1>3, WriterIsClear DEF Writing, Ended
<1>5. /\ Known' = Known /\ records' = records /\ index' = index
      /\ Indexed(NameOf(id[c]))' = Indexed(NameOf(id[c]))
    BY <1>1 DEF files, Known, Indexed
<1>6. Indexed(NameOf(id[c])) \subseteq {i \in Known : NameOf(i) = NameOf(id[c])}
  <2>1. NameOf(id[c]) \in Names
      BY <1>3, IdType DEF Known
  <2> QED
      BY <2>1 DEF IInv, Kept, IndexIsExact, IndexNeverDangles, TypeOK
<1>7. Mine(c)'
    BY <1>1, <1>2, <1>3, <1>5, <1>6 DEF Mine, WriterAtWork, RunAtWork, Writer
<1> QED
    BY <1>1, <1>2, <1>4, <1>7, QuietStep

\* ... and what is written back is that, and the command's own id.
LEMMA WriteNamesStep == ASSUME TypeOK, IInv, NEW c \in Commands, WriteNames(c) PROVE IInv'
<1> DEFINE i == id[c]
           n == NameOf(i)
           ids == WithOwnId(c)
<1>1. /\ UNCHANGED <<records, op, names, id, loaded, admitted, raced>> /\ pc[c] = "index write"
    BY DEF WriteNames
<1>2. \/ /\ index' = [index EXCEPT ![n] = ids]
         /\ granted' = [granted EXCEPT ![i] = Promised(c)]
         /\ pc' = [pc EXCEPT ![c] = "done"]
      \/ /\ pc' = [pc EXCEPT ![c] = "raised"] /\ granted' = granted
         /\ index' = index \/ index' = [index EXCEPT ![n] = ids]
    BY DEF WriteNames, Goto
<1>3. /\ Writer(c) /\ i \in Known /\ i \in Ids /\ n \in Names
      /\ op[c].kind = "allow" /\ ~raced => op[c].argv \in records[i]
      /\ names[c] \subseteq {j \in Known : NameOf(j) = n}
      /\ ~raced => names[c] = Indexed(n)
    BY <1>1, IdType DEF IInv, Mine, WriterAtWork, Known
<1>4. Clear(c)
    BY <1>1, <1>3, WriterIsClear DEF Writing, Ended
<1>5. \A d \in Commands \ {c} : LocalsKept(d)
    BY <1>1, <1>2 DEF TypeOK, LocalsKept
<1>6. ids = names[c] \union {i} /\ ids \subseteq Known /\ ids \in SUBSET Ids /\ ids # None
  <2>1. ids = names[c] \union {i} /\ ids \subseteq Known /\ ids \in SUBSET Ids
      BY <1>3 DEF WithOwnId, Known
  <2> QED
      BY <2>1, NoneAssumption
<1>7. ASSUME NEW m \in Names
      PROVE  /\ Indexed(m)' = Indexed(m) \/ (m = n /\ Indexed(m)' = ids)
             /\ pc'[c] = "done" /\ m = n => Indexed(m)' = ids
  <2>1. \/ /\ index'[m] = IF m = n THEN ids ELSE index[m]
           /\ pc'[c] = "done"
        \/ /\ index'[m] = index[m] \/ (m = n /\ index'[m] = ids)
           /\ pc'[c] = "raised"
      BY <1>2 DEF TypeOK
  <2> QED
      BY <1>6, <2>1 DEF Indexed
<1>8. Known' = Known
    BY <1>1 DEF Known
<1>9. ~raced => \A m \in Names : Indexed(m) \subseteq Indexed(m)'
    BY <1>3, <1>6, <1>7
<1>10. Grows
    BY <1>1, <1>8, <1>9 DEF Grows
<1>11. Mine(c)'
  <2>1. pc'[c] \in {"done", "raised"} /\ op'[c].kind # "run"
      BY <1>1, <1>2, <1>3 DEF TypeOK, Writer
  <2> QED
      BY <2>1 DEF Mine, WriterAtWork, RunAtWork
<1>12. IndexIsExact'
  <2>1. IndexNeverDangles'
      BY <1>6, <1>7, <1>8 DEF IInv, Kept, IndexIsExact, IndexNeverDangles
  <2>2. ASSUME ~raced, NEW j \in Ids, granted'[j] # None
        PROVE  j \in Indexed(NameOf(j))'
    <3>1. CASE granted[j] # None
        BY <1>9, <2>2, <3>1, IdType DEF IInv, Kept, IndexIsExact, AddedIsIndexed
    <3>2. CASE granted[j] = None
      <4>1. j = i /\ pc'[c] = "done"
          BY <1>2, <2>2, <3>2 DEF TypeOK
      <4> QED
          BY <1>3, <1>6, <1>7, <4>1
    <3> QED
        BY <3>1, <3>2
  <2> QED
      BY <1>1, <2>1, <2>2 DEF IndexIsExact, AddedIsIndexed
<1>13. GrantsAreKept'
  <2> SUFFICES ASSUME ~raced, NEW j \in Ids, granted'[j] # None
               PROVE  granted'[j] \subseteq records[j]
      BY <1>1 DEF GrantsAreKept
  <2>1. granted[j] # None => granted[j] \subseteq records[j]
      BY DEF IInv, Kept, GrantsAreKept
  <2>2. granted'[j] = granted[j] \/ (j = i /\ granted'[j] = Promised(c))
      BY <1>2 DEF TypeOK
  <2>3. ASSUME j = i PROVE Promised(c) \subseteq records[i]
      BY <1>3, <2>1, <2>3 DEF Promised, Writer
  <2> QED
      BY <2>1, <2>2, <2>3
<1>14. GrantedIsKnown'
    BY <1>2, <1>3, <1>8 DEF IInv, Kept, GrantedIsKnown, TypeOK
<1> QED
    BY <1>1, <1>4, <1>5, <1>10, <1>11, <1>12, <1>13, <1>14, Advance DEF Kept
-------------------------------------------------------------------------------
LEMMA TypeNext == TypeOK /\ IInv /\ [Next]_vars => TypeOK'
<1> SUFFICES ASSUME TypeOK, IInv, [Next]_vars PROVE TypeOK'
    OBVIOUS
<1> USE DEF files, history, Goto
<1>1. ASSUME NEW c \in Commands, Add(c) PROVE TypeOK'
  <2>1. op[c].ref \in Ids
      BY <1>1, OpType DEF Add
  <2>2. \/ records' = [records EXCEPT ![op[c].ref] = {}]
        \/ records' = records
      BY <1>1 DEF Add, WriteRecord
  <2>3. pc' \in [Commands -> PCs]
      BY <1>1 DEF Add, WriteRecord, TypeOK, PCs, Ended
  <2>4. granted' \in [Ids -> {None} \union SUBSET Argvs]
      BY <1>1 DEF Add, Forget, TypeOK
  <2>5. raced' \in BOOLEAN
      BY <1>1, StartIsClear DEF Add
  <2> QED
      BY <1>1, <2>1, <2>2, <2>3, <2>4, <2>5 DEF Add, TypeOK, Indexed
<1>2. ASSUME NEW c \in Commands, Lookup(c) PROVE TypeOK'
  <2>1. pc' \in [Commands -> PCs]
      BY <1>2 DEF Lookup, TypeOK, PCs
  <2>2. raced' \in BOOLEAN
      BY <1>2, StartIsClear DEF Lookup, TypeOK
  <2>3. (IF op[c].ref \in Ids THEN {op[c].ref} ELSE Indexed(op[c].ref)) \in SUBSET Ids
      BY OpType DEF TypeOK, Indexed
  <2>4. names' \in [Commands -> SUBSET Ids]
      BY <1>2, <2>3 DEF Lookup, TypeOK
  <2> QED
      BY <1>2, <2>1, <2>2, <2>4 DEF Lookup, TypeOK, Indexed
<1>3. ASSUME NEW c \in Commands, Resolve(c) PROVE TypeOK'
  <2>1. PICK i \in Ids :
          /\ names[c] \intersect Known = {i}
          /\ id' = [id EXCEPT ![c] = i]
          /\ loaded' = [loaded EXCEPT ![c] = records[i]]
          /\ admitted' = admitted \/ admitted' = [admitted EXCEPT ![c] = i]
      BY <1>3 DEF Resolve
  <2>2. records[i] \in SUBSET Argvs
      BY <2>1 DEF TypeOK, Known
  <2>3. pc' \in [Commands -> PCs]
    <3>1. \E l \in {"done", "again", "grant"} : pc' = [pc EXCEPT ![c] = l]
        BY <1>3 DEF Resolve
    <3> QED
        BY <3>1 DEF TypeOK, PCs, Ended
  <2> QED
      BY <1>3, <2>1, <2>2, <2>3 DEF Resolve, TypeOK, Indexed
<1>4. ASSUME NEW c \in Commands, Refuse(c) \/ Kill(c) PROVE TypeOK'
    BY <1>4 DEF Refuse, Kill, TypeOK, PCs, Ended, Indexed
<1>5. ASSUME NEW c \in Commands, Grant(c) PROVE TypeOK'
  <2>1. id[c] \in Ids /\ op[c].kind = "allow"
      BY <1>5 DEF Grant, IInv, Mine, WriterAtWork, Known
  <2>2. loaded[c] \union {op[c].argv} \in SUBSET Argvs
      BY <2>1, OpType DEF TypeOK
  <2>3. \/ records' = [records EXCEPT ![id[c]] = loaded[c] \union {op[c].argv}]
        \/ records' = records
      BY <1>5 DEF Grant, WriteRecord
  <2>4. pc' \in [Commands -> PCs]
      BY <1>5 DEF Grant, WriteRecord, TypeOK, PCs, Ended
  <2> QED
      BY <1>5, <2>1, <2>2, <2>3, <2>4 DEF Grant, TypeOK, Indexed
<1>6. ASSUME NEW c \in Commands, ReadNames(c) PROVE TypeOK'
  <2>1. NameOf(id[c]) \in Names
      BY <1>6, IdType DEF ReadNames, IInv, Mine, WriterAtWork, Known
  <2>2. Indexed(NameOf(id[c])) \in SUBSET Ids
      BY <2>1 DEF TypeOK, Indexed
  <2> QED
      BY <1>6, <2>2 DEF ReadNames, TypeOK, PCs, Indexed
<1>7. ASSUME NEW c \in Commands, WriteNames(c) PROVE TypeOK'
  <2> DEFINE n == NameOf(id[c])
  <2>1. /\ id[c] \in Ids /\ n \in Names /\ Writer(c)
        /\ WithOwnId(c) \in SUBSET Ids /\ \A i \in WithOwnId(c) : NameOf(i) = n
      BY <1>7, IdType DEF WriteNames, IInv, Mine, WriterAtWork, Known, WithOwnId
  <2>2. Promised(c) \in SUBSET Argvs
      BY <2>1, OpType DEF Promised, TypeOK, Writer
  <2>3. index' = index \/ index' = [index EXCEPT ![n] = WithOwnId(c)]
      BY <1>7 DEF WriteNames
  <2>4. granted' = granted \/ granted' = [granted EXCEPT ![id[c]] = Promised(c)]
      BY <1>7 DEF WriteNames
  <2>5. pc' \in [Commands -> PCs]
      BY <1>7 DEF WriteNames, TypeOK, PCs, Ended
  <2>6. index' \in [Names -> {None} \union SUBSET Ids]
      BY <2>1, <2>3 DEF TypeOK
  <2>7. \A m \in Names : \A i \in Indexed(m)' : NameOf(i) = m
      BY <2>1, <2>3 DEF TypeOK, Indexed
  <2>8. granted' \in [Ids -> {None} \union SUBSET Argvs]
      BY <2>1, <2>2, <2>4 DEF TypeOK
  <2>9. UNCHANGED <<records, op, names, id, loaded, admitted, raced>>
      BY <1>7 DEF WriteNames
  <2> QED
      BY <2>5, <2>6, <2>7, <2>8, <2>9 DEF TypeOK
<1>8. CASE UNCHANGED vars
    BY <1>8 DEF vars, TypeOK, Indexed
<1> QED
    BY <1>1, <1>2, <1>3, <1>4, <1>5, <1>6, <1>7, <1>8 DEF Next, Step

LEMMA StepNext == TypeOK /\ IInv /\ [Next]_vars => IInv'
<1> SUFFICES ASSUME TypeOK, IInv, [Next]_vars PROVE IInv'
    OBVIOUS
<1>1. CASE UNCHANGED vars
  <2>0. OneWriter'
      BY <1>1 DEF vars, history, IInv, OneWriter, Writing, Writer
  <2>1. Kept'
    <3>1. records' = records /\ index' = index /\ granted' = granted /\ raced' = raced
        BY <1>1 DEF vars, files, history
    <3>2. Known' = Known /\ \A n \in Names : Indexed(n)' = Indexed(n)
        BY <3>1 DEF Known, Indexed
    <3>3. GrantedIsKnown' /\ GrantsAreKept'
        BY <3>1, <3>2 DEF IInv, Kept, GrantsAreKept, GrantedIsKnown
    <3>4. IndexIsExact'
        BY <3>1, <3>2, IdType
           DEF IInv, Kept, IndexIsExact, IndexNeverDangles, AddedIsIndexed
    <3> QED
        BY <3>3, <3>4 DEF Kept
  <2>2. Grows /\ \A c \in Commands : LocalsKept(c)
      BY <1>1 DEF vars, files, history, Grows, LocalsKept, Known, Indexed
  <2>3. \A c \in Commands : Mine(c)'
      BY <1>1, <2>2, Bystander DEF vars, IInv
  <2> QED
      BY <2>0, <2>1, <2>3 DEF IInv
<1>2. ASSUME NEW c \in Commands, Step(c) \/ Kill(c) PROVE IInv'
    BY <1>2, AddStep, LookupStep, ResolveStep, EndStep, GrantStep, ReadNamesStep,
       WriteNamesStep DEF Step
<1> QED
    BY <1>1, <1>2 DEF Next
-------------------------------------------------------------------------------
LEMMA Invariance == Spec => [](TypeOK /\ IInv)
BY InitHolds, TypeNext, StepNext, PTL DEF Spec

\* The variables hold values of their types: each index file names only ids of its
\* own display name, and what is granted on a workspace is a set of test commands.
THEOREM Typing == Spec => []TypeOK
BY Invariance, PTL

\* An index entry always has its record, whatever fails, dies or races, for the
\* record is written first; and what was added is indexed, unless two writers were
\* at work at once (WorkspaceStore.add, _index_name).
THEOREM ExactIndex == Spec => []IndexIsExact
<1>1. IInv => IndexIsExact
    BY DEF IInv, Kept
<1> QED
    BY <1>1, Invariance, PTL

\* What allow_test granted stays granted until the workspace is added again, unless
\* two writers were at work at once.
THEOREM KeptGrants == Spec => []GrantsAreKept
<1>1. IInv => GrantsAreKept
    BY DEF IInv, Kept
<1> QED
    BY <1>1, Invariance, PTL

\* The workspace that the Harness looks up is the one the command admitted the run
\* for, unless writers raced: the index of a name then only grows, so the second
\* lookup finds the first one's workspace or is ambiguous.
THEOREM SameWorkspace == Spec => []RunsWhereAdmitted
<1>1. IInv => RunsWhereAdmitted
    BY DEF IInv, Mine, RunAtWork, RunsWhereAdmitted
<1> QED
    BY <1>1, Invariance, PTL
===============================================================================
