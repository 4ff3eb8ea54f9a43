--------------------------- MODULE TestCommandProofs ---------------------------
(***************************************************************************)
(* Proofs about TestCommand, for any sizes of previews, chunks and pipes:  *)
(* what run returns is exact, and a timeout is final.                      *)
(***************************************************************************)
EXTENDS TestCommand, TLAPS

\* The actions that leave the drain threads and their buffers alone.
LEMMA MainKeepsDrains ==
    ASSUME SpawnFails \/ Wait \/ Timeout \/ Kill \/ JoinStdout \/ Return
             \/ RaiseTimeout \/ Fork \/ Exit \/ Interrupt
             \/ (\E s \in Streams : \E p \in Processes : WriteByte(p, s) \/ CloseStream(p, s))
    PROVE  UNCHANGED drains
BY DEF SpawnFails, Wait, Timeout, Kill, JoinStdout, Return, RaiseTimeout, Fork, Exit,
       Interrupt, WriteByte, CloseStream

\* The sizes are numbers.
LEMMA Sizes ==
    /\ PreviewSize \in Nat /\ PreviewSize > 0
    /\ ChunkSize \in Nat /\ ChunkSize > 0
    /\ Capacity \in Nat /\ MaxBytes \in Nat
<1>1. \A n \in Nat \ {0} : n \in Nat /\ n > 0
  OBVIOUS
<1> QED BY <1>1, SizeAssumption

\* What TypeOK says of one stream.
LEMMA StreamTypes ==
    ASSUME TypeOK, NEW s \in Streams
    PROVE  /\ chunk[s] \in Seq(Nat) /\ Len(chunk[s]) \in Nat
           /\ Len(chunk[s]) <= ChunkSize
           /\ buffer[s] \in Seq(Nat) /\ Len(buffer[s]) \in Nat
           /\ Len(buffer[s]) <= PreviewSize + 1
           /\ written[s] \in Nat /\ written[s] <= MaxBytes
           /\ taken[s] \in Nat /\ taken[s] <= written[s]
           /\ written[s] - taken[s] <= Capacity
<1>1. /\ chunk[s] \in Seq(Nat) /\ Len(chunk[s]) <= ChunkSize
      /\ buffer[s] \in Seq(Nat) /\ Len(buffer[s]) <= PreviewSize + 1
  BY Zenon DEF TypeOK
<1>2. /\ written[s] \in 0..MaxBytes /\ taken[s] \in 0..MaxBytes
      /\ taken[s] <= written[s] /\ written[s] - taken[s] <= Capacity
  BY Zenon DEF TypeOK
<1>3. \A q \in Seq(Nat) : Len(q) \in Nat
  OBVIOUS
<1> QED BY <1>1, <1>2, <1>3, Sizes

\* What Kept cuts from a chunk is the part that still fits.
LEMMA KeptIsPrefix ==
    ASSUME TypeOK, NEW s \in Streams
    PROVE  /\ Kept(s) \in Seq(Nat)
           /\ Len(Kept(s)) = IF PreviewSize + 1 - Len(buffer[s]) < Len(chunk[s])
                             THEN PreviewSize + 1 - Len(buffer[s]) ELSE Len(chunk[s])
           /\ Len(Kept(s)) \in Nat /\ Len(Kept(s)) <= Len(chunk[s])
           /\ Len(Kept(s)) <= PreviewSize + 1 - Len(buffer[s])
           /\ \A i \in 1..Len(Kept(s)) : Kept(s)[i] = chunk[s][i]
<1>1. chunk[s] \in Seq(Nat) /\ Len(chunk[s]) \in Nat /\ Len(buffer[s]) \in Nat
      /\ Len(buffer[s]) <= PreviewSize + 1 /\ PreviewSize \in Nat
  BY Sizes, StreamTypes
<1> DEFINE n == IF PreviewSize + 1 - Len(buffer[s]) < Len(chunk[s])
                THEN PreviewSize + 1 - Len(buffer[s]) ELSE Len(chunk[s])
<1>2. n \in Nat /\ n <= Len(chunk[s]) /\ n <= PreviewSize + 1 - Len(buffer[s])
  <2>1. ASSUME NEW c \in Nat, NEW b \in Nat, NEW p \in Nat, b <= p + 1
        PROVE  LET m == IF p + 1 - b < c THEN p + 1 - b ELSE c
               IN  m \in Nat /\ m <= c /\ m <= p + 1 - b
    BY <2>1
  <2> QED BY <1>1, <2>1
<1>3. Kept(s) = SubSeq(chunk[s], 1, n)
  BY DEF Kept
<1> HIDE DEF n
<1>4. SubSeq(chunk[s], 1, n) \in Seq(Nat) /\ Len(SubSeq(chunk[s], 1, n)) = n
      /\ \A i \in 1..n : SubSeq(chunk[s], 1, n)[i] = chunk[s][i]
  BY <1>1, <1>2
<1> QED BY <1>2, <1>3, <1>4 DEF n

\* So is the preview, of a buffer.
LEMMA PreviewIsPrefix ==
    ASSUME TypeOK, NEW s \in Streams
    PROVE  /\ Preview(s) \in Seq(Nat)
           /\ Len(Preview(s)) = IF PreviewSize < Len(buffer[s]) THEN PreviewSize
                                ELSE Len(buffer[s])
           /\ \A i \in 1..Len(Preview(s)) : Preview(s)[i] = buffer[s][i]
<1>1. buffer[s] \in Seq(Nat) /\ Len(buffer[s]) \in Nat /\ PreviewSize \in Nat
  BY Sizes, StreamTypes
<1> DEFINE n == IF PreviewSize < Len(buffer[s]) THEN PreviewSize ELSE Len(buffer[s])
<1>2. n \in Nat /\ n <= Len(buffer[s])
  BY <1>1
<1>3. Preview(s) = SubSeq(buffer[s], 1, n)
  BY DEF Preview
<1> HIDE DEF n
<1>4. SubSeq(buffer[s], 1, n) \in Seq(Nat) /\ Len(SubSeq(buffer[s], 1, n)) = n
      /\ \A i \in 1..n : SubSeq(buffer[s], 1, n)[i] = buffer[s][i]
  BY <1>1, <1>2
<1> QED BY <1>3, <1>4 DEF n
-------------------------------------------------------------------------------
(* Type correctness, and the course of the main thread it needs.               *)

\* How far run is tells what has become of the child and of the timeout.
Orderly ==
    /\ child = "unborn" => pc \in {"spawn", "raised"}
    /\ pc = "spawn" => child = "unborn"
    /\ pc \in {"join stdout", "join stderr"} \union Over => child # "running"
    /\ child = "killed" => timedOut
    /\ timedOut => pc \notin {"spawn", "wait", "returned"}
    /\ pc = "kill" => timedOut
    /\ pc = "returned" => child \in ExitCodes /\ result.exit_code = child

\* The first state is well typed and in order.
LEMMA TypeInit == Init => TypeOK /\ Orderly
<1> SUFFICES ASSUME Init PROVE TypeOK /\ Orderly
  OBVIOUS
<1>1. Orderly
  BY DEF Init, Orderly, Over
<1>2. <<>> \in Seq(Nat) /\ Len(<<>>) = 0 /\ 0 \in 0..MaxBytes /\ 0 <= ChunkSize
      /\ 0 <= PreviewSize + 1 /\ 0 <= 0 /\ 0 - 0 <= Capacity
  BY Sizes
<1>3. \A s \in Streams : chunk[s] = <<>> /\ buffer[s] = <<>> /\ taken[s] = 0 /\ written[s] = 0
  BY DEF Init
<1>4. \A s \in Streams :
        /\ Len(chunk[s]) <= ChunkSize /\ Len(buffer[s]) <= PreviewSize + 1
        /\ taken[s] <= written[s] /\ written[s] - taken[s] <= Capacity
  BY <1>2, <1>3
<1>5. /\ chunk \in [Streams -> Seq(Nat)] /\ buffer \in [Streams -> Seq(Nat)]
      /\ written \in [Streams -> 0..MaxBytes] /\ taken \in [Streams -> 0..MaxBytes]
  BY <1>2 DEF Init
<1>6. /\ pc = "spawn" /\ timedOut \in BOOLEAN /\ result = None /\ child = "unborn"
      /\ writers \in [Streams -> SUBSET Processes]
      /\ thread \in [Streams -> {"unborn", "reading", "done"}]
  BY DEF Init
<1> QED BY <1>1, <1>4, <1>5, <1>6 DEF TypeOK

\* Gathering bytes keeps the types of the drain threads' variables.
LEMMA GatherType ==
    ASSUME TypeOK, NEW s \in Streams, Gather(s)
    PROVE  TypeOK'
<1>1. PICK k \in 1..(written[s] - taken[s]) :
        /\ Len(chunk[s]) + k <= ChunkSize
        /\ chunk' = [chunk EXCEPT ![s] = @ \o [i \in 1..k |-> taken[s] + i]]
        /\ taken' = [taken EXCEPT ![s] = @ + k]
  BY DEF Gather
<1> DEFINE more == [i \in 1..k |-> taken[s] + i]
<1>2. /\ k \in Nat /\ taken[s] \in Nat /\ written[s] \in Nat
      /\ k <= written[s] - taken[s] /\ written[s] <= MaxBytes
      /\ written[s] - taken[s] <= Capacity
  BY StreamTypes
<1>3. more \in Seq(Nat) /\ Len(more) = k
  BY <1>2
<1>4. chunk[s] \o more \in Seq(Nat) /\ Len(chunk[s] \o more) = Len(chunk[s]) + k
  BY <1>3, StreamTypes
<1>5. taken[s] + k \in 0..MaxBytes /\ taken[s] + k <= written[s]
      /\ written[s] - (taken[s] + k) <= Capacity
  BY <1>2, Sizes
<1>6. /\ chunk' \in [Streams -> Seq(Nat)] /\ taken' \in [Streams -> 0..MaxBytes]
      /\ chunk'[s] = chunk[s] \o more /\ taken'[s] = taken[s] + k
      /\ \A t \in Streams \ {s} : chunk'[t] = chunk[t] /\ taken'[t] = taken[t]
  <2>1. chunk \in [Streams -> Seq(Nat)] /\ taken \in [Streams -> 0..MaxBytes]
    BY Zenon DEF TypeOK
  <2>2. chunk' = [chunk EXCEPT ![s] = chunk[s] \o more]
        /\ taken' = [taken EXCEPT ![s] = taken[s] + k]
    BY <1>1
  <2> HIDE DEF more
  <2> QED BY <1>4, <1>5, <2>1, <2>2
<1>7. UNCHANGED <<pc, timedOut, result, child, writers, written, thread, buffer>>
  BY DEF Gather, main, pipes
<1> HIDE DEF more
<1>8. \A t \in Streams :
        /\ Len(chunk'[t]) <= ChunkSize /\ Len(buffer'[t]) <= PreviewSize + 1
        /\ taken'[t] <= written'[t] /\ written'[t] - taken'[t] <= Capacity
  BY <1>1, <1>4, <1>5, <1>6, <1>7, StreamTypes DEF more
<1> QED BY <1>6, <1>7, <1>8, Zenon DEF TypeOK

\* So does moving a chunk to the buffer ...
LEMMA ExtendType ==
    ASSUME TypeOK, NEW s \in Streams, Extend(s)
    PROVE  TypeOK'
<1>1. /\ buffer' = [buffer EXCEPT ![s] = buffer[s] \o Kept(s)]
      /\ chunk' = [chunk EXCEPT ![s] = <<>>]
      /\ UNCHANGED <<pc, timedOut, result, child, writers, written, thread, taken>>
  BY DEF Extend, main, pipes
<1>2. /\ buffer[s] \o Kept(s) \in Seq(Nat)
      /\ Len(buffer[s] \o Kept(s)) = Len(buffer[s]) + Len(Kept(s))
  BY KeptIsPrefix, StreamTypes
<1>3. Len(Kept(s)) <= PreviewSize + 1 - Len(buffer[s])
  BY KeptIsPrefix
<1>4. Len(Kept(s)) \in Nat
  BY KeptIsPrefix
<1>5. Len(buffer[s] \o Kept(s)) <= PreviewSize + 1
  BY <1>2, <1>3, <1>4, StreamTypes, Sizes
<1>6. /\ chunk' \in [Streams -> Seq(Nat)] /\ buffer' \in [Streams -> Seq(Nat)]
      /\ chunk'[s] = <<>> /\ buffer'[s] = buffer[s] \o Kept(s)
      /\ \A t \in Streams \ {s} : chunk'[t] = chunk[t] /\ buffer'[t] = buffer[t]
  <2>1. chunk \in [Streams -> Seq(Nat)] /\ buffer \in [Streams -> Seq(Nat)]
    BY Zenon DEF TypeOK
  <2>2. <<>> \in Seq(Nat)
    OBVIOUS
  <2> QED BY <1>1, <1>2, <2>1, <2>2
<1>7. \A t \in Streams :
        /\ Len(chunk'[t]) <= ChunkSize /\ Len(buffer'[t]) <= PreviewSize + 1
        /\ taken'[t] <= written'[t] /\ written'[t] - taken'[t] <= Capacity
  BY <1>1, <1>5, <1>6, StreamTypes, Sizes
<1> QED BY <1>1, <1>6, <1>7, Zenon DEF TypeOK

\* ... the end of a stream, and the start of the threads.
LEMMA ThreadType ==
    ASSUME TypeOK, Spawn \/ (\E s \in Streams : EndOfStream(s))
    PROVE  TypeOK'
<1>1. CASE Spawn
  <2>1. /\ pc' = "wait" /\ child' = "running"
        /\ writers' \in [Streams -> SUBSET Processes]
        /\ thread' \in [Streams -> {"unborn", "reading", "done"}]
        /\ UNCHANGED <<timedOut, result, written, taken, chunk, buffer>>
    BY <1>1 DEF Spawn, Processes
  <2> QED BY <2>1, Zenon DEF TypeOK
<1>2. ASSUME NEW s \in Streams, EndOfStream(s) PROVE TypeOK'
  <2>1. thread \in [Streams -> {"unborn", "reading", "done"}]
    BY Zenon DEF TypeOK
  <2>2. /\ thread' \in [Streams -> {"unborn", "reading", "done"}]
        /\ UNCHANGED <<main, pipes, taken, chunk, buffer>>
    BY <1>2, <2>1 DEF EndOfStream
  <2> QED BY <2>2, Zenon DEF TypeOK, main, pipes
<1> QED BY <1>1, <1>2

\* What the child and its helper do to their streams.
LEMMA WriterType ==
    ASSUME TypeOK, NEW s \in Streams, NEW p \in Processes,
           WriteByte(p, s) \/ CloseStream(p, s)
    PROVE  TypeOK'
<1>1. CASE WriteByte(p, s)
  <2>1. /\ written' = [written EXCEPT ![s] = written[s] + 1]
        /\ written[s] < MaxBytes /\ written[s] - taken[s] # Capacity
        /\ UNCHANGED <<pc, timedOut, result, child, writers, taken, thread, chunk, buffer>>
    BY <1>1 DEF WriteByte, Full, main, drains
  <2>2. written \in [Streams -> 0..MaxBytes]
    BY Zenon DEF TypeOK
  <2>3. /\ written[s] + 1 \in 0..MaxBytes /\ taken[s] <= written[s] + 1
        /\ written[s] + 1 - taken[s] <= Capacity
    BY <2>1, StreamTypes, Sizes
  <2>4. /\ written' \in [Streams -> 0..MaxBytes] /\ written'[s] = written[s] + 1
        /\ \A t \in Streams \ {s} : written'[t] = written[t]
    BY <2>1, <2>2, <2>3
  <2>5. \A t \in Streams :
          taken'[t] <= written'[t] /\ written'[t] - taken'[t] <= Capacity
    BY <2>1, <2>3, <2>4, StreamTypes
  <2> QED BY <2>1, <2>4, <2>5, Zenon DEF TypeOK
<1>2. CASE CloseStream(p, s)
  <2>1. writers \in [Streams -> SUBSET Processes]
    BY Zenon DEF TypeOK
  <2>2. /\ writers' \in [Streams -> SUBSET Processes]
        /\ UNCHANGED <<pc, timedOut, result, child, written, taken, thread, chunk, buffer>>
    BY <1>2, <2>1 DEF CloseStream, main, drains
  <2> QED BY <2>2, Zenon DEF TypeOK
<1> QED BY <1>1, <1>2

\* The main thread short of returning, and the child's own steps.
LEMMA MainType ==
    ASSUME TypeOK,
           SpawnFails \/ Wait \/ Timeout \/ Kill \/ JoinStdout \/ RaiseTimeout
             \/ Fork \/ Exit \/ Interrupt
    PROVE  TypeOK'
<1>1. writers \in [Streams -> SUBSET Processes] /\ timedOut \in BOOLEAN
      /\ pc \in {"spawn", "wait", "kill", "join stdout", "join stderr"} \union Ended
      /\ child \in {"unborn", "running", "killed"} \union ExitCodes
  BY Zenon DEF TypeOK
<1>2. /\ pc' \in {"spawn", "wait", "kill", "join stdout", "join stderr"} \union Ended
      /\ timedOut' \in BOOLEAN
      /\ child' \in {"unborn", "running", "killed"} \union ExitCodes
      /\ writers' \in [Streams -> SUBSET Processes]
      /\ UNCHANGED <<result, written, taken, thread, chunk, buffer>>
  BY <1>1 DEF SpawnFails, Wait, Timeout, Kill, JoinStdout, RaiseTimeout, Fork, Exit,
       Interrupt, WithoutChild, Processes, Ended, Over, main, pipes, drains
<1> QED BY <1>2, Zenon DEF TypeOK

\* The return: a child that did not time out has an exit code by then.
LEMMA ReturnType ==
    ASSUME TypeOK, Orderly, Return
    PROVE  TypeOK' /\ result' \in Results
<1>1. child \in ExitCodes
  <2>1. child \in {"unborn", "running", "killed"} \union ExitCodes
    BY Zenon DEF TypeOK
  <2> QED BY <2>1 DEF Orderly, Return
<1>2. \A s \in Streams : Preview(s) \in Seq(Nat)
  BY PreviewIsPrefix
<1>3. \A s \in Streams : (Len(buffer[s]) > PreviewSize) \in BOOLEAN
  OBVIOUS
<1>4. Result \in Results
  BY <1>1, <1>2, <1>3 DEF Result, Results
<1>5. /\ pc' = "returned" /\ result' = Result
      /\ UNCHANGED <<timedOut, child, writers, written, taken, thread, chunk, buffer>>
  BY DEF Return, pipes, drains
<1>6. pc' \in Ended
  BY <1>5 DEF Ended, Over
<1> QED BY <1>4, <1>5, <1>6, Zenon DEF TypeOK

\* Every step keeps the course of the main thread.
LEMMA OrderlyNext == TypeOK /\ Orderly /\ [Next]_vars => Orderly'
<1> SUFFICES ASSUME TypeOK, Orderly, [Next]_vars PROVE Orderly'
  OBVIOUS
<1>1. child \in {"unborn", "running", "killed"} \union ExitCodes /\ timedOut \in BOOLEAN
  BY Zenon DEF TypeOK
<1>2. CASE UNCHANGED <<pc, timedOut, child, result>>
  BY <1>2 DEF Orderly
<1>3. CASE Return
  <2>1. child \in ExitCodes
    BY <1>1, <1>3 DEF Orderly, Return
  <2>2. result'.exit_code = child
    BY <1>3 DEF Return, Result
  <2> QED BY <1>3, <2>1, <2>2 DEF Orderly, Return, Over, ExitCodes, pipes
<1>4. CASE Spawn \/ SpawnFails \/ Wait \/ Timeout \/ Kill \/ JoinStdout \/ RaiseTimeout
  <2>1. CASE Spawn
    BY <2>1 DEF Orderly, Spawn, Over
  <2>2. CASE SpawnFails
    BY <2>2 DEF Orderly, SpawnFails, Over, pipes
  <2>3. CASE Wait
    BY <2>3 DEF Orderly, Wait, Over, pipes
  <2>4. CASE Timeout
    BY <2>4 DEF Orderly, Timeout, Over, pipes
  <2>5. CASE Kill
    BY <2>5 DEF Orderly, Kill, Over
  <2>6. CASE JoinStdout
    BY <2>6 DEF Orderly, JoinStdout, Over, pipes
  <2>7. CASE RaiseTimeout
    BY <2>7 DEF Orderly, RaiseTimeout, Over, pipes
  <2> QED BY <1>4, <2>1, <2>2, <2>3, <2>4, <2>5, <2>6, <2>7
<1>5. CASE Exit \/ Interrupt
  <2>1. CASE Exit
    BY <2>1 DEF Orderly, Exit, Over, ExitCodes, main
  <2>2. CASE Interrupt
    BY <2>2 DEF Orderly, Interrupt, Over, Ended, pipes
  <2> QED BY <1>5, <2>1, <2>2
<1>6. ASSUME NEW s \in Streams, Drain(s) PROVE UNCHANGED <<pc, timedOut, child, result>>
  BY <1>6 DEF Drain, Gather, Extend, EndOfStream, main, pipes
<1>7. ASSUME NEW s \in Streams, NEW p \in Processes, WriteByte(p, s) \/ CloseStream(p, s)
      PROVE  UNCHANGED <<pc, timedOut, child, result>>
  BY <1>7 DEF WriteByte, CloseStream, main
<1>8. Fork \/ UNCHANGED vars => UNCHANGED <<pc, timedOut, child, result>>
  BY DEF Fork, vars, main, pipes
<1> QED BY <1>2, <1>3, <1>4, <1>5, <1>6, <1>7, <1>8 DEF Next, Run

\* Every step keeps the types; only a return needs the course of the main thread.
LEMMA TypeNext == TypeOK /\ Orderly /\ [Next]_vars => TypeOK'
<1> SUFFICES ASSUME TypeOK, Orderly, [Next]_vars PROVE TypeOK'
  OBVIOUS
<1>1. ASSUME NEW s \in Streams, Drain(s) PROVE TypeOK'
  BY <1>1, GatherType, ExtendType, ThreadType DEF Drain
<1>2. CASE UNCHANGED vars
  BY <1>2, Zenon DEF TypeOK, vars, main, pipes, drains
<1> QED BY <1>1, <1>2, ThreadType, WriterType, MainType, ReturnType DEF Next, Run

\* Both hold in every state.
LEMMA Course == Spec => [](TypeOK /\ Orderly)
BY TypeInit, TypeNext, OrderlyNext, PTL DEF Spec

\* The state of a test run is well typed: whatever its child writes, no thread
\* keeps more than the preview and one byte (_drain_stream).
THEOREM Typing == Spec => []TypeOK
BY Course, PTL

\* A run that timed out never returns a result, and one that did not returns the
\* exit code of a child that is over (TestCommandExecutor.run).
THEOREM FinalTimeouts == Spec => []TimeoutIsFinal
<1>1. TypeOK /\ Orderly => TimeoutIsFinal
  BY DEF Orderly, TimeoutIsFinal, Over
<1> QED BY <1>1, Course, PTL
-------------------------------------------------------------------------------
(* Exact results: a drain thread holds the first bytes of what it has taken,   *)
(* and is done only when there is nothing left to take and nobody to write.    *)

\* q holds consecutive positions, the first being n + 1.
Counts(q, n) == \A i \in 1..Len(q) : q[i] = n + i

\* Consecutive positions followed by the next ones are consecutive positions.
LEMMA CountsOn ==
    ASSUME NEW p \in Seq(Nat), NEW q \in Seq(Nat), NEW n \in Nat,
           Counts(p, n), Len(q) > 0 => Counts(q, n + Len(p))
    PROVE  /\ p \o q \in Seq(Nat) /\ Len(p \o q) = Len(p) + Len(q)
           /\ Counts(p \o q, n)
<1>1. Len(p) \in Nat /\ Len(q) \in Nat
  OBVIOUS
<1>2. p \o q \in Seq(Nat) /\ Len(p \o q) = Len(p) + Len(q)
  OBVIOUS
<1>3. ASSUME NEW i \in 1..(Len(p) + Len(q)) PROVE (p \o q)[i] = n + i
  <2>1. CASE i <= Len(p)
    BY <1>1, <2>1 DEF Counts
  <2>2. CASE i > Len(p)
    <3>1. (p \o q)[i] = q[i - Len(p)]
      BY <1>1, <2>2
    <3>2. i - Len(p) \in 1..Len(q)
      BY <1>1, <2>2
    <3>3. q[i - Len(p)] = n + Len(p) + (i - Len(p))
      BY <1>1, <3>2 DEF Counts
    <3> QED BY <1>1, <3>1, <3>3
  <2> QED BY <1>1, <2>1, <2>2
<1> QED BY <1>2, <1>3 DEF Counts

\* Bytes of stream s that went from chunks to the buffer, or were dropped there.
Delivered(s) == taken[s] - Len(chunk[s])
Least(m, n) == IF m < n THEN m ELSE n

\* Chunk and buffer of s hold the last and the first of the bytes taken.
Gathered(s) ==
    /\ Len(chunk[s]) <= taken[s] /\ Counts(chunk[s], Delivered(s))
    /\ Len(buffer[s]) = Least(Delivered(s), PreviewSize + 1) /\ Counts(buffer[s], 0)

\* A thread that is done has seen the end of its stream.
Drained(s) == thread[s] = "done" => chunk[s] = <<>> /\ Eof(s)

\* Threads start with the child, and are done when run has joined them.
Joined ==
    /\ pc = "spawn" => \A s \in Streams : thread[s] = "unborn"
    /\ pc \in {"join stderr", "returned"} => thread["stdout"] = "done"
    /\ pc = "returned" => thread["stderr"] = "done"

\* What was returned is what the buffers say.
Reported == pc = "returned" => \A s \in Streams :
    /\ result.preview[s] = Preview(s)
    /\ result.truncated[s] <=> Len(buffer[s]) > PreviewSize

\* stream.read appends the next bytes of the stream to the chunk ...
LEMMA GatheredByGather ==
    ASSUME TypeOK, NEW s \in Streams, Gathered(s), Gather(s)
    PROVE  Gathered(s)'
<1>1. PICK k \in 1..(written[s] - taken[s]) :
        /\ chunk' = [chunk EXCEPT ![s] = @ \o [i \in 1..k |-> taken[s] + i]]
        /\ taken' = [taken EXCEPT ![s] = @ + k]
  BY DEF Gather
<1> DEFINE more == [i \in 1..k |-> taken[s] + i]
<1>2. k \in Nat /\ taken[s] \in Nat
  BY StreamTypes
<1>3. more \in Seq(Nat) /\ Len(more) = k /\ Counts(more, taken[s])
  BY <1>2 DEF Counts
<1>4. chunk'[s] = chunk[s] \o more /\ taken'[s] = taken[s] + k /\ buffer'[s] = buffer[s]
  <2>1. chunk \in [Streams -> Seq(Nat)] /\ taken \in [Streams -> 0..MaxBytes]
    BY Zenon DEF TypeOK
  <2> QED BY <1>1, <2>1 DEF Gather
<1> HIDE DEF more
<1>5. Delivered(s) \in Nat /\ Delivered(s) + Len(chunk[s]) = taken[s]
  BY <1>2, StreamTypes DEF Gathered, Delivered
<1>6. /\ Len(chunk[s] \o more) = Len(chunk[s]) + k
      /\ Counts(chunk[s] \o more, Delivered(s))
  BY <1>3, <1>5, CountsOn, StreamTypes DEF Gathered
<1>7. /\ Len(chunk'[s]) = Len(chunk[s]) + k
      /\ Counts(chunk'[s], Delivered(s))
  BY <1>4, <1>6
<1>8. Delivered(s)' = Delivered(s)
  BY <1>2, <1>4, <1>7, StreamTypes DEF Delivered
<1>9. Len(chunk'[s]) <= taken'[s]
  BY <1>2, <1>4, <1>7, StreamTypes DEF Gathered
<1> QED BY <1>4, <1>7, <1>8, <1>9 DEF Gathered, Counts

\* ... and buffer.extend what still fits of it, which leaves no gap: the buffer takes
\* nothing more only when it is full.
LEMMA GatheredByExtend ==
    ASSUME TypeOK, NEW s \in Streams, Gathered(s), Extend(s)
    PROVE  Gathered(s)'
<1>1. chunk'[s] = <<>> /\ buffer'[s] = buffer[s] \o Kept(s) /\ taken' = taken
  <2>1. chunk \in [Streams -> Seq(Nat)] /\ buffer \in [Streams -> Seq(Nat)]
    BY Zenon DEF TypeOK
  <2> QED BY <2>1 DEF Extend
<1>2. /\ Kept(s) \in Seq(Nat) /\ Len(Kept(s)) \in Nat
      /\ Len(Kept(s)) = Least(PreviewSize + 1 - Len(buffer[s]), Len(chunk[s]))
      /\ Len(Kept(s)) <= Len(chunk[s])
  BY KeptIsPrefix DEF Least
<1>3. /\ Delivered(s) \in Nat /\ Delivered(s) + Len(chunk[s]) = taken[s]
      /\ Len(buffer[s]) = Least(Delivered(s), PreviewSize + 1)
      /\ Counts(buffer[s], 0) /\ Counts(chunk[s], Delivered(s))
  BY StreamTypes DEF Gathered, Delivered
<1>4. Counts(Kept(s), Delivered(s))
  <2>1. \A i \in 1..Len(Kept(s)) : i \in 1..Len(chunk[s])
    BY <1>2, StreamTypes
  <2> QED BY <1>3, <2>1, KeptIsPrefix DEF Counts
<1>5. /\ Len(Kept(s)) > 0 => Len(buffer[s]) = Delivered(s)
      /\ Len(buffer[s]) + Len(Kept(s)) = Least(taken[s], PreviewSize + 1)
  <2>1. ASSUME NEW c \in Nat, NEW d \in Nat, NEW p \in Nat, NEW b \in Nat, NEW k \in Nat,
               b = Least(d, p + 1), k = Least(p + 1 - b, c)
        PROVE  (k > 0 => b = d) /\ b + k = Least(d + c, p + 1)
    BY <2>1 DEF Least
  <2>2. /\ Len(chunk[s]) \in Nat /\ Delivered(s) \in Nat /\ PreviewSize \in Nat
        /\ Len(buffer[s]) \in Nat /\ Len(Kept(s)) \in Nat
    BY <1>2, <1>3, StreamTypes, Sizes
  <2> HIDE DEF Least
  <2>3. /\ Len(Kept(s)) > 0 => Len(buffer[s]) = Delivered(s)
        /\ Len(buffer[s]) + Len(Kept(s)) = Least(Delivered(s) + Len(chunk[s]), PreviewSize + 1)
    BY <1>2, <1>3, <2>1, <2>2
  <2> QED BY <1>3, <2>3
<1>6. /\ Len(buffer[s] \o Kept(s)) = Len(buffer[s]) + Len(Kept(s))
      /\ Counts(buffer[s] \o Kept(s), 0)
  <2>1. Len(Kept(s)) > 0 => Counts(Kept(s), 0 + Len(buffer[s]))
    BY <1>3, <1>4, <1>5
  <2> QED BY <1>2, <1>3, <2>1, CountsOn, StreamTypes
<1>7. Len(chunk'[s]) = 0 /\ Delivered(s)' = taken[s] /\ taken[s] \in Nat
  BY <1>1, StreamTypes DEF Delivered
<1> QED BY <1>1, <1>5, <1>6, <1>7 DEF Gathered, Counts

\* No step disturbs what a drain thread has of its stream.
LEMMA GatheredNext ==
    TypeOK /\ (\A s \in Streams : Gathered(s)) /\ [Next]_vars
        => \A s \in Streams : Gathered(s)'
<1> SUFFICES ASSUME TypeOK, \A s \in Streams : Gathered(s), [Next]_vars,
                    NEW s \in Streams
             PROVE  Gathered(s)'
  OBVIOUS
<1>1. CASE taken'[s] = taken[s] /\ chunk'[s] = chunk[s] /\ buffer'[s] = buffer[s]
  BY <1>1 DEF Gathered, Delivered, Counts
<1>2. ASSUME NEW t \in Streams, Drain(t)
      PROVE  Gathered(s)'
  <2>1. CASE t = s /\ (Gather(t) \/ Extend(t))
    BY <2>1, GatheredByGather, GatheredByExtend
  <2>2. CASE t # s \/ EndOfStream(t)
    <3>1. chunk \in [Streams -> Seq(Nat)] /\ buffer \in [Streams -> Seq(Nat)]
          /\ taken \in [Streams -> 0..MaxBytes]
      BY Zenon DEF TypeOK
    <3>2. taken'[s] = taken[s] /\ chunk'[s] = chunk[s] /\ buffer'[s] = buffer[s]
      BY <1>2, <2>2, <3>1 DEF Drain, Gather, Extend, EndOfStream
    <3> QED BY <1>1, <3>2
  <2> QED BY <1>2, <2>1, <2>2 DEF Drain
<1>3. Spawn \/ UNCHANGED drains \/ UNCHANGED vars => Gathered(s)'
  BY <1>1 DEF Spawn, drains, vars
<1> QED BY <1>2, <1>3, MainKeepsDrains DEF Next, Run

\* The end of a stream is final: nobody can write to it or get hold of it again.
LEMMA DrainedNext ==
    ASSUME TypeOK, Joined, [Next]_vars, NEW s \in Streams, Drained(s)
    PROVE  Drained(s)'
<1>1. /\ chunk \in [Streams -> Seq(Nat)] /\ thread \in [Streams -> {"unborn", "reading", "done"}]
      /\ writers \in [Streams -> SUBSET Processes]
      /\ written \in [Streams -> 0..MaxBytes] /\ taken \in [Streams -> 0..MaxBytes]
  BY Zenon DEF TypeOK
<1>2. CASE Spawn
  BY <1>2 DEF Spawn, Drained
<1>3. ASSUME NEW t \in Streams, Drain(t) PROVE Drained(s)'
  <2>1. CASE Gather(t)
    <3>1. t = s => thread[s] = "reading"
      BY <2>1 DEF Gather
    <3>2. thread' = thread /\ writers' = writers /\ written' = written
          /\ (t # s => chunk'[s] = chunk[s] /\ taken'[s] = taken[s])
      BY <1>1, <2>1 DEF Gather, pipes
    <3> QED BY <3>1, <3>2 DEF Drained, Eof
  <2>2. CASE Extend(t)
    BY <1>1, <2>2 DEF Extend, Drained, Eof, pipes
  <2>3. CASE EndOfStream(t)
    BY <1>1, <2>3 DEF EndOfStream, Drained, Eof, pipes
  <2> QED BY <1>3, <2>1, <2>2, <2>3 DEF Drain
<1>4. ASSUME NEW t \in Streams, NEW p \in Processes, WriteByte(p, t) \/ CloseStream(p, t)
      PROVE  Drained(s)'
  <2>1. CASE WriteByte(p, t)
    BY <1>1, <2>1 DEF WriteByte, Drained, Eof, drains
  <2>2. CASE CloseStream(p, t)
    BY <1>1, <2>2 DEF CloseStream, Drained, Eof, drains
  <2> QED BY <1>4, <2>1, <2>2
<1>5. CASE Fork \/ Exit \/ Kill
  BY <1>1, <1>5 DEF Fork, Exit, Kill, WithoutChild, Drained, Eof, drains
<1>6. CASE SpawnFails \/ Wait \/ Timeout \/ JoinStdout \/ Return \/ RaiseTimeout
             \/ Interrupt \/ UNCHANGED vars
  <2>1. UNCHANGED <<pipes, drains>>
    BY <1>6 DEF SpawnFails, Wait, Timeout, JoinStdout, Return, RaiseTimeout, Interrupt, vars
  <2> QED BY <2>1 DEF Drained, Eof, pipes, drains
<1> QED BY <1>2, <1>3, <1>4, <1>5, <1>6 DEF Next, Run

\* run is past a join only when that thread is done, and threads do not revive.
LEMMA JoinedNext == TypeOK /\ Joined /\ [Next]_vars => Joined'
<1> SUFFICES ASSUME TypeOK, Joined, [Next]_vars PROVE Joined'
  OBVIOUS
<1>1. thread \in [Streams -> {"unborn", "reading", "done"}]
  BY Zenon DEF TypeOK
<1>2. CASE UNCHANGED <<pc, thread>>
  BY <1>2 DEF Joined
<1>3. ASSUME NEW t \in Streams, Drain(t) PROVE Joined'
  <2>1. CASE EndOfStream(t)
    <3>1. pc' = pc /\ thread[t] = "reading" /\ thread' = [thread EXCEPT ![t] = "done"]
      BY <2>1 DEF EndOfStream, main
    <3>2. \A s \in Streams : thread'[s] = thread[s] \/ thread'[s] = "done"
      BY <1>1, <3>1
    <3>3. pc # "spawn"
      BY <3>1 DEF Joined
    <3>4. "stdout" \in Streams /\ "stderr" \in Streams
      BY DEF Streams
    <3> QED BY <3>1, <3>2, <3>3, <3>4 DEF Joined
  <2>2. CASE Gather(t) \/ Extend(t)
    BY <1>2, <2>2 DEF Gather, Extend, main
  <2> QED BY <1>3, <2>1, <2>2 DEF Drain
<1>4. CASE Spawn \/ SpawnFails \/ Wait \/ Timeout \/ Kill
  BY <1>4 DEF Spawn, SpawnFails, Wait, Timeout, Kill, Joined, drains
<1>5. CASE JoinStdout \/ Return \/ RaiseTimeout \/ Interrupt
  <2>1. CASE JoinStdout
    BY <2>1 DEF JoinStdout, Joined, drains
  <2>2. CASE Return
    BY <2>2 DEF Return, Joined, drains
  <2>3. CASE RaiseTimeout
    BY <2>3 DEF RaiseTimeout, Joined, drains
  <2>4. CASE Interrupt
    BY <2>4 DEF Interrupt, Joined, drains
  <2> QED BY <1>5, <2>1, <2>2, <2>3, <2>4
<1>6. CASE Fork \/ Exit \/ UNCHANGED vars
  BY <1>2, <1>6 DEF Fork, Exit, main, drains, vars
<1>7. ASSUME NEW s \in Streams, NEW p \in Processes, WriteByte(p, s) \/ CloseStream(p, s)
      PROVE  Joined'
  BY <1>2, <1>7 DEF WriteByte, CloseStream, main, drains
<1> QED BY <1>3, <1>4, <1>5, <1>6, <1>7 DEF Next, Run

\* The result is taken from buffers that nobody extends any more.
LEMMA ReportedNext ==
    TypeOK /\ Joined /\ Reported /\ [Next]_vars => Reported'
<1> SUFFICES ASSUME TypeOK, Joined, Reported, [Next]_vars, pc' = "returned"
             PROVE  \A s \in Streams :
                      /\ result'.preview[s] = Preview(s)'
                      /\ result'.truncated[s] <=> Len(buffer'[s]) > PreviewSize
  BY DEF Reported
<1>1. CASE UNCHANGED <<pc, result, buffer>>
  BY <1>1 DEF Reported, Preview
<1>2. CASE Return
  <2>1. result' = Result /\ buffer' = buffer
    BY <1>2 DEF Return, drains
  <2>2. \A s \in Streams : Preview(s)' = Preview(s)
    BY <2>1 DEF Preview
  <2>3. \A s \in Streams :
          /\ Result.preview[s] = Preview(s)
          /\ Result.truncated[s] = (Len(buffer[s]) > PreviewSize)
    BY DEF Result
  <2> QED BY <2>1, <2>2, <2>3
<1>3. ASSUME NEW t \in Streams, Drain(t) PROVE FALSE
  <2>1. pc = "returned" /\ thread[t] = "reading"
    BY <1>3 DEF Drain, Gather, Extend, EndOfStream, main
  <2> QED BY <2>1 DEF Joined, Streams
<1>4. ~(Spawn \/ SpawnFails \/ Wait \/ Timeout \/ Kill \/ JoinStdout \/ RaiseTimeout
          \/ Interrupt)
  BY DEF Spawn, SpawnFails, Wait, Timeout, Kill, JoinStdout, RaiseTimeout, Interrupt
<1>5. CASE Fork \/ Exit \/ UNCHANGED vars
  BY <1>1, <1>5 DEF Fork, Exit, main, drains, vars
<1>6. ASSUME NEW s \in Streams, NEW p \in Processes, WriteByte(p, s) \/ CloseStream(p, s)
      PROVE  UNCHANGED <<pc, result, buffer>>
  BY <1>6 DEF WriteByte, CloseStream, main, drains
<1> QED BY <1>1, <1>2, <1>3, <1>4, <1>5, <1>6 DEF Next, Run

\* The inductive invariant of exact results.
Exactness ==
    (\A s \in Streams : Gathered(s) /\ Drained(s)) /\ Joined /\ Reported

\* Nothing is written, gathered or reported at first.
LEMMA ExactnessInit == Init => Exactness
<1> SUFFICES ASSUME Init PROVE Exactness
  OBVIOUS
<1>1. \A s \in Streams :
        chunk[s] = <<>> /\ buffer[s] = <<>> /\ taken[s] = 0 /\ thread[s] = "unborn"
  BY DEF Init
<1>2. Len(<<>>) = 0 /\ Least(0, PreviewSize + 1) = 0
  BY Sizes DEF Least
<1>3. \A s \in Streams : Gathered(s) /\ Drained(s)
  BY <1>1, <1>2 DEF Gathered, Delivered, Counts, Drained
<1> QED BY <1>1, <1>3 DEF Init, Exactness, Joined, Reported

\* Every step keeps it.
LEMMA ExactnessNext == TypeOK /\ Exactness /\ [Next]_vars => Exactness'
<1> SUFFICES ASSUME TypeOK, Exactness, [Next]_vars PROVE Exactness'
  OBVIOUS
<1>1. \A s \in Streams : Gathered(s)'
  BY GatheredNext DEF Exactness
<1>2. \A s \in Streams : Drained(s)'
  BY DrainedNext DEF Exactness
<1>3. Joined' /\ Reported'
  BY JoinedNext, ReportedNext DEF Exactness
<1> QED BY <1>1, <1>2, <1>3 DEF Exactness

\* The previews of run are the first bytes of all that was written before the
\* streams ended, and truncated says whether there were more, whatever the sizes of
\* previews, chunks and pipes and whichever processes had the pipes.
THEOREM ExactResults == Spec => []ResultIsExact
<1>1. TypeOK /\ Exactness => ResultIsExact
  <2> SUFFICES ASSUME TypeOK, Exactness, pc = "returned", NEW s \in Streams
               PROVE  /\ result.preview[s] =
                           [i \in 1..(IF written[s] < PreviewSize
                                      THEN written[s] ELSE PreviewSize) |-> i]
                      /\ result.truncated[s] <=> written[s] > PreviewSize
    BY DEF ResultIsExact
  <2>1. thread[s] = "done"
    BY DEF Exactness, Joined, Streams
  <2>2. chunk[s] = <<>> /\ taken[s] = written[s]
    BY <2>1 DEF Exactness, Drained, Eof
  <2>3. written[s] \in Nat
    BY StreamTypes
  <2>4. Len(buffer[s]) = Least(written[s], PreviewSize + 1) /\ Counts(buffer[s], 0)
    <3>1. Len(<<>>) = 0 /\ Delivered(s) = written[s]
      BY <2>2, <2>3 DEF Delivered
    <3> QED BY <3>1 DEF Exactness, Gathered
  <2>5. Len(buffer[s]) > PreviewSize <=> written[s] > PreviewSize
    BY <2>3, <2>4, Sizes DEF Least
  <2>6. /\ Preview(s) \in Seq(Nat)
        /\ Len(Preview(s)) = Least(written[s], PreviewSize)
        /\ Len(Preview(s)) <= Len(buffer[s])
    <3>1. ASSUME NEW w \in Nat, NEW p \in Nat, NEW b \in Nat, b = Least(w, p + 1)
          PROVE  Least(p, b) = Least(w, p) /\ Least(p, b) <= b
      BY <3>1 DEF Least
    <3>2. Preview(s) \in Seq(Nat) /\ Len(Preview(s)) = Least(PreviewSize, Len(buffer[s]))
      BY PreviewIsPrefix DEF Least
    <3> HIDE DEF Least
    <3> QED BY <2>3, <2>4, <3>1, <3>2, StreamTypes, Sizes
  <2>7. \A i \in 1..Len(Preview(s)) : Preview(s)[i] = i
    <3>1. Len(Preview(s)) \in Nat /\ Len(buffer[s]) \in Nat
      BY <2>6, StreamTypes
    <3>2. \A i \in 1..Len(Preview(s)) : i \in 1..Len(buffer[s])
      BY <2>6, <3>1
    <3> QED BY <2>4, <3>2, PreviewIsPrefix DEF Counts
  <2>8. Preview(s) = [i \in 1..Least(written[s], PreviewSize) |-> i]
    BY <2>6, <2>7
  <2> QED BY <2>5, <2>8 DEF Exactness, Reported, Least
<1>2. Spec => []Exactness
  BY Course, ExactnessInit, ExactnessNext, PTL DEF Spec
<1> QED BY <1>1, <1>2, Course, PTL
===============================================================================
