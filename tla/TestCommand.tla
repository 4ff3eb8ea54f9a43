------------------------------ MODULE TestCommand ------------------------------
(***************************************************************************)
(* TestCommandExecutor.run: a child process, two threads that drain its    *)
(* output, and a main thread that waits for the child with a timeout and   *)
(* then for the threads.  The child may hand the write ends of its pipes   *)
(* to a helper process, which kill() does not reach.  Bytes are known by   *)
(* their position in the stream, so a buffer is the sequence of positions  *)
(* that it holds; the clock is left out, the timeout may strike any time.  *)
(***************************************************************************)
EXTENDS Integers, Sequences

CONSTANTS
    PreviewSize,    \* preview_chars
    ChunkSize,      \* argument of stream.read
    Capacity,       \* bytes that a pipe holds before its writers block
    MaxBytes,       \* bound on what is written to each stream
    None            \* no result yet

Streams == {"stdout", "stderr"}
Processes == {"child", "helper"}
ExitCodes == {"zero", "nonzero"}
Results ==
    [exit_code : ExitCodes, preview : [Streams -> Seq(Nat)],
     truncated : [Streams -> BOOLEAN]]

ASSUME SizeAssumption == {PreviewSize, ChunkSize, Capacity, MaxBytes} \subseteq Nat \ {0}
ASSUME NoneAssumption == None \notin Results

VARIABLES
    pc,             \* where run is
    timedOut,       \* run is in the except clause of the timeout
    result,         \* the value returned
    child,          \* the child process, or how it ended
    writers,        \* writers[s]: processes that hold the write end of s
    written,        \* written[s]: bytes written to pipe s so far
    taken,          \* taken[s]: bytes read from it so far
    thread,         \* thread[s]: the drain thread of s
    chunk,          \* chunk[s]: what its stream.read has gathered
    buffer          \* buffer[s]: stdout_buffer, stderr_buffer

main == <<pc, timedOut, result>>
pipes == <<child, writers, written>>
drains == <<taken, thread, chunk, buffer>>
vars == <<main, pipes, drains>>
-------------------------------------------------------------------------------
Over == {"returned", "raised"}
Ended == Over \union {"interrupted"}

Init ==
    /\ pc = "spawn" /\ timedOut = FALSE /\ result = None
    /\ child = "unborn"
    /\ writers = [s \in Streams |-> {}]
    /\ written = [s \in Streams |-> 0]
    /\ taken = [s \in Streams |-> 0]
    /\ thread = [s \in Streams |-> "unborn"]
    /\ chunk = [s \in Streams |-> <<>>]
    /\ buffer = [s \in Streams |-> <<>>]

Full(s) == written[s] - taken[s] = Capacity
Eof(s) == written[s] = taken[s] /\ writers[s] = {}
-------------------------------------------------------------------------------
(* The child and its helper.                                                   *)

WriteByte(p, s) ==
    /\ p \in writers[s] /\ ~Full(s) /\ written[s] < MaxBytes
    /\ written' = [written EXCEPT ![s] = @ + 1]
    /\ UNCHANGED <<main, child, writers, drains>>

CloseStream(p, s) ==
    /\ p \in writers[s]
    /\ writers' = [writers EXCEPT ![s] = @ \ {p}]
    /\ UNCHANGED <<main, child, written, drains>>

\* The helper inherits whatever the child has open.
Fork ==
    /\ child = "running" /\ \A s \in Streams : "helper" \notin writers[s]
    /\ writers' = [s \in Streams |->
                     IF "child" \in writers[s] THEN Processes ELSE {}]
    /\ UNCHANGED <<main, child, written, drains>>

WithoutChild == [s \in Streams |-> writers[s] \ {"child"}]

Exit ==
    /\ child = "running"
    /\ child' \in ExitCodes
    /\ writers' = WithoutChild
    /\ UNCHANGED <<main, written, drains>>
-------------------------------------------------------------------------------
(* _drain_stream, in a thread per stream.                                      *)

\* stream.read gathers a whole chunk, or what there is before the end.
Gather(s) ==
    /\ thread[s] = "reading"
    /\ \E k \in 1..(written[s] - taken[s]) :
         /\ Len(chunk[s]) + k <= ChunkSize
         /\ chunk' = [chunk EXCEPT ![s] = @ \o [i \in 1..k |-> taken[s] + i]]
         /\ taken' = [taken EXCEPT ![s] = @ + k]
    /\ UNCHANGED <<main, pipes, thread, buffer>>

\* Mutant: everything is kept.
KeepAll(s) == chunk[s]

\* chunk[:remaining], or nothing when nothing remains.
Kept(s) ==
    LET remaining == PreviewSize + 1 - Len(buffer[s])
    IN  SubSeq(chunk[s], 1, IF remaining < Len(chunk[s]) THEN remaining ELSE Len(chunk[s]))

\* Mutant: the thread has seen enough once the buffer is full.
ExtendUntilFull(s) ==
    /\ thread[s] = "reading"
    /\ Len(chunk[s]) = ChunkSize \/ (Eof(s) /\ chunk[s] # <<>>)
    /\ buffer' = [buffer EXCEPT ![s] = @ \o Kept(s)]
    /\ chunk' = [chunk EXCEPT ![s] = <<>>]
    /\ thread' = [thread EXCEPT ![s] =
                    IF Len(buffer'[s]) > PreviewSize THEN "done" ELSE @]
    /\ UNCHANGED <<main, pipes, taken>>

Extend(s) ==
    /\ thread[s] = "reading"
    /\ Len(chunk[s]) = ChunkSize \/ (Eof(s) /\ chunk[s] # <<>>)
    /\ buffer' = [buffer EXCEPT ![s] = @ \o Kept(s)]
    /\ chunk' = [chunk EXCEPT ![s] = <<>>]
    /\ UNCHANGED <<main, pipes, taken, thread>>

\* An empty read: every write end is closed.
EndOfStream(s) ==
    /\ thread[s] = "reading" /\ chunk[s] = <<>> /\ Eof(s)
    /\ thread' = [thread EXCEPT ![s] = "done"]
    /\ UNCHANGED <<main, pipes, taken, chunk, buffer>>
-------------------------------------------------------------------------------
(* TestCommandExecutor.run.                                                    *)

\* Popen, and both threads started; they may be scheduled later.
Spawn ==
    /\ pc = "spawn"
    /\ pc' = "wait"
    /\ child' = "running"
    /\ writers' = [s \in Streams |-> {"child"}]
    /\ thread' = [s \in Streams |-> "reading"]
    /\ UNCHANGED <<timedOut, result, written, taken, chunk, buffer>>

SpawnFails ==
    /\ pc = "spawn"
    /\ pc' = "raised"
    /\ UNCHANGED <<timedOut, result, pipes, drains>>

Wait ==
    /\ pc = "wait" /\ child # "running"
    /\ pc' = "join stdout"
    /\ UNCHANGED <<timedOut, result, pipes, drains>>

\* Mutant: the threads are joined first, the child is killed later.
TimeoutWithoutKill ==
    /\ pc = "wait"
    /\ pc' = "join stdout" /\ timedOut' = TRUE
    /\ UNCHANGED <<result, pipes, drains>>

\* TimeoutExpired, perhaps just when the child has ended by itself.
Timeout ==
    /\ pc = "wait"
    /\ pc' = "kill" /\ timedOut' = TRUE
    /\ UNCHANGED <<result, pipes, drains>>

\* process.kill() is for the child alone, and polls it before; then wait().
Kill ==
    /\ pc = "kill"
    /\ pc' = "join stdout"
    /\ IF child = "running"
       THEN child' = "killed" /\ writers' = WithoutChild
       ELSE UNCHANGED <<child, writers>>
    /\ UNCHANGED <<timedOut, result, written, drains>>

JoinStdout ==
    /\ pc = "join stdout" /\ thread["stdout"] = "done"
    /\ pc' = "join stderr"
    /\ UNCHANGED <<timedOut, result, pipes, drains>>

Preview(s) ==
    SubSeq(buffer[s], 1, IF PreviewSize < Len(buffer[s]) THEN PreviewSize ELSE Len(buffer[s]))

Result ==
    [exit_code |-> child, preview |-> [s \in Streams |-> Preview(s)],
     truncated |-> [s \in Streams |-> Len(buffer[s]) > PreviewSize]]

\* Mutant: stderr is not waited for.
ReturnEarly ==
    /\ pc = "join stderr" /\ ~timedOut
    /\ pc' = "returned" /\ result' = Result
    /\ UNCHANGED <<timedOut, pipes, drains>>

Return ==
    /\ pc = "join stderr" /\ thread["stderr"] = "done" /\ ~timedOut
    /\ pc' = "returned" /\ result' = Result
    /\ UNCHANGED <<timedOut, pipes, drains>>

\* Mutant: a child that ended all the same is reported as if in time.
RaiseUnlessEnded ==
    /\ pc = "join stderr" /\ thread["stderr"] = "done" /\ timedOut
    /\ IF child = "killed"
       THEN pc' = "raised" /\ UNCHANGED result
       ELSE pc' = "returned" /\ result' = Result
    /\ UNCHANGED <<timedOut, pipes, drains>>

\* "test command timed out"
RaiseTimeout ==
    /\ pc = "join stderr" /\ thread["stderr"] = "done" /\ timedOut
    /\ pc' = "raised"
    /\ UNCHANGED <<timedOut, result, pipes, drains>>

\* KeyboardInterrupt, which no clause of run handles.  The drain threads are no
\* daemons and go on: the interpreter waits for them before it exits.
Interrupt ==
    /\ pc \notin Ended \union {"spawn"}
    /\ pc' = "interrupted"
    /\ UNCHANGED <<timedOut, result, pipes, drains>>
-------------------------------------------------------------------------------
Run ==
    \/ Spawn \/ SpawnFails \/ Wait \/ Timeout \/ Kill
    \/ JoinStdout \/ Return \/ RaiseTimeout
Drain(s) == Gather(s) \/ Extend(s) \/ EndOfStream(s)

Next ==
    \/ Run
    \/ \E s \in Streams :
         Drain(s) \/ \E p \in Processes : WriteByte(p, s) \/ CloseStream(p, s)
    \/ Fork \/ Exit \/ Interrupt
    \/ pc \in Ended /\ UNCHANGED vars

\* The three threads of the interpreter run, and the clock with them; nothing is
\* asked of the child or of its helper.
Fairness == WF_vars(Run) /\ \A s \in Streams : WF_vars(Drain(s))

Spec == Init /\ [][Next]_vars
FairSpec == Spec /\ Fairness
-------------------------------------------------------------------------------
\* The variables hold values of their types; of what a child writes no more than
\* a chunk and one byte over the preview is ever in memory.
TypeOK ==
    /\ pc \in {"spawn", "wait", "kill", "join stdout", "join stderr"} \union Ended
    /\ timedOut \in BOOLEAN
    /\ result \in Results \union {None}
    /\ child \in {"unborn", "running", "killed"} \union ExitCodes
    /\ writers \in [Streams -> SUBSET Processes]
    /\ written \in [Streams -> 0..MaxBytes]
    /\ taken \in [Streams -> 0..MaxBytes]
    /\ thread \in [Streams -> {"unborn", "reading", "done"}]
    /\ chunk \in [Streams -> Seq(Nat)]
    /\ buffer \in [Streams -> Seq(Nat)]
    /\ \A s \in Streams :
         /\ Len(chunk[s]) <= ChunkSize /\ Len(buffer[s]) <= PreviewSize + 1
         /\ taken[s] <= written[s] /\ written[s] - taken[s] <= Capacity

\* What run returns is about the whole output, to the last byte of the last
\* process that had the pipes: its first bytes, and whether there were more.
ResultIsExact ==
    pc = "returned" => \A s \in Streams :
        /\ result.preview[s] = [i \in 1..(IF written[s] < PreviewSize
                                          THEN written[s] ELSE PreviewSize) |-> i]
        /\ result.truncated[s] <=> written[s] > PreviewSize

\* A timeout is final: a run that timed out returns no result, not even of a
\* child that ended before it was killed, and only an interrupt from the keyboard can leave the child behind.
TimeoutIsFinal ==
    /\ pc = "returned" => ~timedOut /\ child \in ExitCodes /\ result.exit_code = child
    /\ pc \in Over => child # "running"

\* A child never waits for good at a full pipe: both streams are drained to the
\* end, however much has been dropped already, and neither waits for the other.
OutputNeverBlocks == \A s \in Streams : Full(s) ~> ~Full(s)

\* The run ends, whatever the child does, once no helper has the pipes any more
\* (README.md: "commands that spawn their own process trees remain a known
\* limitation").
RunEnds ==
    <>[](\A s \in Streams : "helper" \notin writers[s]) => <>(pc \in Ended)
===============================================================================
