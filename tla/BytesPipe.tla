----------------------------- MODULE BytesPipe -----------------------------
(***************************************************************************)
(* A pipe in memory between goroutines (pkg/ioutils/bytespipe.go,          *)
(* buffer.go).  The bytes are numbered in the order the writer has them.   *)
(* The mutex is held from call to return, except in wait.Wait.             *)
(***************************************************************************)
EXTENDS Integers, Sequences, SequencesExt

CONSTANTS
    Reader, None,
    MinCap, MaxCap, BlockThreshold,
    MaxWrite, MaxRead,   \* the bytes of one call
    MaxBytes             \* of all calls

VARIABLES
    buf,        \* per buffer: its capacity, the room left, and the bytes not yet read
    bufLen,
    closed,     \* closeErr # nil
    mu,         \* who holds the mutex
    writer,     \* the call of the writer: where it is, what it has left to write
    reader,     \* the call of each reader: where it is, how much it has left to read, its bytes
    written,    \* how many bytes Write took
    got         \* what the readers read, in the order of the mutex

vars == <<buf, bufLen, closed, mu, writer, reader, written, got>>

getBuffer(size) == [cap |-> size, room |-> size, data |-> <<>>]
Idle == [at |-> "idle", left |-> 0, n |-> 0]

Init ==
    /\ buf = <<getBuffer(MinCap)>> /\ bufLen = 0 /\ closed = FALSE /\ mu = None
    /\ writer = [at |-> "idle", left |-> 0, cap |-> 0]
    /\ reader = [r \in Reader |-> Idle]
    /\ written = 0 /\ got = <<>>

\* wait.Broadcast: everyone in Wait wants the mutex again.
Awake(call) == IF call.at = "wait" THEN [call EXCEPT !.at = "woken"] ELSE call
WakeReaders(rs) == [r \in Reader |-> Awake(rs[r])]

-----------------------------------------------------------------------------
(* Write.  *)
StartWrite ==
    /\ mu = None /\ writer.at = "idle"
    /\ \E n \in 1..MaxWrite :
          /\ written + n <= MaxBytes
          /\ writer' = [at |-> "loop", left |-> n, cap |-> 0]
    /\ mu' = "writer"
    /\ UNCHANGED <<buf, bufLen, closed, reader, written, got>>

\* fixedBuffer.Write, of as many bytes as there is room for.
Fill(b, n) == [b EXCEPT !.room = @ - n, !.data = @ \o [k \in 1..n |-> written + k]]

\* One turn of loop0: it ends in the return, in Wait, or in the next turn with a new buffer.
WriteLoop ==
    /\ mu = "writer" /\ writer.at = "loop" /\ ~closed
    /\ LET bs == IF buf = <<>> THEN <<getBuffer(MinCap)>> ELSE buf
           b  == Last(bs)
           n  == Min({b.room, writer.left}) IN
       /\ buf' = [bs EXCEPT ![Len(bs)] = Fill(b, n)]
       /\ written' = written + n
       /\ bufLen' = bufLen + n
       /\ writer' = [at |-> IF writer.left = n THEN "idle" ELSE "more", left |-> writer.left - n, cap |-> b.cap]
       /\ mu' = IF writer.left = n THEN None ELSE mu
       /\ reader' = IF writer.left = n THEN WakeReaders(reader) ELSE reader
    /\ UNCHANGED <<closed, got>>

WriteClosed ==
    /\ mu = "writer" /\ writer.at = "loop" /\ closed
    /\ writer' = [writer EXCEPT !.at = "idle", !.left = 0]
    /\ mu' = None
    /\ UNCHANGED <<buf, bufLen, closed, reader, written, got>>

WriteWaits ==
    /\ mu = "writer" /\ writer.at = "more" /\ bufLen >= BlockThreshold
    /\ writer' = [writer EXCEPT !.at = "wait"]
    /\ mu' = None
    /\ UNCHANGED <<buf, bufLen, closed, reader, written, got>>

WriteWoken ==
    /\ mu = None /\ writer.at = "woken"
    /\ writer' = [writer EXCEPT !.at = IF closed THEN "loop" ELSE "more"]
    /\ mu' = "writer"
    /\ UNCHANGED <<buf, bufLen, closed, reader, written, got>>

nextWithoutWaiting ==
    /\ mu = "writer" /\ writer.at = "more"
    /\ buf' = Append(buf, getBuffer(Min({writer.cap * 2, MaxCap})))
    /\ writer' = [writer EXCEPT !.at = "loop"]
    /\ UNCHANGED <<bufLen, closed, mu, reader, written, got>>

nextUncapped ==
    /\ mu = "writer" /\ writer.at = "more" /\ bufLen < BlockThreshold
    /\ buf' = Append(buf, getBuffer(writer.cap * 2))
    /\ writer' = [writer EXCEPT !.at = "loop"]
    /\ UNCHANGED <<bufLen, closed, mu, reader, written, got>>

\* The next buffer has twice the capacity of the last one that was written to, which a reader
\* may have returned to the pool meanwhile.
NextBuffer ==
    /\ mu = "writer" /\ writer.at = "more" /\ bufLen < BlockThreshold
    /\ buf' = Append(buf, getBuffer(Min({writer.cap * 2, MaxCap})))
    /\ writer' = [writer EXCEPT !.at = "loop"]
    /\ UNCHANGED <<bufLen, closed, mu, reader, written, got>>

closeQuietly ==
    /\ mu = None /\ ~closed
    /\ closed' = TRUE
    /\ UNCHANGED <<buf, bufLen, mu, writer, reader, written, got>>

CloseWithError ==
    /\ mu = None /\ ~closed
    /\ closed' = TRUE
    /\ writer' = Awake(writer) /\ reader' = WakeReaders(reader)
    /\ UNCHANGED <<buf, bufLen, mu, written, got>>

-----------------------------------------------------------------------------
(* Read.  *)
StartRead(r) ==
    /\ mu = None /\ reader[r].at \in {"idle", "returned"}
    /\ \E n \in 1..MaxRead :
          reader' = [reader EXCEPT ![r] =
              IF bufLen > 0 THEN [at |-> "read", left |-> n, n |-> 0]
              ELSE [at |-> IF closed THEN "eof" ELSE "wait", left |-> n, n |-> 0]]
    /\ mu' = IF bufLen > 0 THEN r ELSE None
    /\ UNCHANGED <<buf, bufLen, closed, writer, written, got>>

eofAtOnce(r) ==
    /\ mu = None /\ reader[r].at = "woken"
    /\ reader' = [reader EXCEPT ![r].at = IF closed THEN "eof" ELSE "read"]
    /\ mu' = IF closed THEN None ELSE r
    /\ UNCHANGED <<buf, bufLen, closed, writer, written, got>>

\* After Wait the length is looked at once: with nothing to read and no error it reads nothing.
ReadWoken(r) ==
    /\ mu = None /\ reader[r].at = "woken"
    /\ reader' = [reader EXCEPT ![r].at = IF bufLen = 0 /\ closed THEN "eof" ELSE "read"]
    /\ mu' = IF bufLen = 0 /\ closed THEN None ELSE r
    /\ UNCHANGED <<buf, bufLen, closed, writer, written, got>>

dropBuffer(r) ==
    /\ mu = r /\ reader[r].at = "read" /\ bufLen > 0 /\ reader[r].left > 0
    /\ LET b == Head(buf)
           n == Min({Len(b.data), reader[r].left}) IN
       /\ buf' = Tail(buf)
       /\ bufLen' = bufLen - Len(b.data)
       /\ got' = got \o SubSeq(b.data, 1, n)
       /\ reader' = [reader EXCEPT ![r].left = @ - n, ![r].n = @ + n]
    /\ UNCHANGED <<closed, mu, writer, written>>

\* One turn of the loop: fixedBuffer.Read, and returnBuffer of one that is empty.
ReadLoop(r) ==
    /\ mu = r /\ reader[r].at = "read" /\ bufLen > 0 /\ reader[r].left > 0
    /\ LET b == Head(buf)
           n == Min({Len(b.data), reader[r].left}) IN
       /\ buf' = IF n = Len(b.data) THEN Tail(buf) ELSE [buf EXCEPT ![1].data = SubSeq(@, n + 1, Len(@))]
       /\ bufLen' = bufLen - n
       /\ got' = got \o SubSeq(b.data, 1, n)
       /\ reader' = [reader EXCEPT ![r].left = @ - n, ![r].n = @ + n]
    /\ UNCHANGED <<closed, mu, writer, written>>

returnQuietly(r) ==
    /\ mu = r /\ reader[r].at = "read" /\ (bufLen = 0 \/ reader[r].left = 0)
    /\ reader' = [reader EXCEPT ![r].at = "returned"]
    /\ writer' = writer
    /\ mu' = None
    /\ UNCHANGED <<buf, bufLen, closed, written, got>>

ReadReturns(r) ==
    /\ mu = r /\ reader[r].at = "read" /\ (bufLen = 0 \/ reader[r].left = 0)
    /\ reader' = [WakeReaders(reader) EXCEPT ![r].at = "returned"]
    /\ writer' = Awake(writer)
    /\ mu' = None
    /\ UNCHANGED <<buf, bufLen, closed, written, got>>

-----------------------------------------------------------------------------
Write == WriteLoop \/ WriteClosed \/ WriteWaits \/ WriteWoken \/ NextBuffer
Read(r) == ReadWoken(r) \/ ReadLoop(r) \/ ReadReturns(r)

Done == closed /\ writer.at = "idle" /\ (\A r \in Reader : reader[r].at = "eof") /\ UNCHANGED vars

Next == StartWrite \/ Write \/ CloseWithError \/ (\E r \in Reader : StartRead(r) \/ Read(r)) \/ Done

\* A goroutine that may run runs, and one that wants the mutex gets it in the end (the
\* sync.Mutex of Go hands over after a while).  A reader reads until the end of the pipe, and
\* someone closes it.
Fairness ==
    /\ SF_vars(Write) /\ WF_vars(CloseWithError)
    /\ \A r \in Reader : SF_vars(Read(r)) /\ SF_vars(StartRead(r))

Spec == Init /\ [][Next]_vars /\ Fairness

-----------------------------------------------------------------------------
TypeOK ==
    /\ mu \in {None, "writer"} \cup Reader
    /\ bufLen \in Nat /\ closed \in BOOLEAN /\ written \in 0..MaxBytes
    /\ \A k \in 1..Len(buf) : buf[k].cap \in MinCap..MaxCap /\ Len(buf[k].data) + buf[k].room <= buf[k].cap
    /\ writer.at \in {"idle", "loop", "more", "wait", "woken"}
    /\ \A r \in Reader : reader[r].at \in {"idle", "read", "wait", "woken", "returned", "eof"}

\* What was written is what was read and then what is in the buffers: nothing is lost, doubled
\* or out of order, whoever reads and however the buffers are split.
Fifo == got \o FlattenSeq([k \in 1..Len(buf) |-> buf[k].data]) = [k \in 1..written |-> k]

\* bufLen is the number of bytes in the buffers, and the pipe never holds more than
\* one buffer over the threshold ("make sure the buffer doesn't grow too big from
\* this write").
Bounded ==
    /\ bufLen = Len(FlattenSeq([k \in 1..Len(buf) |-> buf[k].data]))
    /\ bufLen < BlockThreshold + MaxCap

\* A writer does not wait once there is room again or the pipe is closed (the
\* wait.Broadcast of Read and of CloseWithError).
WriterWoken == mu = None /\ writer.at = "wait" => bufLen >= BlockThreshold /\ ~closed

\* "BytesPipe is io.ReadWriteCloser which works similarly to pipe(queue)": a reader does not
\* wait while there are bytes for it, whether or not the call that wrote them has
\* returned.  A Write that waits for room wakes nobody: the reader that waits for
\* bytes and the writer that waits for room wait for each other.
ReaderWoken == mu = None /\ (\E r \in Reader : reader[r].at = "wait") => bufLen = 0 /\ ~closed

\* The same, unless the call that writes waits for room.
ReaderWokenAfterWrite ==
    mu = None /\ writer.at # "wait" /\ (\E r \in Reader : reader[r].at = "wait") => bufLen = 0 /\ ~closed

\* A reader that is told the pipe is at its end has missed nothing.
EofAtTheEnd == \A r \in Reader : reader[r].at = "eof" => closed /\ bufLen = 0

\* Once the pipe is closed every reader comes to its end, and the writer returns.
Drains == closed ~> (writer.at = "idle" /\ \A r \in Reader : reader[r].at = "eof")

=============================================================================
