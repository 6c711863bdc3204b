------------------------------ MODULE BufferData ------------------------------
(***************************************************************************)
(* One Buffer with the bytes in it, used the ways TcpConnection uses its   *)
(* two: append() and readFd() put bytes in, retrieve() takes them out, and *)
(* handleWrite takes out what write() accepted of what writeFd() gave it.  *)
(***************************************************************************)
EXTENDS Buffer, SequencesExt

CONSTANTS Bytes,    \* values of the bytes that users store
          Zero,     \* the byte that resize() and the constructor fill with
          MaxLen,   \* bound: bytes put in at a time
          MaxSize   \* bound: size of the vector

ASSUME BufferDataAssumption == MaxLen \in Nat \ {0} /\ MaxSize \in Nat

VARIABLES buf,    \* readerIndex_, writerIndex_ and buffer_.size()
          mem     \* buffer_, all of it, the stale bytes included

vars == <<buf, mem>>

TypeOK ==
    /\ buf \in BufferType
    /\ mem \in Seq(Bytes \cup {Zero}) /\ Len(mem) = buf.size

Init ==
    /\ buf = NewBuffer
    /\ mem = [i \in 1..NewBuffer.size |-> Zero]

Inputs == BoundedSeq(Bytes, MaxLen) \ {<<>>}

\* peek() up to beginWrite().
Contents == SubSeq(mem, buf.reader + 1, buf.writer)

\* Mutants: resize() is forgotten; the indices move and the bytes do not.
Moved_NoResize(m, b, e) ==
    [i \in 1..b.size |->
        IF e.reader < i /\ i <= e.writer THEN m[i - e.reader + b.reader] ELSE m[i]]
Moved_NoCopy(m, b, e) == [i \in 1..e.size |-> IF i <= b.size THEN m[i] ELSE Zero]

\* buffer_ after resize() or the move of makeSpace, for the indices it gives.
Moved(m, b, e) ==
    [i \in 1..e.size |->
        IF e.reader < i /\ i <= e.writer THEN m[i - e.reader + b.reader]
        ELSE IF i <= b.size THEN m[i] ELSE Zero]

\* std::copy of s to position `at' (counted from 0).
Copied(m, at, s) ==
    [i \in 1..Len(m) |-> IF at < i /\ i <= at + Len(s) THEN s[i - at] ELSE m[i]]

\* append(): buffer_ of a buffer with indices b and bytes m.
AppendedMem(b, m, s) ==
    LET e == EnsureWritableBytes(b, Len(s)) IN Copied(Moved(m, b, e), e.writer, s)

PutIn(s) ==
    /\ AppendBytes(buf, Len(s)).size <= MaxSize
    /\ buf' = AppendBytes(buf, Len(s))
    /\ mem' = AppendedMem(buf, mem, s)

\* readFd returns Len(s) > 0 bytes: the first ones have landed in the writable part, the
\* others in extrabuf.
ReadFromFd(s) ==
    LET k == IF Len(s) <= WritableBytes(buf) THEN Len(s) ELSE WritableBytes(buf)
        m == Copied(mem, buf.writer, SubSeq(s, 1, k))
    IN
    /\ Len(s) <= ReadFdMax(buf)
    /\ ReadFd(buf, Len(s)).size <= MaxSize
    /\ buf' = ReadFd(buf, Len(s))
    /\ mem' = IF k = Len(s) THEN m
              ELSE AppendedMem([buf EXCEPT !.writer = buf.size], m, SubSeq(s, k + 1, Len(s)))

\* retrieve(len), retrieveAsString(len) and retrieveAllAsString(): a caller asks for
\* readable bytes.
TakeOut(len) ==
    /\ len \in 1..ReadableBytes(buf)
    /\ buf' = Retrieve(buf, len)
    /\ UNCHANGED mem

\* handleWrite: write() accepts n of the bytes that writeFd offers, and they are retrieved.  These
\* are as many as there is free space, not as are readable: n may be more than there are, also when
\* there are none, and then stale bytes behind writerIndex_ went out (module TcpConnection has what
\* this does to the stream).  The buffer only loses its contents.
WriteToFd(n) ==
    /\ n \in 1..WriteFdLen(buf)
    /\ buf' = Retrieve(buf, n)
    /\ UNCHANGED mem

Next ==
    \/ \E s \in Inputs : PutIn(s) \/ ReadFromFd(s)
    \/ \E n \in 1..MaxSize : TakeOut(n) \/ WriteToFd(n)

Spec == Init /\ [][Next]_vars

-----------------------------------------------------------------------------
(* Properties.                                                             *)

\* The indices stay in order and inside the vector, and kCheapPrepend bytes stay free in
\* front: std::copy in append and readv in readFd write inside buffer_.
IndicesOK ==
    /\ kCheapPrepend <= buf.reader
    /\ buf.reader <= buf.writer
    /\ buf.writer <= buf.size

\* A buffer is a FIFO: the moves, the growth and the detour through extrabuf keep every
\* byte, in order, and a partial write takes out the bytes in front.
BQ == INSTANCE ByteQueue WITH data <- Contents
ImplementsByteQueue == BQ!Spec
=============================================================================
