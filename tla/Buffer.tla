-------------------------------- MODULE Buffer --------------------------------
(***************************************************************************)
(* The index arithmetic of Buffer: a vector of `size' bytes in which       *)
(* [reader, writer) is readable and [writer, size) is writable.            *)
(***************************************************************************)
EXTENDS Integers

CONSTANTS kCheapPrepend, kInitialSize,
          ExtraBufSize   \* sizeof(extrabuf) in readFd

ASSUME BufferAssumption ==
    /\ kCheapPrepend \in Nat
    /\ kInitialSize \in Nat
    /\ ExtraBufSize \in Nat

BufferType == [size : Nat, reader : Nat, writer : Nat]

\* The constructor; its parameter initialSize is not used.
NewBuffer ==
    [size |-> kCheapPrepend + kInitialSize, reader |-> kCheapPrepend, writer |-> kCheapPrepend]

ReadableBytes(b)    == b.writer - b.reader
WritableBytes(b)    == b.size - b.writer
PrependableBytes(b) == b.reader

RetrieveAll(b) == [b EXCEPT !.reader = kCheapPrepend, !.writer = kCheapPrepend]

Retrieve_All(b, len) == RetrieveAll(b)   \* mutant
Retrieve(b, len) ==
    IF len < ReadableBytes(b) THEN [b EXCEPT !.reader = @ + len] ELSE RetrieveAll(b)

\* Mutant: the test forgets that kCheapPrepend bytes stay in front.
MakeSpace_NoPrepend(b, len) ==
    IF WritableBytes(b) + PrependableBytes(b) < len
    THEN [b EXCEPT !.size = b.writer + len]
    ELSE [b EXCEPT !.reader = kCheapPrepend, !.writer = kCheapPrepend + ReadableBytes(b)]

\* Grow behind the readable bytes, or move them down to kCheapPrepend.
MakeSpace(b, len) ==
    IF WritableBytes(b) + PrependableBytes(b) < len + kCheapPrepend
    THEN [b EXCEPT !.size = b.writer + len]
    ELSE [b EXCEPT !.reader = kCheapPrepend, !.writer = kCheapPrepend + ReadableBytes(b)]

EnsureWritableBytes(b, len) == IF WritableBytes(b) < len THEN MakeSpace(b, len) ELSE b

AppendBytes(b, len) ==
    LET e == EnsureWritableBytes(b, len) IN [e EXCEPT !.writer = @ + len]

\* readFd: readv into the writable part and, when that is smaller, a stack buffer, whose
\* bytes are appended.
ReadFdMax(b) ==
    WritableBytes(b) + (IF WritableBytes(b) < ExtraBufSize THEN ExtraBufSize ELSE 0)
ReadFd(b, n) ==
    IF n <= WritableBytes(b)
    THEN [b EXCEPT !.writer = @ + n]
    ELSE AppendBytes([b EXCEPT !.writer = b.size], n - WritableBytes(b))

\* writeFd hands write() this many bytes, starting at peek().
WriteFdLen(b) == WritableBytes(b)
=============================================================================
