---------------------------- MODULE Buffer_proofs ----------------------------
(* What the operations on the indices of a Buffer keep and establish. *)
EXTENDS Buffer, TLAPS

\* The order of the indices, as its owner finds them between two operations.
Good(b) ==
    /\ b \in BufferType
    /\ kCheapPrepend <= b.reader /\ b.reader <= b.writer /\ b.writer <= b.size

LEMMA NewBufferGood == Good(NewBuffer)
  BY BufferAssumption DEF Good, NewBuffer, BufferType

LEMMA ReadableNat == ASSUME NEW b, Good(b) PROVE ReadableBytes(b) \in Nat
  BY BufferAssumption DEF Good, BufferType, ReadableBytes

\* After ensureWritableBytes(len) there is room for len bytes, the readable bytes are as
\* many as before, and the vector has not shrunk.
LEMMA EnsureGivesRoom ==
    ASSUME NEW b, Good(b), NEW len \in Nat
    PROVE  LET e == EnsureWritableBytes(b, len) IN
           /\ Good(e)
           /\ len <= WritableBytes(e)
           /\ ReadableBytes(e) = ReadableBytes(b)
           /\ b.size <= e.size
<1> DEFINE e == EnsureWritableBytes(b, len)
<1> USE BufferAssumption DEF Good, BufferType, WritableBytes, ReadableBytes
<1>1. CASE len <= WritableBytes(b)
  <2>1. e = b
    BY <1>1 DEF EnsureWritableBytes
  <2> QED
    BY <1>1, <2>1
<1>2. CASE len > WritableBytes(b) /\ b.size - b.writer + b.reader < len + kCheapPrepend
  <2>1. e = [size |-> b.writer + len, reader |-> b.reader, writer |-> b.writer]
    BY <1>2 DEF EnsureWritableBytes, MakeSpace, PrependableBytes
  <2> QED
    BY <1>2, <2>1
<1>3. CASE len > WritableBytes(b) /\ b.size - b.writer + b.reader >= len + kCheapPrepend
  <2>1. e = [b EXCEPT !.reader = kCheapPrepend, !.writer = kCheapPrepend + ReadableBytes(b)]
    BY <1>3 DEF EnsureWritableBytes, MakeSpace, PrependableBytes
  <2>2. ReadableBytes(b) \in Nat
    OBVIOUS
  <2> HIDE DEF e, ReadableBytes
  <2>3. e = [size |-> b.size, reader |-> kCheapPrepend,
             writer |-> kCheapPrepend + ReadableBytes(b)]
    BY <2>1, <2>2
  <2> QED
    BY <1>3, <2>2, <2>3 DEF ReadableBytes, e
<1> QED
  BY <1>1, <1>2, <1>3

LEMMA AppendBytesGood ==
    ASSUME NEW b, Good(b), NEW len \in Nat
    PROVE  /\ Good(AppendBytes(b, len))
           /\ AppendBytes(b, len).size = EnsureWritableBytes(b, len).size
           /\ ReadableBytes(AppendBytes(b, len)) = ReadableBytes(b) + len
<1> DEFINE e == EnsureWritableBytes(b, len)
<1>1. Good(e) /\ len <= WritableBytes(e) /\ ReadableBytes(e) = ReadableBytes(b)
  BY EnsureGivesRoom
<1>2. AppendBytes(b, len) = [e EXCEPT !.writer = @ + len]
  BY DEF AppendBytes
<1> HIDE DEF e
<1>3. AppendBytes(b, len) = [size |-> e.size, reader |-> e.reader, writer |-> e.writer + len]
  BY <1>1, <1>2 DEF Good, BufferType
<1>4. /\ Good(AppendBytes(b, len)) /\ AppendBytes(b, len).size = e.size
      /\ ReadableBytes(AppendBytes(b, len)) = ReadableBytes(b) + len
  BY <1>1, <1>3, BufferAssumption DEF Good, BufferType, WritableBytes, ReadableBytes
<1> QED
  BY <1>4 DEF e

LEMMA RetrieveGood ==
    ASSUME NEW b, Good(b), NEW len \in Nat
    PROVE  /\ Good(Retrieve(b, len)) /\ Retrieve(b, len).size = b.size
           /\ ReadableBytes(Retrieve(b, len)) =
                  IF len < ReadableBytes(b) THEN ReadableBytes(b) - len ELSE 0
<1>0. /\ b = [size |-> b.size, reader |-> b.reader, writer |-> b.writer]
      /\ b.size \in Nat /\ b.reader \in Nat /\ b.writer \in Nat
  BY DEF Good, BufferType
<1>1. CASE len < ReadableBytes(b)
  <2> DEFINE r == [size |-> b.size, reader |-> b.reader + len, writer |-> b.writer]
  <2>1. Retrieve(b, len) = r
    BY <1>0, <1>1 DEF Retrieve
  <2>2. Good(r) /\ r.size = b.size /\ ReadableBytes(r) = ReadableBytes(b) - len
    BY <1>0, <1>1, BufferAssumption DEF Good, BufferType, ReadableBytes
  <2> QED
    BY <1>1, <2>1, <2>2, Zenon
<1>2. CASE ~(len < ReadableBytes(b))
  <2> DEFINE r == [size |-> b.size, reader |-> kCheapPrepend, writer |-> kCheapPrepend]
  <2>1. Retrieve(b, len) = r
    BY <1>0, <1>2 DEF Retrieve, RetrieveAll
  <2>2. Good(r) /\ r.size = b.size /\ ReadableBytes(r) = 0
    BY <1>0, BufferAssumption DEF Good, BufferType, ReadableBytes
  <2> QED
    BY <1>2, <2>1, <2>2, Zenon
<1> QED
  BY <1>1, <1>2
=============================================================================
