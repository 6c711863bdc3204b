--------------------------- MODULE BufferData_proofs ---------------------------
(* What holds of a Buffer for every size of its parts and every use of it. *)
EXTENDS BufferData, Buffer_proofs, SequenceTheorems

Cells == Bytes \cup {Zero}

\* The bytes follow the indices: a vector as long as they say.
LEMMA MovedType ==
    ASSUME NEW b, Good(b), NEW e, Good(e), ReadableBytes(e) = ReadableBytes(b),
           NEW m \in Seq(Cells), Len(m) = b.size
    PROVE  Moved(m, b, e) \in Seq(Cells) /\ Len(Moved(m, b, e)) = e.size
<1> USE BufferAssumption DEF Good, BufferType, ReadableBytes
<1>1. ASSUME NEW i \in 1..e.size
      PROVE  (IF e.reader < i /\ i <= e.writer THEN m[i - e.reader + b.reader]
              ELSE IF i <= b.size THEN m[i] ELSE Zero) \in Cells
  <2>1. CASE e.reader < i /\ i <= e.writer
    <3>1. i - e.reader + b.reader \in 1..Len(m)
      BY <2>1
    <3> QED
      BY <2>1, <3>1
  <2>2. CASE ~(e.reader < i /\ i <= e.writer) /\ i <= b.size
    BY <2>2
  <2>3. CASE ~(e.reader < i /\ i <= e.writer) /\ ~(i <= b.size)
    BY <2>3 DEF Cells
  <2> QED
    BY <2>1, <2>2, <2>3
<1>2. Moved(m, b, e) \in [1..e.size -> Cells]
  BY <1>1 DEF Moved
<1> QED
  BY <1>2

LEMMA CopiedType ==
    ASSUME NEW m \in Seq(Cells), NEW s \in Seq(Cells), NEW at \in Nat
    PROVE  Copied(m, at, s) \in Seq(Cells) /\ Len(Copied(m, at, s)) = Len(m)
<1>1. Copied(m, at, s) \in [1..Len(m) -> Cells]
  BY DEF Copied
<1> QED
  BY <1>1

LEMMA AppendedMemType ==
    ASSUME NEW b, Good(b), NEW m \in Seq(Cells), Len(m) = b.size, NEW s \in Seq(Cells)
    PROVE  /\ AppendedMem(b, m, s) \in Seq(Cells)
           /\ Len(AppendedMem(b, m, s)) = AppendBytes(b, Len(s)).size
<1> DEFINE e == EnsureWritableBytes(b, Len(s))
<1>1. Good(e) /\ ReadableBytes(e) = ReadableBytes(b)
  BY EnsureGivesRoom
<1>2. AppendBytes(b, Len(s)).size = e.size
  BY AppendBytesGood
<1>3. AppendedMem(b, m, s) = Copied(Moved(m, b, e), e.writer, s)
  BY DEF AppendedMem
<1> HIDE DEF e
<1>4. Moved(m, b, e) \in Seq(Cells) /\ Len(Moved(m, b, e)) = e.size
  BY <1>1, MovedType
<1>5. e.writer \in Nat
  BY <1>1 DEF Good, BufferType
<1> QED
  BY <1>2, <1>3, <1>4, <1>5, CopiedType

-----------------------------------------------------------------------------

\* TypeOK and IndicesOK are inductive together.
Inv == TypeOK /\ IndicesOK

LEMMA InvIsGood == Inv => Good(buf) /\ mem \in Seq(Cells) /\ Len(mem) = buf.size
  BY DEF Inv, TypeOK, IndicesOK, Good, Cells

LEMMA GoodIsInv ==
    (Good(buf) /\ mem \in Seq(Cells) /\ Len(mem) = buf.size) => Inv
  BY DEF Inv, TypeOK, IndicesOK, Good, Cells

LEMMA InputType == ASSUME NEW s \in Inputs PROVE s \in Seq(Cells)
  BY BufferDataAssumption DEF Inputs, BoundedSeq, SeqOf, Cells

\* The indices stay in order and inside the vector, and the vector is as large as they
\* say, for every capacity, every length of input and every share that write() accepts.
THEOREM InvHolds == Spec => []Inv
<1>1. Init => Inv
  <2> SUFFICES ASSUME Init PROVE Inv
    OBVIOUS
  <2>1. NewBuffer.size \in Nat
    BY NewBufferGood DEF Good, BufferType
  <2>2. mem \in [1..NewBuffer.size -> Cells]
    BY DEF Init, Cells
  <2>3. mem \in Seq(Cells) /\ Len(mem) = NewBuffer.size
    BY <2>1, <2>2
  <2>4. Good(buf) /\ Len(mem) = buf.size
    BY <2>3, NewBufferGood DEF Init
  <2> QED
    BY <2>3, <2>4, GoodIsInv
<1>2. Inv /\ [Next]_vars => Inv'
  <2> SUFFICES ASSUME Inv, [Next]_vars PROVE Inv'
    OBVIOUS
  <2>1. Good(buf) /\ mem \in Seq(Cells) /\ Len(mem) = buf.size
    BY InvIsGood
  <2>2. ASSUME NEW s \in Inputs, PutIn(s) PROVE Inv'
    <3>1. s \in Seq(Cells)
      BY InputType
    <3>2. buf' = AppendBytes(buf, Len(s)) /\ mem' = AppendedMem(buf, mem, s)
      BY <2>2 DEF PutIn
    <3>3. Len(s) \in Nat
      BY <3>1
    <3>4. Good(buf')
      BY <2>1, <3>2, <3>3, AppendBytesGood
    <3>5. mem' \in Seq(Cells) /\ Len(mem') = buf'.size
      BY <2>1, <3>1, <3>2, AppendedMemType
    <3> QED
      BY <3>2, <3>4, <3>5 DEF Inv, TypeOK, IndicesOK, Good, Cells
  <2>3. ASSUME NEW s \in Inputs, ReadFromFd(s) PROVE Inv'
    <3> DEFINE k == IF Len(s) <= WritableBytes(buf) THEN Len(s) ELSE WritableBytes(buf)
               m == Copied(mem, buf.writer, SubSeq(s, 1, k))
               full == [buf EXCEPT !.writer = buf.size]
    <3>1. s \in Seq(Cells)
      BY InputType
    <3>2. buf.writer \in Nat /\ buf.size \in Nat /\ WritableBytes(buf) \in Nat /\ k \in 0..Len(s)
      BY <2>1, <3>1 DEF Good, BufferType, WritableBytes
    <3>3. SubSeq(s, 1, k) \in Seq(Cells)
      BY <3>1, <3>2
    <3>4. m \in Seq(Cells) /\ Len(m) = buf.size
      BY <2>1, <3>2, <3>3, CopiedType
    <3>5. CASE Len(s) <= WritableBytes(buf)
      <4>1. buf' = [buf EXCEPT !.writer = @ + Len(s)] /\ mem' = m
        BY <2>3, <3>5 DEF ReadFromFd, ReadFd
      <4>2. Good(buf') /\ buf'.size = buf.size
        BY <2>1, <3>1, <3>5, <4>1, BufferAssumption DEF Good, BufferType, WritableBytes
      <4> QED
        BY <3>4, <4>1, <4>2 DEF Inv, TypeOK, IndicesOK, Good, Cells
    <3>6. CASE ~(Len(s) <= WritableBytes(buf))
      <4> DEFINE r == SubSeq(s, k + 1, Len(s))
      <4>1. k = WritableBytes(buf)
        BY <3>6
      <4>2. r \in Seq(Cells) /\ Len(r) = Len(s) - k
        BY <3>1, <3>2
      <4>3. Good(full) /\ full.size = buf.size
        BY <2>1, BufferAssumption DEF Good, BufferType
      <4>4. buf' = AppendBytes(full, Len(s) - WritableBytes(buf))
        BY <2>3, <3>6 DEF ReadFromFd, ReadFd
      <4>5. k # Len(s)
        BY <3>1, <3>2, <3>6, <4>1
      <4>6. mem' = AppendedMem(full, m, r)
        BY <2>3, <4>5 DEF ReadFromFd
      <4> HIDE DEF r, k, m, full
      <4>8. Len(s) - k \in Nat /\ buf' = AppendBytes(full, Len(r))
        BY <4>1, <4>2, <4>4
      <4>9. Good(buf')
        BY <4>2, <4>3, <4>8, AppendBytesGood
      <4>7. mem' \in Seq(Cells) /\ Len(mem') = buf'.size
        BY <3>4, <4>2, <4>3, <4>6, <4>8, AppendedMemType
      <4> QED
        BY <4>4, <4>7, <4>9 DEF Inv, TypeOK, IndicesOK, Good, Cells
    <3> QED
      BY <3>5, <3>6
  <2>4. ASSUME NEW n \in 1..MaxSize, TakeOut(n) \/ WriteToFd(n) PROVE Inv'
    <3>1. n \in Nat /\ buf' = Retrieve(buf, n) /\ mem' = mem
      BY <2>4, BufferDataAssumption DEF TakeOut, WriteToFd
    <3>2. Good(buf') /\ buf'.size = buf.size
      BY <2>1, <3>1, RetrieveGood
    <3> QED
      BY <2>1, <3>1, <3>2 DEF Inv, TypeOK, IndicesOK, Good, Cells
  <2>5. CASE UNCHANGED vars
    BY <2>5 DEF vars, Inv, TypeOK, IndicesOK
  <2> QED
    BY <2>2, <2>3, <2>4, <2>5 DEF Next
<1> QED
  BY <1>1, <1>2, PTL DEF Spec

\* std::copy in append and readv in readFd stay inside buffer_.
THEOREM IndicesAlwaysOK == Spec => []IndicesOK
<1>1. Inv => IndicesOK
  BY DEF Inv
<1> QED
  BY <1>1, InvHolds, PTL

\* The indices are naturals and buffer_ has as many bytes as its size says, after every
\* append, readFd, retrieve and writeFd, for every size and every number of bytes.
THEOREM TypeCorrect == Spec => []TypeOK
<1>1. Inv => TypeOK
  BY DEF Inv
<1> QED
  BY <1>1, InvHolds, PTL

-----------------------------------------------------------------------------
(* The bytes, and the refinement.                                          *)

\* The contents of any indices and bytes; and that these are bytes somebody stored.
ContentsOf(b, m) == SubSeq(m, b.reader + 1, b.writer)
Stored(b, m)     == \A i \in 1..ReadableBytes(b) : m[b.reader + i] \in Bytes
Sized(b, m)      == Good(b) /\ m \in Seq(Cells) /\ Len(m) = b.size

LEMMA PieceIs ==
    ASSUME NEW S, NEW m \in Seq(S), NEW a \in Nat, NEW b \in Nat, a <= b, b <= Len(m)
    PROVE  /\ SubSeq(m, a + 1, b) \in Seq(S) /\ Len(SubSeq(m, a + 1, b)) = b - a
           /\ \A i \in 1..(b - a) : SubSeq(m, a + 1, b)[i] = m[a + i]
<1>1. \A i \in (a + 1)..b : m[i] \in S
  OBVIOUS
<1>2. a + 1 \in Int /\ b \in Int
  OBVIOUS
<1>3. /\ SubSeq(m, a + 1, b) \in Seq(S)
      /\ Len(SubSeq(m, a + 1, b)) = IF a + 1 <= b THEN b - (a + 1) + 1 ELSE 0
      /\ \A i \in 1..(b - (a + 1) + 1) : SubSeq(m, a + 1, b)[i] = m[a + 1 + i - 1]
  BY <1>1, <1>2, SubSeqProperties
<1>4. (IF a + 1 <= b THEN b - (a + 1) + 1 ELSE 0) = b - a /\ b - (a + 1) + 1 = b - a
  OBVIOUS
<1>5. \A i \in 1..(b - a) : a + 1 + i - 1 = a + i
  OBVIOUS
<1> QED
  BY <1>3, <1>4, <1>5

LEMMA ContentsIs ==
    ASSUME NEW b, NEW m, Sized(b, m)
    PROVE  /\ ContentsOf(b, m) \in Seq(Cells) /\ Len(ContentsOf(b, m)) = ReadableBytes(b)
           /\ \A i \in 1..ReadableBytes(b) : ContentsOf(b, m)[i] = m[b.reader + i]
<1>1. b.reader \in Nat /\ b.writer \in Nat /\ b.reader <= b.writer /\ b.writer <= Len(m)
  BY DEF Sized, Good, BufferType
<1> QED
  BY <1>1, PieceIs DEF Sized, ContentsOf, ReadableBytes

LEMMA CopiedAt ==
    ASSUME NEW m, NEW at, NEW s, NEW j \in 1..Len(m)
    PROVE  Copied(m, at, s)[j] = IF at < j /\ j <= at + Len(s) THEN s[j - at] ELSE m[j]
  BY DEF Copied

LEMMA MovedAt ==
    ASSUME NEW m, NEW b, NEW e, NEW j \in 1..e.size, e.reader < j, j <= e.writer
    PROVE  Moved(m, b, e)[j] = m[j - e.reader + b.reader]
  BY DEF Moved

\* A place among the k that follow place a.
LEMMA Within ==
    ASSUME NEW a \in Nat, NEW k \in Nat, NEW l \in Nat, a + k <= l, NEW i \in 1..k
    PROVE  a + i \in 1..l /\ a < a + i /\ a + i <= a + k /\ a + i - a = i
  OBVIOUS

\* What is copied to place w lies behind it.
LEMMA CopiedBehind ==
    ASSUME NEW m, NEW w \in Nat, NEW s, Len(s) \in Nat, Len(m) \in Nat,
           w + Len(s) <= Len(m), NEW i \in 1..Len(s)
    PROVE  Copied(m, w, s)[w + i] = s[i]
<1>1. /\ w + i \in 1..Len(m) /\ w < w + i
      /\ w + i <= w + Len(s) /\ w + i - w = i
  BY Within
<1> QED
  BY <1>1, CopiedAt

\* append(): makeSpace keeps the contents, wherever it puts them, and s comes behind them.
LEMMA AppendedBytes ==
    ASSUME NEW b, NEW m, Sized(b, m), NEW s \in Seq(Cells)
    PROVE  LET c == AppendBytes(b, Len(s))
               n == AppendedMem(b, m, s)
           IN  /\ \A i \in 1..ReadableBytes(b) : n[c.reader + i] = m[b.reader + i]
               /\ \A i \in 1..Len(s) : n[c.reader + ReadableBytes(b) + i] = s[i]
<1> DEFINE e == EnsureWritableBytes(b, Len(s))
           n == AppendedMem(b, m, s)
           k == Moved(m, b, e)
<1>1. Good(e) /\ ReadableBytes(e) = ReadableBytes(b) /\ Len(s) <= WritableBytes(e)
  BY EnsureGivesRoom DEF Sized
<1>2. AppendBytes(b, Len(s)) = [e EXCEPT !.writer = @ + Len(s)]
  BY DEF AppendBytes
<1>3. n = Copied(k, e.writer, s)
  BY DEF AppendedMem
<1> HIDE DEF e
<1>4. AppendBytes(b, Len(s)).reader = e.reader
  BY <1>1, <1>2 DEF Good, BufferType
<1>5. k \in Seq(Cells) /\ Len(k) = e.size
  BY <1>1, MovedType DEF Sized
<1>6. /\ e.reader \in Nat /\ e.writer \in Nat /\ e.size \in Nat /\ Len(s) \in Nat
      /\ e.writer + Len(s) <= e.size /\ e.writer = e.reader + ReadableBytes(b)
      /\ ReadableBytes(b) \in Nat /\ b.reader \in Nat
  BY <1>1, ReadableNat DEF Sized, Good, BufferType, WritableBytes, ReadableBytes
<1>7. \A i \in 1..ReadableBytes(b) : k[e.reader + i] = m[b.reader + i]
  <2> SUFFICES ASSUME NEW i \in 1..ReadableBytes(b) PROVE k[e.reader + i] = m[b.reader + i]
    OBVIOUS
  <2> DEFINE j == e.reader + i
  <2>1. j \in 1..e.size /\ e.reader < j /\ j <= e.writer
    BY <1>6, Within
  <2>2. j - e.reader + b.reader = b.reader + i
    BY <1>6
  <2> HIDE DEF j
  <2>3. k[j] = m[j - e.reader + b.reader]
    BY <2>1, MovedAt
  <2> QED
    BY <2>2, <2>3 DEF j
<1> HIDE DEF k, n
<1>8. \A i \in 1..ReadableBytes(b) : n[e.reader + i] = m[b.reader + i]
  <2> SUFFICES ASSUME NEW i \in 1..ReadableBytes(b) PROVE n[e.reader + i] = m[b.reader + i]
    OBVIOUS
  <2>1. e.reader + i \in 1..Len(k) /\ ~(e.writer < e.reader + i)
    BY <1>5, <1>6, Within
  <2>2. n[e.reader + i] = k[e.reader + i]
    BY <1>3, <2>1, CopiedAt
  <2> QED
    BY <1>7, <2>2
<1>9. \A i \in 1..Len(s) : n[e.reader + ReadableBytes(b) + i] = s[i]
  <2> SUFFICES ASSUME NEW i \in 1..Len(s) PROVE n[e.writer + i] = s[i]
    BY <1>6
  <2>1. e.writer + Len(s) <= Len(k) /\ Len(k) \in Nat
    BY <1>5, <1>6
  <2>2. Copied(k, e.writer, s)[e.writer + i] = s[i]
    BY <1>6, <2>1, CopiedBehind
  <2> QED
    BY <1>3, <2>2
<1> QED
  BY <1>4, <1>8, <1>9 DEF n

\* Bytes that come behind the contents are put into the queue.
LEMMA PutsBehind ==
    ASSUME NEW b, NEW m, Sized(b, m), Stored(b, m), NEW c, NEW n, Sized(c, n),
           NEW s \in Seq(Bytes), s # <<>>,
           ReadableBytes(c) = ReadableBytes(b) + Len(s),
           \A i \in 1..ReadableBytes(b) : n[c.reader + i] = m[b.reader + i],
           \A i \in 1..Len(s) : n[c.reader + ReadableBytes(b) + i] = s[i]
    PROVE  /\ Stored(c, n)
           /\ ContentsOf(c, n) \in Seq(Bytes)
           /\ Len(ContentsOf(c, n)) > Len(ContentsOf(b, m))
           /\ SubSeq(ContentsOf(c, n), 1, Len(ContentsOf(b, m))) = ContentsOf(b, m)
<1> DEFINE x == ContentsOf(b, m)
           y == ContentsOf(c, n)
<1>1. /\ x \in Seq(Cells) /\ Len(x) = ReadableBytes(b)
      /\ \A i \in 1..ReadableBytes(b) : x[i] = m[b.reader + i]
  BY ContentsIs
<1>2. /\ y \in Seq(Cells) /\ Len(y) = ReadableBytes(c)
      /\ \A i \in 1..ReadableBytes(c) : y[i] = n[c.reader + i]
  BY ContentsIs
<1> HIDE DEF x, y
<1>3. ReadableBytes(b) \in Nat /\ Len(s) \in Nat /\ Len(s) > 0 /\ c.reader \in Nat
  <2>1. ReadableBytes(b) \in Nat /\ c.reader \in Nat
    BY ReadableNat DEF Sized, Good, BufferType
  <2>2. Len(s) \in Nat /\ Len(s) > 0
    OBVIOUS
  <2> QED
    BY <2>1, <2>2
<1>4. Stored(c, n)
  <2> SUFFICES ASSUME NEW i \in 1..ReadableBytes(c) PROVE n[c.reader + i] \in Bytes
    BY DEF Stored
  <2>1. CASE i <= ReadableBytes(b)
    <3>1. i \in 1..ReadableBytes(b)
      BY <1>3, <2>1
    <3> QED
      BY <3>1 DEF Stored
  <2>2. CASE ~(i <= ReadableBytes(b))
    <3>1. i - ReadableBytes(b) \in 1..Len(s)
      BY <1>3, <2>2
    <3>2. c.reader + ReadableBytes(b) + (i - ReadableBytes(b)) = c.reader + i
      BY <1>3
    <3>3. n[c.reader + i] = s[i - ReadableBytes(b)]
      BY <3>1, <3>2
    <3> QED
      BY <3>1, <3>3
  <2> QED
    BY <2>1, <2>2
<1>5. y \in Seq(Bytes)
  <2>1. \A i \in 1..Len(y) : y[i] \in Bytes
    BY <1>2, <1>4 DEF Stored
  <2>2. y = [i \in 1..Len(y) |-> y[i]] /\ Len(y) \in Nat
    BY <1>2
  <2> QED
    BY <2>1, <2>2
<1>6. SubSeq(y, 1, Len(x)) = x
  <2>1. /\ SubSeq(y, 0 + 1, Len(x)) \in Seq(Cells) /\ Len(SubSeq(y, 0 + 1, Len(x))) = Len(x) - 0
        /\ \A i \in 1..(Len(x) - 0) : SubSeq(y, 0 + 1, Len(x))[i] = y[0 + i]
    BY <1>1, <1>2, <1>3, PieceIs
  <2>2. 0 + 1 = 1 /\ Len(x) - 0 = Len(x) /\ \A i \in 1..Len(x) : 0 + i = i
    BY <1>1, <1>3
  <2>3. /\ SubSeq(y, 1, Len(x)) \in Seq(Cells) /\ Len(SubSeq(y, 1, Len(x))) = Len(x)
        /\ \A i \in 1..Len(x) : SubSeq(y, 1, Len(x))[i] = y[i]
    BY <2>1, <2>2
  <2>4. \A i \in 1..Len(x) : y[i] = x[i]
    <3> SUFFICES ASSUME NEW i \in 1..ReadableBytes(b) PROVE y[i] = x[i]
      BY <1>1
    <3>1. i \in 1..ReadableBytes(c)
      BY <1>3
    <3>2. y[i] = n[c.reader + i] /\ x[i] = m[b.reader + i]
      BY <1>1, <1>2, <3>1
    <3> QED
      BY <3>2
  <2> QED
    BY <1>1, <2>3, <2>4, SeqEqual
<1> QED
  BY <1>1, <1>2, <1>3, <1>4, <1>5, <1>6 DEF x, y

\* readv into the writable part.
LEMMA LandedBytes ==
    ASSUME NEW b, NEW m, Sized(b, m), NEW p \in Seq(Cells), Len(p) <= WritableBytes(b)
    PROVE  /\ \A i \in 1..ReadableBytes(b) : Copied(m, b.writer, p)[b.reader + i] = m[b.reader + i]
           /\ \A i \in 1..Len(p) : Copied(m, b.writer, p)[b.reader + ReadableBytes(b) + i] = p[i]
<1>1. /\ b.reader \in Nat /\ b.writer \in Nat /\ Len(p) \in Nat /\ ReadableBytes(b) \in Nat
      /\ b.writer + Len(p) <= Len(m) /\ Len(m) \in Nat
      /\ b.writer = b.reader + ReadableBytes(b)
  BY DEF Sized, Good, BufferType, WritableBytes, ReadableBytes
<1>2. ASSUME NEW i \in 1..ReadableBytes(b)
      PROVE  Copied(m, b.writer, p)[b.reader + i] = m[b.reader + i]
  <2>1. b.reader + i \in 1..Len(m) /\ ~(b.writer < b.reader + i)
    BY <1>1
  <2> QED
    BY <2>1, CopiedAt
<1>3. ASSUME NEW i \in 1..Len(p)
      PROVE  Copied(m, b.writer, p)[b.writer + i] = p[i]
  BY <1>1, CopiedBehind
<1> QED
  BY <1>1, <1>2, <1>3

\* readFd: what does not fit comes behind what has landed.
LEMMA ReadBytes ==
    ASSUME Sized(buf, mem), NEW s \in Seq(Cells), ReadFromFd(s)
    PROVE  /\ ReadableBytes(buf') = ReadableBytes(buf) + Len(s)
           /\ \A i \in 1..ReadableBytes(buf) : mem'[buf'.reader + i] = mem[buf.reader + i]
           /\ \A i \in 1..Len(s) : mem'[buf'.reader + ReadableBytes(buf) + i] = s[i]
<1> DEFINE k == IF Len(s) <= WritableBytes(buf) THEN Len(s) ELSE WritableBytes(buf)
           p == SubSeq(s, 1, k)
           m == Copied(mem, buf.writer, p)
           full == [buf EXCEPT !.writer = buf.size]
           r == SubSeq(s, k + 1, Len(s))
<1>1. /\ buf.reader \in Nat /\ buf.writer \in Nat /\ buf.size \in Nat /\ Len(s) \in Nat
      /\ WritableBytes(buf) \in Nat /\ ReadableBytes(buf) \in Nat
      /\ k \in Nat /\ k <= Len(s) /\ k <= WritableBytes(buf)
      /\ ReadableBytes(buf) = buf.writer - buf.reader
      /\ WritableBytes(buf) = buf.size - buf.writer
  BY DEF Sized, Good, BufferType, WritableBytes, ReadableBytes
<1>2. p \in Seq(Cells) /\ Len(p) = k /\ \A i \in 1..k : p[i] = s[i]
  <2> HIDE DEF k
  <2>1. /\ SubSeq(s, 0 + 1, k) \in Seq(Cells) /\ Len(SubSeq(s, 0 + 1, k)) = k - 0
        /\ \A i \in 1..(k - 0) : SubSeq(s, 0 + 1, k)[i] = s[0 + i]
    BY <1>1, PieceIs
  <2>2. 0 + 1 = 1 /\ k - 0 = k /\ \A i \in 1..k : 0 + i = i
    BY <1>1
  <2> QED
    BY <2>1, <2>2
<1>3. m \in Seq(Cells) /\ Len(m) = buf.size
  BY <1>1, <1>2, CopiedType DEF Sized
<1> HIDE DEF p
<1>4. /\ \A i \in 1..ReadableBytes(buf) : m[buf.reader + i] = mem[buf.reader + i]
      /\ \A i \in 1..k : m[buf.reader + ReadableBytes(buf) + i] = s[i]
  <2>1. Sized(buf, mem) /\ Len(p) <= WritableBytes(buf)
    BY <1>1, <1>2
  <2> HIDE DEF k, m
  <2>2. /\ \A i \in 1..ReadableBytes(buf) :
              Copied(mem, buf.writer, p)[buf.reader + i] = mem[buf.reader + i]
        /\ \A i \in 1..Len(p) :
              Copied(mem, buf.writer, p)[buf.reader + ReadableBytes(buf) + i] = p[i]
    BY <1>2, <2>1, LandedBytes
  <2> QED
    BY <1>2, <2>2 DEF m
<1>5. CASE Len(s) <= WritableBytes(buf)
  <2>1. k = Len(s)
    BY <1>5
  <2>2. mem' = m /\ buf' = [buf EXCEPT !.writer = @ + Len(s)]
    BY <1>5 DEF ReadFromFd, ReadFd, p
  <2>3. buf'.reader = buf.reader /\ buf'.writer = buf.writer + Len(s)
    BY <2>2 DEF Sized, Good, BufferType
  <2> HIDE DEF k, m
  <2>4. ReadableBytes(buf') = ReadableBytes(buf) + Len(s)
    BY <1>1, <2>3 DEF ReadableBytes
  <2> QED
    BY <1>4, <2>1, <2>2, <2>3, <2>4
<1>6. CASE ~(Len(s) <= WritableBytes(buf))
  <2>1. k = WritableBytes(buf) /\ k # Len(s)
    BY <1>1, <1>6
  <2>2. r \in Seq(Cells) /\ Len(r) = Len(s) - k /\ \A i \in 1..(Len(s) - k) : r[i] = s[k + i]
    <3> HIDE DEF k
    <3>1. /\ SubSeq(s, k + 1, Len(s)) \in Seq(Cells)
          /\ Len(SubSeq(s, k + 1, Len(s))) = Len(s) - k
          /\ \A i \in 1..(Len(s) - k) : SubSeq(s, k + 1, Len(s))[i] = s[k + i]
      <4>1. \A n \in Nat : n <= Len(s) =>
               /\ SubSeq(s, n + 1, Len(s)) \in Seq(Cells)
               /\ Len(SubSeq(s, n + 1, Len(s))) = Len(s) - n
               /\ \A i \in 1..(Len(s) - n) : SubSeq(s, n + 1, Len(s))[i] = s[n + i]
        BY <1>1, PieceIs
      <4> QED
        BY <1>1, <4>1
    <3> QED
      BY <3>1
  <2>3. /\ Good(full) /\ full.size = buf.size /\ full.reader = buf.reader
        /\ ReadableBytes(full) = ReadableBytes(buf) + k
    <3>1. full.size = buf.size /\ full.reader = buf.reader /\ full.writer = buf.size
      BY DEF Sized, Good, BufferType
    <3>2. full \in BufferType
      BY <1>1 DEF Sized, Good, BufferType
    <3> HIDE DEF full, k
    <3>3. Good(full)
      BY <1>1, <3>1, <3>2 DEF Sized, Good
    <3>4. ReadableBytes(full) = ReadableBytes(buf) + k
      BY <1>1, <2>1, <3>1 DEF ReadableBytes
    <3> QED
      BY <3>1, <3>3, <3>4
  <2>4. mem' = AppendedMem(full, m, r)
    BY <2>1 DEF ReadFromFd, p
  <2>5. buf' = AppendBytes(full, Len(s) - WritableBytes(buf))
    BY <1>6 DEF ReadFromFd, ReadFd
  <2> HIDE DEF k, m, full, r
  <2>6. buf' = AppendBytes(full, Len(r))
    BY <2>1, <2>2, <2>5
  <2>7. Sized(full, m)
    BY <1>3, <2>3 DEF Sized
  <2>8. /\ \A i \in 1..ReadableBytes(full) : mem'[buf'.reader + i] = m[full.reader + i]
        /\ \A i \in 1..Len(r) : mem'[buf'.reader + ReadableBytes(full) + i] = r[i]
    BY <2>2, <2>4, <2>6, <2>7, AppendedBytes
  <2>9. ReadableBytes(buf') = ReadableBytes(buf) + Len(s) /\ Good(buf') /\ buf'.reader \in Nat
    <3>1. Len(r) \in Nat
      BY <1>1, <2>2
    <3>2. ReadableBytes(buf') = ReadableBytes(full) + Len(r) /\ Good(buf')
      BY <2>3, <2>6, <3>1, AppendBytesGood
    <3> QED
      BY <1>1, <2>2, <2>3, <3>2 DEF Good, BufferType
  <2>10. ASSUME NEW i \in 1..ReadableBytes(buf)
         PROVE  mem'[buf'.reader + i] = mem[buf.reader + i]
    <3>1. i \in 1..ReadableBytes(full)
      BY <1>1, <2>3
    <3>2. mem'[buf'.reader + i] = m[buf.reader + i]
      BY <2>3, <2>8, <3>1
    <3> QED
      BY <1>4, <3>2
  <2>11. ASSUME NEW i \in 1..Len(s)
         PROVE  mem'[buf'.reader + ReadableBytes(buf) + i] = s[i]
    <3>1. CASE i <= k
      <4>1. ReadableBytes(buf) + i \in 1..ReadableBytes(full)
        BY <1>1, <2>3, <3>1
      <4>2. mem'[buf'.reader + (ReadableBytes(buf) + i)] = m[buf.reader + (ReadableBytes(buf) + i)]
        BY <2>3, <2>8, <4>1
      <4>3. /\ buf'.reader + (ReadableBytes(buf) + i) = buf'.reader + ReadableBytes(buf) + i
            /\ buf.reader + (ReadableBytes(buf) + i) = buf.reader + ReadableBytes(buf) + i
        BY <1>1, <2>9
      <4>4. m[buf.reader + ReadableBytes(buf) + i] = s[i]
        BY <1>1, <1>4, <3>1
      <4> QED
        BY <4>2, <4>3, <4>4
    <3>2. CASE ~(i <= k)
      <4>1. i - k \in 1..Len(r) /\ k + (i - k) = i
        <5>1. ASSUME NEW a \in Nat, NEW l \in Nat, NEW x \in 1..l, ~(x <= a)
              PROVE  x - a \in 1..(l - a) /\ a + (x - a) = x
          BY <5>1
        <5> QED
          BY <1>1, <2>2, <3>2, <5>1
      <4>2. mem'[buf'.reader + ReadableBytes(full) + (i - k)] = r[i - k]
        BY <2>8, <4>1
      <4>3. buf'.reader + ReadableBytes(full) + (i - k) = buf'.reader + ReadableBytes(buf) + i
        BY <1>1, <2>3, <2>9
      <4>4. r[i - k] = s[i]
        BY <2>2, <4>1
      <4> QED
        BY <4>2, <4>3, <4>4
    <3> QED
      BY <3>1, <3>2
  <2> QED
    BY <2>9, <2>10, <2>11
<1> QED
  BY <1>5, <1>6

\* retrieve() takes out the bytes in front; more than there are is all of them.
LEMMA TakesFront ==
    ASSUME NEW b, NEW m, Sized(b, m), Stored(b, m), NEW n \in Nat \ {0}, ReadableBytes(b) > 0
    PROVE  LET x == ContentsOf(b, m) IN
           /\ Stored(Retrieve(b, n), m)
           /\ \E k \in 1..Len(x) : ContentsOf(Retrieve(b, n), m) = SubSeq(x, k + 1, Len(x))
<1> DEFINE x == ContentsOf(b, m)
           c == Retrieve(b, n)
           R == ReadableBytes(b)
           k == IF n < R THEN n ELSE R
<1>1. x \in Seq(Cells) /\ Len(x) = R /\ \A i \in 1..R : x[i] = m[b.reader + i]
  BY ContentsIs
<1>2. R \in Nat /\ k \in 1..R
  BY ReadableNat DEF Sized
<1>3. /\ Good(c) /\ c.size = b.size /\ ReadableBytes(c) = R - k
      /\ c.reader \in Nat /\ b.reader \in Nat
      /\ n < R => c.reader = b.reader + k
  <2>1. /\ Good(c) /\ c.size = b.size
        /\ ReadableBytes(c) = IF n < R THEN R - n ELSE 0
    BY RetrieveGood DEF Sized
  <2>2. n < R => c.reader = b.reader + n
    BY DEF Retrieve, Sized, Good, BufferType
  <2> QED
    BY <1>2, <2>1, <2>2 DEF Sized, Good, BufferType
<1>4. Sized(c, m)
  BY <1>3 DEF Sized
<1> DEFINE y == ContentsOf(c, m)
           z == SubSeq(x, k + 1, Len(x))
<1>5. y \in Seq(Cells) /\ Len(y) = R - k /\ \A i \in 1..(R - k) : y[i] = m[c.reader + i]
  BY <1>3, <1>4, ContentsIs
<1>6. z \in Seq(Cells) /\ Len(z) = R - k /\ \A i \in 1..(R - k) : z[i] = x[k + i]
  <2> HIDE DEF k, R, x
  <2> QED
    BY <1>1, <1>2, PieceIs
<1>7. ASSUME NEW i \in 1..(R - k)
      PROVE  m[c.reader + i] = m[b.reader + (k + i)] /\ k + i \in 1..R
  <2>1. k + i \in 1..R /\ n < R
    BY <1>2
  <2>2. c.reader + i = b.reader + (k + i)
    <3> HIDE DEF k, R, c
    <3> QED
      BY <1>2, <1>3, <2>1
  <2> QED
    BY <2>1, <2>2
<1> HIDE DEF c, x, y, z, k, R
<1>8. Stored(c, m)
  <2>1. \A i \in 1..R : m[b.reader + i] \in Bytes
    BY DEF Stored, R
  <2> QED
    BY <1>3, <1>7, <2>1 DEF Stored
<1>9. y = z
  <2>1. ASSUME NEW i \in 1..(R - k) PROVE y[i] = z[i]
    BY <1>1, <1>5, <1>6, <1>7, <2>1
  <2> QED
    BY <1>5, <1>6, <2>1, SeqEqual
<1> QED
  BY <1>1, <1>2, <1>8, <1>9 DEF c, x, y, z

LEMMA InputBytes == ASSUME NEW s \in Inputs PROVE s \in Seq(Bytes) /\ s # <<>>
  BY BufferDataAssumption DEF Inputs, BoundedSeq, SeqOf

LEMMA InvSized == Inv => Sized(buf, mem) /\ Contents = ContentsOf(buf, mem)
  BY InvIsGood DEF Sized, Contents, ContentsOf

\* The inductive invariant of the refinement: the contents are bytes that were put in.
DataInv == Inv /\ Stored(buf, mem)

\* Every step puts bytes behind the contents, takes the front of them out or, when handleWrite
\* writes out of an empty buffer, leaves them empty.
LEMMA StepServes ==
    ASSUME DataInv, Inv', Next
    PROVE  Stored(buf, mem)' /\ [BQ!Next]_Contents
<1>1. Sized(buf, mem) /\ Stored(buf, mem) /\ Contents = ContentsOf(buf, mem)
  BY InvSized DEF DataInv
<1>2. Sized(buf', mem') /\ Contents' = ContentsOf(buf', mem')
  BY InvIsGood DEF Sized, Contents, ContentsOf, Inv, TypeOK, IndicesOK, Good, Cells
<1>3. ASSUME NEW s \in Inputs,
             ReadableBytes(buf') = ReadableBytes(buf) + Len(s),
             \A i \in 1..ReadableBytes(buf) : mem'[buf'.reader + i] = mem[buf.reader + i],
             \A i \in 1..Len(s) : mem'[buf'.reader + ReadableBytes(buf) + i] = s[i]
      PROVE  Stored(buf, mem)' /\ BQ!Next
  <2>1. s \in Seq(Bytes) /\ s # <<>>
    BY InputBytes
  <2>2. /\ Stored(buf', mem')
        /\ ContentsOf(buf', mem') \in Seq(Bytes)
        /\ Len(ContentsOf(buf', mem')) > Len(ContentsOf(buf, mem))
        /\ SubSeq(ContentsOf(buf', mem'), 1, Len(ContentsOf(buf, mem))) = ContentsOf(buf, mem)
    BY <1>1, <1>2, <1>3, <2>1, PutsBehind
  <2>3. BQ!Put
    BY <1>1, <1>2, <2>2, Zenon DEF BQ!Put
  <2> QED
    BY <2>2, <2>3, Zenon DEF BQ!Next, Stored
<1>4. ASSUME NEW s \in Inputs, PutIn(s) PROVE Stored(buf, mem)' /\ BQ!Next
  <2>1. s \in Seq(Cells) /\ Len(s) \in Nat
    BY InputType
  <2>2. buf' = AppendBytes(buf, Len(s)) /\ mem' = AppendedMem(buf, mem, s)
    BY <1>4 DEF PutIn
  <2>3. /\ \A i \in 1..ReadableBytes(buf) : mem'[buf'.reader + i] = mem[buf.reader + i]
        /\ \A i \in 1..Len(s) : mem'[buf'.reader + ReadableBytes(buf) + i] = s[i]
    BY <1>1, <2>1, <2>2, AppendedBytes
  <2>4. ReadableBytes(buf') = ReadableBytes(buf) + Len(s)
    BY <1>1, <2>1, <2>2, AppendBytesGood DEF Sized
  <2> QED
    BY <1>3, <2>3, <2>4
<1>5. ASSUME NEW s \in Inputs, ReadFromFd(s) PROVE Stored(buf, mem)' /\ BQ!Next
  BY <1>1, <1>3, <1>5, InputType, ReadBytes
<1>6. ASSUME NEW n \in Nat \ {0}, ReadableBytes(buf) > 0, buf' = Retrieve(buf, n), mem' = mem
      PROVE  Stored(buf, mem)' /\ BQ!Next
  <2>1. /\ Stored(buf', mem')
        /\ \E k \in 1..Len(ContentsOf(buf, mem)) :
               ContentsOf(buf', mem') =
                   SubSeq(ContentsOf(buf, mem), k + 1, Len(ContentsOf(buf, mem)))
    BY <1>1, <1>6, TakesFront
  <2>2. BQ!Take
    BY <1>1, <1>2, <2>1, Zenon DEF BQ!Take
  <2> QED
    BY <2>1, <2>2, Zenon DEF BQ!Next, Stored
<1>7. ASSUME NEW n \in Nat, ReadableBytes(buf) = 0, buf' = Retrieve(buf, n), mem' = mem
      PROVE  Stored(buf, mem)' /\ Contents' = Contents
  <2>1. ReadableBytes(buf') = 0
    BY <1>1, <1>7, RetrieveGood DEF Sized
  <2>2. /\ ContentsOf(buf, mem) \in Seq(Cells) /\ Len(ContentsOf(buf, mem)) = 0
        /\ ContentsOf(buf', mem') \in Seq(Cells) /\ Len(ContentsOf(buf', mem')) = 0
    BY <1>1, <1>2, <1>7, <2>1, ContentsIs
  <2>3. ContentsOf(buf, mem) = ContentsOf(buf', mem')
    BY <2>2, SeqEqual
  <2> QED
    BY <1>1, <1>2, <2>1, <2>3 DEF Stored
<1>8. ASSUME NEW n \in 1..MaxSize, TakeOut(n) \/ WriteToFd(n)
      PROVE  Stored(buf, mem)' /\ [BQ!Next]_Contents
  <2>1. n \in Nat \ {0} /\ ReadableBytes(buf) \in Nat
    BY <1>1, BufferDataAssumption, ReadableNat DEF Sized
  <2>2. buf' = Retrieve(buf, n) /\ mem' = mem
    BY <1>8 DEF TakeOut, WriteToFd
  <2> QED
    BY <1>6, <1>7, <2>1, <2>2
<1> QED
  BY <1>4, <1>5, <1>8 DEF Next

\* A Buffer is a FIFO of bytes for every size, every input and every share that write() accepts:
\* no move, growth or detour through extrabuf loses, repeats or reorders a byte, although
\* writeFd may send more than there is.
THEOREM Refinement == Spec => ImplementsByteQueue
<1>1. Init /\ Inv => DataInv /\ BQ!Init
  <2> SUFFICES ASSUME Init, Inv PROVE Stored(buf, mem) /\ Contents = <<>>
    BY DEF DataInv, BQ!Init
  <2>1. buf.reader = kCheapPrepend /\ buf.writer = kCheapPrepend /\ kCheapPrepend \in Nat
    BY BufferAssumption DEF Init, NewBuffer
  <2>2. Contents = <<>>
    BY <2>1, SubSeqEmpty DEF Contents
  <2>3. ReadableBytes(buf) = 0
    BY <2>1 DEF ReadableBytes
  <2> QED
    BY <2>2, <2>3 DEF Stored
<1>2. DataInv /\ Inv' /\ [Next]_vars => DataInv' /\ [BQ!Next]_Contents
  <2> SUFFICES ASSUME DataInv, Inv', [Next]_vars PROVE DataInv' /\ [BQ!Next]_Contents
    OBVIOUS
  <2>1. CASE Next
    BY <2>1, StepServes DEF DataInv
  <2>2. CASE UNCHANGED vars
    <3>1. buf' = buf /\ mem' = mem
      BY <2>2 DEF vars
    <3> QED
      BY <3>1 DEF DataInv, Stored, Contents
  <2> QED
    BY <2>1, <2>2
<1> QED
  BY <1>1, <1>2, InvHolds, PTL DEF Spec, ImplementsByteQueue, BQ!Spec
=============================================================================
