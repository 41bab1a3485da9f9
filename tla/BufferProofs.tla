---------------------------- MODULE BufferProofs ----------------------------
(***************************************************************************)
(* Proofs about Buffer, for vectors and messages of every size: what each  *)
(* operation does to the bytes that can be read, and that the buffer is a  *)
(* queue of bytes; and about PacketParser: that its messages are those     *)
(* that were sent.                                                         *)
(***************************************************************************)
EXTENDS PacketParser, SequenceTheorems, WellFoundedInduction, TLAPS

-----------------------------------------------------------------------------
(* What can be read is a sequence of bytes.                                *)
LEMMA ContentType ==
  ASSUME NEW b, IsBuffer(b)
  PROVE  /\ Readable(b) \in Nat
         /\ Writeable(b) \in Nat
         /\ Content(b) \in Seq(Bytes)
         /\ Len(Content(b)) = Readable(b)
         /\ \A i \in 1..Readable(b) : Content(b)[i] = b.cells[b.read + i - 1]
<1>1. Readable(b) \in Nat /\ Writeable(b) \in Nat
  BY DEF IsBuffer, Readable, Writeable
<1>2. ASSUME NEW i \in 1..Readable(b) PROVE b.cells[b.read + i - 1] \in Bytes
  <2>1. b.read + i - 1 \in 0..(b.size - 1)
    BY BufferAssumption DEF IsBuffer, Readable
  <2>2. QED
    BY <2>1 DEF IsBuffer
<1>3. Content(b) \in [1..Readable(b) -> Bytes]
  BY <1>2 DEF Content
<1>4. Content(b) \in Seq(Bytes)
  BY <1>1, <1>3, SeqDef
<1>5. Len(Content(b)) = Readable(b)
  BY <1>1, <1>3
<1>6. QED
  BY <1>1, <1>4, <1>5 DEF Content

(* Two buffers with the same number of readable bytes, and the same bytes, *)
(* have the same content.                                                  *)
LEMMA SameContent ==
  ASSUME NEW b, NEW c, IsBuffer(b), IsBuffer(c),
         Readable(b) = Readable(c),
         \A i \in 1..Readable(b) : b.cells[b.read + i - 1] = c.cells[c.read + i - 1]
  PROVE  Content(b) = Content(c)
  BY DEF Content

(* Storing behind the write index appends to the content.                  *)
LEMMA StoredIsAppended ==
  ASSUME NEW b, IsBuffer(b), NEW s \in Seq(Bytes), b.write + Len(s) <= b.size
  PROVE  /\ IsBuffer(Stored(b, s))
         /\ Stored(b, s).size = b.size
         /\ Stored(b, s).write = b.write + Len(s)
         /\ Readable(Stored(b, s)) = Readable(b) + Len(s)
         /\ Content(Stored(b, s)) = Content(b) \o s
<1> DEFINE c == Stored(b, s)
           new == [i \in 0..(b.size - 1) |->
                     IF b.write <= i /\ i < b.write + Len(s)
                     THEN s[i - b.write + 1] ELSE b.cells[i]]
<1>1. c = [cells |-> new, size |-> b.size, read |-> b.read, write |-> b.write + Len(s)]
  BY DEF Stored, Vector
<1>2. Len(s) \in Nat
  BY LenProperties
<1>3. new \in [0..(b.size - 1) -> Bytes]
  <2>1. ASSUME NEW i \in 0..(b.size - 1) PROVE new[i] \in Bytes
    <3>1. CASE b.write <= i /\ i < b.write + Len(s)
      <4>1. i - b.write + 1 \in 1..Len(s)
        BY <3>1, <1>2 DEF IsBuffer
      <4>2. QED
        BY <3>1, <4>1, ElementOfSeq
    <3>2. CASE ~(b.write <= i /\ i < b.write + Len(s))
      BY <3>2 DEF IsBuffer
    <3>3. QED
      BY <3>1, <3>2
  <2>2. QED
    BY <2>1
<1> HIDE DEF new
<1>4. IsBuffer(c)
  BY <1>1, <1>2, <1>3, BufferAssumption DEF IsBuffer, Vector
<1>5. Readable(c) = Readable(b) + Len(s)
  BY <1>1, <1>2 DEF Readable, IsBuffer
<1>6. ASSUME NEW i \in 1..(Readable(b) + Len(s))
      PROVE  Content(c)[i] = (Content(b) \o s)[i]
  <2> DEFINE k == b.read + i - 1
  <2>1. k \in 0..(b.size - 1)
    BY <1>2, BufferAssumption, SMTT(30) DEF IsBuffer, Readable
  <2>2. Content(c)[i] = new[k]
    BY <1>1, <1>5 DEF Content
  <2>3. (Content(b) \o s)[i] = IF i <= Readable(b) THEN Content(b)[i] ELSE s[i - Readable(b)]
    BY ContentType, ConcatProperties
  <2>4. CASE i <= Readable(b)
    <3>1. new[k] = b.cells[k]
      BY <2>1, <2>4, <1>2 DEF new, Readable, IsBuffer
    <3>2. QED
      BY <2>2, <2>3, <2>4, <3>1, ContentType
  <2>5. CASE ~(i <= Readable(b))
    <3>1. b.write <= k /\ k < b.write + Len(s) /\ k - b.write + 1 = i - Readable(b)
      BY <2>5, <1>2 DEF Readable, IsBuffer
    <3>2. QED
      BY <2>1, <2>2, <2>3, <2>5, <3>1 DEF new
  <2>6. QED
    BY <2>4, <2>5
<1>7. Content(c) = Content(b) \o s
  <2>1. Content(c) \in Seq(Bytes) /\ Len(Content(c)) = Readable(b) + Len(s)
    BY <1>4, <1>5, ContentType
  <2>2. Content(b) \o s \in Seq(Bytes) /\ Len(Content(b) \o s) = Readable(b) + Len(s)
    <3>1. Content(b) \in Seq(Bytes) /\ Len(Content(b)) = Readable(b)
      BY ContentType
    <3>2. QED
      BY <3>1, ConcatProperties
  <2>3. QED
    BY <2>1, <2>2, <1>6, SeqEqual
<1>8. QED
  BY <1>1, <1>4, <1>5, <1>7

(* Moving the readable bytes to the front changes none of them.            *)
LEMMA CompactedIsSame ==
  ASSUME NEW b, IsBuffer(b)
  PROVE  /\ IsBuffer(Compacted(b))
         /\ Compacted(b).size = b.size
         /\ Compacted(b).write = HeadSize + Readable(b)
         /\ Readable(Compacted(b)) = Readable(b)
         /\ Content(Compacted(b)) = Content(b)
<1> DEFINE c == Compacted(b)
           new == [i \in 0..(b.size - 1) |->
                     IF HeadSize <= i /\ i < HeadSize + Readable(b)
                     THEN b.cells[b.read + (i - HeadSize)] ELSE b.cells[i]]
<1>1. c = [cells |-> new, size |-> b.size, read |-> HeadSize, write |-> HeadSize + Readable(b)]
  BY DEF Compacted, Vector
<1>2. new \in [0..(b.size - 1) -> Bytes]
  <2>1. ASSUME NEW i \in 0..(b.size - 1) PROVE new[i] \in Bytes
    <3>1. CASE HeadSize <= i /\ i < HeadSize + Readable(b)
      <4>1. b.read + (i - HeadSize) \in 0..(b.size - 1)
        BY <3>1, BufferAssumption DEF IsBuffer, Readable
      <4>2. QED
        BY <3>1, <4>1 DEF IsBuffer
    <3>2. CASE ~(HeadSize <= i /\ i < HeadSize + Readable(b))
      BY <3>2 DEF IsBuffer
    <3>3. QED
      BY <3>1, <3>2
  <2>2. QED
    BY <2>1
<1>3. \A i \in 1..Readable(b) : new[HeadSize + i - 1] = b.cells[b.read + i - 1]
  <2>1. SUFFICES ASSUME NEW i \in 1..Readable(b)
                 PROVE  new[HeadSize + i - 1] = b.cells[b.read + i - 1]
    OBVIOUS
  <2> DEFINE k == HeadSize + i - 1
  <2>2. /\ k \in 0..(b.size - 1)
        /\ HeadSize <= k /\ k < HeadSize + Readable(b)
        /\ b.read + (k - HeadSize) = b.read + i - 1
    BY BufferAssumption DEF IsBuffer, Readable
  <2>3. QED
    BY <2>2
<1> HIDE DEF new
<1>4. IsBuffer(c)
  BY <1>1, <1>2, BufferAssumption DEF IsBuffer, Vector, Readable
<1>5. Readable(c) = Readable(b)
  BY <1>1, BufferAssumption DEF Readable, IsBuffer
<1>6. Content(c) = Content(b)
  BY <1>1, <1>3, <1>5 DEF Content
<1>7. QED
  BY <1>1, <1>4, <1>5, <1>6

(* Growing leaves the bytes where they are.                                *)
LEMMA ResizedIsSame ==
  ASSUME NEW b, IsBuffer(b), NEW n \in Nat, b.size <= n
  PROVE  /\ IsBuffer(Resized(b, n))
         /\ Resized(b, n).size = n
         /\ Resized(b, n).write = b.write
         /\ Readable(Resized(b, n)) = Readable(b)
         /\ Content(Resized(b, n)) = Content(b)
<1> DEFINE c == Resized(b, n)
           new == [i \in 0..(n - 1) |-> IF i < b.size THEN b.cells[i] ELSE Zero]
<1>1. c = [cells |-> new, size |-> n, read |-> b.read, write |-> b.write]
  BY DEF Resized, Vector
<1>2. new \in [0..(n - 1) -> Bytes]
  BY BufferAssumption DEF IsBuffer
<1>3. \A i \in 1..Readable(b) : new[b.read + i - 1] = b.cells[b.read + i - 1]
  BY BufferAssumption, SMTT(30) DEF IsBuffer, Readable
<1> HIDE DEF new
<1>4. IsBuffer(c)
  BY <1>1, <1>2 DEF IsBuffer, Vector
<1>5. Readable(c) = Readable(b)
  BY <1>1 DEF Readable
<1>6. Content(c) = Content(b)
  BY <1>1, <1>3, <1>5 DEF Content
<1>7. QED
  BY <1>1, <1>4, <1>5, <1>6

(* After ensureWriteSpace there is room, the same bytes can be read, and   *)
(* the vector has grown only if they and len more did not fit.             *)
LEMMA EnsuredHasRoom ==
  ASSUME NEW b, IsBuffer(b), NEW len \in Nat
  PROVE  LET c == Ensured(b, len)
         IN  /\ IsBuffer(c)
             /\ c.write + len <= c.size
             /\ Readable(c) = Readable(b)
             /\ Content(c) = Content(b)
             /\ c.size # b.size => HeadSize + Readable(b) + len > b.size
<1>1. CASE Writeable(b) >= len
  BY <1>1 DEF Ensured, Writeable, IsBuffer
<1>2. CASE ~(Writeable(b) >= len) /\ Fits(b, len)
  <2>1. Ensured(b, len) = Compacted(b)
    BY <1>2 DEF Ensured
  <2>2. HeadSize + Readable(b) + len <= b.size
    BY <1>2, BufferAssumption DEF Fits, Writeable, Readable, IsBuffer
  <2>3. QED
    BY <2>1, <2>2, CompactedIsSame
<1>3. CASE ~(Writeable(b) >= len) /\ ~Fits(b, len)
  <2>1. Ensured(b, len) = Resized(b, b.write + len)
    BY <1>3 DEF Ensured
  <2>2. b.write + len \in Nat /\ b.size <= b.write + len
    BY <1>3 DEF Writeable, IsBuffer
  <2>3. HeadSize + Readable(b) + len > b.size
    BY <1>3, BufferAssumption DEF Fits, Writeable, Readable, IsBuffer
  <2>4. QED
    BY <2>1, <2>2, <2>3, ResizedIsSame
<1>4. QED
  BY <1>1, <1>2, <1>3

(* append adds its bytes to what can be read.                              *)
LEMMA AppendedIsPut ==
  ASSUME NEW b, IsBuffer(b), NEW s \in Seq(Bytes)
  PROVE  LET c == Appended(b, s)
         IN  /\ IsBuffer(c)
             /\ Readable(c) = Readable(b) + Len(s)
             /\ Content(c) = Content(b) \o s
             /\ c.size # b.size => HeadSize + Readable(c) > b.size
<1> DEFINE e == Ensured(b, Len(s))
<1>1. Len(s) \in Nat
  BY LenProperties
<1>2. /\ IsBuffer(e)
      /\ e.write + Len(s) <= e.size
      /\ Readable(e) = Readable(b)
      /\ Content(e) = Content(b)
      /\ e.size # b.size => HeadSize + Readable(b) + Len(s) > b.size
  BY <1>1, EnsuredHasRoom
<1>3. Appended(b, s) = Stored(e, s)
  BY DEF Appended
<1> HIDE DEF e
<1>4. /\ IsBuffer(Stored(e, s))
      /\ Stored(e, s).size = e.size
      /\ Readable(Stored(e, s)) = Readable(e) + Len(s)
      /\ Content(Stored(e, s)) = Content(e) \o s
  BY <1>2, StoredIsAppended
<1>5. Readable(b) \in Nat
  BY ContentType
<1>6. QED
  BY <1>1, <1>2, <1>3, <1>4, <1>5, BufferAssumption

(* A sequence is its first n elements and the others.                      *)
LEMMA SplitInTwo ==
  ASSUME NEW S, NEW s \in Seq(S), NEW n \in 0..Len(s)
  PROVE  /\ SubSeq(s, 1, n) \in Seq(S) /\ Len(SubSeq(s, 1, n)) = n
         /\ SubSeq(s, n + 1, Len(s)) \in Seq(S)
         /\ Len(SubSeq(s, n + 1, Len(s))) = Len(s) - n
         /\ SubSeq(s, 1, n) \o SubSeq(s, n + 1, Len(s)) = s
<1> DEFINE u == SubSeq(s, 1, n)
           v == SubSeq(s, n + 1, Len(s))
<1>1. Len(s) \in Nat /\ n \in Nat /\ n <= Len(s)
  BY LenProperties
<1>2. \A i \in 1..Len(s) : s[i] \in S
  BY ElementOfSeq
<1>3. /\ u \in Seq(S) /\ Len(u) = n
      /\ \A i \in 1..n : u[i] = s[i]
  BY <1>1, <1>2, SubSeqProperties
<1>4. /\ v \in Seq(S) /\ Len(v) = Len(s) - n
      /\ \A i \in 1..(Len(s) - n) : v[i] = s[n + i]
  BY <1>1, <1>2, SubSeqProperties
<1> HIDE DEF u, v
<1>5. /\ u \o v \in Seq(S) /\ Len(u \o v) = Len(s)
      /\ \A i \in 1..Len(s) : (u \o v)[i] = IF i <= n THEN u[i] ELSE v[i - n]
  BY <1>1, <1>3, <1>4, ConcatProperties
<1>6. ASSUME NEW i \in 1..Len(s) PROVE (u \o v)[i] = s[i]
  BY <1>1, <1>3, <1>4, <1>5
<1>7. u \o v = s
  BY <1>5, <1>6, SeqEqual
<1>8. QED
  BY <1>3, <1>4, <1>7 DEF u, v

(* A read from a socket adds its bytes, however they are split between the *)
(* vector and the array on the stack.                                      *)
LEMMA ReceivedIsPut ==
  ASSUME NEW b, IsBuffer(b), NEW s \in Seq(Bytes)
  PROVE  LET c == Received(b, s)
         IN  /\ IsBuffer(c)
             /\ Readable(c) = Readable(b) + Len(s)
             /\ Content(c) = Content(b) \o s
             /\ c.size # b.size => HeadSize + Readable(c) > b.size
<1>1. Len(s) \in Nat
  BY LenProperties
<1>2. CASE Len(s) <= Writeable(b)
  <2>1. Received(b, s) = Stored(b, s)
    BY <1>2 DEF Received
  <2>2. b.write + Len(s) <= b.size
    BY <1>1, <1>2 DEF Writeable, IsBuffer
  <2>3. QED
    BY <2>1, <2>2, StoredIsAppended
<1>3. CASE ~(Len(s) <= Writeable(b))
  <2> DEFINE u == SubSeq(s, 1, Writeable(b))
             v == SubSeq(s, Writeable(b) + 1, Len(s))
             e == Stored(b, u)
  <2>1. Writeable(b) \in 0..Len(s)
    BY <1>1, <1>3, ContentType
  <2>2. /\ u \in Seq(Bytes) /\ Len(u) = Writeable(b)
        /\ v \in Seq(Bytes) /\ Len(v) = Len(s) - Writeable(b)
        /\ u \o v = s
    BY <2>1, SplitInTwo
  <2>3. Received(b, s) = Appended(e, v)
    BY <1>3 DEF Received
  <2> HIDE DEF u, v
  <2>4. b.write + Len(u) <= b.size
    BY <2>2 DEF Writeable, IsBuffer
  <2>5. /\ IsBuffer(e) /\ e.size = b.size
        /\ Readable(e) = Readable(b) + Len(u)
        /\ Content(e) = Content(b) \o u
    BY <2>2, <2>4, StoredIsAppended
  <2> HIDE DEF e
  <2>6. /\ IsBuffer(Appended(e, v))
        /\ Readable(Appended(e, v)) = Readable(e) + Len(v)
        /\ Content(Appended(e, v)) = Content(e) \o v
        /\ Appended(e, v).size # e.size => HeadSize + Readable(Appended(e, v)) > e.size
    BY <2>2, <2>5, AppendedIsPut
  <2>7. (Content(b) \o u) \o v = Content(b) \o s
    <3>1. Content(b) \in Seq(Bytes)
      BY ContentType
    <3>2. (Content(b) \o u) \o v = Content(b) \o (u \o v)
      <4>1. \A x, y, z \in Seq(Bytes) : (x \o y) \o z = x \o (y \o z)
        BY ConcatAssociative
      <4>2. QED
        BY <2>2, <3>1, <4>1
    <3>3. QED
      BY <2>2, <3>2
  <2>8. Readable(e) + Len(v) = Readable(b) + Len(s)
    BY <1>1, <2>1, <2>2, <2>5, ContentType
  <2>9. QED
    BY <2>3, <2>5, <2>6, <2>7, <2>8
<1>4. QED
  BY <1>2, <1>3

(* retrieve takes the first len bytes, or all of them.                     *)
LEMMA RetrievedIsRest ==
  ASSUME NEW b, IsBuffer(b), NEW len \in Nat
  PROVE  LET c == Retrieved(b, len)
             n == IF len < Readable(b) THEN len ELSE Readable(b)
         IN  /\ IsBuffer(c)
             /\ c.size = b.size
             /\ n \in 0..Len(Content(b))
             /\ Content(c) = SubSeq(Content(b), n + 1, Len(Content(b)))
<1> DEFINE c == Retrieved(b, len)
           n == IF len < Readable(b) THEN len ELSE Readable(b)
<1>1. Readable(b) \in Nat /\ Content(b) \in Seq(Bytes) /\ Len(Content(b)) = Readable(b)
  BY ContentType
<1>2. n \in 0..Readable(b)
  BY <1>1
<1>3. /\ IsBuffer(c) /\ c.size = b.size
      /\ Readable(c) = Readable(b) - n
      /\ c.cells = b.cells
      /\ len < Readable(b) => c.read = b.read + len
  <2>1. CASE len < Readable(b)
    <3>1. c = Vector(b.cells, b.size, b.read + len, b.write)
      BY <2>1 DEF Retrieved
    <3>2. QED
      BY <2>1, <3>1, BufferAssumption DEF IsBuffer, Vector, Readable
  <2>2. CASE ~(len < Readable(b))
    <3>1. c = Vector(b.cells, b.size, HeadSize, HeadSize)
      BY <2>2 DEF Retrieved
    <3>2. QED
      BY <2>2, <3>1, <1>1, BufferAssumption DEF IsBuffer, Vector, Readable
  <2>3. QED
    BY <2>1, <2>2
<1> HIDE DEF c
<1>4. /\ Content(c) \in Seq(Bytes) /\ Len(Content(c)) = Readable(b) - n
      /\ \A i \in 1..(Readable(b) - n) : Content(c)[i] = b.cells[c.read + i - 1]
  BY <1>3, ContentType
<1> DEFINE t == SubSeq(Content(b), n + 1, Readable(b))
<1>5. /\ t \in Seq(Bytes) /\ Len(t) = Readable(b) - n
      /\ \A i \in 1..(Readable(b) - n) : t[i] = Content(b)[n + i]
  <2>1. \A i \in 1..Readable(b) : Content(b)[i] \in Bytes
    BY <1>1, ElementOfSeq
  <2>2. QED
    BY <1>1, <1>2, <2>1, SubSeqProperties
<1> HIDE DEF t
<1>6. ASSUME NEW i \in 1..(Readable(b) - n) PROVE Content(c)[i] = t[i]
  <2>1. len < Readable(b) /\ n = len
    BY <1>1
  <2>2. Content(b)[n + i] = b.cells[b.read + (n + i) - 1]
    BY <1>1, <1>2, ContentType
  <2>3. c.read + i - 1 = b.read + (n + i) - 1
    BY <1>3, <2>1 DEF IsBuffer
  <2>4. QED
    BY <1>4, <1>5, <2>2, <2>3
<1>7. Content(c) = t
  BY <1>4, <1>5, <1>6, SeqEqual
<1>8. QED
  BY <1>1, <1>2, <1>3, <1>7 DEF c, t

LEMMA RetrievedIsTaken ==
  ASSUME NEW b, IsBuffer(b), NEW len \in Nat
  PROVE  LET c == Retrieved(b, len)
         IN  /\ IsBuffer(c)
             /\ c.size = b.size
             /\ \E n \in 0..Len(Content(b)) :
                  Content(c) = SubSeq(Content(b), n + 1, Len(Content(b)))
BY RetrievedIsRest

-----------------------------------------------------------------------------
(* A buffer is made empty.                                                 *)
LEMMA NewIsEmpty == IsBuffer(New) /\ Content(New) = <<>>
<1>1. IsBuffer(New)
  BY BufferAssumption DEF IsBuffer, New, Vector
<1>2. Readable(New) = 0
  BY BufferAssumption DEF New, Vector, Readable
<1>3. Len(Content(New)) = 0 /\ Content(New) \in Seq(Bytes)
  BY <1>1, <1>2, ContentType
<1>4. QED
  BY <1>1, <1>3, EmptySeq

LEMMA TypeNext == TypeOK /\ [Next]_buf => TypeOK'
<1> SUFFICES ASSUME TypeOK, [Next]_buf PROVE TypeOK'
  OBVIOUS
<1>1. ASSUME NEW s \in Inputs, AppendData(s) PROVE TypeOK'
  BY <1>1, AppendedIsPut, BufferAssumption DEF AppendData, TypeOK
<1>2. ASSUME NEW s \in Inputs, Receive(s) PROVE TypeOK'
  BY <1>2, ReceivedIsPut, BufferAssumption DEF Receive, TypeOK
<1>3. ASSUME NEW len \in 0..(MaxReadable + 1), Retrieve(len) PROVE TypeOK'
  BY <1>3, RetrievedIsTaken, BufferAssumption DEF Retrieve, TypeOK
<1>4. CASE UNCHANGED buf
  BY <1>4 DEF TypeOK
<1>5. QED
  BY <1>1, <1>2, <1>3, <1>4 DEF Next

(***************************************************************************)
(* The indexes stay in order within the vector.                            *)
(***************************************************************************)
THEOREM TypeCorrect == Spec => []TypeOK
<1>1. Init => TypeOK
  BY NewIsEmpty DEF Init, TypeOK
<1>2. QED
  BY <1>1, TypeNext, PTL DEF Spec

(* A step of the buffer is a step of the queue.                            *)
LEMMA QueueNext == TypeOK /\ [Next]_buf => [Queue!Next]_(Content(buf))
<1> SUFFICES ASSUME TypeOK, [Next]_buf PROVE [Queue!Next]_(Content(buf))
  OBVIOUS
<1>1. ASSUME NEW s \in Inputs, AppendData(s) PROVE Queue!Put(s)
  BY <1>1, AppendedIsPut, BufferAssumption DEF AppendData, TypeOK, Queue!Put
<1>2. ASSUME NEW s \in Inputs, Receive(s) PROVE Queue!Put(s)
  BY <1>2, ReceivedIsPut, BufferAssumption DEF Receive, TypeOK, Queue!Put
<1>3. ASSUME NEW len \in 0..(MaxReadable + 1), Retrieve(len)
      PROVE  \E n \in 0..Len(Content(buf)) : Queue!Take(n)
  <2>1. len \in Nat /\ IsBuffer(buf) /\ buf' = Retrieved(buf, len)
    BY <1>3, BufferAssumption DEF Retrieve, TypeOK
  <2>2. \E n \in 0..Len(Content(buf)) :
          Content(Retrieved(buf, len)) = SubSeq(Content(buf), n + 1, Len(Content(buf)))
    BY <2>1, RetrievedIsTaken
  <2>3. Content(buf') = Content(Retrieved(buf, len))
    BY <2>1
  <2>4. QED
    BY <2>2, <2>3 DEF Queue!Take
<1>4. CASE UNCHANGED buf
  BY <1>4
<1>5. QED
  BY <1>1, <1>2, <1>3, <1>4 DEF Next, Queue!Next

(***************************************************************************)
(* A Buffer implements the queue of bytes.                                 *)
(***************************************************************************)
THEOREM BufferIsByteQueue == Spec => IsByteQueue
<1>1. Init => Queue!Init
  BY NewIsEmpty DEF Init, Queue!Init
<1>2. QED
  BY <1>1, QueueNext, TypeCorrect, PTL DEF Spec, IsByteQueue, Queue!Spec

(***************************************************************************)
(* The vector grows only when it must.                                     *)
(***************************************************************************)
THEOREM GrowthIsNeeded == Spec => GrowsOnlyWhenFull
<1>1. TypeOK /\ [Next]_buf => [buf'.size # buf.size => HeadSize + Readable(buf') > buf.size]_buf
  <2> SUFFICES ASSUME TypeOK, Next, buf'.size # buf.size
               PROVE  HeadSize + Readable(buf') > buf.size
    OBVIOUS
  <2>1. ASSUME NEW s \in Inputs, AppendData(s) PROVE HeadSize + Readable(buf') > buf.size
    BY <2>1, AppendedIsPut, BufferAssumption DEF AppendData, TypeOK
  <2>2. ASSUME NEW s \in Inputs, Receive(s) PROVE HeadSize + Readable(buf') > buf.size
    BY <2>2, ReceivedIsPut, BufferAssumption DEF Receive, TypeOK
  <2>3. ASSUME NEW len \in 0..(MaxReadable + 1), Retrieve(len) PROVE FALSE
    <3>1. len \in Nat /\ IsBuffer(buf) /\ buf' = Retrieved(buf, len)
      BY <2>3, BufferAssumption DEF Retrieve, TypeOK
    <3>2. Retrieved(buf, len).size = buf.size
      BY <3>1, RetrievedIsTaken
    <3>3. QED
      BY <3>1, <3>2
  <2>4. QED
    BY <2>1, <2>2, <2>3 DEF Next
<1>2. QED
  BY <1>1, TypeCorrect, PTL DEF Spec, GrowsOnlyWhenFull

-----------------------------------------------------------------------------
(* Induction, over sets instead of predicates, and by it what FlattenSeq   *)
(* returns.                                                                *)
(*                                                                         *)
(* A set of natural numbers has a least element.                           *)
LEMMA Least ==
  ASSUME NEW T, T \subseteq Nat, T # {}
  PROVE  \E x \in T : \A y \in T : x <= y
<1> DEFINE R == OpToRel(<, Nat)
<1>1. IsWellFoundedOn(R, Nat)
  BY NatLessThanWellFounded
<1>2. \A x, y \in Nat : <<y, x>> \in R <=> y < x
  BY DEF OpToRel
<1> HIDE DEF R
<1>3. \E x \in T : \A y \in T : <<y, x>> \notin R
  BY <1>1, WFMin
<1>4. PICK x \in T : \A y \in T : <<y, x>> \notin R
  BY <1>3
<1>5. ASSUME NEW y \in T PROVE x <= y
  <2>1. x \in Nat /\ y \in Nat /\ <<y, x>> \notin R
    BY <1>4
  <2>2. ~(y < x)
    BY <1>2, <2>1
  <2>3. QED
    BY <2>1, <2>2
<1>6. QED
  BY <1>5

(* Induction over the natural numbers, for a set of them. *)
LEMMA SetInduction ==
  ASSUME NEW T, 0 \in T, \A n \in Nat : n \in T => n + 1 \in T
  PROVE  Nat \subseteq T
<1> SUFFICES ASSUME Nat \ T # {} PROVE FALSE
  OBVIOUS
<1>1. PICK x \in Nat \ T : \A y \in Nat \ T : x <= y
  BY Least
<1>2. PICK w \in Nat : x = w + 1
  <2>1. x # 0
    BY <1>1
  <2>2. x - 1 \in Nat /\ x = (x - 1) + 1
    BY <2>1
  <2>3. QED
    BY <2>2
<1>3. w \in T
  <2>1. ~(x <= w)
    BY <1>2
  <2>2. QED
    BY <1>1, <2>1
<1>4. QED
  BY <1>1, <1>2, <1>3

(* f is the function by which FlattenSeq is defined, f[i] the first i      *)
(* sequences of s one after the other; and the same for the first n.       *)
Flattens(f, s) ==
  f = [i \in 1..Len(s) |-> IF i = 1 THEN s[i] ELSE f[i - 1] \o s[i]]

FlattensTo(f, s, n) ==
  \A i \in 1..n : f[i] = IF i = 1 THEN s[i] ELSE f[i - 1] \o s[i]

(* A function that flattens n sequences is extended by one.                *)
LEMMA FlattenOneMore ==
  ASSUME NEW S, NEW s \in Seq(Seq(S)), NEW n \in Nat, n + 1 <= Len(s),
         NEW f \in [1..n -> Seq(S)], FlattensTo(f, s, n)
  PROVE  \E g \in [1..(n + 1) -> Seq(S)] : FlattensTo(g, s, n + 1)
<1> DEFINE last == IF n = 0 THEN s[n + 1] ELSE f[n] \o s[n + 1]
           g == [i \in 1..(n + 1) |-> IF i <= n THEN f[i] ELSE last]
<1>1. s[n + 1] \in Seq(S)
  BY ElementOfSeq, LenProperties
<1>2. last \in Seq(S)
  BY <1>1, ConcatProperties
<1>3. last = IF n = 0 THEN s[n + 1] ELSE f[n] \o s[n + 1]
  OBVIOUS
<1> HIDE DEF last
<1>4. /\ g \in [1..(n + 1) -> Seq(S)]
      /\ \A i \in 1..n : g[i] = f[i]
      /\ g[n + 1] = last
  <2>1. g \in [1..(n + 1) -> Seq(S)]
    BY <1>2
  <2>2. \A i \in 1..(n + 1) : g[i] = IF i <= n THEN f[i] ELSE last
    OBVIOUS
  <2> HIDE DEF g
  <2>3. n + 1 \in 1..(n + 1) /\ ~(n + 1 <= n) /\ \A i \in 1..n : i \in 1..(n + 1) /\ i <= n
    OBVIOUS
  <2>4. QED
    BY <2>1, <2>2, <2>3
<1> HIDE DEF g
<1>5. ASSUME NEW i \in 1..(n + 1) PROVE g[i] = IF i = 1 THEN s[i] ELSE g[i - 1] \o s[i]
  <2>1. CASE i <= n
    <3>1. i \in 1..n /\ (i # 1 => i - 1 \in 1..n)
      BY <2>1
    <3>2. g[i] = f[i] /\ (i # 1 => g[i - 1] = f[i - 1])
      BY <1>4, <3>1
    <3>3. QED
      BY <3>1, <3>2 DEF FlattensTo
  <2>2. CASE i = n + 1 /\ n = 0
    BY <1>3, <1>4, <2>2
  <2>3. CASE i = n + 1 /\ n # 0
    <3>1. n \in 1..n /\ i - 1 = n /\ i # 1
      BY <2>3
    <3>2. g[n] = f[n]
      BY <1>4, <3>1
    <3>3. QED
      BY <1>3, <1>4, <2>3, <3>1, <3>2
  <2>4. QED
    BY <2>1, <2>2, <2>3
<1>6. FlattensTo(g, s, n + 1)
  BY <1>5 DEF FlattensTo
<1>7. QED
  BY <1>4, <1>6

LEMMA FlattenExists ==
  ASSUME NEW S, NEW s \in Seq(Seq(S))
  PROVE  \E f \in [1..Len(s) -> Seq(S)] : Flattens(f, s)
<1> DEFINE T == {n \in Nat : n <= Len(s) => \E f \in [1..n -> Seq(S)] : FlattensTo(f, s, n)}
<1>1. Len(s) \in Nat
  BY LenProperties
<1>2. 0 \in T
  <2>1. [i \in 1..0 |-> <<>>] \in [1..0 -> Seq(S)]
    OBVIOUS
  <2>2. FlattensTo([i \in 1..0 |-> <<>>], s, 0)
    BY DEF FlattensTo
  <2>3. QED
    BY <2>1, <2>2
<1>3. ASSUME NEW n \in Nat, n \in T PROVE n + 1 \in T
  <2>1. ASSUME n + 1 <= Len(s)
        PROVE  \E g \in [1..(n + 1) -> Seq(S)] : FlattensTo(g, s, n + 1)
    <3>1. n <= Len(s)
      BY <1>1, <2>1
    <3>2. PICK f \in [1..n -> Seq(S)] : FlattensTo(f, s, n)
      BY <1>3, <3>1
    <3>3. QED
      BY <2>1, <3>2, FlattenOneMore
  <2>2. n + 1 \in Nat
    OBVIOUS
  <2>3. QED
    BY <2>1, <2>2
<1> HIDE DEF T
<1>4. Len(s) \in T
  BY <1>1, <1>2, <1>3, SetInduction
<1>5. PICK f \in [1..Len(s) -> Seq(S)] : FlattensTo(f, s, Len(s))
  BY <1>1, <1>4 DEF T
<1>6. Flattens(f, s)
  BY <1>1, <1>5 DEF Flattens, FlattensTo
<1>7. QED
  BY <1>5, <1>6

LEMMA FlattenFunction ==
  ASSUME NEW S, NEW s \in Seq(Seq(S)), s # <<>>
  PROVE  \E f : Flattens(f, s) /\ FlattenSeq(s) = f[Len(s)]
<1>1. PICK f : Flattens(f, s)
  BY FlattenExists
<1> DEFINE g == CHOOSE f_1 : f_1 = [i \in 1..Len(s) |-> IF i = 1 THEN s[i] ELSE f_1[i - 1] \o s[i]]
<1>2. Flattens(g, s)
  BY <1>1 DEF Flattens
<1>3. Len(s) # 0
  BY EmptySeq
<1>4. FlattenSeq(s) = g[Len(s)]
  BY <1>3 DEF FlattenSeq
<1>5. QED
  BY <1>2, <1>4

LEMMA FlattenAppend ==
  ASSUME NEW S, NEW s \in Seq(Seq(S)), NEW m \in Seq(S)
  PROVE  FlattenSeq(Append(s, m)) = FlattenSeq(s) \o m
<1> DEFINE t == Append(s, m)
<1>1. /\ t \in Seq(Seq(S)) /\ t # <<>> /\ Len(t) = Len(s) + 1
      /\ \A i \in 1..Len(s) : t[i] = s[i]
      /\ t[Len(s) + 1] = m
  BY AppendProperties
<1>2. Len(s) \in Nat
  BY LenProperties
<1> HIDE DEF t
<1>3. PICK g : Flattens(g, t) /\ FlattenSeq(t) = g[Len(t)]
  BY <1>1, FlattenFunction
<1>4. \A i \in 1..(Len(s) + 1) : g[i] = IF i = 1 THEN t[i] ELSE g[i - 1] \o t[i]
  <2>1. g = [i \in 1..(Len(s) + 1) |-> IF i = 1 THEN t[i] ELSE g[i - 1] \o t[i]]
    BY <1>1, <1>3 DEF Flattens
  <2>2. QED
    BY <2>1
<1>5. CASE s = <<>>
  <2>1. Len(s) = 0 /\ FlattenSeq(s) = <<>>
    BY <1>5 DEF FlattenSeq
  <2>2. g[1] = m
    BY <1>1, <1>4, <2>1
  <2>3. <<>> \o m = m
    BY ConcatEmptySeq
  <2>4. QED
    BY <1>1, <1>3, <2>1, <2>2, <2>3 DEF t
<1>6. CASE s # <<>>
  <2>1. PICK f : Flattens(f, s) /\ FlattenSeq(s) = f[Len(s)]
    BY <1>6, FlattenFunction
  <2>2. \A i \in 1..Len(s) : f[i] = IF i = 1 THEN s[i] ELSE f[i - 1] \o s[i]
    <3>1. f = [i \in 1..Len(s) |-> IF i = 1 THEN s[i] ELSE f[i - 1] \o s[i]]
      BY <2>1 DEF Flattens
    <3>2. QED
      BY <3>1
  <2> DEFINE T == {n \in Nat : n \in 1..Len(s) => g[n] = f[n]}
  <2>3. 0 \in T
    OBVIOUS
  <2>4. ASSUME NEW n \in Nat, n \in T PROVE n + 1 \in T
    <3>1. ASSUME n + 1 \in 1..Len(s) PROVE g[n + 1] = f[n + 1]
      <4>1. /\ f[n + 1] = IF n + 1 = 1 THEN s[n + 1] ELSE f[n + 1 - 1] \o s[n + 1]
            /\ g[n + 1] = IF n + 1 = 1 THEN t[n + 1] ELSE g[n + 1 - 1] \o t[n + 1]
        BY <1>2, <1>4, <2>2, <3>1
      <4>2. t[n + 1] = s[n + 1] /\ n + 1 - 1 = n
        BY <1>1, <3>1
      <4>3. n + 1 # 1 => g[n] = f[n]
        BY <1>2, <2>4, <3>1
      <4>4. QED
        BY <4>1, <4>2, <4>3
    <3>2. QED
      BY <3>1
  <2> HIDE DEF T
  <2>5. Len(s) \in T
    BY <1>2, <2>3, <2>4, SetInduction
  <2>6. Len(s) # 0
    BY <1>6, EmptySeq
  <2>7. g[Len(s)] = f[Len(s)]
    BY <1>2, <2>5, <2>6 DEF T
  <2>8. g[Len(s) + 1] = g[Len(s)] \o m
    <3>1. /\ Len(s) + 1 \in 1..(Len(s) + 1) /\ Len(s) + 1 # 1
          /\ Len(s) + 1 - 1 = Len(s)
      BY <1>2, <2>6
    <3>2. PICK i \in 1..(Len(s) + 1) : i = Len(s) + 1 /\ i # 1 /\ i - 1 = Len(s)
      BY <3>1
    <3>3. g[i] = g[i - 1] \o t[i]
      BY <1>4, <3>2
    <3>4. QED
      BY <1>1, <3>2, <3>3
  <2>9. QED
    BY <1>1, <1>3, <2>1, <2>7, <2>8 DEF t
<1>7. QED
  BY <1>5, <1>6

(* Induction over sequences, for a set of them.                            *)
LEMMA SetOfSequences ==
  ASSUME NEW S, NEW T, <<>> \in T, \A s \in Seq(S), e \in S : s \in T => Append(s, e) \in T
  PROVE  Seq(S) \subseteq T
<1> DEFINE N == {n \in Nat : \A s \in Seq(S) : Len(s) = n => s \in T}
<1>1. 0 \in N
  <2>1. ASSUME NEW s \in Seq(S), Len(s) = 0 PROVE s = <<>>
    BY <2>1, EmptySeq
  <2>2. QED
    BY <2>1
<1>2. ASSUME NEW n \in Nat, n \in N PROVE n + 1 \in N
  <2>1. ASSUME NEW s \in Seq(S), Len(s) = n + 1 PROVE s \in T
    <3>1. s # <<>>
      BY <2>1, EmptySeq
    <3>2. PICK u \in Seq(S), e \in S : s = Append(u, e)
      BY <3>1, SequenceEmptyOrAppend
    <3>3. Len(s) = Len(u) + 1 /\ Len(u) \in Nat
      BY <3>2, AppendProperties, LenProperties
    <3>4. Len(u) = n
      BY <2>1, <3>3
    <3>5. u \in T
      BY <1>2, <3>4
    <3>6. QED
      BY <3>2, <3>5
  <2>2. QED
    BY <2>1
<1> HIDE DEF N
<1>3. Nat \subseteq N
  BY <1>1, <1>2, SetInduction
<1>4. ASSUME NEW s \in Seq(S) PROVE s \in T
  <2>1. Len(s) \in N
    BY <1>3, LenProperties
  <2>2. QED
    BY <2>1 DEF N
<1>5. QED
  BY <1>4

LEMMA FlattenType ==
  ASSUME NEW S, NEW s \in Seq(Seq(S))
  PROVE  FlattenSeq(s) \in Seq(S)
<1> DEFINE T == {u \in Seq(Seq(S)) : FlattenSeq(u) \in Seq(S)}
<1>1. <<>> \in T
  <2>1. FlattenSeq(<<>>) = <<>>
    BY DEF FlattenSeq
  <2>2. QED
    BY <2>1, EmptySeq
<1>2. ASSUME NEW u \in Seq(Seq(S)), NEW e \in Seq(S), u \in T PROVE Append(u, e) \in T
  <2>1. FlattenSeq(u) \in Seq(S)
    BY <1>2
  <2>2. FlattenSeq(u) \o e \in Seq(S)
    BY <2>1, ConcatProperties
  <2>3. QED
    BY <2>2, FlattenAppend, AppendProperties
<1> HIDE DEF T
<1>3. s \in T
  BY <1>1, <1>2, SetOfSequences
<1>4. QED
  BY <1>3 DEF T

(* w begins with the sequences a and b.                                    *)
Begins(w, a, b, S) == \E x \in Seq(S) : w = a \o (b \o x)

LEMMA BeginsStill ==
  ASSUME NEW S, NEW a \in Seq(S), NEW b \in Seq(S), NEW e \in Seq(S), NEW w, Begins(w, a, b, S)
  PROVE  Begins(w \o e, a, b, S)
<1>1. PICK x \in Seq(S) : w = a \o (b \o x)
  BY DEF Begins
<1>2. (b \o x) \o e = b \o (x \o e)
  BY ConcatAssociative
<1>3. PICK y \in Seq(S) : y = b \o x
  BY ConcatProperties
<1>4. (a \o y) \o e = a \o (y \o e)
  BY SMTT(60), ConcatAssociative
<1>5. x \o e \in Seq(S)
  BY ConcatProperties
<1>6. QED
  BY <1>1, <1>2, <1>3, <1>4, <1>5 DEF Begins

(* The bytes of a message follow those of the messages before it.          *)
LEMMA FlattenSplit ==
  ASSUME NEW S, NEW s \in Seq(Seq(S)), NEW k \in Nat, k < Len(s)
  PROVE  Begins(FlattenSeq(s), FlattenSeq(SubSeq(s, 1, k)), s[k + 1], S)
<1> DEFINE T == {u \in Seq(Seq(S)) :
                   k < Len(u) => Begins(FlattenSeq(u), FlattenSeq(SubSeq(u, 1, k)), u[k + 1], S)}
<1>1. <<>> \in T
  <2>1. <<>> \in Seq(Seq(S)) /\ ~(k < Len(<<>>))
    BY EmptySeq
  <2>2. QED
    BY <2>1
<1>2. ASSUME NEW u \in Seq(Seq(S)), NEW e \in Seq(S), u \in T PROVE Append(u, e) \in T
  <2> DEFINE v == Append(u, e)
  <2>1. /\ v \in Seq(Seq(S)) /\ Len(v) = Len(u) + 1
        /\ \A i \in 1..Len(u) : v[i] = u[i]
        /\ v[Len(u) + 1] = e
    BY AppendProperties
  <2>2. FlattenSeq(v) = FlattenSeq(u) \o e /\ FlattenSeq(u) \in Seq(S)
    BY FlattenAppend, FlattenType
  <2>3. Len(u) \in Nat
    BY LenProperties
  <2> HIDE DEF v
  <2>4. ASSUME k < Len(v)
        PROVE  Begins(FlattenSeq(v), FlattenSeq(SubSeq(v, 1, k)), v[k + 1], S)
    <3>1. SubSeq(v, 1, k) = SubSeq(u, 1, k) /\ SubSeq(u, 1, k) \in Seq(Seq(S))
      <4>1. k <= Len(u)
        BY <2>1, <2>3, <2>4
      <4>2. \A i \in 1..k : u[i] \in Seq(S) /\ v[i] \in Seq(S) /\ v[i] = u[i]
        BY <2>1, <2>3, <4>1, ElementOfSeq
      <4>3. /\ SubSeq(v, 1, k) \in Seq(Seq(S)) /\ SubSeq(u, 1, k) \in Seq(Seq(S))
            /\ Len(SubSeq(v, 1, k)) = k /\ Len(SubSeq(u, 1, k)) = k
            /\ \A i \in 1..k : SubSeq(v, 1, k)[i] = v[i] /\ SubSeq(u, 1, k)[i] = u[i]
        BY <4>2, SubSeqProperties
      <4>4. QED
        BY <4>2, <4>3, SeqEqual
    <3>2. CASE k = Len(u)
      <4>1. SubSeq(u, 1, k) = u
        BY <3>2, SubSeqFull
      <4>2. e \o <<>> = e /\ <<>> \in Seq(S)
        BY ConcatEmptySeq, EmptySeq
      <4>3. v[k + 1] = e
        BY <2>1, <3>2
      <4>4. QED
        BY <2>2, <3>1, <4>1, <4>2, <4>3 DEF Begins
    <3>3. CASE k # Len(u)
      <4>1. k < Len(u)
        BY <2>1, <2>3, <2>4, <3>3
      <4>2. PICK a \in Seq(S) : a = FlattenSeq(SubSeq(u, 1, k))
        BY <3>1, FlattenType
      <4>3. k + 1 \in 1..Len(u)
        BY <2>3, <4>1
      <4>4. PICK b \in Seq(S) : b = u[k + 1] /\ b = v[k + 1]
        BY <2>1, <4>3, ElementOfSeq
      <4>5. Begins(FlattenSeq(u), a, b, S)
        BY <1>2, <4>1, <4>2, <4>4
      <4>6. Begins(FlattenSeq(u) \o e, a, b, S)
        BY <4>5, BeginsStill
      <4>7. QED
        BY <2>2, <3>1, <4>2, <4>4, <4>6
    <3>4. QED
      BY <3>2, <3>3
  <2>5. QED
    BY <2>1, <2>4 DEF v
<1> HIDE DEF T
<1>3. s \in T
  BY <1>1, <1>2, SetOfSequences
<1>4. QED
  BY <1>3 DEF T

-----------------------------------------------------------------------------
(* Lemmas on sequences that are cut and put together.                      *)
Regroups(a, b, c) == (a \o b) \o c = a \o (b \o c)

LEMMA ConcatRegroups ==
  ASSUME NEW S, NEW a \in Seq(S), NEW b \in Seq(S), NEW c \in Seq(S)
  PROVE  Regroups(a, b, c)
BY ConcatAssociative DEF Regroups

LEMMA RestOfRest ==
  ASSUME NEW S, NEW s \in Seq(S), NEW a \in Nat, NEW b \in Nat, a + b <= Len(s)
  PROVE  LET r == SubSeq(s, a + 1, Len(s))
         IN  /\ r \in Seq(S) /\ Len(r) = Len(s) - a
             /\ SubSeq(r, b + 1, Len(r)) = SubSeq(s, a + b + 1, Len(s))
<1> DEFINE r == SubSeq(s, a + 1, Len(s))
           u == SubSeq(r, b + 1, Len(r))
           v == SubSeq(s, a + b + 1, Len(s))
<1>1. Len(s) \in Nat /\ \A i \in 1..Len(s) : s[i] \in S
  BY LenProperties, ElementOfSeq
<1>2. /\ r \in Seq(S) /\ Len(r) = Len(s) - a
      /\ \A i \in 1..(Len(s) - a) : r[i] = s[a + i]
  BY <1>1, SubSeqProperties
<1>3. /\ v \in Seq(S) /\ Len(v) = Len(s) - (a + b)
      /\ \A i \in 1..(Len(s) - (a + b)) : v[i] = s[a + b + i]
  BY <1>1, SubSeqProperties
<1> HIDE DEF r, v
<1>4. \A i \in 1..Len(r) : r[i] \in S
  BY <1>2, ElementOfSeq
<1>5. /\ u \in Seq(S) /\ Len(u) = Len(r) - b
      /\ \A i \in 1..(Len(r) - b) : u[i] = r[b + i]
  <2>1. Len(r) \in Nat /\ b + 1 \in Int /\ Len(r) \in Int /\ b <= Len(r)
    BY <1>1, <1>2
  <2>2. \A i \in (b + 1)..Len(r) : r[i] \in S
    BY <1>4, <2>1
  <2>3. /\ u \in Seq(S) /\ Len(u) = IF b + 1 <= Len(r) THEN Len(r) - (b + 1) + 1 ELSE 0
        /\ \A i \in 1..(Len(r) - (b + 1) + 1) : u[i] = r[b + 1 + i - 1]
    BY <2>1, <2>2, SubSeqProperties
  <2>4. \A i \in 1..(Len(r) - b) : b + 1 + i - 1 = b + i
    OBVIOUS
  <2>5. Len(r) - (b + 1) + 1 = Len(r) - b
    BY <2>1
  <2> HIDE DEF u
  <2>6. Len(u) = Len(r) - b
    BY <2>1, <2>3
  <2>7. ASSUME NEW i \in 1..(Len(r) - b) PROVE u[i] = r[b + i]
    BY <2>3, <2>4, <2>5
  <2>8. QED
    BY <2>3, <2>6, <2>7
<1> HIDE DEF u
<1>6. ASSUME NEW i \in 1..Len(u) PROVE u[i] = v[i]
  <2>1. i \in 1..(Len(s) - (a + b)) /\ i \in 1..(Len(r) - b) /\ b + i \in 1..(Len(s) - a)
    BY <1>1, <1>2, <1>5
  <2>2. u[i] = r[b + i] /\ r[b + i] = s[a + (b + i)] /\ v[i] = s[a + b + i]
    BY <1>2, <1>3, <1>5, <2>1
  <2>3. a + (b + i) = a + b + i
    BY <2>1
  <2>4. QED
    BY <2>2, <2>3
<1>7. Len(u) = Len(v)
  BY <1>1, <1>2, <1>3, <1>5
<1>8. u = v
  BY <1>3, <1>5, <1>6, <1>7, SeqEqual
<1>9. QED
  BY <1>2, <1>8 DEF r, u, v

(* Of m bytes of a parser's input and the wire behind it, m is in the      *)
(* input if it is not longer.                                              *)
LEMMA FrontOfBoth ==
  ASSUME NEW S, NEW c \in Seq(S), NEW w \in Seq(S), NEW m \in Seq(S), NEW x \in Seq(S),
         c \o w = m \o x, Len(m) <= Len(c)
  PROVE  /\ SubSeq(c, 1, Len(m)) = m
         /\ x = SubSeq(c, Len(m) + 1, Len(c)) \o w
<1> DEFINE u == SubSeq(c, 1, Len(m))
           v == SubSeq(c, Len(m) + 1, Len(c))
<1>1. Len(m) \in Nat /\ Len(c) \in Nat /\ Len(m) \in 0..Len(c)
  BY LenProperties
<1>2. /\ u \in Seq(S) /\ Len(u) = Len(m) /\ v \in Seq(S)
      /\ u \o v = c
  BY ZenonT(60), <1>1, SplitInTwo
<1>3. \A i \in 1..Len(m) : u[i] = c[i]
  <2>1. \A i \in 1..Len(m) : c[i] \in S
    BY <1>1, ElementOfSeq
  <2>2. QED
    BY <1>1, <2>1, SubSeqProperties
<1> HIDE DEF u, v
<1>4. ASSUME NEW i \in 1..Len(u) PROVE u[i] = m[i]
  <2>1. i \in 1..(Len(c) + Len(w)) /\ i <= Len(c) /\ i \in 1..(Len(m) + Len(x)) /\ i <= Len(m)
    BY <1>1, <1>2, LenProperties
  <2>2. (c \o w)[i] = c[i] /\ (m \o x)[i] = m[i]
    BY <2>1, ConcatProperties
  <2>3. QED
    BY <1>2, <1>3, <2>2
<1>5. u = m
  BY <1>2, <1>4, SeqEqual
<1>6. Regroups(m, v, w)
  BY <1>2, ConcatRegroups
<1>7. PICK y \in Seq(S) : y = v \o w
  BY <1>2, ConcatProperties
<1>8. m \o x = m \o y
  BY <1>2, <1>5, <1>6, <1>7 DEF Regroups
<1>9. x = y
  BY <1>8, ConcatSimplifications
<1>10. QED
  BY <1>5, <1>7, <1>9 DEF u, v

(* A message leaves the buffer, however it is taken.                       *)
LEMMA CutIsRest ==
  ASSUME NEW b, IsBuffer(b), NEW len \in Nat, HeadLen <= len, len <= Len(Content(b))
  PROVE  /\ IsBuffer(Cut(b, len))
         /\ Content(Cut(b, len)) = SubSeq(Content(b), len + 1, Len(Content(b)))
<1> DEFINE c == Content(b)
<1>1. c \in Seq(Bytes) /\ Len(c) \in Nat /\ Len(c) = Readable(b)
  BY ContentType
<1>2. /\ IsBuffer(Retrieved(b, len))
      /\ Content(Retrieved(b, len)) = SubSeq(c, len + 1, Len(c))
  <2>1. (IF len < Readable(b) THEN len ELSE Readable(b)) = len
    BY <1>1
  <2>2. QED
    BY <2>1, RetrievedIsRest
<1>3. CASE user = "http"
  BY <1>2, <1>3 DEF Cut
<1>4. CASE user # "http"
  <2> DEFINE e == Retrieved(b, HeadLen)
             k == len - HeadLen
  <2>1. HeadLen \in Nat /\ k \in Nat /\ HeadLen + k = len
    BY DEF HeadLen
  <2>2. /\ IsBuffer(e)
        /\ Content(e) = SubSeq(c, HeadLen + 1, Len(c))
    <3>1. (IF HeadLen < Readable(b) THEN HeadLen ELSE Readable(b)) = HeadLen
      BY <1>1, <2>1
    <3>2. QED
      BY <2>1, <3>1, RetrievedIsRest
  <2> HIDE DEF e
  <2>3. Len(Content(e)) = Readable(e) /\ Readable(e) \in Nat
    BY <2>2, ContentType
  <2>4. /\ Len(Content(e)) = Len(c) - HeadLen
        /\ SubSeq(Content(e), k + 1, Len(Content(e))) = SubSeq(c, HeadLen + k + 1, Len(c))
    <3>1. HeadLen + k <= Len(c)
      <4>1. len <= Len(c)
        OBVIOUS
      <4>2. QED
        BY <2>1, <4>1
    <3>2. LET r == SubSeq(c, HeadLen + 1, Len(c))
          IN  /\ Len(r) = Len(c) - HeadLen
              /\ SubSeq(r, k + 1, Len(r)) = SubSeq(c, HeadLen + k + 1, Len(c))
      BY SMTT(60), <1>1, <2>1, <3>1, RestOfRest
    <3>3. QED
      BY <2>2, <3>2
  <2>5. (IF k < Readable(e) THEN k ELSE Readable(e)) = k
    BY <1>1, <2>1, <2>3, <2>4
  <2>6. /\ IsBuffer(Retrieved(e, k))
        /\ Content(Retrieved(e, k)) = SubSeq(Content(e), k + 1, Len(Content(e)))
    BY <2>1, <2>2, <2>5, RetrievedIsRest
  <2>7. Cut(b, len) = Retrieved(e, k)
    BY <1>4 DEF Cut, e
  <2>8. QED
    BY <2>1, <2>4, <2>6, <2>7
<1>5. QED
  BY <1>3, <1>4

-----------------------------------------------------------------------------
(***************************************************************************)
(* What the parser has to serve still is what it has not served: behind    *)
(* the messages it returned come the rest of those that were posted, first *)
(* in the buffer and then on the wire.  A buffer of another user is never  *)
(* parsed.                                                                 *)
(***************************************************************************)
Unserved == Content(buf) \o wire

StreamInv ==
  /\ TypeOK
  /\ user \in {"any", "http", "packet"}
  /\ wire \in Seq(Bytes) /\ parsing \in BOOLEAN
  /\ posted \in Seq(Messages)
  /\ Len(handled) \in 0..Len(posted) /\ handled = SubSeq(posted, 1, Len(handled))
  /\ user = "any" => posted = <<>> /\ wire = <<>> /\ ~parsing
  /\ user # "any" => FlattenSeq(posted) = FlattenSeq(handled) \o Unserved

(* The first part of a sequence, and that part of a longer one.            *)
LEMMA PrefixType ==
  ASSUME NEW S, NEW s \in Seq(S), NEW k \in 0..Len(s)
  PROVE  /\ SubSeq(s, 1, k) \in Seq(S) /\ Len(SubSeq(s, 1, k)) = k
         /\ \A i \in 1..k : SubSeq(s, 1, k)[i] = s[i]
<1>1. Len(s) \in Nat /\ k \in Nat /\ k <= Len(s)
  BY LenProperties
<1>2. \A i \in 1..k : s[i] \in S
  BY <1>1, ElementOfSeq
<1>3. QED
  BY <1>1, <1>2, SubSeqProperties

LEMMA PrefixStays ==
  ASSUME NEW S, NEW s \in Seq(S), NEW m \in S, NEW k \in 0..Len(s)
  PROVE  SubSeq(Append(s, m), 1, k) = SubSeq(s, 1, k)
<1> DEFINE t == Append(s, m)
<1>1. Len(s) \in Nat
  BY LenProperties
<1>2. t \in Seq(S) /\ Len(t) = Len(s) + 1 /\ \A i \in 1..Len(s) : t[i] = s[i]
  BY AppendProperties
<1> HIDE DEF t
<1>3. k \in 0..Len(t) /\ k \in Nat /\ k <= Len(s)
  BY <1>1, <1>2
<1>4. /\ SubSeq(t, 1, k) \in Seq(S) /\ Len(SubSeq(t, 1, k)) = k
      /\ \A i \in 1..k : SubSeq(t, 1, k)[i] = t[i]
  BY <1>2, <1>3, PrefixType
<1>5. /\ SubSeq(s, 1, k) \in Seq(S) /\ Len(SubSeq(s, 1, k)) = k
      /\ \A i \in 1..k : SubSeq(s, 1, k)[i] = s[i]
  BY PrefixType
<1>6. \A i \in 1..k : SubSeq(t, 1, k)[i] = SubSeq(s, 1, k)[i]
  BY <1>1, <1>2, <1>3, <1>4, <1>5
<1>7. SubSeq(t, 1, k) = SubSeq(s, 1, k)
  BY <1>4, <1>5, <1>6, SeqEqual
<1>8. QED
  BY <1>7 DEF t

LEMMA PrefixGrows ==
  ASSUME NEW S, NEW s \in Seq(S), NEW k \in Nat, k < Len(s)
  PROVE  Append(SubSeq(s, 1, k), s[k + 1]) = SubSeq(s, 1, k + 1)
<1>1. k + 1 \in 1..Len(s) /\ 1 \in 1..Len(s) /\ k + 1 \in 1..Len(s)
  BY LenProperties
<1>2. SubSeq(s, 1, k + 1) = SubSeq(s, 1, k + 1 - 1) \o <<s[k + 1]>>
  BY <1>1, SubSeqRecursiveSecond
<1>3. k + 1 - 1 = k /\ s[k + 1] \in S /\ k \in 0..Len(s)
  BY <1>1, ElementOfSeq
<1>4. SubSeq(s, 1, k) \in Seq(S)
  BY <1>3, PrefixType
<1>5. Append(SubSeq(s, 1, k), s[k + 1]) = SubSeq(s, 1, k) \o <<s[k + 1]>>
  BY <1>3, <1>4, AppendIsConcat
<1>6. QED
  BY <1>2, <1>3, <1>5

(* Every message is a sequence of bytes.                                   *)
LEMMA MessageType ==
  ASSUME NEW m \in Messages
  PROVE  m \in Seq(Bytes) /\ Len(m) \in Nat /\ Len(m) = HeadLen + m[2] /\ HeadLen <= Len(m)
<1>1. m \in Seq(Bytes)
  BY StreamAssumption
<1>2. Len(m) \in Nat
  BY <1>1, LenProperties
<1>3. QED
  BY <1>1, <1>2, StreamAssumption DEF HeadLen

LEMMA MessagesType ==
  ASSUME NEW s \in Seq(Messages) PROVE s \in Seq(Seq(Bytes))
<1>1. Messages \subseteq Seq(Bytes)
  BY StreamAssumption
<1>2. QED
  BY <1>1, SeqMonotonic

(* When the input holds a message, it is the next one that was posted.     *)
LEMMA NextMessage ==
  ASSUME StreamInv, user # "any", HasMessage(Content(buf))
  PROVE  LET c == Content(buf)
             len == HeadLen + BodyLen(c)
             k == Len(handled)
         IN  /\ k \in Nat /\ k < Len(posted) /\ posted[k + 1] \in Messages
             /\ len \in Nat /\ HeadLen <= len /\ len <= Len(c)
             /\ SubSeq(c, 1, len) = posted[k + 1]
             /\ FlattenSeq(posted) =
                  FlattenSeq(Append(handled, posted[k + 1])) \o (SubSeq(c, len + 1, Len(c)) \o wire)
<1> DEFINE c == Content(buf)
           len == HeadLen + BodyLen(c)
           k == Len(handled)
<1>1. c \in Seq(Bytes) /\ Len(c) \in Nat /\ wire \in Seq(Bytes)
  BY ContentType, LenProperties DEF StreamInv, TypeOK
<1>2. Len(c) >= 2 /\ len <= Len(c)
  BY DEF HasMessage, IsHead, HeadLen
<1>3. posted \in Seq(Messages) /\ k \in 0..Len(posted) /\ handled = SubSeq(posted, 1, k)
      /\ Len(posted) \in Nat
  BY LenProperties DEF StreamInv
<1>4. posted \in Seq(Seq(Bytes)) /\ handled \in Seq(Messages) /\ handled \in Seq(Seq(Bytes))
  BY <1>3, PrefixType, MessagesType
<1>5. PICK p \in Seq(Bytes) : p = FlattenSeq(posted)
  BY <1>4, FlattenType
<1>6. PICK h \in Seq(Bytes) : h = FlattenSeq(handled)
  BY <1>4, FlattenType
<1>7. PICK r \in Seq(Bytes) : r = c \o wire /\ Len(r) = Len(c) + Len(wire)
  BY <1>1, ConcatProperties
<1>8. p = h \o r
  BY <1>5, <1>6, <1>7 DEF StreamInv, Unserved
<1> HIDE DEF c, len, k
<1>9. k < Len(posted)
  <2>1. ASSUME k = Len(posted) PROVE FALSE
    <3>1. handled = posted
      BY <1>3, <2>1, SubSeqFull
    <3>2. h \o r = h
      BY <1>5, <1>6, <1>8, <3>1
    <3>3. r = <<>>
      BY <3>2, ConcatSimplifications
    <3>4. Len(r) = 0
      BY <3>3
    <3>5. Len(wire) \in Nat
      BY <1>1, LenProperties
    <3>6. QED
      BY <1>1, <1>2, <1>7, <3>4, <3>5
  <2>2. QED
    BY <1>3, <2>1
<1>10. PICK m \in Messages : m = posted[k + 1]
  BY <1>3, <1>9, ElementOfSeq
<1>11. m \in Seq(Bytes) /\ Len(m) \in Nat /\ Len(m) = HeadLen + m[2] /\ HeadLen <= Len(m)
  BY MessageType
<1>12. PICK x \in Seq(Bytes) : p = h \o (m \o x)
  <2>1. k \in Nat
    BY <1>3
  <2>2. Begins(FlattenSeq(posted), FlattenSeq(SubSeq(posted, 1, k)), posted[k + 1], Bytes)
    BY <1>4, <1>9, <2>1, FlattenSplit
  <2>3. Begins(p, h, m, Bytes)
    BY <1>3, <1>5, <1>6, <1>10, <2>2
  <2>4. QED
    BY <2>3 DEF Begins
<1>13. c \o wire = m \o x
  <2>1. PICK y \in Seq(Bytes) : y = m \o x
    BY <1>11, ConcatProperties
  <2>2. h \o r = h \o y
    BY <1>8, <1>12, <2>1
  <2>3. r = y
    BY <2>2, ConcatSimplifications
  <2>4. QED
    BY <1>7, <2>1, <2>3
<1>14. Len(m) = len
  <2>1. 2 \in 1..(Len(c) + Len(wire)) /\ 2 <= Len(c) /\ 2 \in 1..(Len(m) + Len(x)) /\ 2 <= Len(m)
    BY <1>1, <1>2, <1>11, LenProperties DEF HeadLen
  <2>2. (c \o wire)[2] = c[2]
    BY <1>1, <2>1, ConcatProperties
  <2>3. (m \o x)[2] = m[2]
    BY <1>11, <2>1, ConcatProperties
  <2>4. QED
    BY <1>11, <1>13, <2>2, <2>3 DEF len, BodyLen
<1>15. SubSeq(c, 1, len) = m /\ x = SubSeq(c, len + 1, Len(c)) \o wire
  BY <1>1, <1>2, <1>11, <1>13, <1>14, FrontOfBoth
<1>16. FlattenSeq(Append(handled, m)) = h \o m
  BY <1>4, <1>6, <1>11, FlattenAppend
<1>17. Regroups(h, m, x)
  BY <1>11, ConcatRegroups
<1>18. FlattenSeq(posted) = FlattenSeq(Append(handled, m)) \o (SubSeq(c, len + 1, Len(c)) \o wire)
  BY <1>5, <1>12, <1>15, <1>16, <1>17 DEF Regroups
<1>19. k \in Nat /\ k < Len(posted) /\ posted[k + 1] \in Messages
  BY <1>3, <1>9, <1>10
<1>20. len \in Nat /\ HeadLen <= len /\ len <= Len(c)
  BY <1>2, <1>11, <1>14
<1>21. SubSeq(c, 1, len) = posted[k + 1]
  BY <1>10, <1>15
<1>22. FlattenSeq(posted) =
         FlattenSeq(Append(handled, posted[k + 1])) \o (SubSeq(c, len + 1, Len(c)) \o wire)
  BY <1>10, <1>18
<1>23. QED
  BY <1>19, <1>20, <1>21, <1>22 DEF c, len, k

LEMMA StreamInvInit == StreamInit => StreamInv
<1> SUFFICES ASSUME StreamInit PROVE StreamInv
  OBVIOUS
<1>1. IsBuffer(buf) /\ Content(buf) = <<>>
  BY NewIsEmpty DEF StreamInit, Init
<1>2. /\ <<>> \in Seq(Bytes) /\ <<>> \in Seq(Messages) /\ Len(<<>>) = 0
      /\ SubSeq(<<>>, 1, 0) = <<>>
  BY EmptySeq, SubSeqEmpty
<1>3. FlattenSeq(<<>>) = <<>>
  BY DEF FlattenSeq
<1>4. <<>> \o <<>> = <<>>
  BY <1>2, ConcatEmptySeq
<1>5. /\ user \in {"any", "http", "packet"} /\ parsing = FALSE
      /\ wire = <<>> /\ posted = <<>> /\ handled = <<>>
  BY DEF StreamInit
<1>6. Len(handled) \in 0..Len(posted) /\ handled = SubSeq(posted, 1, Len(handled))
  BY <1>2, <1>5
<1>7. FlattenSeq(posted) = FlattenSeq(handled) \o Unserved
  BY <1>1, <1>3, <1>4, <1>5 DEF Unserved
<1>8. wire \in Seq(Bytes) /\ posted \in Seq(Messages)
  BY <1>2, <1>5
<1>9. QED
  BY <1>1, <1>5, <1>6, <1>7, <1>8 DEF StreamInv, TypeOK

LEMMA UnservedType ==
  ASSUME StreamInv
  PROVE  /\ Content(buf) \in Seq(Bytes) /\ wire \in Seq(Bytes)
         /\ posted \in Seq(Seq(Bytes)) /\ handled \in Seq(Seq(Bytes))
         /\ FlattenSeq(handled) \in Seq(Bytes)
<1>1. Content(buf) \in Seq(Bytes)
  BY ContentType DEF StreamInv, TypeOK
<1>2. handled \in Seq(Messages) /\ posted \in Seq(Messages)
  BY PrefixType DEF StreamInv
<1>3. QED
  BY <1>1, <1>2, MessagesType, FlattenType DEF StreamInv

(* The peer's message goes behind all the others.                          *)
LEMMA PostKeeps ==
  ASSUME StreamInv, user # "any", NEW m \in Messages, Post(m)
  PROVE  StreamInv'
<1>1. /\ posted' = Append(posted, m) /\ wire' = wire \o m
      /\ UNCHANGED <<buf, user, parsing, handled>>
  BY DEF Post
<1>2. m \in Seq(Bytes)
  BY MessageType
<1>3. PICK c \in Seq(Bytes) : c = Content(buf)
  BY UnservedType
<1>4. PICK h \in Seq(Bytes) : h = FlattenSeq(handled)
  BY UnservedType
<1>5. PICK w \in Seq(Bytes) : w = wire
  BY UnservedType
<1>6. wire' \in Seq(Bytes)
  BY <1>1, <1>2, <1>5, ConcatProperties
<1>7. posted' \in Seq(Messages) /\ Len(posted') = Len(posted) + 1 /\ Len(posted) \in Nat
  BY <1>1, AppendProperties, LenProperties DEF StreamInv
<1>8. Len(handled) \in 0..Len(posted') /\ handled = SubSeq(posted', 1, Len(handled))
  <2>1. Len(handled) \in 0..Len(posted)
    BY DEF StreamInv
  <2>2. Len(handled) \in 0..Len(posted')
    BY <1>7, <2>1
  <2>3. SubSeq(posted', 1, Len(handled)) = SubSeq(posted, 1, Len(handled))
    BY <1>1, <2>1, PrefixStays DEF StreamInv
  <2>4. QED
    BY <2>2, <2>3 DEF StreamInv
<1>9. FlattenSeq(posted') = h \o (c \o (w \o m))
  <2>1. FlattenSeq(posted') = FlattenSeq(posted) \o m
    BY <1>1, <1>2, UnservedType, FlattenAppend
  <2>2. FlattenSeq(posted) = h \o (c \o w)
    BY <1>3, <1>4, <1>5 DEF StreamInv, Unserved
  <2>3. PICK z \in Seq(Bytes) : z = c \o w
    BY ConcatProperties
  <2>4. Regroups(h, z, m)
    BY <1>2, ConcatRegroups
  <2>5. Regroups(c, w, m)
    BY <1>2, ConcatRegroups
  <2>6. QED
    BY <2>1, <2>2, <2>3, <2>4, <2>5 DEF Regroups
<1>10. FlattenSeq(posted') = FlattenSeq(handled') \o Unserved'
  BY <1>1, <1>3, <1>4, <1>5, <1>9 DEF Unserved
<1>11. TypeOK'
  BY <1>1 DEF StreamInv, TypeOK
<1>12. QED
  BY <1>1, <1>6, <1>7, <1>8, <1>10, <1>11 DEF StreamInv

(* A read moves bytes from the wire to the buffer.                         *)
LEMMA DeliverKeeps ==
  ASSUME StreamInv, NEW n \in 1..Len(wire), Deliver(n)
  PROVE  StreamInv'
<1> DEFINE u == SubSeq(wire, 1, n)
           v == SubSeq(wire, n + 1, Len(wire))
<1>1. /\ buf' = Received(buf, u) /\ wire' = v /\ parsing' = TRUE
      /\ UNCHANGED <<user, posted, handled>>
  BY DEF Deliver, Receive
<1>2. wire \in Seq(Bytes) /\ Len(wire) \in Nat /\ n \in 0..Len(wire)
  BY LenProperties DEF StreamInv
<1>3. u \in Seq(Bytes) /\ v \in Seq(Bytes) /\ u \o v = wire
  BY <1>2, SplitInTwo
<1> HIDE DEF u, v
<1>4. /\ IsBuffer(buf') /\ Content(buf') = Content(buf) \o u
  BY <1>1, <1>3, ReceivedIsPut DEF StreamInv, TypeOK
<1>5. user # "any"
  BY <1>2, EmptySeq DEF StreamInv
<1>6. PICK c \in Seq(Bytes) : c = Content(buf)
  BY UnservedType
<1>7. Regroups(c, u, v)
  BY <1>3, ConcatRegroups
<1>8. Unserved' = Unserved
  <2>1. Unserved' = (c \o u) \o v
    BY <1>1, <1>4, <1>6 DEF Unserved
  <2>2. QED
    BY <1>3, <1>6, <1>7, <2>1 DEF Unserved, Regroups
<1>9. TypeOK'
  BY <1>4 DEF TypeOK
<1>10. QED
  BY <1>1, <1>3, <1>5, <1>8, <1>9 DEF StreamInv

(* The parser takes the next message, and that one only.                   *)
LEMMA ServeKeeps ==
  ASSUME StreamInv, Serve
  PROVE  StreamInv'
<1> DEFINE c == Content(buf)
           len == HeadLen + BodyLen(c)
           k == Len(handled)
<1>1. /\ parsing /\ HasMessage(c)
      /\ handled' = Append(handled, SubSeq(c, 1, len))
      /\ buf' = Cut(buf, len)
      /\ UNCHANGED <<user, wire, parsing, posted>>
  BY DEF Serve
<1>2. user # "any"
  BY <1>1 DEF StreamInv
<1>3. /\ k \in Nat /\ k < Len(posted) /\ posted[k + 1] \in Messages
      /\ len \in Nat /\ HeadLen <= len /\ len <= Len(c)
      /\ SubSeq(c, 1, len) = posted[k + 1]
      /\ FlattenSeq(posted) =
           FlattenSeq(Append(handled, posted[k + 1])) \o (SubSeq(c, len + 1, Len(c)) \o wire)
  BY <1>1, <1>2, NextMessage
<1>4. IsBuffer(buf') /\ Content(buf') = SubSeq(c, len + 1, Len(c))
  BY <1>1, <1>3, CutIsRest DEF StreamInv, TypeOK
<1> HIDE DEF c, len, k
<1>5. handled' = Append(handled, posted[k + 1])
  BY <1>1, <1>3
<1>6. handled' = SubSeq(posted, 1, k + 1)
  <2>1. posted \in Seq(Messages) /\ handled = SubSeq(posted, 1, k)
    BY DEF StreamInv, k
  <2>2. Append(SubSeq(posted, 1, k), posted[k + 1]) = SubSeq(posted, 1, k + 1)
    BY <1>3, <2>1, PrefixGrows
  <2>3. QED
    BY <1>5, <2>1, <2>2
<1>7. Len(handled') = k + 1 /\ k + 1 \in 0..Len(posted)
  <2>1. posted \in Seq(Messages) /\ Len(posted) \in Nat
    BY LenProperties DEF StreamInv
  <2>2. k + 1 \in 0..Len(posted)
    BY <1>3, <2>1
  <2>3. QED
    BY <1>6, <2>1, <2>2, PrefixType
<1>8. FlattenSeq(posted') = FlattenSeq(handled') \o Unserved'
  BY <1>1, <1>3, <1>4, <1>5 DEF Unserved
<1>9. TypeOK'
  BY <1>4 DEF TypeOK
<1>10. QED
  BY <1>1, <1>2, <1>6, <1>7, <1>8, <1>9 DEF StreamInv

LEMMA StreamInvNext == StreamInv /\ [StreamNext]_vars => StreamInv'
<1> SUFFICES ASSUME StreamInv, [StreamNext]_vars PROVE StreamInv'
  OBVIOUS
<1>1. CASE user = "any" /\ Next /\ UNCHANGED <<user, streamVars>>
  <2>1. TypeOK'
    BY <1>1, TypeNext DEF StreamInv
  <2>2. QED
    BY <1>1, <2>1 DEF StreamInv, streamVars
<1>2. ASSUME user # "any", NEW m \in Messages, Post(m) PROVE StreamInv'
  BY <1>2, PostKeeps
<1>3. CASE Serve
  BY <1>3, ServeKeeps
<1>4. CASE BreakOff
  BY <1>4 DEF BreakOff, StreamInv, TypeOK, Unserved
<1>5. ASSUME NEW n \in 1..Len(wire), Deliver(n) PROVE StreamInv'
  BY <1>5, DeliverKeeps
<1>6. CASE UNCHANGED vars
  BY <1>6 DEF vars, streamVars, StreamInv, TypeOK, Unserved
<1>7. QED
  BY <1>1, <1>2, <1>3, <1>4, <1>5, <1>6 DEF StreamNext, Parse, Arrive

LEMMA StreamInvariant == StreamSpec => []StreamInv
  BY StreamInvInit, StreamInvNext, PTL DEF StreamSpec

(***************************************************************************)
(* The buffer of a connection stays a vector with its indexes in order,    *)
(* whoever uses it: the parsers, too.                                      *)
(***************************************************************************)
THEOREM StreamTypeCorrect == StreamSpec => []TypeOK
<1>1. StreamInv => TypeOK
  BY DEF StreamInv
<1>2. QED
  BY <1>1, StreamInvariant, PTL

(***************************************************************************)
(* The parsers return the messages that were sent, whole and in order, and *)
(* lose no byte of the others, however the bytes were cut up on their way  *)
(* (http-packet-parser.cpp:26-36, tcp-packet-parser.cpp:16-29).            *)
(***************************************************************************)
THEOREM MessagesAreFramed == StreamSpec => []Framing
<1>1. StreamInv => Framing
  <2> SUFFICES ASSUME StreamInv PROVE Framing
    OBVIOUS
  <2>1. SubSeq(handled, 1, Len(handled)) = handled
    BY UnservedType, SubSeqFull
  <2>2. IsPrefix(handled, posted)
    <3>1. Len(handled) <= Len(posted)
      BY UnservedType, LenProperties DEF StreamInv
    <3>2. QED
      BY <2>1, <3>1 DEF StreamInv, IsPrefix
  <2>3. ASSUME user # "any"
        PROVE  FlattenSeq(posted) = FlattenSeq(handled) \o Content(buf) \o wire
    <3>1. Regroups(FlattenSeq(handled), Content(buf), wire)
      BY UnservedType, ConcatRegroups
    <3>2. QED
      BY <2>3, <3>1 DEF StreamInv, Unserved, Regroups
  <2>4. QED
    BY <2>2, <2>3 DEF Framing
<1>2. QED
  BY <1>1, StreamInvariant, PTL

(* The queue may be given what a read may bring.                           *)
ReadsAreInputs == \A s \in Seq(Bytes) : Len(s) <= MaxReadable => s \in Inputs

(***************************************************************************)
(* Between a peer and the parsers, too, a buffer is a queue of bytes: a    *)
(* read puts in what it brought, and a message is taken from the front     *)
(* (buffer.cpp:101-206).                                                   *)
(***************************************************************************)
THEOREM StreamIsByteQueue ==
  ASSUME ReadsAreInputs PROVE StreamSpec => IsByteQueue
<1>1. StreamInit => Queue!Init
  BY NewIsEmpty DEF StreamInit, Init, Queue!Init
<1>2. StreamInv /\ [StreamNext]_vars => [Queue!Next]_(Content(buf))
  <2> SUFFICES ASSUME StreamInv, [StreamNext]_vars PROVE [Queue!Next]_(Content(buf))
    OBVIOUS
  <2>1. CASE Next
    BY <2>1, QueueNext DEF StreamInv
  <2>2. ASSUME NEW n \in 1..Len(wire), Deliver(n) PROVE Queue!Next
    <3> DEFINE u == SubSeq(wire, 1, n)
    <3>1. u \in Seq(Bytes)
      BY LenProperties, SplitInTwo DEF StreamInv
    <3>2. buf' = Received(buf, u) /\ Readable(buf) + Len(u) <= MaxReadable
      BY <2>2 DEF Deliver, Receive
    <3> HIDE DEF u
    <3>3. Content(buf') = Content(buf) \o u
      BY <3>1, <3>2, ReceivedIsPut DEF StreamInv, TypeOK
    <3>4. Len(u) <= MaxReadable
      <4>1. Readable(buf) \in Nat /\ Len(u) \in Nat
        BY <3>1, ContentType, LenProperties DEF StreamInv, TypeOK
      <4>2. QED
        BY <3>2, <4>1, BufferAssumption
    <3>5. u \in Inputs
      BY <3>1, <3>4 DEF ReadsAreInputs
    <3>6. QED
      BY <3>3, <3>5 DEF Queue!Next, Queue!Put
  <2>3. CASE Serve
    <3> DEFINE c == Content(buf)
               len == HeadLen + BodyLen(c)
    <3>1. HasMessage(c) /\ buf' = Cut(buf, len) /\ user # "any"
      BY <2>3 DEF Serve, StreamInv
    <3>2. len \in Nat /\ HeadLen <= len /\ len <= Len(c)
      BY <3>1, NextMessage
    <3>3. Content(buf') = SubSeq(c, len + 1, Len(c))
      BY <3>1, <3>2, CutIsRest DEF StreamInv, TypeOK
    <3>4. c \in Seq(Bytes) /\ Len(c) \in Nat
      BY ContentType, LenProperties DEF StreamInv, TypeOK
    <3> HIDE DEF len, c
    <3>5. len \in 0..Len(c)
      BY <3>2, <3>4
    <3>6. QED
      BY <3>3, <3>5 DEF Queue!Next, Queue!Take, c
  <2>4. CASE BreakOff \/ UNCHANGED vars \/ \E m \in Messages : Post(m)
    BY <2>4 DEF BreakOff, vars, Post
  <2>5. QED
    BY <2>1, <2>2, <2>3, <2>4 DEF StreamNext, Parse, Arrive
<1>3. QED
  BY <1>1, <1>2, StreamInvariant, PTL DEF StreamSpec, IsByteQueue, Queue!Spec
=============================================================================
