------------------------------- MODULE Buffer -------------------------------
(***************************************************************************)
(* mg::Buffer (src/src/buffer.cpp): a vector of bytes with a read and a    *)
(* write index, the input and output buffer of every connection.  An       *)
(* append that does not fit behind the write index moves the readable      *)
(* bytes to the front of the vector or, if that is not enough, resizes it; *)
(* a read from a socket that does not fit overflows into an array on the   *)
(* stack, which is appended.                                               *)
(*                                                                         *)
(* One thread uses a buffer at a time (module TcpServer).                  *)
(***************************************************************************)
EXTENDS Naturals, Sequences

CONSTANTS
  Bytes,        (* The values of a byte.                                   *)
  Zero,         (* The byte a vector is filled with.                       *)
  HeadSize,     (* _headSize: cells before the first byte.                 *)
  InitialSize,  (* _initialSize.                                           *)
  ExtraSize,    (* The size of the array on the stack.                     *)
  Inputs,       (* What is appended or received at once.                   *)
  MaxReadable   (* Bound: the bytes a buffer holds.                        *)

ASSUME BufferAssumption ==
  /\ Zero \in Bytes
  /\ HeadSize \in Nat /\ InitialSize \in Nat /\ ExtraSize \in Nat
  /\ Inputs \subseteq Seq(Bytes)
  /\ MaxReadable \in Nat

VARIABLE buf        (* The vector, its size and the two indexes.           *)

-----------------------------------------------------------------------------
Readable(b)  == b.write - b.read
Writeable(b) == b.size - b.write

Content(b) == [i \in 1..Readable(b) |-> b.cells[b.read + i - 1]]

Vector(cells, size, read, write) ==
  [cells |-> cells, size |-> size, read |-> read, write |-> write]

(* A vector with its indexes in order within it.                           *)
IsBuffer(b) ==
  /\ b = Vector(b.cells, b.size, b.read, b.write)
  /\ b.size \in Nat /\ b.read \in Nat /\ b.write \in Nat
  /\ b.cells \in [0..(b.size - 1) -> Bytes]
  /\ HeadSize <= b.read /\ b.read <= b.write /\ b.write <= b.size

New ==
  Vector([i \in 0..(HeadSize + InitialSize - 1) |-> Zero],
         HeadSize + InitialSize, HeadSize, HeadSize)

(* _buffer.resize: the new cells are zero.                                 *)
Resized(b, size) ==
  Vector([i \in 0..(size - 1) |-> IF i < b.size THEN b.cells[i] ELSE Zero],
         size, b.read, b.write)

(* Mutant of Compacted: the bytes stay where they are.                     *)
CompactedIndexes(b) == Vector(b.cells, b.size, HeadSize, HeadSize + Readable(b))

(* The readable bytes move to the front.                                   *)
Compacted(b) ==
  Vector([i \in 0..(b.size - 1) |->
            IF HeadSize <= i /\ i < HeadSize + Readable(b)
            THEN b.cells[b.read + (i - HeadSize)] ELSE b.cells[i]],
         b.size, HeadSize, HeadSize + Readable(b))

(* Mutant of Fits: the head counts as room.                                *)
FitsOverHead(b, len)  == Writeable(b) + b.read >= len

(* There is room for len bytes once the readable ones are at the front.    *)
Fits(b, len) == Writeable(b) + b.read >= len + HeadSize

(* ensureWriteSpace with allocate.                                         *)
Ensured(b, len) ==
  IF Writeable(b) >= len THEN b
  ELSE IF Fits(b, len) THEN Compacted(b)
  ELSE Resized(b, b.write + len)

(* Bytes stored behind the write index.                                    *)
Stored(b, s) ==
  Vector([i \in 0..(b.size - 1) |->
            IF b.write <= i /\ i < b.write + Len(s)
            THEN s[i - b.write + 1] ELSE b.cells[i]],
         b.size, b.read, b.write + Len(s))

Appended(b, s) == Stored(Ensured(b, Len(s)), s)

Retrieved(b, len) ==
  IF len < Readable(b) THEN Vector(b.cells, b.size, b.read + len, b.write)
                       ELSE Vector(b.cells, b.size, HeadSize, HeadSize)

(* What readv may return at most: the array on the stack is used when the  *)
(* room behind the write index is smaller than it.                         *)
Capacity(b) == Writeable(b) + (IF Writeable(b) < ExtraSize THEN ExtraSize ELSE 0)

(* receive: what fits goes behind the write index, the rest is appended.   *)
Received(b, s) ==
  IF Len(s) <= Writeable(b) THEN Stored(b, s)
  ELSE Appended(Stored(b, SubSeq(s, 1, Writeable(b))), SubSeq(s, Writeable(b) + 1, Len(s)))

-----------------------------------------------------------------------------
Init == buf = New

AppendData(s) ==
  /\ Readable(buf) + Len(s) <= MaxReadable
  /\ buf' = Appended(buf, s)

Receive(s) ==
  /\ Readable(buf) + Len(s) <= MaxReadable
  /\ Len(s) <= Capacity(buf)
  /\ buf' = Received(buf, s)

(* retrieve, after send or by a parser: of more than there is, all is      *)
(* taken.                                                                  *)
Retrieve(len) == buf' = Retrieved(buf, len)

Next ==
  \/ \E s \in Inputs : AppendData(s) \/ Receive(s)
  \/ \E len \in 0..(MaxReadable + 1) : Retrieve(len)

Spec == Init /\ [][Next]_buf

-----------------------------------------------------------------------------
(***************************************************************************)
(* The indexes stay in order within the vector: no byte is read or written *)
(* outside it, and the assertion at buffer.cpp:189 holds.                  *)
(***************************************************************************)
TypeOK == IsBuffer(buf)

(***************************************************************************)
(* Bytes come out as they went in, none lost, repeated or moved, through   *)
(* compaction, growth and the overflow of a read (buffer.cpp:101-206).     *)
(***************************************************************************)
Queue == INSTANCE ByteQueue WITH content <- Content(buf)

IsByteQueue == Queue!Spec

(***************************************************************************)
(* The vector grows only when what it holds afterwards would not have      *)
(* fitted (buffer.cpp:192-206): a connection that is read in time does not *)
(* let it grow.                                                            *)
(***************************************************************************)
GrowsOnlyWhenFull ==
  [][buf'.size # buf.size => HeadSize + Readable(buf') > buf.size]_buf
=============================================================================
