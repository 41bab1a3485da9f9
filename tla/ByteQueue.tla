----------------------------- MODULE ByteQueue -----------------------------
(***************************************************************************)
(* What a Buffer is to its users: a queue of bytes, put in at one end and  *)
(* taken from the other.  Buffer is shown to implement it.                 *)
(***************************************************************************)
EXTENDS Naturals, Sequences

CONSTANT Inputs     (* What may be put in at once: sequences of bytes.     *)

VARIABLE content    (* The bytes not taken yet.                            *)

Init == content = <<>>

Put(s) == content' = content \o s

Take(n) == content' = SubSeq(content, n + 1, Len(content))

Next ==
  \/ \E s \in Inputs : Put(s)
  \/ \E n \in 0..Len(content) : Take(n)

Spec == Init /\ [][Next]_content
=============================================================================
