------------------------------ MODULE MCBuffer ------------------------------
(* The instance of Buffer and PacketParser for TLC: everything of up to    *)
(* three bytes, and messages with a body of one byte or none.              *)
EXTENDS PacketParser

Inputs3 == UNION {[1..n -> Bytes] : n \in 0..3}

ShortMessages == {<<0, 0>>, <<1, 0>>, <<1, 1, 0>>, <<1, 1, 1>>}
=============================================================================
