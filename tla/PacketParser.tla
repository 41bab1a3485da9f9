---------------------------- MODULE PacketParser ----------------------------
(***************************************************************************)
(* The parsers that cut the input of a connection into messages:           *)
(* HttpPacketParser::reveive, called by FileServer::onMessage until it     *)
(* finds no more (src/src/http-packet-parser.cpp), and                     *)
(* TcpPacketParser::reveive, whose messages have their length in front     *)
(* (src/src/tcp-packet-parser.cpp; nothing in the repository calls it, and *)
(* the callback is taken to be the same loop).  The peer's bytes come in   *)
(* pieces of any length into a Buffer.                                     *)
(*                                                                         *)
(* A head is two bytes.  The second one is the length of the body: the     *)
(* number behind Content-Length, or the integer in front of a packet.  An  *)
(* HTTP head whose first byte is not 1 is malformed; what picohttpparser   *)
(* makes of more than that is not modelled.                                *)
(*                                                                         *)
(* The buffer's user may also be anyone else, as in module Buffer.         *)
(***************************************************************************)
EXTENDS Buffer, SequencesExt

CONSTANTS
  Messages,     (* What a peer may send.                                   *)
  MaxMessages   (* Bound: how much of it.                                  *)

VARIABLES
  user,         (* Who uses the buffer: "any", "http" or "packet".         *)
  wire,         (* The bytes on their way.                                 *)
  parsing,      (* Whether the callback for a read is running.             *)
  posted,       (* History: the messages the peer sent,                    *)
  handled       (* and those the parser returned.                          *)

streamVars == <<wire, parsing, posted, handled>>
vars == <<buf, user, streamVars>>

HeadLen == 2

(* A peer says how long its messages are, whatever else is wrong with      *)
(* them.                                                                   *)
ASSUME StreamAssumption ==
  /\ Bytes \subseteq Nat
  /\ Messages \subseteq Seq(Bytes)
  /\ \A m \in Messages : Len(m) >= HeadLen /\ Len(m) = HeadLen + m[2]
  /\ MaxMessages \in Nat

IsHead(s) == Len(s) >= HeadLen /\ (user = "http" => s[1] = 1)

BodyLen(s) == s[2]

(* What makes reveive return true.                                         *)
HasMessage(s) == IsHead(s) /\ Len(s) >= HeadLen + BodyLen(s)

WellFormed(m) == HasMessage(m)

StreamInit ==
  /\ Init
  /\ user \in {"any", "http", "packet"}
  /\ wire = <<>> /\ parsing = FALSE /\ posted = <<>> /\ handled = <<>>

(* The peer, which may send a message before the last one was answered.    *)
Post(m) ==
  /\ Len(posted) < MaxMessages
  /\ posted' = Append(posted, m)
  /\ wire' = wire \o m
  /\ UNCHANGED <<buf, user, parsing, handled>>

(* A read of n bytes, and the message callback begins.                     *)
Deliver(n) ==
  /\ ~parsing
  /\ Receive(SubSeq(wire, 1, n))
  /\ wire' = SubSeq(wire, n + 1, Len(wire))
  /\ parsing' = TRUE
  /\ UNCHANGED <<user, posted, handled>>

(* Mutant of Cut: the body stays.                                          *)
CutHead(b, len) == Retrieved(b, HeadLen)

(* A message leaves the buffer: at once, or the integer before the rest.   *)
Cut(b, len) ==
  IF user = "http" THEN Retrieved(b, len)
                   ELSE Retrieved(Retrieved(b, HeadLen), len - HeadLen)

(* Mutant of Serve: one message for every read.                            *)
ServeOnce ==
  /\ parsing /\ HasMessage(Content(buf))
  /\ LET s == Content(buf)
         len == HeadLen + BodyLen(s)
     IN  /\ handled' = Append(handled, SubSeq(s, 1, len))
         /\ buf' = Cut(buf, len)
  /\ parsing' = FALSE
  /\ UNCHANGED <<user, wire, posted>>

(* The parser returns a message, and is called again.                      *)
Serve ==
  /\ parsing /\ HasMessage(Content(buf))
  /\ LET s == Content(buf)
         len == HeadLen + BodyLen(s)
     IN  /\ handled' = Append(handled, SubSeq(s, 1, len))
         /\ buf' = Cut(buf, len)
  /\ UNCHANGED <<user, wire, parsing, posted>>

(* It returns none, and the callback ends.                                 *)
BreakOff ==
  /\ parsing /\ ~HasMessage(Content(buf))
  /\ parsing' = FALSE
  /\ UNCHANGED <<buf, user, wire, posted, handled>>

Parse == Serve \/ BreakOff

Arrive == \E n \in 1..Len(wire) : Deliver(n)

StreamNext ==
  \/ user = "any" /\ Next /\ UNCHANGED <<user, streamVars>>
  \/ user # "any" /\ \E m \in Messages : Post(m)
  \/ Parse \/ Arrive

(* What was sent arrives, and the callback goes on.                        *)
StreamSpec == StreamInit /\ [][StreamNext]_vars /\ WF_vars(Parse) /\ WF_vars(Arrive)
-----------------------------------------------------------------------------
(***************************************************************************)
(* The parser returns the messages the peer sent, whole and in order,      *)
(* however the bytes were cut up on their way                              *)
(* (http-packet-parser.cpp:26-36, tcp-packet-parser.cpp:16-29); bytes it   *)
(* has not returned are still there.                                       *)
(***************************************************************************)
Framing ==
  /\ IsPrefix(handled, posted)
  /\ user # "any" =>
       FlattenSeq(posted) = FlattenSeq(handled) \o Content(buf) \o wire

(***************************************************************************)
(* Every message is served unless something malformed came before it, also *)
(* the one that came together with the last and will be followed by no     *)
(* other (FileServer/file-server.cpp:84-88).                               *)
(***************************************************************************)
EveryMessageServed ==
  \A k \in 1..MaxMessages :
    (Len(posted) >= k /\ \A i \in 1..k : WellFormed(posted[i])) ~> Len(handled) >= k
=============================================================================
