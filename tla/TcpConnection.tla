--------------------------- MODULE TcpConnection ---------------------------
(***************************************************************************)
(* One connection (src/src/tcp-connection.cpp) with the Channel and the    *)
(* epoll registration it owns, as a record and the operators that compute  *)
(* the record after each member function.  TcpServer says which thread     *)
(* calls them and when.                                                    *)
(*                                                                         *)
(* Output is counted in units, one per send(); _writeCompleteCallback and  *)
(* _highWaterCallback are unset, as TcpServer leaves them by default.      *)
(***************************************************************************)
EXTENDS Naturals

States  == {"connecting", "connected", "disconnecting", "disconnected"}
Indexes == {"new", "added", "deleted"}

(***************************************************************************)
(* state     _state                                                        *)
(* interest  Channel::_events: "in" (EPOLLIN|EPOLLPRI), "out" (EPOLLOUT)   *)
(* index     Channel::_index; "added" is also: in the kernel's epoll set   *)
(* mapped    Epoll::_channels has an entry for its descriptor              *)
(* pending   units in _sendBuffer                                          *)
(* finSent   shutdown(SHUT_WR) has been called on the socket               *)
(* closing   history: shutdown() took effect                               *)
(* cut       history: the callback of another connection closed it while   *)
(*           it had events in the active list                              *)
(* ups/downs history: calls of _connectionCallback on connect/disconnect   *)
(***************************************************************************)
NewConnection ==
  [state |-> "connecting", interest |-> {}, index |-> "new", mapped |-> FALSE,
   pending |-> 0, finSent |-> FALSE, closing |-> FALSE, cut |-> FALSE, ups |-> 0, downs |-> 0]

Connection ==
  [state : States, interest : SUBSET {"in", "out"}, index : Indexes,
   mapped : BOOLEAN, pending : Nat, finSent : BOOLEAN,
   closing : BOOLEAN, cut : BOOLEAN, ups : Nat, downs : Nat]

-----------------------------------------------------------------------------
(* Channel and Epoll.                                                      *)

(* Epoll::updateChannel: the map is only filled for a new channel, and a   *)
(* deleted one is added again whatever it is interested in.                *)
UpdateChannel(c) ==
  IF c.index # "added"
  THEN [c EXCEPT !.index = "added", !.mapped = c.mapped \/ c.index = "new"]
  ELSE [c EXCEPT !.index = IF c.interest = {} THEN "deleted" ELSE "added"]

RemoveChannel(c) == [c EXCEPT !.mapped = FALSE, !.index = "deleted"]

EnableReading(c)    == UpdateChannel([c EXCEPT !.interest = @ \cup {"in"}])
EnableWriting(c)    == UpdateChannel([c EXCEPT !.interest = @ \cup {"out"}])
DisableWriting(c)   == UpdateChannel([c EXCEPT !.interest = @ \ {"out"}])
DisableAllEvents(c) == UpdateChannel([c EXCEPT !.interest = {}])

IsWriting(c) == "out" \in c.interest

(* What epoll_wait reports of the events a socket has: the ones of         *)
(* interest, and a hang-up whether asked for or not.                       *)
Reported(c, has) ==
  IF c.index = "added" THEN has \cap (c.interest \cup {"hup"}) ELSE {}

-----------------------------------------------------------------------------
(* Member functions that run in the owner loop.                            *)

Established(c) ==
  EnableReading([c EXCEPT !.state = "connected", !.ups = @ + 1])

(* Mutant of Destroyed: the channel is only removed from an open one.      *)
DestroyedKeepsChannel(c) ==
  IF c.state = "connected"
  THEN RemoveChannel(DisableAllEvents([c EXCEPT !.state = "disconnected", !.downs = @ + 1]))
  ELSE c

Destroyed(c) ==
  RemoveChannel(
    IF c.state = "connected"
    THEN DisableAllEvents([c EXCEPT !.state = "disconnected", !.downs = @ + 1])
    ELSE c)

(* Mutant of Closed: the channel stays enabled.                            *)
ClosedStaysEnabled(c) == [c EXCEPT !.state = "disconnected", !.downs = @ + 1]

Closed(c) ==
  DisableAllEvents([c EXCEPT !.state = "disconnected", !.downs = @ + 1])

ShutDown(c) == IF IsWriting(c) THEN c ELSE [c EXCEPT !.finSent = TRUE]

(* sendInOwnerLoop of one unit, and what write() makes of it: it takes the *)
(* whole, a part or nothing, or fails for good; the rest is buffered.      *)
WritesDirectly(c) == c.state # "disconnected" /\ ~IsWriting(c) /\ c.pending = 0

(* Mutant of Sent: the rest is buffered but EPOLLOUT is not asked for.     *)
SentUnwatched(c, outcome) ==
  IF c.state = "disconnected" \/ (WritesDirectly(c) /\ outcome \in {"taken", "broken"})
  THEN c
  ELSE [c EXCEPT !.pending = @ + 1]

Sent(c, outcome) ==
  IF c.state = "disconnected" \/ (WritesDirectly(c) /\ outcome \in {"taken", "broken"})
  THEN c
  ELSE EnableWriting([c EXCEPT !.pending = @ + 1])

(* Mutants of Written: one unit too many is retrieved; EPOLLOUT stays on.  *)
WrittenTooMuch(c, n) == IF ~IsWriting(c) \/ n = 0 THEN c ELSE [c EXCEPT !.pending = @ - n - 1]

WrittenStaysOn(c, n) == IF ~IsWriting(c) \/ n = 0 THEN c ELSE [c EXCEPT !.pending = @ - n]

(* handleWrite when the kernel takes n units.                              *)
Written(c, n) ==
  LET rest == [c EXCEPT !.pending = @ - n]
      done == DisableWriting(rest)
  IN  IF ~IsWriting(c) \/ n = 0 THEN c
      ELSE IF rest.pending > 0 THEN rest
      ELSE IF done.state = "disconnecting" THEN ShutDown(done) ELSE done

-----------------------------------------------------------------------------
(* shutdown() and forceClose(), called from any thread: the test of _state *)
(* and the store that follows it.                                          *)
MayShutdown(c)   == c.state = "connected"
MayForceClose(c) == c.state \in {"connected", "connecting"}
MaySend(c)       == c.state = "connected"

ShutdownStore(c)   == [c EXCEPT !.state = "disconnected", !.closing = TRUE]
ForceCloseStore(c) == [c EXCEPT !.state = "disconnecting"]

(* forceCloseInOwnerloop closes in these states.                           *)
ForceCloseApplies(c) == c.state \in {"connected", "disconnecting"}
=============================================================================
