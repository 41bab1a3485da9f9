----------------------------- MODULE TcpClient -----------------------------
(***************************************************************************)
(* A TcpClient and its Connector (src/src/tcp-client.cpp, connector.cpp):  *)
(* attempts to connect, retries by timers, the connection they lead to,    *)
(* and the user's stop(), disconnect() and connect().  The state of both   *)
(* is the record client; an operator computes the records a member         *)
(* function may leave.  What happens inside a connection is TcpConnection. *)
(*                                                                         *)
(* All of it runs on one loop, the user's calls too, except that connect() *)
(* may be called by any thread.  A descriptor is a number and so is the    *)
(* connection that owns it.  _connect is TRUE wherever it is read: start() *)
(* sets it and nothing clears it.  How long a retry waits is left out, but *)
(* it waits longer than a round of the loop takes.                         *)
(***************************************************************************)
EXTENDS TcpConnection, Sequences, FiniteSets

CONSTANTS
  Descriptors,  (* What socket() may return.                               *)
  MaxConnects   (* Bound: calls of connect().                              *)

ASSUME ClientAssumption == Descriptors \subseteq Nat \ {0} /\ MaxConnects \in Nat

VARIABLES
  client,   (* See Client.                                                 *)
  phase,    (* Where the loop is in EventLoop::loop.                       *)
  ready,    (* The events epoll returned that have not been handled.       *)
  batch,    (* The functors swapped out of the queue.                      *)
  careful   (* History: the user did what the assertions ask for, though   *)
            (* neither code nor comment says so: connect() was called once *)
            (* at most, and stop() never closed a connection whose hang-up *)
            (* had been reported and was still to be handled.              *)

vars == <<client, phase, ready, batch, careful>>

None == [state |-> "none"]

(* A functor of the queue, and the connection it is bound to, or 0.        *)
Functors == {"startInLoop", "resetChannel", "destroyed"} \X (Descriptors \cup {0})

(***************************************************************************)
(* state, socket, channel   Connector's _state, _socket, and the           *)
(*             descriptor of _channel (0: none); watched: it is in epoll   *)
(* timers      pending calls of startInLoop by runAfter                    *)
(* connected, retry, connection   TcpClient's members                      *)
(* conns       the TcpConnection on each descriptor                        *)
(* open        the descriptors that are open                               *)
(* queue       the loop's _functions                                       *)
(* calls       how often connect() was called                              *)
(* stopped     history: stop() was called, and nothing was under way that  *)
(*             it does not cover: a retry, or a start that is queued       *)
(* due         history: a connection is owed to the user: connect() was    *)
(*             called, or one was lost while _retry and _connected held    *)
(* gaveUp      history: connect(2) failed in a way that is not retried     *)
(* broken      history: an assertion failed, or a null pointer was used    *)
(***************************************************************************)
Client ==
  [state : {"disconnected", "connecting", "connected"},
   socket : Descriptors \cup {0}, channel : Descriptors \cup {0}, watched : BOOLEAN,
   timers : 0..MaxConnects, connected : BOOLEAN, retry : BOOLEAN,
   connection : Descriptors \cup {0}, conns : [Descriptors -> Connection \cup {None}],
   open : SUBSET Descriptors,
   queue : Seq(Functors), calls : 0..MaxConnects,
   stopped : BOOLEAN, due : BOOLEAN, gaveUp : BOOLEAN, broken : BOOLEAN]

Init ==
  /\ client =
       [state |-> "disconnected", socket |-> 0, channel |-> 0, watched |-> FALSE,
        timers |-> 0, connected |-> FALSE, retry |-> FALSE, connection |-> 0,
        conns |-> [d \in Descriptors |-> None], open |-> {}, queue |-> <<>>, calls |-> 0,
        stopped |-> FALSE, due |-> FALSE, gaveUp |-> FALSE, broken |-> FALSE]
  /\ phase = "poll"
  /\ ready = {}
  /\ batch = <<>>
  /\ careful = TRUE

-----------------------------------------------------------------------------
(* Connector.                                                              *)
Broken(s) == [s EXCEPT !.broken = TRUE]

Push(s, fn, d) == [s EXCEPT !.queue = Append(@, <<fn, d>>)]

(* Mutant of NewSocket: the descriptor of the last attempt is used again.  *)
NewSocketAgain(s) ==
  LET d == IF s.socket # 0 THEN s.socket
           ELSE CHOOSE d \in Descriptors \ s.open : \A e \in Descriptors \ s.open : d <= e
  IN  [s EXCEPT !.socket = d, !.open = @ \cup {d}]

(* socket(2) returns the lowest descriptor that is free; whatever _socket  *)
(* held before is forgotten.                                               *)
NewSocket(s) ==
  LET d == CHOOSE d \in Descriptors \ s.open : \A e \in Descriptors \ s.open : d <= e
  IN  [s EXCEPT !.socket = d, !.open = @ \cup {d}]

CloseSocket(s) == [s EXCEPT !.open = @ \ {s.socket}, !.socket = 0]

(* Mutant of Retry: no timer.                                              *)
RetryNever(s) == [CloseSocket(s) EXCEPT !.state = "disconnected"]

Retry(s) == [CloseSocket(s) EXCEPT !.state = "disconnected", !.timers = @ + 1]

Connecting(s) ==
  IF s.channel # 0
  THEN Broken(s)
  ELSE [s EXCEPT !.state = "connecting", !.channel = s.socket, !.watched = TRUE]

(* Connector::connect, by what connect(2) says: under way, to be retried,  *)
(* an error that closes the socket, an error the switch does not list.     *)
Connect(s) ==
  LET r == NewSocket(s)
  IN  {Connecting(r), Retry(r), [CloseSocket(r) EXCEPT !.gaveUp = TRUE], [r EXCEPT !.gaveUp = TRUE]}

StartInLoop(s) == IF s.state # "disconnected" THEN {Broken(s)} ELSE Connect(s)

Restart(s) == StartInLoop([s EXCEPT !.state = "disconnected"])

RemoveAndResetChannel(s) == Push([s EXCEPT !.watched = FALSE], "resetChannel", 0)

(* Mutant of StopInLoop: it waits for a connection instead of an attempt.  *)
StopInLoopConnected(s) ==
  IF s.state = "connected" THEN RemoveAndResetChannel([s EXCEPT !.state = "disconnected"]) ELSE s

StopInLoop(s) ==
  IF s.state = "connecting" THEN RemoveAndResetChannel([s EXCEPT !.state = "disconnected"]) ELSE s

(* The poller knows channels by descriptor: a connection that has taken    *)
(* the descriptor over loses its place in Epoll::_channels.                *)
ResetChannel(s) ==
  IF s.channel = 0
  THEN Broken(s)
  ELSE [s EXCEPT !.channel = 0,
                 !.conns[s.channel] = IF @ = None THEN @ ELSE [@ EXCEPT !.mapped = FALSE]]

HandleError(s) == IF s.state = "connecting" THEN Retry(RemoveAndResetChannel(s)) ELSE s

-----------------------------------------------------------------------------
(* TcpClient.  The connection callback may call stop() or disconnect().    *)
UpCalls == {"none", "stop", "disconnect"}
Calls == UpCalls \cup {"enableRetry", "disableRetry"}

RemoveConnection(s, d) ==
  LET r == Push([s EXCEPT !.connection = 0], "destroyed", d)
  IN  IF s.connection # d THEN {Broken(s)}
      ELSE IF r.retry /\ r.connected THEN Restart(r) ELSE {r}

(* TcpConnection::handleClose.  For a connection that is reported down,    *)
(* stop() and disconnect() only clear _connected.                          *)
HandleClose(s, d) ==
  UNION {RemoveConnection([s EXCEPT !.conns[d] = Closed(@), !.connected = wanted,
                                    !.due = wanted /\ s.retry], d) :
           wanted \in {s.connected, FALSE}}

ForceClose(s, d) ==
  IF d # 0 /\ MayForceClose(s.conns[d])
  THEN HandleClose([s EXCEPT !.conns[d] = ForceCloseStore(@)], d)
  ELSE {s}

Covered(s) == s.timers = 0 /\ \A f \in {s.queue, batch} : \A i \in DOMAIN f : f[i][1] # "startInLoop"

Stop(s) ==
  {[StopInLoop(t) EXCEPT !.stopped = Covered(s), !.due = FALSE] :
     t \in ForceClose([s EXCEPT !.connected = FALSE], s.connection)}

Disconnect(s) ==
  LET d == s.connection
      r == [s EXCEPT !.connected = FALSE, !.due = FALSE]
  IN  IF d # 0 /\ MayShutdown(s.conns[d])
      THEN [r EXCEPT !.conns[d] = ShutDown(ShutdownStore(@))]
      ELSE r

Call(s, op) ==
  CASE op = "none"         -> {s}
    [] op = "stop"         -> Stop(s)
    [] op = "disconnect"   -> {Disconnect(s)}
    [] op = "enableRetry"  -> {[s EXCEPT !.retry = TRUE]}
    [] op = "disableRetry" -> {[s EXCEPT !.retry = FALSE]}

(* TcpClient::newConnection; the connection owns the descriptor, which the *)
(* connector keeps in _socket.                                             *)
Connected(s) ==
  LET r == [s EXCEPT !.due = FALSE, !.connection = s.socket,
                     !.conns[s.socket] = Established(NewConnection)]
  IN  UNION {Call(r, op) : op \in UpCalls}

(* Connector::handleWrite, and what SO_ERROR says then.                    *)
HandleWrite(s, error) ==
  CASE s.state = "connecting" /\ error  -> {Retry(RemoveAndResetChannel(s))}
    [] s.state = "connecting" /\ ~error -> Connected([RemoveAndResetChannel(s) EXCEPT !.state = "connected"])
    [] s.state = "connected"            -> {Broken(s)}
    [] OTHER                            -> {s}

(* connectionDestoryed, and with it the last shared_ptr: the descriptor is *)
(* closed.                                                                 *)
ConnectionDestroyed(s, d) == [s EXCEPT !.conns[d] = None, !.open = @ \ {d}]

-----------------------------------------------------------------------------
(* The loop.  Events: of the connector's channel (writable, or an error    *)
(* too), of a connection whose peer hung up, of the timer queue, and some  *)
(* event or timer of the user's on this loop.                              *)
ConnectorEvents == IF client.watched THEN {<<"writable", 0>>, <<"error", 0>>} ELSE {}
HangUps ==
  {<<"hangUp", d>> : d \in {d \in Descriptors : client.conns[d] # None /\ client.conns[d].index = "added"}}
TimerEvents == IF client.timers > 0 THEN {<<"timer", 0>>} ELSE {}

Poll ==
  /\ phase = "poll" /\ ~client.broken
  /\ \E R \in SUBSET (ConnectorEvents \cup HangUps \cup TimerEvents \cup {<<"user", 0>>}) :
       /\ ConnectorEvents \subseteq R => ConnectorEvents = {}
       /\ ready' = R
  /\ phase' = "events"
  /\ UNCHANGED <<client, batch, careful>>

(* What a handler leaves of the state, if none of them failed before.      *)
Handle(event, outcomes) ==
  /\ phase = "events" /\ ~client.broken
  /\ event \in ready
  /\ client' \in outcomes
  /\ ready' = ready \ {event}
  /\ careful' = (careful /\ ~ /\ <<"hangUp", client.connection>> \in ready'
                              /\ client'.connection # client.connection)
  /\ UNCHANGED <<phase, batch>>

(* Channel::handleEventWithGuard: the error callback, then the other.      *)
OnConnector ==
  \/ \E error \in BOOLEAN : Handle(<<"writable", 0>>, HandleWrite(client, error))
  \/ Handle(<<"error", 0>>, HandleWrite(HandleError(client), FALSE))

(* An event that was reported before the channel was disabled is handled   *)
(* all the same, but the tie keeps nothing alive here: the destruction is  *)
(* a functor of this loop.                                                 *)
OnHangUp == \E d \in Descriptors : Handle(<<"hangUp", d>>, HandleClose(client, d))

(* Mutant of OnTimer: runEvery instead of runAfter.                        *)
OnTimerRepeats == Handle(<<"timer", 0>>, StartInLoop(client))

OnTimer == Handle(<<"timer", 0>>, StartInLoop([client EXCEPT !.timers = @ - 1]))

OnUser == \E op \in Calls : Handle(<<"user", 0>>, Call(client, op))

Swap ==
  /\ phase = "events" /\ ready = {} /\ ~client.broken
  /\ phase' = "tasks"
  /\ batch' = client.queue
  /\ client' = [client EXCEPT !.queue = <<>>]
  /\ UNCHANGED <<ready, careful>>

RunFunctor ==
  /\ phase = "tasks" /\ batch # <<>> /\ ~client.broken
  /\ client' \in
       CASE Head(batch)[1] = "startInLoop"  -> StartInLoop(client)
         [] Head(batch)[1] = "resetChannel" -> {ResetChannel(client)}
         [] Head(batch)[1] = "destroyed"    -> {ConnectionDestroyed(client, Head(batch)[2])}
  /\ batch' = Tail(batch)
  /\ UNCHANGED <<phase, ready, careful>>

EndPending ==
  /\ phase = "tasks" /\ batch = <<>> /\ ~client.broken
  /\ phase' = "poll"
  /\ UNCHANGED <<client, ready, batch, careful>>

(* TcpClient::connect, by another thread.                                  *)
CallConnect ==
  /\ client.calls < MaxConnects /\ ~client.broken
  /\ client' = Push([client EXCEPT !.connected = TRUE, !.calls = @ + 1, !.stopped = FALSE,
                              !.due = TRUE],
                  "startInLoop", 0)
  /\ careful' = (careful /\ client.calls = 0)
  /\ UNCHANGED <<phase, ready, batch>>

LoopStep ==
  Poll \/ OnConnector \/ OnHangUp \/ OnTimer \/ OnUser \/ Swap \/ RunFunctor \/ EndPending

Next == LoopStep \/ CallConnect

Spec == Init /\ [][Next]_vars

(***************************************************************************)
(* The loop goes on; a timer is due in the end; of attempts without end    *)
(* some get under way, are reported and succeed: the server is there.      *)
(***************************************************************************)
FairSpec ==
  /\ Spec
  /\ WF_vars(LoopStep)
  /\ SF_vars(Poll /\ <<"timer", 0>> \in ready')
  /\ SF_vars(Poll /\ <<"writable", 0>> \in ready')
  /\ SF_vars(LoopStep /\ client.state # "connecting" /\ client'.state = "connecting")
  /\ SF_vars(LoopStep /\ client.state = "connecting" /\ client'.state = "connected")

-----------------------------------------------------------------------------
TypeOK ==
  /\ client \in Client
  /\ phase \in {"poll", "events", "tasks"}
  /\ ready \subseteq {"writable", "error", "hangUp", "timer", "user"} \X (Descriptors \cup {0})
  /\ batch \in Seq(Functors)
  /\ careful \in BOOLEAN

(***************************************************************************)
(* As long as the user calls connect() once only and never stop() before a *)
(* hang-up of the same round is handled, the assertions at connector.cpp:  *)
(* 50, 116 and 167 and tcp-client.cpp:127 hold and resetChannel finds a    *)
(* channel (connector.cpp:139): an attempt starts after the one before has *)
(* left state and channel, however late the events of its round are        *)
(* handled.                                                                *)
(***************************************************************************)
AssertionsHold == careful => ~client.broken

(***************************************************************************)
(* What the assertions themselves say: none fails, whatever the user does. *)
(* The code violates it, by a second connect() (connector.cpp:50) and by a *)
(* stop() in the round of a hang-up (tcp-client.cpp:127).                  *)
(***************************************************************************)
NoAssertionFails == ~client.broken

(***************************************************************************)
(* A client has one connection at most that is up for its user, and a      *)
(* connection keeps its descriptor until it is destroyed, although the     *)
(* connector still holds the same number and closes its own when an        *)
(* attempt fails (tcp-client.cpp:100-136, connector.cpp:162, 186).         *)
(***************************************************************************)
Up(d) == client.conns[d] # None /\ client.conns[d].ups > client.conns[d].downs

OneConnection ==
  /\ \A d, e \in Descriptors : Up(d) /\ Up(e) => d = e
  /\ \A d \in Descriptors : client.conns[d] # None => d \in client.open

(***************************************************************************)
(* No assertion fails for a careful user, and for any user no two          *)
(* connections get into each other's way.                                  *)
(***************************************************************************)
ClientIsSound == AssertionsHold /\ OneConnection

(***************************************************************************)
(* "stop: disconnects" (tcp-client.h:26-29): after it there is neither an  *)
(* open connection nor an attempt under way, also when the events of an    *)
(* attempt or of a connection were waiting to be handled.  A retry that is *)
(* pending, or a start that is queued, stop() does not cover.              *)
(***************************************************************************)
StopHolds ==
  client.stopped =>
    /\ client.state # "connecting"
    /\ \A d \in Descriptors : client.conns[d] # None => client.conns[d].state # "connected"

(***************************************************************************)
(* "whether to reconnect after the connection is lost" (tcp-client.h:81):  *)
(* whoever called connect(), or lost a connection that is to be retried,   *)
(* gets one, however many attempts fail and whenever, unless connect(2)    *)
(* fails in a way the connector does not retry (connector.cpp:84-110) or   *)
(* the user was not careful, so that an assertion may end the program.     *)
(***************************************************************************)
Reconnects == client.due ~> ~client.due \/ client.gaveUp \/ ~careful
=============================================================================
