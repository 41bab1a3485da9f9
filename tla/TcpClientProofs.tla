-------------------------- MODULE TcpClientProofs --------------------------
(***************************************************************************)
(* Theorems about TcpClient for any descriptors, at least two of them, as  *)
(* long as the user is careful: calls connect() once at most, and never    *)
(* stop() while a reported hang-up of the connection is still to be        *)
(* handled.  The code does not say so, but its assertions need it: for     *)
(* every user NoAssertionFails is false.  The one invariant says which of  *)
(* these stages the client is in then: the start is still queued; an       *)
(* attempt is under way; a retry waits for its timer; a connection is up;  *)
(* or nothing will happen any more.                                        *)
(***************************************************************************)
EXTENDS TcpClient, SequenceTheorems, WellFoundedInduction, TLAPS

(***************************************************************************)
(* The hypothesis: an attempt that follows a lost connection needs a       *)
(* descriptor besides the one that is still to be closed.                  *)
(***************************************************************************)
TwoDescriptors == \E d, e \in Descriptors : d # e

Start      == <<"startInLoop", 0>>
Reset      == <<"resetChannel", 0>>
Destroy(d) == <<"destroyed", d>>

(***************************************************************************)
(* What is queued when r says whether a functor that resets the channel    *)
(* is, and x is the connection whose destruction is, or 0.                 *)
(***************************************************************************)
Pending(r, x) ==
  IF r THEN IF x = 0 THEN <<Reset>> ELSE <<Reset, Destroy(x)>>
       ELSE IF x = 0 THEN <<>> ELSE <<Destroy(x)>>

(* The other order: the attempt that follows a lost connection is stopped  *)
(* in the round of the hang-up.                                            *)
Crossed(x) == <<Destroy(x), Reset>>

(* A connection that is up, and one that was reported down.                *)
IsUp(c) ==
  /\ c \in Connection /\ c.state \in {"connected", "disconnected"}
  /\ c.index = "added" /\ c.ups = 1 /\ c.downs = 0

IsDown(c) ==
  /\ c \in Connection /\ c.state = "disconnected"
  /\ c.index = "deleted" /\ c.ups = 1 /\ c.downs = 1

(***************************************************************************)
(* The fields of the client but for the queue, after the start.  A retry,  *)
(* an attempt and a connection exclude each other; while one of them is    *)
(* there every open descriptor is accounted for, so that there is one left *)
(* for the next attempt: a socket that stays open after stop() or after an *)
(* error that is not retried (connector.cpp:58, 109) is the last.  After   *)
(* stop() there is none of the three, save a connection that is half       *)
(* closed.                                                                 *)
(***************************************************************************)
Good(s, r, x) ==
  /\ s \in Client /\ ~s.broken /\ s.calls = 1
  /\ r <=> s.channel # 0 /\ ~s.watched
  /\ s.watched <=> s.state = "connecting"
  /\ s.watched => /\ s.channel # 0 /\ s.channel = s.socket
                  /\ s.connection = 0 /\ s.timers = 0
                  /\ s.socket \in s.open /\ s.conns[s.socket] = None
  /\ s.timers > 0 => s.timers = 1 /\ s.connection = 0 /\ s.state = "disconnected"
  /\ s.connection # 0 => s.state = "connected" /\ IsUp(s.conns[s.connection])
  /\ x # 0 => IsDown(s.conns[x])
  /\ \A d \in Descriptors : s.conns[d] # None => d \in s.open /\ d \in {s.connection, x}
  /\ s.watched \/ s.timers > 0 \/ s.connection # 0 =>
       \A d \in s.open : d = s.connection \/ d = x \/ (s.watched /\ d = s.socket)
  /\ s.stopped => /\ ~s.connected /\ ~s.watched /\ s.timers = 0
                  /\ s.connection # 0 => s.conns[s.connection].state # "connected"

(* An event that is yet to be handled finds what it was reported for, or   *)
(* finds that the user has ended it.                                       *)
ReadyOk(s, r, x) ==
  /\ \A w \in {<<"writable", 0>>, <<"error", 0>>} : w \in ready =>
       /\ s.state # "connected" /\ s.timers = 0 /\ s.connection = 0 /\ x = 0
       /\ ready \subseteq {w, <<"user", 0>>}
  /\ <<"timer", 0>> \in ready => s.timers = 1 /\ ~r /\ x = 0
  /\ \A d \in Descriptors : <<"hangUp", d>> \in ready =>
       s.connection = d /\ ~r /\ x = 0 /\ ready \subseteq {<<"hangUp", d>>, <<"user", 0>>}
  /\ <<"user", 0>> \in ready /\ x # 0 => ready = {<<"user", 0>>} /\ s.connection = 0

(* Where the functors t are: in the queue, or in the batch that is run.    *)
Placed(t) ==
  \/ phase = "tasks" /\ batch = t /\ client.queue = <<>>
  \/ phase # "tasks" /\ client.queue = t /\ batch = <<>> /\ (phase = "poll" => t = <<>>)

Started(r, x) == Good(client, r, x) /\ ReadyOk(client, r, x) /\ Placed(Pending(r, x))

StoppedLate ==
  \E x \in Descriptors : Good(client, TRUE, x) /\ ready = {} /\ Placed(Crossed(x))

NotStarted ==
  /\ client \in Client /\ ~client.broken
  /\ client.state = "disconnected" /\ client.channel = 0 /\ ~client.watched
  /\ client.timers = 0 /\ client.connection = 0 /\ client.open = {}
  /\ \A d \in Descriptors : client.conns[d] = None
  /\ ready \subseteq {<<"user", 0>>}
  /\ \/ client.calls = 0 /\ client.queue = <<>> /\ batch = <<>> /\ (client.stopped => ~client.connected)
     \/ client.calls = 1 /\ client.queue = <<Start>> /\ batch = <<>> /\ ~client.stopped
     \/ client.calls = 1 /\ client.queue = <<>> /\ batch = <<Start>> /\ phase = "tasks" /\ ~client.stopped

Events ==
  ({"writable", "error", "timer", "user"} \X {0}) \cup ({"hangUp"} \X Descriptors)

ClientInv ==
  /\ phase \in {"poll", "events", "tasks"}
  /\ ready \subseteq Events
  /\ phase # "events" => ready = {}
  /\ NotStarted \/ StoppedLate \/ \E r \in BOOLEAN, x \in Descriptors \cup {0} : Started(r, x)

-----------------------------------------------------------------------------
(* Numbers: a set of them has a least one.                                 *)
LEMMA LeastNumber ==
  ASSUME NEW T, T \subseteq Nat, T # {}
  PROVE  \E n \in T : \A m \in T : n <= m
<1> DEFINE R == OpToRel(<, Nat)
<1>1. IsWellFoundedOn(R, Nat)
  BY NatLessThanWellFounded
<1>2. \A n, m \in Nat : <<m, n>> \in R <=> m < n
  BY DEF OpToRel
<1> HIDE DEF R
<1>3. PICK n \in T : \A m \in T : <<m, n>> \notin R
  BY <1>1, WFMin
<1>4. ASSUME NEW m \in T PROVE n <= m
  <2>1. n \in Nat /\ m \in Nat /\ <<m, n>> \notin R
    BY <1>3
  <2>2. ~(m < n)
    BY <1>2, <2>1
  <2>3. QED
    BY <2>1, <2>2
<1>5. QED
  BY <1>4

(* socket() returns a descriptor that is free, if there is one.            *)
LEMMA NewSocketIsFree ==
  ASSUME NEW s, s.open # Descriptors, s.open \subseteq Descriptors
  PROVE  \E d \in Descriptors \ s.open : NewSocket(s) = [s EXCEPT !.socket = d, !.open = @ \cup {d}]
<1> DEFINE F == Descriptors \ s.open
<1>1. F # {} /\ F \subseteq Nat
  BY ClientAssumption
<1>2. \E d \in F : \A e \in F : d <= e
  BY <1>1, LeastNumber
<1> DEFINE d == CHOOSE d \in F : \A e \in F : d <= e
<1>3. d \in F
  BY <1>2
<1>4. NewSocket(s) = [s EXCEPT !.socket = d, !.open = @ \cup {d}]
  BY DEF NewSocket
<1>5. QED
  BY <1>3, <1>4

(* What the member functions of a connection leave of it.                  *)
LEMMA RecordUpdated ==
  ASSUME NEW p \in Connection
  PROVE  /\ UpdateChannel(p) \in Connection
         /\ UpdateChannel(p).index = IF p.index = "added" /\ p.interest = {} THEN "deleted" ELSE "added"
         /\ UpdateChannel(p).state = p.state
         /\ UpdateChannel(p).ups = p.ups /\ UpdateChannel(p).downs = p.downs
BY DEF UpdateChannel, Connection, Indexes

LEMMA EstablishedIsUp == IsUp(Established(NewConnection)) /\ Established(NewConnection).state = "connected"
<1>1. /\ NewConnection \in Connection /\ NewConnection.ups = 0 /\ NewConnection.downs = 0
      /\ NewConnection.interest = {} /\ NewConnection.index = "new"
  BY DEF NewConnection, Connection, States, Indexes
<1>2. PICK a : a = [NewConnection EXCEPT !.state = "connected"]
  OBVIOUS
<1>3. /\ a \in Connection /\ a.state = "connected" /\ a.ups = 0 /\ a.downs = 0
      /\ a.interest = {} /\ a.index = "new"
  BY <1>1, <1>2 DEF Connection, States
<1>4. PICK b : b = [a EXCEPT !.ups = @ + 1]
  OBVIOUS
<1>5. /\ b \in Connection /\ b.state = "connected" /\ b.ups = 1 /\ b.downs = 0
      /\ b.interest = {} /\ b.index = "new"
  BY <1>3, <1>4 DEF Connection
<1>6. b = [NewConnection EXCEPT !.state = "connected", !.ups = @ + 1]
  BY <1>2, <1>4 DEF NewConnection
<1>7. PICK t : t = [b EXCEPT !.interest = @ \cup {"in"}]
  OBVIOUS
<1>8. /\ t \in Connection /\ t.state = "connected" /\ t.ups = 1 /\ t.downs = 0
      /\ t.interest = {"in"}
  BY <1>5, <1>7 DEF Connection
<1>9. Established(NewConnection) = UpdateChannel(t)
  BY <1>6, <1>7 DEF Established, EnableReading
<1>10. QED
  BY <1>8, <1>9, RecordUpdated DEF IsUp

LEMMA ClosedIsDown ==
  ASSUME NEW c, c \in Connection, c.index = "added", c.ups = 1, c.downs = 0
  PROVE  IsDown(Closed(c))
<1>1. PICK a : a = [c EXCEPT !.state = "disconnected"]
  OBVIOUS
<1>2. /\ a \in Connection /\ a.state = "disconnected" /\ a.ups = 1 /\ a.downs = 0
      /\ a.index = "added"
  BY <1>1 DEF Connection, States
<1>3. PICK b : b = [a EXCEPT !.downs = @ + 1]
  OBVIOUS
<1>4. /\ b \in Connection /\ b.state = "disconnected" /\ b.ups = 1 /\ b.downs = 1
      /\ b.index = "added"
  BY <1>2, <1>3 DEF Connection
<1>5. b = [c EXCEPT !.state = "disconnected", !.downs = @ + 1]
  BY <1>1, <1>3 DEF Connection
<1>6. PICK t : t = [b EXCEPT !.interest = {}]
  OBVIOUS
<1>7. /\ t \in Connection /\ t.state = "disconnected" /\ t.ups = 1 /\ t.downs = 1
      /\ t.index = "added" /\ t.interest = {}
  BY <1>4, <1>6 DEF Connection
<1>8. Closed(c) = UpdateChannel(t)
  BY <1>5, <1>6 DEF Closed, DisableAllEvents
<1>9. QED
  BY <1>7, <1>8, RecordUpdated DEF IsDown

(* A connection that is up stays so until it is closed, by its peer, by    *)
(* forceClose or after shutdown.                                           *)
LEMMA UpConnection ==
  ASSUME NEW c, IsUp(c)
  PROVE  /\ IsDown(Closed(c)) /\ IsDown(Closed(ForceCloseStore(c)))
         /\ IsUp(ShutDown(ShutdownStore(c))) /\ ShutDown(ShutdownStore(c)).state = "disconnected"
<1>1. IsDown(Closed(c))
  BY ClosedIsDown DEF IsUp
<1>2. PICK f : f = ForceCloseStore(c)
  OBVIOUS
<1>3. f \in Connection /\ f.index = "added" /\ f.ups = 1 /\ f.downs = 0
  BY <1>2 DEF IsUp, ForceCloseStore, Connection, States
<1>4. IsDown(Closed(f))
  BY <1>3, ClosedIsDown
<1>5. IsUp(ShutDown(ShutdownStore(c))) /\ ShutDown(ShutdownStore(c)).state = "disconnected"
  BY DEF IsUp, ShutDown, ShutdownStore, IsWriting, Connection, States, Indexes
<1>6. QED
  BY <1>1, <1>2, <1>4, <1>5

LEMMA UnmappedStays ==
  ASSUME NEW c
  PROVE  /\ IsUp(c) => IsUp([c EXCEPT !.mapped = FALSE]) /\ [c EXCEPT !.mapped = FALSE].state = c.state
         /\ IsDown(c) => IsDown([c EXCEPT !.mapped = FALSE])
BY DEF IsUp, IsDown, Connection, States, Indexes

(* A connection is a record, and None is none of them.                     *)
LEMMA NoneIsNone ==
  ASSUME NEW c, IsUp(c) \/ IsDown(c)
  PROVE  c # None /\ c \in Connection
<1>1. c \in Connection
  BY DEF IsUp, IsDown
<1>2. None.state # "connected" /\ None.state # "disconnected"
  BY DEF None
<1>3. QED
  BY <1>1, <1>2 DEF IsUp, IsDown

-----------------------------------------------------------------------------
(***************************************************************************)
(* The connector.  From this state an attempt is made: nothing is under    *)
(* way, and at most the descriptor of x is open.                           *)
(***************************************************************************)
MayStart(s, x) ==
  /\ s \in Client /\ ~s.broken /\ s.calls = 1 /\ ~s.stopped
  /\ s.channel = 0 /\ ~s.watched /\ s.timers = 0 /\ s.connection = 0
  /\ s.state = "disconnected"
  /\ s.open \subseteq {x}
  /\ \A d \in Descriptors : s.conns[d] # None => d \in s.open
  /\ x # 0 => IsDown(s.conns[x])

LEMMA SocketOpened ==
  ASSUME TwoDescriptors, NEW x \in Descriptors \cup {0}, NEW s, MayStart(s, x), NEW r, r = NewSocket(s)
  PROVE  /\ r \in Client /\ ~r.broken /\ r.calls = 1 /\ ~r.stopped
         /\ r.channel = 0 /\ ~r.watched /\ r.timers = 0 /\ r.connection = 0
         /\ r.state = "disconnected" /\ r.queue = s.queue
         /\ r.socket \in Descriptors \ {x} /\ r.open \subseteq {x, r.socket} /\ r.socket \in r.open
         /\ r.conns[r.socket] = None
         /\ \A d \in Descriptors : r.conns[d] # None => d = x /\ d \in r.open
         /\ x # 0 => IsDown(r.conns[x]) /\ x \in r.open
<1>1. s.open # Descriptors /\ s.open \subseteq Descriptors
  BY DEF TwoDescriptors, MayStart, Client
<1>2. PICK d \in Descriptors \ s.open : r = [s EXCEPT !.socket = d, !.open = @ \cup {d}]
  BY <1>1, NewSocketIsFree
<1>3. r \in Client
  <2>1. s \in Client /\ d \in Descriptors \cup {0}
    BY DEF MayStart
  <2>2. PICK o \in SUBSET Descriptors : o = s.open \cup {d}
    BY <1>1
  <2>3. r = [s EXCEPT !.socket = d, !.open = o]
    BY <1>2, <2>1, <2>2 DEF Client
  <2>4. QED
    BY <2>1, <2>3 DEF Client
<1>4. /\ r.broken = s.broken /\ r.calls = s.calls /\ r.stopped = s.stopped /\ r.channel = s.channel
      /\ r.watched = s.watched /\ r.timers = s.timers /\ r.connection = s.connection
      /\ r.state = s.state /\ r.queue = s.queue /\ r.conns = s.conns
      /\ r.socket = d /\ r.open = s.open \cup {d}
  BY <1>2 DEF MayStart, Client
<1>5. x # 0 => x \in s.open
  BY NoneIsNone DEF MayStart
<1>6. s.conns[d] = None
  BY DEF MayStart
<1>7. d # x
  BY <1>5, ClientAssumption
<1>8. /\ ~r.broken /\ r.calls = 1 /\ ~r.stopped
      /\ r.channel = 0 /\ ~r.watched /\ r.timers = 0 /\ r.connection = 0
      /\ r.state = "disconnected"
  BY <1>4 DEF MayStart
<1>9. /\ r.open \subseteq {x, d} /\ d \in r.open
      /\ \A e \in Descriptors : r.conns[e] # None => e = x /\ e \in r.open
      /\ x # 0 => IsDown(r.conns[x]) /\ x \in r.open
  BY <1>4, <1>5 DEF MayStart
<1>10. QED
  BY <1>3, <1>4, <1>6, <1>7, <1>8, <1>9

LEMMA SocketClosed ==
  ASSUME NEW r \in Client, NEW u, u = CloseSocket(r)
  PROVE  /\ u \in Client /\ u.open = r.open \ {r.socket}
         /\ u.broken = r.broken /\ u.calls = r.calls /\ u.stopped = r.stopped /\ u.channel = r.channel
         /\ u.watched = r.watched /\ u.timers = r.timers /\ u.connection = r.connection
         /\ u.state = r.state /\ u.queue = r.queue /\ u.conns = r.conns /\ u.connected = r.connected
BY DEF CloseSocket, Client

LEMMA Retried ==
  ASSUME NEW r \in Client, r.calls = 1, r.timers = 0, NEW u, u = Retry(r)
  PROVE  /\ u \in Client /\ u.open = r.open \ {r.socket}
         /\ u.state = "disconnected" /\ u.timers = 1
         /\ u.broken = r.broken /\ u.calls = 1 /\ u.stopped = r.stopped /\ u.channel = r.channel
         /\ u.watched = r.watched /\ u.connection = r.connection
         /\ u.queue = r.queue /\ u.conns = r.conns /\ u.connected = r.connected
<1>1. PICK a : a = CloseSocket(r)
  OBVIOUS
<1>2. PICK b : b = [a EXCEPT !.state = "disconnected"]
  OBVIOUS
<1>3. a \in Client /\ a.timers = 0 /\ a.calls = 1
  BY <1>1, SocketClosed
<1>4. /\ b \in Client /\ b.timers = 0 /\ b.calls = 1 /\ b.state = "disconnected"
      /\ b.open = a.open /\ b.broken = a.broken /\ b.stopped = a.stopped /\ b.channel = a.channel
      /\ b.watched = a.watched /\ b.connection = a.connection
      /\ b.queue = a.queue /\ b.conns = a.conns /\ b.connected = a.connected
  BY <1>2, <1>3 DEF Client
<1>5. u = [b EXCEPT !.timers = 1]
  <2>1. u = [b EXCEPT !.timers = @ + 1]
    BY <1>1, <1>2, <1>3 DEF Retry, Client
  <2>2. b.timers + 1 = 1
    BY <1>4
  <2>3. QED
    BY <2>1, <2>2
<1>6. 1 \in 0..MaxConnects
  BY <1>3, ClientAssumption DEF Client
<1>7. u \in Client
  BY <1>4, <1>5, <1>6 DEF Client
<1>8. u.timers = 1
  BY <1>4, <1>5 DEF Client
<1>9. /\ u.calls = 1 /\ u.state = "disconnected"
      /\ u.open = a.open /\ u.broken = a.broken /\ u.stopped = a.stopped /\ u.channel = a.channel
      /\ u.watched = a.watched /\ u.connection = a.connection
      /\ u.queue = a.queue /\ u.conns = a.conns /\ u.connected = a.connected
  BY <1>4, <1>5 DEF Client
<1>10. QED
  BY <1>1, <1>7, <1>8, <1>9, SocketClosed

(* An attempt gets under way, fails and is to be repeated, or has failed.  *)
LEMMA AttemptIsGood ==
  ASSUME TwoDescriptors, NEW x \in Descriptors \cup {0}, NEW s, MayStart(s, x), NEW t \in Connect(s)
  PROVE  Good(t, FALSE, x) /\ t.queue = s.queue /\ t.state # "connected"
<1>1. PICK r : r = NewSocket(s)
  OBVIOUS
<1>2. /\ r \in Client /\ ~r.broken /\ r.calls = 1 /\ ~r.stopped
      /\ r.channel = 0 /\ ~r.watched /\ r.timers = 0 /\ r.connection = 0
      /\ r.state = "disconnected" /\ r.queue = s.queue
      /\ r.socket \in Descriptors \ {x} /\ r.open \subseteq {x, r.socket} /\ r.socket \in r.open
      /\ r.conns[r.socket] = None
      /\ \A d \in Descriptors : r.conns[d] # None => d = x /\ d \in r.open
      /\ x # 0 => IsDown(r.conns[x]) /\ x \in r.open
  BY SMTT(60), <1>1, SocketOpened
<1>3. \/ t = Connecting(r) \/ t = Retry(r)
      \/ t = [CloseSocket(r) EXCEPT !.gaveUp = TRUE] \/ t = [r EXCEPT !.gaveUp = TRUE]
  BY <1>1 DEF Connect
<1>4. r.socket # 0
  BY <1>2, ClientAssumption
<1>5. CASE t = Connecting(r)
  <2>1. t = [r EXCEPT !.state = "connecting", !.channel = r.socket, !.watched = TRUE]
    BY <1>2, <1>5 DEF Connecting
  <2>2. /\ t \in Client /\ t.state = "connecting" /\ t.channel = r.socket /\ t.watched
        /\ t.broken = r.broken /\ t.calls = r.calls /\ t.stopped = r.stopped /\ t.socket = r.socket
        /\ t.timers = r.timers /\ t.connection = r.connection
        /\ t.queue = r.queue /\ t.conns = r.conns /\ t.open = r.open
    BY <1>2, <2>1 DEF Client
  <2>3. QED
    BY <1>2, <1>4, <2>2 DEF Good
<1>6. CASE t = Retry(r)
  <2>1. /\ t \in Client /\ t.open = r.open \ {r.socket}
        /\ t.state = "disconnected" /\ t.timers = 1
        /\ t.broken = r.broken /\ t.calls = 1 /\ t.stopped = r.stopped /\ t.channel = r.channel
        /\ t.watched = r.watched /\ t.connection = r.connection
        /\ t.queue = r.queue /\ t.conns = r.conns
    BY <1>2, <1>6, Retried
  <2>2. QED
    BY <1>2, <2>1 DEF Good
<1>7. CASE t = [r EXCEPT !.gaveUp = TRUE]
  <2>1. /\ t \in Client /\ t.state = r.state /\ t.channel = r.channel /\ t.watched = r.watched
        /\ t.broken = r.broken /\ t.calls = r.calls /\ t.stopped = r.stopped
        /\ t.timers = r.timers /\ t.connection = r.connection
        /\ t.queue = r.queue /\ t.conns = r.conns /\ t.open = r.open
    BY <1>2, <1>7 DEF Client
  <2>2. QED
    BY <1>2, <2>1 DEF Good
<1>8. CASE t = [CloseSocket(r) EXCEPT !.gaveUp = TRUE]
  <2>1. PICK u : u = CloseSocket(r)
    OBVIOUS
  <2>2. /\ u \in Client /\ u.open = r.open \ {r.socket}
        /\ u.broken = r.broken /\ u.calls = r.calls /\ u.stopped = r.stopped /\ u.channel = r.channel
        /\ u.watched = r.watched /\ u.timers = r.timers /\ u.connection = r.connection
        /\ u.state = r.state /\ u.queue = r.queue /\ u.conns = r.conns
    BY <1>2, <2>1, SocketClosed
  <2>3. /\ t \in Client /\ t.state = u.state /\ t.channel = u.channel /\ t.watched = u.watched
        /\ t.broken = u.broken /\ t.calls = u.calls /\ t.stopped = u.stopped
        /\ t.timers = u.timers /\ t.connection = u.connection
        /\ t.queue = u.queue /\ t.conns = u.conns /\ t.open = u.open
    BY <1>8, <2>1, <2>2 DEF Client
  <2>4. QED
    BY <1>2, <2>2, <2>3 DEF Good
<1>9. QED
  BY <1>3, <1>5, <1>6, <1>7, <1>8

-----------------------------------------------------------------------------
(***************************************************************************)
(* The queue.                                                              *)
(***************************************************************************)
LEMMA AppendToOne ==
  ASSUME NEW S, NEW a \in S, NEW b \in S
  PROVE  Append(<<a>>, b) = <<a, b>>
<1>1. PICK t : t = Append(<<a>>, b)
  OBVIOUS
<1>2. PICK u : u = <<a, b>>
  OBVIOUS
<1>3. t \in Seq(S) /\ Len(t) = 2 /\ t[1] = a /\ t[2] = b
  BY <1>1
<1>4. u \in Seq(S) /\ Len(u) = 2 /\ u[1] = a /\ u[2] = b
  BY <1>2
<1>5. \A i \in 1..2 : t[i] = u[i]
  BY <1>3, <1>4
<1>6. t = u
  BY <1>3, <1>4, <1>5, SeqEqual
<1>7. QED
  BY <1>1, <1>2, <1>6

LEMMA FunctorsTyped == Reset \in Functors /\ \A x \in Descriptors \cup {0} : Destroy(x) \in Functors
BY DEF Reset, Destroy, Functors

LEMMA PendingGrows ==
  /\ Append(Pending(FALSE, 0), Reset) = Pending(TRUE, 0)
  /\ \A r \in BOOLEAN, d \in Descriptors : Append(Pending(r, 0), Destroy(d)) = Pending(r, d)
<1>1. Append(Pending(FALSE, 0), Reset) = Pending(TRUE, 0)
  BY DEF Pending
<1>2. ASSUME NEW r \in BOOLEAN, NEW d \in Descriptors
      PROVE  Append(Pending(r, 0), Destroy(d)) = Pending(r, d)
  <2>1. d # 0
    BY ClientAssumption
  <2>2. CASE r
    <3>1. Append(<<Reset>>, Destroy(d)) = <<Reset, Destroy(d)>>
      BY FunctorsTyped, AppendToOne
    <3>2. QED
      BY <2>1, <2>2, <3>1 DEF Pending
  <2>3. CASE ~r
    BY <2>1, <2>3 DEF Pending
  <2>4. QED
    BY <2>2, <2>3
<1>3. QED
  BY <1>1, <1>2

LEMMA PendingShrinks ==
  ASSUME NEW r \in BOOLEAN, NEW x \in Descriptors \cup {0}, Pending(r, x) # <<>>
  PROVE  \/ r /\ Head(Pending(r, x)) = Reset /\ Tail(Pending(r, x)) = Pending(FALSE, x)
         \/ ~r /\ x # 0 /\ Head(Pending(r, x)) = Destroy(x) /\ Tail(Pending(r, x)) = Pending(FALSE, 0)
<1>1. CASE r /\ x = 0
  BY <1>1 DEF Pending
<1>2. CASE r /\ x # 0
  BY <1>2 DEF Pending
<1>3. CASE ~r /\ x # 0
  BY <1>3 DEF Pending
<1>4. QED
  BY <1>1, <1>2, <1>3 DEF Pending

LEMMA PendingIsTyped ==
  ASSUME NEW r \in BOOLEAN, NEW x \in Descriptors \cup {0}
  PROVE  Pending(r, x) \in Seq(Functors)
BY FunctorsTyped DEF Pending

(* What u has in common with s: of the connector, and of the client.       *)
SameConnector(u, s) ==
  /\ u.state = s.state /\ u.socket = s.socket /\ u.channel = s.channel
  /\ u.watched = s.watched /\ u.timers = s.timers

SameClient(u, s) ==
  /\ u.connection = s.connection /\ u.conns = s.conns /\ u.open = s.open
  /\ u.broken = s.broken /\ u.calls = s.calls /\ u.stopped = s.stopped

LEMMA Pushed ==
  ASSUME NEW s \in Client, NEW fn, NEW d, <<fn, d>> \in Functors, NEW u, u = Push(s, fn, d)
  PROVE  /\ u \in Client /\ SameConnector(u, s) /\ SameClient(u, s)
         /\ u.connected = s.connected /\ u.retry = s.retry /\ u.queue = Append(s.queue, <<fn, d>>)
<1>1. PICK q : q = Append(s.queue, <<fn, d>>)
  OBVIOUS
<1>2. q \in Seq(Functors)
  BY <1>1 DEF Client
<1>3. u = [s EXCEPT !.queue = q]
  BY <1>1 DEF Push, Client
<1>4. QED
  BY <1>1, <1>2, <1>3 DEF Client, SameConnector, SameClient

(* The members that say what the user wants do not matter much.            *)
LEMMA UserMembers ==
  ASSUME NEW r, NEW x, NEW s, Good(s, r, x), NEW u \in Client, SameConnector(u, s), SameClient(u, s),
         u.connected => s.connected
  PROVE  Good(u, r, x)
BY DEF Good, SameConnector, SameClient

(* The channel of an attempt that is under way is disabled, and forgotten  *)
(* later.                                                                  *)
LEMMA ChannelRemoved ==
  ASSUME NEW s \in Client, NEW u, u = RemoveAndResetChannel(s)
  PROVE  /\ u \in Client /\ ~u.watched /\ u.queue = Append(s.queue, Reset) /\ SameClient(u, s)
         /\ u.state = s.state /\ u.socket = s.socket /\ u.channel = s.channel /\ u.timers = s.timers
         /\ u.connected = s.connected /\ u.retry = s.retry
<1>1. PICK a : a = [s EXCEPT !.watched = FALSE]
  OBVIOUS
<1>2. /\ a \in Client /\ ~a.watched /\ SameClient(a, s) /\ a.queue = s.queue
      /\ a.state = s.state /\ a.socket = s.socket /\ a.channel = s.channel /\ a.timers = s.timers
      /\ a.connected = s.connected /\ a.retry = s.retry
  BY <1>1 DEF Client, SameClient
<1>3. u = Push(a, "resetChannel", 0) /\ Reset \in Functors
  BY <1>1 DEF RemoveAndResetChannel, Reset, Functors
<1>4. QED
  BY SMTT(60), <1>2, <1>3, Pushed DEF SameConnector, SameClient, Reset

LEMMA AttemptStopped ==
  ASSUME NEW r \in BOOLEAN, NEW x \in Descriptors \cup {0},
         NEW s, Good(s, r, x), s.queue = Pending(r, x), s.watched => x = 0, NEW t, t = StopInLoop(s)
  PROVE  \E r2 \in BOOLEAN : 
           /\ Good(t, r2, x) /\ t.queue = Pending(r2, x) /\ ~t.watched /\ SameClient(t, s)
           /\ t.timers = s.timers /\ (t.state = s.state \/ t.state = "disconnected")
           /\ t.connected = s.connected /\ (s.timers > 0 => r2 = r)
<1>1. CASE s.state = "connecting"
  <2>1. PICK a : a = [s EXCEPT !.state = "disconnected"]
    OBVIOUS
  <2>2. /\ a \in Client /\ a.state = "disconnected" /\ a.socket = s.socket /\ a.channel = s.channel
        /\ a.watched = s.watched /\ a.timers = s.timers /\ SameClient(a, s) /\ a.queue = s.queue
        /\ a.connected = s.connected
    BY <2>1 DEF Good, Client, SameClient
  <2>3. t = RemoveAndResetChannel(a)
    BY <1>1, <2>1 DEF StopInLoop
  <2>4. s.watched /\ x = 0 /\ r = FALSE /\ s.timers = 0
    BY <1>1 DEF Good
  <2>5. t.queue = Pending(TRUE, x)
    <3>1. t.queue = Append(s.queue, Reset)
      BY <2>2, <2>3, ChannelRemoved
    <3>2. s.queue = Pending(FALSE, 0)
      BY <2>4
    <3>3. t.queue = Pending(TRUE, 0)
      BY <3>1, <3>2, PendingGrows
    <3>4. QED
      BY <2>4, <3>3
  <2>6. /\ t \in Client /\ ~t.watched /\ SameClient(t, s)
        /\ t.state = "disconnected" /\ t.socket = s.socket /\ t.channel = s.channel /\ t.timers = s.timers
        /\ t.connected = s.connected
    BY <2>2, <2>3, ChannelRemoved DEF SameClient
  <2>7. Good(t, TRUE, x)
    BY <2>4, <2>6 DEF Good, SameClient
  <2>8. /\ Good(t, TRUE, x) /\ t.queue = Pending(TRUE, x) /\ ~t.watched /\ SameClient(t, s)
        /\ t.timers = s.timers /\ t.state = "disconnected"
        /\ t.connected = s.connected /\ ~(s.timers > 0)
    <3>1. ~(s.timers > 0)
      BY <2>4
    <3>2. QED
      BY <2>5, <2>6, <2>7, <3>1
  <2>9. QED
    BY <2>8
<1>2. CASE s.state # "connecting"
  BY <1>2 DEF StopInLoop, Good, SameClient
<1>3. QED
  BY <1>1, <1>2

LEMMA AttemptFailed ==
  ASSUME NEW r \in BOOLEAN, NEW s, Good(s, r, 0), s.queue = Pending(r, 0), s.state = "connecting",
         NEW t, t = Retry(RemoveAndResetChannel(s))
  PROVE  Good(t, TRUE, 0) /\ t.queue = Pending(TRUE, 0) /\ t.state = "disconnected" /\ t.timers = 1
<1>1. s \in Client /\ s.watched /\ r = FALSE /\ s.timers = 0 /\ s.calls = 1 /\ ~s.stopped
  BY DEF Good
<1>2. PICK a : a = RemoveAndResetChannel(s)
  OBVIOUS
<1>3. /\ a \in Client /\ ~a.watched /\ a.queue = Append(s.queue, Reset) /\ SameClient(a, s)
      /\ a.state = s.state /\ a.socket = s.socket /\ a.channel = s.channel /\ a.timers = s.timers
  BY <1>1, <1>2, ChannelRemoved
<1>4. a.queue = Pending(TRUE, 0)
  BY <1>1, <1>3, PendingGrows
<1>5. a \in Client /\ a.calls = 1 /\ a.timers = 0 /\ t = Retry(a)
  BY <1>1, <1>2, <1>3 DEF SameClient
<1>6. /\ t \in Client /\ t.open = a.open \ {a.socket}
      /\ t.state = "disconnected" /\ t.timers = 1
      /\ t.broken = a.broken /\ t.calls = 1 /\ t.stopped = a.stopped /\ t.channel = a.channel
      /\ t.watched = a.watched /\ t.connection = a.connection
      /\ t.queue = a.queue /\ t.conns = a.conns
  BY <1>5, Retried
<1>7. t.open = s.open \ {s.socket} /\ t.conns = s.conns /\ t.connection = s.connection /\ t.channel = s.channel
      /\ ~t.watched /\ ~t.stopped /\ ~t.broken
  BY <1>1, <1>3, <1>6 DEF SameClient, Good
<1>8. t.open = {} /\ t.connection = 0 /\ \A d \in Descriptors : t.conns[d] = None
  <2>1. s.connection = 0 /\ \A d \in s.open : d = 0 \/ d = s.socket
    BY <1>1 DEF Good
  <2>2. s.open \subseteq Descriptors /\ 0 \notin Descriptors
    BY <1>1, ClientAssumption DEF Client
  <2>3. \A d \in Descriptors : s.conns[d] # None => d \in {s.connection, 0}
    BY DEF Good
  <2>4. QED
    BY <1>7, <2>1, <2>2, <2>3
<1>9. Good(t, TRUE, 0)
  BY <1>1, <1>6, <1>7, <1>8 DEF Good
<1>10. QED
  BY <1>3, <1>6, <1>9, <1>4

-----------------------------------------------------------------------------
(***************************************************************************)
(* The client.  Where its connection is lost, the functor that destroys it *)
(* is queued, and an attempt is made if it is to be retried.               *)
(***************************************************************************)
LEMMA ConnectionRemoved ==
  ASSUME TwoDescriptors, NEW r \in BOOLEAN, NEW d \in Descriptors, NEW s, Good(s, r, 0), s.connection = d,
         s.queue = Pending(r, 0), NEW c, IsDown(c),
         NEW u \in Client, SameConnector(u, s), u.conns = [s.conns EXCEPT ![d] = c], u.open = s.open,
         u.connection = d, ~u.broken, u.calls = 1, u.stopped = s.stopped, u.queue = s.queue,
         u.connected => ~r /\ s.connected,
         NEW t \in RemoveConnection(u, d)
  PROVE  /\ Good(t, r, d) /\ t.queue = Pending(r, d) /\ t.connection = 0
         /\ ~u.connected => /\ ~t.connected /\ ~t.watched /\ t.connection = 0 /\ t.timers = 0
                            /\ t.state = s.state
<1>1. PICK v : v = [u EXCEPT !.connection = 0]
  OBVIOUS
<1>2. /\ v \in Client /\ v.connection = 0 /\ SameConnector(v, u) /\ v.conns = u.conns /\ v.open = u.open
      /\ v.broken = u.broken /\ v.calls = u.calls /\ v.stopped = u.stopped /\ v.queue = u.queue
      /\ v.connected = u.connected /\ v.retry = u.retry
  BY <1>1 DEF Client, SameConnector
<1>3. PICK w : w = Push(v, "destroyed", d)
  OBVIOUS
<1>4. Destroy(d) = <<"destroyed", d>> /\ Destroy(d) \in Functors
  BY FunctorsTyped DEF Destroy
<1>5. /\ w \in Client /\ SameConnector(w, v) /\ SameClient(w, v)
      /\ w.connected = v.connected /\ w.retry = v.retry /\ w.queue = Append(v.queue, Destroy(d))
  BY <1>2, <1>3, <1>4, Pushed
<1>6. w.queue = Pending(r, d)
  BY <1>2, <1>5, PendingGrows
<1>7. d # 0 /\ s.state = "connected" /\ ~s.watched /\ s.timers = 0 /\ ~s.broken
  <2>1. d # 0 /\ s.timers \in Nat
    BY ClientAssumption DEF Good, Client
  <2>2. s.state = "connected" /\ ~s.watched /\ ~s.broken /\ ~(s.timers > 0)
    BY <2>1 DEF Good
  <2>3. QED
    BY <2>1, <2>2
<1>8. /\ w.connection = 0 /\ ~w.watched /\ w.timers = 0 /\ w.state = "connected" /\ ~w.broken
      /\ w.calls = 1 /\ w.channel = s.channel /\ w.stopped = s.stopped /\ w.open = s.open
      /\ w.conns = [s.conns EXCEPT ![d] = c] /\ w.connected = u.connected
  BY <1>2, <1>5, <1>7 DEF SameConnector, SameClient
<1>9. s.conns \in [Descriptors -> Connection \cup {None}] /\ s.open \subseteq Descriptors
  BY DEF Good, Client
<1>10. /\ IsDown(w.conns[d]) /\ d \in w.open
       /\ \A e \in Descriptors : w.conns[e] # None => e = d
       /\ w.open \subseteq {d}
  <2>1. s.conns[d] # None
    BY <1>7, NoneIsNone DEF Good
  <2>2. s.watched \/ s.connection # 0
    BY <1>7
  <2>3. /\ d \in s.open /\ \A e \in Descriptors : s.conns[e] # None => e \in {d, 0}
        /\ \A e \in s.open : e = d \/ e = 0
    BY <1>7, <2>1, <2>2 DEF Good
  <2>4. 0 \notin Descriptors
    BY ClientAssumption
  <2>5. QED
    BY <1>8, <1>9, <2>3, <2>4
<1>11. CASE w.retry /\ w.connected
  <2>1. t \in Restart(w)
    BY <1>1, <1>3, <1>11 DEF RemoveConnection
  <2>2. PICK z : z = [w EXCEPT !.state = "disconnected"]
    OBVIOUS
  <2>3. /\ z \in Client /\ z.state = "disconnected" /\ SameClient(z, w) /\ z.queue = w.queue
        /\ z.watched = w.watched /\ z.timers = w.timers /\ z.channel = w.channel
    BY <1>5, <2>2 DEF Client, SameClient
  <2>4. u.connected /\ ~r /\ s.connected
    BY <1>8, <1>11
  <2>5. s.channel = 0 /\ ~s.stopped
    BY <1>7, <2>4 DEF Good
  <2>6. MayStart(z, d)
    BY <1>8, <1>10, <2>3, <2>5 DEF MayStart, SameClient
  <2>7. t \in Connect(z)
    BY <2>1, <2>2, <2>3 DEF Restart, StartInLoop
  <2>8. Good(t, FALSE, d) /\ t.queue = z.queue /\ t.state # "connected"
    BY ZenonT(60), <2>6, <2>7, AttemptIsGood
  <2>9. t.connection = 0
    BY <2>8 DEF Good
  <2>10. QED
    BY <1>6, <2>3, <2>4, <2>8, <2>9
<1>12. CASE ~(w.retry /\ w.connected)
  <2>1. t = w
    BY <1>1, <1>3, <1>12 DEF RemoveConnection
  <2>2. r <=> s.channel # 0
    BY <1>7 DEF Good
  <2>3. s.stopped => ~s.connected
    BY DEF Good
  <2>4. Good(w, r, d)
    BY <1>5, <1>7, <1>8, <1>10, <2>2, <2>3 DEF Good
  <2>5. QED
    BY <1>6, <1>7, <1>8, <2>1, <2>4
<1>13. QED
  BY <1>11, <1>12

(* handleClose, of a connection that was up, or is being forced to close.  *)
LEMMA ConnectionClosed ==
  ASSUME TwoDescriptors, NEW r \in BOOLEAN, NEW d \in Descriptors, NEW s, Good(s, r, 0), s.connection = d,
         s.queue = Pending(r, 0), ~r \/ ~s.connected,
         NEW p \in Client, SameConnector(p, s), p.open = s.open,
         \A e \in Descriptors : e # d => p.conns[e] = s.conns[e],
         IsDown(Closed(p.conns[d])),
         p.connection = d, p.broken = s.broken, p.calls = s.calls, p.stopped = s.stopped, p.queue = s.queue,
         p.connected = s.connected,
         NEW t \in HandleClose(p, d)
  PROVE  /\ Good(t, r, d) /\ t.queue = Pending(r, d) /\ t.connection = 0
         /\ ~s.connected => /\ ~t.connected /\ ~t.watched /\ t.connection = 0 /\ t.timers = 0
                            /\ t.state = s.state
<1>1. PICK wanted \in {p.connected, FALSE} :
        t \in RemoveConnection([p EXCEPT !.conns[d] = Closed(@), !.connected = wanted,
                                         !.due = wanted /\ p.retry], d)
  BY DEF HandleClose
<1>2. p.connected \in BOOLEAN /\ p.retry \in BOOLEAN /\ p.conns \in [Descriptors -> Connection \cup {None}]
  BY DEF Client
<1>3. PICK due \in BOOLEAN : due = (wanted /\ p.retry)
  OBVIOUS
<1>4. PICK c : c = Closed(p.conns[d])
  OBVIOUS
<1>5. PICK conns : conns = [p.conns EXCEPT ![d] = c]
  OBVIOUS
<1>6. conns \in [Descriptors -> Connection \cup {None}]
  BY <1>2, <1>4, <1>5 DEF IsDown
<1>7. PICK u : u = [p EXCEPT !.conns = conns, !.connected = wanted, !.due = due]
  OBVIOUS
<1>8. wanted \in BOOLEAN
  BY <1>1, <1>2
<1>9. u = [p EXCEPT !.conns[d] = Closed(@), !.connected = wanted, !.due = wanted /\ p.retry]
  BY <1>3, <1>4, <1>5, <1>7 DEF Client
<1>10. /\ u \in Client /\ SameConnector(u, p) /\ u.conns = conns /\ u.open = p.open
       /\ u.connection = d /\ u.broken = p.broken /\ u.calls = p.calls /\ u.stopped = p.stopped
       /\ u.queue = p.queue /\ u.connected = wanted
  BY ZenonT(60), <1>3, <1>6, <1>7, <1>8 DEF Client, SameConnector
<1>11. conns = [s.conns EXCEPT ![d] = c]
  <2>1. s.conns \in [Descriptors -> Connection \cup {None}]
    BY DEF Good, Client
  <2>2. QED
    BY <1>2, <1>5, <2>1
<1>12. t \in RemoveConnection(u, d)
  BY <1>1, <1>9
<1>13. u.connected => ~r /\ s.connected
  BY <1>1, <1>10
<1>14. SameConnector(u, s) /\ ~u.broken /\ u.calls = 1 /\ IsDown(c)
  BY <1>4, <1>10 DEF SameConnector, Good
<1>15. /\ Good(t, r, d) /\ t.queue = Pending(r, d) /\ t.connection = 0
       /\ ~u.connected => /\ ~t.connected /\ ~t.watched /\ t.connection = 0 /\ t.timers = 0
                          /\ t.state = s.state
  BY <1>10, <1>11, <1>12, <1>13, <1>14, ConnectionRemoved
<1>16. QED
  BY <1>13, <1>15

(* disconnect() half-closes a connection that is up.                       *)
LEMMA ConnectionShutDown ==
  ASSUME NEW r \in BOOLEAN, NEW x \in Descriptors \cup {0}, NEW s, Good(s, r, x), NEW t, t = Disconnect(s)
  PROVE  Good(t, r, x) /\ t.queue = s.queue /\ SameConnector(t, s) /\ t.connection = s.connection
<1>1. PICK a : a = [s EXCEPT !.connected = FALSE, !.due = FALSE]
  OBVIOUS
<1>2. a \in Client /\ SameConnector(a, s) /\ SameClient(a, s) /\ a.queue = s.queue /\ ~a.connected
  BY <1>1 DEF Good, Client, SameConnector, SameClient
<1>3. Good(a, r, x)
  BY <1>2, UserMembers
<1>4. CASE s.connection # 0 /\ MayShutdown(s.conns[s.connection])
  <2>1. PICK d \in Descriptors : d = s.connection
    BY <1>4 DEF Good, Client
  <2>2. PICK c : c = ShutDown(ShutdownStore(s.conns[d]))
    OBVIOUS
  <2>3. IsUp(c) /\ c.state = "disconnected" /\ c \in Connection
    <3>1. IsUp(s.conns[d])
      BY <1>4, <2>1 DEF Good
    <3>2. QED
      BY <2>2, <3>1, UpConnection DEF IsUp
  <2>4. a.conns \in [Descriptors -> Connection \cup {None}] /\ a.conns = s.conns
    BY <1>2 DEF Client, SameClient
  <2>5. PICK conns : conns = [a.conns EXCEPT ![d] = c]
    OBVIOUS
  <2>6. conns \in [Descriptors -> Connection \cup {None}]
    BY <2>3, <2>4, <2>5
  <2>7. t = [a EXCEPT !.conns = conns]
    BY <1>1, <1>2, <1>4, <2>1, <2>2, <2>4, <2>5 DEF Disconnect, Client
  <2>8. /\ t \in Client /\ SameConnector(t, a) /\ t.conns = conns /\ t.open = a.open
        /\ t.connection = a.connection /\ t.broken = a.broken /\ t.calls = a.calls
        /\ t.stopped = a.stopped /\ t.queue = a.queue /\ t.connected = a.connected
    BY <1>2, <2>6, <2>7 DEF Client, SameConnector
  <2>9. s.conns[d] # None
    BY <1>4, <2>1, NoneIsNone DEF Good
  <2>10. \A e \in Descriptors : conns[e] = IF e = d THEN c ELSE s.conns[e]
    BY <2>4, <2>5
  <2>11. x # 0 => x # d
    BY <1>4, <2>1 DEF Good, IsUp, IsDown
  <2>12. /\ IsUp(t.conns[d]) /\ t.conns[d].state # "connected"
         /\ x # 0 => IsDown(t.conns[x])
         /\ \A e \in Descriptors : t.conns[e] # None => s.conns[e] # None
    BY <2>3, <2>8, <2>9, <2>10, <2>11 DEF Good
  <2>13. SameConnector(t, s) /\ t.connection = d /\ t.queue = s.queue /\ s.state = "connected"
         /\ t.open = s.open /\ ~t.broken /\ t.calls = 1 /\ t.stopped = s.stopped /\ ~t.connected
    BY <1>2, <1>4, <2>1, <2>8 DEF Good, SameConnector, SameClient
  <2>14. Good(t, r, x)
    BY <1>4, <2>1, <2>8, <2>12, <2>13 DEF Good, SameConnector
  <2>15. QED
    BY <2>1, <2>13, <2>14
<1>5. CASE ~(s.connection # 0 /\ MayShutdown(s.conns[s.connection]))
  <2>1. t = a
    BY <1>1, <1>5 DEF Disconnect
  <2>2. QED
    BY <1>2, <1>3, <2>1 DEF SameClient
<1>6. QED
  BY <1>4, <1>5

(***************************************************************************)
(* What a call of the user's leaves: no connection that is lost and no     *)
(* attempt that was not there, and the timer is left alone.                *)
(***************************************************************************)
CallLeaves(s, r, x, t, r2, x2) ==
  /\ Good(t, r2, x2) /\ t.queue = Pending(r2, x2)
  /\ x2 # 0 => ~t.watched /\ t.connection = 0
  /\ t.timers = s.timers
  /\ s.timers > 0 => r2 = r /\ x2 = x
  /\ s.connection = 0 /\ s.state # "connected" =>
       t.connection = 0 /\ t.state # "connected" /\ x2 = x
  /\ t.connection # 0 => t.connection = s.connection /\ r2 = r /\ x2 = x

LEMMA StopLeaves ==
  ASSUME TwoDescriptors, NEW r \in BOOLEAN, NEW x \in Descriptors \cup {0}, NEW s, Good(s, r, x),
         s.queue = Pending(r, x), x # 0 => ~s.watched /\ s.connection = 0, NEW t \in Stop(s)
  PROVE  \E r2 \in BOOLEAN, x2 \in Descriptors \cup {0} : CallLeaves(s, r, x, t, r2, x2)
<1>1. PICK a : a = [s EXCEPT !.connected = FALSE]
  OBVIOUS
<1>2. /\ a \in Client /\ SameConnector(a, s) /\ SameClient(a, s) /\ a.queue = s.queue /\ ~a.connected
      /\ a.connected \in BOOLEAN
  BY <1>1 DEF Good, Client, SameConnector, SameClient
<1>3. Good(a, r, x)
  BY <1>2, UserMembers
<1>4. PICK b \in ForceClose(a, s.connection) :
        t = [StopInLoop(b) EXCEPT !.stopped = Covered(s), !.due = FALSE]
  BY <1>1 DEF Stop
<1>5. s.timers \in Nat
  BY ClientAssumption DEF Good, Client
<1>6. \E y \in Descriptors \cup {0} :
        /\ Good(b, r, y) /\ b.queue = Pending(r, y) /\ b.timers = s.timers /\ ~b.connected
        /\ b.state = s.state
        /\ b.connection # 0 => b.conns[b.connection].state # "connected"
        /\ y # 0 => ~b.watched /\ b.connection = 0
        /\ s.connection = 0 => y = x /\ b.connection = 0
        /\ s.timers > 0 => y = x
        /\ b.connection # 0 => b.connection = s.connection
  <2>1. CASE s.connection # 0 /\ MayForceClose(a.conns[s.connection])
    <3>1. PICK d \in Descriptors : d = s.connection
      BY <2>1 DEF Good, Client
    <3>2. PICK p : p = [a EXCEPT !.conns[d] = ForceCloseStore(@)]
      OBVIOUS
    <3>3. b \in HandleClose(p, d)
      BY <1>4, <2>1, <3>1, <3>2 DEF ForceClose
    <3>4. a.conns \in [Descriptors -> Connection \cup {None}] /\ a.conns = s.conns
      BY <1>2 DEF Client, SameClient
    <3>5. IsUp(a.conns[d])
      BY <2>1, <3>1, <3>4 DEF Good
    <3>6. PICK c : c = ForceCloseStore(a.conns[d])
      OBVIOUS
    <3>7. c \in Connection /\ IsDown(Closed(c))
      <4>1. IsDown(Closed(c))
        BY <3>5, <3>6, UpConnection
      <4>2. a.conns[d] \in Connection
        BY <3>5 DEF IsUp
      <4>3. QED
        BY <3>6, <4>1, <4>2 DEF ForceCloseStore, Connection, States
    <3>8. PICK conns : conns = [a.conns EXCEPT ![d] = c]
      OBVIOUS
    <3>9. /\ conns \in [Descriptors -> Connection \cup {None}] /\ conns[d] = c
          /\ \A e \in Descriptors : e # d => conns[e] = a.conns[e]
      BY <3>4, <3>7, <3>8
    <3>10. p = [a EXCEPT !.conns = conns]
      BY <1>2, <3>2, <3>6, <3>8 DEF Client
    <3>11. /\ p \in Client /\ SameConnector(p, a) /\ p.conns = conns /\ p.open = a.open
           /\ p.connection = a.connection /\ p.broken = a.broken /\ p.calls = a.calls
           /\ p.stopped = a.stopped /\ p.queue = a.queue /\ p.connected = a.connected
      BY <1>2, <3>9, <3>10 DEF Client, SameConnector
    <3>12. x = 0
      BY <2>1
    <3>13. Good(a, r, 0) /\ a.queue = Pending(r, 0) /\ a.connection = d
      BY <1>2, <1>3, <3>1, <3>12 DEF SameClient
    <3>14. /\ Good(b, r, d) /\ b.queue = Pending(r, d)
           /\ ~b.connected /\ ~b.watched /\ b.connection = 0 /\ b.timers = 0 /\ b.state = a.state
      BY <1>2, <3>3, <3>7, <3>9, <3>11, <3>13, ConnectionClosed
    <3>15. s.timers = 0
      BY <1>5, <2>1 DEF Good
    <3>16. QED
      BY <1>2, <2>1, <3>14, <3>15 DEF SameConnector
  <2>2. CASE ~(s.connection # 0 /\ MayForceClose(a.conns[s.connection]))
    <3>1. b = a
      BY <1>4, <2>2 DEF ForceClose
    <3>2. s.connection # 0 => a.conns[s.connection].state # "connected"
      BY <2>2 DEF MayForceClose
    <3>3. QED
      BY <1>2, <1>3, <3>1, <3>2 DEF SameConnector, SameClient
  <2>3. QED
    BY <2>1, <2>2
<1>7. PICK y \in Descriptors \cup {0} :
        /\ Good(b, r, y) /\ b.queue = Pending(r, y) /\ b.timers = s.timers /\ ~b.connected
        /\ b.state = s.state
        /\ b.connection # 0 => b.conns[b.connection].state # "connected"
        /\ y # 0 => ~b.watched /\ b.connection = 0
        /\ s.connection = 0 => y = x /\ b.connection = 0
        /\ s.timers > 0 => y = x
        /\ b.connection # 0 => b.connection = s.connection
  BY <1>6
<1>8. PICK c : c = StopInLoop(b)
  OBVIOUS
<1>9. PICK r2 \in BOOLEAN :
        /\ Good(c, r2, y) /\ c.queue = Pending(r2, y) /\ ~c.watched /\ SameClient(c, b)
        /\ c.timers = b.timers /\ (c.state = b.state \/ c.state = "disconnected")
        /\ c.connected = b.connected /\ (b.timers > 0 => r2 = r)
  BY <1>7, <1>8, AttemptStopped
<1>10. PICK covered \in BOOLEAN : covered = Covered(s)
  BY DEF Covered
<1>11. t = [c EXCEPT !.stopped = covered, !.due = FALSE]
  BY <1>4, <1>8, <1>10
<1>12. /\ t \in Client /\ SameConnector(t, c) /\ t.connection = c.connection /\ t.conns = c.conns
       /\ t.open = c.open /\ t.broken = c.broken /\ t.calls = c.calls /\ t.stopped = covered
       /\ t.queue = c.queue /\ t.connected = c.connected
  BY <1>9, <1>11 DEF Good, Client, SameConnector
<1>13. covered => s.timers = 0
  BY <1>10 DEF Covered
<1>14. Good(t, r2, y)
  BY <1>7, <1>9, <1>12, <1>13 DEF Good, SameConnector, SameClient
<1>15. t.connection # 0 => t.connection = s.connection /\ r2 = r /\ y = x
  <2> SUFFICES ASSUME t.connection # 0 PROVE t.connection = s.connection /\ r2 = r /\ y = x
    OBVIOUS
  <2>1. b.connection # 0 /\ t.connection = s.connection /\ s.connection # 0
    BY <1>7, <1>9, <1>12 DEF SameClient
  <2>2. b.state = "connected" /\ y = 0 /\ x = 0
    BY <1>7, <2>1 DEF Good
  <2>3. c = b
    BY <1>8, <2>2 DEF StopInLoop
  <2>4. (r <=> b.channel # 0 /\ ~b.watched) /\ (r2 <=> b.channel # 0 /\ ~b.watched)
    BY <1>7, <1>9, <2>3 DEF Good
  <2>5. QED
    BY <2>1, <2>2, <2>4
<1>16. CallLeaves(s, r, x, t, r2, y)
  BY <1>7, <1>9, <1>12, <1>14, <1>15 DEF CallLeaves, SameConnector, SameClient
<1>17. QED
  BY <1>16

LEMMA CallIsGood ==
  ASSUME TwoDescriptors, NEW r \in BOOLEAN, NEW x \in Descriptors \cup {0}, NEW s, Good(s, r, x),
         s.queue = Pending(r, x), x # 0 => ~s.watched /\ s.connection = 0,
         NEW op \in Calls, NEW t \in Call(s, op)
  PROVE  \E r2 \in BOOLEAN, x2 \in Descriptors \cup {0} : CallLeaves(s, r, x, t, r2, x2)
<1>1. CASE op = "stop"
  BY <1>1, StopLeaves DEF Call
<1>2. CASE op = "disconnect"
  <2>1. t = Disconnect(s)
    BY <1>2 DEF Call
  <2>2. Good(t, r, x) /\ t.queue = s.queue /\ SameConnector(t, s) /\ t.connection = s.connection
    BY <2>1, ConnectionShutDown
  <2>3. CallLeaves(s, r, x, t, r, x)
    BY <2>2 DEF CallLeaves, SameConnector
  <2>4. QED
    BY <2>3
<1>3. CASE op = "none" \/ op = "enableRetry" \/ op = "disableRetry"
  <2>1. t = s \/ t = [s EXCEPT !.retry = TRUE] \/ t = [s EXCEPT !.retry = FALSE]
    BY <1>3 DEF Call
  <2>2. t \in Client /\ SameConnector(t, s) /\ SameClient(t, s) /\ t.queue = s.queue /\ t.connected = s.connected
    BY ZenonT(60), <2>1 DEF Good, Client, SameConnector, SameClient
  <2>3. Good(t, r, x)
    BY <2>2, UserMembers
  <2>4. CallLeaves(s, r, x, t, r, x)
    BY <2>2, <2>3 DEF CallLeaves, SameConnector, SameClient
  <2>5. QED
    BY <2>4
<1>4. QED
  BY <1>1, <1>2, <1>3 DEF Calls, UpCalls

(* A call in the round of a hang-up, of a client that has begun the next   *)
(* attempt when it handled it.                                             *)
LEMMA LateCall ==
  ASSUME NEW x \in Descriptors, NEW s, Good(s, FALSE, x), s.watched, s.queue = Pending(FALSE, x),
         NEW op \in Calls, NEW t \in Call(s, op)
  PROVE  \/ Good(t, FALSE, x) /\ t.queue = Pending(FALSE, x)
         \/ Good(t, TRUE, x) /\ t.queue = Crossed(x)
<1>1. CASE op = "stop"
  <2>1. PICK a : a = [s EXCEPT !.connected = FALSE]
    OBVIOUS
  <2>2. /\ a \in Client /\ SameConnector(a, s) /\ SameClient(a, s) /\ a.queue = s.queue /\ ~a.connected
        /\ s.connection = 0 /\ s.state = "connecting"
    BY <2>1 DEF Good, Client, SameConnector, SameClient
  <2>3. ForceClose(a, s.connection) = {a}
    BY <2>2 DEF ForceClose
  <2>4. PICK covered \in BOOLEAN : covered = Covered(s)
    BY DEF Covered
  <2>5. t = [StopInLoop(a) EXCEPT !.stopped = covered, !.due = FALSE]
    BY <1>1, <2>1, <2>3, <2>4 DEF Call, Stop
  <2>6. PICK b : b = [a EXCEPT !.state = "disconnected"]
    OBVIOUS
  <2>7. /\ b \in Client /\ b.state = "disconnected" /\ b.socket = a.socket /\ b.channel = a.channel
        /\ b.watched = a.watched /\ b.timers = a.timers /\ SameClient(b, a) /\ b.queue = a.queue
        /\ b.connected = a.connected
    BY <2>2, <2>6 DEF Client, SameClient
  <2>8. PICK c : c = RemoveAndResetChannel(b)
    OBVIOUS
  <2>9. /\ c \in Client /\ ~c.watched /\ c.queue = Append(b.queue, Reset) /\ SameClient(c, b)
        /\ c.state = "disconnected" /\ c.socket = b.socket /\ c.channel = b.channel
        /\ c.timers = b.timers /\ ~c.connected
    BY <2>2, <2>7, <2>8, ChannelRemoved
  <2>10. t = [c EXCEPT !.stopped = covered, !.due = FALSE]
    BY <2>2, <2>5, <2>6, <2>8 DEF StopInLoop, SameConnector
  <2>11. /\ t \in Client /\ SameConnector(t, c) /\ t.connection = c.connection /\ t.conns = c.conns
         /\ t.open = c.open /\ t.broken = c.broken /\ t.calls = c.calls /\ t.queue = c.queue
         /\ t.connected = c.connected
    BY <2>9, <2>10 DEF Client, SameConnector
  <2>12. t.queue = Crossed(x)
    <3>1. x # 0
      BY ClientAssumption
    <3>2. t.queue = Append(<<Destroy(x)>>, Reset)
      BY <2>2, <2>7, <2>9, <2>11, <3>1 DEF Pending
    <3>3. QED
      BY <3>2, FunctorsTyped, AppendToOne DEF Crossed
  <2>13. /\ t.state = "disconnected" /\ t.socket = s.socket /\ t.channel = s.channel /\ ~t.watched
         /\ t.timers = s.timers /\ ~t.connected
         /\ t.connection = s.connection /\ t.conns = s.conns /\ t.open = s.open
         /\ t.broken = s.broken /\ t.calls = s.calls
    BY <2>2, <2>7, <2>9, <2>11 DEF SameConnector, SameClient
  <2>14. s.timers = 0 /\ s.channel # 0
    BY DEF Good
  <2>15. Good(t, TRUE, x)
    BY <2>2, <2>11, <2>13, <2>14 DEF Good
  <2>16. QED
    BY <2>12, <2>15
<1>2. CASE op = "disconnect"
  <2>1. PICK r \in BOOLEAN : r = FALSE
    OBVIOUS
  <2>2. t = Disconnect(s) /\ Good(s, r, x)
    BY <1>2, <2>1 DEF Call
  <2>3. Good(t, r, x) /\ t.queue = s.queue
    BY <2>2, ConnectionShutDown
  <2>4. QED
    BY <2>1, <2>3
<1>3. CASE op = "none" \/ op = "enableRetry" \/ op = "disableRetry"
  <2>1. t = s \/ t = [s EXCEPT !.retry = TRUE] \/ t = [s EXCEPT !.retry = FALSE]
    BY <1>3 DEF Call
  <2>2. t \in Client /\ SameConnector(t, s) /\ SameClient(t, s) /\ t.queue = s.queue /\ t.connected = s.connected
    BY ZenonT(60), <2>1 DEF Good, Client, SameConnector, SameClient
  <2>3. Good(t, FALSE, x)
    BY <2>2, UserMembers
  <2>4. QED
    BY <2>2, <2>3
<1>4. QED
  BY <1>1, <1>2, <1>3 DEF Calls, UpCalls

(***************************************************************************)
(* What a handler leaves: functors in the order of Pending, and a          *)
(* connection that is lost only where nothing else is under way.           *)
(***************************************************************************)
Leaves(t) ==
  \E r \in BOOLEAN, x \in Descriptors \cup {0} :
    Good(t, r, x) /\ t.queue = Pending(r, x) /\ (x # 0 => ~t.watched /\ t.connection = 0)

LEMMA ConnectedLeaves ==
  ASSUME TwoDescriptors, NEW r \in BOOLEAN, NEW s, Good(s, r, 0), s.queue = Pending(r, 0), s.state = "connecting",
         NEW t \in Connected([RemoveAndResetChannel(s) EXCEPT !.state = "connected"])
  PROVE  Leaves(t)
<1>1. /\ s \in Client /\ s.watched /\ r = FALSE /\ s.timers = 0 /\ s.calls = 1 /\ ~s.stopped
      /\ s.connection = 0 /\ s.channel # 0 /\ s.channel = s.socket /\ ~s.broken
      /\ s.socket \in s.open /\ s.open \subseteq Descriptors /\ 0 \notin Descriptors
  BY ClientAssumption DEF Good, Client
<1>2. PICK a : a = RemoveAndResetChannel(s)
  OBVIOUS
<1>3. /\ a \in Client /\ ~a.watched /\ a.queue = Append(s.queue, Reset) /\ SameClient(a, s)
      /\ a.state = s.state /\ a.socket = s.socket /\ a.channel = s.channel /\ a.timers = s.timers
  BY <1>1, <1>2, ChannelRemoved
<1>4. a.queue = Pending(TRUE, 0)
  BY <1>1, <1>3, PendingGrows
<1>5. PICK b : b = [a EXCEPT !.state = "connected"]
  OBVIOUS
<1>6. /\ b \in Client /\ b.state = "connected" /\ SameClient(b, s) /\ b.queue = a.queue
      /\ b.watched = a.watched /\ b.socket = a.socket /\ b.channel = a.channel /\ b.timers = a.timers
  BY <1>3, <1>5 DEF Client, SameClient
<1>7. PICK d \in Descriptors : d = s.socket
  BY <1>1
<1>8. PICK c : c = Established(NewConnection)
  OBVIOUS
<1>9. IsUp(c) /\ c.state = "connected" /\ c \in Connection
  BY <1>8, EstablishedIsUp DEF IsUp
<1>10. PICK conns : conns = [b.conns EXCEPT ![d] = c]
  OBVIOUS
<1>11. b.conns = s.conns /\ s.conns \in [Descriptors -> Connection \cup {None}]
  BY <1>1, <1>6 DEF Client, SameClient
<1>12. /\ conns \in [Descriptors -> Connection \cup {None}]
       /\ conns[d] = c /\ \A e \in Descriptors : e # d => conns[e] = s.conns[e]
  BY <1>9, <1>10, <1>11
<1>13. PICK u : u = [b EXCEPT !.due = FALSE, !.connection = d, !.conns = conns]
  OBVIOUS
<1>14. /\ u \in Client /\ SameConnector(u, b) /\ u.connection = d /\ u.conns = conns
       /\ u.open = b.open /\ u.broken = b.broken /\ u.calls = b.calls /\ u.stopped = b.stopped
       /\ u.queue = b.queue
  BY <1>6, <1>12, <1>13 DEF Client, SameConnector
<1>15. /\ u.state = "connected" /\ ~u.watched /\ u.timers = 0 /\ u.channel # 0
       /\ u.open = s.open /\ ~u.broken /\ u.calls = 1 /\ ~u.stopped /\ u.queue = Pending(TRUE, 0)
  BY <1>1, <1>3, <1>4, <1>6, <1>14 DEF SameConnector, SameClient
<1>16. \A e \in Descriptors : s.conns[e] = None
  <2>1. \A e \in Descriptors : s.conns[e] # None => e \in {0}
    BY <1>1 DEF Good
  <2>2. QED
    BY <1>1, <2>1
<1>17. \A e \in s.open : e = d
  BY <1>1, <1>7 DEF Good
<1>18. Good(u, TRUE, 0)
  BY <1>1, <1>7, <1>9, <1>12, <1>14, <1>15, <1>16, <1>17 DEF Good
<1>19. PICK op \in UpCalls : t \in Call(u, op)
  <2>1. b.socket = d
    BY <1>3, <1>6, <1>7
  <2>2. u = [b EXCEPT !.due = FALSE, !.connection = b.socket, !.conns[b.socket] = Established(NewConnection)]
    BY <1>6, <1>8, <1>10, <1>13, <2>1 DEF Client
  <2>3. t \in Connected(b)
    BY <1>2, <1>5
  <2>4. QED
    BY <2>2, <2>3 DEF Connected
<1>20. \E r2 \in BOOLEAN, x2 \in Descriptors \cup {0} : CallLeaves(u, TRUE, 0, t, r2, x2)
  <2>1. op \in Calls
    BY DEF Calls
  <2>2. PICK r1 \in BOOLEAN, x1 \in Descriptors \cup {0} : r1 = TRUE /\ x1 = 0
    OBVIOUS
  <2>3. Good(u, r1, x1) /\ u.queue = Pending(r1, x1)
    BY <1>15, <1>18, <2>2
  <2>4. \E r2 \in BOOLEAN, x2 \in Descriptors \cup {0} : CallLeaves(u, r1, x1, t, r2, x2)
    BY <1>19, <2>1, <2>2, <2>3, CallIsGood
  <2>5. QED
    BY <2>2, <2>4
<1>21. QED
  BY <1>20 DEF CallLeaves, Leaves

(* The callbacks of the connector's channel.                               *)
LEMMA WriteLeaves ==
  ASSUME TwoDescriptors, NEW r \in BOOLEAN, NEW s, Good(s, r, 0), s.queue = Pending(r, 0),
         s.state # "connected", NEW error \in BOOLEAN, NEW t \in HandleWrite(s, error)
  PROVE  Leaves(t)
<1>1. CASE s.state = "connecting" /\ error
  <2>1. t = Retry(RemoveAndResetChannel(s))
    BY <1>1 DEF HandleWrite
  <2>2. Good(t, TRUE, 0) /\ t.queue = Pending(TRUE, 0)
    BY <1>1, <2>1, AttemptFailed
  <2>3. QED
    BY <2>2 DEF Leaves
<1>2. CASE s.state = "connecting" /\ ~error
  <2>1. t \in Connected([RemoveAndResetChannel(s) EXCEPT !.state = "connected"])
    BY <1>2 DEF HandleWrite
  <2>2. QED
    BY <1>2, <2>1, ConnectedLeaves
<1>3. CASE s.state # "connecting"
  <2>1. t = s
    BY <1>3 DEF HandleWrite
  <2>2. QED
    BY <2>1 DEF Leaves
<1>4. QED
  BY <1>1, <1>2, <1>3

LEMMA ErrorLeaves ==
  ASSUME TwoDescriptors, NEW r \in BOOLEAN, NEW s, Good(s, r, 0), s.queue = Pending(r, 0),
         s.state # "connected", NEW t \in HandleWrite(HandleError(s), FALSE)
  PROVE  Leaves(t)
<1>1. CASE s.state = "connecting"
  <2>1. PICK u : u = Retry(RemoveAndResetChannel(s))
    OBVIOUS
  <2>2. Good(u, TRUE, 0) /\ u.queue = Pending(TRUE, 0) /\ u.state = "disconnected"
    BY <1>1, <2>1, AttemptFailed
  <2>3. t \in HandleWrite(u, FALSE)
    BY <1>1, <2>1 DEF HandleError
  <2>4. QED
    BY <2>2, <2>3, WriteLeaves
<1>2. CASE s.state # "connecting"
  <2>1. t \in HandleWrite(s, FALSE)
    BY <1>2 DEF HandleError
  <2>2. QED
    BY <2>1, WriteLeaves
<1>3. QED
  BY <1>1, <1>2

(* The timer of a retry, and a hang-up that finds its connection.          *)
LEMMA TimerLeaves ==
  ASSUME TwoDescriptors, NEW s, Good(s, FALSE, 0), s.queue = Pending(FALSE, 0), s.timers = 1,
         NEW t \in StartInLoop([s EXCEPT !.timers = @ - 1])
  PROVE  Leaves(t)
<1>1. PICK a : a = [s EXCEPT !.timers = 0]
  OBVIOUS
<1>2. a = [s EXCEPT !.timers = @ - 1]
  <2>1. s.timers - 1 = 0
    OBVIOUS
  <2>2. QED
    BY <1>1, <2>1
<1>3. 0 \in 0..MaxConnects
  BY ClientAssumption
<1>4. /\ a \in Client /\ SameClient(a, s) /\ a.timers = 0 /\ a.queue = s.queue
      /\ a.state = s.state /\ a.channel = s.channel /\ a.watched = s.watched
  BY <1>1, <1>3 DEF Good, Client, SameClient
<1>5. s.timers > 0
  OBVIOUS
<1>6. /\ s.connection = 0 /\ s.state = "disconnected" /\ ~s.watched /\ s.channel = 0 /\ ~s.stopped
      /\ ~s.broken /\ s.calls = 1
  BY <1>5 DEF Good
<1>7. \A d \in s.open : d = 0
  BY <1>5, <1>6 DEF Good
<1>8. \A d \in Descriptors : s.conns[d] # None => d \in s.open
  BY DEF Good
<1>9. MayStart(a, 0)
  BY <1>4, <1>6, <1>7, <1>8 DEF MayStart, SameClient
<1>10. t \in Connect(a)
  BY <1>2, <1>4, <1>6 DEF StartInLoop
<1>11. Good(t, FALSE, 0) /\ t.queue = a.queue
  BY <1>9, <1>10, AttemptIsGood
<1>12. QED
  BY <1>4, <1>11 DEF Leaves

LEMMA HangUpLeaves ==
  ASSUME TwoDescriptors, NEW d \in Descriptors, NEW s, Good(s, FALSE, 0), s.queue = Pending(FALSE, 0),
         s.connection = d, NEW t \in HandleClose(s, d)
  PROVE  \E r \in BOOLEAN, x \in Descriptors \cup {0} :
           Good(t, r, x) /\ t.queue = Pending(r, x) /\ t.connection = 0
<1>1. IsDown(Closed(s.conns[d]))
  <2>1. d # 0
    BY ClientAssumption
  <2>2. QED
    BY <2>1, UpConnection DEF Good
<1>2. s \in Client
  BY DEF Good
<1>3. PICK r \in BOOLEAN : r = FALSE
  OBVIOUS
<1>4. Good(s, r, 0) /\ s.queue = Pending(r, 0)
  BY <1>3
<1>5. SameConnector(s, s) /\ ~r
  BY <1>3 DEF SameConnector
<1>6. Good(t, r, d) /\ t.queue = Pending(r, d) /\ t.connection = 0
  BY <1>1, <1>2, <1>4, <1>5, ConnectionClosed
<1>7. QED
  BY <1>6

-----------------------------------------------------------------------------
(***************************************************************************)
(* The steps.                                                              *)
(***************************************************************************)
LEMMA AfterEvent ==
  ASSUME phase = "events", batch = <<>>, ready' \subseteq {<<"user", 0>>}, UNCHANGED <<phase, batch>>,
         Leaves(client')
  PROVE  ClientInv'
<1>1. PICK r \in BOOLEAN, x \in Descriptors \cup {0} :
        Good(client', r, x) /\ client'.queue = Pending(r, x) /\ (x # 0 => ~client'.watched /\ client'.connection = 0)
  BY DEF Leaves
<1>2. ReadyOk(client, r, x)'
  <2>1. /\ <<"writable", 0>> \notin ready' /\ <<"error", 0>> \notin ready' /\ <<"timer", 0>> \notin ready'
        /\ \A d \in Descriptors : <<"hangUp", d>> \notin ready'
    OBVIOUS
  <2>2. QED
    BY <1>1, <2>1 DEF ReadyOk
<1>3. Placed(Pending(r, x))'
  BY <1>1 DEF Placed
<1>4. Started(r, x)'
  BY <1>1, <1>2, <1>3 DEF Started
<1>5. ready' \subseteq Events
  BY DEF Events
<1>6. QED
  BY <1>4, <1>5 DEF ClientInv

(* An event other than the user's is only handled after the start.         *)
LEMMA EventFinds ==
  ASSUME ClientInv, phase = "events", NEW e \in ready, e # <<"user", 0>>
  PROVE  /\ batch = <<>>
         /\ \E r \in BOOLEAN, x \in Descriptors \cup {0} :
              Good(client, r, x) /\ ReadyOk(client, r, x) /\ client.queue = Pending(r, x)
<1>1. ~NotStarted /\ ~StoppedLate
  BY DEF NotStarted, StoppedLate
<1>2. PICK r \in BOOLEAN, x \in Descriptors \cup {0} : Started(r, x)
  BY <1>1 DEF ClientInv
<1>3. QED
  BY <1>2 DEF Started, Placed

LEMMA ConnectorStep ==
  ASSUME TwoDescriptors, ClientInv, OnConnector
  PROVE  ClientInv'
<1>1. PICK w \in {<<"writable", 0>>, <<"error", 0>>}, error \in BOOLEAN :
        /\ phase = "events" /\ w \in ready /\ ready' = ready \ {w} /\ UNCHANGED <<phase, batch>>
        /\ client' \in HandleWrite(client, error) \/ client' \in HandleWrite(HandleError(client), FALSE)
  BY DEF OnConnector, Handle
<1>2. w # <<"user", 0>>
  OBVIOUS
<1>3. PICK r \in BOOLEAN, x \in Descriptors \cup {0} :
        batch = <<>> /\ Good(client, r, x) /\ ReadyOk(client, r, x) /\ client.queue = Pending(r, x)
  BY <1>1, <1>2, EventFinds
<1>4. x = 0 /\ client.state # "connected" /\ ready \subseteq {w, <<"user", 0>>}
  BY <1>1, <1>3 DEF ReadyOk
<1>5. Good(client, r, 0) /\ client.queue = Pending(r, 0)
  BY <1>3, <1>4
<1>6. Leaves(client')
  BY <1>1, <1>4, <1>5, WriteLeaves, ErrorLeaves
<1>7. ready' \subseteq {<<"user", 0>>}
  BY <1>1, <1>4
<1>8. QED
  BY <1>1, <1>3, <1>6, <1>7, AfterEvent

LEMMA TimerStep ==
  ASSUME TwoDescriptors, ClientInv, OnTimer
  PROVE  ClientInv'
<1>1. /\ phase = "events" /\ <<"timer", 0>> \in ready /\ ready' = ready \ {<<"timer", 0>>}
      /\ UNCHANGED <<phase, batch>> /\ client' \in StartInLoop([client EXCEPT !.timers = @ - 1])
  BY DEF OnTimer, Handle
<1>2. <<"timer", 0>> # <<"user", 0>>
  OBVIOUS
<1>3. PICK r \in BOOLEAN, x \in Descriptors \cup {0} :
        batch = <<>> /\ Good(client, r, x) /\ ReadyOk(client, r, x) /\ client.queue = Pending(r, x)
  BY <1>1, <1>2, EventFinds
<1>4. r = FALSE /\ x = 0 /\ client.timers = 1
  BY <1>1, <1>3 DEF ReadyOk
<1>5. Good(client, FALSE, 0) /\ client.queue = Pending(FALSE, 0)
  BY <1>3, <1>4
<1>6. Leaves(client')
  BY <1>1, <1>4, <1>5, TimerLeaves
<1>7. ready' \subseteq {<<"user", 0>>}
  <2>1. \A d \in Descriptors : <<"hangUp", d>> \notin ready
    BY <1>1, <1>3 DEF ReadyOk
  <2>2. <<"writable", 0>> \notin ready /\ <<"error", 0>> \notin ready
    BY <1>3, <1>4 DEF ReadyOk
  <2>3. ASSUME NEW e \in ready' PROVE e = <<"user", 0>>
    <3>1. e \in Events /\ e \in ready /\ e # <<"timer", 0>>
      BY <1>1, <2>3 DEF ClientInv
    <3>2. e \in {<<"writable", 0>>, <<"error", 0>>, <<"user", 0>>} \/ \E d \in Descriptors : e = <<"hangUp", d>>
      BY <3>1 DEF Events
    <3>3. QED
      BY <2>1, <2>2, <3>1, <3>2
  <2>4. QED
    BY <2>3
<1>8. QED
  BY <1>1, <1>3, <1>6, <1>7, AfterEvent

LEMMA HangUpStep ==
  ASSUME TwoDescriptors, ClientInv, OnHangUp
  PROVE  ClientInv'
<1>1. PICK d \in Descriptors :
        /\ phase = "events" /\ <<"hangUp", d>> \in ready /\ ready' = ready \ {<<"hangUp", d>>}
        /\ UNCHANGED <<phase, batch>> /\ client' \in HandleClose(client, d)
  BY DEF OnHangUp, Handle
<1>2. <<"hangUp", d>> # <<"user", 0>>
  OBVIOUS
<1>3. PICK r \in BOOLEAN, x \in Descriptors \cup {0} :
        batch = <<>> /\ Good(client, r, x) /\ ReadyOk(client, r, x) /\ client.queue = Pending(r, x)
  BY <1>1, <1>2, EventFinds
<1>4. r = FALSE /\ x = 0 /\ client.connection = d /\ ready' \subseteq {<<"user", 0>>}
  BY <1>1, <1>3 DEF ReadyOk
<1>5. Good(client, FALSE, 0) /\ client.queue = Pending(FALSE, 0)
  BY <1>3, <1>4
<1>6. PICK r2 \in BOOLEAN, x2 \in Descriptors \cup {0} :
        Good(client', r2, x2) /\ client'.queue = Pending(r2, x2) /\ client'.connection = 0
  BY <1>1, <1>4, <1>5, HangUpLeaves
<1>7. ReadyOk(client, r2, x2)'
  <2>1. /\ <<"writable", 0>> \notin ready' /\ <<"error", 0>> \notin ready' /\ <<"timer", 0>> \notin ready'
        /\ \A e \in Descriptors : <<"hangUp", e>> \notin ready'
    BY <1>4
  <2>2. QED
    BY <1>4, <1>6, <2>1 DEF ReadyOk
<1>8. Started(r2, x2)'
  BY <1>1, <1>3, <1>6, <1>7 DEF Started, Placed
<1>9. QED
  BY <1>1, <1>4, <1>8 DEF ClientInv, Events

(* The user's calls, before the start and after it.                        *)
LEMMA UserStepEarly ==
  ASSUME NotStarted, ClientInv, OnUser
  PROVE  ClientInv'
<1>1. PICK op \in Calls :
        /\ phase = "events" /\ ready' = ready \ {<<"user", 0>>}
        /\ UNCHANGED <<phase, batch>> /\ client' \in Call(client, op)
  BY DEF OnUser, Handle
<1>2. /\ client \in Client /\ client.state = "disconnected" /\ client.connection = 0 /\ client.timers = 0
      /\ ready' \subseteq {<<"user", 0>>} /\ batch = <<>>
  BY <1>1 DEF NotStarted
<1>3. PICK covered \in BOOLEAN : covered = Covered(client)
  BY DEF Covered
<1>4. client.queue = <<Start>> => ~covered
  <2>1. ASSUME client.queue = <<Start>>, covered PROVE FALSE
    <3>1. \A i \in DOMAIN client.queue : client.queue[i][1] # "startInLoop"
      BY <1>3, <2>1 DEF Covered
    <3>2. PICK q : q = <<Start>>
      OBVIOUS
    <3>3. 1 \in DOMAIN q /\ q[1][1] = "startInLoop"
      BY <3>2 DEF Start
    <3>4. QED
      BY <2>1, <3>1, <3>2, <3>3
  <2>2. QED
    BY <2>1
<1>5. \/ client' = client
      \/ client' = [client EXCEPT !.retry = TRUE] \/ client' = [client EXCEPT !.retry = FALSE]
      \/ client' = [client EXCEPT !.connected = FALSE, !.due = FALSE]
      \/ client' = [client EXCEPT !.connected = FALSE, !.stopped = covered, !.due = FALSE]
  <2>1. CASE op = "stop"
    <3>1. PICK a : a = [client EXCEPT !.connected = FALSE]
      OBVIOUS
    <3>2. a.connection = 0 /\ a.state = "disconnected"
      BY <1>2, <3>1 DEF Client
    <3>3. ForceClose(a, client.connection) = {a}
      BY <1>2 DEF ForceClose
    <3>4. client' = [StopInLoop(a) EXCEPT !.stopped = Covered(client), !.due = FALSE]
      BY <1>1, <2>1, <3>1, <3>3 DEF Call, Stop
    <3>5. client' = [a EXCEPT !.stopped = covered, !.due = FALSE]
      BY <1>3, <3>2, <3>4 DEF StopInLoop
    <3>6. QED
      BY <1>2, <3>1, <3>5 DEF Client
  <2>2. CASE op = "disconnect"
    <3>1. client' = Disconnect(client)
      BY <1>1, <2>2 DEF Call
    <3>2. QED
      BY <1>2, <3>1 DEF Disconnect
  <2>3. CASE op \in {"none", "enableRetry", "disableRetry"}
    BY <1>1, <2>3 DEF Call
  <2>4. QED
    BY <1>1, <2>1, <2>2, <2>3 DEF Calls, UpCalls
<1>6. /\ client' \in Client /\ SameConnector(client', client) /\ client'.queue = client.queue
      /\ client'.connection = client.connection /\ client'.conns = client.conns
      /\ client'.open = client.open /\ client'.broken = client.broken /\ client'.calls = client.calls
      /\ \/ client'.stopped = client.stopped /\ client'.connected \in {client.connected, FALSE}
         \/ client'.stopped = covered /\ client'.connected = FALSE
  <2>1. CASE client' = client
    BY <1>2, <2>1 DEF SameConnector
  <2>2. CASE client' = [client EXCEPT !.retry = TRUE] \/ client' = [client EXCEPT !.retry = FALSE]
    BY ZenonT(60), <1>2, <2>2 DEF Client, SameConnector
  <2>3. CASE client' = [client EXCEPT !.connected = FALSE, !.due = FALSE]
    BY <1>2, <2>3 DEF Client, SameConnector
  <2>4. CASE client' = [client EXCEPT !.connected = FALSE, !.stopped = covered, !.due = FALSE]
    BY <1>2, <2>4 DEF Client, SameConnector
  <2>5. QED
    BY <1>5, <2>1, <2>2, <2>3, <2>4
<1>7. \/ client.calls = 0 /\ client.queue = <<>> /\ (client'.stopped => ~client'.connected)
      \/ client.calls = 1 /\ client.queue = <<Start>> /\ ~client'.stopped
  BY <1>1, <1>4, <1>6 DEF NotStarted
<1>8. NotStarted'
  BY <1>1, <1>2, <1>6, <1>7 DEF NotStarted, SameConnector
<1>9. QED
  BY <1>1, <1>8 DEF ClientInv

LEMMA UserReady ==
  ASSUME ClientInv, phase = "events", <<"user", 0>> \in ready, ready' = ready \ {<<"user", 0>>},
         UNCHANGED <<phase, batch>>, batch = <<>>,
         <<"hangUp", client.connection>> \in ready' => client'.connection = client.connection,
         NEW r \in BOOLEAN, NEW x \in Descriptors \cup {0}, ReadyOk(client, r, x),
         NEW r2 \in BOOLEAN, NEW x2 \in Descriptors \cup {0}, CallLeaves(client, r, x, client', r2, x2)
  PROVE  ClientInv'
<1>1. \A d \in Descriptors : <<"hangUp", d>> \in ready' =>
        client'.connection = d /\ ~r2 /\ x2 = 0 /\ ready' \subseteq {<<"hangUp", d>>, <<"user", 0>>}
  <2>1. ASSUME NEW d \in Descriptors, <<"hangUp", d>> \in ready'
        PROVE  client'.connection = d /\ ~r2 /\ x2 = 0 /\ ready' \subseteq {<<"hangUp", d>>, <<"user", 0>>}
    <3>1. client.connection = d /\ ~r /\ x = 0 /\ ready \subseteq {<<"hangUp", d>>, <<"user", 0>>}
      BY <2>1 DEF ReadyOk
    <3>2. d # 0 /\ client'.connection = d
      BY <2>1, <3>1, ClientAssumption
    <3>3. QED
      BY <3>1, <3>2 DEF CallLeaves
  <2>2. QED
    BY <2>1
<1>2. \A w \in {<<"writable", 0>>, <<"error", 0>>} : w \in ready' =>
        /\ client'.state # "connected" /\ client'.timers = 0 /\ client'.connection = 0 /\ x2 = 0
        /\ ready' \subseteq {w, <<"user", 0>>}
  <2>1. ASSUME NEW w \in {<<"writable", 0>>, <<"error", 0>>}, w \in ready'
        PROVE  /\ client'.state # "connected" /\ client'.timers = 0 /\ client'.connection = 0 /\ x2 = 0
               /\ ready' \subseteq {w, <<"user", 0>>}
    <3>1. /\ client.state # "connected" /\ client.timers = 0 /\ client.connection = 0 /\ x = 0
          /\ ready \subseteq {w, <<"user", 0>>}
      BY <2>1 DEF ReadyOk
    <3>2. QED
      BY <3>1 DEF CallLeaves
  <2>2. QED
    BY <2>1
<1>3. <<"timer", 0>> \in ready' => client'.timers = 1 /\ ~r2 /\ x2 = 0
  <2>1. ASSUME <<"timer", 0>> \in ready PROVE client'.timers = 1 /\ ~r2 /\ x2 = 0
    <3>1. client.timers = 1 /\ r = FALSE /\ x = 0
      BY <2>1 DEF ReadyOk
    <3>2. client.timers > 0
      BY <3>1
    <3>3. QED
      BY <3>1, <3>2 DEF CallLeaves
  <2>2. QED
    BY <2>1
<1>4. <<"user", 0>> \notin ready'
  OBVIOUS
<1>5. ReadyOk(client, r2, x2)'
  BY <1>1, <1>2, <1>3, <1>4 DEF ReadyOk
<1>6. Good(client', r2, x2) /\ client'.queue = Pending(r2, x2)
  BY DEF CallLeaves
<1>7. Started(r2, x2)'
  BY <1>5, <1>6 DEF Started, Placed
<1>8. QED
  BY <1>7 DEF ClientInv

LEMMA UserStep ==
  ASSUME TwoDescriptors, ClientInv, OnUser, careful'
  PROVE  ClientInv'
<1>1. PICK op \in Calls :
        /\ phase = "events" /\ <<"user", 0>> \in ready /\ ready' = ready \ {<<"user", 0>>}
        /\ UNCHANGED <<phase, batch>> /\ client' \in Call(client, op)
        /\ <<"hangUp", client.connection>> \in ready' => client'.connection = client.connection
  BY DEF OnUser, Handle
<1>2. CASE NotStarted
  BY <1>2, UserStepEarly
<1>3. ASSUME NEW r \in BOOLEAN, NEW x \in Descriptors \cup {0}, Started(r, x)
      PROVE  ClientInv'
  <2>1. batch = <<>> /\ Good(client, r, x) /\ ReadyOk(client, r, x) /\ client.queue = Pending(r, x)
    BY <1>1, <1>3 DEF Started, Placed
  <2>2. CASE x # 0 /\ client.watched
    <3>1. ready' = {} /\ r = FALSE /\ x \in Descriptors
      BY <1>1, <2>1, <2>2 DEF ReadyOk, Good
    <3>2. Good(client, FALSE, x) /\ client.queue = Pending(FALSE, x)
      BY <2>1, <3>1
    <3>3. \/ Good(client', FALSE, x) /\ client'.queue = Pending(FALSE, x)
          \/ Good(client', TRUE, x) /\ client'.queue = Crossed(x)
      BY <1>1, <2>2, <3>1, <3>2, LateCall
    <3>4. CASE Good(client', FALSE, x) /\ client'.queue = Pending(FALSE, x)
      <4>1. ReadyOk(client, FALSE, x)' /\ Placed(Pending(FALSE, x))'
        BY <1>1, <2>1, <3>1, <3>4 DEF ReadyOk, Placed
      <4>2. QED
        BY <1>1, <3>1, <3>4, <4>1 DEF ClientInv, Started
    <3>5. CASE Good(client', TRUE, x) /\ client'.queue = Crossed(x)
      <4>1. Placed(Crossed(x))'
        BY <1>1, <2>1, <3>5 DEF Placed
      <4>2. StoppedLate'
        BY <3>1, <3>5, <4>1 DEF StoppedLate
      <4>3. QED
        BY <1>1, <3>1, <4>2 DEF ClientInv
    <3>6. QED
      BY <3>3, <3>4, <3>5
  <2>3. CASE ~(x # 0 /\ client.watched)
    <3>1. x # 0 => ~client.watched /\ client.connection = 0
      BY <1>1, <2>1, <2>3 DEF ReadyOk
    <3>2. PICK r2 \in BOOLEAN, x2 \in Descriptors \cup {0} : CallLeaves(client, r, x, client', r2, x2)
      BY <1>1, <2>1, <3>1, CallIsGood
    <3>3. QED
      BY <1>1, <1>3, <2>1, <3>2, UserReady
  <2>4. QED
    BY <2>2, <2>3
<1>4. QED
  BY <1>1, <1>2, <1>3 DEF ClientInv, StoppedLate

(* The functors.                                                           *)
LEMMA ChannelReset ==
  ASSUME NEW x \in Descriptors \cup {0}, NEW s, Good(s, TRUE, x), NEW t, t = ResetChannel(s)
  PROVE  Good(t, FALSE, x) /\ t.queue = s.queue
<1>1. s.channel # 0 /\ ~s.watched /\ s \in Client /\ s.conns \in [Descriptors -> Connection \cup {None}]
  BY DEF Good, Client
<1>2. PICK d \in Descriptors : d = s.channel
  BY <1>1 DEF Client
<1>3. PICK c : c = IF s.conns[d] = None THEN s.conns[d] ELSE [s.conns[d] EXCEPT !.mapped = FALSE]
  OBVIOUS
<1>4. c \in Connection \cup {None}
  <2>1. CASE s.conns[d] = None
    BY <1>3, <2>1
  <2>2. CASE s.conns[d] # None
    <3>1. s.conns[d] \in Connection
      BY <1>1, <2>2
    <3>2. QED
      BY <1>3, <2>2, <3>1 DEF Connection
  <2>3. QED
    BY <2>1, <2>2
<1>5. PICK conns : conns = [s.conns EXCEPT ![d] = c]
  OBVIOUS
<1>6. /\ conns \in [Descriptors -> Connection \cup {None}]
      /\ \A e \in Descriptors : conns[e] = IF e = d THEN c ELSE s.conns[e]
  BY <1>1, <1>4, <1>5
<1>7. t = [s EXCEPT !.channel = 0, !.conns = conns]
  BY <1>1, <1>2, <1>3, <1>5 DEF ResetChannel, Client
<1>8. /\ t \in Client /\ t.channel = 0 /\ t.conns = conns /\ t.state = s.state /\ t.socket = s.socket
      /\ t.watched = s.watched /\ t.timers = s.timers /\ t.connected = s.connected
      /\ t.connection = s.connection /\ t.open = s.open /\ t.broken = s.broken /\ t.calls = s.calls
      /\ t.stopped = s.stopped /\ t.queue = s.queue
  BY <1>1, <1>6, <1>7 DEF Client
<1>9. ASSUME NEW e \in Descriptors
      PROVE  /\ t.conns[e] # None => s.conns[e] # None
             /\ IsUp(s.conns[e]) => IsUp(t.conns[e]) /\ t.conns[e].state = s.conns[e].state
             /\ IsDown(s.conns[e]) => IsDown(t.conns[e])
  <2>1. t.conns[e] = IF e = d THEN c ELSE s.conns[e]
    BY <1>6, <1>8
  <2>2. CASE e # d \/ s.conns[d] = None
    <3>1. t.conns[e] = s.conns[e]
      BY <1>3, <2>1, <2>2
    <3>2. QED
      BY <3>1
  <2>3. CASE e = d /\ s.conns[d] # None
    <3>1. PICK k : k = s.conns[d]
      OBVIOUS
    <3>2. c = [k EXCEPT !.mapped = FALSE]
      BY <1>3, <2>3, <3>1
    <3>3. /\ IsUp(k) => IsUp(c) /\ c.state = k.state
          /\ IsDown(k) => IsDown(c)
      BY <3>2, UnmappedStays
    <3>4. t.conns[e] = c /\ s.conns[e] = k /\ k # None
      BY <2>1, <2>3, <3>1
    <3>5. QED
      BY <3>3, <3>4
  <2>4. QED
    BY <2>2, <2>3
<1>10. s.connection \in Descriptors \cup {0}
  BY <1>1 DEF Client
<1>11. /\ t.connection # 0 => t.state = "connected" /\ IsUp(t.conns[t.connection])
       /\ t.connection # 0 => t.conns[t.connection].state = s.conns[t.connection].state
       /\ x # 0 => IsDown(t.conns[x])
       /\ \A e \in Descriptors : t.conns[e] # None => e \in t.open /\ e \in {t.connection, x}
  BY <1>8, <1>9, <1>10 DEF Good
<1>12. Good(t, FALSE, x)
  BY <1>1, <1>8, <1>11 DEF Good
<1>13. QED
  BY <1>8, <1>12

LEMMA DestroyedIsGone ==
  ASSUME NEW r \in BOOLEAN, NEW x \in Descriptors, NEW s, Good(s, r, x), NEW t, t = ConnectionDestroyed(s, x)
  PROVE  Good(t, r, 0) /\ t.queue = s.queue
<1>1. /\ s \in Client /\ s.conns \in [Descriptors -> Connection \cup {None}] /\ s.open \subseteq Descriptors
      /\ x # 0
  BY ClientAssumption DEF Good, Client
<1>2. PICK conns : conns = [s.conns EXCEPT ![x] = None]
  OBVIOUS
<1>3. /\ conns \in [Descriptors -> Connection \cup {None}] /\ conns[x] = None
      /\ \A e \in Descriptors : e # x => conns[e] = s.conns[e]
  BY <1>1, <1>2
<1>4. PICK open \in SUBSET Descriptors : open = s.open \ {x}
  BY <1>1
<1>5. t = [s EXCEPT !.conns = conns, !.open = open]
  BY <1>1, <1>2, <1>4 DEF ConnectionDestroyed, Client
<1>6. /\ t \in Client /\ t.channel = s.channel /\ t.conns = conns /\ t.state = s.state /\ t.socket = s.socket
      /\ t.watched = s.watched /\ t.timers = s.timers /\ t.connected = s.connected
      /\ t.connection = s.connection /\ t.open = open /\ t.broken = s.broken /\ t.calls = s.calls
      /\ t.stopped = s.stopped /\ t.queue = s.queue
  BY <1>1, <1>3, <1>5 DEF Client
<1>7. IsDown(s.conns[x])
  BY <1>1 DEF Good
<1>8. s.connection \in Descriptors \cup {0} /\ s.connection # x
  <2>1. s.connection # 0 => IsUp(s.conns[s.connection])
    BY DEF Good
  <2>2. QED
    BY <1>1, <1>7, <2>1 DEF IsUp, IsDown, Client
<1>9. s.watched => s.socket # x /\ s.socket \in Descriptors
  <2>1. s.watched => s.conns[s.socket] = None /\ s.socket \in s.open
    BY DEF Good
  <2>2. QED
    BY <1>1, <1>7, <2>1, NoneIsNone
<1>10. /\ t.connection # 0 => t.conns[t.connection] = s.conns[t.connection]
       /\ t.watched => t.socket \in t.open /\ t.conns[t.socket] = None
       /\ \A e \in Descriptors : t.conns[e] # None => s.conns[e] # None /\ e # x
  <2>1. s.watched => s.conns[s.socket] = None /\ s.socket \in s.open
    BY DEF Good
  <2>2. QED
    BY <1>3, <1>4, <1>6, <1>8, <1>9, <2>1
<1>11. \A e \in Descriptors : t.conns[e] # None => e \in t.open /\ e \in {t.connection, 0}
  BY <1>1, <1>4, <1>6, <1>10 DEF Good
<1>12. Good(t, r, 0)
  BY <1>1, <1>4, <1>6, <1>10, <1>11 DEF Good
<1>13. QED
  BY <1>6, <1>12

LEMMA FunctorStep ==
  ASSUME TwoDescriptors, ClientInv, RunFunctor
  PROVE  ClientInv'
<1>1. phase = "tasks" /\ batch # <<>> /\ ready = {} /\ batch' = Tail(batch) /\ UNCHANGED <<phase, ready>>
  BY DEF RunFunctor, ClientInv
<1>2. CASE NotStarted
  <2>1. /\ client.calls = 1 /\ client.queue = <<>> /\ batch = <<Start>> /\ ~client.stopped
    BY <1>1, <1>2 DEF NotStarted
  <2>2. Head(batch)[1] = "startInLoop" /\ batch' = <<>>
    BY <1>1, <2>1 DEF Start
  <2>3. client' \in StartInLoop(client)
    BY <2>2 DEF RunFunctor
  <2>4. MayStart(client, 0)
    BY <1>2, <2>1 DEF NotStarted, MayStart
  <2>5. client' \in Connect(client)
    BY <2>3, <2>4 DEF MayStart, StartInLoop
  <2>6. Good(client', FALSE, 0) /\ client'.queue = <<>>
    BY <2>1, <2>4, <2>5, AttemptIsGood
  <2>7. ReadyOk(client, FALSE, 0)' /\ Placed(Pending(FALSE, 0))'
    BY <1>1, <2>2, <2>6 DEF ReadyOk, Placed, Pending
  <2>8. QED
    BY <1>1, <2>6, <2>7 DEF ClientInv, Started
<1>3. ASSUME NEW r \in BOOLEAN, NEW x \in Descriptors \cup {0}, Started(r, x)
      PROVE  ClientInv'
  <2>1. Good(client, r, x) /\ batch = Pending(r, x) /\ client.queue = <<>>
    BY <1>1, <1>3 DEF Started, Placed
  <2>2. CASE r /\ Head(batch) = Reset /\ batch' = Pending(FALSE, x)
    <3>1. client' = ResetChannel(client)
      BY <2>2 DEF RunFunctor, Reset
    <3>2. Good(client, TRUE, x)
      <4>1. r = TRUE
        BY <2>2
      <4>2. QED
        BY <2>1, <4>1
    <3>3. Good(client', FALSE, x) /\ client'.queue = <<>>
      BY <2>1, <3>1, <3>2, ChannelReset
    <3>4. ReadyOk(client, FALSE, x)' /\ Placed(Pending(FALSE, x))'
      BY <1>1, <2>2, <3>3 DEF ReadyOk, Placed
    <3>5. QED
      BY <1>1, <3>3, <3>4 DEF ClientInv, Started
  <2>3. CASE ~r /\ x # 0 /\ Head(batch) = Destroy(x) /\ batch' = Pending(FALSE, 0)
    <3>1. client' = ConnectionDestroyed(client, x)
      BY <2>3 DEF RunFunctor, Destroy
    <3>2. r = FALSE /\ x \in Descriptors /\ Good(client, r, x)
      BY <2>1, <2>3
    <3>3. Good(client', FALSE, 0) /\ client'.queue = <<>>
      <4>1. Good(client', r, 0) /\ client'.queue = client.queue
        BY <3>1, <3>2, DestroyedIsGone
      <4>2. QED
        BY <2>1, <3>2, <4>1
    <3>4. ReadyOk(client, FALSE, 0)' /\ Placed(Pending(FALSE, 0))'
      BY <1>1, <2>3, <3>3 DEF ReadyOk, Placed
    <3>5. QED
      BY <1>1, <3>3, <3>4 DEF ClientInv, Started
  <2>4. QED
    BY <1>1, <2>1, <2>2, <2>3, PendingShrinks
<1>4. CASE StoppedLate
  <2>1. PICK x \in Descriptors : Good(client, TRUE, x) /\ batch = Crossed(x) /\ client.queue = <<>>
    BY <1>1, <1>4 DEF StoppedLate, Placed
  <2>2. Head(batch) = Destroy(x) /\ batch' = Pending(TRUE, 0)
    BY <1>1, <2>1 DEF Crossed, Pending
  <2>3. client' = ConnectionDestroyed(client, x)
    BY <2>2 DEF RunFunctor, Destroy
  <2>4. Good(client', TRUE, 0) /\ client'.queue = <<>>
    <3>1. PICK r \in BOOLEAN : r = TRUE
      OBVIOUS
    <3>2. Good(client, r, x)
      BY <2>1, <3>1
    <3>3. Good(client', r, 0) /\ client'.queue = client.queue
      BY <2>3, <3>2, DestroyedIsGone
    <3>4. QED
      BY <2>1, <3>1, <3>3
  <2>5. ReadyOk(client, TRUE, 0)' /\ Placed(Pending(TRUE, 0))'
    BY <1>1, <2>2, <2>4 DEF ReadyOk, Placed
  <2>6. QED
    BY <1>1, <2>4, <2>5 DEF ClientInv, Started
<1>5. QED
  BY <1>2, <1>3, <1>4 DEF ClientInv

LEMMA PollStep ==
  ASSUME ClientInv, Poll
  PROVE  ClientInv'
<1>1. /\ phase = "poll" /\ phase' = "events" /\ UNCHANGED <<client, batch>>
      /\ ready' \subseteq ConnectorEvents \cup HangUps \cup TimerEvents \cup {<<"user", 0>>}
      /\ ConnectorEvents \subseteq ready' => ConnectorEvents = {}
  BY DEF Poll
<1>2. ready' \subseteq Events
  BY <1>1 DEF ConnectorEvents, HangUps, TimerEvents, Events
<1>3. CASE NotStarted
  <2>1. ConnectorEvents = {} /\ HangUps = {} /\ TimerEvents = {}
    BY <1>3 DEF NotStarted, ConnectorEvents, HangUps, TimerEvents
  <2>2. ready' \subseteq {<<"user", 0>>}
    BY <1>1, <2>1
  <2>3. NotStarted'
    BY <1>1, <1>3, <2>2 DEF NotStarted
  <2>4. QED
    BY <1>1, <1>2, <2>3 DEF ClientInv
<1>4. ASSUME NEW r \in BOOLEAN, NEW x \in Descriptors \cup {0}, Started(r, x)
      PROVE  ClientInv'
  <2>1. Good(client, r, x) /\ batch = <<>> /\ client.queue = <<>> /\ Pending(r, x) = <<>>
    BY <1>1, <1>4 DEF Started, Placed
  <2>2. r = FALSE /\ x = 0
    BY <2>1 DEF Pending
  <2>3. /\ client.timers \in Nat /\ client.connection \in Descriptors \cup {0} /\ 0 \notin Descriptors
        /\ client.timers > 0 => client.timers = 1 /\ client.connection = 0 /\ ~client.watched
        /\ client.watched => client.connection = 0 /\ client.timers = 0 /\ client.state = "connecting"
        /\ \A d \in Descriptors : client.conns[d] # None => d = client.connection
    BY <2>1, <2>2, ClientAssumption DEF Good, Client
  <2>4. /\ \A w \in {<<"writable", 0>>, <<"error", 0>>} : w \in ready' => w \in ConnectorEvents /\ client.watched
        /\ \A d \in Descriptors : <<"hangUp", d>> \in ready' => d = client.connection /\ <<"hangUp", d>> \in HangUps
        /\ <<"timer", 0>> \in ready' => client.timers > 0
    BY <1>1, <2>3 DEF ConnectorEvents, HangUps, TimerEvents
  <2>5. ASSUME NEW w \in {<<"writable", 0>>, <<"error", 0>>}, w \in ready'
        PROVE  /\ client.state # "connected" /\ client.timers = 0 /\ client.connection = 0
               /\ ready' \subseteq {w, <<"user", 0>>}
    <3>1. client.watched
      BY <2>4, <2>5
    <3>2. HangUps = {} /\ TimerEvents = {}
      BY <2>3, <3>1 DEF HangUps, TimerEvents
    <3>3. ConnectorEvents = {<<"writable", 0>>, <<"error", 0>>}
      BY <3>1 DEF ConnectorEvents
    <3>4. ready' \subseteq {w, <<"user", 0>>}
      BY <1>1, <2>5, <3>2, <3>3
    <3>5. QED
      BY <2>3, <3>1, <3>4
  <2>6. ASSUME NEW d \in Descriptors, <<"hangUp", d>> \in ready'
        PROVE  client.connection = d /\ ready' \subseteq {<<"hangUp", d>>, <<"user", 0>>}
    <3>1. client.connection = d /\ d # 0 /\ <<"hangUp", d>> \in HangUps
      BY <2>3, <2>4, <2>6
    <3>2. ~client.watched /\ ~(client.timers > 0)
      BY <2>3, <3>1
    <3>3. ConnectorEvents = {} /\ TimerEvents = {}
      BY <3>2 DEF ConnectorEvents, TimerEvents
    <3>4. HangUps \subseteq {<<"hangUp", d>>}
      BY <2>3, <3>1 DEF HangUps
    <3>5. QED
      BY <1>1, <2>6, <3>1, <3>3, <3>4
  <2>7. ReadyOk(client, r, x)'
    BY <1>1, <2>2, <2>3, <2>4, <2>5, <2>6 DEF ReadyOk
  <2>8. Started(r, x)'
    BY <1>1, <2>1, <2>7 DEF Started, Placed
  <2>9. QED
    BY <1>1, <1>2, <2>8 DEF ClientInv
<1>5. ~StoppedLate
  BY <1>1 DEF StoppedLate, Placed, Crossed
<1>6. QED
  BY <1>3, <1>4, <1>5 DEF ClientInv

LEMMA SwapStep ==
  ASSUME ClientInv, Swap
  PROVE  ClientInv'
<1>1. /\ phase = "events" /\ ready = {} /\ phase' = "tasks" /\ ready' = {} /\ batch' = client.queue
      /\ client' = [client EXCEPT !.queue = <<>>]
  BY DEF Swap
<1>2. client \in Client
  BY DEF ClientInv, NotStarted, StoppedLate, Started, Good
<1>3. /\ client' \in Client /\ SameConnector(client', client) /\ SameClient(client', client)
      /\ client'.queue = <<>> /\ client'.connected = client.connected
  <2>1. PICK q \in Seq(Functors) : q = <<>>
    BY EmptySeq
  <2>2. client' = [client EXCEPT !.queue = q]
    BY <1>1, <2>1
  <2>3. client' \in Client /\ client'.queue = q
    BY <1>2, <2>2 DEF Client
  <2>4. SameConnector(client', client) /\ SameClient(client', client) /\ client'.connected = client.connected
    BY <1>2, <2>2 DEF Client, SameConnector, SameClient
  <2>5. QED
    BY <2>1, <2>3, <2>4
<1>4. CASE NotStarted
  <2>1. NotStarted'
    BY <1>1, <1>3, <1>4 DEF NotStarted, SameConnector, SameClient
  <2>2. QED
    BY <1>1, <2>1 DEF ClientInv
<1>5. ASSUME NEW r \in BOOLEAN, NEW x \in Descriptors \cup {0}, Started(r, x)
      PROVE  ClientInv'
  <2>1. Good(client, r, x) /\ client.queue = Pending(r, x)
    BY <1>1, <1>5 DEF Started, Placed
  <2>2. Good(client', r, x)
    BY <1>3, <2>1, UserMembers
  <2>3. ReadyOk(client, r, x)'
    BY <1>1 DEF ReadyOk
  <2>4. Started(r, x)'
    BY <1>1, <1>3, <2>1, <2>2, <2>3 DEF Started, Placed
  <2>5. QED
    BY <1>1, <2>4 DEF ClientInv
<1>6. CASE StoppedLate
  <2>1. PICK x \in Descriptors : Good(client, TRUE, x) /\ client.queue = Crossed(x)
    BY <1>1, <1>6 DEF StoppedLate, Placed
  <2>2. Good(client', TRUE, x)
    BY <1>3, <2>1, UserMembers
  <2>3. StoppedLate'
    BY <1>1, <1>3, <2>1, <2>2 DEF StoppedLate, Placed
  <2>4. QED
    BY <1>1, <2>3 DEF ClientInv
<1>7. QED
  BY <1>4, <1>5, <1>6 DEF ClientInv

LEMMA EndStep ==
  ASSUME ClientInv, EndPending
  PROVE  ClientInv'
<1>1. phase = "tasks" /\ batch = <<>> /\ phase' = "poll" /\ UNCHANGED <<client, ready, batch>> /\ ready = {}
  BY DEF EndPending, ClientInv
<1>2. CASE NotStarted
  <2>1. NotStarted'
    BY <1>1, <1>2 DEF NotStarted, Start
  <2>2. QED
    BY <1>1, <2>1 DEF ClientInv
<1>3. ASSUME NEW r \in BOOLEAN, NEW x \in Descriptors \cup {0}, Started(r, x)
      PROVE  ClientInv'
  <2>1. Started(r, x)'
    BY <1>1, <1>3 DEF Started, Placed, ReadyOk
  <2>2. QED
    BY <1>1, <2>1 DEF ClientInv
<1>4. ~StoppedLate
  BY <1>1 DEF StoppedLate, Placed, Crossed
<1>5. QED
  BY <1>2, <1>3, <1>4 DEF ClientInv

LEMMA ConnectStep ==
  ASSUME ClientInv, CallConnect, careful'
  PROVE  ClientInv'
<1>1. /\ client.calls < MaxConnects /\ UNCHANGED <<phase, ready, batch>>
      /\ client' = Push([client EXCEPT !.connected = TRUE, !.calls = @ + 1, !.stopped = FALSE, !.due = TRUE],
                        "startInLoop", 0)
  BY DEF CallConnect
<1>2. client \in Client /\ MaxConnects \in Nat
  BY ClientAssumption DEF ClientInv, NotStarted, StoppedLate, Started, Good
<1>3. client.calls = 0 /\ 1 \in 0..MaxConnects
  <2>1. client.calls = 0
    BY DEF CallConnect
  <2>2. QED
    BY <1>1, <1>2, <2>1
<1>4. NotStarted /\ client.queue = <<>> /\ batch = <<>>
  BY <1>3 DEF ClientInv, NotStarted, StoppedLate, Started, Good
<1>5. PICK a : a = [client EXCEPT !.connected = TRUE, !.calls = 1, !.stopped = FALSE, !.due = TRUE]
  OBVIOUS
<1>6. a = [client EXCEPT !.connected = TRUE, !.calls = @ + 1, !.stopped = FALSE, !.due = TRUE]
  <2>1. client.calls + 1 = 1
    BY <1>3
  <2>2. QED
    BY <1>2, <1>5, <2>1 DEF Client
<1>7. /\ a \in Client /\ SameConnector(a, client) /\ a.calls = 1 /\ ~a.stopped /\ a.queue = <<>>
      /\ a.connection = client.connection /\ a.conns = client.conns /\ a.open = client.open
      /\ a.broken = client.broken
  BY <1>2, <1>3, <1>4, <1>5 DEF Client, SameConnector
<1>8. Start = <<"startInLoop", 0>> /\ Start \in Functors
  BY DEF Start, Functors
<1>9. /\ client' \in Client /\ SameConnector(client', a) /\ SameClient(client', a)
      /\ client'.queue = Append(<<>>, Start)
  <2>1. client' = Push(a, "startInLoop", 0)
    BY <1>1, <1>6
  <2>2. <<"startInLoop", 0>> \in Functors
    BY <1>8
  <2>3. /\ client' \in Client /\ SameConnector(client', a) /\ SameClient(client', a)
        /\ client'.queue = Append(a.queue, <<"startInLoop", 0>>)
    BY SMTT(60), <1>7, <2>1, <2>2, Pushed
  <2>4. QED
    BY <1>7, <1>8, <2>3
<1>10. Append(<<>>, Start) = <<Start>>
  OBVIOUS
<1>11. NotStarted'
  BY <1>1, <1>4, <1>7, <1>9, <1>10 DEF NotStarted, SameConnector, SameClient
<1>12. QED
  BY <1>1, <1>11 DEF ClientInv

LEMMA Initially ==
  ASSUME Init PROVE ClientInv
<1>1. 0 \in 0..MaxConnects /\ <<>> \in Seq(Functors)
  BY ClientAssumption
<1>2. client \in Client
  BY <1>1 DEF Init, Client
<1>3. NotStarted
  BY <1>2 DEF Init, NotStarted
<1>4. QED
  BY <1>3 DEF Init, ClientInv

LEMMA ClientInvariant ==
  ASSUME TwoDescriptors PROVE Spec => [](careful => ClientInv)
<1>1. Init => ClientInv
  BY Initially
<1>2. [Next]_vars /\ careful' => careful
  BY DEF Next, LoopStep, Poll, OnConnector, OnHangUp, OnTimer, OnUser, Handle, Swap, RunFunctor,
         EndPending, CallConnect, vars
<1>3. ClientInv /\ [Next]_vars /\ careful' => ClientInv'
  <2> SUFFICES ASSUME ClientInv, [Next]_vars, careful' PROVE ClientInv'
    OBVIOUS
  <2>1. CASE Poll
    BY <2>1, PollStep
  <2>2. CASE OnConnector
    BY <2>2, ConnectorStep
  <2>3. CASE OnHangUp
    BY <2>3, HangUpStep
  <2>4. CASE OnTimer
    BY <2>4, TimerStep
  <2>5. CASE OnUser
    BY <2>5, UserStep
  <2>6. CASE Swap
    BY <2>6, SwapStep
  <2>7. CASE RunFunctor
    BY <2>7, FunctorStep
  <2>8. CASE EndPending
    BY <2>8, EndStep
  <2>9. CASE CallConnect
    BY <2>9, ConnectStep
  <2>10. CASE UNCHANGED vars
    BY <2>10 DEF vars, ClientInv, NotStarted, StoppedLate, Started, ReadyOk, Placed
  <2>11. QED
    BY <2>1, <2>2, <2>3, <2>4, <2>5, <2>6, <2>7, <2>8, <2>9, <2>10 DEF Next, LoopStep
<1>4. QED
  BY <1>1, <1>2, <1>3, PTL DEF Spec

-----------------------------------------------------------------------------
(***************************************************************************)
(* As long as the user calls connect() once at most and stop() never       *)
(* overtakes a reported hang-up, the state is well typed: no more          *)
(* retries wait for their timers than connect() may be called, however     *)
(* often handleWrite and handleError report a failure                      *)
(* (connector.cpp:144-196).                                                *)
(***************************************************************************)
THEOREM ClientTypeCorrect == ASSUME TwoDescriptors PROVE Spec => [](careful => TypeOK)
<1>1. ClientInv /\ careful \in BOOLEAN => TypeOK
  <2> SUFFICES ASSUME ClientInv, careful \in BOOLEAN PROVE TypeOK
    OBVIOUS
  <2>1. client \in Client
    BY DEF ClientInv, NotStarted, StoppedLate, Started, Good
  <2>2. ready \subseteq {"writable", "error", "hangUp", "timer", "user"} \X (Descriptors \cup {0})
    BY DEF ClientInv, Events
  <2>3. batch \in Seq(Functors)
    <3>1. CASE NotStarted
      <4>1. Start \in Functors
        BY DEF Start, Functors
      <4>2. <<>> \in Seq(Functors) /\ <<Start>> \in Seq(Functors)
        BY <4>1
      <4>3. QED
        BY <3>1, <4>2 DEF NotStarted
    <3>2. ASSUME NEW r \in BOOLEAN, NEW x \in Descriptors \cup {0}, Started(r, x)
          PROVE  batch \in Seq(Functors)
      <4>1. batch = Pending(r, x) \/ batch = <<>>
        BY <3>2 DEF Started, Placed
      <4>2. Pending(r, x) \in Seq(Functors) /\ <<>> \in Seq(Functors)
        BY PendingIsTyped
      <4>3. QED
        BY <4>1, <4>2
    <3>3. CASE StoppedLate
      <4>1. PICK x \in Descriptors : batch = Crossed(x) \/ batch = <<>>
        BY <3>3 DEF StoppedLate, Placed
      <4>2. Crossed(x) \in Seq(Functors) /\ <<>> \in Seq(Functors)
        BY FunctorsTyped DEF Crossed
      <4>3. QED
        BY <4>1, <4>2
    <3>4. QED
      BY <3>1, <3>2, <3>3 DEF ClientInv
  <2>4. QED
    BY <2>1, <2>2, <2>3 DEF ClientInv, TypeOK
<1>2. Init => careful \in BOOLEAN
  BY DEF Init
<1>3. careful \in BOOLEAN /\ [Next]_vars => (careful \in BOOLEAN)'
  BY DEF Next, LoopStep, Poll, OnConnector, OnHangUp, OnTimer, OnUser, Handle, Swap, RunFunctor,
         EndPending, CallConnect, vars
<1>4. Spec => [](careful \in BOOLEAN)
  BY <1>2, <1>3, PTL DEF Spec
<1>5. QED
  BY <1>1, <1>4, ClientInvariant, PTL

(***************************************************************************)
(* As long as the user calls connect() once at most and stop() never       *)
(* overtakes a reported hang-up, no assertion of the connector and the     *)
(* client fails; and one connection at most is up, and a connection keeps  *)
(* its descriptor while it lives, however attempts fail and are repeated   *)
(* and connections are lost, and whatever else the user's handlers do in   *)
(* the rounds where they are (connector.cpp:50, 116, 139, 167,             *)
(* tcp-client.cpp:100-136).                                                *)
(***************************************************************************)
THEOREM ClientStaysSound == ASSUME TwoDescriptors PROVE Spec => [](careful => ClientIsSound)
<1>1. ClientInv => ClientIsSound
  <2> SUFFICES ASSUME ClientInv PROVE ClientIsSound
    OBVIOUS
  <2>1. CASE NotStarted
    BY <2>1 DEF NotStarted, ClientIsSound, AssertionsHold, OneConnection, Up
  <2>2. ASSUME NEW r \in BOOLEAN, NEW x \in Descriptors \cup {0}, Good(client, r, x)
        PROVE  ClientIsSound
    <3>1. \A d \in Descriptors : client.conns[d] # None => d \in client.open /\ d \in {client.connection, x}
      BY <2>2 DEF Good
    <3>2. ASSUME NEW d \in Descriptors, Up(d) PROVE d = client.connection
      <4>1. CASE d = x
        <5>1. IsDown(client.conns[d])
          BY <2>2, <4>1, ClientAssumption DEF Good
        <5>2. QED
          BY <3>2, <5>1 DEF Up, IsDown
      <4>2. CASE d # x
        BY <3>1, <3>2, <4>2 DEF Up
      <4>3. QED
        BY <4>1, <4>2
    <3>3. ~client.broken
      BY <2>2 DEF Good
    <3>4. QED
      BY <3>1, <3>2, <3>3 DEF ClientIsSound, AssertionsHold, OneConnection
  <2>3. QED
    BY <2>1, <2>2 DEF ClientInv, StoppedLate, Started
<1>2. QED
  BY <1>1, ClientInvariant, PTL

(***************************************************************************)
(* As long as the user calls connect() once at most and stop() never       *)
(* overtakes a reported hang-up, after stop() there is neither an open     *)
(* connection nor an attempt under way, unless it left a retry pending or  *)
(* a start queued (tcp-client.h:26-29).                                    *)
(***************************************************************************)
THEOREM ClientStaysStopped == ASSUME TwoDescriptors PROVE Spec => [](careful => StopHolds)
<1>1. ClientInv => StopHolds
  <2> SUFFICES ASSUME ClientInv, client.stopped
               PROVE  /\ client.state # "connecting"
                      /\ \A d \in Descriptors : client.conns[d] # None => client.conns[d].state # "connected"
    BY DEF StopHolds
  <2>1. CASE NotStarted
    BY <2>1 DEF NotStarted
  <2>2. ASSUME NEW r \in BOOLEAN, NEW x \in Descriptors \cup {0}, Good(client, r, x)
        PROVE  /\ client.state # "connecting"
               /\ \A d \in Descriptors : client.conns[d] # None => client.conns[d].state # "connected"
    <3>1. /\ client.state # "connecting"
          /\ client.connection # 0 => client.conns[client.connection].state # "connected"
          /\ x # 0 => IsDown(client.conns[x])
          /\ \A d \in Descriptors : client.conns[d] # None => d \in {client.connection, x}
      BY <2>2 DEF Good
    <3>2. QED
      BY <3>1, ClientAssumption DEF IsDown
  <2>3. QED
    BY <2>1, <2>2 DEF ClientInv, StoppedLate, Started
<1>2. QED
  BY <1>1, ClientInvariant, PTL
=============================================================================
