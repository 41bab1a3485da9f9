----------------------------- MODULE TcpServer -----------------------------
(***************************************************************************)
(* The life of the connections of a TcpServer (src/src/tcp-server.cpp):    *)
(* accepted by the main loop, served by an io loop, used by worker threads *)
(* that hold a shared_ptr, and destroyed when the last reference goes.     *)
(* What a member function does to its connection is in TcpConnection; what *)
(* a loop promises about its functors is in EventLoop.                     *)
(*                                                                         *)
(* A connection is owned by _connectionMemo, by the shared_ptr bound into  *)
(* queued functors and by the workers.  A functor may also be bound to the *)
(* raw pointer, which owns nothing.                                        *)
(***************************************************************************)
EXTENDS TcpConnection, Sequences, FiniteSets

CONSTANTS
  Main,         (* The loop of the acceptor.                               *)
  IoLoops,      (* The loops a connection may be given: the threads' and,  *)
                (* when the server has no threads, Main.                   *)
  Conns,        (* The connections ever accepted.                          *)
  Workers,      (* Threads that message callbacks hand connections to.     *)
  None,
  Scenarios     (* What users, workers, peers and the server may do, and   *)
                (* how much: one of these is chosen at the beginning.      *)

(***************************************************************************)
(* conns     the connections that come                                     *)
(* userOps   what a message callback may do with its connection, or with   *)
(*           another of its loop (closeOther)                              *)
(* workerOps what a worker may do with it                                  *)
(* messages  bound: the messages a peer sends                              *)
(* endings   how a peer may end: close its side or reset                   *)
(* stops     whether ~TcpServer may run                                    *)
(***************************************************************************)
Scenario ==
  [conns : SUBSET Conns,
   userOps : SUBSET {"send", "shutdown", "forceClose", "hand", "closeOther"},
   workerOps : SUBSET {"send", "shutdown", "forceClose"},
   messages : Nat,
   endings : SUBSET {"fin", "reset"},
   stops : BOOLEAN]

ASSUME ServerAssumption ==
  /\ IoLoops # {}
  /\ IsFiniteSet(Conns)
  /\ None \notin Conns \cup IoLoops
  /\ Scenarios \subseteq Scenario

VARIABLES
  scenario, (* The one that was chosen; it does not change.                *)
  conn,     (* The record of each accepted connection.                     *)
  home,     (* The loop it was given; None before it is accepted.          *)
  memo,     (* _connectionMemo.                                            *)
  peer,     (* What the network has for each socket.                       *)
  phase,    (* Where each loop is in EventLoop::loop.                      *)
  active,   (* Each loop's _channelList.                                   *)
  revents,  (* Channel::_activeEvents, without the events handled.         *)
  queue,    (* Each loop's _functions.                                     *)
  batch,    (* Each loop's functors swapped out of the queue.              *)
  quit,     (* Each loop's _quit.                                          *)
  holds,    (* The connection each worker has a shared_ptr to.             *)
  wpc       (* Where each worker is in the member function it called.      *)

loopVars   == <<phase, active, revents, queue, batch, quit>>
workerVars == <<holds, wpc>>
vars == <<scenario, conn, home, memo, peer, loopVars, workerVars>>

Loops == IoLoops \cup {Main}

Functor(fn, c, owns) == [fn |-> fn, conn |-> c, owns |-> owns]

Functors ==
  [fn : {"established", "destroyed", "send", "shutdown", "forceClose", "remove"},
   conn : Conns, owns : BOOLEAN]

Init ==
  /\ scenario \in Scenarios
  /\ conn = [c \in Conns |-> NewConnection]
  /\ home = [c \in Conns |-> None]
  /\ memo = {}
  /\ peer = [c \in Conns |-> [sent |-> 0, unread |-> 0, end |-> "open", space |-> TRUE]]
  /\ phase = [l \in Loops |-> "poll"]
  /\ active = [l \in Loops |-> <<>>]
  /\ revents = [c \in Conns |-> {}]
  /\ queue = [l \in Loops |-> <<>>]
  /\ batch = [l \in Loops |-> <<>>]
  /\ quit = [l \in Loops |-> FALSE]
  /\ holds = [w \in Workers |-> None]
  /\ wpc = [w \in Workers |-> "idle"]

-----------------------------------------------------------------------------
(* Ownership.                                                              *)
Accepted(c) == home[c] # None

InSeq(x, s) == \E i \in 1..Len(s) : s[i] = x

OwnedByFunctor(c) ==
  \E l \in Loops : \E f \in Functors :
    f.conn = c /\ f.owns /\ (InSeq(f, queue[l]) \/ InSeq(f, batch[l]))

Alive(c) ==
  Accepted(c) /\ (c \in memo \/ OwnedByFunctor(c) \/ \E w \in Workers : holds[w] = c)

Gone(c) == Accepted(c) /\ ~Alive(c)

-----------------------------------------------------------------------------
(* The peer and the network.  A reset is an error once, for the first read *)
(* or write that meets it, and the end of the stream from then on.         *)
IsReset(c) == peer[c].end \in {"reset", "aborted"}

Has(c) ==
  {e \in {"in", "out", "hup"} :
     \/ e = "in" /\ (peer[c].unread > 0 \/ peer[c].end # "open")
     \/ e = "out" /\ (peer[c].space \/ IsReset(c))
     \/ e = "hup" /\ IsReset(c)
     \/ e = "hup" /\ peer[c].end = "fin" /\ conn[c].finSent}

PeerStep(c) ==
  /\ Accepted(c)
  /\ UNCHANGED <<conn, home, memo, loopVars, workerVars>>

PeerSends(c) ==
  /\ peer[c].end = "open" /\ peer[c].sent < scenario.messages
  /\ peer' = [peer EXCEPT ![c].sent = @ + 1, ![c].unread = @ + 1]
  /\ PeerStep(c)

PeerEnds(c, how) ==
  /\ peer[c].end = "open" \/ (peer[c].end = "fin" /\ how = "reset")
  /\ peer' = [peer EXCEPT ![c].end = how]
  /\ PeerStep(c)

(* The peer reads, and the socket has room to write again.                 *)
PeerReads(c) ==
  /\ ~peer[c].space
  /\ peer' = [peer EXCEPT ![c].space = TRUE]
  /\ PeerStep(c)

(* What a write of n units leaves of the room: maybe none.                 *)
Wrote(c, unread, n) ==
  \E room \in IF n = 0 THEN {peer[c].space} ELSE BOOLEAN :
    peer' = [peer EXCEPT ![c].space = room, ![c].unread = unread]

Failed(c, unread) ==
  peer' = [peer EXCEPT ![c].unread = unread, ![c].end = IF @ = "reset" THEN "aborted" ELSE @]

(* write() takes all of one send, a part of it, nothing, or fails.         *)
WriteOutcomes(c) ==
  CASE IsReset(c)    -> {"broken"}
    [] peer[c].space -> {"taken", "partial"}
    [] OTHER         -> {"wouldBlock"}

-----------------------------------------------------------------------------
Enqueue(l, f) == [queue EXCEPT ![l] = Append(@, f)]

(* Mutants of RemoveConnection: connectionDestoryed is bound to the raw    *)
(* pointer; removeConnection is never pushed to the main loop.             *)
RemoveConnectionRaw(l, c) ==
  IF l = Main
  THEN /\ memo' = memo \ {c}
       /\ queue' = Enqueue(home[c], Functor("destroyed", c, FALSE))
  ELSE /\ queue' = Enqueue(Main, Functor("remove", c, TRUE))
       /\ UNCHANGED memo

RemoveConnectionForgets(l, c) ==
  IF l = Main
  THEN /\ memo' = memo \ {c}
       /\ queue' = Enqueue(home[c], Functor("destroyed", c, TRUE))
  ELSE UNCHANGED <<memo, queue>>

(* EventLoop::run of a functor by the thread of loop l, for the functors   *)
(* whose execution only pushes: TcpServer::removeConnection.  On the main  *)
(* loop removeConnectionCallBack runs at once, elsewhere it is queued.     *)
RemoveConnection(l, c) ==
  IF l = Main
  THEN /\ memo' = memo \ {c}
       /\ queue' = Enqueue(home[c], Functor("destroyed", c, TRUE))
  ELSE /\ queue' = Enqueue(Main, Functor("remove", c, TRUE))
       /\ UNCHANGED memo

(* handleClose on loop l, given the record it starts from.                 *)
HandleClose(l, c, r) ==
  /\ conn' = [conn EXCEPT ![c] = Closed(r)]
  /\ RemoveConnection(l, c)

Become(c, r) ==
  /\ conn' = [conn EXCEPT ![c] = r]
  /\ UNCHANGED <<memo, queue>>

(* sendInOwnerLoop.                                                        *)
Send(c, unread) ==
  \E outcome \in WriteOutcomes(c) :
    /\ Become(c, Sent(conn[c], outcome))
    /\ CASE ~WritesDirectly(conn[c]) -> Wrote(c, unread, 0)
         [] outcome = "taken"        -> Wrote(c, unread, 1)
         [] outcome = "partial"      -> peer' = [peer EXCEPT ![c].space = FALSE, ![c].unread = unread]
         [] OTHER                    -> Failed(c, unread)

-----------------------------------------------------------------------------
(* EventLoopThreadPool::getNextLoop: the base loop, if and only if there   *)
(* are no threads; which of the threads' loops is left open.               *)
NextLoop(l) == \A c \in Conns : Accepted(c) => (home[c] = Main <=> l = Main)

(* The main loop accepts: TcpServer::acceptorCallback.                     *)
Accept(c, l) ==
  /\ c \in scenario.conns /\ ~Accepted(c) /\ NextLoop(l)
  /\ phase[Main] = "events" /\ active[Main] = <<>>
  /\ home' = [home EXCEPT ![c] = l]
  /\ memo' = memo \cup {c}
  /\ IF l = Main
     THEN /\ conn' = [conn EXCEPT ![c] = Established(@)]
          /\ UNCHANGED queue
     ELSE /\ queue' = Enqueue(l, Functor("established", c, FALSE))
          /\ UNCHANGED conn
  /\ UNCHANGED <<peer, phase, active, revents, batch, quit, workerVars>>

(* epoll_wait: the channels with something to report, in any order, and    *)
(* the events of each at this moment.                                      *)
OnLoop(l) == {c \in Conns : home[c] = l}

Orders(S) == {s \in [1..Cardinality(S) -> S] : \A i, j \in DOMAIN s : s[i] = s[j] => i = j}

Poll(l) ==
  LET hit == {c \in OnLoop(l) : Reported(conn[c], Has(c)) # {}}
  IN  /\ phase[l] = "poll"
      /\ \/ hit # {}
         \/ queue[l] # <<>>
         \/ quit[l]
         \/ l = Main /\ \E c \in scenario.conns : ~Accepted(c)
      /\ phase' = [phase EXCEPT ![l] = "events"]
      /\ active' \in {[active EXCEPT ![l] = s] : s \in Orders(hit)}
      /\ revents' = [c \in Conns |-> IF c \in hit THEN Reported(conn[c], Has(c)) ELSE revents[c]]
      /\ UNCHANGED <<conn, home, memo, peer, queue, batch, quit, workerVars>>

-----------------------------------------------------------------------------
(* Channel::handleEventWithGuard for the first channel of the list: close, *)
(* then read, then write.                                                  *)
Handling(l, c) ==
  /\ phase[l] = "events"
  /\ active[l] # <<>>
  /\ c = Head(active[l])

Handled(l, c, events) ==
  /\ revents' = [revents EXCEPT ![c] = @ \ events]
  /\ active' = IF revents[c] \subseteq events
               THEN [active EXCEPT ![l] = Tail(@)] ELSE active
  /\ UNCHANGED <<home, phase, batch, quit, wpc>>

OnHangUp(l, c) ==
  /\ Handling(l, c)
  /\ "hup" \in revents[c] /\ "in" \notin revents[c]
  /\ HandleClose(l, c, conn[c])
  /\ Handled(l, c, {"hup"})
  /\ UNCHANGED <<peer, holds>>

(* The connections of loop l, other than c, that a callback knows: those   *)
(* reported up, by weak pointers.                                          *)
Others(l, c) == {d \in OnLoop(l) \ {c} : Alive(d) /\ conn[d].ups > 0}

(* What the message callback may do, on the thread of the loop.  When it   *)
(* closes another connection, the events of that one stay in the active    *)
(* list.                                                                   *)
Callback(l, c, op) ==
  \/ /\ op = "none"
     /\ Become(c, conn[c]) /\ Wrote(c, 0, 0) /\ UNCHANGED holds
  \/ /\ op = "send" /\ op \in scenario.userOps
     /\ IF MaySend(conn[c]) THEN Send(c, 0)
                             ELSE Become(c, conn[c]) /\ Wrote(c, 0, 0)
     /\ UNCHANGED holds
  \/ /\ op = "shutdown" /\ op \in scenario.userOps
     /\ Become(c, IF MayShutdown(conn[c]) THEN ShutDown(ShutdownStore(conn[c])) ELSE conn[c])
     /\ Wrote(c, 0, 0) /\ UNCHANGED holds
  \/ /\ op = "forceClose" /\ op \in scenario.userOps
     /\ IF MayForceClose(conn[c]) THEN HandleClose(l, c, ForceCloseStore(conn[c]))
                                  ELSE Become(c, conn[c])
     /\ Wrote(c, 0, 0) /\ UNCHANGED holds
  \/ /\ op = "hand" /\ op \in scenario.userOps
     /\ \E w \in Workers : holds[w] = None /\ holds' = [holds EXCEPT ![w] = c]
     /\ Become(c, conn[c]) /\ Wrote(c, 0, 0)
  \/ /\ op = "closeOther" /\ op \in scenario.userOps
     /\ \E d \in Others(l, c) :
          /\ MayForceClose(conn[d])
          /\ HandleClose(l, d, [ForceCloseStore(conn[d]) EXCEPT !.cut = @ \/ revents[d] # {}])
     /\ Wrote(c, 0, 0) /\ UNCHANGED holds

(* handleRead: everything unread is one message; a reset is an error,      *)
(* which closes nothing; nothing to read is end of file.                   *)
OnRead(l, c) ==
  /\ Handling(l, c)
  /\ "in" \in revents[c]
  /\ IF peer[c].unread > 0
     THEN \E op \in {"none"} \cup scenario.userOps : Callback(l, c, op)
     ELSE /\ IF peer[c].end \in {"fin", "aborted"} THEN HandleClose(l, c, conn[c])
                                                ELSE Become(c, conn[c])
          /\ Failed(c, 0)
          /\ UNCHANGED holds
  /\ Handled(l, c, {"in", "hup"})

OnWrite(l, c) ==
  /\ Handling(l, c)
  /\ revents[c] = {"out"}
  /\ LET room == IsWriting(conn[c]) /\ peer[c].space /\ ~IsReset(c)
     IN  \E n \in IF room THEN 1..conn[c].pending ELSE {0} :
           /\ Become(c, Written(conn[c], n))
           /\ IF IsWriting(conn[c]) /\ IsReset(c) THEN Failed(c, peer[c].unread)
                                                 ELSE Wrote(c, peer[c].unread, n)
  /\ Handled(l, c, {"out"})
  /\ UNCHANGED holds

-----------------------------------------------------------------------------
(* doPendingFunctions.                                                     *)
Swap(l) ==
  /\ phase[l] = "events" /\ active[l] = <<>>
  /\ phase' = [phase EXCEPT ![l] = "tasks"]
  /\ batch' = [batch EXCEPT ![l] = queue[l]]
  /\ queue' = [queue EXCEPT ![l] = <<>>]
  /\ UNCHANGED <<conn, home, memo, peer, active, revents, quit, workerVars>>

(* What each functor does, on the thread of loop l.                        *)
Execute(l, f) ==
  LET c == f.conn
      r == conn[c]
  IN  \/ f.fn = "established" /\ Become(c, Established(r)) /\ UNCHANGED peer
      \/ f.fn = "destroyed"   /\ Become(c, Destroyed(r))   /\ UNCHANGED peer
      \/ f.fn = "shutdown"    /\ Become(c, ShutDown(r))    /\ UNCHANGED peer
      \/ f.fn = "remove"      /\ RemoveConnection(l, c)    /\ UNCHANGED <<conn, peer>>
      \/ /\ f.fn = "forceClose"
         /\ IF ForceCloseApplies(r) THEN HandleClose(l, c, r) ELSE Become(c, r)
         /\ UNCHANGED peer
      \/ f.fn = "send"        /\ Send(c, peer[c].unread)

RunFunctor(l) ==
  /\ phase[l] = "tasks"
  /\ batch[l] # <<>>
  /\ Execute(l, Head(batch[l]))
  /\ batch' = [batch EXCEPT ![l] = Tail(@)]
  /\ UNCHANGED <<home, phase, active, revents, quit, workerVars>>

(* Back to the test of _quit.  A loop that stops is destroyed with the     *)
(* functors it has not run.                                                *)
EndPending(l) ==
  /\ phase[l] = "tasks" /\ batch[l] = <<>>
  /\ phase' = [phase EXCEPT ![l] = IF quit[l] THEN "stopped" ELSE "poll"]
  /\ queue' = [queue EXCEPT ![l] = IF quit[l] THEN <<>> ELSE @]
  /\ UNCHANGED <<conn, home, memo, peer, active, revents, batch, quit, workerVars>>

-----------------------------------------------------------------------------
(* Workers: the test of _state, the store, and EventLoop::run are steps of *)
(* their own.  A task uses the connection at most once and lets go of it. *)
Pushes(w, f) ==
  /\ queue' = Enqueue(home[holds[w]], f)
  /\ wpc' = [wpc EXCEPT ![w] = "done"]
  /\ UNCHANGED <<conn, home, memo, peer, phase, active, revents, batch, quit, holds>>

WorkerTest(w, op) ==
  LET r == conn[holds[w]]
  IN  /\ holds[w] # None /\ wpc[w] = "idle" /\ op \in scenario.workerOps
      /\ \/ op = "send" /\ MaySend(r)
         \/ op = "shutdown" /\ MayShutdown(r)
         \/ op = "forceClose" /\ MayForceClose(r)
      /\ wpc' = [wpc EXCEPT ![w] = op]
      /\ UNCHANGED <<conn, home, memo, peer, loopVars, holds>>

WorkerStore(w) ==
  /\ wpc[w] \in {"shutdown", "forceClose"}
  /\ conn' = [conn EXCEPT ![holds[w]] =
                IF wpc[w] = "shutdown" THEN ShutdownStore(@) ELSE ForceCloseStore(@)]
  /\ wpc' = [wpc EXCEPT ![w] = IF @ = "shutdown" THEN "shutdownRun" ELSE "forceCloseRun"]
  /\ UNCHANGED <<home, memo, peer, loopVars, holds>>

WorkerRun(w) ==
  \/ wpc[w] = "send"          /\ Pushes(w, Functor("send", holds[w], FALSE))
  \/ wpc[w] = "shutdownRun"   /\ Pushes(w, Functor("shutdown", holds[w], FALSE))
  \/ wpc[w] = "forceCloseRun" /\ Pushes(w, Functor("forceClose", holds[w], TRUE))

WorkerReleases(w) ==
  /\ holds[w] # None /\ wpc[w] \in {"idle", "done"}
  /\ holds' = [holds EXCEPT ![w] = None]
  /\ wpc' = [wpc EXCEPT ![w] = "idle"]
  /\ UNCHANGED <<conn, home, memo, peer, loopVars>>

-----------------------------------------------------------------------------
(* FileServer::stop while the main thread is in epoll_wait: the main loop  *)
(* ends, ~TcpServer runs connectionDestoryed for every connection of its   *)
(* own loop and pushes it for the others, and drops the memo; after it     *)
(* ~EventLoopThread quits each io loop.                                    *)
StopServer ==
  /\ scenario.stops
  /\ phase[Main] = "poll"
  /\ phase' = [phase EXCEPT ![Main] = "stopped"]
  /\ conn' = [c \in Conns |-> IF c \in memo /\ home[c] = Main THEN Destroyed(conn[c]) ELSE conn[c]]
  /\ LET left(l) == IF l = Main THEN {} ELSE {c \in memo : home[c] = l}
         last(s) == [i \in DOMAIN s |-> Functor("destroyed", s[i], TRUE)]
     IN  \E s \in [Loops -> UNION {Orders(left(l)) : l \in Loops}] :
           /\ \A l \in Loops : s[l] \in Orders(left(l))
           /\ queue' = [l \in Loops |-> queue[l] \o last(s[l])]
  /\ memo' = {}
  /\ UNCHANGED <<home, peer, active, revents, batch, quit, workerVars>>

QuitLoop(l) ==
  /\ phase[Main] = "stopped" /\ l # Main /\ ~quit[l]
  /\ quit' = [quit EXCEPT ![l] = TRUE]
  /\ UNCHANGED <<conn, home, memo, peer, phase, active, revents, queue, batch, workerVars>>

(* The main loop outlives the server and the io loops.                     *)
DropMainLoop ==
  /\ \A l \in Loops : phase[l] = "stopped"
  /\ queue[Main] # <<>>
  /\ queue' = [queue EXCEPT ![Main] = <<>>]
  /\ UNCHANGED <<conn, home, memo, peer, phase, active, revents, batch, quit, workerVars>>

-----------------------------------------------------------------------------
LoopStep(l) ==
  \/ Poll(l) \/ Swap(l) \/ RunFunctor(l) \/ EndPending(l)
  \/ \E c \in Conns : OnHangUp(l, c) \/ OnRead(l, c) \/ OnWrite(l, c)

WorkerStep(w) ==
  \/ \E op \in scenario.workerOps : WorkerTest(w, op)
  \/ WorkerStore(w) \/ WorkerRun(w) \/ WorkerReleases(w)

Next ==
  /\ \/ \E l \in Loops : LoopStep(l)
     \/ \E c \in Conns, l \in IoLoops : Accept(c, l)
     \/ \E c \in Conns : PeerSends(c) \/ PeerReads(c) \/ \E how \in scenario.endings : PeerEnds(c, how)
     \/ \E w \in Workers : WorkerStep(w)
     \/ StopServer \/ DropMainLoop
     \/ \E l \in IoLoops : QuitLoop(l)
  /\ UNCHANGED scenario

Spec == Init /\ [][Next]_vars

(***************************************************************************)
(* Every thread that can run does, callbacks and tasks return, and a peer  *)
(* that is sent data reads it in the end.  A peer need not send or hang up.*)
(***************************************************************************)
Fairness ==
  /\ \A l \in Loops : WF_vars(LoopStep(l) /\ UNCHANGED scenario)
  /\ \A w \in Workers : WF_vars(WorkerStep(w) /\ UNCHANGED scenario)
  /\ \A c \in Conns : WF_vars(PeerReads(c) /\ UNCHANGED scenario)

FairSpec == Spec /\ Fairness

-----------------------------------------------------------------------------
TypeOK ==
  /\ scenario \in Scenarios
  /\ conn \in [Conns -> Connection]
  /\ home \in [Conns -> IoLoops \cup {None}]
  /\ memo \subseteq Conns
  /\ peer \in [Conns -> [sent : 0..scenario.messages, unread : 0..scenario.messages,
                         end : {"open", "fin", "reset", "aborted"}, space : BOOLEAN]]
  /\ phase \in [Loops -> {"poll", "events", "tasks", "stopped"}]
  /\ active \in [Loops -> Seq(Conns)]
  /\ revents \in [Conns -> SUBSET {"in", "out", "hup"}]
  /\ queue \in [Loops -> Seq(Functors)]
  /\ batch \in [Loops -> Seq(Functors)]
  /\ quit \in [Loops -> BOOLEAN]
  /\ holds \in [Workers -> Conns \cup {None}]
  /\ wpc \in [Workers -> {"idle", "send", "shutdown", "forceClose",
                          "shutdownRun", "forceCloseRun", "done"}]

(***************************************************************************)
(* ~TcpServer has not begun: what is promised of a connection's end, unless *)
(* said otherwise, is promised of a server that goes on.                   *)
(***************************************************************************)
Running == phase[Main] # "stopped"

(***************************************************************************)
(* No functor that a loop is going to run is bound to a connection that    *)
(* has been destroyed: the rule the comment at tcp-server.cpp:111-117      *)
(* states.  For "established", bound to the raw pointer at line 98, it     *)
(* rests on the memo keeping the connection until that functor has run.    *)
(***************************************************************************)
FunctorsAlive ==
  \A l \in Loops : \A f \in Functors :
    InSeq(f, queue[l]) \/ InSeq(f, batch[l]) => Alive(f.conn)

(***************************************************************************)
(* The channels of _channelList are raw pointers (event-loop.cpp:43-44):   *)
(* none of them is destroyed between epoll_wait and the end of the list,   *)
(* whatever the handlers before it and other threads do.                   *)
(***************************************************************************)
ActiveAlive ==
  \A l \in Loops : \A i \in 1..Len(active[l]) : Alive(active[l][i])

(***************************************************************************)
(* The pointers the loops keep are good: those bound into functors, and    *)
(* those in the list of active channels.                                   *)
(***************************************************************************)
PointersAlive == FunctorsAlive /\ ActiveAlive

(***************************************************************************)
(* A connection is destroyed only when its state is DISCONNECTED (the      *)
(* assertion at tcp-connection.cpp:22) and its channel is in neither the   *)
(* map (the assertion at channel.cpp:26) nor the kernel's epoll set.  The  *)
(* user was told once that it was up, then once that it was down           *)
(* (tcp-connection.cpp:104-106, 117-121, 166-169), unless workers force it *)
(* to close, whose store to _state may come after handleClose's, or        *)
(* another connection's callback has closed it with events in the active   *)
(* list, the next of which may close it again (channel.cpp:158-183).       *)
(***************************************************************************)
ReportedOnce(c) == conn[c].downs <= conn[c].ups /\ conn[c].ups <= 1

EndIsClean ==
  \A c \in Conns :
    /\ Gone(c) /\ Running =>
         conn[c].state = "disconnected" /\ ~conn[c].mapped /\ conn[c].index # "added"
    /\ "forceClose" \notin scenario.workerOps /\ ~conn[c].cut =>
         ReportedOnce(c) /\ (Gone(c) /\ Running => conn[c].downs = 1)

(***************************************************************************)
(* "The callback when the connection is established or disconnected"       *)
(* (tcp-connection.h:135): it tells of the one disconnection once.  It is  *)
(* not so where another connection's callback calls forceClose(): run()    *)
(* executes at once (event-loop.cpp:80-83), the events epoll reported are  *)
(* still handled (event-loop.cpp:43-44), and handleRead and handleClose do *)
(* not look at _state (tcp-connection.cpp:140-174).                        *)
(***************************************************************************)
ReportedDownOnce == \A c \in Conns : conn[c].downs <= 1

(***************************************************************************)
(* While a connection is open, EPOLLOUT is asked for exactly when there is *)
(* output to write: no output is stuck and no loop spins on a writable     *)
(* socket (tcp-connection.cpp:196-198, 263-265).                           *)
(***************************************************************************)
WriteInterest ==
  \A c \in Conns :
    conn[c].downs = 0 => (IsWriting(conn[c]) <=> conn[c].pending > 0)

(***************************************************************************)
(* Once a connection is reported down the poller has no more to read from  *)
(* it, and no message is delivered for it: the events still in the active  *)
(* list do not outlive disableAllEvents (tcp-connection.cpp:140-174).  But *)
(* for one case: handleRead does not look at _state, so a connection that  *)
(* another one's callback closed still gets the message of this round.     *)
(***************************************************************************)
NoMessageAfterDown ==
  [][\A c \in Conns : conn[c].downs > 0 =>
       /\ "in" \in revents'[c] => "in" \in revents[c]
       /\ peer'[c].unread < peer[c].unread => conn[c].cut]_vars

(***************************************************************************)
(* A connection whose peer hung up, or that any thread forced to close, is *)
(* destroyed in the end: the chain handleClose, removeConnectionCallBack,  *)
(* connectionDestoryed across the two loops never breaks                   *)
(* (tcp-connection.cpp:65-72, 161-174, 274-280; tcp-server.cpp:101-118).   *)
(***************************************************************************)
EndDestroys ==
  \A c \in Conns :
    peer[c].end # "open" \/ conn[c].state = "disconnecting" ~> Gone(c) \/ ~Running

(***************************************************************************)
(* What was sent is handed to the kernel in the end, after shutdown() too, *)
(* unless the connection closes first (tcp-connection.cpp:187-210).        *)
(***************************************************************************)
OutputDrains ==
  \A c \in Conns :
    conn[c].pending > 0 ~> conn[c].pending = 0 \/ conn[c].downs > 0 \/ ~Running

(***************************************************************************)
(* "disconnect: half-close" (tcp-client.h:31-34), which is shutdown(): the *)
(* peer is sent the end of the stream, once the pending output is out.     *)
(***************************************************************************)
ShutdownHalfCloses ==
  \A c \in Conns : conn[c].closing ~> conn[c].finSent \/ conn[c].downs > 0
=============================================================================
