-------------------------- MODULE TcpServerProofs --------------------------
(***************************************************************************)
(* Proofs about TcpServer, for every number of connections, loops, workers *)
(* and messages, and for all scenarios but where a theorem says otherwise. *)
(***************************************************************************)
EXTENDS TcpServer, SequenceTheorems, FiniteSetTheorems, TLAPS

-----------------------------------------------------------------------------
(***************************************************************************)
(* The functors a loop has to run: in what order they are matters for      *)
(* "established" alone, which is before every other one of its connection. *)
(***************************************************************************)
Rng(s) == {s[i] : i \in 1..Len(s)}

Funs(l) == Rng(queue[l]) \cup Rng(batch[l])

Early(s) ==
  \A i, j \in 1..Len(s) : s[j].fn = "established" /\ s[i].conn = s[j].conn => j <= i

Owning == {"destroyed", "forceClose", "remove"}

OrderInv ==
  \A l \in Loops :
    /\ Early(queue[l]) /\ Early(batch[l])
    /\ \A f \in Rng(batch[l]), g \in Rng(queue[l]) : g.fn = "established" => f.conn # g.conn

(* Where functors and channels can be, and what the main loop never does.  *)
PlaceInv ==
  /\ \A l \in Loops : \A f \in Funs(l) :
       /\ Accepted(f.conn)
       /\ l = IF f.fn = "remove" THEN Main ELSE home[f.conn]
       /\ f.owns <=> f.fn \in Owning
       /\ f.fn = "established" => l # Main
  /\ \A l \in Loops : \A c \in Rng(active[l]) : home[c] = l
  /\ \A c \in memo : Accepted(c)
  /\ \A w \in Workers : holds[w] # None => Accepted(holds[w])

(* The phases of a loop, and the order in which loops stop.                *)
PhaseInv ==
  /\ \A l \in Loops : phase[l] # "tasks" => batch[l] = <<>>
  /\ \A l \in Loops : phase[l] # "events" => active[l] = <<>>
  /\ \A c \in Conns : revents[c] # {} => Accepted(c) /\ c \in Rng(active[home[c]])
  /\ ~quit[Main]
  /\ \A l \in Loops : quit[l] \/ phase[l] = "stopped" => phase[Main] = "stopped"
  /\ \A w \in Workers : wpc[w] # "idle" => holds[w] # None
  /\ \A c \in Conns : peer[c].unread <= peer[c].sent

(* Nobody uses a connection that has not been established.                 *)
FreshInv ==
  \A c \in Conns :
    /\ conn[c].ups <= 1
    /\ conn[c].state = "connecting" => conn[c].ups = 0
    /\ ~Accepted(c) => conn[c].ups = 0
    /\ conn[c].ups = 0 =>
         /\ conn[c] = NewConnection
         /\ \A l \in Loops : c \notin Rng(active[l])
         /\ \A w \in Workers : holds[w] # c
         /\ \A l \in Loops : \A f \in Funs(l) : f.conn = c => f.fn \in {"established", "destroyed"}
         /\ Accepted(c) /\ phase[home[c]] # "stopped" =>
              \E f \in Funs(home[c]) : f.fn = "established" /\ f.conn = c
    /\ \A l \in Loops : \A f \in Funs(l) : f.fn = "established" /\ f.conn = c => conn[c].ups = 0

(* What is connected is read from; what is reported down is not, but for   *)
(* the events of this round when another connection's callback closed it.  *)
ReadInv ==
  \A c \in Conns :
    /\ conn[c].state = "connected" =>
         conn[c].downs = 0 /\ "in" \in conn[c].interest /\ conn[c].index = "added"
    /\ conn[c].downs > 0 => "in" \notin conn[c].interest
    /\ "in" \in revents[c] => conn[c].downs = 0 \/ conn[c].cut

ServerInv ==
  /\ TypeOK /\ OrderInv /\ PlaceInv /\ PhaseInv /\ FreshInv /\ ReadInv /\ WriteInterest

-----------------------------------------------------------------------------
(***************************************************************************)
(* Lifetimes.  send() and shutdown() on another thread bind the raw        *)
(* pointer (tcp-connection.cpp:44, 59): a server on which they are called  *)
(* keeps its pointers only if its connections stay open.                   *)
(***************************************************************************)
StaysOpen(s) ==
  /\ s.endings = {} /\ ~s.stops
  /\ "forceClose" \notin s.userOps \cup s.workerOps /\ "closeOther" \notin s.userOps

KeepsPointers(s) == s.workerOps \subseteq {"forceClose"} \/ StaysOpen(s)

WorkerFunctors == {"send", "shutdown", "forceClose"}

OpsOf(w) ==
  /\ wpc[w] = "send" => "send" \in scenario.workerOps
  /\ wpc[w] \in {"shutdown", "shutdownRun"} => "shutdown" \in scenario.workerOps
  /\ wpc[w] \in {"forceClose", "forceCloseRun"} => "forceClose" \in scenario.workerOps

OpsInv ==
  /\ \A l \in Loops : \A f \in Funs(l) : f.fn \in WorkerFunctors => f.fn \in scenario.workerOps
  /\ \A w \in Workers : OpsOf(w)

OpenInv ==
  StaysOpen(scenario) =>
    /\ \A c \in Conns :
         /\ Accepted(c) => c \in memo
         /\ peer[c].end = "open" /\ "hup" \notin revents[c]
         /\ "in" \in revents[c] => peer[c].unread > 0
    /\ \A l \in Loops : \A f \in Funs(l) : f.fn \notin Owning

(* Who keeps a connection that its loop may still use.                     *)
Kept(c) ==
  \/ c \in memo
  \/ Functor("remove", c, TRUE) \in Funs(Main)
  \/ Functor("destroyed", c, TRUE) \in Funs(home[c])

Registered(c) == conn[c].index = "added" \/ conn[c].mapped

KeptInv ==
  /\ \A l \in Loops : \A f \in Funs(l) : f.fn = "established" =>
       f.conn \in memo \/ Functor("destroyed", f.conn, TRUE) \in Funs(l)
  /\ \A l \in Loops : \A c \in Rng(active[l]) : Kept(c)
  /\ \A c \in Conns :
       Accepted(c) /\ Registered(c) /\ phase[home[c]] # "stopped" => Kept(c)

(* While the server goes on, what is not closed will be.                   *)
Closing(c) ==
  \/ Functor("forceClose", c, TRUE) \in Funs(home[c])
  \/ \E w \in Workers : holds[w] = c /\ wpc[w] = "forceCloseRun"

CloseInv ==
  Running => \A c \in Conns :
    /\ Accepted(c) /\ conn[c].state = "connected" => Kept(c)
    /\ Accepted(c) /\ conn[c].state = "disconnecting" => Closing(c)

(* Without the workers' forceClose(), a connection goes down once, if the  *)
(* callback of another did not close it with events in the active list.    *)
Once(c) == "forceClose" \notin scenario.workerOps /\ ~conn[c].cut

DownInv ==
  \A c \in Conns : Once(c) =>
    /\ conn[c].downs > 0 =>
         /\ conn[c].downs = 1 /\ conn[c].ups = 1
         /\ conn[c].state = "disconnected" /\ conn[c].interest = {} /\ conn[c].index # "added"
    /\ revents[c] \cap {"in", "hup"} # {} => conn[c].downs = 0 /\ conn[c].index = "added"
    /\ Running /\ Accepted(c) =>
         /\ c \notin memo => conn[c].downs = 1
         /\ \A l \in Loops : \A f \in Funs(l) :
              f.conn = c /\ f.fn \in {"remove", "destroyed"} => conn[c].downs = 1

LifeInv ==
  /\ KeepsPointers(scenario)
  /\ OpsInv /\ OpenInv /\ KeptInv /\ CloseInv /\ DownInv

-----------------------------------------------------------------------------
(***************************************************************************)
(* Sequences of functors.                                                  *)
(***************************************************************************)
LEMMA RngOfSeq ==
  ASSUME NEW S, NEW s \in Seq(S)
  PROVE  Rng(s) \subseteq S /\ Len(s) \in Nat /\ (s = <<>> <=> Rng(s) = {})
<1>1. Len(s) \in Nat /\ \A i \in 1..Len(s) : s[i] \in S
  BY ElementOfSeq, LenProperties
<1>2. s = <<>> <=> Len(s) = 0
  BY EmptySeq
<1>3. Len(s) # 0 => 1 \in 1..Len(s)
  BY <1>1
<1>4. Rng(s) \subseteq S
  BY <1>1 DEF Rng
<1>5. CASE Len(s) = 0
  <2>1. 1..Len(s) = {}
    BY <1>5
  <2>2. Rng(s) = {}
    BY <2>1 DEF Rng
  <2>3. QED
    BY <1>1, <1>2, <1>5, <2>2
<1>6. CASE Len(s) # 0
  <2>1. s[1] \in Rng(s)
    BY <1>3, <1>6 DEF Rng
  <2>2. QED
    BY <1>1, <1>2, <1>4, <1>6, <2>1
<1>7. QED
  BY <1>5, <1>6

LEMMA RngAppend ==
  ASSUME NEW S, NEW s \in Seq(S), NEW e \in S
  PROVE  Append(s, e) \in Seq(S) /\ Rng(Append(s, e)) = Rng(s) \cup {e}
<1> DEFINE t == Append(s, e)
<1>1. /\ t \in Seq(S) /\ Len(s) \in Nat /\ Len(t) = Len(s) + 1
      /\ \A i \in 1..Len(s) : t[i] = s[i]
      /\ t[Len(s) + 1] = e
  BY AppendProperties, LenProperties
<1> HIDE DEF t
<1>2. \A i \in 1..Len(t) : i \in 1..Len(s) \/ i = Len(s) + 1
  BY <1>1
<1>3. \A i \in 1..Len(s) : i \in 1..Len(t)
  BY <1>1
<1>4. Len(s) + 1 \in 1..Len(t)
  BY <1>1
<1>5. Rng(t) = Rng(s) \cup {e}
  BY <1>1, <1>2, <1>3, <1>4 DEF Rng
<1>6. QED
  BY <1>1, <1>5 DEF t

LEMMA RngTail ==
  ASSUME NEW S, NEW s \in Seq(S), s # <<>>
  PROVE  Tail(s) \in Seq(S) /\ Head(s) \in S /\ Rng(s) = Rng(Tail(s)) \cup {Head(s)}
<1> DEFINE t == Tail(s)
<1>1. Len(s) \in Nat \ {0} /\ s[1] \in S
  BY EmptySeq, ElementOfSeq, LenProperties
<1>2. /\ t \in Seq(S) /\ Len(t) = Len(s) - 1 /\ Head(s) = s[1]
      /\ \A i \in 1..Len(t) : t[i] = s[i + 1]
  BY HeadTailProperties
<1> HIDE DEF t
<1>3. \A i \in 1..Len(t) : i + 1 \in 1..Len(s)
  BY <1>1, <1>2
<1>4. \A i \in 1..Len(s) : i = 1 \/ (i - 1 \in 1..Len(t) /\ s[i] = t[i - 1])
  BY <1>1, <1>2
<1>5. Rng(s) = Rng(t) \cup {Head(s)}
  <2>1. Rng(s) \subseteq Rng(t) \cup {Head(s)}
    <3> SUFFICES ASSUME NEW i \in 1..Len(s) PROVE s[i] \in Rng(t) \cup {Head(s)}
      BY DEF Rng
    <3>1. CASE i = 1
      BY <1>2, <3>1
    <3>2. CASE i - 1 \in 1..Len(t) /\ s[i] = t[i - 1]
      BY <3>2 DEF Rng
    <3>3. QED
      BY <1>4, <3>1, <3>2
  <2>2. Rng(t) \subseteq Rng(s)
    BY <1>2, <1>3 DEF Rng
  <2>3. Head(s) \in Rng(s)
    BY <1>1, <1>2 DEF Rng
  <2>4. QED
    BY <2>1, <2>2, <2>3
<1>6. QED
  BY <1>1, <1>2, <1>5 DEF t

LEMMA EarlyAppend ==
  ASSUME NEW s \in Seq(Functors), NEW f \in Functors, Early(s),
         f.fn # "established" \/ \A g \in Rng(s) : g.conn # f.conn
  PROVE  Early(Append(s, f))
<1> DEFINE t == Append(s, f)
<1>1. /\ Len(s) \in Nat /\ Len(t) = Len(s) + 1
      /\ \A i \in 1..Len(s) : t[i] = s[i]
      /\ t[Len(s) + 1] = f
  BY AppendProperties, LenProperties
<1> HIDE DEF t
<1>2. ASSUME NEW i \in 1..Len(t), NEW j \in 1..Len(t),
             t[j].fn = "established", t[i].conn = t[j].conn
      PROVE  j <= i
  <2>1. CASE i = Len(s) + 1
    BY <1>1, <2>1
  <2>2. CASE i \in 1..Len(s) /\ j \in 1..Len(s)
    BY <1>1, <1>2, <2>2 DEF Early
  <2>3. CASE i \in 1..Len(s) /\ j = Len(s) + 1
    BY <1>1, <1>2, <2>3 DEF Rng
  <2>4. QED
    BY <1>1, <2>1, <2>2, <2>3
<1>3. QED
  BY <1>2 DEF Early, t

LEMMA EarlyTail ==
  ASSUME NEW s \in Seq(Functors), s # <<>>, Early(s)
  PROVE  /\ Early(Tail(s))
         /\ \A g \in Rng(Tail(s)) : g.fn = "established" => g.conn # Head(s).conn
<1> DEFINE t == Tail(s)
<1>1. Len(s) \in Nat \ {0}
  BY EmptySeq, LenProperties
<1>2. /\ Len(t) = Len(s) - 1 /\ Head(s) = s[1]
      /\ \A i \in 1..Len(t) : t[i] = s[i + 1]
  BY HeadTailProperties
<1> HIDE DEF t
<1>3. \A i \in 1..Len(t) : i + 1 \in 1..Len(s) /\ i + 1 # 1 /\ ~(i + 1 <= 1)
  BY <1>1, <1>2
<1>4. \A i, j \in 1..Len(t) : i + 1 <= j + 1 => i <= j
  BY <1>1, <1>2
<1>5. Early(t)
  BY <1>2, <1>3, <1>4 DEF Early
<1>6. ASSUME NEW i \in 1..Len(t), t[i].fn = "established" PROVE t[i].conn # Head(s).conn
  <2>1. 1 \in 1..Len(s)
    BY <1>1
  <2>2. QED
    BY <1>2, <1>3, <1>6, <2>1 DEF Early
<1>7. QED
  BY <1>5, <1>6 DEF t, Rng

-----------------------------------------------------------------------------
(***************************************************************************)
(* Pushes and pops: F is what is pushed to loop m.                         *)
(***************************************************************************)
Grows(m, F) ==
  /\ queue' \in [Loops -> Seq(Functors)]
  /\ \A l \in Loops : Early(queue'[l])
  /\ \A l \in Loops : Rng(queue'[l]) = IF l = m THEN Rng(queue[l]) \cup F ELSE Rng(queue[l])

LEMMA PushesNothing ==
  ASSUME TypeOK, OrderInv, UNCHANGED queue, NEW m \in Loops
  PROVE  Grows(m, {})
  BY DEF TypeOK, OrderInv, Grows

LEMMA PushesOne ==
  ASSUME TypeOK, OrderInv, NEW m \in Loops, NEW f \in Functors, queue' = Enqueue(m, f),
         f.fn # "established" \/ \A g \in Funs(m) : g.conn # f.conn
  PROVE  Grows(m, {f})
<1>1. queue' = [queue EXCEPT ![m] = Append(queue[m], f)]
  BY DEF Enqueue
<1>2. queue[m] \in Seq(Functors)
  BY DEF TypeOK
<1>3. /\ Append(queue[m], f) \in Seq(Functors)
      /\ Rng(Append(queue[m], f)) = Rng(queue[m]) \cup {f}
  BY <1>2, RngAppend
<1>4. Early(Append(queue[m], f))
  BY <1>2, EarlyAppend DEF OrderInv, Funs
<1>5. \A l \in Loops : queue'[l] = IF l = m THEN Append(queue[m], f) ELSE queue[l]
  BY <1>1 DEF TypeOK
<1>6. queue' \in [Loops -> Seq(Functors)]
  BY <1>1, <1>3 DEF TypeOK
<1>7. QED
  BY <1>3, <1>4, <1>5, <1>6 DEF Grows, OrderInv

LEMMA GrowsFuns ==
  ASSUME TypeOK, OrderInv, NEW m \in Loops, NEW F \in SUBSET Functors, Grows(m, F),
         UNCHANGED batch,
         \A f \in F : f.fn # "established" \/ \A g \in Funs(m) : g.conn # f.conn
  PROVE  /\ OrderInv'
         /\ \A l \in Loops : Funs(l)' = IF l = m THEN Funs(l) \cup F ELSE Funs(l)
<1>1. \A l \in Loops : Funs(l)' = IF l = m THEN Funs(l) \cup F ELSE Funs(l)
  BY DEF Grows, Funs
<1>2. \A l \in Loops : Early(queue'[l]) /\ Early(batch'[l])
  BY DEF Grows, OrderInv
<1>3. \A l \in Loops : \A f \in Rng(batch[l]), g \in Rng(queue'[l]) :
        g.fn = "established" => f.conn # g.conn
  BY DEF Grows, OrderInv, Funs
<1>4. QED
  BY <1>1, <1>2, <1>3 DEF OrderInv

Pops(l) ==
  /\ phase[l] = "tasks" /\ batch[l] # <<>>
  /\ batch' = [batch EXCEPT ![l] = Tail(@)]

LEMMA PopsFuns ==
  ASSUME TypeOK, OrderInv, NEW m \in Loops, NEW F \in SUBSET Functors, Grows(m, F),
         \A f \in F : f.fn # "established",
         NEW l \in Loops, Pops(l), NEW g, g = Head(batch[l])
  PROVE  /\ OrderInv' /\ batch' \in [Loops -> Seq(Functors)]
         /\ g \in Functors /\ g \in Funs(l)
         /\ \A k \in Loops : k # m => Funs(k)' \subseteq Funs(k)
         /\ Funs(m)' \subseteq Funs(m) \cup F /\ F \subseteq Funs(m)'
         /\ \A k \in Loops : Funs(k) \subseteq Funs(k)' \cup {g}
         /\ \A k \in Loops : k # l => Funs(k) \subseteq Funs(k)'
         /\ \A h \in Funs(l)' : h.fn = "established" => h.conn # g.conn
         /\ g.fn # "established" => \A h \in Funs(l) : h.fn = "established" => h.conn # g.conn
<1>1. batch[l] \in Seq(Functors) /\ batch[l] # <<>> /\ Early(batch[l])
  BY DEF TypeOK, OrderInv, Pops
<1>2. /\ Tail(batch[l]) \in Seq(Functors) /\ g \in Functors
      /\ Rng(batch[l]) = Rng(Tail(batch[l])) \cup {g}
  BY <1>1, RngTail
<1>3. /\ Early(Tail(batch[l]))
      /\ \A h \in Rng(Tail(batch[l])) : h.fn = "established" => h.conn # g.conn
  BY <1>1, EarlyTail
<1>4. \A k \in Loops : batch'[k] = IF k = l THEN Tail(batch[l]) ELSE batch[k]
  BY DEF Pops, TypeOK
<1>5. batch' \in [Loops -> Seq(Functors)]
  BY <1>2 DEF Pops, TypeOK
<1>6. \A k \in Loops : Rng(batch'[k]) \subseteq Rng(batch[k]) /\ Rng(batch[k]) \subseteq Rng(batch'[k]) \cup {g}
  BY <1>2, <1>4
<1>7. \A k \in Loops : Rng(queue'[k]) = IF k = m THEN Rng(queue[k]) \cup F ELSE Rng(queue[k])
  BY DEF Grows
<1>8. OrderInv'
  <2>1. \A k \in Loops : Early(queue'[k]) /\ Early(batch'[k])
    BY <1>3, <1>4 DEF Grows, OrderInv
  <2>2. \A k \in Loops : \A f \in Rng(batch'[k]), h \in Rng(queue'[k]) :
          h.fn = "established" => f.conn # h.conn
    BY <1>6, <1>7 DEF OrderInv
  <2>3. QED
    BY <2>1, <2>2 DEF OrderInv
<1>9. g \in Rng(batch[l])
  BY <1>2
<1>10. \A h \in Rng(queue'[l]) : h.fn = "established" => h.conn # g.conn
  BY <1>7, <1>9 DEF OrderInv
<1>11. /\ \A h \in Funs(l)' : h.fn = "established" => h.conn # g.conn
       /\ g.fn # "established" => \A h \in Funs(l) : h.fn = "established" => h.conn # g.conn
  BY <1>2, <1>3, <1>4, <1>7, <1>10 DEF Funs
<1>12. \A k \in Loops : k # l => batch'[k] = batch[k]
  BY <1>4
<1>13. /\ g \in Funs(l)
       /\ \A k \in Loops : k # m => Funs(k)' \subseteq Funs(k)
       /\ Funs(m)' \subseteq Funs(m) \cup F /\ F \subseteq Funs(m)'
  BY <1>6, <1>7, <1>9 DEF Funs
<1>14. /\ \A k \in Loops : Funs(k) \subseteq Funs(k)' \cup {g}
       /\ \A k \in Loops : k # l => Funs(k) \subseteq Funs(k)'
  <2>1. ASSUME NEW k \in Loops PROVE Funs(k) \subseteq Funs(k)' \cup {g}
    <3>1. Rng(batch[k]) \subseteq Rng(batch'[k]) \cup {g} /\ Rng(queue[k]) \subseteq Rng(queue'[k])
      BY <1>6, <1>7
    <3>2. QED
      BY <3>1 DEF Funs
  <2>2. ASSUME NEW k \in Loops, k # l PROVE Funs(k) \subseteq Funs(k)'
    <3>1. batch'[k] = batch[k] /\ Rng(queue[k]) \subseteq Rng(queue'[k])
      BY <1>7, <1>12, <2>2
    <3>2. QED
      BY <3>1 DEF Funs
  <2>3. QED
    BY <2>1, <2>2
<1>15. QED
  BY <1>2, <1>5, <1>8, <1>11, <1>13, <1>14

-----------------------------------------------------------------------------
(***************************************************************************)
(* Nearly every step is one on a connection that is established: it        *)
(* changes the record of c, pushes the functors F, bound to c, to loop m,  *)
(* and may take a functor bound to c from its batch.                       *)
(***************************************************************************)
Peers ==
  [sent : 0..scenario.messages, unread : 0..scenario.messages,
   end : {"open", "fin", "reset", "aborted"}, space : BOOLEAN]

WorkerPhases == {"idle", "send", "shutdown", "forceClose", "shutdownRun", "forceCloseRun", "done"}

RecordStep(c) ==
  /\ conn[c].ups = 1
  /\ conn' \in [Conns -> Connection] /\ \A d \in Conns : d # c => conn'[d] = conn[d]
  /\ conn'[c].ups = 1 /\ conn'[c].state # "connecting"
  /\ conn[c].cut => conn'[c].cut
  /\ conn'[c].state = "connected" =>
       conn'[c].downs = 0 /\ "in" \in conn'[c].interest /\ conn'[c].index = "added"
  /\ conn'[c].downs > 0 => "in" \notin conn'[c].interest
  /\ "in" \in revents'[c] => conn'[c].downs = 0 \/ conn'[c].cut
  /\ conn'[c].downs = 0 => (IsWriting(conn'[c]) <=> conn'[c].pending > 0)

BatchStep(c) == UNCHANGED batch \/ \E l \in Loops : Pops(l) /\ Head(batch[l]).conn = c

FunctorStep(c, m, F) ==
  /\ Grows(m, F)
  /\ \A f \in F : /\ f.conn = c /\ f.fn # "established" /\ (f.owns <=> f.fn \in Owning)
                  /\ m = IF f.fn = "remove" THEN Main ELSE home[c]

EventStep ==
  /\ active' \in [Loops -> Seq(Conns)]
  /\ \A l \in Loops : Rng(active'[l]) \subseteq Rng(active[l])
  /\ revents' \in [Conns -> SUBSET {"in", "out", "hup"}]
  /\ \A d \in Conns : /\ revents'[d] \subseteq revents[d]
                      /\ revents'[d] # {} => d \in Rng(active'[home[d]])

HoldStep(c) ==
  /\ holds' \in [Workers -> Conns \cup {None}] /\ wpc' \in [Workers -> WorkerPhases]
  /\ \A w \in Workers :
       /\ holds'[w] \in {holds[w], c, None}
       /\ wpc'[w] # "idle" => holds'[w] # None
       /\ holds[w] # c => wpc'[w] = wpc[w] /\ (holds'[w] = holds[w] \/ holds[w] = None)

PeerTypes ==
  peer' \in [Conns -> Peers] /\ \A d \in Conns : peer'[d].unread <= peer'[d].sent

Around(c) ==
  /\ UNCHANGED <<scenario, home, phase, quit>>
  /\ BatchStep(c) /\ EventStep /\ HoldStep(c) /\ PeerTypes

StepOn(c, m, F) ==
  /\ Around(c) /\ RecordStep(c) /\ FunctorStep(c, m, F)
  /\ memo' \subseteq memo /\ \A d \in memo : d # c => d \in memo'

LEMMA Homes ==
  ASSUME TypeOK
  PROVE  /\ Main \in Loops /\ IoLoops \subseteq Loops /\ None \notin Conns
         /\ \A c \in Conns : Accepted(c) => home[c] \in Loops
         /\ \A l \in Loops : Funs(l) \subseteq Functors
         /\ \A l \in Loops : Rng(active[l]) \subseteq Conns
         /\ \A f \in Functors : f.conn \in Conns
         /\ \A c \in Conns : conn[c] \in Connection
<1>1. \A l \in Loops : queue[l] \in Seq(Functors) /\ batch[l] \in Seq(Functors) /\ active[l] \in Seq(Conns)
  BY DEF TypeOK
<1>2. \A l \in Loops : Funs(l) \subseteq Functors /\ Rng(active[l]) \subseteq Conns
  BY <1>1, RngOfSeq DEF Funs
<1>3. \A f \in Functors : f.conn \in Conns
  BY DEF Functors
<1>4. QED
  BY <1>2, <1>3, ServerAssumption DEF TypeOK, Loops, Accepted

LEMMA StepFuns ==
  ASSUME TypeOK, OrderInv, NEW c \in Conns, NEW m \in Loops, NEW F \in SUBSET Functors,
         FunctorStep(c, m, F), BatchStep(c)
  PROVE  /\ OrderInv' /\ batch' \in [Loops -> Seq(Functors)]
         /\ \A k \in Loops : \A f \in Funs(k)' : f \in Funs(k) \/ (k = m /\ f \in F)
         /\ \A k \in Loops : \A f \in Funs(k) : f.conn # c => f \in Funs(k)'
         /\ F \subseteq Funs(m)'
         /\ \A k \in Loops : phase[k] # "tasks" => batch'[k] = batch[k]
<1>1. Grows(m, F) /\ \A f \in F : f.fn # "established"
  BY DEF FunctorStep
<1>2. CASE UNCHANGED batch
  <2>1. /\ OrderInv'
        /\ \A l \in Loops : Funs(l)' = IF l = m THEN Funs(l) \cup F ELSE Funs(l)
    BY <1>1, <1>2, GrowsFuns
  <2>2. QED
    BY <1>2, <2>1 DEF TypeOK
<1>3. CASE \E l \in Loops : Pops(l) /\ Head(batch[l]).conn = c
  <2>1. PICK l \in Loops : Pops(l) /\ Head(batch[l]).conn = c
    BY <1>3
  <2>2. PICK g : g = Head(batch[l]) /\ g.conn = c
    BY <2>1
  <2>3. /\ OrderInv' /\ batch' \in [Loops -> Seq(Functors)]
        /\ \A k \in Loops : k # m => Funs(k)' \subseteq Funs(k)
        /\ Funs(m)' \subseteq Funs(m) \cup F /\ F \subseteq Funs(m)'
        /\ \A k \in Loops : Funs(k) \subseteq Funs(k)' \cup {g}
    BY <1>1, <2>1, <2>2, PopsFuns
  <2>4. \A k \in Loops : phase[k] # "tasks" => batch'[k] = batch[k]
    BY <2>1 DEF Pops, TypeOK
  <2>5. QED
    BY <2>2, <2>3, <2>4
<1>4. QED
  BY <1>2, <1>3 DEF BatchStep

LEMMA StepKeeps ==
  ASSUME ServerInv, NEW c \in Conns, NEW m \in Loops, NEW F \in SUBSET Functors, StepOn(c, m, F)
  PROVE  ServerInv'
<1> USE DEF ServerInv
<1>1. /\ UNCHANGED <<scenario, home, phase, quit>>
      /\ RecordStep(c) /\ FunctorStep(c, m, F) /\ BatchStep(c)
      /\ EventStep /\ HoldStep(c) /\ PeerTypes
      /\ memo' \subseteq memo /\ \A d \in memo : d # c => d \in memo'
  BY DEF StepOn, Around
<1>2. /\ OrderInv' /\ batch' \in [Loops -> Seq(Functors)]
      /\ \A k \in Loops : \A f \in Funs(k)' : f \in Funs(k) \/ (k = m /\ f \in F)
      /\ \A k \in Loops : \A f \in Funs(k) : f.conn # c => f \in Funs(k)'
      /\ \A k \in Loops : phase[k] # "tasks" => batch'[k] = batch[k]
  BY <1>1, StepFuns
<1>3. /\ \A k \in Loops : Funs(k) \subseteq Functors
      /\ \A f \in Functors : f.conn \in Conns
      /\ \A d \in Conns : Accepted(d) => home[d] \in Loops
      /\ \A d \in Conns : conn[d] \in Connection
      /\ None \notin Conns
  BY Homes
<1>4. \A d \in Conns : Accepted(d)' <=> Accepted(d)
  BY <1>1 DEF Accepted
<1>5. Accepted(c)
  BY <1>1 DEF RecordStep, FreshInv
<1>6. TypeOK'
  <2>1. /\ conn' \in [Conns -> Connection] /\ queue' \in [Loops -> Seq(Functors)]
        /\ active' \in [Loops -> Seq(Conns)] /\ revents' \in [Conns -> SUBSET {"in", "out", "hup"}]
    BY <1>1 DEF RecordStep, FunctorStep, Grows, EventStep
  <2>2. holds' \in [Workers -> Conns \cup {None}] /\ wpc' \in [Workers -> WorkerPhases]
    BY <1>1 DEF HoldStep
  <2>3. peer' \in [Conns -> Peers]
    BY <1>1 DEF PeerTypes
  <2>4. memo' \subseteq Conns
    BY <1>1 DEF TypeOK
  <2>5. QED
    BY <1>1, <1>2, <2>1, <2>2, <2>3, <2>4 DEF TypeOK, Peers, WorkerPhases
<1>7. PlaceInv'
  <2>1. ASSUME NEW l \in Loops, NEW f \in Funs(l)'
        PROVE  /\ Accepted(f.conn)'
               /\ f.owns <=> f.fn \in Owning
               /\ l = IF f.fn = "remove" THEN Main ELSE home'[f.conn]
               /\ f.fn = "established" => l # Main
    <3>1. CASE f \in Funs(l)
      BY <1>1, <1>3, <1>4, <3>1 DEF PlaceInv
    <3>2. CASE l = m /\ f \in F
      BY <1>1, <1>4, <1>5, <3>2 DEF FunctorStep
    <3>3. QED
      BY <1>2, <2>1, <3>1, <3>2
  <2>2. \A l \in Loops : \A d \in Rng(active'[l]) : home'[d] = l
    BY <1>1 DEF EventStep, PlaceInv
  <2>3. \A d \in memo' : Accepted(d)'
    BY <1>1 DEF PlaceInv, Accepted
  <2>4. \A w \in Workers : holds'[w] # None => home'[holds'[w]] # None
    BY <1>1, <1>5 DEF HoldStep, PlaceInv, Accepted
  <2>5. QED
    BY <2>1, <2>2, <2>3, <2>4 DEF PlaceInv, Accepted
<1>8. PhaseInv'
  <2>1. \A l \in Loops : phase'[l] # "tasks" => batch'[l] = <<>>
    BY <1>1, <1>2 DEF PhaseInv
  <2>2. \A l \in Loops : phase'[l] # "events" => active'[l] = <<>>
    <3> SUFFICES ASSUME NEW l \in Loops, phase[l] # "events" PROVE active'[l] = <<>>
      BY <1>1
    <3>1. active[l] \in Seq(Conns) /\ active'[l] \in Seq(Conns) /\ active[l] = <<>>
      BY <1>1 DEF PhaseInv, TypeOK, EventStep
    <3>2. Rng(active[l]) = {}
      BY <3>1, RngOfSeq
    <3>3. Rng(active'[l]) = {}
      BY <1>1, <3>2 DEF EventStep
    <3>4. QED
      BY <3>1, <3>3, RngOfSeq
  <2>3. \A d \in Conns : revents'[d] # {} => Accepted(d)' /\ d \in Rng(active'[home'[d]])
    BY <1>1, <1>4 DEF EventStep, PhaseInv
  <2>4. \A w \in Workers : wpc'[w] # "idle" => holds'[w] # None
    BY <1>1 DEF HoldStep
  <2>5. \A d \in Conns : peer'[d].unread <= peer'[d].sent
    BY <1>1 DEF PeerTypes
  <2>6. ~quit'[Main] /\ \A l \in Loops : quit'[l] \/ phase'[l] = "stopped" => phase'[Main] = "stopped"
    BY <1>1 DEF PhaseInv
  <2>7. QED
    BY <2>1, <2>2, <2>3, <2>4, <2>5, <2>6 DEF PhaseInv
<1>9. FreshInv'
  <2>1. conn[c].ups = 1 /\ conn'[c].ups = 1 /\ conn'[c].state # "connecting"
    BY <1>1 DEF RecordStep
  <2>2. \A l \in Loops : \A f \in Funs(l)' : f.fn = "established" => f \in Funs(l) /\ f.conn # c
    <3> SUFFICES ASSUME NEW l \in Loops, NEW f \in Funs(l)', f.fn = "established"
                 PROVE  f \in Funs(l) /\ f.conn # c
      OBVIOUS
    <3>1. f \in Funs(l)
      BY <1>1, <1>2 DEF FunctorStep
    <3>2. QED
      BY <2>1, <3>1 DEF FreshInv
  <2>3. ASSUME NEW d \in Conns, d # c
        PROVE  /\ conn'[d] = conn[d]
               /\ \A l \in Loops : d \in Rng(active'[l]) => d \in Rng(active[l])
               /\ \A w \in Workers : holds'[w] = d => holds[w] = d
               /\ \A l \in Loops : \A f \in Funs(l)' : f.conn = d => f \in Funs(l)
               /\ \A l \in Loops : \A f \in Funs(l) : f.conn = d => f \in Funs(l)'
    <3>1. \A l \in Loops : \A f \in Funs(l)' : f.conn = d => f \in Funs(l)
      BY <1>1, <1>2, <2>3 DEF FunctorStep
    <3>2. \A w \in Workers : holds'[w] = d => holds[w] = d
      BY <1>1, <1>3, <2>3 DEF HoldStep
    <3>3. \A l \in Loops : \A f \in Funs(l) : f.conn = d => f \in Funs(l)'
      BY <1>2, <2>3
    <3>4. QED
      BY <1>1, <2>3, <3>1, <3>2, <3>3 DEF RecordStep, EventStep
  <2>4. ASSUME NEW d \in Conns, d # c
        PROVE  /\ conn'[d].ups <= 1
               /\ conn'[d].state = "connecting" => conn'[d].ups = 0
               /\ ~Accepted(d)' => conn'[d].ups = 0
               /\ conn'[d].ups = 0 =>
                    /\ conn'[d] = NewConnection
                    /\ \A l \in Loops : d \notin Rng(active'[l])
                    /\ \A w \in Workers : holds'[w] # d
                    /\ \A l \in Loops : \A f \in Funs(l)' : f.conn = d => f.fn \in {"established", "destroyed"}
    BY <1>4, <2>3, <2>4 DEF FreshInv
  <2>5. ASSUME NEW d \in Conns, d # c, conn'[d].ups = 0, Accepted(d)', phase'[home'[d]] # "stopped"
        PROVE  \E f \in Funs(home[d])' : f.fn = "established" /\ f.conn = d
    <3>1. conn[d].ups = 0 /\ Accepted(d) /\ phase[home[d]] # "stopped" /\ home[d] \in Loops
      BY <1>1, <1>3, <1>4, <2>3, <2>5
    <3>2. PICK f \in Funs(home[d]) : f.fn = "established" /\ f.conn = d
      BY <3>1 DEF FreshInv
    <3>3. PICK l \in Loops : l = home[d] /\ l = home'[d]
      BY <1>1, <3>1
    <3>4. f \in Funs(l)'
      BY <2>3, <2>5, <3>2, <3>3
    <3>5. QED
      BY <3>2, <3>3, <3>4 DEF Funs
  <2>6. ASSUME NEW d \in Conns, NEW l \in Loops, NEW f \in Funs(l)',
               f.fn = "established", f.conn = d
        PROVE  conn'[d].ups = 0
    <3>1. f \in Funs(l) /\ d # c
      BY <2>2, <2>6
    <3>2. QED
      BY <2>3, <2>6, <3>1 DEF FreshInv
  <2>7. ASSUME NEW d \in Conns, d # c, conn'[d].ups = 0
        PROVE  /\ conn'[d] = NewConnection
               /\ \A l \in Loops : d \notin Rng(active'[l])
               /\ \A w \in Workers : holds'[w] # d
               /\ \A l \in Loops : \A f \in Funs(l)' : f.conn = d => f.fn \in {"established", "destroyed"}
               /\ Accepted(d)' /\ phase'[home'[d]] # "stopped" =>
                    \E f \in Funs(home[d])' : f.fn = "established" /\ f.conn = d
    BY <2>4, <2>5, <2>7
  <2>8. \A d \in Conns : /\ conn'[d].ups <= 1
                         /\ conn'[d].state = "connecting" => conn'[d].ups = 0
                         /\ ~Accepted(d)' => conn'[d].ups = 0
    BY <1>4, <1>5, <2>1, <2>4
  <2>9. \A d \in Conns : conn'[d].ups = 0 => d # c
    BY <2>1
  <2>10. QED
    BY <2>6, <2>7, <2>8, <2>9 DEF FreshInv
<1>10. ReadInv'
  BY <1>1 DEF ReadInv, RecordStep, EventStep
<1>11. WriteInterest'
  BY <1>1 DEF WriteInterest, RecordStep
<1>12. QED
  BY <1>2, <1>6, <1>7, <1>8, <1>9, <1>10, <1>11

-----------------------------------------------------------------------------
(***************************************************************************)
(* What a step on c has to do for the lifetimes.                           *)
(***************************************************************************)
KeepStep(c) ==
  /\ Kept(c) /\ ~Kept(c)' =>
       ~Registered(c)' /\ conn'[c].state # "connected" /\ \A l \in Loops : c \notin Rng(active[l])
  /\ Registered(c)' => Kept(c)' \/ Registered(c)

CloseStep(c) ==
  /\ conn'[c].state = "connected" => conn[c].state = "connected"
  /\ Running /\ conn'[c].state = "disconnecting" => Closing(c)'

DownStep(c, F) ==
  "forceClose" \notin scenario.workerOps /\ ~conn'[c].cut =>
    /\ conn'[c].downs > 0 =>
         /\ conn'[c].downs = 1 /\ conn'[c].state = "disconnected"
         /\ conn'[c].interest = {} /\ conn'[c].index # "added"
    /\ conn[c].downs = 1 => conn'[c].downs = 1
    /\ revents'[c] \cap {"in", "hup"} # {} => conn'[c].downs = 0 /\ conn'[c].index = "added"
    /\ Running /\ c \notin memo' => conn'[c].downs = 1
    /\ Running => \A f \in F : f.fn \in {"remove", "destroyed"} => conn'[c].downs = 1

LifeOn(c, F) ==
  /\ \A f \in F : f.fn \in WorkerFunctors => f.fn \in scenario.workerOps
  /\ \A w \in Workers : OpsOf(w)'
  /\ StaysOpen(scenario) =>
       /\ UNCHANGED memo /\ \A f \in F : f.fn \notin Owning
       /\ \A d \in Conns : d # c => peer'[d] = peer[d]
       /\ peer'[c].end = "open" /\ ("in" \in revents'[c] => peer'[c].unread > 0)
  /\ KeepStep(c) /\ CloseStep(c) /\ DownStep(c, F)

LEMMA LifeStepKeeps ==
  ASSUME ServerInv, LifeInv, NEW c \in Conns, NEW m \in Loops, NEW F \in SUBSET Functors,
         StepOn(c, m, F), LifeOn(c, F)
  PROVE  LifeInv'
<1> USE DEF ServerInv, LifeInv
<1>1. /\ UNCHANGED <<scenario, home, phase, quit>>
      /\ RecordStep(c) /\ FunctorStep(c, m, F) /\ BatchStep(c)
      /\ EventStep /\ HoldStep(c) /\ PeerTypes
      /\ memo' \subseteq memo /\ \A d \in memo : d # c => d \in memo'
  BY DEF StepOn, Around
<1>2. /\ \A k \in Loops : \A f \in Funs(k)' : f \in Funs(k) \/ (k = m /\ f \in F)
      /\ \A k \in Loops : \A f \in Funs(k) : f.conn # c => f \in Funs(k)'
  BY <1>1, StepFuns
<1>3. \A d \in Conns : Accepted(d) => home[d] \in Loops /\ home'[d] = home[d]
  BY <1>1, Homes
<1>4. \A d \in Conns : (Accepted(d)' <=> Accepted(d)) /\ (d # c => conn'[d] = conn[d])
  BY <1>1 DEF Accepted, RecordStep
<1>5. Accepted(c) /\ conn[c].ups = 1 /\ conn'[c].ups = 1
  BY <1>1 DEF RecordStep, FreshInv
<1>6. \A f \in F : f.conn = c /\ f.fn # "established"
  BY <1>1 DEF FunctorStep
<1>7. KeepsPointers(scenario)' /\ (StaysOpen(scenario)' <=> StaysOpen(scenario)) /\ (Running' <=> Running)
  BY <1>1 DEF KeepsPointers, StaysOpen, Running
<1>8. ASSUME NEW d \in Conns, Accepted(d), NEW fn \in {"remove", "destroyed", "forceClose"}, d # c,
             NEW l \in Loops, Functor(fn, d, TRUE) \in Funs(l)
      PROVE  Functor(fn, d, TRUE) \in Funs(l)'
  BY <1>2, <1>8 DEF Functor
<1>9. ASSUME NEW d \in Conns, Accepted(d), d # c, Kept(d) PROVE Kept(d)'
  <2>1. PICK l \in Loops : l = home[d] /\ l = home'[d]
    BY <1>3, <1>9
  <2>2. Main \in Loops
    BY Homes
  <2>3. CASE d \in memo
    BY <1>1, <1>9, <2>3 DEF Kept
  <2>4. CASE Functor("remove", d, TRUE) \in Funs(Main)
    BY <1>8, <1>9, <2>2, <2>4 DEF Kept
  <2>5. CASE Functor("destroyed", d, TRUE) \in Funs(home[d])
    <3>1. Functor("destroyed", d, TRUE) \in Funs(l)'
      BY <1>8, <1>9, <2>1, <2>5
    <3>2. QED
      BY <2>1, <3>1 DEF Kept, Funs
  <2>6. QED
    BY <1>9, <2>3, <2>4, <2>5 DEF Kept
<1>10. OpsInv'
  <2>1. \A k \in Loops : \A f \in Funs(k)' : f.fn \in WorkerFunctors => f.fn \in scenario.workerOps
    BY <1>2 DEF LifeOn, OpsInv
  <2>2. QED
    BY <1>1, <2>1 DEF LifeOn, OpsInv
<1>11. OpenInv'
  <2> SUFFICES ASSUME StaysOpen(scenario)
               PROVE  /\ \A d \in Conns :
                           /\ Accepted(d)' => d \in memo'
                           /\ peer'[d].end = "open" /\ "hup" \notin revents'[d]
                           /\ "in" \in revents'[d] => peer'[d].unread > 0
                      /\ \A k \in Loops : \A f \in Funs(k)' : f.fn \notin Owning
    BY <1>7 DEF OpenInv
  <2>1. \A k \in Loops : \A f \in Funs(k)' : f.fn \notin Owning
    BY <1>2 DEF LifeOn, OpenInv
  <2>2. \A d \in Conns : revents'[d] \subseteq revents[d]
    BY <1>1 DEF EventStep
  <2>3. \A d \in Conns : /\ Accepted(d)' => d \in memo'
                         /\ peer'[d].end = "open" /\ "hup" \notin revents'[d]
                         /\ "in" \in revents'[d] => peer'[d].unread > 0
    BY <1>4, <2>2 DEF LifeOn, OpenInv
  <2>4. QED
    BY <2>1, <2>3
<1>12. KeptInv'
  <2>1. ASSUME NEW l \in Loops, NEW f \in Funs(l)', f.fn = "established"
        PROVE  f.conn \in memo' \/ Functor("destroyed", f.conn, TRUE) \in Funs(l)'
    <3>1. f \in Funs(l) /\ f \in Functors /\ f.conn \in Conns
      BY <1>2, <1>6, <2>1, Homes
    <3>2. conn[f.conn].ups = 0
      BY <2>1, <3>1 DEF FreshInv
    <3>3. PICK d \in Conns : d = f.conn /\ d # c /\ Accepted(d)
      BY <1>5, <3>1, <3>2 DEF PlaceInv
    <3>4. d \in memo \/ Functor("destroyed", d, TRUE) \in Funs(l)
      BY <2>1, <3>1, <3>3 DEF KeptInv
    <3>5. QED
      BY <1>1, <1>8, <3>3, <3>4
  <2>2. ASSUME NEW l \in Loops, NEW d \in Rng(active'[l]) PROVE Kept(d)'
    <3>1. d \in Rng(active[l]) /\ d \in Conns /\ Accepted(d)
      <4>1. d \in Rng(active[l]) /\ d \in Conns
        BY <1>1, <2>2, Homes DEF EventStep
      <4>2. home[d] = l
        BY <4>1 DEF PlaceInv
      <4>3. l # None
        BY ServerAssumption, <4>1, <4>2, <1>5 DEF PhaseInv, FreshInv, Accepted, PlaceInv
      <4>4. QED
        BY <4>1, <4>2, <4>3 DEF Accepted
    <3>2. Kept(d)
      BY <3>1 DEF KeptInv
    <3>3. QED
      BY <1>9, <3>1, <3>2 DEF LifeOn, KeepStep
  <2>3. ASSUME NEW d \in Conns, Accepted(d)', Registered(d)', phase'[home'[d]] # "stopped"
        PROVE  Kept(d)'
    <3>1. Accepted(d) /\ phase[home[d]] # "stopped"
      BY <1>1, <1>3, <1>4, <2>3
    <3>2. CASE d # c
      <4>1. Registered(d)
        BY <1>4, <2>3, <3>2 DEF Registered
      <4>2. QED
        BY <1>9, <3>1, <3>2, <4>1 DEF KeptInv
    <3>3. CASE d = c
      BY <2>3, <3>1, <3>3 DEF KeptInv, LifeOn, KeepStep
    <3>4. QED
      BY <3>2, <3>3
  <2>4. QED
    BY <2>1, <2>2, <2>3 DEF KeptInv
<1>13. CloseInv'
  <2> SUFFICES ASSUME Running, NEW d \in Conns, Accepted(d)
               PROVE  /\ conn'[d].state = "connected" => Kept(d)'
                      /\ conn'[d].state = "disconnecting" => Closing(d)'
    BY <1>4, <1>7 DEF CloseInv
  <2>1. CASE d = c
    BY <2>1 DEF CloseInv, LifeOn, KeepStep, CloseStep
  <2>2. CASE d # c
    <3>1. conn'[d] = conn[d]
      BY <1>4, <2>2
    <3>2. ASSUME Closing(d) PROVE Closing(d)'
      <4>1. PICK l \in Loops : l = home[d] /\ l = home'[d]
        BY <1>3
      <4>2. CASE Functor("forceClose", d, TRUE) \in Funs(home[d])
        <5>1. Functor("forceClose", d, TRUE) \in Funs(l)'
          BY <1>8, <2>2, <4>1, <4>2
        <5>2. QED
          BY <4>1, <5>1 DEF Closing, Funs
      <4>3. CASE \E w \in Workers : holds[w] = d /\ wpc[w] = "forceCloseRun"
        BY <1>1, <2>2, <4>3, Homes DEF HoldStep, Closing
      <4>4. QED
        BY <3>2, <4>2, <4>3 DEF Closing
    <3>3. QED
      BY <1>9, <2>2, <3>1, <3>2 DEF CloseInv
  <2>3. QED
    BY <2>1, <2>2
<1>14. DownInv'
  <2> SUFFICES ASSUME NEW d \in Conns, "forceClose" \notin scenario.workerOps, ~conn'[d].cut
               PROVE  /\ conn'[d].downs > 0 =>
                           /\ conn'[d].downs = 1 /\ conn'[d].ups = 1
                           /\ conn'[d].state = "disconnected" /\ conn'[d].interest = {}
                           /\ conn'[d].index # "added"
                      /\ revents'[d] \cap {"in", "hup"} # {} =>
                           conn'[d].downs = 0 /\ conn'[d].index = "added"
                      /\ Running /\ Accepted(d) =>
                           /\ d \notin memo' => conn'[d].downs = 1
                           /\ \A l \in Loops : \A f \in Funs(l)' :
                                f.conn = d /\ f.fn \in {"remove", "destroyed"} => conn'[d].downs = 1
    BY <1>1, <1>4, <1>7 DEF DownInv, Once
  <2>4. Once(d)
    BY <1>1, <1>4 DEF Once, RecordStep
  <2>1. CASE d = c
    <3>1. \A l \in Loops : \A f \in Funs(l)' :
            Running /\ f.conn = c /\ f.fn \in {"remove", "destroyed"} => conn'[c].downs = 1
      BY <1>2, <1>5, <2>1, <2>4 DEF DownInv, LifeOn, DownStep
    <3>2. QED
      BY <1>5, <2>1, <3>1 DEF LifeOn, DownStep
  <2>2. CASE d # c
    <3>1. conn'[d] = conn[d] /\ revents'[d] \subseteq revents[d] /\ (d \in memo => d \in memo')
      BY <1>1, <1>4, <2>2 DEF EventStep
    <3>2. \A l \in Loops : \A f \in Funs(l)' : f.conn = d => f \in Funs(l)
      BY <1>2, <1>6, <2>2
    <3>3. QED
      BY <2>4, <3>1, <3>2 DEF DownInv
  <2>3. QED
    BY <2>1, <2>2
<1>15. QED
  BY <1>7, <1>10, <1>11, <1>12, <1>13, <1>14

-----------------------------------------------------------------------------
(***************************************************************************)
(* The records the member functions leave.                                 *)
(***************************************************************************)
LEMMA ConnectionFields ==
  ASSUME NEW p \in Connection
  PROVE  /\ p.state \in States /\ p.interest \in SUBSET {"in", "out"} /\ p.index \in Indexes
         /\ p.mapped \in BOOLEAN /\ p.pending \in Nat /\ p.ups \in Nat /\ p.downs \in Nat
         /\ p.cut \in BOOLEAN
  BY DEF Connection

LEMMA Updated ==
  ASSUME NEW p \in Connection, NEW u, u = UpdateChannel(p)
  PROVE  /\ u \in Connection
         /\ u.index = IF p.index = "added" /\ p.interest = {} THEN "deleted" ELSE "added"
         /\ u.state = p.state /\ u.ups = p.ups /\ u.downs = p.downs /\ u.cut = p.cut
         /\ u.interest = p.interest /\ u.pending = p.pending
         /\ p.index = "added" => u.mapped = p.mapped
  BY DEF UpdateChannel, Connection, Indexes

LEMMA RecordEstablished ==
  ASSUME NEW r, r = Established(NewConnection)
  PROVE  /\ r \in Connection /\ r.state = "connected" /\ r.ups = 1 /\ r.downs = 0
         /\ ~IsWriting(r) /\ r.pending = 0 /\ r.index = "added" /\ "in" \in r.interest
<1> DEFINE q == [NewConnection EXCEPT !.state = "connected", !.ups = @ + 1]
           t == [q EXCEPT !.interest = @ \cup {"in"}]
<1>1. /\ q \in Connection /\ q.state = "connected" /\ q.ups = 1 /\ q.downs = 0
      /\ q.interest = {} /\ q.pending = 0 /\ q.index = "new"
  <2>1. NewConnection \in Connection
    BY DEF NewConnection, Connection, States, Indexes
  <2>2. /\ q.state = "connected" /\ q.ups = 1 /\ q.downs = 0
        /\ q.interest = {} /\ q.pending = 0 /\ q.index = "new"
    BY DEF NewConnection
  <2>3. PICK a \in Connection : a = [NewConnection EXCEPT !.state = "connected"]
    BY <2>1 DEF Connection, States
  <2>4. q = [a EXCEPT !.ups = @ + 1]
    BY <2>3 DEF NewConnection
  <2> HIDE DEF q
  <2>5. q \in Connection
    BY <2>4 DEF Connection
  <2>6. QED
    BY <2>2, <2>5
<1> HIDE DEF q
<1>4. /\ t \in Connection /\ t.state = "connected" /\ t.ups = 1 /\ t.downs = 0
      /\ t.interest = {"in"} /\ t.pending = 0 /\ t.index = "new"
  BY <1>1 DEF Connection
<1>2. r = UpdateChannel(t)
  BY DEF Established, EnableReading, q
<1> HIDE DEF t
<1>3. QED
  BY <1>2, <1>4, Updated DEF IsWriting

LEMMA RecordClosed ==
  ASSUME NEW p \in Connection, NEW r, r = Closed(p)
  PROVE  /\ r \in Connection /\ r.state = "disconnected" /\ r.ups = p.ups /\ r.downs = p.downs + 1
         /\ r.interest = {} /\ r.pending = p.pending /\ r.cut = p.cut
         /\ r.index = IF p.index = "added" THEN "deleted" ELSE "added"
<1> DEFINE q == [p EXCEPT !.state = "disconnected", !.downs = @ + 1]
           t == [q EXCEPT !.interest = {}]
<1>4. /\ q \in Connection /\ q.state = "disconnected" /\ q.ups = p.ups /\ q.downs = p.downs + 1
      /\ q.pending = p.pending /\ q.index = p.index /\ q.cut = p.cut
  <2>1. PICK a \in Connection : a = [p EXCEPT !.state = "disconnected"]
    BY DEF Connection, States
  <2>2. q = [a EXCEPT !.downs = @ + 1]
    BY <2>1 DEF Connection
  <2>3. /\ a.state = "disconnected" /\ a.ups = p.ups /\ a.downs = p.downs
        /\ a.pending = p.pending /\ a.index = p.index /\ a.cut = p.cut
    BY <2>1 DEF Connection
  <2> HIDE DEF q
  <2>4. q \in Connection
    BY <2>2 DEF Connection
  <2>5. QED
    BY <2>2, <2>3 DEF Connection
<1> HIDE DEF q
<1>1. /\ t \in Connection /\ t.state = "disconnected" /\ t.ups = p.ups /\ t.downs = p.downs + 1
      /\ t.interest = {} /\ t.pending = p.pending /\ t.index = p.index /\ t.cut = p.cut
  BY <1>4 DEF Connection
<1>2. r = UpdateChannel(t)
  BY DEF Closed, DisableAllEvents, q
<1> HIDE DEF t
<1>3. QED
  BY <1>1, <1>2, Updated

LEMMA RecordDestroyed ==
  ASSUME NEW p \in Connection, NEW r, r = Destroyed(p)
  PROVE  /\ r \in Connection /\ r.ups = p.ups /\ r.pending = p.pending /\ r.cut = p.cut
         /\ r.index = "deleted" /\ r.mapped = FALSE
         /\ IF p.state = "connected"
            THEN r.state = "disconnected" /\ r.downs = p.downs + 1 /\ r.interest = {}
            ELSE r.state = p.state /\ r.downs = p.downs /\ r.interest = p.interest
<1> DEFINE q == IF p.state = "connected"
                THEN DisableAllEvents([p EXCEPT !.state = "disconnected", !.downs = @ + 1]) ELSE p
<1>1. q \in Connection /\ q.ups = p.ups /\ q.pending = p.pending /\ q.cut = p.cut
      /\ IF p.state = "connected"
         THEN q.state = "disconnected" /\ q.downs = p.downs + 1 /\ q.interest = {}
         ELSE q.state = p.state /\ q.downs = p.downs /\ q.interest = p.interest
  BY RecordClosed DEF Closed
<1>2. r = RemoveChannel(q)
  BY DEF Destroyed
<1> HIDE DEF q
<1>3. QED
  BY <1>1, <1>2 DEF RemoveChannel, Connection, Indexes

(***************************************************************************)
(* What everything else leaves: the connection is as much up or down as it *)
(* was, and output that is pending is watched for.                         *)
(***************************************************************************)
Gentle(p, r) ==
  /\ r \in Connection /\ r.ups = p.ups /\ r.downs = p.downs /\ r.cut = p.cut
  /\ r.state \in {p.state, "disconnected"}
  /\ "in" \in r.interest <=> "in" \in p.interest
  /\ "in" \in p.interest /\ p.index = "added" => r.index = "added"
  /\ (IsWriting(p) <=> p.pending > 0) => (IsWriting(r) <=> r.pending > 0)
  /\ p.state = "disconnected" /\ p.interest = {} => r.interest = {} /\ r.index = p.index

Unmoved(p, r) == r.index = p.index /\ r.mapped = p.mapped

LEMMA GentleSame == \A p \in Connection : Gentle(p, p) /\ Unmoved(p, p)
  BY DEF Gentle, Unmoved

LEMMA GentleShutDown ==
  ASSUME NEW p \in Connection
  PROVE  /\ Gentle(p, ShutDown(p)) /\ Unmoved(p, ShutDown(p))
         /\ Gentle(p, ShutdownStore(p)) /\ Unmoved(p, ShutdownStore(p))
         /\ Gentle(p, ShutDown(ShutdownStore(p)))
<1>1. ASSUME NEW q \in Connection PROVE Gentle(q, ShutDown(q)) /\ Unmoved(q, ShutDown(q))
  BY <1>1 DEF Gentle, Unmoved, ShutDown, IsWriting, Connection
<1>2. Gentle(p, ShutdownStore(p)) /\ Unmoved(p, ShutdownStore(p)) /\ ShutdownStore(p) \in Connection
  BY DEF Gentle, Unmoved, ShutdownStore, IsWriting, Connection, States
<1>3. PICK q \in Connection : q = ShutdownStore(p)
  BY <1>2
<1>4. Gentle(p, q) /\ Gentle(q, ShutDown(q)) /\ Unmoved(p, q) /\ Unmoved(q, ShutDown(q))
  BY <1>1, <1>2, <1>3
<1>5. Gentle(p, ShutDown(q))
  BY <1>4 DEF Gentle, Unmoved
<1>6. QED
  BY <1>1, <1>2, <1>3, <1>5

LEMMA GentleSent ==
  ASSUME NEW p \in Connection, NEW outcome, NEW r, r = Sent(p, outcome)
  PROVE  Gentle(p, r)
<1>1. CASE p.state = "disconnected" \/ (WritesDirectly(p) /\ outcome \in {"taken", "broken"})
  BY <1>1, GentleSame DEF Sent
<1>2. CASE ~(p.state = "disconnected" \/ (WritesDirectly(p) /\ outcome \in {"taken", "broken"}))
  <2> DEFINE q == [p EXCEPT !.pending = @ + 1]
             t == [q EXCEPT !.interest = @ \cup {"out"}]
  <2>6. /\ q \in Connection /\ q.state = p.state /\ q.ups = p.ups /\ q.downs = p.downs
        /\ q.interest = p.interest /\ q.pending = p.pending + 1 /\ q.cut = p.cut
    BY DEF Connection
  <2> HIDE DEF q
  <2>1. /\ t \in Connection /\ t.state = p.state /\ t.ups = p.ups /\ t.downs = p.downs
        /\ t.interest = p.interest \cup {"out"} /\ t.pending = p.pending + 1 /\ t.cut = p.cut
    BY <2>6 DEF Connection
  <2>2. r = UpdateChannel(t)
    BY <1>2 DEF Sent, EnableWriting, q
  <2> HIDE DEF t
  <2>3. /\ r \in Connection /\ r.state = p.state /\ r.ups = p.ups /\ r.downs = p.downs
        /\ r.interest = p.interest \cup {"out"} /\ r.pending = p.pending + 1 /\ r.cut = p.cut
        /\ r.index = "added"
    BY <2>1, <2>2, Updated
  <2>4. p.pending \in Nat /\ p.state # "disconnected"
    BY <1>2, ConnectionFields
  <2>5. QED
    BY <2>3, <2>4 DEF Gentle, IsWriting
<1>3. QED
  BY <1>1, <1>2

LEMMA GentleWritten ==
  ASSUME NEW p \in Connection, NEW n \in 0..p.pending, NEW r, r = Written(p, n)
  PROVE  Gentle(p, r)
<1>1. CASE ~IsWriting(p) \/ n = 0
  BY <1>1, GentleSame DEF Written
<1>2. CASE IsWriting(p) /\ n # 0
  <2> DEFINE rest == [p EXCEPT !.pending = @ - n]
             t == [rest EXCEPT !.interest = @ \ {"out"}]
             done == UpdateChannel(t)
  <2>1. p.pending - n \in Nat
    BY ConnectionFields
  <2>2. /\ rest \in Connection /\ rest.state = p.state /\ rest.ups = p.ups /\ rest.downs = p.downs
        /\ rest.interest = p.interest /\ rest.pending = p.pending - n
        /\ rest.cut = p.cut /\ rest.index = p.index
    BY <2>1 DEF Connection
  <2>3. /\ t \in Connection /\ t.state = p.state /\ t.ups = p.ups /\ t.downs = p.downs
        /\ t.interest = p.interest \ {"out"} /\ t.pending = p.pending - n /\ t.cut = p.cut
    BY <2>1 DEF Connection
  <2>4. /\ rest.pending > 0 => r = rest
        /\ ~(rest.pending > 0) => r = IF done.state = "disconnecting" THEN ShutDown(done) ELSE done
    BY <1>2 DEF Written, DisableWriting
  <2> HIDE DEF rest, t
  <2>5. /\ done \in Connection /\ done.state = p.state /\ done.ups = p.ups /\ done.downs = p.downs
        /\ done.interest = p.interest \ {"out"} /\ done.pending = p.pending - n
        /\ done.cut = p.cut /\ ("in" \in p.interest => done.index = "added")
    BY <2>3, Updated
  <2> HIDE DEF done
  <2>6. CASE rest.pending > 0
    BY <1>2, <2>2, <2>4, <2>6 DEF Gentle, IsWriting
  <2>7. CASE ~(rest.pending > 0)
    <3>1. Gentle(p, done)
      BY <1>2, <2>1, <2>2, <2>5, <2>7 DEF Gentle, IsWriting
    <3>2. Gentle(done, ShutDown(done))
      BY <2>5, GentleShutDown
    <3>3. Gentle(p, ShutDown(done))
      BY <1>2, <3>1, <3>2 DEF Gentle, IsWriting
    <3>4. QED
      BY <2>4, <2>7, <3>1, <3>3
  <2>8. QED
    BY <2>6, <2>7
<1>3. QED
  BY <1>1, <1>2

-----------------------------------------------------------------------------
(***************************************************************************)
(* Gentle steps, and closing ones.                                         *)
(***************************************************************************)
LEMMA GentleOn ==
  ASSUME ServerInv, NEW c \in Conns, conn[c].ups = 1, NEW r, Gentle(conn[c], r),
         conn' = [conn EXCEPT ![c] = r], UNCHANGED memo, Around(c),
         NEW m \in Loops, NEW F \in SUBSET Functors, FunctorStep(c, m, F)
  PROVE  StepOn(c, m, F)
<1> USE DEF ServerInv
<1>1. /\ conn' \in [Conns -> Connection] /\ conn'[c] = r
      /\ \A d \in Conns : d # c => conn'[d] = conn[d]
  BY DEF TypeOK, Gentle
<1>2. revents'[c] \subseteq revents[c]
  BY DEF Around, EventStep
<1>3. conn[c].state # "connecting"
  BY DEF FreshInv
<1>4. RecordStep(c)
  <2>1. r.ups = 1 /\ r.state # "connecting" /\ r.downs = conn[c].downs /\ r.cut = conn[c].cut
    BY <1>3 DEF Gentle
  <2>6. r.state = "connected" => r.downs = 0 /\ "in" \in r.interest /\ r.index = "added"
    BY DEF Gentle, ReadInv
  <2>2. r.downs > 0 => "in" \notin r.interest
    BY <2>1 DEF Gentle, ReadInv
  <2>3. "in" \in revents'[c] => r.downs = 0 \/ r.cut
    BY <1>2, <2>1 DEF ReadInv
  <2>4. r.downs = 0 => (IsWriting(r) <=> r.pending > 0)
    BY <2>1 DEF Gentle, WriteInterest
  <2>5. QED
    BY <1>1, <2>1, <2>2, <2>3, <2>4, <2>6 DEF RecordStep
<1>5. QED
  BY <1>4 DEF StepOn

LEMMA GentleLife ==
  ASSUME ServerInv, LifeInv, NEW c \in Conns, conn[c].ups = 1, NEW r, Gentle(conn[c], r),
         conn' = [conn EXCEPT ![c] = r], UNCHANGED memo, Around(c),
         NEW F \in SUBSET Functors,
         \A f \in F : f.fn \in WorkerFunctors /\ f.fn \in scenario.workerOps,
         \A w \in Workers : OpsOf(w)',
         StaysOpen(scenario) =>
           /\ \A d \in Conns : d # c => peer'[d] = peer[d]
           /\ peer'[c].end = "open" /\ ("in" \in revents'[c] => peer'[c].unread > 0),
         Kept(c) => Kept(c)',
         Unmoved(conn[c], r) \/ (Kept(c)' /\ revents'[c] \cap {"in", "hup"} = {}),
         conn[c].state = "disconnecting" /\ Closing(c) => Closing(c)'
  PROVE  LifeOn(c, F)
<1> USE DEF ServerInv, LifeInv
<1>1. conn'[c] = r
  BY DEF TypeOK
<1>2. revents'[c] \subseteq revents[c] /\ Accepted(c)
  BY DEF Around, EventStep, FreshInv
<1>3. KeepStep(c)
  BY <1>1 DEF KeepStep, Registered, Unmoved
<1>4. CloseStep(c)
  BY <1>1, <1>2 DEF CloseStep, Gentle, CloseInv
<1>5. DownStep(c, F)
  <2> SUFFICES ASSUME "forceClose" \notin scenario.workerOps, ~r.cut
               PROVE  /\ r.downs > 0 =>
                           /\ r.downs = 1 /\ r.state = "disconnected" /\ r.interest = {} /\ r.index # "added"
                      /\ conn[c].downs = 1 => r.downs = 1
                      /\ revents'[c] \cap {"in", "hup"} # {} => r.downs = 0 /\ r.index = "added"
                      /\ Running /\ c \notin memo' => r.downs = 1
                      /\ Running => \A f \in F : f.fn \in {"remove", "destroyed"} => r.downs = 1
    BY <1>1 DEF DownStep
  <2>1. r.downs = conn[c].downs /\ Once(c)
    BY DEF Gentle, Once
  <2>2. r.downs > 0 => /\ r.downs = 1 /\ r.state = "disconnected"
                       /\ r.interest = {} /\ r.index # "added"
    BY <2>1 DEF DownInv, Gentle
  <2>3. revents'[c] \cap {"in", "hup"} # {} => r.downs = 0 /\ r.index = "added"
    BY <1>2, <2>1 DEF DownInv, Unmoved
  <2>4. Running /\ c \notin memo' => r.downs = 1
    BY <1>2, <2>1 DEF DownInv
  <2>5. \A f \in F : f.fn \notin {"remove", "destroyed"}
    BY DEF WorkerFunctors
  <2>6. QED
    BY <2>1, <2>2, <2>3, <2>4, <2>5
<1>6. \A f \in F : StaysOpen(scenario) => f.fn \notin Owning
  BY DEF WorkerFunctors, Owning, StaysOpen
<1>7. QED
  BY <1>3, <1>4, <1>5, <1>6 DEF LifeOn

LEMMA FunctorFields ==
  ASSUME NEW fn \in {"established", "destroyed", "send", "shutdown", "forceClose", "remove"},
         NEW c \in Conns, NEW o \in BOOLEAN
  PROVE  /\ Functor(fn, c, o) \in Functors /\ Functor(fn, c, o).fn = fn
         /\ Functor(fn, c, o).conn = c /\ Functor(fn, c, o).owns = o
  BY DEF Functor, Functors

LEMMA DestroyedFields ==
  ASSUME NEW c \in Conns
  PROVE  LET f == Functor("destroyed", c, TRUE)
         IN  f \in Functors /\ f.fn = "destroyed" /\ f.conn = c /\ f.owns = TRUE
<1> DEFINE f == Functor("destroyed", c, TRUE)
<1>1. f.fn = "destroyed" /\ f.conn = c /\ f.owns = TRUE
  BY DEF Functor
<1>2. f \in Functors
  BY DEF Functor, Functors
<1>3. QED
  BY <1>1, <1>2

LEMMA RemoveEffect ==
  ASSUME ServerInv, NEW l \in Loops, NEW c \in Conns, Accepted(c), RemoveConnection(l, c)
  PROVE  \E m \in Loops, f \in Functors :
           /\ Grows(m, {f})
           /\ \/ /\ l = Main /\ m = home[c] /\ f = Functor("destroyed", c, TRUE)
                 /\ memo' = memo \ {c}
              \/ /\ l # Main /\ m = Main /\ f = Functor("remove", c, TRUE)
                 /\ UNCHANGED memo
<1> USE DEF ServerInv
<1>1. home[c] \in Loops /\ Main \in Loops
  BY Homes
<1>2. CASE l = Main
  <2>1. Grows(home[c], {Functor("destroyed", c, TRUE)})
    BY <1>1, <1>2, FunctorFields, PushesOne DEF RemoveConnection
  <2>2. QED
    BY <1>1, <1>2, <2>1, FunctorFields DEF RemoveConnection
<1>3. CASE l # Main
  <2>1. Grows(Main, {Functor("remove", c, TRUE)})
    BY <1>1, <1>3, FunctorFields, PushesOne DEF RemoveConnection
  <2>2. QED
    BY <1>1, <1>3, <2>1, FunctorFields DEF RemoveConnection
<1>4. QED
  BY <1>2, <1>3

(* handleClose, whatever the state it starts from was changed to.          *)
ClosesFrom(c, q) ==
  /\ q \in Connection /\ q.ups = conn[c].ups /\ q.downs = conn[c].downs
  /\ q.index = conn[c].index /\ (conn[c].cut => q.cut)

LEMMA CloseOn ==
  ASSUME ServerInv, NEW l \in Loops, NEW c \in Conns, conn[c].ups = 1,
         NEW q, ClosesFrom(c, q), HandleClose(l, c, q), Around(c),
         "in" \notin revents'[c] \/ q.cut
  PROVE  \E m \in Loops, F \in SUBSET Functors :
           /\ StepOn(c, m, F)
           /\ /\ LifeInv /\ ~StaysOpen(scenario) /\ (\A w \in Workers : OpsOf(w)')
              /\ "forceClose" \notin scenario.workerOps /\ ~q.cut =>
                   /\ conn[c].downs = 0 /\ conn[c].index = "added"
                   /\ revents'[c] \cap {"in", "hup"} = {}
              => LifeOn(c, F)
<1> USE DEF ServerInv
<1>1. Accepted(c) /\ home[c] \in Loops
  BY Homes DEF FreshInv
<1>2. PICK m \in Loops, f \in Functors :
           /\ Grows(m, {f})
           /\ \/ /\ l = Main /\ m = home[c] /\ f = Functor("destroyed", c, TRUE)
                 /\ memo' = memo \ {c}
              \/ /\ l # Main /\ m = Main /\ f = Functor("remove", c, TRUE)
                 /\ UNCHANGED memo
  BY <1>1, RemoveEffect DEF HandleClose
<1>3. PICK r : r = Closed(q)
  OBVIOUS
<1>4. /\ conn' \in [Conns -> Connection] /\ conn'[c] = r
      /\ \A d \in Conns : d # c => conn'[d] = conn[d]
  BY <1>3, RecordClosed DEF HandleClose, TypeOK, ClosesFrom
<1>5. /\ r.state = "disconnected" /\ r.ups = 1 /\ r.downs = conn[c].downs + 1
      /\ r.interest = {} /\ r.index = IF conn[c].index = "added" THEN "deleted" ELSE "added"
      /\ conn[c].downs \in Nat /\ r.cut = q.cut /\ (conn[c].cut => r.cut)
  BY <1>3, RecordClosed, ConnectionFields DEF ClosesFrom
<1>6. RecordStep(c)
  BY <1>4, <1>5 DEF RecordStep
<1>7. /\ f.conn = c /\ f.owns
      /\ f.fn \in {"destroyed", "remove"} /\ (f.fn = "remove" <=> l # Main)
  BY <1>2 DEF Functor
<1>8. FunctorStep(c, m, {f})
  <2>1. f.owns <=> f.fn \in Owning
    BY <1>7 DEF Owning
  <2>2. m = IF f.fn = "remove" THEN Main ELSE home[c]
    BY <1>2, <1>7
  <2>3. QED
    BY <1>2, <1>7, <2>1, <2>2 DEF FunctorStep
<1>9. StepOn(c, m, {f})
  BY <1>2, <1>6, <1>8 DEF StepOn
<1>10. ASSUME LifeInv, ~StaysOpen(scenario), \A w \in Workers : OpsOf(w)',
              "forceClose" \notin scenario.workerOps /\ ~q.cut =>
                /\ conn[c].downs = 0 /\ conn[c].index = "added"
                /\ revents'[c] \cap {"in", "hup"} = {}
       PROVE  LifeOn(c, {f})
  <2>1. f \in Funs(m)'
    BY <1>2 DEF Grows, Funs
  <2>2. Kept(c)'
    <3>1. home'[c] = home[c]
      BY DEF Around
    <3>2. QED
      BY <1>2, <2>1, <3>1 DEF Kept, Funs
  <2>3. KeepStep(c) /\ CloseStep(c)
    BY <1>4, <1>5, <2>2 DEF KeepStep, CloseStep
  <2>4. DownStep(c, {f})
    BY <1>4, <1>5, <1>10 DEF DownStep
  <2>5. QED
    BY <1>7, <1>10, <2>3, <2>4 DEF LifeOn, WorkerFunctors
<1>11. QED
  BY <1>9, <1>10

-----------------------------------------------------------------------------
(***************************************************************************)
(* What the steps on a connection have in common.                          *)
(***************************************************************************)
Preserves == ServerInv' /\ (LifeInv => LifeInv')

LEMMA StepPreserves ==
  ASSUME ServerInv, NEW c \in Conns, NEW m \in Loops, NEW F \in SUBSET Functors,
         StepOn(c, m, F), LifeInv => LifeOn(c, F)
  PROVE  Preserves
  BY StepKeeps, LifeStepKeeps DEF Preserves

(* A socket from which everything was read, or nothing.                    *)
PeerEffect(c, unread) ==
  /\ PeerTypes
  /\ \A d \in Conns : d # c => peer'[d] = peer[d]
  /\ peer'[c].unread = unread
  /\ peer[c].end = "open" => peer'[c].end = "open"

LEMMA PeerFields ==
  ASSUME NEW p \in Peers
  PROVE  /\ p.sent \in 0..scenario.messages /\ p.unread \in 0..scenario.messages
         /\ p.end \in {"open", "fin", "reset", "aborted"} /\ p.space \in BOOLEAN
  BY DEF Peers

LEMMA PeerUpdates ==
  ASSUME NEW p \in Peers, NEW q
  PROVE  /\ \A b \in BOOLEAN : q = [p EXCEPT !.space = b] =>
              q \in Peers /\ q.end = p.end /\ q.sent = p.sent /\ q.unread = p.unread
         /\ \A u \in 0..scenario.messages : q = [p EXCEPT !.unread = u] =>
              q \in Peers /\ q.end = p.end /\ q.sent = p.sent /\ q.unread = u
         /\ \A e \in {"fin", "reset", "aborted"} : q = [p EXCEPT !.end = e] =>
              q \in Peers /\ q.end = e /\ q.sent = p.sent /\ q.unread = p.unread
  BY DEF Peers

LEMMA PeerChanges ==
  ASSUME TypeOK, PhaseInv, NEW c \in Conns, NEW u \in {0, peer[c].unread},
         \/ \E n : Wrote(c, u, n)
         \/ Failed(c, u)
         \/ peer' = [peer EXCEPT ![c].space = FALSE, ![c].unread = u]
         \/ UNCHANGED peer /\ u = peer[c].unread
  PROVE  PeerEffect(c, u)
<1>1. peer \in [Conns -> Peers] /\ \A d \in Conns : peer[d].unread <= peer[d].sent
  BY DEF TypeOK, Peers, PhaseInv
<1>2. u \in 0..scenario.messages /\ u <= peer[c].sent /\ peer[c].space \in BOOLEAN
  <2>1. scenario.messages \in Nat
    BY ServerAssumption DEF TypeOK, Scenario
  <2>2. /\ peer[c].unread \in 0..scenario.messages /\ peer[c].space \in BOOLEAN
        /\ peer[c].sent \in 0..scenario.messages
    BY <1>1, PeerFields
  <2>3. QED
    BY <1>1, <2>1, <2>2
<1> DEFINE o == peer[c]
<1>3. o \in Peers /\ o.end = peer[c].end /\ o.sent = peer[c].sent
  BY <1>1
<1>4. ASSUME NEW q \in Peers, peer' = [peer EXCEPT ![c] = q], q.unread = u, q.sent = peer[c].sent,
             peer[c].end = "open" => q.end = "open"
      PROVE  PeerEffect(c, u)
  BY <1>1, <1>2, <1>4 DEF PeerEffect, PeerTypes
<1>5. ASSUME NEW b \in BOOLEAN, peer' = [peer EXCEPT ![c].space = b, ![c].unread = u]
      PROVE  PeerEffect(c, u)
  <2> DEFINE p == [o EXCEPT !.space = b]
             q == [p EXCEPT !.unread = u]
  <2>1. peer' = [peer EXCEPT ![c] = q]
    BY <1>1, <1>5
  <2> HIDE DEF o
  <2>2. p \in Peers /\ p.end = o.end /\ p.sent = o.sent
    BY <1>3, PeerUpdates
  <2> HIDE DEF p
  <2>3. q \in Peers /\ q.end = p.end /\ q.sent = p.sent /\ q.unread = u
    BY <1>2, <2>2, PeerUpdates
  <2> HIDE DEF q
  <2>4. QED
    BY <1>3, <1>4, <2>1, <2>2, <2>3
<1>6. CASE \E n : Wrote(c, u, n)
  BY <1>2, <1>5, <1>6 DEF Wrote
<1>7. CASE Failed(c, u)
  <2> DEFINE p == [o EXCEPT !.unread = u]
             q == [p EXCEPT !.end = IF o.end = "reset" THEN "aborted" ELSE o.end]
  <2>1. peer' = [peer EXCEPT ![c] = q]
    <3>1. peer' = [peer EXCEPT ![c].unread = u,
                               ![c].end = IF peer[c].end = "reset" THEN "aborted" ELSE peer[c].end]
      BY <1>1, <1>7 DEF Failed, Peers
    <3>2. QED
      BY <1>1, <3>1
  <2> HIDE DEF o
  <2>2. p \in Peers /\ p.end = o.end /\ p.sent = o.sent /\ p.unread = u
    BY <1>2, <1>3, PeerUpdates
  <2> HIDE DEF p
  <2>3. q = IF p.end = "reset" THEN [p EXCEPT !.end = "aborted"] ELSE p
    BY <2>2 DEF Peers
  <2> HIDE DEF q
  <2>4. /\ q \in Peers /\ q.sent = p.sent /\ q.unread = u
        /\ p.end = "open" => q.end = "open"
    BY <2>2, <2>3, PeerUpdates
  <2>5. QED
    BY <1>3, <1>4, <2>1, <2>2, <2>4
<1>8. CASE UNCHANGED peer /\ u = peer[c].unread
  BY <1>1, <1>8 DEF PeerEffect, PeerTypes
<1>9. QED
  BY <1>2, <1>5, <1>6, <1>7, <1>8

LEMMA SendChanges ==
  ASSUME TypeOK, PhaseInv, NEW c \in Conns, NEW u \in {0, peer[c].unread}, Send(c, u)
  PROVE  PeerEffect(c, u) /\ \E r : Gentle(conn[c], r) /\ Become(c, r)
<1>1. PICK outcome \in WriteOutcomes(c) :
        /\ Become(c, Sent(conn[c], outcome))
        /\ CASE ~WritesDirectly(conn[c]) -> Wrote(c, u, 0)
             [] outcome = "taken"        -> Wrote(c, u, 1)
             [] outcome = "partial"      -> peer' = [peer EXCEPT ![c].space = FALSE, ![c].unread = u]
             [] OTHER                    -> Failed(c, u)
  BY DEF Send
<1>2. \/ \E n : Wrote(c, u, n)
      \/ Failed(c, u)
      \/ peer' = [peer EXCEPT ![c].space = FALSE, ![c].unread = u]
  BY <1>1
<1>3. PeerEffect(c, u)
  BY <1>2, PeerChanges
<1>4. Gentle(conn[c], Sent(conn[c], outcome))
  BY Homes, GentleSent
<1>5. QED
  BY <1>1, <1>3, <1>4

(* Nobody but c is handed to a worker, and by its own loop.                *)
LEMMA HoldsGrow ==
  ASSUME TypeOK, PhaseInv, NEW c \in Conns, UNCHANGED <<scenario, wpc>>,
         UNCHANGED holds \/ \E w \in Workers : holds[w] = None /\ holds' = [holds EXCEPT ![w] = c]
  PROVE  /\ HoldStep(c) /\ (OpsInv => \A w \in Workers : OpsOf(w)')
         /\ \A w \in Workers : holds[w] # None => holds'[w] = holds[w]
<1>1. c # None
  BY ServerAssumption
<1>2. OpsInv => \A w \in Workers : OpsOf(w)'
  BY DEF OpsInv, OpsOf
<1>3. /\ holds' \in [Workers -> Conns \cup {None}]
      /\ \A w \in Workers : holds'[w] = holds[w] \/ (holds[w] = None /\ holds'[w] = c)
  <2>1. holds \in [Workers -> Conns \cup {None}]
    BY DEF TypeOK
  <2>2. CASE UNCHANGED holds
    BY <2>1, <2>2
  <2>3. ASSUME NEW w \in Workers, holds[w] = None, holds' = [holds EXCEPT ![w] = c]
        PROVE  /\ holds' \in [Workers -> Conns \cup {None}]
               /\ \A v \in Workers : holds'[v] = holds[v] \/ (holds[v] = None /\ holds'[v] = c)
    <3>1. c \in Conns \cup {None}
      OBVIOUS
    <3>2. holds' \in [Workers -> Conns \cup {None}]
      BY <2>1, <2>3, <3>1
    <3>3. \A v \in Workers : holds'[v] = IF v = w THEN c ELSE holds[v]
      BY <2>1, <2>3
    <3>4. QED
      BY <2>3, <3>2, <3>3
  <2>4. QED
    BY <2>2, <2>3
<1>4. wpc' \in [Workers -> WorkerPhases]
  BY DEF TypeOK, WorkerPhases
<1>5. QED
  BY <1>1, <1>2, <1>3, <1>4 DEF HoldStep, PhaseInv

LEMMA HandlerFacts ==
  ASSUME ServerInv, NEW l \in Loops, NEW c \in Conns, NEW E, Handling(l, c), Handled(l, c, E)
  PROVE  /\ home[c] = l /\ Accepted(c) /\ conn[c].ups = 1 /\ c \in Rng(active[l])
         /\ phase[l] # "stopped"
         /\ UNCHANGED <<home, phase, batch, quit, wpc>>
         /\ EventStep /\ revents'[c] = revents[c] \ E
<1> USE DEF ServerInv
<1>1. /\ active[l] \in Seq(Conns) /\ active[l] # <<>> /\ c = Head(active[l])
      /\ phase[l] # "stopped"
  BY DEF TypeOK, Handling
<1>2. Tail(active[l]) \in Seq(Conns) /\ Rng(active[l]) = Rng(Tail(active[l])) \cup {c}
  BY <1>1, RngTail
<1>3. home[c] = l
  BY <1>2 DEF PlaceInv
<1>4. conn[c].ups = 1
  <2>1. conn[c].ups # 0 /\ conn[c].ups <= 1 /\ conn[c].ups \in Nat
    BY <1>2, Homes, ConnectionFields DEF FreshInv
  <2>2. QED
    BY <2>1
<1>5. /\ \A d \in Conns : d # c => revents'[d] = revents[d]
      /\ revents'[c] = revents[c] \ E
      /\ revents' \in [Conns -> SUBSET {"in", "out", "hup"}]
  BY DEF Handled, TypeOK
<1>6. active' = IF revents[c] \subseteq E THEN [active EXCEPT ![l] = Tail(active[l])] ELSE active
  BY DEF Handled
<1>7. /\ active' \in [Loops -> Seq(Conns)]
      /\ \A k \in Loops : k # l => active'[k] = active[k]
      /\ active'[l] = IF revents[c] \subseteq E THEN Tail(active[l]) ELSE active[l]
  BY <1>2, <1>6 DEF TypeOK
<1>8. ASSUME NEW d \in Conns, revents'[d] # {} PROVE d \in Rng(active'[home[d]])
  <2>1. revents[d] # {}
    BY <1>5, <1>8
  <2>2. d \in Rng(active[home[d]]) /\ Accepted(d)
    BY <2>1 DEF PhaseInv
  <2>3. PICK k \in Loops : k = home[d]
    BY <2>2, Homes
  <2>4. CASE revents[c] \subseteq E
    <3>1. d # c
      BY <1>5, <1>8, <2>4
    <3>2. QED
      BY <1>2, <1>7, <2>2, <2>3, <3>1
  <2>5. CASE ~(revents[c] \subseteq E)
    BY <1>7, <2>2, <2>3, <2>5
  <2>6. QED
    BY <2>4, <2>5
<1>9. EventStep
  BY <1>2, <1>5, <1>7, <1>8 DEF EventStep
<1>10. QED
  BY <1>1, <1>2, <1>3, <1>4, <1>5, <1>9 DEF Handled, FreshInv

-----------------------------------------------------------------------------
(***************************************************************************)
(* The channel handlers: OnHangUp, OnRead and OnWrite.                     *)
(***************************************************************************)
LEMMA GentleHandler ==
  ASSUME ServerInv, UNCHANGED scenario, NEW l \in Loops, NEW c \in Conns, NEW E,
         Handling(l, c), Handled(l, c, E), revents[c] \cap {"in", "hup"} \subseteq E,
         NEW r, Gentle(conn[c], r), Become(c, r),
         NEW u, PeerEffect(c, u),
         UNCHANGED holds \/ \E w \in Workers : holds[w] = None /\ holds' = [holds EXCEPT ![w] = c]
  PROVE  Preserves
<1> USE DEF ServerInv
<1>1. /\ home[c] = l /\ Accepted(c) /\ conn[c].ups = 1 /\ c \in Rng(active[l])
      /\ UNCHANGED <<home, phase, batch, quit, wpc>>
      /\ EventStep /\ revents'[c] = revents[c] \ E
  BY HandlerFacts
<1>2. /\ HoldStep(c) /\ (OpsInv => \A w \in Workers : OpsOf(w)')
      /\ \A w \in Workers : holds[w] # None => holds'[w] = holds[w]
  BY <1>1, HoldsGrow
<1>3. Around(c)
  BY <1>1, <1>2 DEF Around, BatchStep, PeerEffect
<1>4. conn' = [conn EXCEPT ![c] = r] /\ UNCHANGED memo /\ UNCHANGED queue
  BY DEF Become
<1>5. FunctorStep(c, l, {})
  BY <1>4, PushesNothing DEF FunctorStep
<1>6. StepOn(c, l, {})
  BY <1>1, <1>3, <1>4, <1>5, GentleOn
<1>7. ASSUME LifeInv PROVE LifeOn(c, {})
  <2>1. Kept(c) /\ Kept(c)'
    BY <1>1, <1>4, <1>7 DEF LifeInv, KeptInv, Kept, Funs
  <2>2. conn[c].state = "disconnecting" /\ Closing(c) => Closing(c)'
    BY <1>1, <1>2, <1>4, ServerAssumption DEF Closing, Funs
  <2>3. revents'[c] \cap {"in", "hup"} = {}
    BY <1>1
  <2>4. \A w \in Workers : OpsOf(w)'
    BY <1>2, <1>7 DEF LifeInv
  <2>5. StaysOpen(scenario) =>
          /\ \A d \in Conns : d # c => peer'[d] = peer[d]
          /\ peer'[c].end = "open" /\ ("in" \in revents'[c] => peer'[c].unread > 0)
    BY <1>7, <2>3 DEF PeerEffect, LifeInv, OpenInv
  <2>6. QED
    BY <1>1, <1>3, <1>4, <1>7, <2>1, <2>2, <2>3, <2>4, <2>5, GentleLife
<1>8. QED
  BY <1>6, <1>7, StepPreserves

LEMMA CloseHandler ==
  ASSUME ServerInv, UNCHANGED scenario, NEW l \in Loops, NEW c \in Conns, NEW E,
         Handling(l, c), Handled(l, c, E), "in" \notin revents[c] \ E,
         revents[c] \cap {"in", "hup"} # {},
         NEW q, ClosesFrom(c, q), HandleClose(l, c, q), NEW u, PeerEffect(c, u), UNCHANGED holds,
         LifeInv => ~StaysOpen(scenario),
         LifeInv => revents[c] \cap {"in", "hup"} \subseteq E
  PROVE  Preserves
<1> USE DEF ServerInv
<1>1. /\ home[c] = l /\ Accepted(c) /\ conn[c].ups = 1 /\ c \in Rng(active[l])
      /\ UNCHANGED <<home, phase, batch, quit, wpc>>
      /\ EventStep /\ revents'[c] = revents[c] \ E
  BY HandlerFacts
<1>2. HoldStep(c) /\ (OpsInv => \A w \in Workers : OpsOf(w)')
  BY <1>1, HoldsGrow
<1>3. Around(c)
  BY <1>1, <1>2 DEF Around, BatchStep, PeerEffect
<1>4. LifeInv =>
        /\ ~StaysOpen(scenario) /\ \A w \in Workers : OpsOf(w)'
        /\ "forceClose" \notin scenario.workerOps /\ ~q.cut =>
             /\ conn[c].downs = 0 /\ conn[c].index = "added"
             /\ revents'[c] \cap {"in", "hup"} = {}
  BY <1>1, <1>2 DEF LifeInv, DownInv, Once, ClosesFrom
<1>5. \E m \in Loops, F \in SUBSET Functors : StepOn(c, m, F) /\ (LifeInv => LifeOn(c, F))
  BY <1>1, <1>3, <1>4, CloseOn
<1>6. QED
  BY <1>5, StepPreserves

LEMMA HangUpPreserves ==
  ASSUME ServerInv, UNCHANGED scenario, NEW l \in Loops, NEW c \in Conns, OnHangUp(l, c)
  PROVE  Preserves
<1>1. ClosesFrom(c, conn[c])
  BY Homes DEF ClosesFrom, ServerInv
<1>2. PeerEffect(c, peer[c].unread)
  BY PeerChanges DEF ServerInv, OnHangUp
<1>3. LifeInv => ~StaysOpen(scenario)
  BY DEF LifeInv, OpenInv, OnHangUp
<1>4. QED
  BY <1>1, <1>2, <1>3, CloseHandler DEF OnHangUp

LEMMA WritePreserves ==
  ASSUME ServerInv, UNCHANGED scenario, NEW l \in Loops, NEW c \in Conns, OnWrite(l, c)
  PROVE  Preserves
<1>1. PICK n :
        /\ n \in IF IsWriting(conn[c]) /\ peer[c].space /\ ~IsReset(c) THEN 1..conn[c].pending ELSE {0}
        /\ Become(c, Written(conn[c], n))
        /\ Failed(c, peer[c].unread) \/ Wrote(c, peer[c].unread, n)
  BY DEF OnWrite
<1>2. conn[c] \in Connection /\ conn[c].pending \in Nat
  BY Homes, ConnectionFields DEF ServerInv
<1>3. Gentle(conn[c], Written(conn[c], n))
  BY <1>1, <1>2, GentleWritten
<1>4. PeerEffect(c, peer[c].unread)
  BY <1>1, PeerChanges DEF ServerInv
<1>5. QED
  BY <1>1, <1>3, <1>4, GentleHandler DEF OnWrite

(* The callback of c closes d, another connection of its loop.             *)
LEMMA CloseOtherPreserves ==
  ASSUME ServerInv, UNCHANGED scenario, NEW l \in Loops, NEW c \in Conns, NEW E,
         Handling(l, c), Handled(l, c, E), NEW u, PeerEffect(c, u), UNCHANGED holds,
         "closeOther" \in scenario.userOps,
         NEW d \in Others(l, c), MayForceClose(conn[d]),
         HandleClose(l, d, [ForceCloseStore(conn[d]) EXCEPT !.cut = @ \/ revents[d] # {}])
  PROVE  Preserves
<1> USE DEF ServerInv
<1>1. UNCHANGED <<home, phase, batch, quit, wpc>> /\ EventStep
  BY HandlerFacts
<1>2. d \in Conns /\ d # c /\ conn[d] \in Connection /\ conn[d].ups = 1
  <2>1. d \in Conns /\ d # c /\ conn[d].ups > 0
    BY DEF Others, OnLoop
  <2>2. conn[d] \in Connection /\ conn[d].ups \in Nat /\ conn[d].ups <= 1
    BY <2>1, Homes, ConnectionFields DEF FreshInv
  <2>3. QED
    BY <2>1, <2>2
<1>3. conn[d].downs = 0 /\ conn[d].index = "added"
  BY <1>2 DEF MayForceClose, FreshInv, ReadInv
<1>4. PICK q : q = [ForceCloseStore(conn[d]) EXCEPT !.cut = @ \/ revents[d] # {}]
  OBVIOUS
<1>5. ClosesFrom(d, q) /\ (revents[d] # {} => q.cut)
  <2> DEFINE p == ForceCloseStore(conn[d])
  <2>1. /\ p \in Connection /\ p.ups = conn[d].ups /\ p.downs = conn[d].downs
        /\ p.index = conn[d].index /\ p.cut = conn[d].cut
    BY <1>2 DEF ForceCloseStore, Connection, States
  <2> HIDE DEF p
  <2>2. q = [p EXCEPT !.cut = p.cut \/ revents[d] # {}]
    BY <1>4 DEF p
  <2>3. /\ q \in Connection /\ q.ups = p.ups /\ q.downs = p.downs /\ q.index = p.index
        /\ q.cut = (p.cut \/ revents[d] # {})
    BY <2>1, <2>2 DEF Connection
  <2>4. QED
    BY <2>1, <2>3 DEF ClosesFrom
<1>6. HoldStep(d) /\ (OpsInv => \A w \in Workers : OpsOf(w)')
  BY <1>1, <1>2, HoldsGrow
<1>7. Around(d)
  BY <1>1, <1>6 DEF Around, BatchStep, PeerEffect
<1>8. revents'[d] = revents[d]
  BY <1>2 DEF Handled, TypeOK
<1>9. LifeInv =>
        /\ ~StaysOpen(scenario) /\ \A w \in Workers : OpsOf(w)'
        /\ "forceClose" \notin scenario.workerOps /\ ~q.cut =>
             /\ conn[d].downs = 0 /\ conn[d].index = "added"
             /\ revents'[d] \cap {"in", "hup"} = {}
  BY <1>3, <1>5, <1>6, <1>8 DEF LifeInv, StaysOpen
<1>10. "in" \notin revents'[d] \/ q.cut
  BY <1>5, <1>8
<1>11. HandleClose(l, d, q)
  BY <1>4
<1>12. \E m \in Loops, F \in SUBSET Functors : StepOn(d, m, F) /\ (LifeInv => LifeOn(d, F))
  BY <1>2, <1>5, <1>7, <1>9, <1>10, <1>11, CloseOn
<1>13. QED
  BY <1>2, <1>12, StepPreserves

LEMMA ReadPreserves ==
  ASSUME ServerInv, UNCHANGED scenario, NEW l \in Loops, NEW c \in Conns, OnRead(l, c)
  PROVE  Preserves
<1> DEFINE E == {"in", "hup"}
<1>1. Handling(l, c) /\ Handled(l, c, E) /\ "in" \in revents[c]
  BY DEF OnRead
<1>2. TypeOK /\ PhaseInv /\ conn[c] \in Connection
  BY Homes DEF ServerInv
<1>3. ClosesFrom(c, conn[c]) /\ Gentle(conn[c], conn[c])
  BY <1>2, GentleSame DEF ClosesFrom
<1>4. CASE peer[c].unread > 0
  <2>1. PICK op : Callback(l, c, op)
    BY <1>4 DEF OnRead
  <2>2. Wrote(c, 0, 0) => PeerEffect(c, 0)
    BY <1>2, PeerChanges
  <2>3. CASE op = "none" \/ op = "hand"
    BY <1>1, <1>3, <2>1, <2>2, <2>3, GentleHandler DEF Callback
  <2>4. CASE op = "send"
    <3>1. CASE MaySend(conn[c])
      <4>1. PeerEffect(c, 0) /\ \E r : Gentle(conn[c], r) /\ Become(c, r)
        BY <1>2, <2>1, <2>4, <3>1, SendChanges DEF Callback
      <4>2. UNCHANGED holds
        BY <2>1, <2>4 DEF Callback
      <4>3. QED
        BY <1>1, <4>1, <4>2, GentleHandler
    <3>2. CASE ~MaySend(conn[c])
      BY <1>1, <1>3, <2>1, <2>2, <2>4, <3>2, GentleHandler DEF Callback
    <3>3. QED
      BY <3>1, <3>2
  <2>5. CASE op = "shutdown"
    <3>1. \E r : Gentle(conn[c], r) /\ Become(c, r)
      BY <1>2, <1>3, <2>1, <2>5, GentleShutDown DEF Callback
    <3>2. UNCHANGED holds /\ Wrote(c, 0, 0)
      BY <2>1, <2>5 DEF Callback
    <3>3. QED
      BY <1>1, <2>2, <3>1, <3>2, GentleHandler
  <2>6. CASE op = "forceClose"
    <3>1. UNCHANGED holds /\ Wrote(c, 0, 0) /\ "forceClose" \in scenario.userOps
      BY <2>1, <2>6 DEF Callback
    <3>2. CASE MayForceClose(conn[c])
      <4>1. HandleClose(l, c, ForceCloseStore(conn[c]))
        BY <2>1, <2>6, <3>2 DEF Callback
      <4>2. ClosesFrom(c, ForceCloseStore(conn[c]))
        BY <1>2 DEF ClosesFrom, ForceCloseStore, Connection, States
      <4>3. ~StaysOpen(scenario)
        BY <3>1 DEF StaysOpen
      <4>4. QED
        BY <1>1, <2>2, <3>1, <4>1, <4>2, <4>3, CloseHandler
    <3>3. CASE ~MayForceClose(conn[c])
      BY <1>1, <1>3, <2>1, <2>2, <2>6, <3>1, <3>3, GentleHandler DEF Callback
    <3>4. QED
      BY <3>2, <3>3
  <2>7. CASE op = "closeOther"
    <3>1. PICK d \in Others(l, c) :
            /\ MayForceClose(conn[d])
            /\ HandleClose(l, d, [ForceCloseStore(conn[d]) EXCEPT !.cut = @ \/ revents[d] # {}])
      BY <2>1, <2>7 DEF Callback
    <3>2. UNCHANGED holds /\ Wrote(c, 0, 0) /\ "closeOther" \in scenario.userOps
      BY <2>1, <2>7 DEF Callback
    <3>3. QED
      BY <1>1, <2>2, <3>1, <3>2, CloseOtherPreserves
  <2>8. QED
    BY <2>1, <2>3, <2>4, <2>5, <2>6, <2>7 DEF Callback
<1>5. CASE ~(peer[c].unread > 0)
  <2>1. Failed(c, 0) /\ UNCHANGED holds
    BY <1>5 DEF OnRead
  <2>2. PeerEffect(c, 0)
    BY <1>2, <2>1, PeerChanges
  <2>3. CASE peer[c].end \in {"fin", "aborted"}
    <3>1. HandleClose(l, c, conn[c])
      BY <1>5, <2>3 DEF OnRead
    <3>2. LifeInv => ~StaysOpen(scenario)
      BY <1>1, <1>5 DEF LifeInv, OpenInv
    <3>3. QED
      BY <1>1, <1>3, <2>1, <2>2, <3>1, <3>2, CloseHandler
  <2>4. CASE peer[c].end \notin {"fin", "aborted"}
    BY <1>1, <1>3, <1>5, <2>1, <2>2, <2>4, GentleHandler DEF OnRead
  <2>5. QED
    BY <2>3, <2>4
<1>6. QED
  BY <1>4, <1>5

-----------------------------------------------------------------------------
(***************************************************************************)
(* The functors: RunFunctor.                                               *)
(***************************************************************************)
LEMMA RunFacts ==
  ASSUME ServerInv, UNCHANGED scenario, NEW l \in Loops, RunFunctor(l),
         NEW g, g = Head(batch[l]), NEW c, c = g.conn
  PROVE  /\ g \in Functors /\ g \in Funs(l) /\ c \in Conns /\ Accepted(c) /\ Pops(l)
         /\ l = IF g.fn = "remove" THEN Main ELSE home[c]
         /\ g.fn = "established" => l # Main /\ conn[c].ups = 0
         /\ g.fn # "established" => conn[c].ups = 1
         /\ home[c] = l => revents[c] = {} /\ \A k \in Loops : c \notin Rng(active[k])
         /\ UNCHANGED <<home, phase, active, revents, quit, holds, wpc>>
         /\ BatchStep(c) /\ EventStep /\ HoldStep(c) /\ (OpsInv => \A w \in Workers : OpsOf(w)')
<1> USE DEF ServerInv
<1>1. /\ Pops(l) /\ batch[l] \in Seq(Functors) /\ batch[l] # <<>> /\ phase[l] = "tasks"
      /\ UNCHANGED <<home, phase, active, revents, quit, holds, wpc>>
  BY DEF RunFunctor, Pops, TypeOK, workerVars
<1>2. g \in Functors /\ Rng(batch[l]) = Rng(Tail(batch[l])) \cup {g}
  BY <1>1, RngTail
<1>3. g \in Funs(l) /\ c \in Conns
  BY <1>2, Homes DEF Funs
<1>4. /\ Accepted(c) /\ l = IF g.fn = "remove" THEN Main ELSE home[c]
      /\ g.fn = "established" => l # Main /\ conn[c].ups = 0
  BY <1>3 DEF PlaceInv, FreshInv
<1>5. ASSUME g.fn # "established" PROVE conn[c].ups = 1
  <2>1. \A h \in Funs(l) : h.fn = "established" => h.conn # c
    <3>1. \A h \in Rng(Tail(batch[l])) : h.fn = "established" => h.conn # c
      BY <1>1, EarlyTail DEF OrderInv
    <3>2. \A h \in Rng(queue[l]) : h.fn = "established" => h.conn # c
      BY <1>2 DEF OrderInv
    <3>3. QED
      BY <1>2, <1>5, <3>1, <3>2 DEF Funs
  <2>2. conn[c].ups = 0 => g.fn = "destroyed"
    BY <1>3, <1>5 DEF FreshInv
  <2>3. conn[c].ups = 0 => home[c] = l /\ phase[home[c]] # "stopped"
    BY <1>1, <1>4, <2>2
  <2>4. conn[c].ups # 0
    BY <1>3, <1>4, <2>1, <2>3 DEF FreshInv
  <2>5. conn[c].ups \in Nat /\ conn[c].ups <= 1
    BY <1>3, Homes, ConnectionFields DEF FreshInv
  <2>6. QED
    BY <2>4, <2>5
<1>6. ASSUME home[c] = l PROVE revents[c] = {} /\ \A k \in Loops : c \notin Rng(active[k])
  <2>1. active[l] = <<>> /\ active[l] \in Seq(Conns)
    BY <1>1 DEF PhaseInv, TypeOK
  <2>2. Rng(active[l]) = {}
    BY <2>1, RngOfSeq
  <2>3. QED
    BY <1>3, <1>6, <2>2 DEF PhaseInv, PlaceInv
<1>7. BatchStep(c)
  BY <1>1 DEF BatchStep
<1>8. EventStep
  BY <1>1 DEF EventStep, TypeOK, PhaseInv
<1>9. HoldStep(c) /\ (OpsInv => \A w \in Workers : OpsOf(w)')
  BY <1>1, <1>3, HoldsGrow
<1>10. QED
  BY <1>1, <1>2, <1>3, <1>4, <1>5, <1>6, <1>7, <1>8, <1>9

LEMMA PopLeaves ==
  ASSUME ServerInv, NEW l \in Loops, Pops(l), NEW g, g = Head(batch[l]),
         NEW m \in Loops, NEW F \in SUBSET Functors, Grows(m, F), \A f \in F : f.fn # "established"
  PROVE  \A k \in Loops : \A f \in Funs(k) : f # g => f \in Funs(k)'
  BY PopsFuns DEF ServerInv

LEMMA KeptStays ==
  ASSUME ServerInv, NEW c \in Conns, Accepted(c), NEW g, UNCHANGED home,
         \A k \in Loops : \A f \in Funs(k) : f # g => f \in Funs(k)'
  PROVE  /\ Kept(c) /\ (c \in memo => c \in memo') /\ g.fn \notin {"remove", "destroyed"} => Kept(c)'
         /\ UNCHANGED <<holds, wpc>> /\ Closing(c) /\ g.fn # "forceClose" => Closing(c)'
<1>1. Main \in Loops /\ home[c] \in Loops /\ home'[c] = home[c]
  BY Homes DEF ServerInv
<1>2. PICK l \in Loops : l = home[c] /\ l = home'[c]
  BY <1>1
<1>3. \A fn \in {"remove", "destroyed", "forceClose"} : Functor(fn, c, TRUE).fn = fn
  BY DEF Functor
<1>4. ASSUME Kept(c), c \in memo => c \in memo', g.fn \notin {"remove", "destroyed"} PROVE Kept(c)'
  <2>1. Functor("remove", c, TRUE) \in Funs(Main) => Functor("remove", c, TRUE) \in Funs(Main)'
    BY <1>1, <1>3, <1>4
  <2>2. Functor("destroyed", c, TRUE) \in Funs(l) => Functor("destroyed", c, TRUE) \in Funs(l)'
    BY <1>3, <1>4
  <2>3. QED
    BY <1>2, <1>4, <2>1, <2>2 DEF Kept, Funs
<1>5. ASSUME UNCHANGED <<holds, wpc>>, Closing(c), g.fn # "forceClose" PROVE Closing(c)'
  <2>1. Functor("forceClose", c, TRUE) \in Funs(l) => Functor("forceClose", c, TRUE) \in Funs(l)'
    BY <1>3, <1>5
  <2>2. QED
    BY <1>2, <1>5, <2>1 DEF Closing, Funs
<1>6. QED
  BY <1>4, <1>5

LEMMA GentleFunctor ==
  ASSUME ServerInv, UNCHANGED scenario, NEW l \in Loops, RunFunctor(l),
         NEW g, g = Head(batch[l]), NEW c, c = g.conn, g.fn \in WorkerFunctors,
         NEW r, Gentle(conn[c], r), Become(c, r), NEW u, PeerEffect(c, u),
         Unmoved(conn[c], r) \/ g.fn = "send",
         g.fn = "forceClose" => conn[c].state # "disconnecting"
  PROVE  Preserves
<1>1. /\ g \in Functors /\ g \in Funs(l) /\ c \in Conns /\ Accepted(c) /\ Pops(l)
      /\ l = home[c] /\ conn[c].ups = 1 /\ revents[c] = {}
      /\ UNCHANGED <<home, phase, active, revents, quit, holds, wpc>>
      /\ BatchStep(c) /\ EventStep /\ HoldStep(c) /\ (OpsInv => \A w \in Workers : OpsOf(w)')
  BY RunFacts DEF WorkerFunctors
<1>2. Around(c)
  BY <1>1 DEF Around, PeerEffect
<1>3. conn' = [conn EXCEPT ![c] = r] /\ UNCHANGED <<memo, queue>>
  BY DEF Become
<1>4. Grows(l, {})
  BY <1>3, PushesNothing DEF ServerInv
<1>5. StepOn(c, l, {})
  BY <1>1, <1>2, <1>3, <1>4, GentleOn DEF FunctorStep
<1>6. ASSUME LifeInv PROVE LifeOn(c, {})
  <2>1. \A k \in Loops : \A f \in Funs(k) : f # g => f \in Funs(k)'
    BY <1>1, <1>4, PopLeaves
  <2>2. Kept(c) => Kept(c)'
    BY <1>1, <1>3, <2>1, KeptStays DEF WorkerFunctors
  <2>3. conn[c].state = "disconnecting" /\ Closing(c) => Closing(c)'
    BY <1>1, <2>1, KeptStays
  <2>4. g.fn = "send" => Kept(c)'
    <3>1. g.fn = "send" => "send" \in scenario.workerOps
      BY <1>1, <1>6 DEF LifeInv, OpsInv
    <3>2. g.fn = "send" => StaysOpen(scenario)
      BY <1>6, <3>1 DEF LifeInv, KeepsPointers
    <3>3. g.fn = "send" => c \in memo'
      BY <1>1, <1>3, <1>6, <3>2 DEF LifeInv, OpenInv
    <3>4. QED
      BY <3>3 DEF Kept
  <2>5. revents'[c] = {}
    BY <1>1
  <2>6. StaysOpen(scenario) =>
          /\ \A d \in Conns : d # c => peer'[d] = peer[d]
          /\ peer'[c].end = "open" /\ ("in" \in revents'[c] => peer'[c].unread > 0)
    BY <1>1, <1>6, <2>5 DEF PeerEffect, LifeInv, OpenInv
  <2>7. \A w \in Workers : OpsOf(w)'
    BY <1>1, <1>6 DEF LifeInv
  <2>8. Unmoved(conn[c], r) \/ (Kept(c)' /\ revents'[c] \cap {"in", "hup"} = {})
    BY <2>4, <2>5
  <2>9. QED
    BY <1>1, <1>2, <1>3, <1>6, <2>2, <2>3, <2>6, <2>7, <2>8, GentleLife
<1>7. QED
  BY <1>1, <1>5, <1>6, StepPreserves

LEMMA DestroyedPreserves ==
  ASSUME ServerInv, UNCHANGED scenario, NEW l \in Loops, RunFunctor(l),
         NEW g, g = Head(batch[l]), NEW c, c = g.conn, g.fn = "destroyed",
         Become(c, Destroyed(conn[c])), UNCHANGED peer
  PROVE  Preserves
<1> USE DEF ServerInv
<1>1. /\ g \in Functors /\ g \in Funs(l) /\ c \in Conns /\ Accepted(c) /\ Pops(l)
      /\ l = home[c] /\ conn[c].ups = 1 /\ revents[c] = {} /\ (\A k \in Loops : c \notin Rng(active[k]))
      /\ UNCHANGED <<home, phase, active, revents, quit, holds, wpc>>
      /\ BatchStep(c) /\ EventStep /\ HoldStep(c) /\ (OpsInv => \A w \in Workers : OpsOf(w)')
  BY RunFacts
<1>2. PeerEffect(c, peer[c].unread)
  BY <1>1, PeerChanges
<1>3. Around(c)
  BY <1>1, <1>2 DEF Around, PeerEffect
<1>4. PICK r : r = Destroyed(conn[c])
  OBVIOUS
<1>5. conn[c] \in Connection /\ conn[c].downs \in Nat
  BY <1>1, Homes, ConnectionFields
<1>6. /\ r \in Connection /\ r.ups = conn[c].ups /\ r.pending = conn[c].pending /\ r.cut = conn[c].cut
      /\ r.index = "deleted" /\ r.mapped = FALSE
      /\ IF conn[c].state = "connected"
         THEN r.state = "disconnected" /\ r.downs = conn[c].downs + 1 /\ r.interest = {}
         ELSE r.state = conn[c].state /\ r.downs = conn[c].downs /\ r.interest = conn[c].interest
  <2>1. PICK p \in Connection : p = conn[c]
    BY <1>5
  <2>2. r = Destroyed(p)
    BY <1>4, <2>1
  <2>3. /\ r \in Connection /\ r.ups = p.ups /\ r.pending = p.pending /\ r.cut = p.cut
        /\ r.index = "deleted" /\ r.mapped = FALSE
        /\ IF p.state = "connected"
           THEN r.state = "disconnected" /\ r.downs = p.downs + 1 /\ r.interest = {}
           ELSE r.state = p.state /\ r.downs = p.downs /\ r.interest = p.interest
    BY <2>1, <2>2, RecordDestroyed, ZenonT(30)
  <2>4. QED
    BY <2>1, <2>3
<1>7. /\ conn' \in [Conns -> Connection] /\ conn'[c] = r
      /\ \A d \in Conns : d # c => conn'[d] = conn[d]
      /\ UNCHANGED <<memo, queue>>
  BY <1>1, <1>4, <1>6 DEF Become, TypeOK
<1>8. RecordStep(c)
  <2>5. c \in Conns /\ conn[c].ups = 1
    BY <1>1
  <2>1. conn[c].state # "connecting" /\ r.state # "connected"
    BY <1>6, <2>5 DEF FreshInv
  <2>2. r.downs > 0 => "in" \notin r.interest
    BY <1>1, <1>6 DEF ReadInv
  <2>3. r.downs = 0 => (IsWriting(r) <=> r.pending > 0)
    <3>1. conn[c].downs = 0 => ("out" \in conn[c].interest <=> conn[c].pending > 0)
      BY <2>5 DEF WriteInterest, IsWriting
    <3>2. r.downs = 0 => conn[c].downs = 0 /\ r.interest = conn[c].interest /\ r.pending = conn[c].pending
      BY <1>5, <1>6
    <3>3. QED
      BY <3>1, <3>2 DEF IsWriting
  <2>4. QED
    BY <1>1, <1>6, <1>7, <2>1, <2>2, <2>3 DEF RecordStep
<1>9. Grows(l, {})
  BY <1>7, PushesNothing
<1>10. StepOn(c, l, {})
  BY <1>3, <1>7, <1>8, <1>9 DEF StepOn, FunctorStep
<1>11. ASSUME LifeInv PROVE LifeOn(c, {})
  <2>1. \A k \in Loops : \A f \in Funs(k) : f # g => f \in Funs(k)'
    BY <1>1, <1>9, PopLeaves
  <2>2. Closing(c) => Closing(c)'
    BY <1>1, <2>1, KeptStays
  <2>3. KeepStep(c)
    BY <1>1, <1>6, <1>7 DEF KeepStep, Registered
  <2>4. CloseStep(c)
    BY <1>1, <1>6, <1>7, <1>11, <2>2 DEF CloseStep, LifeInv, CloseInv
  <2>5. DownStep(c, {})
    <3> SUFFICES ASSUME "forceClose" \notin scenario.workerOps, ~r.cut
                 PROVE  /\ r.downs > 0 =>
                             /\ r.downs = 1 /\ r.state = "disconnected" /\ r.interest = {} /\ r.index # "added"
                        /\ conn[c].downs = 1 => r.downs = 1
                        /\ Running => r.downs = 1
      BY <1>1, <1>7 DEF DownStep
    <3>4. Once(c)
      BY <1>6 DEF Once
    <3>1. conn[c].downs > 0 => conn[c].downs = 1 /\ conn[c].state = "disconnected" /\ conn[c].interest = {}
      BY <1>1, <1>11, <3>4 DEF LifeInv, DownInv
    <3>2. Running => conn[c].downs = 1
      BY <1>1, <1>11, <3>4 DEF LifeInv, DownInv
    <3>3. QED
      BY <1>5, <1>6, <3>1, <3>2
  <2>6. StaysOpen(scenario) => peer'[c].end = "open" /\ \A d \in Conns : d # c => peer'[d] = peer[d]
    BY <1>1, <1>11 DEF LifeInv, OpenInv
  <2>7. QED
    BY <1>1, <1>7, <1>11, <2>3, <2>4, <2>5, <2>6 DEF LifeOn, LifeInv
<1>12. QED
  BY <1>1, <1>10, <1>11, StepPreserves

LEMMA RemovePreserves ==
  ASSUME ServerInv, UNCHANGED scenario, NEW l \in Loops, RunFunctor(l),
         NEW g, g = Head(batch[l]), NEW c, c = g.conn, g.fn = "remove",
         RemoveConnection(l, c), UNCHANGED <<conn, peer>>
  PROVE  Preserves
<1> USE DEF ServerInv
<1>1. /\ g \in Functors /\ g \in Funs(l) /\ c \in Conns /\ Accepted(c) /\ Pops(l)
      /\ l = Main /\ conn[c].ups = 1
      /\ UNCHANGED <<home, phase, active, revents, quit, holds, wpc>>
      /\ BatchStep(c) /\ EventStep /\ HoldStep(c) /\ (OpsInv => \A w \in Workers : OpsOf(w)')
  BY RunFacts
<1>2. PeerEffect(c, peer[c].unread)
  BY <1>1, PeerChanges
<1>3. Around(c)
  BY <1>1, <1>2 DEF Around, PeerEffect
<1> DEFINE f == Functor("destroyed", c, TRUE)
<1>4. f \in Functors /\ f.fn = "destroyed" /\ f.conn = c /\ f.owns = TRUE
  BY <1>1, DestroyedFields
<1>5. PICK m \in Loops : m = home[c]
  BY <1>1, Homes
<1>6. Grows(m, {f}) /\ memo' = memo \ {c}
  <2>1. queue' = Enqueue(m, f) /\ memo' = memo \ {c}
    BY <1>1, <1>5 DEF RemoveConnection
  <2>2. QED
    BY <1>4, <2>1, PushesOne
<1> HIDE DEF f
<1>7. RecordStep(c)
  <2>1. conn \in [Conns -> Connection] /\ UNCHANGED <<conn, revents>>
    BY <1>1 DEF TypeOK
  <2>2. conn[c].ups = 1 /\ conn[c].state # "connecting"
    BY <1>1 DEF FreshInv
  <2>3. /\ conn[c].state = "connected" =>
             conn[c].downs = 0 /\ "in" \in conn[c].interest /\ conn[c].index = "added"
        /\ conn[c].downs > 0 => "in" \notin conn[c].interest
        /\ "in" \in revents[c] => conn[c].downs = 0 \/ conn[c].cut
    BY <1>1 DEF ReadInv
  <2>4. conn[c].downs = 0 => (IsWriting(conn[c]) <=> conn[c].pending > 0)
    BY <1>1 DEF WriteInterest
  <2>5. QED
    BY <2>1, <2>2, <2>3, <2>4 DEF RecordStep
<1>8. FunctorStep(c, m, {f})
  BY <1>4, <1>5, <1>6 DEF FunctorStep, Owning
<1>9. StepOn(c, m, {f})
  BY <1>3, <1>6, <1>7, <1>8 DEF StepOn
<1>10. ASSUME LifeInv PROVE LifeOn(c, {f})
  <2>1. ~StaysOpen(scenario)
    BY <1>1, <1>10 DEF LifeInv, OpenInv, Owning
  <2>2. \A k \in Loops : \A h \in Funs(k) : h # g => h \in Funs(k)'
    BY <1>1, <1>4, <1>6, PopLeaves
  <2>3. Closing(c) => Closing(c)'
    BY <1>1, <2>2, KeptStays
  <2>4. f \in Funs(m)'
    BY <1>6 DEF Grows, Funs
  <2>5. Kept(c)'
    <3>1. m = home'[c]
      BY <1>1, <1>5
    <3>2. QED
      BY <2>4, <3>1 DEF Kept, Funs, f
  <2>6. KeepStep(c) /\ CloseStep(c)
    BY <1>1, <1>10, <2>3, <2>5 DEF KeepStep, CloseStep, LifeInv, CloseInv
  <2>7. DownStep(c, {f})
    BY <1>1, <1>10 DEF DownStep, LifeInv, DownInv, Once
  <2>8. QED
    BY <1>1, <1>4, <1>10, <2>1, <2>6, <2>7 DEF LifeOn, LifeInv, WorkerFunctors
<1>11. QED
  BY <1>1, <1>4, <1>9, <1>10, StepPreserves

LEMMA ForceClosePreserves ==
  ASSUME ServerInv, UNCHANGED scenario, NEW l \in Loops, RunFunctor(l),
         NEW g, g = Head(batch[l]), NEW c, c = g.conn, g.fn = "forceClose",
         HandleClose(l, c, conn[c]), UNCHANGED peer
  PROVE  Preserves
<1> USE DEF ServerInv
<1>1. /\ g \in Functors /\ g \in Funs(l) /\ c \in Conns /\ conn[c].ups = 1 /\ revents[c] = {}
      /\ UNCHANGED <<home, phase, active, revents, quit, holds, wpc>>
      /\ BatchStep(c) /\ EventStep /\ HoldStep(c) /\ (OpsInv => \A w \in Workers : OpsOf(w)')
  BY RunFacts
<1>2. PeerEffect(c, peer[c].unread)
  BY <1>1, PeerChanges
<1>3. Around(c) /\ "in" \notin revents'[c]
  BY <1>1, <1>2 DEF Around, PeerEffect
<1>4. ClosesFrom(c, conn[c])
  BY <1>1, Homes DEF ClosesFrom
<1>5. LifeInv =>
        /\ ~StaysOpen(scenario) /\ (\A w \in Workers : OpsOf(w)')
        /\ "forceClose" \in scenario.workerOps
  BY <1>1 DEF LifeInv, OpenInv, OpsInv, Owning, WorkerFunctors
<1>6. \E m \in Loops, F \in SUBSET Functors : StepOn(c, m, F) /\ (LifeInv => LifeOn(c, F))
  BY <1>1, <1>3, <1>4, <1>5, CloseOn
<1>7. QED
  BY <1>1, <1>6, StepPreserves

LEMMA PopsQuietly ==
  ASSUME TypeOK, OrderInv, NEW l \in Loops, Pops(l), NEW g, g = Head(batch[l]), UNCHANGED queue
  PROVE  /\ OrderInv' /\ batch' \in [Loops -> Seq(Functors)]
         /\ \A k \in Loops : Funs(k)' \subseteq Funs(k)
         /\ \A k \in Loops : \A h \in Funs(k) : h # g => h \in Funs(k)'
         /\ \A h \in Funs(l)' : h.fn = "established" => h.conn # g.conn
<1>1. PICK F \in SUBSET Functors : F = {}
  OBVIOUS
<1>2. Grows(l, F) /\ \A f \in F : f.fn # "established"
  BY <1>1, PushesNothing
<1>3. /\ OrderInv' /\ batch' \in [Loops -> Seq(Functors)]
      /\ \A k \in Loops : k # l => Funs(k)' \subseteq Funs(k)
      /\ Funs(l)' \subseteq Funs(l) \cup F
      /\ \A k \in Loops : Funs(k) \subseteq Funs(k)' \cup {g}
      /\ \A h \in Funs(l)' : h.fn = "established" => h.conn # g.conn
  BY <1>2, PopsFuns
<1>4. QED
  BY <1>1, <1>3

LEMMA FreshRecord ==
  ASSUME FreshInv
  PROVE  \A c \in Conns : conn[c].ups = 0 => conn[c] = NewConnection
  BY DEF FreshInv

(* connectionEstablished for c, which loop l takes from its batch.         *)
EstablishedFrame(l, c) ==
  /\ c \in Conns /\ l = home[c] /\ Accepted(c) /\ conn[c].ups = 0 /\ conn[c].downs = 0 /\ ~conn[c].cut
  /\ UNCHANGED <<scenario, home, memo, phase, active, revents, queue, quit, holds, wpc, peer>>

EstablishedRecord(c) ==
  /\ conn' \in [Conns -> Connection] /\ \A d \in Conns : d # c => conn'[d] = conn[d]
  /\ conn'[c].state = "connected" /\ conn'[c].ups = 1 /\ conn'[c].downs = 0
  /\ ~IsWriting(conn'[c]) /\ conn'[c].pending = 0 /\ conn'[c].index = "added"
  /\ "in" \in conn'[c].interest

EstablishedFuns(l, g, c) ==
  /\ g \in Funs(l) /\ g.fn = "established" /\ g.conn = c
  /\ OrderInv' /\ batch' \in [Loops -> Seq(Functors)]
  /\ \A k \in Loops : phase[k] # "tasks" => batch'[k] = batch[k]
  /\ \A k \in Loops : \A h \in Funs(k)' :
       h \in Funs(k) /\ ~(h.fn = "established" /\ h.conn = c)
  /\ \A k \in Loops : \A h \in Funs(k) : h # g => h \in Funs(k)'

LEMMA EstablishedFacts ==
  ASSUME ServerInv, UNCHANGED scenario, NEW l \in Loops, RunFunctor(l),
         NEW g, g = Head(batch[l]), NEW c, c = g.conn, g.fn = "established",
         Become(c, Established(conn[c])), UNCHANGED peer
  PROVE  EstablishedFrame(l, c) /\ EstablishedRecord(c) /\ EstablishedFuns(l, g, c)
<1> USE DEF ServerInv
<1>1. /\ g \in Functors /\ g \in Funs(l) /\ c \in Conns /\ Accepted(c) /\ Pops(l)
      /\ l = home[c] /\ conn[c].ups = 0
      /\ UNCHANGED <<home, phase, active, revents, quit, holds, wpc>>
  BY RunFacts
<1>13. l \in Loops /\ c \in Conns /\ conn[c].ups = 0 /\ l = home[c] /\ Pops(l)
  BY <1>1
<1>2. conn[c] = NewConnection /\ conn[c].downs = 0 /\ ~conn[c].cut
  <2>1. conn[c] = NewConnection
    BY <1>13, FreshRecord
  <2>2. QED
    BY <2>1 DEF NewConnection
<1>3. PICK r : r = Established(NewConnection)
  OBVIOUS
<1>4. /\ r \in Connection /\ r.state = "connected" /\ r.ups = 1 /\ r.downs = 0
      /\ ~IsWriting(r) /\ r.pending = 0 /\ r.index = "added" /\ "in" \in r.interest
  BY <1>3, RecordEstablished
<1>5. conn' = [conn EXCEPT ![c] = r] /\ UNCHANGED <<memo, queue>>
  BY <1>2, <1>3 DEF Become
<1>6. /\ conn' \in [Conns -> Connection] /\ conn'[c] = r
      /\ \A d \in Conns : d # c => conn'[d] = conn[d]
  BY <1>1, <1>4, <1>5 DEF TypeOK
<1>8. /\ OrderInv' /\ batch' \in [Loops -> Seq(Functors)]
      /\ \A k \in Loops : Funs(k)' \subseteq Funs(k)
      /\ \A h \in Funs(l)' : h.fn = "established" => h.conn # c
  BY <1>5, <1>13, PopsQuietly
<1>9. \A k \in Loops : \A h \in Funs(k) : h # g => h \in Funs(k)'
  BY <1>5, <1>13, PopsQuietly
<1>10. ASSUME NEW k \in Loops, NEW h \in Funs(k)', h.fn = "established", h.conn = c PROVE FALSE
  <2>1. h \in Funs(k)
    BY <1>8, <1>10
  <2>2. k = l
    <3>1. h.fn # "remove"
      BY <1>10
    <3>2. k = home[h.conn]
      BY <2>1, <3>1 DEF PlaceInv
    <3>3. QED
      BY <1>10, <1>13, <3>2
  <2>3. QED
    BY <1>8, <1>10, <2>2
<1>11. \A k \in Loops : phase[k] # "tasks" => batch'[k] = batch[k]
  BY <1>1 DEF Pops, TypeOK
<1>12. EstablishedFrame(l, c)
  BY <1>1, <1>2, <1>5 DEF EstablishedFrame
<1>14. EstablishedRecord(c)
  BY <1>4, <1>6 DEF EstablishedRecord
<1>15. EstablishedFuns(l, g, c)
  BY <1>1, <1>8, <1>9, <1>10, <1>11 DEF EstablishedFuns
<1>16. QED
  BY <1>12, <1>14, <1>15

LEMMA EstablishedPreserves ==
  ASSUME ServerInv, NEW l \in Loops, NEW c, NEW g,
         EstablishedFrame(l, c), EstablishedRecord(c), EstablishedFuns(l, g, c)
  PROVE  Preserves
<1> USE DEF ServerInv
<1>1. /\ c \in Conns /\ l = home[c] /\ Accepted(c) /\ conn[c].ups = 0 /\ conn[c].downs = 0 /\ ~conn[c].cut
      /\ UNCHANGED <<scenario, home, memo, phase, active, revents, queue, quit, holds, wpc, peer>>
  BY DEF EstablishedFrame
<1>11. /\ conn' \in [Conns -> Connection] /\ \A d \in Conns : d # c => conn'[d] = conn[d]
       /\ conn'[c].state = "connected" /\ conn'[c].ups = 1 /\ conn'[c].downs = 0
       /\ ~IsWriting(conn'[c]) /\ conn'[c].pending = 0 /\ conn'[c].index = "added"
       /\ "in" \in conn'[c].interest
  BY DEF EstablishedRecord
<1>12. /\ g \in Funs(l) /\ g.fn = "established" /\ g.conn = c
       /\ OrderInv' /\ batch' \in [Loops -> Seq(Functors)]
       /\ \A k \in Loops : phase[k] # "tasks" => batch'[k] = batch[k]
  BY DEF EstablishedFuns
<1>2. /\ \A k \in Loops : \A h \in Funs(k)' :
           h \in Funs(k) /\ ~(h.fn = "established" /\ h.conn = c)
      /\ \A k \in Loops : \A h \in Funs(k) : h # g => h \in Funs(k)'
  BY DEF EstablishedFuns
<1>3. \A d \in Conns : Accepted(d)' <=> Accepted(d)
  BY <1>1 DEF Accepted
<1>4. TypeOK'
  BY <1>1, <1>11, <1>12 DEF TypeOK
<1>5. PlaceInv'
  BY <1>1, <1>2, <1>3 DEF PlaceInv, Accepted
<1>6. PhaseInv'
  BY <1>1, <1>3, <1>12 DEF PhaseInv
<1>7. FreshInv'
  <2>1. ASSUME NEW d \in Conns, d # c, conn[d].ups = 0, Accepted(d), phase[home[d]] # "stopped"
        PROVE  \E f \in Funs(home[d])' : f.fn = "established" /\ f.conn = d
    <3>1. PICK k \in Loops : k = home[d] /\ k = home'[d]
      BY <1>1, <2>1, Homes
    <3>2. PICK f \in Funs(k) : f.fn = "established" /\ f.conn = d
      BY <2>1, <3>1 DEF FreshInv
    <3>3. f \in Funs(k)'
      BY <1>2, <1>12, <2>1, <3>2
    <3>4. QED
      BY <3>1, <3>2, <3>3 DEF Funs
  <2>2. ASSUME NEW d \in Conns, conn'[d].ups = 0
        PROVE  /\ conn'[d] = NewConnection
               /\ \A k \in Loops : d \notin Rng(active'[k])
               /\ \A w \in Workers : holds'[w] # d
               /\ \A k \in Loops : \A f \in Funs(k)' : f.conn = d => f.fn \in {"established", "destroyed"}
               /\ Accepted(d)' /\ phase'[home'[d]] # "stopped" =>
                    \E f \in Funs(home[d])' : f.fn = "established" /\ f.conn = d
    <3>1. d # c /\ conn'[d] = conn[d]
      BY <1>11, <2>2
    <3>2. /\ conn[d] = NewConnection
          /\ \A k \in Loops : d \notin Rng(active[k])
          /\ \A w \in Workers : holds[w] # d
          /\ \A k \in Loops : \A f \in Funs(k) : f.conn = d => f.fn \in {"established", "destroyed"}
      BY <2>2, <3>1 DEF FreshInv
    <3>3. QED
      BY <1>1, <1>2, <1>3, <2>1, <2>2, <3>1, <3>2
  <2>3. \A d \in Conns : /\ conn'[d].ups <= 1
                         /\ conn'[d].state = "connecting" => conn'[d].ups = 0
                         /\ ~Accepted(d)' => conn'[d].ups = 0
    BY <1>1, <1>3, <1>11 DEF FreshInv
  <2>4. \A d \in Conns : \A k \in Loops : \A f \in Funs(k)' :
          f.fn = "established" /\ f.conn = d => conn'[d].ups = 0
    BY <1>2, <1>11 DEF FreshInv
  <2>5. QED
    BY <2>2, <2>3, <2>4 DEF FreshInv
<1>8. ReadInv' /\ WriteInterest'
  BY <1>1, <1>11 DEF ReadInv, WriteInterest
<1>9. ASSUME LifeInv PROVE LifeInv'
  <2> USE <1>9 DEF LifeInv
  <2>1. \A d \in Conns : Accepted(d) /\ Kept(d) => Kept(d)'
    BY <1>1, <1>2, <1>12, KeptStays
  <2>2. \A d \in Conns : Accepted(d) /\ Closing(d) => Closing(d)'
    BY <1>1, <1>2, <1>12, KeptStays
  <2>3. Kept(c) /\ (c \notin memo => Functor("destroyed", c, TRUE) \in Funs(l))
    BY <1>1, <1>12 DEF KeptInv, Kept
  <2>4. OpsInv' /\ OpenInv' /\ KeepsPointers(scenario)'
    <3>1. OpsInv'
      BY <1>1, <1>2 DEF OpsInv, OpsOf
    <3>2. OpenInv'
      BY <1>1, <1>2, <1>3 DEF OpenInv, StaysOpen
    <3>3. KeepsPointers(scenario)'
      BY <1>1 DEF KeepsPointers, StaysOpen
    <3>4. QED
      BY <3>1, <3>2, <3>3
  <2>5. KeptInv'
    <3>1. ASSUME NEW k \in Loops, NEW f \in Funs(k)', f.fn = "established"
          PROVE  f.conn \in memo' \/ Functor("destroyed", f.conn, TRUE) \in Funs(k)'
      <4>1. f \in Funs(k) /\ Functor("destroyed", f.conn, TRUE) # g
        BY <1>2, <1>12, <3>1 DEF Functor
      <4>2. QED
        BY <1>1, <1>2, <3>1, <4>1 DEF KeptInv
    <3>2. ASSUME NEW k \in Loops, NEW d \in Rng(active'[k]) PROVE Kept(d)'
      <4>1. d \in Rng(active[k]) /\ d \in Conns
        BY <1>1, <3>2, Homes
      <4>2. Kept(d)
        BY <4>1 DEF KeptInv
      <4>3. Accepted(d)
        BY <4>1, Homes, ConnectionFields DEF FreshInv
      <4>4. QED
        BY <2>1, <4>1, <4>2, <4>3
    <3>3. ASSUME NEW d \in Conns, Accepted(d)', Registered(d)', phase'[home'[d]] # "stopped"
          PROVE  Kept(d)'
      <4>1. Accepted(d) /\ phase[home[d]] # "stopped"
        BY <1>1, <1>3, <3>3
      <4>2. CASE d = c
        BY <1>1, <2>1, <2>3, <4>2
      <4>3. CASE d # c
        BY <1>11, <2>1, <3>3, <4>1, <4>3 DEF KeptInv, Registered
      <4>4. QED
        BY <4>2, <4>3
    <3>4. QED
      BY <3>1, <3>2, <3>3 DEF KeptInv
  <2>6. CloseInv'
    <3> SUFFICES ASSUME Running, NEW d \in Conns, Accepted(d)
                 PROVE  /\ conn'[d].state = "connected" => Kept(d)'
                        /\ conn'[d].state = "disconnecting" => Closing(d)'
      BY <1>1, <1>3 DEF CloseInv, Running
    <3>1. CASE d = c
      BY <1>11, <2>1, <2>3, <3>1, <1>1
    <3>2. CASE d # c
      BY <1>11, <2>1, <2>2, <3>2 DEF CloseInv
    <3>3. QED
      BY <3>1, <3>2
  <2>7. DownInv'
    <3> SUFFICES ASSUME NEW d \in Conns, "forceClose" \notin scenario.workerOps, ~conn'[d].cut
                 PROVE  /\ conn'[d].downs > 0 =>
                             /\ conn'[d].downs = 1 /\ conn'[d].ups = 1
                             /\ conn'[d].state = "disconnected" /\ conn'[d].interest = {}
                             /\ conn'[d].index # "added"
                        /\ revents'[d] \cap {"in", "hup"} # {} =>
                             conn'[d].downs = 0 /\ conn'[d].index = "added"
                        /\ Running /\ Accepted(d) =>
                             /\ d \notin memo' => conn'[d].downs = 1
                             /\ \A k \in Loops : \A f \in Funs(k)' :
                                  f.conn = d /\ f.fn \in {"remove", "destroyed"} => conn'[d].downs = 1
      BY <1>1, <1>3 DEF DownInv, Running, Once
    <3>4. Once(d)
      BY <1>1, <1>11 DEF Once
    <3>1. CASE d = c
      <4>1. Running => c \in memo /\ \A k \in Loops : \A f \in Funs(k) :
                                      ~(f.conn = c /\ f.fn \in {"remove", "destroyed"})
        BY <1>1, <3>1, <3>4 DEF DownInv
      <4>2. QED
        BY <1>1, <1>2, <1>11, <3>1, <4>1
    <3>2. CASE d # c
      BY <1>1, <1>2, <1>11, <3>2, <3>4 DEF DownInv
    <3>3. QED
      BY <3>1, <3>2
  <2>8. QED
    BY <2>4, <2>5, <2>6, <2>7
<1>10. QED
  BY <1>12, <1>4, <1>5, <1>6, <1>7, <1>8, <1>9 DEF Preserves

LEMMA RunPreserves ==
  ASSUME ServerInv, UNCHANGED scenario, NEW l \in Loops, RunFunctor(l)
  PROVE  Preserves
<1>1. PICK g : g = Head(batch[l])
  OBVIOUS
<1>2. PICK c : c = g.conn
  OBVIOUS
<1>3. Execute(l, g) /\ c \in Conns
  BY <1>1, <1>2, RunFacts DEF RunFunctor
<1>4. TypeOK /\ PhaseInv /\ conn[c] \in Connection
  BY <1>3, Homes DEF ServerInv
<1>5. Gentle(conn[c], conn[c]) /\ Unmoved(conn[c], conn[c])
  BY <1>4, GentleSame
<1>6. UNCHANGED peer => PeerEffect(c, peer[c].unread)
  BY <1>3, <1>4, PeerChanges
<1>7. CASE g.fn = "established" /\ Become(c, Established(conn[c])) /\ UNCHANGED peer
  BY <1>1, <1>2, <1>7, EstablishedFacts, EstablishedPreserves
<1>8. CASE g.fn = "destroyed" /\ Become(c, Destroyed(conn[c])) /\ UNCHANGED peer
  BY <1>1, <1>2, <1>8, DestroyedPreserves
<1>9. CASE g.fn = "shutdown" /\ Become(c, ShutDown(conn[c])) /\ UNCHANGED peer
  <2>1. Gentle(conn[c], ShutDown(conn[c])) /\ Unmoved(conn[c], ShutDown(conn[c]))
    BY <1>4, GentleShutDown
  <2>2. g.fn \in WorkerFunctors
    BY <1>9 DEF WorkerFunctors
  <2>3. QED
    BY <1>1, <1>2, <1>6, <1>9, <2>1, <2>2, GentleFunctor
<1>10. CASE g.fn = "remove" /\ RemoveConnection(l, c) /\ UNCHANGED <<conn, peer>>
  BY <1>1, <1>2, <1>10, RemovePreserves
<1>11. CASE g.fn = "forceClose" /\ UNCHANGED peer
            /\ IF ForceCloseApplies(conn[c]) THEN HandleClose(l, c, conn[c]) ELSE Become(c, conn[c])
  <2>1. CASE ForceCloseApplies(conn[c])
    BY <1>1, <1>2, <1>11, <2>1, ForceClosePreserves
  <2>2. CASE ~ForceCloseApplies(conn[c])
    <3>1. g.fn \in WorkerFunctors /\ conn[c].state # "disconnecting"
      BY <1>11, <2>2 DEF WorkerFunctors, ForceCloseApplies
    <3>2. QED
      BY <1>1, <1>2, <1>5, <1>6, <1>11, <2>2, <3>1, GentleFunctor
  <2>3. QED
    BY <2>1, <2>2
<1>12. CASE g.fn = "send" /\ Send(c, peer[c].unread)
  <2>1. PeerEffect(c, peer[c].unread) /\ \E r : Gentle(conn[c], r) /\ Become(c, r)
    BY <1>3, <1>4, <1>12, SendChanges
  <2>2. g.fn \in WorkerFunctors
    BY <1>12 DEF WorkerFunctors
  <2>3. QED
    BY <1>1, <1>2, <1>12, <2>1, <2>2, GentleFunctor
<1>13. QED
  BY <1>2, <1>3, <1>7, <1>8, <1>9, <1>10, <1>11, <1>12 DEF Execute

-----------------------------------------------------------------------------
(***************************************************************************)
(* The workers.                                                            *)
(***************************************************************************)
WorkerFrame(w, c) ==
  /\ c = holds[w] /\ c # None
  /\ UNCHANGED <<scenario, home, memo, peer, phase, active, revents, batch, quit>>

LEMMA WorkerAround ==
  ASSUME ServerInv, NEW w \in Workers, NEW c, WorkerFrame(w, c),
         NEW h \in {c, None}, NEW p \in WorkerPhases, p # "idle" => h # None,
         holds' = [holds EXCEPT ![w] = h], wpc' = [wpc EXCEPT ![w] = p]
  PROVE  /\ c \in Conns /\ conn[c].ups = 1 /\ Accepted(c) /\ Around(c)
         /\ conn[c].state # "connecting"
         /\ revents' = revents
         /\ \A v \in Workers : v # w => holds'[v] = holds[v] /\ wpc'[v] = wpc[v]
         /\ holds'[w] = h /\ wpc'[w] = p
<1> USE DEF ServerInv
<1>1. /\ c = holds[w] /\ c # None /\ holds \in [Workers -> Conns \cup {None}]
      /\ wpc \in [Workers -> WorkerPhases]
      /\ UNCHANGED <<scenario, home, memo, peer, phase, active, revents, batch, quit>>
  BY DEF WorkerFrame, TypeOK, WorkerPhases
<1>2. c \in Conns
  BY <1>1
<1>3. conn[c].ups = 1
  <2>1. conn[c].ups # 0
    BY <1>1, <1>2 DEF FreshInv
  <2>2. conn[c].ups <= 1 /\ conn[c].ups \in Nat
    BY <1>2, Homes, ConnectionFields DEF FreshInv
  <2>3. QED
    BY <2>1, <2>2
<1>4. Accepted(c) /\ conn[c].state # "connecting"
  BY <1>2, <1>3 DEF FreshInv
<1>5. /\ \A v \in Workers : v # w => holds'[v] = holds[v] /\ wpc'[v] = wpc[v]
      /\ holds'[w] = h /\ wpc'[w] = p
      /\ holds' \in [Workers -> Conns \cup {None}] /\ wpc' \in [Workers -> WorkerPhases]
  BY <1>1, <1>2
<1>6. HoldStep(c)
  BY <1>1, <1>5 DEF HoldStep, PhaseInv
<1>7. BatchStep(c) /\ EventStep /\ PeerTypes
  BY <1>1 DEF BatchStep, EventStep, PeerTypes, TypeOK, PhaseInv, Peers
<1>8. Around(c)
  BY <1>1, <1>6, <1>7 DEF Around
<1>9. QED
  BY <1>1, <1>2, <1>3, <1>4, <1>5, <1>8

LEMMA GrowsKeeps ==
  ASSUME ServerInv, NEW c \in Conns, Accepted(c), NEW m \in Loops, NEW F \in SUBSET Functors,
         FunctorStep(c, m, F), UNCHANGED <<batch, home>>
  PROVE  /\ \A k \in Loops : Funs(k) \subseteq Funs(k)'
         /\ F \subseteq Funs(m)'
         /\ Kept(c) /\ (c \in memo => c \in memo') => Kept(c)'
<1>1. \A k \in Loops : Funs(k)' = IF k = m THEN Funs(k) \cup F ELSE Funs(k)
  BY DEF FunctorStep, Grows, Funs
<1>2. PICK l \in Loops : l = home[c] /\ l = home'[c]
  BY Homes DEF ServerInv
<1>3. Main \in Loops
  BY Homes DEF ServerInv
<1>4. Kept(c) /\ (c \in memo => c \in memo') => Kept(c)'
  BY <1>1, <1>2, <1>3 DEF Kept, Funs
<1>5. QED
  BY <1>1, <1>4

(* All that workers do, but forceClose()'s store to _state.                *)
LEMMA GentleWorker ==
  ASSUME ServerInv, NEW w \in Workers, NEW c, WorkerFrame(w, c),
         NEW h \in {c, None}, NEW p \in WorkerPhases, p # "idle" => h # None,
         holds' = [holds EXCEPT ![w] = h], wpc' = [wpc EXCEPT ![w] = p],
         NEW r, Gentle(conn[c], r), Unmoved(conn[c], r), conn' = [conn EXCEPT ![c] = r],
         NEW m \in Loops, NEW F \in SUBSET Functors, FunctorStep(c, m, F),
         LifeInv => OpsOf(w)' /\ \A f \in F : f.fn \in WorkerFunctors /\ f.fn \in scenario.workerOps,
         wpc[w] = "forceCloseRun" => Functor("forceClose", c, TRUE) \in F /\ m = home[c]
  PROVE  Preserves
<1>1. /\ c \in Conns /\ conn[c].ups = 1 /\ Accepted(c) /\ Around(c)
      /\ \A v \in Workers : v # w => holds'[v] = holds[v] /\ wpc'[v] = wpc[v]
  BY WorkerAround
<1>2. UNCHANGED <<scenario, home, memo, peer, revents, batch>>
  BY DEF WorkerFrame
<1>3. StepOn(c, m, F)
  BY <1>1, <1>2, GentleOn
<1>4. ASSUME LifeInv PROVE LifeOn(c, F)
  <2>1. /\ \A k \in Loops : Funs(k) \subseteq Funs(k)'
        /\ F \subseteq Funs(m)' /\ (Kept(c) => Kept(c)')
    BY <1>1, <1>2, GrowsKeeps
  <2>2. ASSUME Closing(c) PROVE Closing(c)'
    <3>1. PICK l \in Loops : l = home[c] /\ l = home'[c]
      BY <1>1, <1>2, Homes DEF ServerInv
    <3>2. CASE Functor("forceClose", c, TRUE) \in Funs(home[c])
      <4>1. Functor("forceClose", c, TRUE) \in Funs(l)'
        BY <2>1, <3>1, <3>2
      <4>2. QED
        BY <3>1, <4>1 DEF Closing, Funs
    <3>3. CASE wpc[w] = "forceCloseRun"
      <4>1. Functor("forceClose", c, TRUE) \in Funs(l)'
        BY <2>1, <3>1, <3>3
      <4>2. QED
        BY <3>1, <4>1 DEF Closing, Funs
    <3>4. CASE \E v \in Workers : v # w /\ holds[v] = c /\ wpc[v] = "forceCloseRun"
      BY <1>1, <3>4 DEF Closing
    <3>5. QED
      BY <2>2, <3>2, <3>3, <3>4 DEF Closing
  <2>3. \A v \in Workers : OpsOf(v)'
    BY <1>1, <1>2, <1>4 DEF LifeInv, OpsInv, OpsOf
  <2>4. StaysOpen(scenario) =>
          /\ \A d \in Conns : d # c => peer'[d] = peer[d]
          /\ peer'[c].end = "open" /\ ("in" \in revents'[c] => peer'[c].unread > 0)
    BY <1>1, <1>2, <1>4 DEF LifeInv, OpenInv
  <2>5. QED
    BY <1>1, <1>2, <1>4, <2>1, <2>2, <2>3, <2>4, GentleLife
<1>5. QED
  BY <1>1, <1>3, <1>4, StepPreserves

LEMMA NoFunctors ==
  ASSUME TypeOK, OrderInv, UNCHANGED queue, NEW c \in Conns
  PROVE  FunctorStep(c, Main, {})
  BY Homes, PushesNothing DEF FunctorStep

LEMMA TestPreserves ==
  ASSUME ServerInv, UNCHANGED scenario, NEW w \in Workers, NEW op \in scenario.workerOps, WorkerTest(w, op)
  PROVE  Preserves
<1>1. PICK c : c = holds[w]
  OBVIOUS
<1>2. /\ c # None /\ wpc[w] = "idle" /\ op \in {"send", "shutdown", "forceClose"}
      /\ wpc' = [wpc EXCEPT ![w] = op]
      /\ UNCHANGED <<scenario, conn, home, memo, peer, phase, active, revents, queue, batch, quit, holds>>
  BY <1>1 DEF WorkerTest, loopVars
<1>3. holds' = [holds EXCEPT ![w] = c] /\ c \in Conns /\ conn' = [conn EXCEPT ![c] = conn[c]]
      /\ wpc'[w] = op
  BY <1>1, <1>2 DEF ServerInv, TypeOK
<1>4. WorkerFrame(w, c)
  BY <1>1, <1>2 DEF WorkerFrame
<1>5. Gentle(conn[c], conn[c]) /\ Unmoved(conn[c], conn[c])
  BY <1>3, Homes, GentleSame DEF ServerInv
<1>6. FunctorStep(c, Main, {}) /\ Main \in Loops
  BY <1>2, <1>3, NoFunctors, Homes DEF ServerInv
<1>7. OpsOf(w)'
  BY <1>2, <1>3 DEF OpsOf
<1>8. op \in WorkerPhases
  BY <1>2 DEF WorkerPhases
<1>9. QED
  BY <1>2, <1>3, <1>4, <1>5, <1>6, <1>7, <1>8, GentleWorker

LEMMA ReleasePreserves ==
  ASSUME ServerInv, UNCHANGED scenario, NEW w \in Workers, WorkerReleases(w)
  PROVE  Preserves
<1>1. PICK c : c = holds[w]
  OBVIOUS
<1>2. /\ c # None /\ wpc[w] \in {"idle", "done"}
      /\ wpc' = [wpc EXCEPT ![w] = "idle"] /\ holds' = [holds EXCEPT ![w] = None]
      /\ UNCHANGED <<scenario, conn, home, memo, peer, phase, active, revents, queue, batch, quit>>
  BY <1>1 DEF WorkerReleases, loopVars
<1>3. c \in Conns /\ conn' = [conn EXCEPT ![c] = conn[c]] /\ wpc'[w] = "idle"
  BY <1>1, <1>2 DEF ServerInv, TypeOK
<1>4. WorkerFrame(w, c)
  BY <1>1, <1>2 DEF WorkerFrame
<1>5. Gentle(conn[c], conn[c]) /\ Unmoved(conn[c], conn[c])
  BY <1>3, Homes, GentleSame DEF ServerInv
<1>6. FunctorStep(c, Main, {}) /\ Main \in Loops
  BY <1>2, <1>3, NoFunctors, Homes DEF ServerInv
<1>7. OpsOf(w)'
  BY <1>2, <1>3 DEF OpsOf
<1>8. "idle" \in WorkerPhases
  BY DEF WorkerPhases
<1>9. QED
  BY <1>2, <1>3, <1>4, <1>5, <1>6, <1>7, <1>8, GentleWorker

LEMMA PushPreserves ==
  ASSUME ServerInv, UNCHANGED scenario, NEW w \in Workers, WorkerRun(w)
  PROVE  Preserves
<1>1. PICK c : c = holds[w]
  OBVIOUS
<1>2. PICK fn \in {"send", "shutdown", "forceClose"}, o \in BOOLEAN :
        /\ wpc[w] = IF fn = "send" THEN "send" ELSE IF fn = "shutdown" THEN "shutdownRun" ELSE "forceCloseRun"
        /\ Pushes(w, Functor(fn, c, o)) /\ (o <=> fn = "forceClose")
  BY <1>1 DEF WorkerRun
<1>3. c # None
  BY <1>1, <1>2 DEF ServerInv, PhaseInv
<1> DEFINE f == Functor(fn, c, o)
<1>4. /\ queue' = Enqueue(home[c], f) /\ wpc' = [wpc EXCEPT ![w] = "done"]
      /\ UNCHANGED <<scenario, conn, home, memo, peer, phase, active, revents, batch, quit, holds>>
  BY <1>1, <1>2 DEF Pushes
<1>5. /\ c \in Conns /\ holds' = [holds EXCEPT ![w] = c] /\ conn' = [conn EXCEPT ![c] = conn[c]]
      /\ wpc'[w] = "done" /\ Accepted(c)
  BY <1>1, <1>3, <1>4 DEF ServerInv, TypeOK, PlaceInv
<1>6. f \in Functors /\ f.fn = fn /\ f.conn = c /\ f.owns = o
  BY <1>2, <1>5, FunctorFields
<1>7. PICK m \in Loops : m = home[c]
  BY <1>5, Homes DEF ServerInv
<1>8. FunctorStep(c, m, {f})
  <2>1. f.fn # "established" /\ f.fn # "remove" /\ (f.owns <=> f.fn \in Owning)
    BY <1>2, <1>6 DEF Owning
  <2>2. queue' = Enqueue(m, f)
    BY <1>4, <1>7
  <2>3. Grows(m, {f})
    BY <1>6, <2>1, <2>2, PushesOne DEF ServerInv
  <2>4. QED
    BY <1>6, <1>7, <2>1, <2>3 DEF FunctorStep
<1>9. WorkerFrame(w, c)
  BY <1>1, <1>3, <1>4 DEF WorkerFrame
<1>10. Gentle(conn[c], conn[c]) /\ Unmoved(conn[c], conn[c])
  BY <1>5, Homes, GentleSame DEF ServerInv
<1>11. LifeInv => OpsOf(w)' /\ fn \in scenario.workerOps
  BY <1>2, <1>5 DEF LifeInv, OpsInv, OpsOf
<1>12. wpc[w] = "forceCloseRun" => f = Functor("forceClose", c, TRUE)
  BY <1>2
<1>13. "done" \in WorkerPhases /\ fn \in WorkerFunctors
  BY <1>2 DEF WorkerPhases, WorkerFunctors
<1> HIDE DEF f
<1>14. PICK F \in SUBSET Functors : F = {f}
  BY <1>6
<1>15. LifeInv => OpsOf(w)' /\ \A e \in F : e.fn \in WorkerFunctors /\ e.fn \in scenario.workerOps
  BY <1>6, <1>11, <1>13, <1>14
<1>16. wpc[w] = "forceCloseRun" => Functor("forceClose", c, TRUE) \in F /\ m = home[c]
  BY <1>7, <1>12, <1>14
<1>17. FunctorStep(c, m, F)
  BY <1>8, <1>14
<1>18. QED
  BY <1>3, <1>4, <1>5, <1>9, <1>10, <1>13, <1>15, <1>16, <1>17, GentleWorker

LEMMA StorePreserves ==
  ASSUME ServerInv, UNCHANGED scenario, NEW w \in Workers, WorkerStore(w)
  PROVE  Preserves
<1>1. PICK c : c = holds[w]
  OBVIOUS
<1>2. c # None
  BY <1>1 DEF WorkerStore, ServerInv, PhaseInv
<1>3. UNCHANGED <<scenario, home, memo, peer, phase, active, revents, queue, batch, quit, holds>>
  BY DEF WorkerStore, loopVars
<1>4. c \in Conns /\ holds' = [holds EXCEPT ![w] = c] /\ conn[c] \in Connection
  BY <1>1, <1>2, <1>3, Homes DEF ServerInv, TypeOK
<1>5. WorkerFrame(w, c)
  BY <1>1, <1>2, <1>3 DEF WorkerFrame
<1>6. FunctorStep(c, Main, {}) /\ Main \in Loops
  BY <1>3, <1>4, NoFunctors, Homes DEF ServerInv
<1>7. CASE wpc[w] = "shutdown"
  <2>1. /\ conn' = [conn EXCEPT ![c] = ShutdownStore(conn[c])]
        /\ wpc' = [wpc EXCEPT ![w] = "shutdownRun"] /\ wpc'[w] = "shutdownRun"
    BY <1>1, <1>7 DEF WorkerStore, ServerInv, TypeOK
  <2>2. Gentle(conn[c], ShutdownStore(conn[c])) /\ Unmoved(conn[c], ShutdownStore(conn[c]))
    BY <1>4, GentleShutDown
  <2>3. LifeInv => OpsOf(w)'
    BY <1>3, <1>7, <2>1 DEF LifeInv, OpsInv, OpsOf
  <2>4. "shutdownRun" \in WorkerPhases
    BY DEF WorkerPhases
  <2>5. QED
    BY <1>2, <1>4, <1>5, <1>6, <1>7, <2>1, <2>2, <2>3, <2>4, GentleWorker
<1>8. CASE wpc[w] = "forceClose"
  <2>1. PICK r : r = ForceCloseStore(conn[c])
    OBVIOUS
  <2>2. /\ conn' = [conn EXCEPT ![c] = r]
        /\ wpc' = [wpc EXCEPT ![w] = "forceCloseRun"] /\ wpc'[w] = "forceCloseRun"
    BY <1>1, <1>8, <2>1 DEF WorkerStore, ServerInv, TypeOK
  <2>3. /\ r \in Connection /\ r.state = "disconnecting" /\ r.ups = conn[c].ups
        /\ r.downs = conn[c].downs /\ r.interest = conn[c].interest /\ r.pending = conn[c].pending
        /\ r.cut = conn[c].cut /\ Unmoved(conn[c], r)
    BY <1>4, <2>1 DEF ForceCloseStore, Unmoved, Connection, States
  <2>4. /\ conn'[c] = r /\ conn' \in [Conns -> Connection]
        /\ \A d \in Conns : d # c => conn'[d] = conn[d]
    BY <1>4, <2>2, <2>3 DEF ServerInv, TypeOK
  <2>5. /\ conn[c].ups = 1 /\ Accepted(c) /\ Around(c) /\ conn[c].state # "connecting"
        /\ \A v \in Workers : v # w => holds'[v] = holds[v] /\ wpc'[v] = wpc[v]
        /\ holds'[w] = c
    <3>1. "forceCloseRun" \in WorkerPhases
      BY DEF WorkerPhases
    <3>2. QED
      BY <1>2, <1>4, <1>5, <2>2, <3>1, WorkerAround
  <2>6. RecordStep(c)
    BY <1>3, <1>4, <2>3, <2>4, <2>5 DEF RecordStep, ServerInv, ReadInv, WriteInterest, IsWriting
  <2>7. StepOn(c, Main, {})
    BY <1>3, <1>6, <2>5, <2>6 DEF StepOn
  <2>8. ASSUME LifeInv PROVE LifeOn(c, {})
    <3>1. "forceClose" \in scenario.workerOps /\ ~StaysOpen(scenario)
      BY <1>8, <2>8 DEF LifeInv, OpsInv, OpsOf, StaysOpen
    <3>2. \A v \in Workers : OpsOf(v)'
      BY <1>3, <2>2, <2>5, <2>8, <3>1 DEF LifeInv, OpsInv, OpsOf
    <3>3. Kept(c) => Kept(c)'
      BY <1>3, <1>4, <1>6, <2>5, GrowsKeeps
    <3>4. KeepStep(c)
      BY <2>3, <2>4, <3>3 DEF KeepStep, Registered, Unmoved
    <3>5. Closing(c)'
      BY <2>2, <2>5 DEF Closing
    <3>6. CloseStep(c)
      BY <2>3, <2>4, <3>5 DEF CloseStep
    <3>7. QED
      BY <3>1, <3>2, <3>4, <3>6 DEF LifeOn, DownStep
  <2>9. QED
    BY <1>4, <1>6, <2>7, <2>8, StepPreserves
<1>9. QED
  BY <1>7, <1>8 DEF WorkerStore

-----------------------------------------------------------------------------
(***************************************************************************)
(* The peers.                                                              *)
(***************************************************************************)
LEMMA PeerPreserves ==
  ASSUME ServerInv, UNCHANGED scenario, NEW c \in Conns, PeerStep(c), PeerTypes,
         LifeInv /\ StaysOpen(scenario) =>
           \A d \in Conns : peer'[d].end = peer[d].end /\ peer[d].unread <= peer'[d].unread
  PROVE  Preserves
<1> USE DEF ServerInv
<1>1. UNCHANGED <<scenario, conn, home, memo, phase, active, revents, queue, batch, quit, holds, wpc>>
  BY DEF PeerStep, loopVars, workerVars
<1>2. \A l \in Loops : Funs(l)' = Funs(l)
  BY <1>1 DEF Funs
<1>3. TypeOK'
  BY <1>1 DEF TypeOK, PeerTypes, Peers
<1>4. PhaseInv'
  BY <1>1 DEF PhaseInv, PeerTypes, Accepted
<1>5. OrderInv'
  BY <1>1 DEF OrderInv
<1>6. PlaceInv'
  BY <1>1, <1>2 DEF PlaceInv, Accepted
<1>7. FreshInv'
  BY <1>1 DEF FreshInv, Funs, Accepted
<1>8. ReadInv' /\ WriteInterest'
  BY <1>1 DEF ReadInv, WriteInterest
<1>9. ASSUME LifeInv PROVE LifeInv'
  <2> USE <1>9 DEF LifeInv
  <2>1. OpsInv' /\ KeepsPointers(scenario)'
    BY <1>1, <1>2 DEF OpsInv, OpsOf, KeepsPointers, StaysOpen
  <2>2. OpenInv'
    <3> SUFFICES ASSUME StaysOpen(scenario)
                 PROVE  /\ \A d \in Conns :
                             /\ Accepted(d) => d \in memo
                             /\ peer'[d].end = "open" /\ "hup" \notin revents[d]
                             /\ "in" \in revents[d] => peer'[d].unread > 0
                        /\ \A l \in Loops : \A f \in Funs(l) : f.fn \notin Owning
      BY <1>1, <1>2 DEF OpenInv, Accepted
    <3>1. \A d \in Conns : peer[d].unread \in Int /\ peer'[d].unread \in Int
      <4>1. \A d \in Conns : peer[d] \in Peers /\ peer'[d] \in Peers
        BY DEF TypeOK, PeerTypes, Peers
      <4>2. QED
        BY <4>1, PeerFields
    <3>2. QED
      BY <3>1 DEF OpenInv
  <2>3. \A d \in Conns : (Kept(d)' <=> Kept(d)) /\ (Closing(d)' <=> Closing(d))
    BY <1>1 DEF Kept, Closing, Funs
  <2>4. KeptInv'
    BY <1>1 DEF KeptInv, Kept, Funs, Registered, Accepted
  <2>5. CloseInv'
    BY <1>1, <2>3 DEF CloseInv, Running, Accepted
  <2>6. DownInv'
    BY <1>1, <1>2 DEF DownInv, Running, Accepted, Once
  <2>7. QED
    BY <2>1, <2>2, <2>4, <2>5, <2>6
<1>10. QED
  BY <1>3, <1>4, <1>5, <1>6, <1>7, <1>8, <1>9 DEF Preserves

LEMMA SendsPreserves ==
  ASSUME ServerInv, UNCHANGED scenario, NEW c \in Conns, PeerSends(c)
  PROVE  Preserves
<1>1. peer \in [Conns -> Peers] /\ \A d \in Conns : peer[d].unread <= peer[d].sent
  BY DEF ServerInv, TypeOK, Peers, PhaseInv
<1>2. scenario.messages \in Nat
  BY ServerAssumption DEF ServerInv, TypeOK, Scenario
<1> DEFINE o == peer[c]
           p == [o EXCEPT !.sent = @ + 1]
           q == [p EXCEPT !.unread = @ + 1]
<1>3. o \in Peers /\ o.sent < scenario.messages /\ o.unread <= o.sent
  BY <1>1 DEF PeerSends
<1>4. peer' = [peer EXCEPT ![c] = q]
  BY <1>1 DEF PeerSends, Peers
<1> HIDE DEF o
<1>5. /\ p \in Peers /\ p.end = o.end /\ p.unread = o.unread /\ p.sent = o.sent + 1
      /\ o.sent \in Nat /\ o.unread \in Nat
  BY <1>2, <1>3 DEF Peers
<1> HIDE DEF p
<1>6. q \in Peers /\ q.end = p.end /\ q.unread = o.unread + 1 /\ q.sent = o.sent + 1
  BY <1>2, <1>3, <1>5 DEF Peers
<1> HIDE DEF q
<1>7. PeerTypes
  BY <1>1, <1>3, <1>4, <1>5, <1>6 DEF PeerTypes
<1>8. \A d \in Conns : peer'[d].end = peer[d].end /\ peer[d].unread <= peer'[d].unread
  <2>1. \A d \in Conns : peer[d].unread \in Int
    BY <1>1, PeerFields
  <2>2. QED
    BY <1>1, <1>4, <1>5, <1>6, <2>1 DEF o
<1>9. QED
  BY <1>7, <1>8, PeerPreserves DEF PeerSends

LEMMA DrainsPreserves ==
  ASSUME ServerInv, UNCHANGED scenario, NEW c \in Conns, PeerReads(c)
  PROVE  Preserves
<1>1. peer \in [Conns -> Peers] /\ \A d \in Conns : peer[d].unread <= peer[d].sent
  BY DEF ServerInv, TypeOK, Peers, PhaseInv
<1> DEFINE o == peer[c]
           q == [o EXCEPT !.space = TRUE]
<1>2. o \in Peers /\ peer' = [peer EXCEPT ![c] = q]
  BY <1>1 DEF PeerReads
<1> HIDE DEF o
<1>3. q \in Peers /\ q.end = o.end /\ q.sent = o.sent /\ q.unread = o.unread
  BY <1>2 DEF Peers
<1> HIDE DEF q
<1>4. PeerTypes
  BY <1>1, <1>2, <1>3 DEF PeerTypes, o
<1>5. \A d \in Conns : peer'[d].end = peer[d].end /\ peer[d].unread <= peer'[d].unread
  <2>1. \A d \in Conns : peer[d].unread \in Int
    BY <1>1, PeerFields
  <2>2. QED
    BY <1>1, <1>2, <1>3, <2>1 DEF o
<1>6. QED
  BY <1>4, <1>5, PeerPreserves DEF PeerReads

LEMMA EndsPreserves ==
  ASSUME ServerInv, UNCHANGED scenario, NEW c \in Conns, NEW how \in scenario.endings, PeerEnds(c, how)
  PROVE  Preserves
<1>1. peer \in [Conns -> Peers] /\ \A d \in Conns : peer[d].unread <= peer[d].sent
  BY DEF ServerInv, TypeOK, Peers, PhaseInv
<1>2. how \in {"fin", "reset"} /\ ~StaysOpen(scenario)
  BY ServerAssumption DEF ServerInv, TypeOK, Scenario, StaysOpen
<1> DEFINE o == peer[c]
           q == [o EXCEPT !.end = how]
<1>3. o \in Peers /\ peer' = [peer EXCEPT ![c] = q]
  BY <1>1 DEF PeerEnds
<1> HIDE DEF o
<1>4. q \in Peers /\ q.sent = o.sent /\ q.unread = o.unread
  BY <1>2, <1>3, PeerUpdates
<1> HIDE DEF q
<1>5. PeerTypes
  BY <1>1, <1>3, <1>4 DEF PeerTypes, o
<1>6. QED
  BY <1>2, <1>5, PeerPreserves DEF PeerEnds

-----------------------------------------------------------------------------
(***************************************************************************)
(* The loops: Swap, EndPending, QuitLoop, DropMainLoop and Poll.           *)
(***************************************************************************)
LEMMA OrdersAll ==
  ASSUME NEW S, IsFiniteSet(S), NEW s \in Orders(S)
  PROVE  s \in Seq(S) /\ Rng(s) = S /\ DOMAIN s = 1..Len(s)
<1> DEFINE n == Cardinality(S)
<1>1. n \in Nat /\ IsFiniteSet(1..n) /\ Cardinality(1..n) = n
  BY FS_CardinalityType, FS_Interval
<1>2. s \in [1..n -> S] /\ \A i, j \in 1..n : s[i] = s[j] => i = j
  BY DEF Orders
<1>3. s \in Seq(S)
  BY <1>1, <1>2, SeqDef
<1>4. DOMAIN s = 1..Len(s) /\ DOMAIN s = 1..n
  BY <1>2, <1>3, LenProperties
<1> HIDE DEF n
<1>5. s \in Injection(1..n, S)
  <2>1. PICK D : D = 1..n
    OBVIOUS
  <2>2. s \in [D -> S] /\ \A i, j \in D : s[i] = s[j] => i = j
    BY <1>2, <2>1
  <2>3. s \in Injection(D, S)
    BY <2>2 DEF Injection, IsInjective
  <2>4. QED
    BY <2>1, <2>3
<1>6. s \in Surjection(1..n, S)
  BY <1>1, <1>5, FS_Injection DEF n
<1>7. Rng(s) = {s[i] : i \in 1..n}
  BY <1>4 DEF Rng
<1>8. Rng(s) = S
  BY <1>2, <1>6, <1>7 DEF Surjection
<1>9. QED
  BY <1>3, <1>4, <1>8

(* Steps that at most drop the functors of loops that stop.                *)
Drops ==
  /\ \A k \in Loops : Funs(k)' = Funs(k) \/ (Funs(k)' = {} /\ phase'[k] = "stopped")
  /\ Funs(Main)' = Funs(Main) \/ \A k \in Loops : phase'[k] = "stopped"
  /\ \A k \in Loops : phase'[k] # "stopped" => phase[k] # "stopped"
  /\ Running' => Running /\ \A k \in Loops : Funs(k)' = Funs(k)

LEMMA QuietPreserves ==
  ASSUME ServerInv, UNCHANGED <<scenario, conn, home, memo, peer, active, revents, holds, wpc>>,
         TypeOK', OrderInv', PhaseInv', Drops
  PROVE  Preserves
<1> USE DEF ServerInv
<1>1. /\ \A k \in Loops : Funs(k)' = Funs(k) \/ (Funs(k)' = {} /\ phase'[k] = "stopped")
      /\ Funs(Main)' = Funs(Main) \/ \A k \in Loops : phase'[k] = "stopped"
      /\ \A k \in Loops : phase'[k] # "stopped" => phase[k] # "stopped"
      /\ Running' => Running /\ \A k \in Loops : Funs(k)' = Funs(k)
  BY DEF Drops
<1>2. \A k \in Loops : Funs(k)' \subseteq Funs(k)
  BY <1>1
<1>3. \A d \in Conns : (Accepted(d)' <=> Accepted(d)) /\ (Accepted(d) => home[d] \in Loops)
  BY Homes DEF Accepted
<1>4. PlaceInv'
  BY <1>2 DEF PlaceInv, Accepted
<1>5. FreshInv'
  <2>1. ASSUME NEW d \in Conns, conn[d].ups = 0, Accepted(d), phase'[home[d]] # "stopped"
        PROVE  \E f \in Funs(home[d])' : f.fn = "established" /\ f.conn = d
    <3>1. PICK k \in Loops : k = home[d] /\ k = home'[d]
      BY <1>3, <2>1
    <3>2. Funs(k)' = Funs(k) /\ phase[k] # "stopped"
      BY <1>1, <2>1, <3>1
    <3>3. PICK f \in Funs(k) : f.fn = "established" /\ f.conn = d
      BY <2>1, <3>1, <3>2 DEF FreshInv
    <3>4. f \in Funs(k)'
      BY <3>2, <3>3
    <3>5. QED
      BY <3>1, <3>3, <3>4 DEF Funs
  <2>2. ASSUME NEW d \in Conns, conn[d].ups = 0
        PROVE  /\ conn[d] = NewConnection
               /\ \A k \in Loops : d \notin Rng(active[k])
               /\ \A w \in Workers : holds[w] # d
               /\ \A k \in Loops : \A f \in Funs(k)' : f.conn = d => f.fn \in {"established", "destroyed"}
    BY <1>2, <2>2 DEF FreshInv
  <2>3. \A d \in Conns : /\ conn[d].ups <= 1
                         /\ conn[d].state = "connecting" => conn[d].ups = 0
                         /\ ~Accepted(d) => conn[d].ups = 0
    BY DEF FreshInv
  <2>4. \A d \in Conns : \A k \in Loops : \A f \in Funs(k)' :
          f.fn = "established" /\ f.conn = d => conn[d].ups = 0
    BY <1>2 DEF FreshInv
  <2>5. QED
    BY <1>3, <2>1, <2>2, <2>3, <2>4 DEF FreshInv
<1>6. ReadInv' /\ WriteInterest'
  BY DEF ReadInv, WriteInterest
<1>7. ASSUME LifeInv PROVE LifeInv'
  <2> USE <1>7 DEF LifeInv
  <2>1. OpsInv' /\ KeepsPointers(scenario)'
    <3>1. OpsInv'
      BY <1>2 DEF OpsInv, OpsOf
    <3>2. QED
      BY <3>1 DEF KeepsPointers, StaysOpen
  <2>2. OpenInv'
    BY <1>2 DEF OpenInv, StaysOpen, Accepted
  <2>3. ASSUME NEW d \in Conns, Accepted(d), Kept(d), phase'[home[d]] # "stopped" PROVE Kept(d)'
    <3>1. PICK k \in Loops : k = home[d] /\ k = home'[d]
      BY <1>3, <2>3
    <3>2. Funs(k)' = Funs(k) /\ Funs(Main)' = Funs(Main)
      BY <1>1, <2>3, <3>1
    <3>3. QED
      BY <2>3, <3>1, <3>2 DEF Kept, Funs
  <2>4. KeptInv'
    <3>1. ASSUME NEW k \in Loops, NEW f \in Funs(k)', f.fn = "established"
          PROVE  f.conn \in memo' \/ Functor("destroyed", f.conn, TRUE) \in Funs(k)'
      <4>1. Funs(k)' = Funs(k)
        BY <1>1, <3>1
      <4>2. QED
        BY <3>1, <4>1 DEF KeptInv
    <3>2. ASSUME NEW k \in Loops, NEW d \in Rng(active'[k]) PROVE Kept(d)'
      <4>1. d \in Rng(active[k]) /\ d \in Conns
        BY <3>2, Homes
      <4>2. Kept(d) /\ home[d] = k
        BY <4>1 DEF KeptInv, PlaceInv
      <4>3. Accepted(d)
        BY <4>1, Homes, ConnectionFields DEF FreshInv
      <4>4. phase'[k] # "stopped"
        <5>1. active'[k] \in Seq(Conns) /\ Rng(active'[k]) # {}
          BY <3>2 DEF TypeOK
        <5>2. active'[k] # <<>>
          BY <5>1, RngOfSeq
        <5>3. QED
          BY <5>2 DEF PhaseInv
      <4>5. QED
        BY <2>3, <4>1, <4>2, <4>3, <4>4
    <3>3. ASSUME NEW d \in Conns, Accepted(d), Registered(d), phase'[home[d]] # "stopped"
          PROVE  Kept(d)'
      <4>1. phase[home[d]] # "stopped"
        BY <1>1, <1>3, <3>3
      <4>2. QED
        BY <2>3, <3>3, <4>1 DEF KeptInv
    <3>4. QED
      BY <1>3, <3>1, <3>2, <3>3 DEF KeptInv, Registered
  <2>5. CloseInv'
    <3> SUFFICES ASSUME Running', NEW d \in Conns, Accepted(d)
                 PROVE  /\ conn[d].state = "connected" => Kept(d)'
                        /\ conn[d].state = "disconnecting" => Closing(d)'
      BY <1>3 DEF CloseInv
    <3>1. /\ Running /\ Funs(Main)' = Funs(Main) /\ Main \in Loops
          /\ \A k \in Loops : Funs(k)' = Funs(k)
      BY <1>1, Homes
    <3>2. PICK k \in Loops : k = home[d] /\ k = home'[d]
      BY <1>3
    <3>3. (Kept(d)' <=> Kept(d)) /\ (Closing(d)' <=> Closing(d))
      BY <3>1, <3>2 DEF Kept, Closing, Funs
    <3>4. QED
      BY <3>1, <3>3 DEF CloseInv
  <2>6. DownInv'
    <3> SUFFICES ASSUME NEW d \in Conns, Once(d)
                 PROVE  /\ conn[d].downs > 0 =>
                             /\ conn[d].downs = 1 /\ conn[d].ups = 1
                             /\ conn[d].state = "disconnected" /\ conn[d].interest = {}
                             /\ conn[d].index # "added"
                        /\ revents[d] \cap {"in", "hup"} # {} =>
                             conn[d].downs = 0 /\ conn[d].index = "added"
                        /\ Running' /\ Accepted(d) =>
                             /\ d \notin memo => conn[d].downs = 1
                             /\ \A k \in Loops : \A f \in Funs(k)' :
                                  f.conn = d /\ f.fn \in {"remove", "destroyed"} => conn[d].downs = 1
      BY <1>3 DEF DownInv, Once
    <3>1. QED
      BY <1>1, <1>2 DEF DownInv
  <2>7. QED
    BY <2>1, <2>2, <2>4, <2>5, <2>6
<1>8. QED
  BY <1>4, <1>5, <1>6, <1>7 DEF Preserves

LEMMA EmptyRng == Rng(<<>>) = {} /\ Early(<<>>)
<1>1. <<>> \in Seq(Functors) /\ Len(<<>>) = 0
  BY EmptySeq
<1>2. 1..Len(<<>>) = {}
  BY <1>1
<1>3. QED
  BY <1>2 DEF Rng, Early

LEMMA SwapPreserves ==
  ASSUME ServerInv, UNCHANGED scenario, NEW l \in Loops, Swap(l)
  PROVE  Preserves
<1> USE DEF ServerInv
<1>1. /\ phase[l] = "events" /\ active[l] = <<>> /\ batch[l] = <<>>
      /\ UNCHANGED <<scenario, conn, home, memo, peer, active, revents, quit, holds, wpc>>
      /\ phase' = [phase EXCEPT ![l] = "tasks"]
      /\ batch' = [batch EXCEPT ![l] = queue[l]]
      /\ queue' = [queue EXCEPT ![l] = <<>>]
  BY DEF Swap, workerVars, PhaseInv
<1>2. /\ \A k \in Loops : phase'[k] = IF k = l THEN "tasks" ELSE phase[k]
      /\ \A k \in Loops : batch'[k] = IF k = l THEN queue[l] ELSE batch[k]
      /\ \A k \in Loops : queue'[k] = IF k = l THEN <<>> ELSE queue[k]
  BY <1>1 DEF TypeOK
<1>3. TypeOK'
  <2>1. <<>> \in Seq(Functors)
    BY EmptySeq
  <2>2. phase' \in [Loops -> {"poll", "events", "tasks", "stopped"}]
    BY <1>1 DEF TypeOK
  <2>3. batch' \in [Loops -> Seq(Functors)] /\ queue' \in [Loops -> Seq(Functors)]
    BY <1>1, <2>1 DEF TypeOK
  <2>4. QED
    BY <1>1, <2>2, <2>3 DEF TypeOK
<1>4. \A k \in Loops : Funs(k)' = Funs(k)
  BY <1>1, <1>2, EmptyRng DEF Funs
<1>5. OrderInv'
  BY <1>1, <1>2, EmptyRng DEF OrderInv
<1>6. PhaseInv'
  <2>1. phase[Main] = "stopped" <=> phase'[Main] = "stopped"
    BY <1>1, <1>2, Homes
  <2>2. \A k \in Loops : /\ phase'[k] # "tasks" => batch'[k] = <<>>
                         /\ phase'[k] # "events" => active'[k] = <<>>
                         /\ quit'[k] \/ phase'[k] = "stopped" => phase'[Main] = "stopped"
    BY <1>1, <1>2, <2>1 DEF PhaseInv
  <2>3. QED
    BY <1>1, <2>2 DEF PhaseInv, Accepted
<1>7. Drops
  BY <1>1, <1>2, <1>4, Homes DEF Drops, Running
<1>8. QED
  BY <1>1, <1>3, <1>5, <1>6, <1>7, QuietPreserves

LEMMA EndPreserves ==
  ASSUME ServerInv, UNCHANGED scenario, NEW l \in Loops, EndPending(l)
  PROVE  Preserves
<1> USE DEF ServerInv
<1>1. /\ phase[l] = "tasks" /\ batch[l] = <<>> /\ active[l] = <<>>
      /\ UNCHANGED <<scenario, conn, home, memo, peer, active, revents, batch, quit, holds, wpc>>
      /\ phase' = [phase EXCEPT ![l] = IF quit[l] THEN "stopped" ELSE "poll"]
      /\ queue' = [queue EXCEPT ![l] = IF quit[l] THEN <<>> ELSE queue[l]]
  BY DEF EndPending, workerVars, PhaseInv
<1>2. /\ \A k \in Loops : k # l => phase'[k] = phase[k] /\ queue'[k] = queue[k]
      /\ phase'[l] = IF quit[l] THEN "stopped" ELSE "poll"
      /\ queue'[l] = IF quit[l] THEN <<>> ELSE queue[l]
  BY <1>1 DEF TypeOK
<1>3. TypeOK'
  <2>1. <<>> \in Seq(Functors)
    BY EmptySeq
  <2>2. phase' \in [Loops -> {"poll", "events", "tasks", "stopped"}]
    BY <1>1 DEF TypeOK
  <2>3. queue' \in [Loops -> Seq(Functors)]
    BY <1>1, <2>1 DEF TypeOK
  <2>4. QED
    BY <1>1, <2>2, <2>3 DEF TypeOK
<1>4. quit[l] => l # Main /\ phase[Main] = "stopped"
  BY DEF PhaseInv
<1>5. /\ \A k \in Loops : k # l => Funs(k)' = Funs(k)
      /\ Funs(l)' = IF quit[l] THEN {} ELSE Funs(l)
  BY <1>1, <1>2, EmptyRng DEF Funs
<1>6. OrderInv'
  BY <1>1, <1>2, EmptyRng DEF OrderInv
<1>7. phase[Main] = "stopped" <=> phase'[Main] = "stopped"
  BY <1>1, <1>2, <1>4, Homes
<1>8. PhaseInv'
  <2>1. \A k \in Loops : /\ phase'[k] # "tasks" => batch'[k] = <<>>
                         /\ phase'[k] # "events" => active'[k] = <<>>
                         /\ quit'[k] \/ phase'[k] = "stopped" => phase'[Main] = "stopped"
    BY <1>1, <1>2, <1>4, <1>7 DEF PhaseInv
  <2>2. QED
    BY <1>1, <2>1 DEF PhaseInv, Accepted
<1>9. Drops
  <2>1. Funs(Main)' = Funs(Main)
    BY <1>4, <1>5, Homes
  <2>2. \A k \in Loops : phase'[k] # "stopped" => phase[k] # "stopped"
    BY <1>1, <1>2
  <2>3. QED
    BY <1>2, <1>4, <1>5, <1>7, <2>1, <2>2 DEF Drops, Running
<1>10. QED
  BY <1>1, <1>3, <1>6, <1>8, <1>9, QuietPreserves

LEMMA QuitPreserves ==
  ASSUME ServerInv, UNCHANGED scenario, NEW l \in IoLoops, QuitLoop(l)
  PROVE  Preserves
<1> USE DEF ServerInv
<1>1. /\ phase[Main] = "stopped" /\ l # Main /\ quit' = [quit EXCEPT ![l] = TRUE]
      /\ UNCHANGED <<scenario, conn, home, memo, peer, phase, active, revents, queue, batch, holds, wpc>>
  BY DEF QuitLoop, workerVars
<1>2. TypeOK' /\ (quit'[Main] <=> quit[Main])
  BY <1>1, Homes DEF TypeOK
<1>3. \A k \in Loops : Funs(k)' = Funs(k)
  BY <1>1 DEF Funs
<1>4. OrderInv' /\ PhaseInv'
  BY <1>1, <1>2 DEF OrderInv, PhaseInv, Accepted
<1>5. Drops
  BY <1>1, <1>3, Homes DEF Drops, Running
<1>6. QED
  BY <1>1, <1>2, <1>4, <1>5, QuietPreserves

LEMMA DropPreserves ==
  ASSUME ServerInv, UNCHANGED scenario, DropMainLoop
  PROVE  Preserves
<1> USE DEF ServerInv
<1>1. /\ \A l \in Loops : phase[l] = "stopped" /\ batch[l] = <<>>
      /\ queue' = [queue EXCEPT ![Main] = <<>>]
      /\ UNCHANGED <<scenario, conn, home, memo, peer, phase, active, revents, batch, quit, holds, wpc>>
  BY DEF DropMainLoop, workerVars, PhaseInv
<1>2. /\ \A k \in Loops : queue'[k] = IF k = Main THEN <<>> ELSE queue[k]
      /\ queue' \in [Loops -> Seq(Functors)]
  BY <1>1, EmptySeq DEF TypeOK
<1>3. TypeOK'
  BY <1>1, <1>2 DEF TypeOK
<1>4. \A k \in Loops : Funs(k)' = IF k = Main THEN {} ELSE Funs(k)
  BY <1>1, <1>2, EmptyRng DEF Funs
<1>5. OrderInv' /\ PhaseInv'
  BY <1>1, <1>2, EmptyRng DEF OrderInv, PhaseInv, Accepted
<1>6. Drops
  BY <1>1, <1>4, Homes DEF Drops, Running
<1>7. QED
  BY <1>1, <1>3, <1>5, <1>6, QuietPreserves

-----------------------------------------------------------------------------
(***************************************************************************)
(* Poll.                                                                   *)
(***************************************************************************)
LEMMA HitFacts ==
  ASSUME ServerInv, NEW l \in Loops, NEW c \in Conns, home[c] = l,
         NEW R, R = Reported(conn[c], Has(c)), R # {}
  PROVE  /\ conn[c].index = "added" /\ Accepted(c) /\ conn[c].ups # 0
         /\ R \subseteq {"in", "out", "hup"}
         /\ "in" \in R => conn[c].downs = 0 /\ (peer[c].unread > 0 \/ peer[c].end # "open")
         /\ "hup" \in R => peer[c].end # "open"
<1> USE DEF ServerInv
<1>1. conn[c].index = "added" /\ R = Has(c) \cap (conn[c].interest \cup {"hup"})
  BY DEF Reported
<1>2. conn[c].ups # 0
  <2>1. conn[c].ups = 0 => conn[c] = NewConnection
    BY FreshRecord
  <2>2. NewConnection.index = "new"
    BY DEF NewConnection
  <2>3. QED
    BY <1>1, <2>1, <2>2
<1>3. Accepted(c)
  BY <1>2 DEF FreshInv
<1>4. R \subseteq Has(c) /\ Has(c) \subseteq {"in", "out", "hup"}
  BY <1>1 DEF Has
<1>5. "in" \in R => conn[c].downs = 0
  <2>1. "in" \in R => "in" \in conn[c].interest
    BY <1>1
  <2>2. conn[c].downs \in Nat
    BY Homes, ConnectionFields
  <2>3. QED
    BY <2>1, <2>2 DEF ReadInv
<1>6. /\ "in" \in R => peer[c].unread > 0 \/ peer[c].end # "open"
      /\ "hup" \in R => peer[c].end # "open"
  BY <1>4 DEF Has, IsReset
<1>7. QED
  BY <1>1, <1>2, <1>3, <1>4, <1>5, <1>6

LEMMA PollPreserves ==
  ASSUME ServerInv, UNCHANGED scenario, NEW l \in Loops, Poll(l)
  PROVE  Preserves
<1> USE DEF ServerInv
<1> DEFINE hit == {c \in OnLoop(l) : Reported(conn[c], Has(c)) # {}}
<1>1. /\ phase[l] = "poll" /\ phase' = [phase EXCEPT ![l] = "events"]
      /\ active' \in {[active EXCEPT ![l] = s] : s \in Orders(hit)}
      /\ revents' = [c \in Conns |-> IF c \in hit THEN Reported(conn[c], Has(c)) ELSE revents[c]]
      /\ UNCHANGED <<scenario, conn, home, memo, peer, queue, batch, quit, holds, wpc>>
  BY DEF Poll, workerVars
<1>2. hit \subseteq Conns /\ \A c \in hit : home[c] = l
  BY DEF OnLoop
<1>3. ASSUME NEW c \in hit
      PROVE  /\ conn[c].index = "added" /\ Accepted(c) /\ conn[c].ups # 0
             /\ revents'[c] \subseteq {"in", "out", "hup"}
             /\ "in" \in revents'[c] => conn[c].downs = 0 /\ (peer[c].unread > 0 \/ peer[c].end # "open")
             /\ "hup" \in revents'[c] => peer[c].end # "open"
  <2>1. c \in Conns /\ home[c] = l /\ Reported(conn[c], Has(c)) # {}
    BY DEF OnLoop
  <2>2. revents'[c] = Reported(conn[c], Has(c))
    BY <1>1, <2>1
  <2>3. PICK R : R = Reported(conn[c], Has(c))
    OBVIOUS
  <2>4. QED
    BY <2>1, <2>2, <2>3, HitFacts
<1>4. \A c \in Conns : c \notin hit => revents'[c] = revents[c]
  BY <1>1
<1>5. PICK s \in Orders(hit) : active' = [active EXCEPT ![l] = s]
  BY <1>1
<1>6. s \in Seq(Conns) /\ Rng(s) = hit
  <2>1. IsFiniteSet(hit)
    BY <1>2, ServerAssumption, FS_Subset
  <2>2. s \in Seq(hit) /\ Rng(s) = hit
    BY <2>1, OrdersAll
  <2>3. QED
    BY <1>2, <2>2, SeqMonotonic
<1>7. revents' \in [Conns -> SUBSET {"in", "out", "hup"}]
  <2>1. \A c \in Conns : revents'[c] \subseteq {"in", "out", "hup"}
    BY <1>3, <1>4 DEF TypeOK
  <2>2. QED
    BY <1>1, <2>1
<1> HIDE DEF hit
<1>8. /\ active' \in [Loops -> Seq(Conns)]
      /\ \A k \in Loops : k # l => active'[k] = active[k]
      /\ Rng(active'[l]) = hit
      /\ Rng(active[l]) = {}
  BY <1>1, <1>5, <1>6, EmptyRng DEF TypeOK, PhaseInv
<1>9. \A k \in Loops : phase'[k] = IF k = l THEN "events" ELSE phase[k]
  BY <1>1 DEF TypeOK
<1>10. TypeOK'
  <2>1. phase' \in [Loops -> {"poll", "events", "tasks", "stopped"}]
    BY <1>1 DEF TypeOK
  <2>2. QED
    BY <1>1, <1>7, <1>8, <2>1 DEF TypeOK
<1>11. /\ \A k \in Loops : Funs(k)' = Funs(k)
       /\ \A k \in Loops : phase'[k] = "stopped" <=> phase[k] = "stopped"
       /\ Main \in Loops /\ \A d \in Conns : Accepted(d) => home[d] \in Loops
  BY <1>1, <1>9, Homes DEF Funs
<1>12. \A d \in Conns : Accepted(d)' <=> Accepted(d)
  BY <1>1 DEF Accepted
<1>13. OrderInv'
  BY <1>1 DEF OrderInv
<1>14. PlaceInv'
  <2>1. \A k \in Loops : \A d \in Rng(active'[k]) : home'[d] = k
    BY <1>1, <1>2, <1>8 DEF PlaceInv
  <2>2. QED
    BY <1>1, <1>11, <2>1 DEF PlaceInv, Accepted
<1>15. PhaseInv'
  <2>1. \A d \in Conns : revents'[d] # {} => Accepted(d)' /\ d \in Rng(active'[home'[d]])
    <3> SUFFICES ASSUME NEW d \in Conns, revents'[d] # {}
                 PROVE  Accepted(d) /\ d \in Rng(active'[home[d]])
      BY <1>1, <1>12
    <3>1. CASE d \in hit
      BY <1>2, <1>3, <1>8, <3>1
    <3>2. CASE d \notin hit
      <4>1. Accepted(d) /\ d \in Rng(active[home[d]])
        BY <1>4, <3>2 DEF PhaseInv
      <4>2. QED
        BY <1>8, <1>11, <4>1
    <3>3. QED
      BY <3>1, <3>2
  <2>2. \A k \in Loops : /\ phase'[k] # "tasks" => batch'[k] = <<>>
                         /\ phase'[k] # "events" => active'[k] = <<>>
                         /\ quit'[k] \/ phase'[k] = "stopped" => phase'[Main] = "stopped"
    BY <1>1, <1>8, <1>9, <1>11 DEF PhaseInv
  <2>3. QED
    BY <1>1, <2>1, <2>2 DEF PhaseInv
<1>16. FreshInv'
  <2>1. \A d \in Conns : conn[d].ups = 0 => \A k \in Loops : d \notin Rng(active'[k])
    BY <1>3, <1>8 DEF FreshInv
  <2>2. \A d \in Conns :
          /\ conn[d].ups <= 1
          /\ conn[d].state = "connecting" => conn[d].ups = 0
          /\ ~Accepted(d) => conn[d].ups = 0
          /\ conn[d].ups = 0 =>
               /\ conn[d] = NewConnection
               /\ \A w \in Workers : holds[w] # d
               /\ \A k \in Loops : \A f \in Funs(k)' : f.conn = d => f.fn \in {"established", "destroyed"}
               /\ Accepted(d) /\ phase'[home[d]] # "stopped" =>
                    \E f \in Funs(home[d])' : f.fn = "established" /\ f.conn = d
          /\ \A k \in Loops : \A f \in Funs(k)' : f.fn = "established" /\ f.conn = d => conn[d].ups = 0
    <3>1. ASSUME NEW d \in Conns, conn[d].ups = 0, Accepted(d), phase'[home[d]] # "stopped"
          PROVE  \E f \in Funs(home[d])' : f.fn = "established" /\ f.conn = d
      <4>1. PICK k \in Loops : k = home[d] /\ k = home'[d]
        BY <1>1, <1>11, <3>1
      <4>2. PICK f \in Funs(k) : f.fn = "established" /\ f.conn = d
        BY <1>11, <3>1, <4>1 DEF FreshInv
      <4>3. QED
        BY <1>11, <4>1, <4>2 DEF Funs
    <3>2. QED
      BY <1>11, <3>1 DEF FreshInv
  <2>3. QED
    BY <1>1, <1>12, <2>1, <2>2 DEF FreshInv
<1>17. ReadInv' /\ WriteInterest'
  BY <1>1, <1>3, <1>4 DEF ReadInv, WriteInterest
<1>18. ASSUME LifeInv PROVE LifeInv'
  <2> USE <1>18 DEF LifeInv
  <2>1. OpsInv' /\ KeepsPointers(scenario)'
    <3>1. OpsInv'
      BY <1>1, <1>11 DEF OpsInv, OpsOf
    <3>2. QED
      BY <1>1, <3>1 DEF KeepsPointers, StaysOpen
  <2>2. OpenInv'
    <3> SUFFICES ASSUME StaysOpen(scenario)
                 PROVE  /\ \A d \in Conns :
                             /\ Accepted(d) => d \in memo
                             /\ peer[d].end = "open" /\ "hup" \notin revents'[d]
                             /\ "in" \in revents'[d] => peer[d].unread > 0
                        /\ \A k \in Loops : \A f \in Funs(k)' : f.fn \notin Owning
      BY <1>1, <1>12 DEF OpenInv, StaysOpen
    <3>1. QED
      BY <1>3, <1>4, <1>11 DEF OpenInv
  <2>3. \A d \in Conns : Accepted(d) => (Kept(d)' <=> Kept(d)) /\ (Closing(d)' <=> Closing(d))
    <3> SUFFICES ASSUME NEW d \in Conns, Accepted(d)
                 PROVE  (Kept(d)' <=> Kept(d)) /\ (Closing(d)' <=> Closing(d))
      OBVIOUS
    <3>1. PICK k \in Loops : k = home[d] /\ k = home'[d]
      BY <1>1, <1>11
    <3>2. QED
      BY <1>1, <1>11, <3>1 DEF Kept, Closing, Funs
  <2>4. KeptInv'
    <3>1. \A k \in Loops : \A f \in Funs(k)' : f.fn = "established" =>
            f.conn \in memo' \/ Functor("destroyed", f.conn, TRUE) \in Funs(k)'
      BY <1>1, <1>11 DEF KeptInv
    <3>2. ASSUME NEW k \in Loops, NEW d \in Rng(active'[k]) PROVE Kept(d)'
      <4>1. CASE k = l
        <5>1. d \in hit /\ d \in Conns /\ home[d] = l
          BY <1>2, <1>8, <3>2, <4>1
        <5>2. Accepted(d) /\ Registered(d) /\ phase[home[d]] # "stopped"
          BY <1>1, <1>3, <5>1 DEF Registered
        <5>3. QED
          BY <2>3, <5>1, <5>2 DEF KeptInv
      <4>2. CASE k # l
        <5>1. d \in Rng(active[k]) /\ d \in Conns
          BY <1>8, <3>2, <4>2, Homes
        <5>2. Kept(d)
          BY <5>1 DEF KeptInv
        <5>3. Accepted(d)
          BY <5>1, Homes, ConnectionFields DEF FreshInv
        <5>4. QED
          BY <2>3, <5>1, <5>2, <5>3
      <4>3. QED
        BY <4>1, <4>2
    <3>3. ASSUME NEW d \in Conns, Accepted(d), Registered(d), phase'[home[d]] # "stopped"
          PROVE  Kept(d)'
      <4>1. phase[home[d]] # "stopped"
        BY <1>11, <3>3
      <4>2. QED
        BY <2>3, <3>3, <4>1 DEF KeptInv
    <3>4. QED
      BY <1>1, <1>12, <3>1, <3>2, <3>3 DEF KeptInv, Registered
  <2>5. CloseInv'
    BY <1>1, <1>11, <1>12, <2>3 DEF CloseInv, Running
  <2>6. DownInv'
    <3> SUFFICES ASSUME NEW d \in Conns, Once(d)
                 PROVE  /\ conn[d].downs > 0 =>
                             /\ conn[d].downs = 1 /\ conn[d].ups = 1
                             /\ conn[d].state = "disconnected" /\ conn[d].interest = {}
                             /\ conn[d].index # "added"
                        /\ revents'[d] \cap {"in", "hup"} # {} =>
                             conn[d].downs = 0 /\ conn[d].index = "added"
                        /\ Running' /\ Accepted(d) =>
                             /\ d \notin memo => conn[d].downs = 1
                             /\ \A k \in Loops : \A f \in Funs(k)' :
                                  f.conn = d /\ f.fn \in {"remove", "destroyed"} => conn[d].downs = 1
      BY <1>1, <1>12 DEF DownInv, Once
    <3>1. revents'[d] \cap {"in", "hup"} # {} => conn[d].downs = 0 /\ conn[d].index = "added"
      <4>1. CASE d \in hit
        <5>1. conn[d].index = "added" /\ conn[d].downs \in Nat
          BY <1>3, <4>1, Homes, ConnectionFields
        <5>2. QED
          BY <5>1 DEF DownInv
      <4>2. CASE d \notin hit
        BY <1>4, <4>2 DEF DownInv
      <4>3. QED
        BY <4>1, <4>2
    <3>2. Running' <=> Running
      BY <1>11 DEF Running
    <3>3. QED
      BY <1>11, <3>1, <3>2 DEF DownInv
  <2>7. QED
    BY <2>1, <2>2, <2>4, <2>5, <2>6
<1>19. QED
  BY <1>10, <1>13, <1>14, <1>15, <1>16, <1>17, <1>18 DEF Preserves

-----------------------------------------------------------------------------
(***************************************************************************)
(* The acceptor: Accept.                                                   *)
(***************************************************************************)
Arrival(c, l, r, F) ==
  /\ c \in Conns /\ l \in IoLoops /\ ~Accepted(c) /\ phase[Main] = "events"
  /\ home' = [home EXCEPT ![c] = l] /\ memo' = memo \cup {c}
  /\ conn' = [conn EXCEPT ![c] = r] /\ Grows(l, F)
  /\ UNCHANGED <<scenario, peer, phase, active, revents, batch, quit, holds, wpc>>

NoneYet(c) ==
  /\ c \notin memo /\ revents[c] = {} /\ conn[c] = NewConnection
  /\ \A k \in Loops : c \notin Rng(active[k])
  /\ \A w \in Workers : holds[w] # c
  /\ \A k \in Loops : \A f \in Funs(k) : f.conn # c

LEMMA NotAccepted ==
  ASSUME ServerInv, NEW c \in Conns, ~Accepted(c)
  PROVE  NoneYet(c)
<1> USE DEF ServerInv
<1>1. conn[c].ups = 0
  BY DEF FreshInv
<1>2. conn[c] = NewConnection
  BY <1>1, FreshRecord
<1>3. c \notin memo /\ revents[c] = {} /\ \A k \in Loops : \A f \in Funs(k) : f.conn # c
  BY DEF PlaceInv, PhaseInv
<1>4. (\A k \in Loops : c \notin Rng(active[k])) /\ \A w \in Workers : holds[w] # c
  BY <1>1 DEF FreshInv
<1>5. QED
  BY <1>2, <1>3, <1>4 DEF NoneYet

LEMMA EstablishedFields ==
  ASSUME NEW c \in Conns
  PROVE  \E f \in Functors : f = Functor("established", c, FALSE) /\ f.conn = c
<1>1. Functor("established", c, FALSE) \in Functors
  BY DEF Functor, Functors
<1>2. Functor("established", c, FALSE).conn = c
  BY DEF Functor
<1>3. QED
  BY <1>1, <1>2

LEMMA AcceptArrives ==
  ASSUME ServerInv, UNCHANGED scenario, NEW c \in Conns, NEW l \in IoLoops, Accept(c, l)
  PROVE  \E r \in Connection, F \in SUBSET Functors :
           /\ Arrival(c, l, r, F)
           /\ \/ l = Main /\ F = {} /\ r = Established(NewConnection)
              \/ l # Main /\ F = {Functor("established", c, FALSE)} /\ r = NewConnection
<1> USE DEF ServerInv
<1>1. /\ ~Accepted(c) /\ phase[Main] = "events"
      /\ home' = [home EXCEPT ![c] = l] /\ memo' = memo \cup {c}
      /\ UNCHANGED <<scenario, peer, phase, active, revents, batch, quit, holds, wpc>>
  BY DEF Accept, workerVars
<1>2. NoneYet(c) /\ l \in Loops
  BY <1>1, NotAccepted, Homes
<1>3. conn[c] = NewConnection /\ \A f \in Funs(l) : f.conn # c
  BY <1>2 DEF NoneYet
<1>4. CASE l = Main
  <2>1. PICK r : r = Established(NewConnection)
    OBVIOUS
  <2>2. conn' = [conn EXCEPT ![c] = r] /\ UNCHANGED queue
    BY <1>3, <1>4, <2>1 DEF Accept
  <2>3. r \in Connection
    BY <2>1, RecordEstablished
  <2>4. Grows(l, {})
    BY <1>2, <2>2, PushesNothing
  <2>5. PICK F \in SUBSET Functors : F = {}
    OBVIOUS
  <2>6. Arrival(c, l, r, F)
    BY <1>1, <2>2, <2>4, <2>5 DEF Arrival
  <2>7. QED
    BY <1>4, <2>1, <2>3, <2>5, <2>6
<1>5. CASE l # Main
  <2>1. PICK r \in Connection : r = NewConnection
    BY <1>3, Homes
  <2>2. conn' = [conn EXCEPT ![c] = r] /\ queue' = Enqueue(l, Functor("established", c, FALSE))
    <3>1. conn' = conn /\ queue' = Enqueue(l, Functor("established", c, FALSE))
      BY <1>5 DEF Accept
    <3>2. QED
      BY <1>3, <2>1, <3>1 DEF TypeOK
  <2>3. PICK f \in Functors : f = Functor("established", c, FALSE) /\ f.conn = c
    BY EstablishedFields
  <2>4. Grows(l, {f})
    BY <1>2, <1>3, <2>2, <2>3, PushesOne
  <2>5. PICK F \in SUBSET Functors : F = {f}
    OBVIOUS
  <2>6. Arrival(c, l, r, F)
    BY <1>1, <2>2, <2>4, <2>5 DEF Arrival
  <2>7. QED
    BY <1>5, <2>1, <2>3, <2>5, <2>6
<1>6. QED
  BY <1>4, <1>5

LEMMA ArrivalPreserves ==
  ASSUME ServerInv, NEW c, NEW l, NEW r \in Connection, NEW F \in SUBSET Functors,
         Arrival(c, l, r, F),
         r.downs = 0, IsWriting(r) <=> r.pending > 0,
         \/ /\ l = Main /\ F = {} /\ r.state = "connected" /\ r.ups = 1
            /\ "in" \in r.interest /\ r.index = "added"
         \/ /\ l # Main /\ r = NewConnection /\ r.ups = 0 /\ r.state = "connecting"
            /\ \E f \in Functors : F = {f} /\ f.fn = "established" /\ f.conn = c /\ f.owns = FALSE
  PROVE  Preserves
<1> USE DEF ServerInv
<1>1. /\ c \in Conns /\ l \in IoLoops /\ ~Accepted(c) /\ phase[Main] = "events"
      /\ home' = [home EXCEPT ![c] = l] /\ memo' = memo \cup {c}
      /\ UNCHANGED <<scenario, peer, phase, active, revents, batch, quit, holds, wpc>>
  BY DEF Arrival
<1>2. /\ c \notin memo /\ revents[c] = {} /\ conn[c] = NewConnection
      /\ \A k \in Loops : c \notin Rng(active[k])
      /\ \A w \in Workers : holds[w] # c
      /\ \A k \in Loops : \A f \in Funs(k) : f.conn # c
  BY <1>1, NotAccepted DEF NoneYet
<1>3. /\ home' \in [Conns -> IoLoops \cup {None}] /\ home'[c] = l
      /\ \A d \in Conns : d # c => home'[d] = home[d]
      /\ l # None /\ l \in Loops
  BY <1>1, ServerAssumption, Homes DEF TypeOK
<1>4. /\ conn' \in [Conns -> Connection] /\ conn'[c] = r
      /\ \A d \in Conns : d # c => conn'[d] = conn[d]
  BY <1>1 DEF Arrival, TypeOK
<1>5. Grows(l, F) /\ \A f \in F : f.fn = "established" /\ f.conn = c /\ f.owns = FALSE /\ l # Main
  BY DEF Arrival
<1>6. OrderInv' /\ \A k \in Loops : Funs(k)' = IF k = l THEN Funs(k) \cup F ELSE Funs(k)
  BY <1>1, <1>2, <1>3, <1>5, GrowsFuns
<1>7. /\ \A k \in Loops : \A f \in Funs(k)' : (f \in Funs(k) /\ f.conn # c) \/ (k = l /\ f \in F)
      /\ \A k \in Loops : Funs(k) \subseteq Funs(k)'
  BY <1>2, <1>6
<1>8. \A d \in Conns : /\ Accepted(d)' <=> Accepted(d) \/ d = c
                       /\ Accepted(d) => home[d] \in Loops /\ d # c
  BY <1>1, <1>3, Homes DEF Accepted
<1>9. \A k \in Loops : phase[k] # "stopped"
  BY <1>1 DEF PhaseInv
<1>10. TypeOK'
  <2>1. queue' \in [Loops -> Seq(Functors)]
    BY <1>5 DEF Grows
  <2>2. memo' \subseteq Conns
    BY <1>1 DEF TypeOK
  <2>3. QED
    BY <1>1, <1>3, <1>4, <2>1, <2>2 DEF TypeOK
<1>11. PlaceInv'
  <2>1. ASSUME NEW k \in Loops, NEW f \in Funs(k)'
        PROVE  /\ Accepted(f.conn)'
               /\ k = IF f.fn = "remove" THEN Main ELSE home'[f.conn]
               /\ f.owns <=> f.fn \in Owning
               /\ f.fn = "established" => k # Main
    <3>1. CASE f \in Funs(k) /\ f.conn # c
      <4>1. f.conn \in Conns
        BY <3>1, Homes
      <4>2. QED
        BY <1>3, <1>8, <3>1, <4>1 DEF PlaceInv
    <3>2. CASE k = l /\ f \in F
      BY <1>1, <1>3, <1>5, <1>8, <3>2 DEF Owning
    <3>3. QED
      BY <1>7, <2>1, <3>1, <3>2
  <2>2. \A k \in Loops : \A d \in Rng(active'[k]) : home'[d] = k
    <3>1. \A k \in Loops : \A d \in Rng(active[k]) : d \in Conns /\ d # c
      BY <1>2, Homes
    <3>2. QED
      BY <1>1, <1>3, <3>1 DEF PlaceInv
  <2>3. \A d \in memo' : Accepted(d)'
    BY <1>1, <1>8 DEF PlaceInv, TypeOK
  <2>4. \A w \in Workers : holds'[w] # None => home'[holds'[w]] # None
    <3>1. \A w \in Workers : holds[w] # None => holds[w] \in Conns /\ holds[w] # c
      BY <1>2 DEF TypeOK
    <3>2. QED
      BY <1>1, <1>3, <3>1 DEF PlaceInv, Accepted
  <2>5. QED
    BY <2>1, <2>2, <2>3, <2>4 DEF PlaceInv, Accepted
<1>12. PhaseInv'
  <2>1. \A d \in Conns : revents'[d] # {} => Accepted(d)' /\ d \in Rng(active'[home'[d]])
    BY <1>1, <1>2, <1>3, <1>8 DEF PhaseInv
  <2>2. QED
    BY <1>1, <2>1 DEF PhaseInv
<1>13. FreshInv'
  <2>1. ASSUME NEW d \in Conns, d # c, conn[d].ups = 0, Accepted(d)
        PROVE  \E f \in Funs(home[d])' : f.fn = "established" /\ f.conn = d
    <3>1. PICK k \in Loops : k = home[d] /\ k = home'[d]
      BY <1>3, <1>8, <2>1
    <3>2. PICK f \in Funs(k) : f.fn = "established" /\ f.conn = d
      BY <1>9, <2>1, <3>1 DEF FreshInv
    <3>3. f \in Funs(k)'
      BY <1>7, <3>2
    <3>4. QED
      BY <3>1, <3>2, <3>3 DEF Funs
  <2>2. r.ups = 0 => \E f \in Funs(home[c])' : f.fn = "established" /\ f.conn = c
    <3>1. r.ups = 0 => \E f \in Funs(l)' : f.fn = "established" /\ f.conn = c
      BY <1>3, <1>6
    <3>2. QED
      BY <1>3, <3>1 DEF Funs
  <2>3. ASSUME NEW d \in Conns, d # c
        PROVE  /\ conn[d].ups <= 1
               /\ conn[d].state = "connecting" => conn[d].ups = 0
               /\ ~Accepted(d) => conn[d].ups = 0
               /\ conn[d].ups = 0 =>
                    /\ conn[d] = NewConnection
                    /\ \A k \in Loops : d \notin Rng(active[k])
                    /\ \A w \in Workers : holds[w] # d
                    /\ \A k \in Loops : \A f \in Funs(k)' : f.conn = d => f.fn \in {"established", "destroyed"}
               /\ \A k \in Loops : \A f \in Funs(k)' : f.fn = "established" /\ f.conn = d => conn[d].ups = 0
    BY <1>5, <1>7, <2>3 DEF FreshInv
  <2>4. ASSUME NEW d \in Conns
        PROVE  /\ conn'[d].ups <= 1
               /\ conn'[d].state = "connecting" => conn'[d].ups = 0
               /\ ~Accepted(d)' => conn'[d].ups = 0
               /\ conn'[d].ups = 0 =>
                    /\ conn'[d] = NewConnection
                    /\ \A k \in Loops : d \notin Rng(active'[k])
                    /\ \A w \in Workers : holds'[w] # d
                    /\ \A k \in Loops : \A f \in Funs(k)' : f.conn = d => f.fn \in {"established", "destroyed"}
                    /\ Accepted(d)' /\ phase'[home'[d]] # "stopped" =>
                         \E f \in Funs(home[d])' : f.fn = "established" /\ f.conn = d
               /\ \A k \in Loops : \A f \in Funs(k)' : f.fn = "established" /\ f.conn = d => conn'[d].ups = 0
    <3>1. CASE d = c
      <4>1. \A k \in Loops : \A f \in Funs(k)' : f.conn = c => f.fn = "established" /\ l # Main
        BY <1>5, <1>7
      <4>2. r.ups <= 1 /\ (r.state = "connecting" => r.ups = 0) /\ (r.ups = 0 => r = NewConnection)
            /\ (l # Main => r.ups = 0)
        OBVIOUS
      <4>3. QED
        BY <1>1, <1>2, <1>4, <1>8, <2>2, <3>1, <4>1, <4>2
    <3>2. CASE d # c
      BY <1>1, <1>4, <1>8, <2>1, <2>3, <3>2
    <3>3. QED
      BY <3>1, <3>2
  <2>5. QED
    BY <2>4 DEF FreshInv
<1>14. ReadInv' /\ WriteInterest'
  <2>1. \A d \in Conns : /\ conn'[d].state = "connected" =>
                              /\ conn'[d].downs = 0 /\ "in" \in conn'[d].interest
                              /\ conn'[d].index = "added"
                         /\ conn'[d].downs > 0 => "in" \notin conn'[d].interest
                         /\ "in" \in revents'[d] => conn'[d].downs = 0 \/ conn'[d].cut
    BY <1>1, <1>2, <1>4 DEF ReadInv
  <2>2. \A d \in Conns : conn'[d].downs = 0 => (IsWriting(conn'[d]) <=> conn'[d].pending > 0)
    BY <1>4 DEF WriteInterest
  <2>3. QED
    BY <2>1, <2>2 DEF ReadInv, WriteInterest
<1>15. ASSUME LifeInv PROVE LifeInv'
  <2> USE <1>15 DEF LifeInv
  <2>1. OpsInv' /\ KeepsPointers(scenario)'
    <3>1. \A k \in Loops : \A f \in Funs(k)' : f.fn \in WorkerFunctors => f.fn \in scenario.workerOps
      BY <1>5, <1>7 DEF OpsInv, WorkerFunctors
    <3>2. OpsInv'
      BY <1>1, <3>1 DEF OpsInv, OpsOf
    <3>3. QED
      BY <1>1, <3>2 DEF KeepsPointers, StaysOpen
  <2>2. OpenInv'
    <3> SUFFICES ASSUME StaysOpen(scenario)
                 PROVE  /\ \A d \in Conns : Accepted(d)' => d \in memo'
                        /\ \A k \in Loops : \A f \in Funs(k)' : f.fn \notin Owning
      BY <1>1 DEF OpenInv, StaysOpen
    <3>1. \A k \in Loops : \A f \in Funs(k)' : f.fn \notin Owning
      BY <1>5, <1>7 DEF OpenInv, Owning
    <3>2. QED
      BY <1>1, <1>8, <3>1 DEF OpenInv
  <2>3. ASSUME NEW d \in Conns, Accepted(d)
        PROVE  (Kept(d) => Kept(d)') /\ (Closing(d) => Closing(d)')
    <3>1. PICK k \in Loops : k = home[d] /\ k = home'[d]
      BY <1>3, <1>8, <2>3
    <3>2. Funs(k) \subseteq Funs(k)' /\ Funs(Main) \subseteq Funs(Main)'
      BY <1>7, Homes
    <3>3. QED
      BY <1>1, <3>1, <3>2 DEF Kept, Closing, Funs
  <2>4. Kept(c)'
    BY <1>1 DEF Kept
  <2>5. KeptInv'
    <3>1. ASSUME NEW k \in Loops, NEW f \in Funs(k)', f.fn = "established"
          PROVE  f.conn \in memo' \/ Functor("destroyed", f.conn, TRUE) \in Funs(k)'
      <4>1. CASE f \in Funs(k)
        BY <1>1, <1>7, <3>1, <4>1 DEF KeptInv
      <4>2. CASE f \in F
        BY <1>1, <1>5, <4>2
      <4>3. QED
        BY <1>7, <3>1, <4>1, <4>2
    <3>2. ASSUME NEW k \in Loops, NEW d \in Rng(active'[k]) PROVE Kept(d)'
      <4>1. d \in Rng(active[k]) /\ d \in Conns
        BY <1>1, <3>2, Homes
      <4>2. Kept(d)
        BY <4>1 DEF KeptInv
      <4>3. Accepted(d)
        BY <4>1, Homes, ConnectionFields DEF FreshInv
      <4>4. QED
        BY <2>3, <4>1, <4>2, <4>3
    <3>3. ASSUME NEW d \in Conns, Accepted(d)', Registered(d)', phase'[home'[d]] # "stopped"
          PROVE  Kept(d)'
      <4>1. CASE d = c
        BY <2>4, <4>1
      <4>2. CASE d # c
        <5>1. Accepted(d) /\ Registered(d) /\ phase[home[d]] # "stopped"
          BY <1>4, <1>8, <1>9, <3>3, <4>2 DEF Registered
        <5>2. QED
          BY <2>3, <5>1 DEF KeptInv
      <4>3. QED
        BY <4>1, <4>2
    <3>4. QED
      BY <3>1, <3>2, <3>3 DEF KeptInv
  <2>6. CloseInv'
    <3> SUFFICES ASSUME NEW d \in Conns, Accepted(d)'
                 PROVE  /\ conn'[d].state = "connected" => Kept(d)'
                        /\ conn'[d].state = "disconnecting" => Closing(d)'
      BY DEF CloseInv
    <3>1. CASE d = c
      BY <1>4, <2>4, <3>1
    <3>2. CASE d # c
      <4>1. Accepted(d) /\ Running
        BY <1>1, <1>8, <3>2 DEF Running
      <4>2. QED
        BY <1>4, <2>3, <3>2, <4>1 DEF CloseInv
    <3>3. QED
      BY <3>1, <3>2
  <2>7. DownInv'
    <3> SUFFICES ASSUME NEW d \in Conns, "forceClose" \notin scenario.workerOps, ~conn'[d].cut
                 PROVE  /\ conn'[d].downs > 0 =>
                             /\ conn'[d].downs = 1 /\ conn'[d].ups = 1
                             /\ conn'[d].state = "disconnected" /\ conn'[d].interest = {}
                             /\ conn'[d].index # "added"
                        /\ revents'[d] \cap {"in", "hup"} # {} =>
                             conn'[d].downs = 0 /\ conn'[d].index = "added"
                        /\ Accepted(d)' =>
                             /\ d \notin memo' => conn'[d].downs = 1
                             /\ \A k \in Loops : \A f \in Funs(k)' :
                                  f.conn = d /\ f.fn \in {"remove", "destroyed"} => conn'[d].downs = 1
      BY <1>1 DEF DownInv, Once
    <3>1. CASE d = c
      <4>1. \A k \in Loops : \A f \in Funs(k)' : f.conn = c => f.fn = "established"
        BY <1>5, <1>7
      <4>2. QED
        BY <1>1, <1>2, <1>4, <3>1, <4>1
    <3>2. CASE d # c
      <4>1. \A k \in Loops : \A f \in Funs(k)' : f.conn = d => f \in Funs(k)
        BY <1>5, <1>7, <3>2
      <4>2. Running
        BY <1>1 DEF Running
      <4>3. QED
        BY <1>1, <1>4, <1>8, <3>2, <4>1, <4>2 DEF DownInv, Once
    <3>3. QED
      BY <3>1, <3>2
  <2>8. QED
    BY <2>1, <2>2, <2>5, <2>6, <2>7
<1>16. QED
  BY <1>6, <1>10, <1>11, <1>12, <1>13, <1>14, <1>15 DEF Preserves

LEMMA AcceptPreserves ==
  ASSUME ServerInv, UNCHANGED scenario, NEW c \in Conns, NEW l \in IoLoops, Accept(c, l)
  PROVE  Preserves
<1>1. PICK r \in Connection, F \in SUBSET Functors :
           /\ Arrival(c, l, r, F)
           /\ \/ l = Main /\ F = {} /\ r = Established(NewConnection)
              \/ l # Main /\ F = {Functor("established", c, FALSE)} /\ r = NewConnection
  BY AcceptArrives
<1>2. CASE l = Main /\ F = {} /\ r = Established(NewConnection)
  <2>1. /\ r.state = "connected" /\ r.ups = 1 /\ r.downs = 0 /\ ~IsWriting(r) /\ ~(r.pending > 0)
        /\ "in" \in r.interest /\ r.index = "added"
    BY <1>2, RecordEstablished
  <2>2. QED
    BY <1>1, <1>2, <2>1, ArrivalPreserves
<1>3. CASE l # Main /\ F = {Functor("established", c, FALSE)} /\ r = NewConnection
  <2>1. r.state = "connecting" /\ r.ups = 0 /\ r.downs = 0 /\ ~IsWriting(r) /\ ~(r.pending > 0)
    BY <1>3 DEF NewConnection, IsWriting
  <2>2. PICK f \in Functors : F = {f} /\ f.fn = "established" /\ f.conn = c /\ f.owns = FALSE
    BY <1>3 DEF Functor, Functors
  <2>3. QED
    BY <1>1, <1>3, <2>1, <2>2, ArrivalPreserves
<1>4. QED
  BY <1>1, <1>2, <1>3

-----------------------------------------------------------------------------
(***************************************************************************)
(* ~TcpServer.                                                             *)
(***************************************************************************)
Bequests(S) == {Functor("destroyed", c, TRUE) : c \in S}

Bequest(s) == [i \in DOMAIN s |-> Functor("destroyed", s[i], TRUE)]

LEMMA BequestFields ==
  ASSUME NEW S \in SUBSET Conns, NEW f \in Bequests(S)
  PROVE  /\ f \in Functors /\ f.fn = "destroyed" /\ f.owns = TRUE /\ f.conn \in S
         /\ f = Functor("destroyed", f.conn, TRUE)
<1>1. PICK c \in S : f = Functor("destroyed", c, TRUE)
  BY DEF Bequests
<1>2. c \in Conns
  OBVIOUS
<1>3. f \in Functors /\ f.fn = "destroyed" /\ f.owns = TRUE /\ f.conn = c
  BY <1>1, <1>2 DEF Functor, Functors
<1>4. QED
  BY <1>1, <1>3

LEMMA Bequeathed ==
  ASSUME NEW S \in SUBSET Conns, IsFiniteSet(S), NEW s \in Orders(S),
         NEW q \in Seq(Functors), Early(q),
         NEW t, t = q \o Bequest(s)
  PROVE  t \in Seq(Functors) /\ Early(t) /\ Rng(t) = Rng(q) \cup Bequests(S)
<1> DEFINE u == [i \in DOMAIN s |-> Functor("destroyed", s[i], TRUE)]
<1>1. s \in Seq(S) /\ Rng(s) = S /\ DOMAIN s = 1..Len(s) /\ Len(s) \in Nat
  BY OrdersAll, LenProperties
<1>2. \A i \in 1..Len(s) : s[i] \in S
  BY <1>1 DEF Rng
<1>3. \A i \in 1..Len(s) : u[i] \in Bequests(S)
  BY <1>1, <1>2 DEF Bequests
<1>4. u \in [1..Len(s) -> Functors]
  BY <1>1, <1>3, BequestFields
<1>5. u \in Seq(Functors)
  <2> HIDE DEF u
  <2>1. PICK n \in Nat : n = Len(s)
    BY <1>1
  <2>2. u \in [1..n -> Functors]
    BY <1>4, <2>1
  <2>3. QED
    BY <2>1, <2>2, SeqDef
<1>6. Len(u) = Len(s)
  BY <1>1, <1>4, <1>5, LenProperties
<1>7. Rng(u) = Bequests(S)
  <2>1. \A c \in S : \E i \in 1..Len(s) : s[i] = c
    BY <1>1 DEF Rng
  <2>2. \A i \in 1..Len(s) : u[i] = Functor("destroyed", s[i], TRUE)
    BY <1>1
  <2> HIDE DEF u
  <2>3. Rng(u) \subseteq Bequests(S)
    BY <1>3, <1>6 DEF Rng
  <2>4. ASSUME NEW c \in S PROVE Functor("destroyed", c, TRUE) \in Rng(u)
    <3>1. PICK i \in 1..Len(s) : s[i] = c
      BY <2>1
    <3>2. u[i] = Functor("destroyed", c, TRUE)
      BY <2>2, <3>1
    <3>3. QED
      BY <1>6, <3>1, <3>2 DEF Rng
  <2>5. Bequests(S) \subseteq Rng(u)
    BY <2>4 DEF Bequests
  <2>6. QED
    BY <2>3, <2>5
<1>8. t = q \o u
  BY DEF Bequest
<1> HIDE DEF u
<1>9. /\ t \in Seq(Functors) /\ Len(q) \in Nat /\ Len(t) = Len(q) + Len(u)
      /\ \A i \in 1..Len(t) : t[i] = IF i <= Len(q) THEN q[i] ELSE u[i - Len(q)]
  <2>1. q \in Seq(Functors) /\ u \in Seq(Functors)
    BY <1>5
  <2>2. /\ q \o u \in Seq(Functors) /\ Len(q \o u) = Len(q) + Len(u)
        /\ \A i \in 1..Len(q) + Len(u) : (q \o u)[i] = IF i <= Len(q) THEN q[i] ELSE u[i - Len(q)]
    BY <2>1, ConcatProperties
  <2>3. Len(q) \in Nat
    BY LenProperties
  <2>4. QED
    BY <1>8, <2>2, <2>3
<1>10. \A i \in 1..Len(t) : /\ i <= Len(q) => i \in 1..Len(q)
                            /\ ~(i <= Len(q)) => i - Len(q) \in 1..Len(u)
  BY <1>1, <1>6, <1>9
<1>11. /\ \A i \in 1..Len(q) : i \in 1..Len(t) /\ i <= Len(q)
       /\ \A i \in 1..Len(u) : i + Len(q) \in 1..Len(t) /\ ~(i + Len(q) <= Len(q))
                               /\ i + Len(q) - Len(q) = i
  BY <1>1, <1>6, <1>9
<1>12. Rng(t) = Rng(q) \cup Bequests(S)
  <2>1. \A i \in 1..Len(t) : t[i] \in Rng(q) \cup Rng(u)
    BY <1>9, <1>10 DEF Rng
  <2>2. \A i \in 1..Len(q) : q[i] \in Rng(t)
    BY <1>9, <1>11 DEF Rng
  <2>3. ASSUME NEW i \in 1..Len(u) PROVE u[i] \in Rng(t)
    <3>1. PICK j \in 1..Len(t) : j = i + Len(q)
      BY <1>11
    <3>4. ~(j <= Len(q)) /\ j - Len(q) = i
      BY <1>11, <3>1
    <3>2. t[j] = u[i]
      BY <1>9, <3>1, <3>4
    <3>3. QED
      BY <3>1, <3>2 DEF Rng
  <2>4. Rng(t) = Rng(q) \cup Rng(u)
    <3>1. Rng(t) \subseteq Rng(q) \cup Rng(u)
      BY <2>1 DEF Rng
    <3>2. Rng(q) \subseteq Rng(t)
      BY <2>2 DEF Rng
    <3>3. Rng(u) \subseteq Rng(t)
      BY <2>3 DEF Rng
    <3>4. QED
      BY <3>1, <3>2, <3>3
  <2>5. QED
    BY <1>7, <2>4
<1>13. Early(t)
  <2> SUFFICES ASSUME NEW i \in 1..Len(t), NEW j \in 1..Len(t),
                      t[j].fn = "established", t[i].conn = t[j].conn
               PROVE  j <= i
    BY DEF Early
  <2>1. j <= Len(q)
    <3> SUFFICES ASSUME ~(j <= Len(q)) PROVE FALSE
      OBVIOUS
    <3>1. t[j] \in Bequests(S)
      BY <1>7, <1>9, <1>10 DEF Rng
    <3>2. QED
      BY <3>1, BequestFields
  <2>2. CASE i <= Len(q)
    BY <1>9, <1>10, <2>1, <2>2 DEF Early
  <2>3. CASE ~(i <= Len(q))
    BY <1>9, <2>1, <2>3
  <2>4. QED
    BY <2>2, <2>3
<1>14. QED
  BY <1>9, <1>12, <1>13

Left(l) == IF l = Main THEN {} ELSE {c \in memo : home[c] = l}

LEMMA StopFacts ==
  ASSUME ServerInv, UNCHANGED scenario, StopServer
  PROVE  /\ scenario.stops /\ phase[Main] = "poll" /\ memo' = {}
         /\ phase' = [phase EXCEPT ![Main] = "stopped"]
         /\ UNCHANGED <<scenario, home, peer, active, revents, batch, quit, holds, wpc>>
         /\ queue' \in [Loops -> Seq(Functors)] /\ OrderInv'
         /\ \A l \in Loops : Funs(l)' = Funs(l) \cup Bequests(Left(l))
<1> USE DEF ServerInv
<1>1. /\ scenario.stops /\ phase[Main] = "poll" /\ memo' = {}
      /\ phase' = [phase EXCEPT ![Main] = "stopped"]
      /\ UNCHANGED <<scenario, home, peer, active, revents, batch, quit, holds, wpc>>
  BY DEF StopServer, workerVars
<1>2. PICK s \in [Loops -> UNION {Orders(Left(l)) : l \in Loops}] :
        /\ \A l \in Loops : s[l] \in Orders(Left(l))
        /\ queue' = [l \in Loops |-> queue[l] \o Bequest(s[l])]
  BY DEF StopServer, Left, Bequest
<1>3. ASSUME NEW l \in Loops
      PROVE  /\ queue'[l] \in Seq(Functors) /\ Early(queue'[l])
             /\ Rng(queue'[l]) = Rng(queue[l]) \cup Bequests(Left(l))
  <2>1. Left(l) \in SUBSET Conns /\ IsFiniteSet(Left(l))
    <3>1. Left(l) \subseteq Conns
      BY DEF Left, TypeOK
    <3>2. QED
      BY <3>1, ServerAssumption, FS_Subset
  <2>2. s[l] \in Orders(Left(l)) /\ queue'[l] = queue[l] \o Bequest(s[l])
    BY <1>2
  <2>3. queue[l] \in Seq(Functors) /\ Early(queue[l])
    BY DEF TypeOK, OrderInv
  <2>4. PICK S \in SUBSET Conns : S = Left(l)
    BY <2>1
  <2>5. PICK o \in Orders(S) : o = s[l]
    BY <2>2, <2>4
  <2>6. PICK q \in Seq(Functors) : q = queue[l]
    BY <2>3
  <2>7. PICK t : t = queue'[l]
    OBVIOUS
  <2>8. t = q \o Bequest(o)
    BY <2>2, <2>5, <2>6, <2>7
  <2>9. IsFiniteSet(S) /\ Early(q)
    BY <2>1, <2>3, <2>4, <2>6
  <2>10. t \in Seq(Functors) /\ Early(t) /\ Rng(t) = Rng(q) \cup Bequests(S)
    <3> HIDE DEF ServerInv
    <3>1. S \in SUBSET Conns /\ o \in Orders(S) /\ q \in Seq(Functors)
      BY <2>4, <2>5, <2>6
    <3>2. QED
      BY <2>8, <2>9, <3>1, Bequeathed
  <2>11. QED
    BY <2>4, <2>6, <2>7, <2>10
<1>4. queue' \in [Loops -> Seq(Functors)]
  BY <1>2, <1>3
<1>5. \A l \in Loops : Funs(l)' = Funs(l) \cup Bequests(Left(l))
  BY <1>1, <1>3 DEF Funs
<1>6. OrderInv'
  <2>1. \A l \in Loops : Left(l) \in SUBSET Conns
    BY DEF Left, TypeOK
  <2>2. \A l \in Loops : \A g \in Rng(queue'[l]) : g.fn = "established" => g \in Rng(queue[l])
    BY <1>3, <2>1, BequestFields
  <2>3. QED
    BY <1>1, <1>3, <2>2 DEF OrderInv
<1>7. QED
  BY <1>1, <1>4, <1>5, <1>6

(* The connections of the main loop are destroyed on the spot.             *)
LEMMA StopRecords ==
  ASSUME ServerInv, StopServer, phase[Main] = "poll"
  PROVE  /\ conn' \in [Conns -> Connection]
         /\ \A c \in Conns :
              \/ conn'[c] = conn[c]
              \/ /\ c \in memo /\ home[c] = Main /\ conn[c].ups = 1 /\ revents[c] = {}
                 /\ conn'[c] = Destroyed(conn[c])
<1> USE DEF ServerInv
<1>1. conn' = [c \in Conns |-> IF c \in memo /\ home[c] = Main THEN Destroyed(conn[c]) ELSE conn[c]]
  BY DEF StopServer
<1>2. active[Main] = <<>> /\ Rng(active[Main]) = {}
  BY EmptyRng, Homes DEF PhaseInv
<1>3. ASSUME NEW c \in memo, home[c] = Main PROVE conn[c].ups = 1 /\ revents[c] = {}
  <2>1. c \in Conns /\ Accepted(c)
    BY DEF TypeOK, PlaceInv
  <2>2. revents[c] = {}
    BY <1>2, <1>3, <2>1 DEF PhaseInv
  <2>3. conn[c].ups # 0
    <3> SUFFICES ASSUME conn[c].ups = 0 PROVE FALSE
      OBVIOUS
    <3>1. PICK f \in Funs(Main) : f.fn = "established"
      BY <1>3, <2>1 DEF FreshInv
    <3>2. QED
      BY <3>1, Homes DEF PlaceInv
  <2>4. conn[c].ups <= 1 /\ conn[c].ups \in Nat
    BY <2>1, Homes, ConnectionFields DEF FreshInv
  <2>5. QED
    BY <2>2, <2>3, <2>4
<1>4. \A c \in Conns : conn[c] \in Connection /\ Destroyed(conn[c]) \in Connection
  BY Homes, RecordDestroyed
<1>5. conn' \in [Conns -> Connection]
  BY <1>1, <1>4
<1>6. QED
  BY <1>1, <1>3, <1>5

LEMMA StopLife ==
  ASSUME ServerInv, LifeInv, UNCHANGED scenario, StopServer
  PROVE  LifeInv'
<1> USE DEF ServerInv, LifeInv
<1>1. /\ scenario.stops /\ phase[Main] = "poll" /\ memo' = {}
      /\ phase' = [phase EXCEPT ![Main] = "stopped"]
      /\ UNCHANGED <<scenario, home, peer, active, revents, batch, quit, holds, wpc>>
      /\ \A l \in Loops : Funs(l)' = Funs(l) \cup Bequests(Left(l))
  BY StopFacts
<1>2. \A d \in Conns :
        \/ conn'[d] = conn[d]
        \/ /\ d \in memo /\ home[d] = Main /\ conn[d].ups = 1 /\ revents[d] = {}
           /\ conn'[d] = Destroyed(conn[d])
  BY <1>1, StopRecords
<1>3. /\ Main \in Loops /\ phase'[Main] = "stopped"
      /\ \A d \in Conns : (Accepted(d)' <=> Accepted(d)) /\ (Accepted(d) => home[d] \in Loops)
      /\ \A l \in Loops : l # Main => phase'[l] = phase[l]
  BY <1>1, Homes DEF Accepted, TypeOK
<1>4. \A l \in Loops : \A f \in Funs(l)' : f \in Funs(l) \/ f.fn = "destroyed"
  <2>1. \A l \in Loops : Left(l) \in SUBSET Conns
    BY DEF Left, TypeOK
  <2>2. QED
    BY <1>1, <2>1, BequestFields
<1>5. OpsInv' /\ KeepsPointers(scenario)'
  <2>1. OpsInv'
    BY <1>1, <1>4 DEF OpsInv, OpsOf, WorkerFunctors
  <2>2. QED
    BY <1>1, <2>1 DEF KeepsPointers, StaysOpen
<1>6. OpenInv'
  BY <1>1 DEF OpenInv, StaysOpen
<1>7. ASSUME NEW d \in memo, home[d] # Main
      PROVE  \E k \in Loops : k = home[d] /\ Functor("destroyed", d, TRUE) \in Funs(k)'
  <2>1. d \in Conns /\ Accepted(d)
    BY DEF TypeOK, PlaceInv
  <2>2. PICK k \in Loops : k = home[d]
    BY <1>3, <2>1
  <2>3. d \in Left(k)
    BY <1>7, <2>2 DEF Left
  <2>4. QED
    BY <1>1, <2>2, <2>3 DEF Bequests
<1>8. ASSUME NEW d \in Conns, Accepted(d), Kept(d), home[d] # Main PROVE Kept(d)'
  <2>1. CASE d \in memo
    <3>1. PICK k \in Loops : k = home[d] /\ Functor("destroyed", d, TRUE) \in Funs(k)'
      BY <1>7, <1>8, <2>1
    <3>2. k = home'[d]
      BY <1>1, <3>1
    <3>3. QED
      BY <3>1, <3>2 DEF Kept, Funs
  <2>2. CASE d \notin memo
    <3>1. PICK k \in Loops : k = home[d] /\ k = home'[d]
      BY <1>1, <1>3, <1>8
    <3>2. Funs(k) \subseteq Funs(k)' /\ Funs(Main) \subseteq Funs(Main)'
      BY <1>1, <1>3
    <3>3. QED
      BY <1>8, <2>2, <3>1, <3>2 DEF Kept, Funs
  <2>3. QED
    BY <2>1, <2>2
<1>9. KeptInv'
  <2>1. ASSUME NEW k \in Loops, NEW f \in Funs(k)', f.fn = "established"
        PROVE  Functor("destroyed", f.conn, TRUE) \in Funs(k)'
    <3>1. f \in Funs(k) /\ f.conn \in Conns
      BY <1>4, <2>1, Homes
    <3>2. k # Main /\ home[f.conn] = k
      BY <2>1, <3>1 DEF PlaceInv
    <3>3. CASE f.conn \in memo
      BY <1>7, <3>2, <3>3
    <3>4. CASE Functor("destroyed", f.conn, TRUE) \in Funs(k)
      BY <1>1, <3>4
    <3>5. QED
      BY <2>1, <3>1, <3>3, <3>4 DEF KeptInv
  <2>2. ASSUME NEW k \in Loops, NEW d \in Rng(active'[k]) PROVE Kept(d)'
    <3>1. d \in Rng(active[k]) /\ d \in Conns
      BY <1>1, <2>2, Homes
    <3>2. Kept(d) /\ home[d] = k
      BY <3>1 DEF KeptInv, PlaceInv
    <3>3. Accepted(d)
      BY <3>1, Homes, ConnectionFields DEF FreshInv
    <3>4. k # Main
      BY <1>1, <1>3, <3>1, EmptyRng DEF PhaseInv
    <3>5. QED
      BY <1>8, <3>1, <3>2, <3>3, <3>4
  <2>3. ASSUME NEW d \in Conns, Accepted(d), Registered(d)', phase'[home[d]] # "stopped"
        PROVE  Kept(d)'
    <3>1. home[d] # Main
      BY <1>3, <2>3
    <3>2. conn'[d] = conn[d] /\ phase[home[d]] # "stopped"
      BY <1>2, <1>3, <2>3, <3>1
    <3>3. Kept(d)
      BY <2>3, <3>2 DEF KeptInv, Registered
    <3>4. QED
      BY <1>8, <2>3, <3>1, <3>3
  <2>4. QED
    BY <1>1, <1>3, <2>1, <2>2, <2>3 DEF KeptInv
<1>10. CloseInv'
  BY <1>3 DEF CloseInv, Running
<1>11. DownInv'
  <2> SUFFICES ASSUME NEW d \in Conns, "forceClose" \notin scenario.workerOps, ~conn'[d].cut
               PROVE  /\ conn'[d].downs > 0 =>
                           /\ conn'[d].downs = 1 /\ conn'[d].ups = 1
                           /\ conn'[d].state = "disconnected" /\ conn'[d].interest = {}
                           /\ conn'[d].index # "added"
                      /\ revents[d] \cap {"in", "hup"} # {} =>
                           conn'[d].downs = 0 /\ conn'[d].index = "added"
    BY <1>1, <1>3 DEF DownInv, Running, Once
  <2>1. CASE conn'[d] = conn[d]
    BY <2>1 DEF DownInv, Once
  <2>2. CASE conn[d].ups = 1 /\ revents[d] = {} /\ conn'[d] = Destroyed(conn[d])
    <3>1. PICK p \in Connection : p = conn[d]
      BY Homes
    <3>2. PICK r : r = conn'[d]
      OBVIOUS
    <3>3. /\ r.ups = 1 /\ r.index = "deleted" /\ r.cut = p.cut
          /\ IF p.state = "connected"
             THEN r.state = "disconnected" /\ r.downs = p.downs + 1 /\ r.interest = {}
             ELSE r.state = p.state /\ r.downs = p.downs /\ r.interest = p.interest
      BY <2>2, <3>1, <3>2, RecordDestroyed
    <3>4. p.downs > 0 => p.downs = 1 /\ p.state = "disconnected" /\ p.interest = {}
      BY <3>1, <3>2, <3>3 DEF DownInv, Once
    <3>5. p.downs \in Nat
      BY <3>1, ConnectionFields
    <3>6. r.downs > 0 => r.downs = 1 /\ r.state = "disconnected" /\ r.interest = {}
      BY <3>3, <3>4, <3>5
    <3>7. QED
      BY <2>2, <3>2, <3>3, <3>6
  <2>3. QED
    BY <1>2, <2>1, <2>2
<1>12. QED
  BY <1>5, <1>6, <1>9, <1>10, <1>11

LEMMA StopPreserves ==
  ASSUME ServerInv, UNCHANGED scenario, StopServer
  PROVE  Preserves
<1> USE DEF ServerInv
<1>1. /\ scenario.stops /\ phase[Main] = "poll" /\ memo' = {}
      /\ phase' = [phase EXCEPT ![Main] = "stopped"]
      /\ UNCHANGED <<scenario, home, peer, active, revents, batch, quit, holds, wpc>>
      /\ queue' \in [Loops -> Seq(Functors)] /\ OrderInv'
      /\ \A l \in Loops : Funs(l)' = Funs(l) \cup Bequests(Left(l))
  BY StopFacts
<1>2. /\ conn' \in [Conns -> Connection]
      /\ \A d \in Conns :
           \/ conn'[d] = conn[d]
           \/ /\ d \in memo /\ home[d] = Main /\ conn[d].ups = 1 /\ revents[d] = {}
              /\ conn'[d] = Destroyed(conn[d])
  BY <1>1, StopRecords
<1>3. /\ Main \in Loops /\ phase'[Main] = "stopped"
      /\ \A d \in Conns : (Accepted(d)' <=> Accepted(d)) /\ (Accepted(d) => home[d] \in Loops)
      /\ \A l \in Loops : l # Main => phase'[l] = phase[l]
  BY <1>1, Homes DEF Accepted, TypeOK
<1>4. \A l \in Loops : \A f \in Funs(l)' :
        \/ f \in Funs(l)
        \/ /\ f.fn = "destroyed" /\ f.owns = TRUE /\ f.conn \in memo
           /\ home[f.conn] = l
  <2>1. \A l \in Loops : Left(l) \in SUBSET Conns
    BY DEF Left, TypeOK
  <2>2. ASSUME NEW l \in Loops, NEW f \in Funs(l)', f \notin Funs(l)
        PROVE  /\ f.fn = "destroyed" /\ f.owns = TRUE /\ f.conn \in memo
               /\ home[f.conn] = l
    <3>1. f \in Bequests(Left(l))
      BY <1>1, <2>2
    <3>2. f.fn = "destroyed" /\ f.owns = TRUE /\ f.conn \in Left(l)
      BY <2>1, <3>1, BequestFields
    <3>3. QED
      BY <3>2 DEF Left
  <2>3. QED
    BY <2>2
<1>5. \A l \in Loops : Funs(l) \subseteq Funs(l)'
  BY <1>1
<1>6. ASSUME NEW d \in Conns
      PROVE  /\ conn'[d].ups = conn[d].ups /\ conn'[d].pending = conn[d].pending
             /\ conn[d].ups = 0 => conn'[d] = conn[d]
             /\ conn'[d].state \in {conn[d].state, "disconnected"}
             /\ conn'[d].interest \subseteq conn[d].interest
             /\ conn'[d].downs = 0 => conn'[d].interest = conn[d].interest
             /\ conn'[d].downs # conn[d].downs => conn'[d].interest = {} /\ revents[d] = {}
             /\ conn'[d].downs = 0 => conn[d].downs = 0
             /\ conn'[d].cut = conn[d].cut
             /\ conn'[d].state = "connected" => conn'[d] = conn[d]
  <2>1. CASE conn'[d] = conn[d]
    BY <2>1
  <2>2. CASE conn[d].ups = 1 /\ revents[d] = {} /\ conn'[d] = Destroyed(conn[d])
    <3>1. PICK p \in Connection : p = conn[d]
      BY Homes
    <3>2. PICK r : r = conn'[d]
      OBVIOUS
    <3>3. /\ r.ups = p.ups /\ r.pending = p.pending /\ r.cut = p.cut
          /\ IF p.state = "connected"
             THEN r.state = "disconnected" /\ r.downs = p.downs + 1 /\ r.interest = {}
             ELSE r.state = p.state /\ r.downs = p.downs /\ r.interest = p.interest
      BY <2>2, <3>1, <3>2, RecordDestroyed
    <3>4. p.downs \in Nat
      BY <3>1, ConnectionFields
    <3>5. QED
      BY <2>2, <3>1, <3>2, <3>3, <3>4
  <2>3. QED
    BY <1>2, <2>1, <2>2
<1>7. TypeOK'
  <2>1. phase' \in [Loops -> {"poll", "events", "tasks", "stopped"}]
    BY <1>1 DEF TypeOK
  <2>2. QED
    BY <1>1, <1>2, <2>1 DEF TypeOK
<1>8. PlaceInv'
  <2>1. \A c \in memo : Accepted(c)
    BY DEF PlaceInv
  <2>2. ASSUME NEW l \in Loops, NEW f \in Funs(l)'
        PROVE  /\ Accepted(f.conn)
               /\ l = IF f.fn = "remove" THEN Main ELSE home[f.conn]
               /\ f.owns <=> f.fn \in Owning
               /\ f.fn = "established" => l # Main
    <3>1. CASE f \in Funs(l)
      BY <3>1 DEF PlaceInv
    <3>2. CASE f.fn = "destroyed" /\ f.owns = TRUE /\ f.conn \in memo /\ home[f.conn] = l
      BY <2>1, <3>2 DEF Owning
    <3>3. QED
      BY <1>4, <3>1, <3>2
  <2>3. QED
    BY <1>1, <2>2 DEF PlaceInv, Accepted
<1>9. PhaseInv'
  <2>1. batch[Main] = <<>> /\ active[Main] = <<>>
    BY <1>1, <1>3 DEF PhaseInv
  <2>2. \A k \in Loops : /\ phase'[k] # "tasks" => batch'[k] = <<>>
                         /\ phase'[k] # "events" => active'[k] = <<>>
    BY <1>1, <1>3, <2>1 DEF PhaseInv
  <2>3. QED
    BY <1>1, <1>3, <2>2 DEF PhaseInv, Accepted
<1>10. FreshInv'
  <2>1. ASSUME NEW d \in Conns, conn[d].ups = 0, Accepted(d), phase'[home[d]] # "stopped"
        PROVE  \E f \in Funs(home[d])' : f.fn = "established" /\ f.conn = d
    <3>1. PICK k \in Loops : k = home[d] /\ k = home'[d]
      BY <1>1, <1>3, <2>1
    <3>2. phase[k] # "stopped"
      BY <1>3, <2>1, <3>1
    <3>3. PICK f \in Funs(k) : f.fn = "established" /\ f.conn = d
      BY <2>1, <3>1, <3>2 DEF FreshInv
    <3>4. f \in Funs(k)'
      BY <1>5, <3>3
    <3>5. QED
      BY <3>1, <3>3, <3>4 DEF Funs
  <2>2. \A l \in Loops : \A f \in Funs(l)' : f \in Funs(l) \/ f.fn = "destroyed"
    BY <1>4
  <2>3. ASSUME NEW d \in Conns, conn[d].ups = 0
        PROVE  /\ conn[d] = NewConnection
               /\ \A k \in Loops : d \notin Rng(active[k])
               /\ \A w \in Workers : holds[w] # d
               /\ \A k \in Loops : \A f \in Funs(k)' : f.conn = d => f.fn \in {"established", "destroyed"}
    BY <2>2, <2>3 DEF FreshInv
  <2>4. ASSUME NEW d \in Conns
        PROVE  /\ conn'[d].ups <= 1
               /\ conn'[d].state = "connecting" => conn'[d].ups = 0
               /\ ~Accepted(d) => conn'[d].ups = 0
               /\ \A k \in Loops : \A f \in Funs(k)' :
                    f.fn = "established" /\ f.conn = d => conn'[d].ups = 0
    BY <1>6, <2>2 DEF FreshInv
  <2>5. \A d \in Conns : conn'[d].ups = conn[d].ups /\ (conn[d].ups = 0 => conn'[d] = conn[d])
    BY <1>6
  <2>6. QED
    BY <1>1, <1>3, <2>1, <2>3, <2>4, <2>5 DEF FreshInv
<1>11. ReadInv' /\ WriteInterest'
  <2>1. ASSUME NEW d \in Conns
        PROVE  /\ conn'[d].state = "connected" =>
                    conn'[d].downs = 0 /\ "in" \in conn'[d].interest /\ conn'[d].index = "added"
               /\ conn'[d].downs > 0 => "in" \notin conn'[d].interest
               /\ "in" \in revents[d] => conn'[d].downs = 0 \/ conn'[d].cut
    BY <1>6 DEF ReadInv
  <2>2. ASSUME NEW d \in Conns, conn'[d].downs = 0
        PROVE  IsWriting(conn'[d]) <=> conn'[d].pending > 0
    <3>1. conn'[d].interest = conn[d].interest /\ conn'[d].pending = conn[d].pending /\ conn[d].downs = 0
      BY <1>6, <2>2
    <3>2. QED
      BY <3>1 DEF WriteInterest, IsWriting
  <2>3. QED
    BY <1>1, <2>1, <2>2 DEF ReadInv, WriteInterest
<1>12. QED
  BY <1>1, <1>7, <1>8, <1>9, <1>10, <1>11, StopLife DEF Preserves

-----------------------------------------------------------------------------
(***************************************************************************)
(* The beginning, and every step.                                          *)
(***************************************************************************)
LEMMA InitServer == Init => ServerInv
<1> SUFFICES ASSUME Init PROVE ServerInv
  OBVIOUS
<1>1. /\ scenario \in Scenarios
      /\ conn = [c \in Conns |-> NewConnection]
      /\ home = [c \in Conns |-> None]
      /\ memo = {}
      /\ peer = [c \in Conns |-> [sent |-> 0, unread |-> 0, end |-> "open", space |-> TRUE]]
      /\ phase = [l \in Loops |-> "poll"]
      /\ active = [l \in Loops |-> <<>>]
      /\ revents = [c \in Conns |-> {}]
      /\ queue = [l \in Loops |-> <<>>]
      /\ batch = [l \in Loops |-> <<>>]
      /\ quit = [l \in Loops |-> FALSE]
      /\ holds = [w \in Workers |-> None]
      /\ wpc = [w \in Workers |-> "idle"]
  BY DEF Init
<1>2. NewConnection \in Connection
  BY DEF NewConnection, Connection, States, Indexes
<1>3. /\ Main \in Loops /\ scenario.messages \in Nat
      /\ <<>> \in Seq(Functors) /\ <<>> \in Seq(Conns)
  BY <1>1, ServerAssumption, EmptySeq DEF Loops, Scenario
<1>4. peer \in [Conns -> Peers]
  <2>1. 0 \in 0..scenario.messages
    BY <1>3
  <2>2. [sent |-> 0, unread |-> 0, end |-> "open", space |-> TRUE] \in Peers
    BY <2>1 DEF Peers
  <2>3. QED
    BY <1>1, <2>2
<1>5. TypeOK
  <2>1. conn \in [Conns -> Connection] /\ memo \subseteq Conns
    BY <1>1, <1>2
  <2>2. home \in [Conns -> IoLoops \cup {None}] /\ holds \in [Workers -> Conns \cup {None}]
    BY <1>1
  <2>3. /\ active \in [Loops -> Seq(Conns)] /\ queue \in [Loops -> Seq(Functors)]
        /\ batch \in [Loops -> Seq(Functors)]
    BY <1>1, <1>3
  <2>4. QED
    BY <1>1, <1>4, <2>1, <2>2, <2>3 DEF TypeOK, Peers
<1>6. /\ \A l \in Loops : Funs(l) = {} /\ Rng(active[l]) = {}
      /\ \A c \in Conns : ~Accepted(c)
  BY <1>1, EmptyRng DEF Funs, Accepted
<1>7. OrderInv
  BY <1>1, EmptyRng DEF OrderInv
<1>8. PlaceInv
  BY <1>1, <1>6 DEF PlaceInv
<1>9. PhaseInv
  BY <1>1, <1>3 DEF PhaseInv
<1>10. /\ NewConnection.ups = 0 /\ NewConnection.downs = 0 /\ NewConnection.state = "connecting"
       /\ NewConnection.pending = 0 /\ ~IsWriting(NewConnection)
       /\ NewConnection.index = "new" /\ NewConnection.mapped = FALSE
  BY DEF NewConnection, IsWriting
<1>11. \A c \in Conns : conn[c] = NewConnection
  BY <1>1
<1>12. FreshInv
  <2>1. ASSUME NEW c \in Conns, NEW w \in Workers PROVE holds[w] # c
    BY <1>1, <2>1, ServerAssumption
  <2>2. QED
    BY <1>6, <1>10, <1>11, <2>1 DEF FreshInv
<1>13. ReadInv
  BY <1>1, <1>10, <1>11 DEF ReadInv
<1>14. WriteInterest
  BY <1>10, <1>11 DEF WriteInterest
<1>15. QED
  BY <1>5, <1>7, <1>8, <1>9, <1>12, <1>13, <1>14 DEF ServerInv

LEMMA InitLife == Init /\ KeepsPointers(scenario) => LifeInv
<1> SUFFICES ASSUME Init, KeepsPointers(scenario) PROVE LifeInv
  OBVIOUS
<1>1. /\ \A l \in Loops : Funs(l) = {} /\ Rng(active[l]) = {}
      /\ \A c \in Conns : ~Accepted(c)
  BY EmptyRng DEF Init, Funs, Accepted
<1>2. OpsInv
  BY <1>1 DEF OpsInv, OpsOf, Init
<1>3. OpenInv
  BY <1>1 DEF OpenInv, Init
<1>4. KeptInv
  BY <1>1 DEF KeptInv
<1>5. CloseInv
  BY <1>1 DEF CloseInv
<1>6. DownInv
  <2>1. \A c \in Conns : conn[c].downs = 0 /\ revents[c] = {}
    BY DEF Init, NewConnection
  <2>2. QED
    BY <1>1, <2>1 DEF DownInv
<1>7. QED
  BY <1>2, <1>3, <1>4, <1>5, <1>6 DEF LifeInv

LEMMA StutterPreserves ==
  ASSUME ServerInv, UNCHANGED vars
  PROVE  Preserves
<1>1. UNCHANGED <<scenario, conn, home, memo, peer, phase, active, revents, queue, batch, quit, holds, wpc>>
  BY DEF vars, loopVars, workerVars
<1>2. /\ \A l \in Loops : Funs(l)' = Funs(l)
      /\ \A c \in Conns : Accepted(c)' <=> Accepted(c)
  BY <1>1 DEF Funs, Accepted
<1>3. TypeOK' /\ OrderInv' /\ PhaseInv'
  BY <1>1 DEF ServerInv, TypeOK, OrderInv, PhaseInv, Accepted
<1>4. Drops
  BY <1>1, <1>2, Homes DEF ServerInv, Drops, Running
<1>5. QED
  BY <1>1, <1>3, <1>4, QuietPreserves

LEMMA NextPreserves ==
  ASSUME ServerInv, [Next]_vars
  PROVE  Preserves
<1>1. CASE UNCHANGED vars
  BY <1>1, StutterPreserves
<1>2. ASSUME Next PROVE Preserves
  <2>1. UNCHANGED scenario
    BY <1>2 DEF Next
  <2>2. ASSUME NEW l \in Loops, LoopStep(l) PROVE Preserves
    <3>1. CASE Poll(l)
      BY <2>1, <3>1, PollPreserves
    <3>2. CASE Swap(l)
      BY <2>1, <3>2, SwapPreserves
    <3>3. CASE RunFunctor(l)
      BY <2>1, <3>3, RunPreserves
    <3>4. CASE EndPending(l)
      BY <2>1, <3>4, EndPreserves
    <3>5. CASE \E c \in Conns : OnHangUp(l, c) \/ OnRead(l, c) \/ OnWrite(l, c)
      BY <2>1, <3>5, HangUpPreserves, ReadPreserves, WritePreserves
    <3>6. QED
      BY <2>2, <3>1, <3>2, <3>3, <3>4, <3>5 DEF LoopStep
  <2>3. ASSUME NEW w \in Workers, WorkerStep(w) PROVE Preserves
    <3>1. CASE \E op \in scenario.workerOps : WorkerTest(w, op)
      BY <2>1, <3>1, TestPreserves
    <3>2. CASE WorkerStore(w)
      BY <2>1, <3>2, StorePreserves
    <3>3. CASE WorkerRun(w)
      BY <2>1, <3>3, PushPreserves
    <3>4. CASE WorkerReleases(w)
      BY <2>1, <3>4, ReleasePreserves
    <3>5. QED
      BY <2>3, <3>1, <3>2, <3>3, <3>4 DEF WorkerStep
  <2>4. ASSUME NEW c \in Conns, NEW l \in IoLoops, Accept(c, l) PROVE Preserves
    BY <2>1, <2>4, AcceptPreserves
  <2>5. ASSUME NEW c \in Conns, PeerSends(c) PROVE Preserves
    BY <2>1, <2>5, SendsPreserves
  <2>6. ASSUME NEW c \in Conns, PeerReads(c) PROVE Preserves
    BY <2>1, <2>6, DrainsPreserves
  <2>7. ASSUME NEW c \in Conns, NEW how \in scenario.endings, PeerEnds(c, how) PROVE Preserves
    BY <2>1, <2>7, EndsPreserves
  <2>8. CASE StopServer
    BY <2>1, <2>8, StopPreserves
  <2>9. CASE DropMainLoop
    BY <2>1, <2>9, DropPreserves
  <2>10. ASSUME NEW l \in IoLoops, QuitLoop(l) PROVE Preserves
    BY <2>1, <2>10, QuitPreserves
  <2>11. QED
    BY <1>2, <2>2, <2>3, <2>4, <2>5, <2>6, <2>7, <2>8, <2>9, <2>10 DEF Next
<1>3. QED
  BY <1>1, <1>2

LEMMA ServerInvariant == Spec => []ServerInv
<1>1. Init => ServerInv
  BY InitServer
<1>2. ServerInv /\ [Next]_vars => ServerInv'
  BY NextPreserves DEF Preserves
<1>3. QED
  BY <1>1, <1>2, PTL DEF Spec

LEMMA LifeInvariant ==
  ASSUME \A s \in Scenarios : KeepsPointers(s)
  PROVE  Spec => [](ServerInv /\ LifeInv)
<1>1. Init => ServerInv /\ LifeInv
  <2>1. Init => KeepsPointers(scenario)
    BY DEF Init
  <2>2. QED
    BY <2>1, InitServer, InitLife
<1>2. ServerInv /\ LifeInv /\ [Next]_vars => (ServerInv /\ LifeInv)'
  BY NextPreserves DEF Preserves
<1>3. QED
  BY <1>1, <1>2, PTL DEF Spec

-----------------------------------------------------------------------------
(***************************************************************************)
(* What follows from the invariants.                                       *)
(***************************************************************************)
LEMMA InSeqRng ==
  ASSUME NEW l \in Loops, NEW f
  PROVE  f \in Funs(l) <=> InSeq(f, queue[l]) \/ InSeq(f, batch[l])
  BY DEF Funs, Rng, InSeq

LEMMA OwnerKeeps ==
  ASSUME ServerInv, NEW l \in Loops, NEW f \in Funs(l), f.fn \in Owning
  PROVE  Alive(f.conn)
<1>1. Accepted(f.conn) /\ f.owns
  BY DEF ServerInv, PlaceInv
<1>2. f \in Functors
  BY Homes DEF ServerInv
<1>3. OwnedByFunctor(f.conn)
  BY <1>1, <1>2, InSeqRng DEF OwnedByFunctor
<1>4. QED
  BY <1>1, <1>3 DEF Alive

LEMMA OwnsNamed ==
  ASSUME ServerInv, NEW l \in Loops, NEW c, NEW fn \in Owning, Functor(fn, c, TRUE) \in Funs(l)
  PROVE  Alive(c)
<1>1. PICK f \in Funs(l) : f = Functor(fn, c, TRUE)
  OBVIOUS
<1>2. f.fn = fn /\ f.conn = c
  BY <1>1 DEF Functor
<1>3. QED
  BY <1>2, OwnerKeeps

LEMMA KeptAlive ==
  ASSUME ServerInv, NEW c \in Conns, Accepted(c), Kept(c)
  PROVE  Alive(c)
<1>1. CASE c \in memo
  BY <1>1 DEF Alive
<1>2. CASE Functor("remove", c, TRUE) \in Funs(Main)
  <2>1. Main \in Loops /\ "remove" \in Owning
    BY Homes DEF ServerInv, Owning
  <2>2. QED
    BY <1>2, <2>1, OwnsNamed
<1>3. CASE Functor("destroyed", c, TRUE) \in Funs(home[c])
  <2>1. home[c] \in Loops /\ "destroyed" \in Owning
    BY Homes DEF ServerInv, Owning
  <2>2. QED
    BY <1>3, <2>1, OwnsNamed
<1>4. QED
  BY <1>1, <1>2, <1>3 DEF Kept

LEMMA EstablishedAlive ==
  ASSUME ServerInv, LifeInv, NEW l \in Loops, NEW f \in Funs(l), f.fn = "established"
  PROVE  Alive(f.conn)
<1>1. Accepted(f.conn) /\ "destroyed" \in Owning
  BY DEF ServerInv, PlaceInv, Owning
<1>2. CASE f.conn \in memo
  BY <1>1, <1>2 DEF Alive
<1>3. CASE Functor("destroyed", f.conn, TRUE) \in Funs(l)
  BY <1>1, <1>3, OwnsNamed
<1>4. QED
  BY <1>2, <1>3 DEF LifeInv, KeptInv

LEMMA LifePointers ==
  ASSUME ServerInv, LifeInv
  PROVE  PointersAlive
<1>1. ASSUME NEW l \in Loops, NEW f \in Functors, f \in Funs(l) PROVE Alive(f.conn)
  <2>1. CASE f.fn \in Owning
    BY <1>1, <2>1, OwnerKeeps
  <2>2. CASE f.fn = "established"
    BY <1>1, <2>2, EstablishedAlive
  <2>3. CASE f.fn \in {"send", "shutdown"}
    <3>1. f.fn \in scenario.workerOps
      BY <1>1, <2>3 DEF LifeInv, OpsInv, WorkerFunctors
    <3>2. StaysOpen(scenario)
      BY <2>3, <3>1 DEF LifeInv, KeepsPointers
    <3>3. Accepted(f.conn) /\ f.conn \in Conns
      BY <1>1, Homes DEF ServerInv, PlaceInv
    <3>4. f.conn \in memo
      BY <3>2, <3>3 DEF LifeInv, OpenInv
    <3>5. QED
      BY <3>3, <3>4 DEF Alive
  <2>4. QED
    BY <2>1, <2>2, <2>3 DEF Functors, Owning
<1>2. FunctorsAlive
  BY <1>1, InSeqRng DEF FunctorsAlive
<1>3. ASSUME NEW l \in Loops, NEW c \in Rng(active[l]) PROVE Alive(c)
  <2>1. c \in Conns /\ Kept(c)
    BY Homes DEF ServerInv, LifeInv, KeptInv
  <2>2. Accepted(c)
    BY <2>1, Homes, ConnectionFields DEF ServerInv, FreshInv
  <2>3. QED
    BY <2>1, <2>2, KeptAlive
<1>4. ActiveAlive
  BY <1>3 DEF ActiveAlive, Rng
<1>5. QED
  BY <1>2, <1>4 DEF PointersAlive

LEMMA LifeEnds ==
  ASSUME ServerInv, LifeInv
  PROVE  EndIsClean
<1>1. ASSUME NEW c \in Conns, Gone(c), Running
      PROVE  conn[c].state = "disconnected" /\ ~conn[c].mapped /\ conn[c].index # "added"
  <2>1. Accepted(c) /\ ~Alive(c) /\ ~Kept(c)
    BY <1>1, KeptAlive DEF Gone
  <2>2. home[c] \in Loops /\ phase[home[c]] # "stopped"
    BY <1>1, <2>1, Homes DEF ServerInv, PhaseInv, Running
  <2>3. ~Registered(c)
    BY <2>1, <2>2 DEF LifeInv, KeptInv
  <2>4. conn[c].state # "connecting"
    <3> SUFFICES ASSUME conn[c].state = "connecting" PROVE FALSE
      OBVIOUS
    <3>1. conn[c].ups = 0
      BY DEF ServerInv, FreshInv
    <3>2. PICK f \in Funs(home[c]) : f.fn = "established" /\ f.conn = c
      BY <2>1, <2>2, <3>1 DEF ServerInv, FreshInv
    <3>3. QED
      BY <2>1, <2>2, <3>2, EstablishedAlive
  <2>5. conn[c].state # "connected"
    BY <1>1, <2>1 DEF LifeInv, CloseInv
  <2>6. conn[c].state # "disconnecting"
    <3> SUFFICES ASSUME conn[c].state = "disconnecting" PROVE FALSE
      OBVIOUS
    <3>1. Closing(c)
      BY <1>1, <2>1 DEF LifeInv, CloseInv
    <3>2. CASE Functor("forceClose", c, TRUE) \in Funs(home[c])
      <4>1. "forceClose" \in Owning
        BY DEF Owning
      <4>2. QED
        BY <2>1, <2>2, <3>2, <4>1, OwnsNamed
    <3>3. CASE \E w \in Workers : holds[w] = c
      BY <2>1, <3>3 DEF Alive
    <3>4. QED
      BY <3>1, <3>2, <3>3 DEF Closing
  <2>7. conn[c].state \in States
    BY Homes, ConnectionFields DEF ServerInv
  <2>8. QED
    BY <2>3, <2>4, <2>5, <2>6, <2>7 DEF States, Registered
<1>2. ASSUME NEW c \in Conns, "forceClose" \notin scenario.workerOps, ~conn[c].cut
      PROVE  ReportedOnce(c) /\ (Gone(c) /\ Running => conn[c].downs = 1)
  <2>1. conn[c].downs \in Nat /\ conn[c].ups \in Nat /\ conn[c].ups <= 1
    BY Homes, ConnectionFields DEF ServerInv, FreshInv
  <2>2. conn[c].downs > 0 => conn[c].downs = 1 /\ conn[c].ups = 1
    BY <1>2 DEF LifeInv, DownInv, Once
  <2>3. Gone(c) /\ Running => conn[c].downs = 1
    BY <1>2 DEF LifeInv, DownInv, Once, Gone, Alive
  <2>4. QED
    BY <2>1, <2>2, <2>3 DEF ReportedOnce
<1>3. QED
  BY <1>1, <1>2 DEF EndIsClean

(* Only OnRead empties a socket, and only epoll_wait finds one to read.    *)
MayRead(c) == conn[c].downs = 0 \/ conn[c].cut

ReadsOpen == \A d \in Conns : peer'[d].unread < peer[d].unread => MayRead(d)

ArmsOpen ==
  \A d \in Conns : "in" \in revents'[d] /\ "in" \notin revents[d] => conn[d].downs = 0

LEMMA EffectReads ==
  ASSUME ServerInv, NEW c \in Conns, NEW u, PeerEffect(c, u),
         u = peer[c].unread \/ MayRead(c)
  PROVE  ReadsOpen
<1>1. \A d \in Conns : peer[d].unread \in Nat
  <2>1. \A d \in Conns : peer[d] \in Peers
    BY DEF ServerInv, TypeOK, Peers
  <2>2. scenario.messages \in Nat
    BY ServerAssumption DEF ServerInv, TypeOK, Scenario
  <2>3. QED
    BY <2>1, <2>2, PeerFields
<1>2. ASSUME NEW d \in Conns, peer'[d].unread < peer[d].unread PROVE MayRead(d)
  <2>1. peer'[d].unread # peer[d].unread
    BY <1>1, <1>2
  <2>2. d = c /\ peer'[c].unread = u
    BY <2>1 DEF PeerEffect
  <2>3. QED
    BY <2>1, <2>2
<1>3. QED
  BY <1>2 DEF ReadsOpen

LEMMA NobodyReads ==
  ASSUME ServerInv, \A d \in Conns : peer'[d].unread = peer[d].unread \/ peer'[d].unread = peer[d].unread + 1
  PROVE  ReadsOpen
<1>1. \A d \in Conns : peer[d].unread \in Nat
  <2>1. \A d \in Conns : peer[d] \in Peers
    BY DEF ServerInv, TypeOK, Peers
  <2>2. scenario.messages \in Nat
    BY ServerAssumption DEF ServerInv, TypeOK, Scenario
  <2>3. QED
    BY <2>1, <2>2, PeerFields
<1>2. QED
  BY <1>1 DEF ReadsOpen

LEMMA ReadReads ==
  ASSUME ServerInv, NEW l \in Loops, NEW c \in Conns, OnRead(l, c)
  PROVE  ReadsOpen
<1>1. MayRead(c)
  BY DEF OnRead, ServerInv, ReadInv, MayRead
<1>2. TypeOK /\ PhaseInv
  BY DEF ServerInv
<1>3. Wrote(c, 0, 0) \/ Send(c, 0) \/ Failed(c, 0)
  BY DEF OnRead, Callback
<1>4. PeerEffect(c, 0)
  BY <1>2, <1>3, PeerChanges, SendChanges
<1>5. QED
  BY <1>1, <1>4, EffectReads

LEMMA WriteReads ==
  ASSUME ServerInv, NEW l \in Loops, NEW c \in Conns, OnWrite(l, c)
  PROVE  ReadsOpen
<1>1. Failed(c, peer[c].unread) \/ \E n : Wrote(c, peer[c].unread, n)
  BY DEF OnWrite
<1>2. TypeOK /\ PhaseInv
  BY DEF ServerInv
<1>3. PeerEffect(c, peer[c].unread)
  BY <1>1, <1>2, PeerChanges
<1>4. QED
  BY <1>3, EffectReads

LEMMA RunReads ==
  ASSUME ServerInv, UNCHANGED scenario, NEW l \in Loops, RunFunctor(l)
  PROVE  ReadsOpen
<1>1. PICK g : g = Head(batch[l])
  OBVIOUS
<1>2. PICK c : c = g.conn
  OBVIOUS
<1>3. c \in Conns
  BY <1>1, <1>2, RunFacts
<1>4. Execute(l, g)
  BY <1>1 DEF RunFunctor
<1>5. UNCHANGED peer \/ Send(c, peer[c].unread)
  BY <1>2, <1>4 DEF Execute
<1>6. TypeOK /\ PhaseInv
  BY DEF ServerInv
<1>7. PeerEffect(c, peer[c].unread)
  BY <1>3, <1>5, <1>6, PeerChanges, SendChanges
<1>8. QED
  BY <1>3, <1>7, EffectReads

LEMMA PeerStepReads ==
  ASSUME ServerInv, NEW c \in Conns,
         PeerSends(c) \/ PeerReads(c) \/ \E how : PeerEnds(c, how)
  PROVE  ReadsOpen
<1>1. peer \in [Conns -> Peers]
  BY DEF ServerInv, TypeOK, Peers
<1>2. CASE PeerSends(c)
  <2>1. \A d \in Conns : d # c => peer'[d] = peer[d]
    BY <1>1, <1>2 DEF PeerSends
  <2>2. peer'[c].unread = peer[c].unread + 1
    BY <1>1, <1>2 DEF PeerSends, Peers
  <2>3. QED
    BY <2>1, <2>2, NobodyReads
<1>3. CASE PeerReads(c) \/ \E how : PeerEnds(c, how)
  <2>1. \A d \in Conns : peer'[d].unread = peer[d].unread
    BY <1>1, <1>3 DEF PeerReads, PeerEnds, Peers
  <2>2. QED
    BY <2>1, NobodyReads
<1>4. QED
  BY <1>2, <1>3

LEMMA NextReads ==
  ASSUME ServerInv, [Next]_vars
  PROVE  ReadsOpen
<1>1. CASE UNCHANGED peer
  BY <1>1, NobodyReads
<1>2. CASE \E l \in Loops, c \in Conns : OnRead(l, c) \/ OnWrite(l, c)
  BY <1>2, ReadReads, WriteReads
<1>3. CASE UNCHANGED scenario /\ \E l \in Loops : RunFunctor(l)
  BY <1>3, RunReads
<1>4. CASE \E c \in Conns : PeerSends(c) \/ PeerReads(c) \/ \E how : PeerEnds(c, how)
  BY <1>4, PeerStepReads
<1>5. CASE UNCHANGED vars
  BY <1>1, <1>5 DEF vars
<1>6. ASSUME Next, ~UNCHANGED peer
      PROVE  \/ \E l \in Loops, c \in Conns : OnRead(l, c) \/ OnWrite(l, c)
             \/ UNCHANGED scenario /\ \E l \in Loops : RunFunctor(l)
             \/ \E c \in Conns : PeerSends(c) \/ PeerReads(c) \/ \E how : PeerEnds(c, how)
  <2>1. UNCHANGED scenario
    BY <1>6 DEF Next
  <2>2. \A l \in Loops : LoopStep(l) =>
          RunFunctor(l) \/ \E c \in Conns : OnRead(l, c) \/ OnWrite(l, c)
    BY <1>6 DEF LoopStep, Poll, Swap, EndPending, OnHangUp
  <2>3. \A w \in Workers : ~WorkerStep(w)
    BY <1>6 DEF WorkerStep, WorkerTest, WorkerStore, WorkerRun, WorkerReleases, Pushes
  <2>4. /\ ~StopServer /\ ~DropMainLoop
        /\ \A l \in IoLoops : ~QuitLoop(l)
        /\ \A c \in Conns, l \in IoLoops : ~Accept(c, l)
    BY <1>6 DEF StopServer, DropMainLoop, QuitLoop, Accept
  <2>5. QED
    BY <1>6, <2>1, <2>2, <2>3, <2>4 DEF Next
<1>7. QED
  BY <1>1, <1>2, <1>3, <1>4, <1>5, <1>6

LEMMA PollArms ==
  ASSUME ServerInv, NEW l \in Loops, Poll(l)
  PROVE  ArmsOpen
<1>1. PICK hit \in SUBSET Conns :
        /\ \A c \in hit : home[c] = l /\ Reported(conn[c], Has(c)) # {}
        /\ \A c \in Conns : revents'[c] =
             IF c \in hit THEN Reported(conn[c], Has(c)) ELSE revents[c]
  BY DEF Poll, OnLoop
<1>2. ASSUME NEW d \in Conns, "in" \in revents'[d], "in" \notin revents[d]
      PROVE  conn[d].downs = 0
  <2>1. d \in hit /\ "in" \in Reported(conn[d], Has(d))
    BY <1>1, <1>2
  <2>2. QED
    BY <1>1, <2>1, HitFacts
<1>3. QED
  BY <1>2 DEF ArmsOpen

LEMMA NextArms ==
  ASSUME ServerInv, [Next]_vars
  PROVE  ArmsOpen
<1>1. CASE UNCHANGED revents
  BY <1>1 DEF ArmsOpen
<1>2. CASE \E l \in Loops, c \in Conns : \E E : Handled(l, c, E)
  BY <1>2 DEF ArmsOpen, Handled, ServerInv, TypeOK
<1>3. CASE \E l \in Loops : Poll(l)
  BY <1>3, PollArms
<1>4. CASE UNCHANGED vars
  BY <1>1, <1>4 DEF vars, loopVars
<1>5. ASSUME Next, ~UNCHANGED revents
      PROVE  \/ \E l \in Loops : Poll(l)
             \/ \E l \in Loops, c \in Conns : \E E : Handled(l, c, E)
  <2>1. ASSUME NEW l \in Loops, LoopStep(l) PROVE Poll(l) \/ \E c \in Conns : \E E : Handled(l, c, E)
    BY <1>5, <2>1 DEF LoopStep, Swap, RunFunctor, EndPending, OnHangUp, OnRead, OnWrite
  <2>2. \A w \in Workers : ~WorkerStep(w)
    BY <1>5 DEF WorkerStep, WorkerTest, WorkerStore, WorkerRun, WorkerReleases, Pushes, loopVars
  <2>3. /\ ~StopServer /\ ~DropMainLoop
        /\ \A l \in IoLoops : ~QuitLoop(l)
        /\ \A c \in Conns, l \in IoLoops : ~Accept(c, l)
        /\ \A c \in Conns : ~PeerStep(c)
    BY <1>5 DEF StopServer, DropMainLoop, QuitLoop, Accept, PeerStep, loopVars
  <2>4. QED
    BY <1>5, <2>1, <2>2, <2>3 DEF Next, PeerSends, PeerReads, PeerEnds
<1>6. QED
  BY <1>1, <1>2, <1>3, <1>4, <1>5

-----------------------------------------------------------------------------
(***************************************************************************)
(* Every variable keeps its type: no functor, event or record that the     *)
(* member functions of TcpConnection and TcpServer leave is outside the    *)
(* values the model gives it (tcp-connection.cpp, tcp-server.cpp).         *)
(***************************************************************************)
THEOREM TypeCorrect == Spec => []TypeOK
<1>1. ServerInv => TypeOK
  BY DEF ServerInv
<1>2. QED
  BY <1>1, ServerInvariant, PTL

(***************************************************************************)
(* While a connection is open EPOLLOUT is asked for exactly when output is *)
(* pending (tcp-connection.cpp:196-198, 263-265), in every scenario.       *)
(***************************************************************************)
THEOREM OutputIsWatched == Spec => []WriteInterest
<1>1. ServerInv => WriteInterest
  BY DEF ServerInv
<1>2. QED
  BY <1>1, ServerInvariant, PTL

(***************************************************************************)
(* Once a connection is reported down the poller finds nothing more to     *)
(* read from it, and handleRead delivers nothing for it, unless the        *)
(* callback of another connection closed it while it had events in the     *)
(* active list (tcp-connection.cpp:140-174, event-loop.cpp:43), in every   *)
(* scenario.                                                               *)
(***************************************************************************)
THEOREM DownIsSilent == Spec => NoMessageAfterDown
<1>1. ServerInv /\ [Next]_vars =>
        [\A c \in Conns : conn[c].downs > 0 =>
           /\ "in" \in revents'[c] => "in" \in revents[c]
           /\ peer'[c].unread < peer[c].unread => conn[c].cut]_vars
  BY NextReads, NextArms DEF ReadsOpen, MayRead, ArmsOpen
<1>2. QED
  BY <1>1, ServerInvariant, PTL DEF Spec, NoMessageAfterDown

(***************************************************************************)
(* No functor that a loop is going to run and no channel of an active list *)
(* is bound to a connection that was destroyed (tcp-server.cpp:98,         *)
(* 111-117; event-loop.cpp:43-44), if send() and shutdown(), which bind    *)
(* the raw pointer (tcp-connection.cpp:44, 59), are called on other        *)
(* threads only while connections stay open.                               *)
(***************************************************************************)
THEOREM PointersStayAlive ==
  ASSUME \A s \in Scenarios : KeepsPointers(s)
  PROVE  Spec => []PointersAlive
<1>1. ServerInv /\ LifeInv => PointersAlive
  BY LifePointers
<1>2. QED
  BY <1>1, LifeInvariant, PTL

(***************************************************************************)
(* A connection is destroyed DISCONNECTED and out of the map and of the    *)
(* kernel's set (tcp-connection.cpp:22, channel.cpp:26), and was reported  *)
(* up and down once (tcp-connection.cpp:104-106, 117-121, 166-169) unless  *)
(* workers force connections to close or another connection's callback     *)
(* closed it with events in the active list, under the same condition.     *)
(***************************************************************************)
THEOREM EndStaysClean ==
  ASSUME \A s \in Scenarios : KeepsPointers(s)
  PROVE  Spec => []EndIsClean
<1>1. ServerInv /\ LifeInv => EndIsClean
  BY LifeEnds
<1>2. QED
  BY <1>1, LifeInvariant, PTL
=============================================================================
