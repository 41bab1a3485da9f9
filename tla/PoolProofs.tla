----------------------------- MODULE PoolProofs -----------------------------
(***************************************************************************)
(* Proofs about the two pools: LoopPool, for every number of loops and set *)
(* of callers, and MysqlConnectionPool, for every number of clients and of *)
(* connections and every pair of limits.  Nothing of either is used in the *)
(* other's.                                                                *)
(***************************************************************************)
EXTENDS LoopPool, MysqlConnectionPool, SequenceTheorems, FiniteSetTheorems, TLAPS

-----------------------------------------------------------------------------
(***************************************************************************)
(* Type correctness.                                                       *)
(***************************************************************************)
LEMMA FollowingType == ASSUME NEW i \in Indexes PROVE Following(i) \in Indexes
  BY LoopPoolAssumption DEF Following, Indexes

LEMMA TypeInit == Init => TypeOK
<1> SUFFICES ASSUME Init PROVE TypeOK
  OBVIOUS
<1>1. 0 \in Indexes
  BY LoopPoolAssumption DEF Indexes
<1>2. <<>> \in Seq(Indexes \cup {Null})
  OBVIOUS
<1>3. QED
  BY <1>1, <1>2 DEF Init, TypeOK

LEMMA PushType ==
  ASSUME TypeOK, NEW loop \in Indexes, Push(loop)
  PROVE  /\ loops' \in Seq(Indexes \cup {Null})
         /\ main' \in [at : {"serve", "start"}, k : Indexes]
<1>1. loops' \in Seq(Indexes \cup {Null})
  BY DEF Push, TypeOK
<1>2. main.k \in Indexes /\ 0 \in Indexes
  BY LoopPoolAssumption DEF TypeOK, Indexes
<1>3. main.k + 1 # N => main.k + 1 \in Indexes
  BY <1>2, LoopPoolAssumption DEF Indexes
<1>4. QED
  BY <1>1, <1>2, <1>3 DEF Push

LEMMA TypeNext == TypeOK /\ [Next]_vars => TypeOK'
<1> SUFFICES ASSUME TypeOK, [Next]_vars PROVE TypeOK'
  OBVIOUS
<1> USE DEF TypeOK, threadVars, callVars
<1>1. ASSUME StartThread PROVE TypeOK'
  BY <1>1 DEF StartThread
<1>2. ASSUME Check PROVE TypeOK'
  <2>1. CASE main.k \in published
    <3>1. main.k \in Indexes /\ Push(main.k)
      BY <1>2, <2>1 DEF Check
    <3>2. QED
      BY <1>2, <3>1, PushType DEF Check
  <2>2. CASE main.k \notin published
    BY <1>2, <2>2 DEF Check
  <2>3. QED
    BY <2>1, <2>2
<1>3. ASSUME WakeSpuriously \/ Destroy PROVE TypeOK'
  BY <1>3 DEF WakeSpuriously, Destroy
<1>4. ASSUME QuitLoop \/ Wakeup PROVE TypeOK'
  BY <1>4 DEF QuitLoop, Wakeup
<1>5. ASSUME Join PROVE TypeOK'
  <2>1. main.k \in Indexes
    OBVIOUS
  <2>2. main.k + 1 # N => main.k + 1 \in Indexes
    BY <2>1, LoopPoolAssumption DEF Indexes
  <2>3. QED
    BY <1>5, <2>1, <2>2 DEF Join
<1>6. ASSUME NEW k \in Indexes, Publish(k) PROVE TypeOK'
  BY <1>6 DEF Publish
<1>7. ASSUME NEW k \in Indexes, EnterLoop(k) PROVE TypeOK'
  BY <1>7 DEF EnterLoop
<1>8. ASSUME NEW k \in Indexes, LeaveLoop(k) \/ Clear(k) PROVE TypeOK'
  BY <1>8 DEF LeaveLoop, Clear
<1>9. ASSUME NEW c \in Callers, Load(c) \/ Reload(c) PROVE TypeOK'
  <2>1. caller[c] \in [at : {"idle", "exchange"}, current : [first : Indexes, second : Nat]]
    OBVIOUS
  <2>2. ASSUME Load(c)
        PROVE  caller' \in [Callers -> [at : {"idle", "exchange"}, current : [first : Indexes, second : Nat]]]
    BY <2>2 DEF Load
  <2>3. ASSUME Reload(c)
        PROVE  caller' \in [Callers -> [at : {"idle", "exchange"}, current : [first : Indexes, second : Nat]]]
    BY <2>1, <2>3 DEF Reload
  <2>4. UNCHANGED <<main, loops, thread, published, quit, forgotten, next, given>>
    BY <1>9 DEF Load, Reload
  <2>5. QED
    BY <1>9, <2>2, <2>3, <2>4
<1>10. ASSUME NEW c \in Callers, Exchange(c) PROVE TypeOK'
  <2>1. Following(next.first) \in Indexes
    BY FollowingType
  <2>2. next' \in [first : Indexes, second : Nat]
    BY <1>10, <2>1 DEF Exchange
  <2>3. given' \in [Indexes -> Nat]
    BY <1>10, <2>1 DEF Exchange
  <2>4. caller' \in [Callers -> [at : {"idle", "exchange"}, current : [first : Indexes, second : Nat]]]
    <3>1. caller[c] \in [at : {"idle", "exchange"}, current : [first : Indexes, second : Nat]]
      OBVIOUS
    <3>2. caller' = [caller EXCEPT ![c] = [@ EXCEPT !.at = "idle"]]
      BY <1>10 DEF Exchange
    <3>3. [caller[c] EXCEPT !.at = "idle"]
            \in [at : {"idle", "exchange"}, current : [first : Indexes, second : Nat]]
      BY <3>1
    <3>4. QED
      BY <3>2, <3>3
  <2>5. QED
    BY <1>10, <2>2, <2>3, <2>4 DEF Exchange
<1>11. CASE UNCHANGED vars
  BY <1>11 DEF vars
<1>12. QED
  BY <1>1, <1>2, <1>3, <1>4, <1>5, <1>6, <1>7, <1>8, <1>9, <1>10, <1>11
     DEF Next, Main, Run, Call

(***************************************************************************)
(* Every variable keeps its type: no index leaves _loops                   *)
(* (eventloop-threadpool.cpp:55-57).                                       *)
(***************************************************************************)
THEOREM TypeCorrect == Spec => []TypeOK
  BY TypeInit, TypeNext, PTL DEF Spec

-----------------------------------------------------------------------------
(***************************************************************************)
(* The loops take turns.  A successful exchange found _next as it was read *)
(* so the step is the abstract one; no other step touches the counts.      *)
(***************************************************************************)
LEMMA SameIndexes == Turns!Indexes = Indexes
  BY DEF Turns!Indexes, Indexes

LEMMA SameFollowing == \A i : Turns!Following(i) = Following(i)
  BY DEF Turns!Following, Following

LEMMA TurnsInit == Init => Turns!Init
  BY SameIndexes DEF Init, Turns!Init

LEMMA TurnsNext ==
  TypeOK /\ [Next]_vars => [Turns!Hand]_<<next.first, given>>
<1> SUFFICES ASSUME TypeOK, [Next]_vars PROVE [Turns!Hand]_<<next.first, given>>
  OBVIOUS
<1>1. ASSUME NEW c \in Callers, Exchange(c) PROVE Turns!Hand
  BY <1>1, SameFollowing DEF Exchange, Turns!Hand
<1>2. CASE Main \/ Destroy
  BY <1>2 DEF Main, StartThread, Check, WakeSpuriously, Destroy, QuitLoop, Wakeup, Join, callVars
<1>3. ASSUME NEW k \in Indexes, Run(k) PROVE UNCHANGED <<next, given>>
  BY <1>3 DEF Run, Publish, EnterLoop, LeaveLoop, Clear, callVars
<1>4. ASSUME NEW c \in Callers, Load(c) \/ Reload(c) PROVE UNCHANGED <<next, given>>
  BY <1>4 DEF Load, Reload
<1>5. CASE UNCHANGED vars
  BY <1>5 DEF vars, callVars
<1>6. QED
  BY <1>1, <1>2, <1>3, <1>4, <1>5 DEF Next, Call

(***************************************************************************)
(* getNextLoop implements the abstract round robin, however many threads   *)
(* call it at once (eventloop-threadpool.cpp:51-60).                       *)
(***************************************************************************)
THEOREM LoopsTakeTurns == Spec => IsRoundRobin
  BY TypeCorrect, TurnsInit, TurnsNext, PTL DEF Spec, IsRoundRobin, Turns!Spec

(***************************************************************************)
(* The loops behind the turn are one ahead of the others; the first loop   *)
(* is the last of a round.                                                 *)
(***************************************************************************)
Round ==
  \E n \in Nat : \A k \in Indexes :
    given[k] = IF k # 0 /\ k <= next.first THEN n + 1 ELSE n

Even == \A i, j \in Indexes : given[i] <= given[j] + 1

LEMMA RoundNext == TypeOK /\ Round /\ [Next]_vars => Round'
<1> SUFFICES ASSUME TypeOK, Round, [Next]_vars PROVE Round'
  OBVIOUS
<1>1. CASE Turns!Hand
  <2> DEFINE first == Following(next.first)
  <2>1. next'.first = first /\ given' = [given EXCEPT ![first] = @ + 1]
    BY <1>1, SameFollowing DEF Turns!Hand
  <2>2. next.first \in Indexes /\ first \in Indexes /\ given \in [Indexes -> Nat]
    BY FollowingType DEF TypeOK
  <2>3. PICK n \in Nat : \A k \in Indexes :
          given[k] = IF k # 0 /\ k <= next.first THEN n + 1 ELSE n
    BY DEF Round
  <2>4. CASE next.first + 1 = N
    <3>1. first = 0
      BY <2>4 DEF Following
    <3>2. \A k \in Indexes : k <= next.first
      BY <2>2, <2>4, LoopPoolAssumption DEF Indexes
    <3>3. \A k \in Indexes : given'[k] = n + 1
      BY <2>1, <2>2, <2>3, <3>1, <3>2
    <3>4. \A k \in Indexes : ~(k # 0 /\ k <= next'.first)
      BY <2>1, <3>1 DEF Indexes
    <3>5. QED
      BY <3>3, <3>4 DEF Round
  <2>5. CASE next.first + 1 # N
    <3>1. first = next.first + 1
      BY <2>5 DEF Following
    <3>2. ASSUME NEW k \in Indexes
          PROVE  given'[k] = IF k # 0 /\ k <= next'.first THEN n + 1 ELSE n
      <4>1. k \in Nat /\ next.first \in Nat
        BY <2>2, LoopPoolAssumption DEF Indexes
      <4>2. CASE k = first
        BY <2>1, <2>2, <2>3, <3>1, <4>1, <4>2
      <4>3. CASE k # first
        BY <2>1, <2>2, <2>3, <3>1, <4>1, <4>3
      <4>4. QED
        BY <4>2, <4>3
    <3>3. QED
      BY <3>2 DEF Round
  <2>6. QED
    BY <2>4, <2>5
<1>2. CASE UNCHANGED <<next.first, given>>
  BY <1>2 DEF Round
<1>3. QED
  BY <1>1, <1>2, TurnsNext

(***************************************************************************)
(* No loop is handed out twice more often than another: the load is spread *)
(* evenly (eventloop-threadpool.h:36).                                     *)
(***************************************************************************)
THEOREM LoadIsEven == Spec => []Even
<1>1. Init => Round
  <2>1. \A k \in Indexes : k # 0 => ~(k <= 0)
    BY LoopPoolAssumption DEF Indexes
  <2>2. QED
    BY <2>1 DEF Init, Round
<1>2. TypeOK /\ Round => Even
  BY SMTT(30) DEF TypeOK, Round, Even
<1>3. QED
  BY <1>1, <1>2, RoundNext, TypeCorrect, PTL DEF Spec

-----------------------------------------------------------------------------
(***************************************************************************)
(* The lives of the threads.  Where the base thread is says how far each   *)
(* thread may be: not started behind the one it is starting, not ended     *)
(* before the one it is ending, for no loop leaves that was not told to.   *)
(***************************************************************************)
Starting == main.at \in {"start", "check", "wait", "woken"}

Told(k) ==
  \/ main.at = "ended"
  \/ main.at = "quit" /\ k < main.k
  \/ main.at \in {"wakeup", "join"} /\ k <= main.k

Joined(k) ==
  \/ main.at = "ended"
  \/ main.at \in {"quit", "wakeup", "join"} /\ k < main.k

LivesInv ==
  /\ \A k \in Indexes : k \in published <=> thread[k] \in {"started", "loop", "left"}
  /\ \A k \in Indexes : thread[k] \in {"left", "ended"} \/ k \in quit => Told(k)
  /\ \A k \in Indexes : Joined(k) => thread[k] = "ended"
  /\ \A k \in Indexes : thread[k] = "none" => Starting /\ k >= main.k
  /\ main.at = "start" => \A k \in Indexes : k >= main.k => thread[k] = "none"
  /\ Starting => \A k \in Indexes : k > main.k => thread[k] = "none"
  /\ \A k \in Indexes : thread[k] = "init" => Starting /\ k = main.k /\ main.at # "start"

LoopsInv ==
  /\ Len(loops) = IF Starting THEN main.k ELSE N
  /\ \A i \in DOMAIN loops : loops[i] = i - 1
  /\ main.at = "serve" => main.k = 0
LEMMA LivesInit == Init => LivesInv
  BY DEF Init, LivesInv, Told, Joined, Starting, Indexes

LEMMA LivesNext == TypeOK /\ LivesInv /\ LoopsInv /\ [Next]_vars => LivesInv'
<1> SUFFICES ASSUME TypeOK, LivesInv, LoopsInv, [Next]_vars PROVE LivesInv'
  OBVIOUS
<1> USE LoopPoolAssumption DEF TypeOK, LivesInv, Told, Joined, Starting, Indexes, threadVars
<1>1. CASE StartThread
  BY <1>1 DEF StartThread
<1>2. CASE Check
  <2>1. UNCHANGED <<thread, published, quit>> /\ main.k \in Nat
    BY <1>2 DEF Check
  <2>2. CASE main.k \in published /\ main.k + 1 = N
    <3>1. main' = [at |-> "serve", k |-> 0]
      BY <1>2, <2>2 DEF Check, Push
    <3>2. \A k \in Indexes : k <= main.k
      BY <2>2
    <3>3. \A k \in Indexes : thread[k] \notin {"none", "init", "left", "ended"} /\ k \notin quit
      BY <1>2, <2>2, <3>2 DEF Check
    <3>4. QED
      BY <2>1, <3>1, <3>3
  <2>3. CASE main.k \in published /\ main.k + 1 # N
    <3>1. main' = [at |-> "start", k |-> main.k + 1]
      BY <1>2, <2>3 DEF Check, Push
    <3>2. \A k \in Indexes : k \notin quit /\ thread[k] \notin {"init", "left", "ended"}
      BY <1>2, <2>3 DEF Check
    <3>3. \A k \in Indexes : k > main.k => thread[k] = "none"
      BY <1>2 DEF Check
    <3>4. ASSUME NEW k \in Indexes, thread[k] = "none" PROVE k > main.k
      <4>1. k >= main.k /\ k # main.k
        BY <2>3, <3>4
      <4>2. QED
        BY <2>1, <4>1
    <3>5. QED
      BY <2>1, <3>1, <3>2, <3>3, <3>4
  <2>4. CASE main.k \notin published
    <3>1. main' = [main EXCEPT !.at = "wait"]
      BY <1>2, <2>4 DEF Check
    <3>2. QED
      BY <1>2, <2>1, <3>1 DEF Check
  <2>5. QED
    BY <2>2, <2>3, <2>4
<1>3. CASE WakeSpuriously \/ Destroy
  <2>1. UNCHANGED <<thread, published, quit>> /\ main'.k = main.k /\ main.k \in Nat
    BY <1>3 DEF WakeSpuriously, Destroy
  <2>2. CASE WakeSpuriously
    <3>1. main.at = "wait" /\ main'.at = "woken"
      BY <2>2 DEF WakeSpuriously
    <3>2. QED
      BY <2>1, <3>1
  <2>3. CASE Destroy
    <3>1. main.at = "serve" /\ main'.at = "quit" /\ main.k = 0
      BY <2>3 DEF Destroy, LoopsInv
    <3>2. \A k \in Indexes : ~(k < main.k) /\ thread[k] # "none" /\ thread[k] # "init"
      BY <3>1
    <3>3. QED
      BY <2>1, <3>1, <3>2
  <2>4. QED
    BY <1>3, <2>2, <2>3
<1>4. CASE QuitLoop \/ Wakeup
  <2>1. main.k \in Nat /\ UNCHANGED <<thread, published>>
    BY <1>4 DEF QuitLoop, Wakeup
  <2>2. CASE QuitLoop
    <3>1. main' = [main EXCEPT !.at = "wakeup"] /\ main.at = "quit" /\ quit' = quit \cup {main.k}
      BY <2>2 DEF QuitLoop
    <3>2. main'.at = "wakeup" /\ main'.k = main.k
      BY <3>1
    <3>3. \A k \in Indexes : k < main.k => k <= main.k
      BY <2>1
    <3>4. QED
      BY <2>1, <3>1, <3>2, <3>3
  <2>3. CASE Wakeup
    <3>1. main.at = "wakeup" /\ main'.at = "join" /\ main'.k = main.k /\ UNCHANGED quit
      BY <2>3 DEF Wakeup
    <3>2. QED
      BY <2>1, <3>1
  <2>4. QED
    BY <1>4, <2>2, <2>3
<1>5. CASE Join
  <2>1. /\ UNCHANGED <<thread, published, quit>> /\ main.k \in Nat
        /\ main.at = "join" /\ thread[main.k] = "ended"
    BY <1>5 DEF Join
  <2>2. CASE main.k + 1 = N
    <3>1. main'.at = "ended"
      BY <1>5, <2>2 DEF Join
    <3>2. \A k \in Indexes : k <= main.k
      BY <2>2
    <3>3. \A k \in Indexes : thread[k] = "ended"
      BY <2>1, <3>2
    <3>4. QED
      BY <2>1, <3>1, <3>3
  <2>3. CASE main.k + 1 # N
    <3>1. main' = [at |-> "quit", k |-> main.k + 1]
      BY <1>5, <2>3 DEF Join
    <3>2. \A k \in Indexes : k < main.k + 1 <=> k <= main.k
      BY <2>1
    <3>3. QED
      BY <2>1, <3>1, <3>2
  <2>4. QED
    BY <2>2, <2>3
<1>6. ASSUME NEW k \in Indexes, Publish(k) PROVE LivesInv'
  BY <1>6, SMTT(30) DEF Publish
<1>7. ASSUME NEW k \in Indexes, EnterLoop(k) PROVE LivesInv'
  BY <1>7, SMTT(30) DEF EnterLoop
<1>8. ASSUME NEW k \in Indexes, LeaveLoop(k) \/ Clear(k) PROVE LivesInv'
  <2>1. CASE LeaveLoop(k)
    <3>1. thread[k] = "loop" /\ k \in quit /\ thread' = [thread EXCEPT ![k] = "left"]
      BY <2>1 DEF LeaveLoop
    <3>2. UNCHANGED <<main, published, quit>>
      BY <2>1 DEF LeaveLoop
    <3>3. QED
      BY <3>1, <3>2, SMTT(30)
  <2>2. CASE Clear(k)
    <3>1. thread[k] = "left" /\ thread' = [thread EXCEPT ![k] = "ended"]
      BY <2>2 DEF Clear
    <3>2. published' = published \ {k} /\ UNCHANGED <<main, quit>>
      BY <2>2 DEF Clear
    <3>3. QED
      BY <3>1, <3>2
  <2>3. QED
    BY <1>8, <2>1, <2>2
<1>9. ASSUME NEW c \in Callers, Call(c) PROVE LivesInv'
  BY <1>9 DEF Call, Load, Exchange, Reload
<1>10. CASE UNCHANGED vars
  BY <1>10 DEF vars
<1>11. QED
  BY <1>1, <1>2, <1>3, <1>4, <1>5, <1>6, <1>7, <1>8, <1>9, <1>10 DEF Next, Main, Run

LEMMA LoopsInit == Init => LoopsInv
  BY DEF Init, LoopsInv, Starting

LEMMA LoopsNext == TypeOK /\ LoopsInv /\ [Next]_vars => LoopsInv'
<1> SUFFICES ASSUME TypeOK, LoopsInv, [Next]_vars PROVE LoopsInv'
  OBVIOUS
<1>1. CASE Check /\ main.k \in published
  <2>1. main.k \in Indexes /\ main.k \in Nat /\ N \in Nat
    BY LoopPoolAssumption DEF TypeOK, Indexes
  <2>2. loops \in Seq(Indexes \cup {Null}) /\ Len(loops) = main.k
    BY <1>1 DEF TypeOK, Check, LoopsInv, Starting
  <2>3. loops' = Append(loops, main.k)
    BY <1>1 DEF Check, Push
  <2>4. Len(loops') = main.k + 1 /\ \A i \in DOMAIN loops' : loops'[i] = i - 1
    BY <2>1, <2>2, <2>3 DEF LoopsInv
  <2>5. CASE main.k + 1 = N
    BY <1>1, <2>4, <2>5 DEF Check, Push, LoopsInv, Starting
  <2>6. CASE main.k + 1 # N
    BY <1>1, <2>4, <2>6 DEF Check, Push, LoopsInv, Starting
  <2>7. QED
    BY <2>5, <2>6
<1>2. CASE StartThread \/ (Check /\ main.k \notin published)
  BY <1>2 DEF StartThread, Check, TypeOK, LoopsInv, Starting
<1>3. CASE WakeSpuriously \/ Destroy \/ QuitLoop \/ Wakeup
  BY <1>3 DEF WakeSpuriously, Destroy, QuitLoop, Wakeup, TypeOK, LoopsInv, Starting
<1>4. CASE Join
  BY <1>4 DEF Join, TypeOK, LoopsInv, Starting
<1>5. ASSUME NEW k \in Indexes, Run(k) PROVE LoopsInv'
  BY <1>5 DEF Run, Publish, EnterLoop, LeaveLoop, Clear, TypeOK, LoopsInv, Starting
<1>6. ASSUME NEW c \in Callers, Call(c) PROVE LoopsInv'
  BY <1>6 DEF Call, Load, Exchange, Reload, LoopsInv, Starting
<1>7. CASE UNCHANGED vars
  BY <1>7 DEF vars, LoopsInv, Starting
<1>8. QED
  BY <1>1, <1>2, <1>3, <1>4, <1>5, <1>6, <1>7 DEF Next, Main

(***************************************************************************)
(* startLoop returns a loop, loops that are handed out have not ended, and *)
(* every thread ends before its EventLoopThread is gone                    *)
(* (eventloop-thread.cpp:13-51).                                           *)
(***************************************************************************)
THEOREM LoopsOutlive == Spec => []LoopsAlive
<1>1. TypeOK /\ LivesInv /\ LoopsInv => LoopsAlive
  <2> SUFFICES ASSUME TypeOK, LivesInv, LoopsInv PROVE LoopsAlive
    OBVIOUS
  <2>1. ASSUME main.at = "serve", NEW k \in Indexes
        PROVE  k \in published /\ thread[k] \in {"started", "loop"}
    <3>1. ~Starting /\ ~Told(k)
      BY <2>1 DEF Starting, Told
    <3>2. thread[k] \in {"started", "loop"}
      BY <3>1 DEF LivesInv, TypeOK
    <3>3. QED
      BY <3>2 DEF LivesInv
  <2>2. main.at = "serve" => Len(loops) = N
    BY DEF LoopsInv, Starting
  <2>3. QED
    BY <2>1, <2>2 DEF LoopsAlive, LivesInv, LoopsInv, Joined
<1>2. QED
  BY <1>1, LivesInit, LivesNext, LoopsInit, LoopsNext, TypeCorrect, PTL DEF Spec

-----------------------------------------------------------------------------
(***************************************************************************)
(* The invariant.  To the types and the two properties it adds that a      *)
(* client holds a connection just while it uses it: what it is given       *)
(* replaces none, and what it gives back is one.                           *)
(***************************************************************************)
HoldsToUse == \A c \in Clients : pc[c] = "using" <=> held[c] # None

PoolInv == MysqlTypeOK /\ HoldsToUse /\ ExclusiveUse /\ SizeIsCounted

-----------------------------------------------------------------------------
(***************************************************************************)
(* The queue and the connections held, as sets.                            *)
(***************************************************************************)
LEMMA NotifyProperties ==
  ASSUME NEW places \in [Clients -> Places], NotifyOne(places)
  PROVE  /\ pc' \in [Clients -> Places]
         /\ \A c \in Clients : pc'[c] = "using" <=> places[c] = "using"
<1> DEFINE sleeping == {c \in Clients : places[c] = "waiting"}
<1>1. CASE sleeping = {}
  <2>1. pc' = places
    BY <1>1 DEF NotifyOne
  <2>2. QED
    BY <2>1
<1>2. CASE sleeping # {}
  <2>1. PICK c \in sleeping : pc' = [places EXCEPT ![c] = "notified"]
    BY <1>2 DEF NotifyOne
  <2>2. c \in Clients /\ places[c] = "waiting"
    OBVIOUS
  <2>3. QED
    BY <2>1, <2>2 DEF Places
<1>3. QED
  BY <1>1, <1>2

LEMMA IdleOfQueue ==
  ASSUME queue \in Seq(Handles)
  PROVE  /\ Len(queue) \in Nat
         /\ Idle = {queue[i] : i \in 1..Len(queue)} /\ Idle \subseteq Handles
         /\ IsInjective(queue) <=> \A i, j \in 1..Len(queue) : queue[i] = queue[j] => i = j
<1>1. DOMAIN queue = 1..Len(queue) /\ Len(queue) \in Nat
  BY LenProperties
<1>2. \A i \in 1..Len(queue) : queue[i] \in Handles
  BY ElementOfSeq
<1>3. Idle = {queue[i] : i \in 1..Len(queue)}
  BY <1>1 DEF Idle, ToSet
<1>4. QED
  BY <1>1, <1>2, <1>3 DEF IsInjective

LEMMA HeldIsFinite ==
  MysqlTypeOK => /\ Held \subseteq Handles /\ IsFiniteSet(Held) /\ Cardinality(Held) \in Nat
<1> SUFFICES ASSUME MysqlTypeOK PROVE Held \subseteq Handles /\ IsFiniteSet(Held) /\ Cardinality(Held) \in Nat
  OBVIOUS
<1>1. Held \subseteq Handles
  BY DEF MysqlTypeOK, Held
<1>2. IsFiniteSet(Held)
  BY <1>1, FS_Subset, PoolAssumption
<1>3. QED
  BY <1>1, <1>2, FS_CardinalityType

LEMMA Borrow ==
  ASSUME MysqlTypeOK, NEW c \in Clients, NEW h \in Handles,
         held[c] = None, h \notin Held, held' = [held EXCEPT ![c] = h]
  PROVE  Held' = Held \cup {h} /\ Cardinality(Held') = Cardinality(Held) + 1
<1>1. Held' = Held \cup {h}
  <2>1. h # None
    BY PoolAssumption
  <2>2. \A d \in Clients : held'[d] = IF d = c THEN h ELSE held[d]
    BY DEF MysqlTypeOK
  <2>3. Held' = {held'[d] : d \in Clients} \ {None}
    BY DEF Held
  <2>4. QED
    BY <2>1, <2>2, <2>3 DEF Held
<1>2. QED
  BY <1>1, HeldIsFinite, FS_AddElement

LEMMA GiveBack ==
  ASSUME MysqlTypeOK, ExclusiveUse, NEW c \in Clients,
         held[c] # None, held' = [held EXCEPT ![c] = None]
  PROVE  Held' = Held \ {held[c]} /\ Cardinality(Held') = Cardinality(Held) - 1
<1>1. Held' = Held \ {held[c]}
  <2>1. \A d \in Clients : held'[d] = IF d = c THEN None ELSE held[d]
    BY DEF MysqlTypeOK
  <2>2. \A d \in Clients : d # c => held[d] # held[c]
    BY DEF ExclusiveUse
  <2>3. Held' = {held'[d] : d \in Clients} \ {None}
    BY DEF Held
  <2>4. QED
    BY <2>1, <2>2, <2>3 DEF Held
<1>2. held[c] \in Held
  BY DEF Held
<1>3. QED
  BY <1>1, <1>2, HeldIsFinite, FS_RemoveElement

-----------------------------------------------------------------------------
(***************************************************************************)
(* The pool starts with idle connections only.                             *)
(***************************************************************************)
LEMMA PoolInit == MysqlInit => PoolInv
<1> SUFFICES ASSUME MysqlInit PROVE PoolInv
  OBVIOUS
<1>1. queue \in [1..MinSize -> Handles] /\ IsInjective(queue)
  BY DEF MysqlInit
<1>2. queue \in Seq(Handles) /\ Len(queue) = MinSize
  <2>1. queue \in Seq(Handles)
    BY <1>1, SeqDef, PoolAssumption
  <2>2. 1..Len(queue) = 1..MinSize /\ Len(queue) \in Nat
    BY <1>1, <2>1, LenProperties
  <2>3. QED
    BY <2>1, <2>2, PoolAssumption
<1>3. Held = {} /\ Cardinality({}) = 0
  BY FS_EmptySet DEF MysqlInit, Held
<1>4. MysqlTypeOK
  BY <1>2, PoolAssumption DEF MysqlInit, MysqlTypeOK, Places
<1>5. HoldsToUse
  BY DEF MysqlInit, HoldsToUse
<1>6. ExclusiveUse
  BY <1>1 DEF MysqlInit, ExclusiveUse
<1>7. SizeIsCounted
  BY <1>2, <1>3, PoolAssumption DEF MysqlInit, SizeIsCounted
<1>8. QED
  BY <1>4, <1>5, <1>6, <1>7 DEF PoolInv

-----------------------------------------------------------------------------
(***************************************************************************)
(* The steps, by what they do to the connections.                          *)
(***************************************************************************)
LEMMA TakeKeeps ==
  ASSUME PoolInv, NEW c \in Clients, held[c] = None, pc[c] # "using", Take(c), UNCHANGED total
  PROVE  PoolInv'
<1> USE DEF PoolInv
<1>1. CASE queue = <<>>
  <2>1. pc' = [pc EXCEPT ![c] = "undefined"] /\ UNCHANGED <<queue, held, total>>
    BY <1>1 DEF Take
  <2>2. MysqlTypeOK' /\ HoldsToUse'
    BY <2>1 DEF MysqlTypeOK, HoldsToUse, Places
  <2>3. ExclusiveUse' /\ SizeIsCounted'
    BY <2>1 DEF ExclusiveUse, SizeIsCounted, Idle, Held
  <2>4. QED
    BY <2>2, <2>3
<1>2. CASE queue # <<>>
  <2> DEFINE h == queue[1]
  <2>1. /\ held' = [held EXCEPT ![c] = Head(queue)] /\ queue' = Tail(queue)
        /\ pc' = [pc EXCEPT ![c] = "using"]
    BY <1>2 DEF Take
  <2>2. /\ h \in Handles /\ Head(queue) = h
        /\ queue' \in Seq(Handles) /\ Len(queue') = Len(queue) - 1 /\ Len(queue) \in Nat \ {0}
        /\ \A i \in 1..Len(queue') : queue'[i] = queue[i + 1]
    BY <1>2, <2>1, HeadTailProperties, EmptySeq DEF MysqlTypeOK
  <2>3. \A i, j \in 1..Len(queue) : queue[i] = queue[j] => i = j
    BY IdleOfQueue DEF MysqlTypeOK, ExclusiveUse
  <2>4. \A i, j \in 1..Len(queue') : queue'[i] = queue'[j] => i = j
    BY <2>2, <2>3
  <2>5. \A i \in 1..Len(queue') : queue'[i] # h
    <3> TAKE i \in 1..Len(queue')
    <3>1. i + 1 \in 1..Len(queue) /\ 1 \in 1..Len(queue) /\ i + 1 # 1
      BY <2>2
    <3>2. QED
      BY <2>2, <2>3, <3>1
  <2>6. \A i \in 1..Len(queue') : \E j \in 1..Len(queue) : queue'[i] = queue[j]
    BY <2>2
  <2>7. Idle' = {queue'[i] : i \in 1..Len(queue')} /\ IsInjective(queue')
    <3>1. DOMAIN queue' = 1..Len(queue')
      BY <2>2, LenProperties
    <3>2. QED
      BY <2>4, <3>1 DEF Idle, ToSet, IsInjective
  <2>8. h \in Idle /\ Idle' \subseteq Idle \ {h}
    <3>1. Idle = {queue[i] : i \in 1..Len(queue)}
      BY IdleOfQueue DEF MysqlTypeOK
    <3>2. 1 \in 1..Len(queue)
      BY <2>2
    <3>3. QED
      BY <2>5, <2>6, <2>7, <3>1, <3>2
  <2>9. h \notin Held
    BY <2>8 DEF ExclusiveUse, Held
  <2>10. held' = [held EXCEPT ![c] = h]
    BY <2>1, <2>2
  <2> HIDE DEF h
  <2>11. Cardinality(Held') = Cardinality(Held) + 1
    BY <2>2, <2>9, <2>10, Borrow
  <2>12. h # None
    BY <2>2, PoolAssumption
  <2>13. MysqlTypeOK'
    BY <2>1, <2>2, <2>10 DEF MysqlTypeOK, Places
  <2>14. HoldsToUse'
    BY <2>1, <2>10, <2>12 DEF MysqlTypeOK, HoldsToUse
  <2>15. ExclusiveUse'
    <3>1. \A d \in Clients : held'[d] = IF d = c THEN h ELSE held[d]
      BY <2>10 DEF MysqlTypeOK
    <3>2. \A d \in Clients : held[d] # h
      BY <2>9, <2>12 DEF Held
    <3>3. QED
      BY <2>7, <2>8, <3>1, <3>2 DEF ExclusiveUse
  <2>16. SizeIsCounted'
    BY <2>2, <2>11, HeldIsFinite DEF SizeIsCounted
  <2>17. QED
    BY <2>13, <2>14, <2>15, <2>16
<1>3. QED
  BY <1>1, <1>2

LEMMA ReleaseKeeps ==
  ASSUME PoolInv, NEW c \in Clients, Release(c)
  PROVE  PoolInv'
<1> USE DEF PoolInv
<1> DEFINE h == held[c]
<1>1. /\ pc[c] = "using" /\ queue' = Append(queue, h) /\ held' = [held EXCEPT ![c] = None]
      /\ NotifyOne([pc EXCEPT ![c] = "out"]) /\ UNCHANGED total
  BY DEF Release
<1>2. h # None /\ h \in Handles /\ h \notin Idle
  BY <1>1 DEF MysqlTypeOK, HoldsToUse, ExclusiveUse
<1>3. /\ pc' \in [Clients -> Places]
      /\ \A d \in Clients : pc'[d] = "using" <=> pc[d] = "using" /\ d # c
  <2>1. [pc EXCEPT ![c] = "out"] \in [Clients -> Places]
    BY DEF MysqlTypeOK, Places
  <2>2. \A d \in Clients : [pc EXCEPT ![c] = "out"][d] = "using" <=> pc[d] = "using" /\ d # c
    BY DEF MysqlTypeOK
  <2>3. QED
    BY <1>1, <2>1, <2>2, NotifyProperties
<1>4. /\ queue' \in Seq(Handles) /\ Len(queue') = Len(queue) + 1 /\ Len(queue) \in Nat
      /\ queue'[Len(queue) + 1] = h /\ \A i \in 1..Len(queue) : queue'[i] = queue[i]
  BY <1>1, <1>2, AppendProperties, LenProperties DEF MysqlTypeOK
<1>5. /\ \A i, j \in 1..Len(queue) : queue[i] = queue[j] => i = j
      /\ \A i \in 1..Len(queue) : queue[i] # h
      /\ Idle = {queue[i] : i \in 1..Len(queue)}
  BY <1>2, IdleOfQueue DEF MysqlTypeOK, ExclusiveUse
<1> HIDE DEF h
<1>6. Idle' = Idle \cup {h} /\ IsInjective(queue')
  <2>1. DOMAIN queue' = 1..Len(queue')
    BY <1>4, LenProperties
  <2>2. \A i, j \in 1..Len(queue') : queue'[i] = queue'[j] => i = j
    BY <1>4, <1>5
  <2>3. Idle' = {queue'[i] : i \in 1..Len(queue')}
    BY <2>1 DEF Idle, ToSet
  <2>4. \A i \in 1..Len(queue') : queue'[i] = h \/ \E j \in 1..Len(queue) : queue'[i] = queue[j]
    BY <1>4
  <2>5. \A j \in 1..Len(queue) : j \in 1..Len(queue') /\ queue'[j] = queue[j]
    BY <1>4
  <2>6. Len(queue) + 1 \in 1..Len(queue')
    BY <1>4
  <2>7. QED
    BY <1>4, <1>5, <2>1, <2>2, <2>3, <2>4, <2>5, <2>6 DEF IsInjective
<1>7. Cardinality(Held') = Cardinality(Held) - 1
  BY <1>1, <1>2, GiveBack DEF h
<1>8. \A d \in Clients : held'[d] = IF d = c THEN None ELSE held[d]
  BY <1>1 DEF MysqlTypeOK
<1>9. MysqlTypeOK'
  BY <1>1, <1>3, <1>4 DEF MysqlTypeOK
<1>10. HoldsToUse'
  BY <1>3, <1>8 DEF HoldsToUse
<1>11. ExclusiveUse'
  <2>1. \A d \in Clients : d # c => held[d] # h
    BY <1>2 DEF ExclusiveUse, h
  <2>2. QED
    BY <1>6, <1>8, <2>1 DEF ExclusiveUse
<1>12. SizeIsCounted'
  BY <1>1, <1>4, <1>7, HeldIsFinite DEF SizeIsCounted
<1>13. QED
  BY <1>9, <1>10, <1>11, <1>12

LEMMA AddKeeps ==
  ASSUME PoolInv, Add
  PROVE  PoolInv'
<1> USE DEF PoolInv
<1>1. queue = <<>> /\ total <= MaxSize /\ NotifyOne(pc) /\ UNCHANGED held
  BY DEF Add, MayAdd
<1>2. Wanted = MinSize
  BY <1>1, EmptySeq, PoolAssumption DEF Wanted
<1>3. PICK n \in 0..MinSize : Open(n)
  BY <1>2 DEF Add
<1>4. PICK new \in [1..n -> Free] : IsInjective(new) /\ queue' = queue \o new /\ total' = total + n
  BY <1>3 DEF Open
<1>5. n \in Nat /\ n <= MinSize
  BY PoolAssumption
<1>6. new \in Seq(Handles) /\ Len(new) = n
  <2>1. new \in [1..n -> Handles]
    BY DEF Free
  <2>2. new \in Seq(Handles)
    BY <1>5, <2>1, SeqDef
  <2>3. 1..Len(new) = 1..n /\ Len(new) \in Nat
    BY <2>1, <2>2, LenProperties
  <2>4. QED
    BY <1>5, <2>2, <2>3
<1>7. queue' = new
  BY <1>1, <1>4, <1>6, ConcatEmptySeq
<1>8. Idle' \subseteq Free
  BY <1>7 DEF Idle, ToSet
<1>9. Len(queue) = 0 /\ Held' = Held
  BY <1>1, EmptySeq DEF Held
<1>10. MysqlTypeOK'
  BY <1>1, <1>4, <1>5, <1>6, <1>7, NotifyProperties DEF MysqlTypeOK
<1>11. HoldsToUse'
  BY <1>1, NotifyProperties DEF MysqlTypeOK, HoldsToUse
<1>12. ExclusiveUse'
  BY <1>1, <1>4, <1>7, <1>8 DEF ExclusiveUse, Free, Held
<1>13. SizeIsCounted'
  BY <1>1, <1>4, <1>5, <1>6, <1>7, <1>9, HeldIsFinite, PoolAssumption DEF SizeIsCounted, MysqlTypeOK
<1>14. QED
  BY <1>10, <1>11, <1>12, <1>13

LEMMA RemoveKeeps ==
  ASSUME PoolInv, RemoveIdle
  PROVE  PoolInv'
<1> USE DEF PoolInv
<1>1. PICK n \in 1..(Len(queue) - MinSize) :
        queue' = SubSeq(queue, n + 1, Len(queue)) /\ total' = total - n
  BY DEF RemoveIdle
<1>2. UNCHANGED <<held, pc>> /\ Len(queue) > MinSize
  BY DEF RemoveIdle
<1>3. Len(queue) \in Nat /\ n \in Nat /\ n < Len(queue)
  BY <1>1, <1>2, LenProperties, PoolAssumption DEF MysqlTypeOK
<1>4. /\ queue' \in Seq(Handles) /\ Len(queue') = Len(queue) - n
      /\ \A i \in 1..Len(queue') : queue'[i] = queue[n + i]
  <2>1. \A i \in (n + 1)..Len(queue) : queue[i] \in Handles
    BY <1>3, ElementOfSeq DEF MysqlTypeOK
  <2>2. /\ SubSeq(queue, n + 1, Len(queue)) \in Seq(Handles)
        /\ Len(SubSeq(queue, n + 1, Len(queue))) = Len(queue) - n
        /\ \A i \in 1..(Len(queue) - n) : SubSeq(queue, n + 1, Len(queue))[i] = queue[n + i]
    BY <1>3, <2>1, SubSeqProperties
  <2>3. QED
    BY <1>1, <2>2
<1>5. /\ \A i, j \in 1..Len(queue) : queue[i] = queue[j] => i = j
      /\ Idle = {queue[i] : i \in 1..Len(queue)}
  BY IdleOfQueue DEF MysqlTypeOK, ExclusiveUse
<1>6. \A i \in 1..Len(queue') : n + i \in 1..Len(queue)
  BY <1>3, <1>4
<1>7. Idle' \subseteq Idle /\ IsInjective(queue')
  <2>1. DOMAIN queue' = 1..Len(queue')
    BY <1>4, LenProperties
  <2>2. \A i, j \in 1..Len(queue') : queue'[i] = queue'[j] => i = j
    <3> SUFFICES ASSUME NEW i \in 1..Len(queue'), NEW j \in 1..Len(queue'), queue'[i] = queue'[j]
                 PROVE  i = j
      OBVIOUS
    <3>1. queue[n + i] = queue[n + j]
      BY <1>4
    <3>2. n + i = n + j
      BY <1>5, <1>6, <3>1
    <3>3. QED
      BY <1>3, <3>2
  <2>3. Idle' = {queue'[i] : i \in 1..Len(queue')}
    BY <2>1 DEF Idle, ToSet
  <2>4. Idle' \subseteq Idle
    <3>1. \A i \in 1..Len(queue') : queue'[i] \in {queue[j] : j \in 1..Len(queue)}
      BY <1>4, <1>6
    <3>2. QED
      BY <1>5, <2>3, <3>1
  <2>5. QED
    BY <2>1, <2>2, <2>4 DEF IsInjective
<1>8. Held' = Held
  BY <1>2 DEF Held
<1>9. SizeIsCounted' /\ total' \in Nat
  <2>1. Cardinality(Held)' = Cardinality(Held) /\ Cardinality(Held) \in Nat
    BY <1>8, HeldIsFinite
  <2>2. MaxSize \in Nat /\ MinSize \in Nat
    BY PoolAssumption
  <2>3. total' = Len(queue') + Cardinality(Held)'
    BY <1>1, <1>3, <1>4, <2>1 DEF SizeIsCounted
  <2>4. total' <= MaxSize + MinSize /\ total' \in Nat
    <3>1. PICK t \in Nat : t = total
      BY DEF MysqlTypeOK
    <3>2. t <= MaxSize + MinSize /\ total' = t - n /\ t = Len(queue) + Cardinality(Held)
      BY <1>1, <3>1 DEF SizeIsCounted
    <3>3. QED
      BY <1>3, <2>1, <2>2, <3>2
  <2>5. QED
    BY <2>3, <2>4 DEF SizeIsCounted
<1>10. MysqlTypeOK' /\ HoldsToUse'
  BY <1>2, <1>4, <1>9 DEF MysqlTypeOK, HoldsToUse
<1>11. ExclusiveUse'
  BY <1>2, <1>7 DEF ExclusiveUse
<1>12. QED
  BY <1>9, <1>10, <1>11

LEMMA PoolNext == PoolInv /\ [MysqlNext]_mysqlVars => PoolInv'
<1> SUFFICES ASSUME PoolInv, [MysqlNext]_mysqlVars PROVE PoolInv'
  OBVIOUS
<1>1. ASSUME UNCHANGED <<queue, total, held>>, pc' \in [Clients -> Places],
             \A c \in Clients : pc'[c] = "using" <=> pc[c] = "using"
      PROVE  PoolInv'
  BY <1>1 DEF PoolInv, MysqlTypeOK, HoldsToUse, ExclusiveUse, SizeIsCounted, Idle, Held
<1>2. ASSUME NEW c \in Clients, GetHandle(c) PROVE PoolInv'
  <2>1. pc[c] = "out" /\ held[c] = None /\ UNCHANGED total
    BY <1>2 DEF GetHandle, PoolInv, HoldsToUse
  <2>2. CASE queue = <<>>
    <3>1. pc' = [pc EXCEPT ![c] = "waiting"] /\ UNCHANGED <<queue, total, held>>
      BY <1>2, <2>2 DEF GetHandle
    <3>2. QED
      BY <1>1, <2>1, <3>1 DEF PoolInv, MysqlTypeOK, Places
  <2>3. CASE queue # <<>>
    BY <1>2, <2>1, <2>3, TakeKeeps DEF GetHandle
  <2>4. QED
    BY <2>2, <2>3
<1>3. ASSUME NEW c \in Clients, WakeUp(c) PROVE PoolInv'
  <2>1. pc[c] = "notified" /\ held[c] = None /\ Take(c) /\ UNCHANGED total
    BY <1>3 DEF WakeUp, PoolInv, HoldsToUse
  <2>2. QED
    BY <2>1, TakeKeeps
<1>4. ASSUME NEW c \in Clients, TimeOut(c) \/ GiveUp(c) PROVE PoolInv'
  BY <1>1, <1>4 DEF TimeOut, GiveUp, PoolInv, MysqlTypeOK, Places
<1>5. CASE UNCHANGED mysqlVars
  BY <1>1, <1>5 DEF mysqlVars, PoolInv, MysqlTypeOK
<1>6. QED
  BY <1>2, <1>3, <1>4, <1>5, ReleaseKeeps, AddKeeps, RemoveKeeps DEF MysqlNext, ClientStep

(***************************************************************************)
(* Every variable keeps its type; _totalsize, which remove() lowers, never *)
(* falls below zero (mysql-connection-pool.cpp:149).                       *)
(***************************************************************************)
THEOREM MysqlTypeCorrect == MysqlSpec => []MysqlTypeOK
<1>1. PoolInv => MysqlTypeOK
  BY DEF PoolInv
<1>2. QED
  BY <1>1, PoolInit, PoolNext, PTL DEF MysqlSpec

(***************************************************************************)
(* No connection is shared by two clients or is idle while it is used      *)
(* (mysql-connection-pool.cpp:97-106).                                     *)
(***************************************************************************)
THEOREM ConnectionsAreExclusive == MysqlSpec => []ExclusiveUse
<1>1. PoolInv => ExclusiveUse
  BY DEF PoolInv
<1>2. QED
  BY <1>1, PoolInit, PoolNext, PTL DEF MysqlSpec

(***************************************************************************)
(* _totalsize is the number of connections, and one add() over _maxsize is *)
(* all the pool grows to (mysql-connection-pool.cpp:121, 129-131, 149).    *)
(***************************************************************************)
THEOREM ConnectionsAreCounted == MysqlSpec => []SizeIsCounted
<1>1. PoolInv => SizeIsCounted
  BY DEF PoolInv
<1>2. QED
  BY <1>1, PoolInit, PoolNext, PTL DEF MysqlSpec
=============================================================================
