-------------------------- MODULE ThreadPoolProofs --------------------------
(***************************************************************************)
(* Proofs about ThreadPool, for every number of threads and tasks and      *)
(* every limit of the queue.                                               *)
(***************************************************************************)
EXTENDS ThreadPool, SequenceTheorems, TLAPS

-----------------------------------------------------------------------------
(***************************************************************************)
(* What the condition variables do to the threads that wait on them.       *)
(***************************************************************************)
Places == {"test", "awake", "asleep", "running", "exited", "out"}

LEMMA OneProperties ==
  ASSUME NEW S, NEW f \in [S -> Places], NEW g \in One(f)
  PROVE  /\ g \in [S -> Places]
         /\ \A t \in S : g[t] = f[t] \/ (f[t] = "asleep" /\ g[t] = "awake")
         /\ (\E t \in S : f[t] = "asleep") => \E t \in S : g[t] = "awake"
<1> USE DEF Places
<1> DEFINE asleep == {t \in DOMAIN f : f[t] = "asleep"}
<1>1. CASE asleep = {}
  <2>1. One(f) = {f}
    BY <1>1 DEF One
  <2>2. g = f
    BY <2>1
  <2>3. \A t \in S : f[t] # "asleep"
    BY <1>1
  <2>4. QED
    BY <2>2, <2>3
<1>2. CASE asleep # {}
  <2>1. One(f) = {[f EXCEPT ![t] = "awake"] : t \in asleep}
    BY <1>2 DEF One
  <2>2. PICK t \in asleep : g = [f EXCEPT ![t] = "awake"]
    BY <2>1
  <2>3. t \in S /\ f[t] = "asleep"
    OBVIOUS
  <2>4. QED
    BY <2>2, <2>3
<1>3. QED
  BY <1>1, <1>2

LEMMA AllProperties ==
  ASSUME NEW S, NEW f \in [S -> Places]
  PROVE  /\ All(f) \in [S -> Places]
         /\ \A t \in S : All(f)[t] = IF f[t] = "asleep" THEN "awake" ELSE f[t]
  BY DEF All, Places

LEMMA PlacesOfThreads ==
  TypeOK => cpc \in [Consumers -> Places] /\ ppc \in [Producers -> Places]
  BY DEF TypeOK, Places

-----------------------------------------------------------------------------
(***************************************************************************)
(* Type correctness.  What a producer pushes is a task because it has one  *)
(* from its call of append() to the push, however often it waits.          *)
(***************************************************************************)
HasTask == \A p \in Producers : ppc[p] # "out" => task[p] \in Tasks

TypeInv == TypeOK /\ HasTask

LEMMA TypeInit == Init => TypeInv
<1> SUFFICES ASSUME Init PROVE TypeInv
  OBVIOUS
<1>1. <<>> \in Seq(Tasks) /\ Len(<<>>) = 0
  BY EmptySeq
<1>2. QED
  BY <1>1, ThreadPoolAssumption DEF Init, TypeInv, TypeOK, HasTask

LEMMA TypeNext == TypeInv /\ [Next]_vars => TypeInv'
<1> SUFFICES ASSUME TypeInv, [Next]_vars PROVE TypeInv'
  OBVIOUS
<1> USE ThreadPoolAssumption DEF TypeInv, TypeOK, HasTask
<1>1. ASSUME NEW c \in Consumers, TestRunning(c) \/ WaitForWork(c) PROVE TypeInv'
  BY <1>1 DEF TestRunning, WaitForWork
<1>2. ASSUME NEW c \in Consumers, Take(c) PROVE TypeInv'
  <2>1. queue # <<>>
    BY <1>2 DEF Take, HasWork
  <2>2. Head(queue) \in Tasks /\ Tail(queue) \in Seq(Tasks) /\ Len(Tail(queue)) = Len(queue) - 1
    BY <2>1, HeadTailProperties
  <2>3. /\ All(ppc) \in [Producers -> Places]
        /\ \A p \in Producers : All(ppc)[p] = IF ppc[p] = "asleep" THEN "awake" ELSE ppc[p]
    BY PlacesOfThreads, AllProperties
  <2>4. taken' \in Seq(Tasks)
    BY <1>2, <2>2, AppendProperties DEF Take
  <2>5. /\ queue' \in Seq(Tasks) /\ Len(queue') <= MaxQueueSize
    BY <1>2, <2>2, LenProperties DEF Take
  <2>6. /\ task' = [task EXCEPT ![c] = Head(queue)]
        /\ cpc' = [cpc EXCEPT ![c] = "running"]
        /\ ppc' = All(ppc)
        /\ UNCHANGED <<running, stopper, given>>
    BY <1>2 DEF Take
  <2>7. HasTask'
    BY <2>3, <2>6
  <2>8. QED
    BY <2>2, <2>3, <2>4, <2>5, <2>6, <2>7
<1>3. ASSUME NEW c \in Consumers, Finish(c) PROVE TypeInv'
  BY <1>3 DEF Finish
<1>4. ASSUME NEW p \in Producers, NEW t \in Tasks, CallAppend(p, t) PROVE TypeInv'
  BY <1>4 DEF CallAppend
<1>5. ASSUME NEW p \in Producers, Add(p) PROVE TypeInv'
  <2>1. /\ ppc[p] = "awake" /\ Len(queue) < MaxQueueSize
        /\ queue' = Append(queue, task[p])
        /\ cpc' \in One(cpc)
        /\ ppc' = [ppc EXCEPT ![p] = "out"]
        /\ task' = [task EXCEPT ![p] = None]
        /\ UNCHANGED <<running, stopper, given, taken>>
    BY <1>5 DEF Add, HasRoom
  <2>2. /\ cpc' \in [Consumers -> Places]
        /\ \A c \in Consumers : cpc'[c] = cpc[c] \/ (cpc[c] = "asleep" /\ cpc'[c] = "awake")
    BY <2>1, PlacesOfThreads, OneProperties
  <2>3. queue' \in Seq(Tasks) /\ Len(queue') <= MaxQueueSize
    BY <2>1, AppendProperties, LenProperties
  <2>4. QED
    BY <2>1, <2>2, <2>3
<1>6. ASSUME NEW p \in Producers, WaitForRoom(p) PROVE TypeInv'
  BY <1>6 DEF WaitForRoom
<1>7. CASE StoreRunning \/ Join
  BY <1>7 DEF StoreRunning, Join
<1>8. CASE NotifyConsumers
  <2>1. cpc' = All(cpc) /\ stopper' = "joining" /\ UNCHANGED <<running, queue, task, ppc, given, taken>>
    BY <1>8 DEF NotifyConsumers
  <2>2. /\ cpc' \in [Consumers -> Places]
        /\ \A c \in Consumers : cpc'[c] = IF cpc[c] = "asleep" THEN "awake" ELSE cpc[c]
    BY <2>1, PlacesOfThreads, AllProperties
  <2>3. QED
    BY <2>1, <2>2
<1>9. CASE UNCHANGED vars
  BY <1>9 DEF vars
<1>10. QED
  BY <1>1, <1>2, <1>3, <1>4, <1>5, <1>6, <1>7, <1>8, <1>9
     DEF Next, ConsumerStep, ProducerStep

(***************************************************************************)
(* Every variable keeps its type, and the queue its limit, whatever the    *)
(* producers find when they wake up (threadpool.cpp:44-46).                *)
(***************************************************************************)
THEOREM TypeCorrect == Spec => []TypeOK
<1>1. TypeInv => TypeOK
  BY DEF TypeInv
<1>2. QED
  BY <1>1, TypeInit, TypeNext, PTL DEF Spec

-----------------------------------------------------------------------------
(***************************************************************************)
(* No missed wakeup.  A consumer leaves for good only a pool that has      *)
(* stopped, so a running pool has a consumer for the task of an add():     *)
(* one that is asleep, and is notified, or one that is on its way.         *)
(***************************************************************************)
NobodyLeft == running => \A c \in Consumers : cpc[c] # "exited"

WakeupInv == NobodyLeft /\ NoMissedWakeup

LEMMA WakeupInit == Init => WakeupInv
  BY ThreadPoolAssumption
     DEF Init, WakeupInv, NobodyLeft, NoMissedWakeup, WorkHasConsumer, RoomWakesProducers

LEMMA WakeupNext == TypeInv /\ WakeupInv /\ [Next]_vars => WakeupInv'
<1> SUFFICES ASSUME TypeInv, WakeupInv, [Next]_vars PROVE WakeupInv'
  OBVIOUS
<1> USE ThreadPoolAssumption
    DEF TypeInv, TypeOK, WakeupInv, NobodyLeft, NoMissedWakeup, WorkHasConsumer, RoomWakesProducers
<1>1. ASSUME NEW c \in Consumers, TestRunning(c) PROVE WakeupInv'
  BY <1>1 DEF TestRunning, HasRoom
<1>2. ASSUME NEW c \in Consumers, Take(c) PROVE WakeupInv'
  <2>1. cpc' = [cpc EXCEPT ![c] = "running"] /\ ppc' = All(ppc) /\ UNCHANGED running
    BY <1>2 DEF Take
  <2>2. \A p \in Producers : ppc'[p] = IF ppc[p] = "asleep" THEN "awake" ELSE ppc[p]
    BY <2>1, PlacesOfThreads, AllProperties
  <2>3. QED
    BY <2>1, <2>2
<1>3. ASSUME NEW c \in Consumers, WaitForWork(c) PROVE WakeupInv'
  BY <1>3 DEF WaitForWork, HasWork, HasRoom
<1>4. ASSUME NEW c \in Consumers, Finish(c) PROVE WakeupInv'
  BY <1>4 DEF Finish, HasRoom
<1>5. ASSUME NEW p \in Producers, NEW t \in Tasks, CallAppend(p, t) PROVE WakeupInv'
  BY <1>5 DEF CallAppend, HasRoom
<1>6. ASSUME NEW p \in Producers, Add(p) PROVE WakeupInv'
  <2>1. /\ HasRoom
        /\ queue' = Append(queue, task[p]) /\ task[p] \in Tasks
        /\ cpc' \in One(cpc)
        /\ ppc' = [ppc EXCEPT ![p] = "out"]
        /\ UNCHANGED running
    BY <1>6 DEF Add, HasTask
  <2>2. /\ \A c \in Consumers : cpc'[c] = cpc[c] \/ (cpc[c] = "asleep" /\ cpc'[c] = "awake")
        /\ (\E c \in Consumers : cpc[c] = "asleep") => \E c \in Consumers : cpc'[c] = "awake"
    BY <2>1, PlacesOfThreads, OneProperties, SMTT(20)
  <2>3. NobodyLeft'
    BY <2>1, <2>2
  <2>4. WorkHasConsumer'
    <3>1. CASE \E c \in Consumers : cpc[c] = "asleep"
      BY <2>2, <3>1
    <3>2. CASE \A c \in Consumers : cpc[c] # "asleep"
      BY <2>1, <2>2, <3>2
    <3>3. QED
      BY <3>1, <3>2
  <2>5. RoomWakesProducers'
    BY <2>1
  <2>6. QED
    BY <2>3, <2>4, <2>5
<1>7. ASSUME NEW p \in Producers, WaitForRoom(p) PROVE WakeupInv'
  BY <1>7 DEF WaitForRoom, HasRoom
<1>8. CASE StoreRunning
  BY <1>8 DEF StoreRunning, HasRoom
<1>9. CASE NotifyConsumers
  <2>1. cpc' = All(cpc) /\ UNCHANGED <<running, queue, ppc>>
    BY <1>9 DEF NotifyConsumers
  <2>2. \A c \in Consumers : cpc'[c] = IF cpc[c] = "asleep" THEN "awake" ELSE cpc[c]
    BY <2>1, PlacesOfThreads, AllProperties
  <2>3. QED
    BY <2>1, <2>2 DEF HasRoom
<1>10. CASE Join \/ UNCHANGED vars
  BY <1>10 DEF Join, vars, HasRoom
<1>11. QED
  BY <1>1, <1>2, <1>3, <1>4, <1>5, <1>6, <1>7, <1>8, <1>9, <1>10
     DEF Next, ConsumerStep, ProducerStep

(***************************************************************************)
(* A running pool has a consumer for its queue, and no producer sleeps     *)
(* beside room (threadpool.cpp:44-47, 73-79).                              *)
(***************************************************************************)
THEOREM NobodyIsForgotten == Spec => []NoMissedWakeup
<1>1. WakeupInv => NoMissedWakeup
  BY DEF WakeupInv
<1>2. QED
  BY <1>1, TypeInit, TypeNext, WakeupInit, WakeupNext, PTL DEF Spec
-----------------------------------------------------------------------------
(***************************************************************************)
(* No task is lost and none is run twice: a task that append() was called  *)
(* with is with one producer, or once in the queue, or was taken once.     *)
(* The first three conjuncts make each of the places hold it once, the     *)
(* others keep the places apart.                                           *)
(***************************************************************************)
Offered(t) == \E p \in Producers : ppc[p] # "out" /\ task[p] = t
Queued(t) == \E i \in 1..Len(queue) : queue[i] = t
Taken(t) == \E i \in 1..Len(taken) : taken[i] = t

OnePlace ==
  /\ \A p, q \in Producers : ppc[p] # "out" /\ ppc[q] # "out" /\ task[p] = task[q] => p = q
  /\ \A i, j \in 1..Len(queue) : queue[i] = queue[j] => i = j
  /\ \A i, j \in 1..Len(taken) : taken[i] = taken[j] => i = j
  /\ \A t \in Tasks : ~(Offered(t) /\ Queued(t)) /\ ~(Offered(t) /\ Taken(t)) /\ ~(Queued(t) /\ Taken(t))
  /\ \A t \in Tasks : t \in given <=> Offered(t) \/ Queued(t) \/ Taken(t)

LEMMA PlaceInit == Init => OnePlace
<1> SUFFICES ASSUME Init PROVE OnePlace
  OBVIOUS
<1>1. Len(queue) = 0 /\ Len(taken) = 0 /\ given = {} /\ \A p \in Producers : ppc[p] = "out"
  BY EmptySeq DEF Init
<1>2. QED
  BY <1>1 DEF OnePlace, Offered, Queued, Taken

LEMMA PlaceNext == TypeInv /\ OnePlace /\ [Next]_vars => OnePlace'
<1> SUFFICES ASSUME TypeInv, OnePlace, [Next]_vars PROVE OnePlace'
  OBVIOUS
<1> USE ThreadPoolAssumption DEF TypeInv, TypeOK, OnePlace
<1>1. ASSUME NEW c \in Consumers, Take(c) PROVE OnePlace'
  <2>1. /\ queue # <<>> /\ queue' = Tail(queue) /\ taken' = Append(taken, Head(queue))
        /\ task' = [task EXCEPT ![c] = Head(queue)] /\ ppc' = All(ppc) /\ UNCHANGED given
    BY <1>1 DEF Take, HasWork
  <2>2. /\ Len(queue') = Len(queue) - 1 /\ \A i \in 1..Len(queue') : queue'[i] = queue[i + 1]
        /\ Len(queue) \in Nat \ {0} /\ Head(queue) = queue[1] /\ Head(queue) \in Tasks
    BY <2>1, HeadTailProperties, EmptySeq
  <2>3. /\ Len(taken') = Len(taken) + 1 /\ Len(taken) \in Nat
        /\ taken'[Len(taken) + 1] = queue[1] /\ \A i \in 1..Len(taken) : taken'[i] = taken[i]
    BY <2>1, <2>2, AppendProperties, LenProperties
  <2>4. \A p \in Producers : task'[p] = task[p] /\ (ppc'[p] # "out" <=> ppc[p] # "out")
    <3>1. \A p \in Producers : ppc'[p] = IF ppc[p] = "asleep" THEN "awake" ELSE ppc[p]
      BY <2>1, PlacesOfThreads, AllProperties
    <3>2. QED
      BY <2>1, <3>1
  <2>5. \A t \in Tasks : Offered(t)' <=> Offered(t)
    BY <2>4 DEF Offered
  <2>6. \A t \in Tasks : Queued(t) <=> Queued(t)' \/ t = queue[1]
    <3> TAKE t \in Tasks
    <3>1. ASSUME NEW i \in 1..Len(queue), queue[i] = t, i # 1 PROVE Queued(t)'
      <4>1. i - 1 \in 1..Len(queue') /\ queue'[i - 1] = t
        BY <2>2, <3>1
      <4>2. QED
        BY <4>1 DEF Queued
    <3>2. ASSUME NEW i \in 1..Len(queue'), queue'[i] = t PROVE Queued(t)
      <4>1. i + 1 \in 1..Len(queue) /\ queue[i + 1] = t
        BY <2>2, <3>2
      <4>2. QED
        BY <4>1 DEF Queued
    <3>3. 1 \in 1..Len(queue)
      BY <2>2
    <3>4. QED
      BY <3>1, <3>2, <3>3 DEF Queued
  <2>7. \A t \in Tasks : t = queue[1] => ~Queued(t)'
    <3>1. ASSUME NEW i \in 1..Len(queue'), queue'[i] = queue[1] PROVE FALSE
      <4>1. i + 1 \in 1..Len(queue) /\ 1 \in 1..Len(queue) /\ queue[i + 1] = queue[1] /\ i + 1 # 1
        BY <2>2, <3>1
      <4>2. QED
        BY <4>1
    <3>2. QED
      BY <3>1 DEF Queued
  <2>8. \A t \in Tasks : Taken(t)' <=> Taken(t) \/ t = queue[1]
    <3> TAKE t \in Tasks
    <3>1. ASSUME NEW i \in 1..Len(taken), taken[i] = t PROVE Taken(t)'
      BY <2>3, <3>1 DEF Taken
    <3>2. ASSUME NEW i \in 1..Len(taken'), taken'[i] = t PROVE Taken(t) \/ t = queue[1]
      BY <2>3, <3>2 DEF Taken
    <3>3. Len(taken) + 1 \in 1..Len(taken')
      BY <2>3
    <3>4. QED
      BY <2>3, <3>1, <3>2, <3>3 DEF Taken
  <2>9. Queued(queue[1]) /\ ~Taken(queue[1])
    BY <2>2, <2>6
  <2>10. \A i, j \in 1..Len(taken') : taken'[i] = taken'[j] => i = j
    BY <2>3, <2>9 DEF Taken
  <2>11. \A i, j \in 1..Len(queue') : queue'[i] = queue'[j] => i = j
    BY <2>2
  <2>12. \A p, q \in Producers :
           ppc'[p] # "out" /\ ppc'[q] # "out" /\ task'[p] = task'[q] => p = q
    BY <2>4
  <2>13. \A t \in Tasks :
           /\ ~(Offered(t) /\ Queued(t))' /\ ~(Offered(t) /\ Taken(t))' /\ ~(Queued(t) /\ Taken(t))'
           /\ (t \in given <=> Offered(t) \/ Queued(t) \/ Taken(t))'
    BY <2>1, <2>5, <2>6, <2>7, <2>8, <2>9
  <2>14. QED
    BY <2>10, <2>11, <2>12, <2>13
<1>2. ASSUME NEW p \in Producers, NEW t \in Tasks, CallAppend(p, t) PROVE OnePlace'
  <2>1. /\ ppc[p] = "out" /\ t \notin given /\ given' = given \cup {t}
        /\ task' = [task EXCEPT ![p] = t] /\ ppc' = [ppc EXCEPT ![p] = "awake"]
        /\ UNCHANGED <<queue, taken>>
    BY <1>2 DEF CallAppend
  <2>2. \A u \in Tasks : Offered(u)' <=> Offered(u) \/ u = t
    BY <2>1 DEF Offered
  <2>3. ~Offered(t) /\ ~Queued(t) /\ ~Taken(t)
    BY <2>1
  <2>4. \A u \in Tasks : (Queued(u)' <=> Queued(u)) /\ (Taken(u)' <=> Taken(u))
    BY <2>1 DEF Queued, Taken
  <2>5. \A q, r \in Producers :
          ppc'[q] # "out" /\ ppc'[r] # "out" /\ task'[q] = task'[r] => q = r
    BY <2>1, <2>3 DEF Offered
  <2>6. QED
    BY <2>1, <2>2, <2>3, <2>4, <2>5
<1>3. ASSUME NEW p \in Producers, Add(p) PROVE OnePlace'
  <2>1. /\ ppc[p] = "awake" /\ task[p] \in Tasks
        /\ queue' = Append(queue, task[p])
        /\ ppc' = [ppc EXCEPT ![p] = "out"] /\ task' = [task EXCEPT ![p] = None]
        /\ UNCHANGED <<given, taken>>
    BY <1>3 DEF Add, HasTask
  <2>2. /\ Len(queue') = Len(queue) + 1 /\ Len(queue) \in Nat
        /\ queue'[Len(queue) + 1] = task[p] /\ \A i \in 1..Len(queue) : queue'[i] = queue[i]
    BY <2>1, AppendProperties, LenProperties
  <2>3. Offered(task[p]) /\ ~Queued(task[p]) /\ ~Taken(task[p])
    BY <2>1 DEF Offered
  <2>4. \A t \in Tasks : Offered(t)' <=> Offered(t) /\ t # task[p]
    BY <2>1 DEF Offered
  <2>5. \A t \in Tasks : Queued(t)' <=> Queued(t) \/ t = task[p]
    <3> TAKE t \in Tasks
    <3>1. ASSUME NEW i \in 1..Len(queue), queue[i] = t PROVE Queued(t)'
      BY <2>2, <3>1 DEF Queued
    <3>2. ASSUME NEW i \in 1..Len(queue'), queue'[i] = t PROVE Queued(t) \/ t = task[p]
      BY <2>2, <3>2 DEF Queued
    <3>3. Len(queue) + 1 \in 1..Len(queue')
      BY <2>2
    <3>4. QED
      BY <2>2, <3>1, <3>2, <3>3 DEF Queued
  <2>6. \A t \in Tasks : Taken(t)' <=> Taken(t)
    BY <2>1 DEF Taken
  <2>7. \A i, j \in 1..Len(queue') : queue'[i] = queue'[j] => i = j
    BY <2>2, <2>3, SMTT(20) DEF Queued
  <2>8. \A q, r \in Producers :
          ppc'[q] # "out" /\ ppc'[r] # "out" /\ task'[q] = task'[r] => q = r
    BY <2>1
  <2>9. QED
    BY <2>1, <2>3, <2>4, <2>5, <2>6, <2>7, <2>8
<1>4. ASSUME UNCHANGED <<queue, taken, given>>,
             \A p \in Producers : task'[p] = task[p] /\ (ppc'[p] # "out" <=> ppc[p] # "out")
      PROVE  OnePlace'
  <2>1. \A t \in Tasks :
          (Offered(t)' <=> Offered(t)) /\ (Queued(t)' <=> Queued(t)) /\ (Taken(t)' <=> Taken(t))
    BY <1>4 DEF Offered, Queued, Taken
  <2>2. \A p, q \in Producers :
          ppc'[p] # "out" /\ ppc'[q] # "out" /\ task'[p] = task'[q] => p = q
    BY <1>4
  <2>3. QED
    BY <1>4, <2>1, <2>2
<1>5. ASSUME NEW c \in Consumers, TestRunning(c) \/ WaitForWork(c) PROVE OnePlace'
  BY <1>4, <1>5 DEF TestRunning, WaitForWork
<1>6. ASSUME NEW c \in Consumers, Finish(c) PROVE OnePlace'
  <2>1. \A p \in Producers : task'[p] = task[p]
    BY <1>6 DEF Finish
  <2>2. QED
    BY <1>4, <1>6, <2>1 DEF Finish
<1>7. ASSUME NEW p \in Producers, WaitForRoom(p) PROVE OnePlace'
  BY <1>4, <1>7 DEF WaitForRoom
<1>8. CASE StoreRunning \/ NotifyConsumers \/ Join \/ UNCHANGED vars
  BY <1>4, <1>8 DEF StoreRunning, NotifyConsumers, Join, vars
<1>9. QED
  BY <1>1, <1>2, <1>3, <1>5, <1>6, <1>7, <1>8 DEF Next, ConsumerStep, ProducerStep

(***************************************************************************)
(* A task that append() was called with is run once at most, and until     *)
(* then it is with its producer or in the queue, however the threads wait  *)
(* and wake up (threadpool.cpp:37-49, 68-84).                              *)
(***************************************************************************)
THEOREM TasksRunOnce == Spec => []OnePlace
  BY TypeInit, TypeNext, PlaceInit, PlaceNext, PTL DEF Spec
=============================================================================
