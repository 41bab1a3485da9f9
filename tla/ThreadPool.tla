----------------------------- MODULE ThreadPool -----------------------------
(***************************************************************************)
(* mg::ThreadPool (src/src/threadpool.cpp): producers append tasks to a    *)
(* bounded queue, consumer threads take them, two condition variables keep *)
(* them apart.  The pool has at least one thread: without any, append()    *)
(* runs the task itself.                                                   *)
(*                                                                         *)
(* A thread that waits on a condition is "asleep" until it is notified and *)
(* "awake" until it has the mutex and looks at the predicate.              *)
(***************************************************************************)
EXTENDS Naturals, Sequences

CONSTANTS
  Consumers,      (* The threads of the pool.                              *)
  Producers,      (* The threads that call append().                       *)
  Tasks,          (* Each is appended at most once.                        *)
  None,
  MaxQueueSize    (* _maxQueueSize.                                        *)

ASSUME ThreadPoolAssumption ==
  /\ Consumers # {}
  /\ Consumers \cap Producers = {}
  /\ None \notin Tasks
  /\ MaxQueueSize \in Nat \ {0}

VARIABLES
  running,        (* _running.                                             *)
  queue,          (* _taskQueue.                                           *)
  cpc,            (* Where each consumer is in threadTask().               *)
  task,           (* The task each consumer runs or producer appends.      *)
  ppc,            (* Where each producer is in append().                   *)
  stopper,        (* Where the thread that calls stop() is.                *)
  given,          (* History: the tasks append() was called with.          *)
  taken           (* History: the tasks consumers took, in order.          *)

vars == <<running, queue, cpc, task, ppc, stopper, given, taken>>

Init ==
  /\ running = TRUE
  /\ queue = <<>>
  /\ cpc = [c \in Consumers |-> "test"]
  /\ task = [t \in Consumers \cup Producers |-> None]
  /\ ppc = [p \in Producers |-> "out"]
  /\ stopper = "out"
  /\ given = {}
  /\ taken = <<>>

(* What notify_one and notify_all may do to the threads asleep.            *)
One(places) ==
  LET asleep == {t \in DOMAIN places : places[t] = "asleep"}
  IN  IF asleep = {} THEN {places}
      ELSE {[places EXCEPT ![t] = "awake"] : t \in asleep}

All(places) ==
  [t \in DOMAIN places |-> IF places[t] = "asleep" THEN "awake" ELSE places[t]]

-----------------------------------------------------------------------------
(* append().                                                               *)
CallAppend(p, t) ==
  /\ ppc[p] = "out"
  /\ t \notin given
  /\ given' = given \cup {t}
  /\ task' = [task EXCEPT ![p] = t]
  /\ ppc' = [ppc EXCEPT ![p] = "awake"]
  /\ UNCHANGED <<running, queue, cpc, stopper, taken>>

HasRoom == Len(queue) < MaxQueueSize

(* Mutant of Add: the consumer is not notified.                            *)
AddSilently(p) ==
  /\ ppc[p] = "awake" /\ HasRoom
  /\ queue' = Append(queue, task[p])
  /\ ppc' = [ppc EXCEPT ![p] = "out"]
  /\ task' = [task EXCEPT ![p] = None]
  /\ UNCHANGED <<running, cpc, stopper, given, taken>>

Add(p) ==
  /\ ppc[p] = "awake" /\ HasRoom
  /\ queue' = Append(queue, task[p])
  /\ cpc' \in One(cpc)
  /\ ppc' = [ppc EXCEPT ![p] = "out"]
  /\ task' = [task EXCEPT ![p] = None]
  /\ UNCHANGED <<running, stopper, given, taken>>

(* Mutant of WaitForRoom: "if" for "while", the task is pushed anyway.     *)
WaitForRoomOnce(p) ==
  /\ ppc[p] = "awake" /\ ~HasRoom
  /\ queue' = Append(queue, task[p])
  /\ ppc' = [ppc EXCEPT ![p] = "out"]
  /\ task' = [task EXCEPT ![p] = None]
  /\ UNCHANGED <<running, cpc, stopper, given, taken>>

WaitForRoom(p) ==
  /\ ppc[p] = "awake" /\ ~HasRoom
  /\ ppc' = [ppc EXCEPT ![p] = "asleep"]
  /\ UNCHANGED <<running, queue, cpc, task, stopper, given, taken>>

-----------------------------------------------------------------------------
(* threadTask().                                                           *)
TestRunning(c) ==
  /\ cpc[c] = "test"
  /\ cpc' = [cpc EXCEPT ![c] = IF running THEN "awake" ELSE "exited"]
  /\ UNCHANGED <<running, queue, task, ppc, stopper, given, taken>>

HasWork == queue # <<>> /\ running

(* Mutant of Take: the producers are not notified.                         *)
TakeSilently(c) ==
  /\ cpc[c] = "awake" /\ HasWork
  /\ task' = [task EXCEPT ![c] = Head(queue)]
  /\ taken' = Append(taken, Head(queue))
  /\ queue' = Tail(queue)
  /\ cpc' = [cpc EXCEPT ![c] = "running"]
  /\ UNCHANGED <<running, ppc, stopper, given>>

Take(c) ==
  /\ cpc[c] = "awake" /\ HasWork
  /\ task' = [task EXCEPT ![c] = Head(queue)]
  /\ taken' = Append(taken, Head(queue))
  /\ queue' = Tail(queue)
  /\ ppc' = All(ppc)
  /\ cpc' = [cpc EXCEPT ![c] = "running"]
  /\ UNCHANGED <<running, stopper, given>>

WaitForWork(c) ==
  /\ cpc[c] = "awake" /\ ~HasWork
  /\ cpc' = [cpc EXCEPT ![c] = "asleep"]
  /\ UNCHANGED <<running, queue, task, ppc, stopper, given, taken>>

Finish(c) ==
  /\ cpc[c] = "running"
  /\ cpc' = [cpc EXCEPT ![c] = "test"]
  /\ task' = [task EXCEPT ![c] = None]
  /\ UNCHANGED <<running, queue, ppc, stopper, given, taken>>

-----------------------------------------------------------------------------
(* stop(): the store, the notification under the mutex, the joins.         *)
StoreRunning ==
  /\ stopper = "out"
  /\ running' = FALSE
  /\ stopper' = "stored"
  /\ UNCHANGED <<queue, cpc, task, ppc, given, taken>>

NotifyConsumers ==
  /\ stopper = "stored"
  /\ cpc' = All(cpc)
  /\ stopper' = "joining"
  /\ UNCHANGED <<running, queue, task, ppc, given, taken>>

Join ==
  /\ stopper = "joining"
  /\ \A c \in Consumers : cpc[c] = "exited"
  /\ stopper' = "done"
  /\ UNCHANGED <<running, queue, cpc, task, ppc, given, taken>>

ConsumerStep(c) == TestRunning(c) \/ Take(c) \/ WaitForWork(c) \/ Finish(c)

ProducerStep(p) == Add(p) \/ WaitForRoom(p)

Next ==
  \/ \E c \in Consumers : ConsumerStep(c)
  \/ \E p \in Producers : ProducerStep(p) \/ \E t \in Tasks : CallAppend(p, t)
  \/ StoreRunning \/ NotifyConsumers \/ Join

Spec == Init /\ [][Next]_vars

(* Threads that can run do, tasks return; nobody has to append or stop.    *)
(* A mutex serves its waiters: an awake thread gets it in the end, however *)
(* often others take it in between.                                        *)
Fairness ==
  /\ \A c \in Consumers : WF_vars(ConsumerStep(c))
  /\ \A p \in Producers : WF_vars(ProducerStep(p)) /\ SF_vars(Add(p))
  /\ WF_vars(NotifyConsumers \/ Join)

FairSpec == Spec /\ Fairness

-----------------------------------------------------------------------------
(***************************************************************************)
(* The types, and the limit of the queue: it is never exceeded, although   *)
(* producers re-test it after every wakeup of them all                     *)
(* (threadpool.cpp:44-46).                                                 *)
(***************************************************************************)
TypeOK ==
  /\ running \in BOOLEAN
  /\ queue \in Seq(Tasks) /\ Len(queue) <= MaxQueueSize
  /\ cpc \in [Consumers -> {"test", "awake", "asleep", "running", "exited"}]
  /\ task \in [Consumers \cup Producers -> Tasks \cup {None}]
  /\ ppc \in [Producers -> {"out", "awake", "asleep"}]
  /\ stopper \in {"out", "stored", "joining", "done"}
  /\ given \subseteq Tasks
  /\ taken \in Seq(Tasks)

(* While the pool runs, a queued task has a consumer to take it: one is    *)
(* awake, on its way to the test, or running a task.                       *)
WorkHasConsumer ==
  running /\ queue # <<>> =>
    \E c \in Consumers : cpc[c] \in {"awake", "test", "running"}

(* While there is room no producer sleeps: every take wakes them all.      *)
RoomWakesProducers ==
  HasRoom => \A p \in Producers : ppc[p] # "asleep"

(***************************************************************************)
(* No wakeup is missing: a running pool leaves neither a task without a    *)
(* consumer to take it nor a producer asleep beside the room it waits for  *)
(* (threadpool.cpp:44-47, 73-79).                                          *)
(***************************************************************************)
NoMissedWakeup == WorkHasConsumer /\ RoomWakesProducers

(***************************************************************************)
(* A task handed to append() is run, unless the pool stops                 *)
(* (threadpool.cpp:37-49, 68-84).                                          *)
(***************************************************************************)
EveryTaskRuns ==
  \A t \in Tasks :
    t \in given ~> ~running \/ \E i \in 1..Len(taken) : taken[i] = t
=============================================================================
