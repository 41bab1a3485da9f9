------------------------ MODULE MysqlConnectionPool ------------------------
(***************************************************************************)
(* mg::MysqlConnectionPool (src/src/mysql-connection-pool.cpp): threads    *)
(* borrow database connections, waiting up to 500 ms on a condition        *)
(* variable; a shared_ptr deleter gives them back; timers of the pool's    *)
(* own loop grow and shrink it.  Every critical section of _mutex is one   *)
(* step; waiting on the condition splits getHandle in two.                 *)
(***************************************************************************)
EXTENDS Naturals, Sequences, FiniteSets, SequencesExt

CONSTANTS
  Clients,     (* Threads that call getHandle().                           *)
  Handles,     (* Database connections; bounds how many are ever open.     *)
  None,
  MinSize,     (* _minsize.                                                *)
  MaxSize      (* _maxsize.                                                *)

ASSUME PoolAssumption ==
  /\ IsFiniteSet(Handles) /\ None \notin Handles
  /\ MinSize \in Nat \ {0}
  /\ MaxSize \in Nat /\ MinSize <= MaxSize

VARIABLES
  queue,       (* _queue: the idle connections, oldest first.              *)
  total,       (* _totalsize.                                              *)
  held,        (* The connection each client has a shared_ptr to.          *)
  pc           (* Where each client is in getHandle().                     *)

mysqlVars == <<queue, total, held, pc>>

(* "undefined": the client has called front() and pop() on an empty queue. *)
Places == {"out", "waiting", "notified", "using", "refused", "undefined"}

Idle == ToSet(queue)
Held == {held[c] : c \in Clients} \ {None}
Free == Handles \ (Idle \cup Held)
Waiting == {c \in Clients : pc[c] = "waiting"}
Defined == \A c \in Clients : pc[c] # "undefined"

(* start(): addInitial() on the empty pool, all its connects succeeding.   *)
MysqlInit ==
  /\ queue \in {s \in [1..MinSize -> Handles] : IsInjective(s)}
  /\ total = MinSize
  /\ held = [c \in Clients |-> None]
  /\ pc = [c \in Clients |-> "out"]

(* notify_one: some waiter, if there is one.                               *)
NotifyOne(places) ==
  LET sleeping == {c \in Clients : places[c] = "waiting"}
  IN  IF sleeping = {} THEN pc' = places
      ELSE \E c \in sleeping : pc' = [places EXCEPT ![c] = "notified"]

-----------------------------------------------------------------------------
(* Mutant of Take: the connection is not popped.                           *)
TakeWithoutPop(c) ==
  IF queue = <<>>
  THEN /\ pc' = [pc EXCEPT ![c] = "undefined"]
       /\ UNCHANGED <<queue, held>>
  ELSE /\ held' = [held EXCEPT ![c] = Head(queue)]
       /\ pc' = [pc EXCEPT ![c] = "using"]
       /\ UNCHANGED queue

(* getHandle from line 97 on: front() and pop(), whatever is in the queue. *)
Take(c) ==
  IF queue = <<>>
  THEN /\ pc' = [pc EXCEPT ![c] = "undefined"]
       /\ UNCHANGED <<queue, held>>
  ELSE /\ held' = [held EXCEPT ![c] = Head(queue)]
       /\ queue' = Tail(queue)
       /\ pc' = [pc EXCEPT ![c] = "using"]

GetHandle(c) ==
  /\ pc[c] = "out"
  /\ IF queue = <<>>
     THEN /\ pc' = [pc EXCEPT ![c] = "waiting"]
          /\ UNCHANGED <<queue, held>>
     ELSE Take(c)
  /\ UNCHANGED total

(* wait_for returns no_timeout.  (A spurious wakeup, which the standard    *)
(* allows too, would be WakeUp from "waiting".)                            *)
WakeUp(c) ==
  /\ pc[c] = "notified"
  /\ Take(c)
  /\ UNCHANGED total

(* 500 ms have passed, whether or not somebody notified in the meantime.   *)
TimeOut(c) ==
  /\ pc[c] \in {"waiting", "notified"}
  /\ pc' = [pc EXCEPT ![c] = "refused"]
  /\ UNCHANGED <<queue, total, held>>

GiveUp(c) ==
  /\ pc[c] = "refused"
  /\ pc' = [pc EXCEPT ![c] = "out"]
  /\ UNCHANGED <<queue, total, held>>

(* Mutant of Release: the handle is reset before it is queued.             *)
ReleaseReset(c) ==
  /\ pc[c] = "using"
  /\ queue' = Append(queue, None)
  /\ held' = [held EXCEPT ![c] = None]
  /\ NotifyOne([pc EXCEPT ![c] = "out"])
  /\ UNCHANGED total

(* The deleter of the shared_ptr.                                          *)
Release(c) ==
  /\ pc[c] = "using"
  /\ queue' = Append(queue, held[c])
  /\ held' = [held EXCEPT ![c] = None]
  /\ NotifyOne([pc EXCEPT ![c] = "out"])
  /\ UNCHANGED total

-----------------------------------------------------------------------------
(* addInitial(): n connects of the len wanted succeed before one fails.    *)
Wanted == MinSize - Len(queue)

Open(n) ==
  /\ n <= Cardinality(Free)
  /\ \E new \in {s \in [1..n -> Free] : IsInjective(s)} : queue' = queue \o new
  /\ total' = total + n

MayAdd == queue = <<>> /\ total <= MaxSize

(* add(), on a timer: notifies one waiter even if nothing could be opened. *)
Add ==
  /\ MayAdd
  /\ \E n \in 0..Wanted : Open(n)
  /\ NotifyOne(pc)
  /\ UNCHANGED held

(* Mutant of RemoveIdle: _totalsize is left alone.                         *)
RemoveIdleUncounted ==
  /\ Len(queue) > MinSize
  /\ \E n \in 1..(Len(queue) - MinSize) : queue' = SubSeq(queue, n + 1, Len(queue))
  /\ UNCHANGED <<total, held, pc>>

(* remove(), on a timer: closes the oldest that have idled too long.       *)
RemoveIdle ==
  /\ Len(queue) > MinSize
  /\ \E n \in 1..(Len(queue) - MinSize) :
       /\ queue' = SubSeq(queue, n + 1, Len(queue))
       /\ total' = total - n
  /\ UNCHANGED <<held, pc>>

ClientStep(c) == GetHandle(c) \/ WakeUp(c) \/ TimeOut(c) \/ GiveUp(c) \/ Release(c)

MysqlNext ==
  /\ Defined
  /\ \/ \E c \in Clients : ClientStep(c)
     \/ Add
     \/ RemoveIdle

MysqlSpec == MysqlInit /\ [][MysqlNext]_mysqlVars

-----------------------------------------------------------------------------
MysqlTypeOK ==
  /\ queue \in Seq(Handles)
  /\ total \in Nat
  /\ held \in [Clients -> Handles \cup {None}]
  /\ pc \in [Clients -> Places]

(***************************************************************************)
(* A database connection is never shared: it is idle, or borrowed by one   *)
(* client, and idle at most once (mysql-connection-pool.cpp:97-106).       *)
(***************************************************************************)
ExclusiveUse ==
  /\ IsInjective(queue)
  /\ \A c \in Clients : held[c] # None => held[c] \notin Idle
  /\ \A c, d \in Clients : held[c] = held[d] /\ c # d => held[c] = None

(***************************************************************************)
(* _totalsize counts the idle and the borrowed connections, through every  *)
(* order of timers, releases and failed connects                           *)
(* (mysql-connection-pool.cpp:121, 149); and the pool grows no further     *)
(* than by one add() over its limit, which tests the size before it opens  *)
(* _minsize more (mysql-connection-pool.cpp:129-131).                      *)
(***************************************************************************)
SizeIsCounted ==
  /\ total = Len(queue) + Cardinality(Held)
  /\ total <= MaxSize + MinSize

(***************************************************************************)
(* "Tell the waiting thread that a new connection is available"            *)
(* (mysql-connection-pool.cpp:102): a thread that wakes up finds one.      *)
(***************************************************************************)
NotifiedFindsOne == \A c \in Clients : pc[c] # "undefined"
=============================================================================
