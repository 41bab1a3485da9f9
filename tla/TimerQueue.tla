----------------------------- MODULE TimerQueue -----------------------------
(***************************************************************************)
(* mg::TimerQueue (src/src/timer-queue.cpp): the timers of one event loop. *)
(* Its functions run on the loop's thread; other threads add and cancel by *)
(* functors pushed to the loop, which is FIFO (module EventLoop).          *)
(*                                                                         *)
(* Timers live at addresses that are reused once they are freed; what the  *)
(* rest of the program holds of one is a TimerId, its address and its      *)
(* sequence number.  A unit of time is the 100 us resetTimerFd waits at    *)
(* least; the clock's last value stands for every later time.              *)
(***************************************************************************)
EXTENDS Naturals, Sequences

CONSTANTS
  Addrs,       (* Where timers can be allocated.                           *)
  Threads,     (* The threads that add and cancel from outside the loop.   *)
  MaxTimers,   (* Bound: timers ever made.                                 *)
  Delays,      (* What runAfter and runEvery are called with.              *)
  MaxTime      (* Bound: the clock's last value.                           *)

ASSUME TimerAssumption ==
  /\ Addrs # {}
  /\ MaxTimers \in Nat /\ MaxTime \in Nat \ {0}
  /\ Delays \subseteq Nat \ {0}
  /\ \E d \in Delays : \A e \in Delays : e <= d

VARIABLES
  now,         (* TimeStamp::now().                                        *)
  mem,         (* The Timer at each address.                               *)
  sequence,    (* timeSequence.                                            *)
  alarm,       (* When _timerFd becomes readable; 0 when disarmed.         *)
  list,        (* _list.                                                   *)
  activeTimers,           (* _activeTimers.                                *)
  isCallingExpiredTimers, (* _isCallingExpiredTimers.                      *)
  cancleingTimers,        (* _cancleingTimers.                             *)
  expired,     (* handleRead's vector of expired entries.                  *)
  toRun,       (* The part of it that has not been called yet.             *)
  pending,     (* Functors of addTimer and cancel in the loop's queue.     *)
  adding,      (* Per thread: the timer addTimer has pushed, or NoId.      *)
  issued,      (* The TimerIds addTimer has returned.                      *)
  ran,         (* History: the ids whose callback was called.              *)
  cancelled,   (* History: the TimerIds cancelInOwnerLoop was called with, *)
  missed       (* and those of them whose add was still queued then.       *)

queueVars == <<list, activeTimers, isCallingExpiredTimers, cancleingTimers, expired, toRun>>
threadVars == <<adding, issued>>
vars == <<now, mem, sequence, alarm, queueVars, pending, threadVars, ran, cancelled, missed>>

Freed == [id |-> 0, expiration |-> 0, interval |-> 0]
NoId == [at |-> CHOOSE a \in Addrs : TRUE, id |-> 0]

Ids == [at : Addrs, id : 0..MaxTimers]
Entry(a) == [when |-> mem[a].expiration, at |-> a]
IdAt(a) == [at |-> a, id |-> mem[a].id]

Init ==
  /\ now = 1
  /\ mem = [a \in Addrs |-> Freed]
  /\ sequence = 0
  /\ alarm = 0
  /\ list = {} /\ activeTimers = {}
  /\ isCallingExpiredTimers = FALSE
  /\ cancleingTimers = {} /\ expired = {} /\ toRun = {}
  /\ pending = <<>>
  /\ adding = [th \in Threads |-> NoId]
  /\ issued = {}
  /\ ran = {} /\ cancelled = {} /\ missed = {}

-----------------------------------------------------------------------------
Later(s, t) == IF s < t THEN t ELSE s

(* Mutants of Armed: a time already past disarms the descriptor; a time is *)
(* taken for a delay.                                                      *)
ArmedExactly(time) == IF time > now THEN time ELSE 0

ArmedAfter(time) == now + time

(* resetTimerFd.                                                           *)
Armed(time) == Later(time, now + 1)

(* new Timer(callback, now + delay, interval); runAfter has no interval.   *)
Allocate(a, delay, interval) ==
  /\ mem[a] = Freed
  /\ sequence < MaxTimers
  /\ sequence' = sequence + 1
  /\ mem' = [mem EXCEPT ![a] =
       [id |-> sequence + 1, expiration |-> now + delay, interval |-> interval]]

(* insert() says the timer is the first to expire.                         *)
IsFirst(entry) == \A x \in list : entry.when < x.when

(* addTimerInOwnerLoop, of the timer that has this entry.                  *)
AddTimerInOwnerLoop(entry, id) ==
  /\ list' = list \cup {entry}
  /\ activeTimers' = activeTimers \cup {id}
  /\ alarm' = IF IsFirst(entry) THEN Armed(entry.when) ELSE alarm
  /\ UNCHANGED <<isCallingExpiredTimers, cancleingTimers, expired, toRun>>

(* Mutant of Matching: timers are told apart by their address alone.       *)
MatchingAddress(id) == {x \in activeTimers : x.at = id.at}

(* _activeTimers.find                                                      *)
Matching(id) == activeTimers \cap {id}

IsQueued(id) == \E i \in 1..Len(pending) : pending[i] = [op |-> "add", id |-> id]

CancelInOwnerLoop(id) ==
  LET found == Matching(id)
      at == {x.at : x \in found}
  IN  /\ list' = list \ {Entry(a) : a \in at}
      /\ mem' = [a \in Addrs |-> IF a \in at THEN Freed ELSE mem[a]]
      /\ activeTimers' = activeTimers \ found
      /\ cancleingTimers' = IF found = {} /\ isCallingExpiredTimers
                            THEN cancleingTimers \cup {id} ELSE cancleingTimers
      /\ cancelled' = cancelled \cup {id}
      /\ missed' = IF IsQueued(id) THEN missed \cup {id} ELSE missed
      /\ UNCHANGED <<sequence, alarm, isCallingExpiredTimers, expired, toRun>>

-----------------------------------------------------------------------------
(* runAfter and runEvery called by the owner.                              *)
OwnerAdds ==
  \E a \in Addrs, d \in Delays :
    \E interval \in {0, d} :
      /\ Allocate(a, d, interval)
      /\ AddTimerInOwnerLoop([when |-> now + d, at |-> a], [at |-> a, id |-> sequence + 1])
      /\ issued' = issued \cup {[at |-> a, id |-> sequence + 1]}
      /\ UNCHANGED <<pending, adding, cancelled, missed>>

OwnerCancels ==
  \E id \in issued : CancelInOwnerLoop(id) /\ UNCHANGED <<pending, threadVars>>

(* The owner, in a functor or in the callback of another channel.          *)
OwnerCalls ==
  /\ ~isCallingExpiredTimers
  /\ OwnerAdds \/ OwnerCancels
  /\ UNCHANGED <<now, ran>>

-----------------------------------------------------------------------------
(* addTimer on another thread: after the push it reads the timer's         *)
(* sequence number for the TimerId it returns.                             *)
OtherAdds(th) ==
  /\ adding[th] = NoId
  /\ \E a \in Addrs, d \in Delays :
       \E interval \in {0, d} :
         LET id == [at |-> a, id |-> sequence + 1]
         IN  /\ Allocate(a, d, interval)
             /\ pending' = Append(pending, [op |-> "add", id |-> id])
             /\ adding' = [adding EXCEPT ![th] = id]
  /\ UNCHANGED <<now, alarm, queueVars, issued, ran, cancelled, missed>>

ReturnTimerId(th) ==
  /\ adding[th] # NoId
  /\ issued' = issued \cup {IdAt(adding[th].at)}
  /\ adding' = [adding EXCEPT ![th] = NoId]
  /\ UNCHANGED <<now, mem, sequence, alarm, queueVars, pending, ran, cancelled, missed>>

OtherCancels(id) ==
  /\ \A i \in 1..Len(pending) : pending[i] # [op |-> "cancel", id |-> id]
  /\ pending' = Append(pending, [op |-> "cancel", id |-> id])
  /\ UNCHANGED <<now, mem, sequence, alarm, queueVars, threadVars, ran, cancelled, missed>>

(* The loop runs the functor in front.                                     *)
RunPending ==
  /\ ~isCallingExpiredTimers
  /\ pending # <<>>
  /\ LET f == Head(pending)
     IN  \/ /\ f.op = "add"
            /\ AddTimerInOwnerLoop(Entry(f.id.at), IdAt(f.id.at))
            /\ UNCHANGED <<mem, sequence, cancelled, missed>>
         \/ f.op = "cancel" /\ CancelInOwnerLoop(f.id)
  /\ pending' = Tail(pending)
  /\ UNCHANGED <<now, threadVars, ran>>

-----------------------------------------------------------------------------
(* _timerFd is readable.                                                   *)
Due == alarm # 0 /\ (alarm <= now \/ now = MaxTime)

(* Mutant of HandleRead: the expired entries stay in _activeTimers.        *)
HandleReadKeepsActive ==
  /\ Due /\ ~isCallingExpiredTimers
  /\ LET due == {x \in list : x.when < now}
     IN  /\ expired' = due /\ toRun' = due
         /\ list' = list \ due
  /\ alarm' = 0
  /\ isCallingExpiredTimers' = TRUE
  /\ cancleingTimers' = {}
  /\ UNCHANGED <<now, mem, sequence, activeTimers, pending, threadVars, ran, cancelled, missed>>

(* handleRead up to the first callback.  upper_bound((now, nullptr)) ends  *)
(* before the entries of the present moment.                               *)
HandleRead ==
  /\ Due /\ ~isCallingExpiredTimers
  /\ LET due == {x \in list : x.when < now}
     IN  /\ expired' = due /\ toRun' = due
         /\ list' = list \ due
         /\ activeTimers' = activeTimers \ {IdAt(x.at) : x \in due}
  /\ alarm' = 0
  /\ isCallingExpiredTimers' = TRUE
  /\ cancleingTimers' = {}
  /\ UNCHANGED <<now, mem, sequence, pending, threadVars, ran, cancelled, missed>>

(* The callback of the next expired timer, which may call the timer queue. *)
RunTimer ==
  /\ isCallingExpiredTimers
  /\ \E x \in toRun :
       /\ \A y \in toRun : x.when <= y.when
       /\ toRun' = toRun \ {x}
       /\ ran' = ran \cup {mem[x.at].id}
  /\ UNCHANGED <<now, mem, sequence, alarm, list, activeTimers, isCallingExpiredTimers,
                 cancleingTimers, expired, pending, threadVars, cancelled, missed>>

CallbackCalls ==
  /\ isCallingExpiredTimers
  /\ toRun # expired
  /\ OwnerAdds \/ OwnerCancels
  /\ UNCHANGED <<now, ran>>

Repeats(x) == mem[x.at].interval > 0 /\ IdAt(x.at) \notin cancleingTimers

(* Mutant of Reset: the descriptor is armed only by addTimerInOwnerLoop.   *)
ResetUnarmed ==
  /\ isCallingExpiredTimers /\ toRun = {}
  /\ LET again == {x \in expired : Repeats(x)}
         gone == {x.at : x \in expired \ again}
         repeated == {[when |-> now + mem[x.at].interval, at |-> x.at] : x \in again}
     IN  /\ mem' = [a \in Addrs |->
              IF a \in gone THEN Freed
              ELSE IF \E x \in again : x.at = a
                   THEN [mem[a] EXCEPT !.expiration = now + mem[a].interval]
                   ELSE mem[a]]
         /\ list' = list \cup repeated
         /\ activeTimers' = activeTimers \cup {IdAt(x.at) : x \in again}
  /\ isCallingExpiredTimers' = FALSE
  /\ expired' = {}
  /\ UNCHANGED <<now, sequence, alarm, cancleingTimers, toRun, pending, threadVars, ran, cancelled, missed>>

(* reset(): repeated timers go back, the others are deleted, and the       *)
(* descriptor is armed for the first entry.                                *)
Reset ==
  /\ isCallingExpiredTimers /\ toRun = {}
  /\ LET again == {x \in expired : Repeats(x)}
         gone == {x.at : x \in expired \ again}
         repeated == {[when |-> now + mem[x.at].interval, at |-> x.at] : x \in again}
     IN  /\ mem' = [a \in Addrs |->
              IF a \in gone THEN Freed
              ELSE IF \E x \in again : x.at = a
                   THEN [mem[a] EXCEPT !.expiration = now + mem[a].interval]
                   ELSE mem[a]]
         /\ list' = list \cup repeated
         /\ activeTimers' = activeTimers \cup {IdAt(x.at) : x \in again}
  /\ alarm' = IF list' = {} THEN alarm
              ELSE Armed((CHOOSE x \in list' : \A y \in list' : x.when <= y.when).when)
  /\ isCallingExpiredTimers' = FALSE
  /\ expired' = {}
  /\ UNCHANGED <<now, sequence, cancleingTimers, toRun, pending, threadVars, ran, cancelled, missed>>

Tick ==
  /\ now < MaxTime
  /\ now' = now + 1
  /\ UNCHANGED <<mem, sequence, alarm, queueVars, pending, threadVars, ran, cancelled, missed>>

LoopStep == RunPending \/ HandleRead \/ RunTimer \/ Reset

Next ==
  \/ LoopStep
  \/ OwnerCalls
  \/ CallbackCalls
  \/ \E th \in Threads : OtherAdds(th) \/ ReturnTimerId(th)
  \/ \E id \in issued : OtherCancels(id)
  \/ Tick

Spec == Init /\ [][Next]_vars

(* The loop runs what it has to run and time passes; nobody has to add or  *)
(* cancel.  A callback ends, whatever it calls.                            *)
FairSpec ==
  Spec /\ WF_vars(Tick) /\ WF_vars(RunPending)
       /\ WF_vars(HandleRead) /\ WF_vars(RunTimer) /\ WF_vars(Reset)
-----------------------------------------------------------------------------
Horizon == MaxTime + CHOOSE d \in Delays : \A e \in Delays : e <= d

Entries == [when : 1..Horizon, at : Addrs]

TypeOK ==
  /\ now \in 1..MaxTime
  /\ mem \in [Addrs -> [id : 0..MaxTimers, expiration : 0..Horizon, interval : Delays \cup {0}]]
  /\ sequence \in 0..MaxTimers
  /\ alarm \in 0..Horizon
  /\ list \subseteq Entries /\ activeTimers \subseteq Ids
  /\ isCallingExpiredTimers \in BOOLEAN
  /\ cancleingTimers \subseteq Ids
  /\ expired \subseteq Entries /\ toRun \subseteq expired
  /\ pending \in Seq([op : {"add", "cancel"}, id : Ids])
  /\ adding \in [Threads -> Ids]
  /\ issued \subseteq Ids
  /\ ran \subseteq 0..MaxTimers
  /\ missed \subseteq cancelled /\ cancelled \subseteq Ids

(***************************************************************************)
(* The two indexes hold the same timers, each of them alive, through       *)
(* every cancellation and repetition; the assertion of                     *)
(* timer-queue.cpp:120 compares their sizes.                               *)
(***************************************************************************)
IndexesAgree ==
  /\ list = {Entry(x.at) : x \in activeTimers}
  /\ \A x \in activeTimers : IdAt(x.at) = x

(***************************************************************************)
(* The raw pointers of handleRead's vector stay valid whatever the         *)
(* callbacks cancel, and so do those of the queued addTimerInOwnerLoop     *)
(* (timer-queue.cpp:61-67, 35).                                            *)
(***************************************************************************)
PointersAlive ==
  /\ \A x \in expired : mem[x.at].id # 0 /\ IdAt(x.at) \notin activeTimers
  /\ \A i \in 1..Len(pending) :
       pending[i].op = "add" => IdAt(pending[i].id.at) = pending[i].id

(***************************************************************************)
(* Between two rounds the descriptor is armed, and no later than the first *)
(* timer needs, whatever order timers were added, cancelled and repeated   *)
(* in (timer-queue.cpp:52-53, 99-103).                                     *)
(***************************************************************************)
ArmedInTime ==
  ~isCallingExpiredTimers =>
    \A x \in list : alarm # 0 /\ alarm <= Later(x.when, now + 1)

(***************************************************************************)
(* A cancelled timer is never scheduled again, also when it is cancelled   *)
(* from the callbacks of its own round (timer-queue.cpp:90, 129-130).      *)
(***************************************************************************)
CancelHolds ==
  isCallingExpiredTimers \/ \A id \in cancelled \ missed : id \notin activeTimers

(***************************************************************************)
(* What the two indexes and the vector of a round point to is alive, and   *)
(* not cancelled.                                                          *)
(***************************************************************************)
QueueIsSound == IndexesAgree /\ PointersAlive /\ CancelHolds

(***************************************************************************)
(* A TimerId that outlives its timer cancels no other, although addresses  *)
(* are reused: a timer leaves the queue by expiring or by its own id       *)
(* (timer-queue.cpp:121-122); and the callback of a timer made by runAt or *)
(* runAfter is called once (timer-queue.cpp:90-96).                        *)
(***************************************************************************)
TimersEndRightly ==
  [][/\ \A id \in activeTimers \ activeTimers' :
          id \in cancelled' \/ \E x \in expired' : x.at = id.at
     /\ \A x \in toRun \ toRun' : mem[x.at].interval = 0 => mem[x.at].id \notin ran]_vars

(***************************************************************************)
(* A scheduled timer is called or cancelled: no round leaves the           *)
(* descriptor disarmed (timer-queue.cpp:56-104).                           *)
(***************************************************************************)
EveryTimerRuns ==
  \A n \in 1..MaxTimers :
    (\E x \in activeTimers : x.id = n /\ mem[x.at].expiration < MaxTime)
      ~> n \in ran \/ \E id \in cancelled : id.id = n
=============================================================================
