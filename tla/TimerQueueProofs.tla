-------------------------- MODULE TimerQueueProofs --------------------------
(***************************************************************************)
(* Proofs about TimerQueue, for every number of timers, threads and        *)
(* addresses, all delays and every bound of the clock.                     *)
(***************************************************************************)
EXTENDS TimerQueue, SequenceTheorems, WellFoundedInduction, TLAPS

-----------------------------------------------------------------------------
(***************************************************************************)
(* The invariant.  A timer that is alive has a number of its own, and is   *)
(* in one of three places: with a functor that will add it, in the two     *)
(* indexes, or in the vector of the round.                                 *)
(***************************************************************************)
IsAdd(i) == pending[i].op = "add"

(* Numbers are given once, and what the program holds was given before.    *)
NumbersInv ==
  /\ \A a \in Addrs : mem[a].id # 0 => mem[a].expiration >= 1
  /\ \A a \in Addrs : mem[a].id <= sequence
  /\ \A a, b \in Addrs : mem[a].id = mem[b].id /\ mem[a].id # 0 => a = b
  /\ \A id \in issued \cup cancelled : id.id <= sequence
  /\ \A th \in Threads : adding[th].id <= sequence
  /\ \A i \in 1..Len(pending) : pending[i].id.id <= sequence
  /\ \A n \in ran : n <= sequence

(* The timers in the two indexes.                                          *)
ActiveInv ==
  /\ \A x \in activeTimers : x.id # 0 /\ IdAt(x.at) = x /\ Entry(x.at) \in list
  /\ \A e \in list : \E x \in activeTimers : e = Entry(x.at)

(* The timers on their way to them.                                        *)
PendingInv ==
  /\ \A i \in 1..Len(pending) : IsAdd(i) =>
       /\ pending[i].id.id # 0 /\ IdAt(pending[i].id.at) = pending[i].id
       /\ pending[i].id \notin activeTimers
       /\ \A x \in expired : x.at # pending[i].id.at
  /\ \A i, j \in 1..Len(pending) :
       IsAdd(i) /\ IsAdd(j) /\ pending[i].id = pending[j].id => i = j

(* The timers of the round.                                                *)
RoundInv ==
  /\ \A x \in expired : mem[x.at].id # 0 /\ x = Entry(x.at) /\ IdAt(x.at) \notin activeTimers
  /\ ~isCallingExpiredTimers => expired = {}

(* What was cancelled is not scheduled and will not be repeated.           *)
CancelInv ==
  /\ \A id \in cancelled \ missed :
       /\ id \notin activeTimers
       /\ \A x \in expired : IdAt(x.at) = id => id \in cancleingTimers
  /\ \A i \in 1..Len(pending) :
       IsAdd(i) /\ pending[i].id \in cancelled => pending[i].id \in missed

(* A timer that is called once has not been called while it can be.        *)
OnceInv ==
  /\ \A x \in activeTimers : mem[x.at].interval = 0 => x.id \notin ran
  /\ \A x \in toRun : mem[x.at].interval = 0 => mem[x.at].id \notin ran
  /\ \A i \in 1..Len(pending) :
       IsAdd(i) /\ mem[pending[i].id.at].interval = 0 => pending[i].id.id \notin ran

TimerInv ==
  /\ TypeOK
  /\ NumbersInv /\ ActiveInv /\ PendingInv /\ RoundInv
  /\ CancelInv /\ OnceInv /\ ArmedInTime
-----------------------------------------------------------------------------
(***************************************************************************)
(* Numbers, times and records.                                             *)
(***************************************************************************)
LEMMA HorizonIsLast ==
  /\ Horizon \in Nat /\ MaxTime + 1 <= Horizon
  /\ \A d \in Delays, t \in 1..MaxTime : t + d \in 1..Horizon
<1> DEFINE D == CHOOSE d \in Delays : \A e \in Delays : e <= d
<1>1. D \in Delays /\ \A e \in Delays : e <= D
  BY TimerAssumption
<1>2. D \in Nat \ {0} /\ \A e \in Delays : e \in Nat \ {0} /\ e <= D
  BY <1>1, TimerAssumption
<1>3. Horizon = MaxTime + D
  BY DEF Horizon
<1> HIDE DEF D
<1>4. QED
  BY <1>2, <1>3, TimerAssumption

LEMMA NoIdType == NoId \in Ids /\ NoId.id = 0
  BY TimerAssumption DEF NoId, Ids

LEMMA IdAtProperties ==
  ASSUME TypeOK
  PROVE  /\ \A a \in Addrs : IdAt(a) \in Ids /\ IdAt(a).at = a /\ IdAt(a).id = mem[a].id
         /\ \A x \in Ids : IdAt(x.at) = x <=> mem[x.at].id = x.id
  BY DEF TypeOK, IdAt, Ids

LEMMA EntryProperties ==
  \A a \in Addrs : Entry(a).at = a /\ Entry(a).when = mem[a].expiration
  BY DEF Entry

LEMMA Members ==
  ASSUME TypeOK
  PROVE  /\ \A id \in Ids : id.at \in Addrs /\ id.id \in Nat
         /\ activeTimers \subseteq Ids /\ issued \cup cancelled \subseteq Ids
         /\ \A i \in 1..Len(pending) : pending[i].id \in Ids /\ pending[i].op \in {"add", "cancel"}
         /\ \A th \in Threads : adding[th] \in Ids
         /\ \A a \in Addrs : mem[a].id \in Nat /\ mem[a].expiration \in Nat
         /\ sequence \in Nat /\ now \in Nat
         /\ ran \subseteq Nat
<1>1. \A id \in Ids : id.at \in Addrs /\ id.id \in Nat
  BY TimerAssumption DEF Ids
<1>2. \A i \in 1..Len(pending) : pending[i] \in [op : {"add", "cancel"}, id : Ids]
  BY ElementOfSeq DEF TypeOK
<1>3. \A i \in 1..Len(pending) : pending[i].id \in Ids /\ pending[i].op \in {"add", "cancel"}
  BY <1>2
<1>4. \A a \in Addrs : mem[a].id \in Nat /\ mem[a].expiration \in Nat
  BY HorizonIsLast, TimerAssumption DEF TypeOK
<1>5. QED
  BY <1>1, <1>3, <1>4, TimerAssumption DEF TypeOK

LEMMA TimerInit == Init => TimerInv
<1> SUFFICES ASSUME Init PROVE TimerInv
  OBVIOUS
<1>1. <<>> \in Seq([op : {"add", "cancel"}, id : Ids]) /\ Len(<<>>) = 0
  BY EmptySeq
<1>2. TypeOK
  <2>1. now \in 1..MaxTime /\ alarm \in 0..Horizon /\ sequence \in 0..MaxTimers
    BY TimerAssumption, HorizonIsLast DEF Init
  <2>2. mem \in [Addrs -> [id : 0..MaxTimers, expiration : 0..Horizon, interval : Delays \cup {0}]]
    BY TimerAssumption, HorizonIsLast DEF Init, Freed
  <2>3. adding \in [Threads -> Ids]
    BY NoIdType DEF Init
  <2>4. QED
    BY <1>1, <2>1, <2>2, <2>3 DEF Init, TypeOK
<1>3. NumbersInv
  BY <1>1, NoIdType, TimerAssumption DEF Init, NumbersInv, Freed
<1>4. ActiveInv /\ PendingInv /\ RoundInv /\ CancelInv /\ OnceInv /\ ArmedInTime
  BY <1>1 DEF Init, ActiveInv, PendingInv, RoundInv, CancelInv, OnceInv, ArmedInTime
<1>5. QED
  BY <1>2, <1>3, <1>4 DEF TimerInv

-----------------------------------------------------------------------------
(***************************************************************************)
(* A new timer: by the owner, into the indexes; by another thread, to a    *)
(* functor.                                                                *)
(***************************************************************************)
LEMMA AllocateProperties ==
  ASSUME TypeOK, NumbersInv, NEW a \in Addrs, NEW d \in Delays, NEW interval \in {0, d},
         Allocate(a, d, interval)
  PROVE  /\ mem[a].id = 0 /\ sequence' = sequence + 1 /\ sequence' \in 1..MaxTimers
         /\ mem' \in [Addrs -> [id : 0..MaxTimers, expiration : 0..Horizon, interval : Delays \cup {0}]]
         /\ mem'[a].id = sequence + 1 /\ mem'[a].expiration = now + d /\ now + d \in 1..Horizon
         /\ \A b \in Addrs : b # a => mem'[b] = mem[b]
<1>1. /\ mem[a] = Freed /\ sequence < MaxTimers /\ sequence' = sequence + 1
      /\ mem' = [mem EXCEPT ![a] =
           [id |-> sequence + 1, expiration |-> now + d, interval |-> interval]]
  BY DEF Allocate
<1>2. now + d \in 1..Horizon /\ sequence + 1 \in 1..MaxTimers
  <2>1. now \in 1..MaxTime /\ sequence \in 0..MaxTimers
    BY DEF TypeOK
  <2>2. QED
    BY <1>1, <2>1, HorizonIsLast, TimerAssumption
<1>3. mem[a].id = 0
  BY <1>1 DEF Freed
<1>4. [id |-> sequence + 1, expiration |-> now + d, interval |-> interval]
        \in [id : 0..MaxTimers, expiration : 0..Horizon, interval : Delays \cup {0}]
  BY <1>2
<1>5. QED
  BY <1>1, <1>2, <1>3, <1>4 DEF TypeOK

LEMMA ArmedType ==
  ASSUME TypeOK, NEW t \in 1..Horizon
  PROVE  Armed(t) \in 1..Horizon /\ Armed(t) <= Later(t, now + 1)
  BY HorizonIsLast, TimerAssumption DEF TypeOK, Armed, Later

LEMMA InsertArms ==
  ASSUME TypeOK, ArmedInTime, NEW entry \in Entries, list' = list \cup {entry},
         alarm' = IF IsFirst(entry) THEN Armed(entry.when) ELSE alarm,
         UNCHANGED <<now, isCallingExpiredTimers>>
  PROVE  alarm' \in 0..Horizon /\ ArmedInTime'
<1>1. entry.when \in 1..Horizon /\ now \in Nat /\ alarm \in 0..Horizon
  BY DEF TypeOK, Entries
<1>2. \A x \in list : x.when \in Nat
  BY DEF TypeOK, Entries
<1>3. CASE IsFirst(entry)
  <2>1. alarm' = Armed(entry.when) /\ \A x \in list : entry.when < x.when
    BY <1>3 DEF IsFirst
  <2>2. alarm' \in 1..Horizon /\ alarm' <= Later(entry.when, now + 1)
    BY <1>1, <2>1, ArmedType
  <2>3. \A x \in list' : alarm' <= Later(x.when, now + 1)
    BY <1>1, <1>2, <2>1, <2>2 DEF Later
  <2>4. QED
    BY <2>2, <2>3 DEF ArmedInTime
<1>4. CASE ~IsFirst(entry)
  <2>1. alarm' = alarm
    BY <1>4
  <2>2. PICK x \in list : x.when <= entry.when
    BY <1>1, <1>2, <1>4 DEF IsFirst
  <2>3. ASSUME ~isCallingExpiredTimers PROVE alarm # 0 /\ alarm <= Later(entry.when, now + 1)
    <3>1. alarm # 0 /\ alarm <= Later(x.when, now + 1)
      BY <2>3 DEF ArmedInTime
    <3>2. QED
      BY <1>1, <1>2, <2>2, <3>1 DEF Later
  <2>4. QED
    BY <1>1, <2>1, <2>3 DEF ArmedInTime
<1>5. QED
  BY <1>3, <1>4

LEMMA OwnerAddsKeeps ==
  ASSUME TimerInv, OwnerAdds, UNCHANGED <<now, ran>>
  PROVE  TimerInv'
<1> USE DEF TimerInv
<1>1. PICK a \in Addrs, d \in Delays : \E interval \in {0, d} :
        /\ Allocate(a, d, interval)
        /\ AddTimerInOwnerLoop([when |-> now + d, at |-> a], [at |-> a, id |-> sequence + 1])
        /\ issued' = issued \cup {[at |-> a, id |-> sequence + 1]}
        /\ UNCHANGED <<pending, adding, cancelled, missed>>
  BY DEF OwnerAdds
<1> DEFINE new == [at |-> a, id |-> sequence + 1]
           entry == [when |-> now + d, at |-> a]
<1>2. /\ mem[a].id = 0 /\ sequence' = sequence + 1 /\ sequence' \in 1..MaxTimers
      /\ mem' \in [Addrs -> [id : 0..MaxTimers, expiration : 0..Horizon, interval : Delays \cup {0}]]
      /\ mem'[a].id = sequence + 1 /\ mem'[a].expiration = now + d /\ now + d \in 1..Horizon
      /\ \A b \in Addrs : b # a => mem'[b] = mem[b]
  BY <1>1, AllocateProperties
<1>3. /\ list' = list \cup {entry} /\ activeTimers' = activeTimers \cup {new}
      /\ alarm' = IF IsFirst(entry) THEN Armed(entry.when) ELSE alarm
      /\ issued' = issued \cup {new}
      /\ UNCHANGED <<isCallingExpiredTimers, cancleingTimers, expired, toRun, pending,
                     adding, cancelled, missed>>
  BY <1>1 DEF AddTimerInOwnerLoop
<1>4. /\ new \in Ids /\ new.at = a /\ new.id = sequence + 1
      /\ entry \in Entries /\ entry.when = now + d /\ entry.at = a
  BY <1>2 DEF Ids, Entries
<1>5. sequence \in Nat /\ \A b \in Addrs : mem[b].id \in Nat
  BY DEF TypeOK
<1>6. IdAt(a)' = new /\ Entry(a)' = entry
  BY <1>2 DEF IdAt, Entry
<1>7. \A b \in Addrs : b # a => IdAt(b)' = IdAt(b) /\ Entry(b)' = Entry(b)
  BY <1>2 DEF IdAt, Entry
<1>8. \A x \in activeTimers : x.at \in Addrs /\ x.at # a /\ x # new
  <2> TAKE x \in activeTimers
  <2>1. x \in Ids /\ x.at \in Addrs /\ x.id # 0 /\ IdAt(x.at) = x
    BY Members DEF ActiveInv
  <2>2. mem[x.at].id = x.id
    BY <2>1, IdAtProperties
  <2>3. QED
    BY <1>2, <1>4, <2>1, <2>2
<1>9. \A x \in expired : x.at \in Addrs /\ x.at # a
  BY <1>2 DEF TypeOK, RoundInv, Entries
<1>10. \A i \in 1..Len(pending) : pending[i].id \in Ids
  BY Members
<1>11. \A i \in 1..Len(pending) : IsAdd(i) => pending[i].id.at \in Addrs /\ pending[i].id.at # a
  BY <1>2, <1>10, IdAtProperties DEF PendingInv, Ids
<1> HIDE DEF new, entry
<1>12. alarm' \in 0..Horizon /\ ArmedInTime'
  BY <1>3, <1>4, InsertArms
<1>13. TypeOK'
  BY <1>2, <1>3, <1>4, <1>12 DEF TypeOK
<1>14. NumbersInv'
  <2>1. \A b \in Addrs : mem'[b].id # 0 => mem'[b].expiration >= 1
    BY <1>2 DEF NumbersInv
  <2>2. \A b, c \in Addrs : mem'[b].id = mem'[c].id /\ mem'[b].id # 0 => b = c
    <3>1. \A b \in Addrs : b # a => mem'[b].id <= sequence
      BY <1>2 DEF NumbersInv
    <3>2. \A b \in Addrs : b # a => mem'[b].id # mem'[a].id
      BY <1>2, <1>5, <3>1
    <3>3. QED
      BY <1>2, <3>2 DEF NumbersInv
  <2>3. \A b \in Addrs : mem'[b].id <= sequence'
    BY <1>2, <1>5 DEF NumbersInv
  <2>4. \A id \in issued' \cup cancelled' : id.id <= sequence'
    BY <1>2, <1>3, <1>4, <1>5, Members DEF NumbersInv
  <2>5. /\ \A th \in Threads : adding'[th].id <= sequence'
        /\ \A i \in 1..Len(pending') : pending'[i].id.id <= sequence'
        /\ \A n \in ran' : n <= sequence'
    BY <1>2, <1>3, <1>5, Members DEF NumbersInv
  <2>6. QED
    BY <2>1, <2>2, <2>3, <2>4, <2>5 DEF NumbersInv
<1>15. ActiveInv'
  BY <1>3, <1>4, <1>5, <1>6, <1>7, <1>8 DEF ActiveInv
<1>16. PendingInv'
  BY <1>3, <1>4, <1>7, <1>9, <1>11 DEF PendingInv, IsAdd
<1>17. RoundInv'
  BY <1>2, <1>3, <1>4, <1>6, <1>7, <1>9, IdAtProperties DEF RoundInv
<1>18. CancelInv'
  BY <1>3, <1>4, <1>5, <1>7, <1>9 DEF CancelInv, NumbersInv, TypeOK, Ids, IsAdd
<1>19. OnceInv'
  BY <1>2, <1>3, <1>4, <1>5, <1>8, <1>9, <1>11 DEF OnceInv, NumbersInv, TypeOK, IsAdd
<1>20. QED
  BY <1>12, <1>13, <1>14, <1>15, <1>16, <1>17, <1>18, <1>19

-----------------------------------------------------------------------------
(***************************************************************************)
(* A cancellation, called by the owner or by the functor in front of the   *)
(* queue: k functors leave it.                                             *)
(***************************************************************************)
Leaves(k) ==
  /\ Len(pending') \in Nat
  /\ \A i \in 1..Len(pending') : i + k \in 1..Len(pending) /\ pending'[i] = pending[i + k]

LEMMA LeavesProperties ==
  ASSUME TypeOK
  PROVE  /\ UNCHANGED pending => Leaves(0)
         /\ pending # <<>> /\ pending' = Tail(pending) =>
              Leaves(1) /\ 1 \in 1..Len(pending) /\ Head(pending) = pending[1]
              /\ pending' \in Seq([op : {"add", "cancel"}, id : Ids])
<1>1. Len(pending) \in Nat
  BY LenProperties DEF TypeOK
<1>2. ASSUME UNCHANGED pending PROVE Leaves(0)
  BY <1>1, <1>2 DEF Leaves
<1>3. ASSUME pending # <<>>, pending' = Tail(pending)
      PROVE  /\ Leaves(1) /\ 1 \in 1..Len(pending) /\ Head(pending) = pending[1]
             /\ pending' \in Seq([op : {"add", "cancel"}, id : Ids])
  <2>1. /\ pending' \in Seq([op : {"add", "cancel"}, id : Ids]) /\ Len(pending') = Len(pending) - 1
        /\ \A i \in 1..Len(pending') : pending'[i] = pending[i + 1]
    BY <1>3, HeadTailProperties DEF TypeOK
  <2>2. Len(pending) \in Nat \ {0}
    BY <1>3, EmptySeq DEF TypeOK
  <2>3. QED
    BY <2>1, <2>2 DEF Leaves
<1>4. QED
  BY <1>2, <1>3

LEMMA CancelKeeps ==
  ASSUME TimerInv, NEW id \in Ids, id.id <= sequence, CancelInOwnerLoop(id),
         NEW k \in {0, 1}, Leaves(k), pending' \in Seq([op : {"add", "cancel"}, id : Ids]),
         UNCHANGED <<now, ran, threadVars>>
  PROVE  TimerInv'
<1> USE DEF TimerInv
<1> DEFINE found == id \in activeTimers
<1>1. /\ activeTimers' = activeTimers \ {id}
      /\ cancleingTimers' = IF ~found /\ isCallingExpiredTimers
                            THEN cancleingTimers \cup {id} ELSE cancleingTimers
      /\ cancelled' = cancelled \cup {id}
      /\ missed' = IF IsQueued(id) THEN missed \cup {id} ELSE missed
      /\ UNCHANGED <<now, sequence, alarm, isCallingExpiredTimers, expired, toRun, adding, issued, ran>>
  BY DEF CancelInOwnerLoop, Matching, threadVars
<1>2. found => list' = list \ {Entry(id.at)} /\ mem' = [a \in Addrs |-> IF a = id.at THEN Freed ELSE mem[a]]
  BY DEF CancelInOwnerLoop, Matching
<1>3. ~found => list' = list /\ mem' = mem /\ activeTimers' = activeTimers
  BY DEF CancelInOwnerLoop, Matching, TypeOK
<1>4. \A a \in Addrs : mem'[a] = IF found /\ a = id.at THEN Freed ELSE mem[a]
  BY <1>2, <1>3
<1>5. /\ Freed \in [id : 0..MaxTimers, expiration : 0..Horizon, interval : Delays \cup {0}]
      /\ Freed.id = 0
  BY TimerAssumption, HorizonIsLast DEF Freed
<1>6. mem' \in [Addrs -> [id : 0..MaxTimers, expiration : 0..Horizon, interval : Delays \cup {0}]]
  BY <1>2, <1>3, <1>5 DEF TypeOK
<1>7. found => IdAt(id.at) = id /\ mem[id.at].id = id.id /\ id.id # 0
  BY IdAtProperties DEF ActiveInv
<1>8. \A x \in activeTimers' : x \in activeTimers /\ x \in Ids /\ x.at \in Addrs /\ (found => x.at # id.at)
  BY <1>1, <1>7, Members DEF ActiveInv
<1>9. \A x \in expired : x.at \in Addrs /\ (found => x.at # id.at)
  <2> TAKE x \in expired
  <2>1. x.at \in Addrs /\ IdAt(x.at) \notin activeTimers
    BY DEF TypeOK, Entries, RoundInv
  <2>2. QED
    BY <1>7, <2>1
<1>10. \A i \in 1..Len(pending) :
         IsAdd(i) => pending[i].id.at \in Addrs /\ (found => pending[i].id.at # id.at)
  BY <1>7, Members DEF PendingInv
<1>11. \A a \in Addrs : (found /\ a = id.at) \/ (mem'[a] = mem[a] /\ IdAt(a)' = IdAt(a) /\ Entry(a)' = Entry(a))
  BY <1>4 DEF IdAt, Entry
<1>12. \A i \in 1..Len(pending') : i + k \in 1..Len(pending) /\ pending'[i] = pending[i + k]
  BY DEF Leaves
<1>13. k \in Nat /\ \A i, j \in Nat : i + k = j + k => i = j
  OBVIOUS
<1> HIDE DEF found
<1>14. TypeOK'
  <2>1. list' \subseteq list
    BY <1>2, <1>3
  <2>2. cancleingTimers' \subseteq Ids /\ cancelled' \subseteq Ids /\ missed' \subseteq cancelled'
    BY <1>1 DEF TypeOK
  <2>3. QED
    BY <1>1, <1>6, <2>1, <2>2 DEF TypeOK
<1>15. NumbersInv'
  <2>1. \A a \in Addrs : (found /\ a = id.at /\ mem'[a].id = 0) \/ mem'[a] = mem[a]
    BY <1>4, <1>5
  <2>2. \A a \in Addrs : mem'[a].id <= sequence /\ (mem'[a].id # 0 => mem'[a].expiration >= 1)
    BY <2>1, Members DEF NumbersInv
  <2>3. \A a, b \in Addrs : mem'[a].id = mem'[b].id /\ mem'[a].id # 0 => a = b
    BY <2>1 DEF NumbersInv
  <2>4. \A x \in issued' \cup cancelled' : x.id <= sequence
    BY <1>1 DEF NumbersInv
  <2>5. \A i \in 1..Len(pending') : pending'[i].id.id <= sequence
    BY <1>12 DEF NumbersInv
  <2>6. QED
    BY <1>1, <2>2, <2>3, <2>4, <2>5 DEF NumbersInv
<1>16. ActiveInv'
  <2>1. \A x \in activeTimers' : x.id # 0 /\ IdAt(x.at)' = x /\ Entry(x.at)' \in list'
    <3> TAKE x \in activeTimers'
    <3>1. x.id # 0 /\ IdAt(x.at) = x /\ Entry(x.at) \in list
      BY <1>8 DEF ActiveInv
    <3>2. IdAt(x.at)' = IdAt(x.at) /\ Entry(x.at)' = Entry(x.at)
      BY <1>8, <1>11
    <3>3. found => Entry(x.at) # Entry(id.at)
      BY <1>8, EntryProperties, Members
    <3>4. QED
      BY <1>2, <1>3, <3>1, <3>2, <3>3
  <2>2. \A e \in list' : \E x \in activeTimers' : e = Entry(x.at)'
    <3> TAKE e \in list'
    <3>1. e \in list /\ (found => e # Entry(id.at))
      BY <1>2, <1>3
    <3>2. PICK x \in activeTimers : e = Entry(x.at)
      BY <3>1 DEF ActiveInv
    <3>3. x \in activeTimers'
      BY <1>1, <1>3, <3>1, <3>2 DEF found
    <3>4. Entry(x.at)' = Entry(x.at)
      BY <1>8, <1>11, <3>3
    <3>5. QED
      BY <3>2, <3>3, <3>4
  <2>3. QED
    BY <2>1, <2>2 DEF ActiveInv
<1>17. PendingInv'
  <2>1. \A i \in 1..Len(pending') : IsAdd(i)' <=> IsAdd(i + k)
    BY <1>12 DEF IsAdd
  <2>2. ASSUME NEW i \in 1..Len(pending'), IsAdd(i)', NEW p \in Ids, p = pending'[i].id
        PROVE  /\ p.id # 0 /\ IdAt(p.at)' = p /\ p \notin activeTimers'
               /\ \A x \in expired' : x.at # p.at
    <3>1. i + k \in 1..Len(pending) /\ p = pending[i + k].id /\ IsAdd(i + k)
      BY <1>12, <2>1, <2>2
    <3>2. /\ p.id # 0 /\ IdAt(p.at) = p /\ p \notin activeTimers
          /\ \A x \in expired : x.at # p.at
      BY <3>1 DEF PendingInv
    <3>3. p.at \in Addrs /\ (found => p.at # id.at)
      BY <1>10, <3>1
    <3>4. QED
      BY <1>1, <1>11, <3>2, <3>3
  <2>3. \A i, j \in 1..Len(pending') :
          IsAdd(i)' /\ IsAdd(j)' /\ pending'[i].id = pending'[j].id => i = j
    BY <1>12, <1>13, <2>1 DEF PendingInv
  <2>4. \A i \in 1..Len(pending') : pending'[i].id \in Ids
    BY <1>12, Members
  <2>5. QED
    BY <2>2, <2>3, <2>4 DEF PendingInv
<1>18. RoundInv'
  <2>1. \A x \in expired :
          mem'[x.at].id # 0 /\ x = Entry(x.at)' /\ IdAt(x.at)' \notin activeTimers'
    BY <1>1, <1>9, <1>11 DEF RoundInv
  <2>2. QED
    BY <1>1, <2>1 DEF RoundInv
<1>19. CancelInv'
  <2>1. \A x \in expired' : IdAt(x.at)' = id => id \in cancleingTimers'
    <3> SUFFICES ASSUME NEW x \in expired, IdAt(x.at) = id PROVE id \in cancleingTimers'
      BY <1>1, <1>9, <1>11
    <3>1. ~found /\ isCallingExpiredTimers
      BY DEF RoundInv, found
    <3>2. QED
      BY <1>1, <3>1
  <2>2. \A x \in expired' : IdAt(x.at)' = IdAt(x.at)
    BY <1>1, <1>9, <1>11
  <2>3. \A y \in cancelled' \ missed' :
          /\ y \notin activeTimers'
          /\ \A x \in expired' : IdAt(x.at)' = y => y \in cancleingTimers'
    BY <1>1, <2>1, <2>2 DEF CancelInv
  <2>4. \A i \in 1..Len(pending') :
          IsAdd(i)' /\ pending'[i].id \in cancelled' => pending'[i].id \in missed'
    <3> SUFFICES ASSUME NEW i \in 1..Len(pending), IsAdd(i), pending[i].id \in cancelled'
                 PROVE  pending[i].id \in missed'
      BY <1>12 DEF IsAdd
    <3>1. CASE pending[i].id = id
      <4>1. pending[i] = [op |-> "add", id |-> id]
        <5>1. pending[i] \in [op : {"add", "cancel"}, id : Ids]
          BY ElementOfSeq DEF TypeOK
        <5>2. QED
          BY <3>1, <5>1 DEF IsAdd
      <4>2. IsQueued(id)
        BY <4>1 DEF IsQueued
      <4>3. QED
        BY <1>1, <3>1, <4>2
    <3>2. CASE pending[i].id # id
      BY <1>1, <3>2 DEF CancelInv
    <3>3. QED
      BY <3>1, <3>2
  <2>5. QED
    BY <2>3, <2>4 DEF CancelInv
<1>20. OnceInv'
  <2>1. \A x \in activeTimers' : mem'[x.at].interval = 0 => x.id \notin ran
    BY <1>8, <1>11 DEF OnceInv
  <2>2. \A x \in toRun : mem'[x.at].interval = 0 => mem'[x.at].id \notin ran
    BY <1>9, <1>11 DEF OnceInv, TypeOK
  <2>3. \A i \in 1..Len(pending') :
          IsAdd(i)' /\ mem'[pending'[i].id.at].interval = 0 => pending'[i].id.id \notin ran
    <3> SUFFICES ASSUME NEW i \in 1..Len(pending), IsAdd(i), mem'[pending[i].id.at].interval = 0
                 PROVE  pending[i].id.id \notin ran
      BY <1>12 DEF IsAdd
    <3>1. mem'[pending[i].id.at] = mem[pending[i].id.at]
      BY <1>10, <1>11
    <3>2. QED
      BY <3>1 DEF OnceInv
  <2>4. QED
    BY <1>1, <2>1, <2>2, <2>3 DEF OnceInv
<1>21. ArmedInTime'
  BY <1>1, <1>2, <1>3 DEF ArmedInTime
<1>22. QED
  BY <1>14, <1>15, <1>16, <1>17, <1>18, <1>19, <1>20, <1>21

-----------------------------------------------------------------------------
(***************************************************************************)
(* The other threads, which push functors.                                 *)
(***************************************************************************)
LEMMA PushProperties ==
  ASSUME TypeOK, NEW op \in {"add", "cancel"}, NEW id \in Ids,
         pending' = Append(pending, [op |-> op, id |-> id])
  PROVE  /\ pending' \in Seq([op : {"add", "cancel"}, id : Ids])
         /\ Len(pending) \in Nat /\ Len(pending') = Len(pending) + 1
         /\ \A i \in 1..Len(pending) : pending'[i] = pending[i] /\ (IsAdd(i)' <=> IsAdd(i))
         /\ \A i \in 1..Len(pending') : i \in 1..Len(pending) \/ i = Len(pending) + 1
         /\ pending'[Len(pending) + 1].op = op /\ pending'[Len(pending) + 1].id = id
<1> DEFINE f == [op |-> op, id |-> id]
<1>1. f \in [op : {"add", "cancel"}, id : Ids] /\ f.op = op /\ f.id = id
  OBVIOUS
<1> HIDE DEF f
<1>2. pending' = Append(pending, f)
  BY DEF f
<1>3. /\ pending' \in Seq([op : {"add", "cancel"}, id : Ids])
      /\ Len(pending) \in Nat /\ Len(pending') = Len(pending) + 1
      /\ \A i \in 1..Len(pending) : pending'[i] = pending[i]
      /\ pending'[Len(pending) + 1] = f
  BY <1>1, <1>2, AppendProperties, LenProperties DEF TypeOK
<1>4. \A i \in 1..Len(pending') : i \in 1..Len(pending) \/ i = Len(pending) + 1
  BY <1>3
<1>5. QED
  BY <1>1, <1>3, <1>4 DEF IsAdd

LEMMA OtherAddsKeeps ==
  ASSUME TimerInv, NEW th \in Threads, OtherAdds(th)
  PROVE  TimerInv'
<1> USE DEF TimerInv
<1>1. PICK a \in Addrs, d \in Delays : \E interval \in {0, d} :
        LET id == [at |-> a, id |-> sequence + 1]
        IN  /\ Allocate(a, d, interval)
            /\ pending' = Append(pending, [op |-> "add", id |-> id])
            /\ adding' = [adding EXCEPT ![th] = id]
  BY DEF OtherAdds
<1> DEFINE new == [at |-> a, id |-> sequence + 1]
<1>2. /\ mem[a].id = 0 /\ sequence' = sequence + 1 /\ sequence' \in 1..MaxTimers
      /\ mem' \in [Addrs -> [id : 0..MaxTimers, expiration : 0..Horizon, interval : Delays \cup {0}]]
      /\ mem'[a].id = sequence + 1 /\ mem'[a].expiration = now + d /\ now + d \in 1..Horizon
      /\ \A b \in Addrs : b # a => mem'[b] = mem[b]
  BY <1>1, AllocateProperties
<1>3. /\ pending' = Append(pending, [op |-> "add", id |-> new])
      /\ adding' = [adding EXCEPT ![th] = new]
      /\ UNCHANGED <<now, alarm, list, activeTimers, isCallingExpiredTimers, cancleingTimers,
                     expired, toRun, issued, ran, cancelled, missed>>
  BY <1>1 DEF OtherAdds, queueVars
<1>4. new \in Ids /\ new.at = a /\ new.id = sequence + 1
  BY <1>2 DEF Ids
<1>5. sequence \in Nat
  BY DEF TypeOK
<1>6. IdAt(a)' = new
  BY <1>2 DEF IdAt
<1>7. \A b \in Addrs : b # a => IdAt(b)' = IdAt(b) /\ Entry(b)' = Entry(b)
  BY <1>2 DEF IdAt, Entry
<1>8. \A x \in activeTimers : x.at \in Addrs /\ x.at # a /\ x # new
  <2> TAKE x \in activeTimers
  <2>1. x \in Ids /\ x.at \in Addrs /\ x.id # 0 /\ IdAt(x.at) = x
    BY Members DEF ActiveInv
  <2>2. mem[x.at].id = x.id
    BY <2>1, IdAtProperties
  <2>3. QED
    BY <1>2, <1>4, <2>1, <2>2
<1>9. \A x \in expired : x.at \in Addrs /\ x.at # a
  BY <1>2 DEF TypeOK, RoundInv, Entries
<1>10. \A i \in 1..Len(pending) : IsAdd(i) => pending[i].id.at \in Addrs /\ pending[i].id.at # a
  BY <1>2, IdAtProperties, Members DEF PendingInv
<1> HIDE DEF new
<1>11. /\ pending' \in Seq([op : {"add", "cancel"}, id : Ids])
       /\ Len(pending) \in Nat /\ Len(pending') = Len(pending) + 1
       /\ \A i \in 1..Len(pending) : pending'[i] = pending[i] /\ (IsAdd(i)' <=> IsAdd(i))
       /\ \A i \in 1..Len(pending') : i \in 1..Len(pending) \/ i = Len(pending) + 1
       /\ pending'[Len(pending) + 1].op = "add" /\ pending'[Len(pending) + 1].id = new
  BY <1>3, <1>4, PushProperties
<1>12. TypeOK'
  BY <1>2, <1>3, <1>4, <1>11 DEF TypeOK
<1>13. NumbersInv'
  <2>1. \A b \in Addrs : mem'[b].id # 0 => mem'[b].expiration >= 1
    BY <1>2 DEF NumbersInv
  <2>2. \A b, c \in Addrs : mem'[b].id = mem'[c].id /\ mem'[b].id # 0 => b = c
    <3>1. \A b \in Addrs : b # a => mem'[b].id <= sequence
      BY <1>2 DEF NumbersInv
    <3>2. \A b \in Addrs : b # a => mem'[b].id # mem'[a].id
      BY <1>2, <1>5, <3>1
    <3>3. QED
      BY <1>2, <3>2 DEF NumbersInv
  <2>3. \A b \in Addrs : mem'[b].id <= sequence'
    BY <1>2, <1>5, Members DEF NumbersInv
  <2>4. /\ \A id \in issued' \cup cancelled' : id.id <= sequence'
        /\ \A n \in ran' : n <= sequence'
    BY <1>2, <1>3, <1>5, Members DEF NumbersInv
  <2>5. \A t \in Threads : adding'[t].id <= sequence'
    <3>1. \A t \in Threads : adding'[t] = IF t = th THEN new ELSE adding[t]
      BY <1>3 DEF TypeOK
    <3>2. QED
      BY <1>2, <1>4, <1>5, <3>1, Members DEF NumbersInv
  <2>6. \A i \in 1..Len(pending') : pending'[i].id.id <= sequence'
    BY <1>2, <1>4, <1>5, <1>11, Members, SMTT(20) DEF NumbersInv
  <2>7. QED
    BY <2>1, <2>2, <2>3, <2>4, <2>5, <2>6 DEF NumbersInv
<1>14. ActiveInv'
  BY <1>3, <1>7, <1>8 DEF ActiveInv
<1>15. PendingInv'
  <2>1. ASSUME NEW i \in 1..Len(pending'), IsAdd(i)', NEW p \in Ids, p = pending'[i].id
        PROVE  /\ p.id # 0 /\ IdAt(p.at)' = p /\ p \notin activeTimers'
               /\ \A x \in expired' : x.at # p.at
    <3>1. CASE p = new
      BY <1>3, <1>4, <1>5, <1>6, <1>8, <1>9, <3>1
    <3>2. CASE p # new
      <4>1. i \in 1..Len(pending) /\ p = pending[i].id /\ IsAdd(i)
        BY <1>11, <2>1, <3>2
      <4>2. QED
        BY <1>3, <1>7, <1>10, <4>1 DEF PendingInv
    <3>3. QED
      BY <3>1, <3>2
  <2>2. \A i \in 1..Len(pending) : IsAdd(i) => pending[i].id # new
    BY <1>4, <1>10
  <2>3. \A i, j \in 1..Len(pending') :
          IsAdd(i)' /\ IsAdd(j)' /\ pending'[i].id = pending'[j].id => i = j
    BY <1>11, <2>2 DEF PendingInv
  <2>4. \A i \in 1..Len(pending') : pending'[i].id \in Ids
    BY <1>4, <1>11, Members
  <2>5. QED
    BY <2>1, <2>3, <2>4 DEF PendingInv
<1>16. RoundInv'
  BY <1>2, <1>3, <1>7, <1>9 DEF RoundInv
<1>17. CancelInv'
  <2>1. new \notin cancelled
    BY <1>4, <1>5 DEF NumbersInv
  <2>2. \A i \in 1..Len(pending') :
          IsAdd(i)' /\ pending'[i].id \in cancelled' => pending'[i].id \in missed'
    BY <1>3, <1>11, <2>1 DEF CancelInv
  <2>3. QED
    BY <1>3, <1>7, <1>9, <2>2 DEF CancelInv
<1>18. OnceInv'
  <2>1. \A x \in activeTimers : mem'[x.at].interval = 0 => x.id \notin ran
    BY <1>2, <1>8 DEF OnceInv
  <2>2. \A x \in toRun : mem'[x.at].interval = 0 => mem'[x.at].id \notin ran
    BY <1>2, <1>9 DEF OnceInv, TypeOK
  <2>3. \A i \in 1..Len(pending') :
          IsAdd(i)' /\ mem'[pending'[i].id.at].interval = 0 => pending'[i].id.id \notin ran
    <3>1. new.id \notin ran
      BY <1>4, <1>5 DEF NumbersInv
    <3>2. SUFFICES ASSUME NEW i \in 1..Len(pending'), IsAdd(i)',
                          mem'[pending'[i].id.at].interval = 0
                   PROVE  pending'[i].id.id \notin ran
      OBVIOUS
    <3>3. CASE i \in 1..Len(pending)
      <4>1. IsAdd(i) /\ pending'[i] = pending[i]
        BY <1>11, <3>2, <3>3
      <4>2. mem'[pending[i].id.at] = mem[pending[i].id.at]
        BY <1>2, <1>10, <3>3, <4>1
      <4>3. QED
        BY <3>2, <3>3, <4>1, <4>2 DEF OnceInv
    <3>4. CASE i = Len(pending) + 1
      BY <1>11, <3>1, <3>4
    <3>5. QED
      BY <1>11, <3>3, <3>4
  <2>4. QED
    BY <1>3, <2>1, <2>2, <2>3 DEF OnceInv
<1>19. ArmedInTime'
  BY <1>3 DEF ArmedInTime
<1>20. QED
  BY <1>12, <1>13, <1>14, <1>15, <1>16, <1>17, <1>18, <1>19

LEMMA ReturnKeeps ==
  ASSUME TimerInv, NEW th \in Threads, ReturnTimerId(th)
  PROVE  TimerInv'
<1> USE DEF TimerInv
<1> DEFINE id == IdAt(adding[th].at)
<1>1. /\ issued' = issued \cup {id} /\ adding' = [adding EXCEPT ![th] = NoId]
      /\ UNCHANGED <<now, mem, sequence, alarm, list, activeTimers, isCallingExpiredTimers,
                     cancleingTimers, expired, toRun, pending, ran, cancelled, missed>>
  BY DEF ReturnTimerId, queueVars
<1>2. adding[th].at \in Addrs
  BY Members
<1>3. id \in Ids /\ id.id <= sequence
  BY <1>2, IdAtProperties DEF NumbersInv
<1> HIDE DEF id
<1>4. TypeOK'
  BY <1>1, <1>3, NoIdType DEF TypeOK
<1>5. NumbersInv'
  BY <1>1, <1>3, NoIdType, Members DEF NumbersInv, TypeOK
<1>6. ActiveInv' /\ PendingInv' /\ RoundInv'
  BY <1>1 DEF ActiveInv, PendingInv, RoundInv, IsAdd, IdAt, Entry
<1>7. CancelInv' /\ OnceInv' /\ ArmedInTime'
  BY <1>1 DEF CancelInv, OnceInv, ArmedInTime, IsAdd, IdAt
<1>8. QED
  BY <1>4, <1>5, <1>6, <1>7

LEMMA OtherCancelsKeeps ==
  ASSUME TimerInv, NEW id \in issued, OtherCancels(id)
  PROVE  TimerInv'
<1> USE DEF TimerInv
<1>1. /\ pending' = Append(pending, [op |-> "cancel", id |-> id])
      /\ UNCHANGED <<now, mem, sequence, alarm, list, activeTimers, isCallingExpiredTimers,
                     cancleingTimers, expired, toRun, adding, issued, ran, cancelled, missed>>
  BY DEF OtherCancels, queueVars, threadVars
<1>2. id \in Ids /\ id.id <= sequence
  BY Members DEF NumbersInv
<1>3. /\ pending' \in Seq([op : {"add", "cancel"}, id : Ids])
      /\ Len(pending) \in Nat /\ Len(pending') = Len(pending) + 1
      /\ \A i \in 1..Len(pending) : pending'[i] = pending[i] /\ (IsAdd(i)' <=> IsAdd(i))
      /\ \A i \in 1..Len(pending') : i \in 1..Len(pending) \/ i = Len(pending) + 1
      /\ pending'[Len(pending) + 1].op = "cancel" /\ pending'[Len(pending) + 1].id = id
  BY <1>1, <1>2, PushProperties
<1>4. \A i \in 1..Len(pending') : IsAdd(i)' => i \in 1..Len(pending) /\ IsAdd(i) /\ pending'[i] = pending[i]
  BY <1>3 DEF IsAdd
<1>5. TypeOK'
  BY <1>1, <1>3 DEF TypeOK
<1>6. NumbersInv'
  BY <1>1, <1>2, <1>3 DEF NumbersInv
<1>7. ActiveInv' /\ RoundInv'
  BY <1>1 DEF ActiveInv, RoundInv, IdAt, Entry
<1>8. PendingInv'
  BY <1>1, <1>4 DEF PendingInv, IdAt
<1>9. CancelInv'
  BY <1>1, <1>4 DEF CancelInv, IdAt
<1>10. OnceInv' /\ ArmedInTime'
  BY <1>1, <1>4 DEF OnceInv, ArmedInTime
<1>11. QED
  BY <1>5, <1>6, <1>7, <1>8, <1>9, <1>10

-----------------------------------------------------------------------------
(***************************************************************************)
(* The loop: the functors, and the round of the expired timers.            *)
(***************************************************************************)
LEMMA AddFunctorKeeps ==
  ASSUME TimerInv, pending # <<>>, pending' = Tail(pending), Head(pending).op = "add",
         AddTimerInOwnerLoop(Entry(Head(pending).id.at), IdAt(Head(pending).id.at)),
         UNCHANGED <<mem, sequence, cancelled, missed, now, threadVars, ran>>
  PROVE  TimerInv'
<1> USE DEF TimerInv
<1>1. /\ Leaves(1) /\ 1 \in 1..Len(pending) /\ Head(pending) = pending[1]
      /\ pending' \in Seq([op : {"add", "cancel"}, id : Ids])
  BY LeavesProperties
<1>2. \A i \in 1..Len(pending') :
        /\ i + 1 \in 1..Len(pending) /\ pending'[i] = pending[i + 1]
        /\ IsAdd(i)' <=> IsAdd(i + 1)
  BY <1>1 DEF Leaves, IsAdd
<1>3. PICK id \in Ids : id = pending[1].id
  BY <1>1, Members
<1>4. /\ id.at \in Addrs /\ id.id # 0 /\ IdAt(id.at) = id /\ id \notin activeTimers
      /\ \A x \in expired : x.at # id.at
      /\ \A i \in 1..Len(pending') : IsAdd(i)' => pending'[i].id # id
  <2>1. IsAdd(1)
    BY <1>1 DEF IsAdd
  <2>2. \A i \in 1..Len(pending') : i + 1 # 1
    OBVIOUS
  <2>3. \A i \in 1..Len(pending') : IsAdd(i)' => pending'[i].id # id
    BY <1>1, <1>2, <1>3, <2>1, <2>2 DEF PendingInv
  <2>4. QED
    BY <1>1, <1>3, <2>1, <2>3, Members DEF PendingInv
<1>5. /\ list' = list \cup {Entry(id.at)} /\ activeTimers' = activeTimers \cup {id}
      /\ alarm' = IF IsFirst(Entry(id.at)) THEN Armed(Entry(id.at).when) ELSE alarm
      /\ UNCHANGED <<now, mem, sequence, isCallingExpiredTimers, cancleingTimers, expired,
                     toRun, adding, issued, ran, cancelled, missed>>
  BY <1>1, <1>3, <1>4 DEF AddTimerInOwnerLoop, threadVars
<1>6. \A b \in Addrs : IdAt(b)' = IdAt(b) /\ Entry(b)' = Entry(b)
  BY <1>5 DEF IdAt, Entry
<1>7. /\ \A x \in activeTimers' : x.at \in Addrs
      /\ \A x \in expired : x.at \in Addrs
      /\ \A i \in 1..Len(pending) : pending[i].id.at \in Addrs
  BY <1>4, <1>5, Members DEF TypeOK, Entries
<1>8. Entry(id.at) \in Entries
  <2>1. mem[id.at].expiration \in 1..Horizon
    <3>1. mem[id.at].id = id.id /\ mem[id.at].expiration \in 0..Horizon
      BY <1>4, IdAtProperties DEF TypeOK
    <3>2. mem[id.at].expiration >= 1
      BY <1>4, <3>1 DEF NumbersInv
    <3>3. QED
      BY <3>1, <3>2, HorizonIsLast
  <2>2. QED
    BY <1>4, <2>1 DEF Entry, Entries
<1>9. alarm' \in 0..Horizon /\ ArmedInTime'
  BY <1>5, <1>8, InsertArms
<1>10. TypeOK'
  BY <1>1, <1>5, <1>8, <1>9 DEF TypeOK
<1>11. NumbersInv'
  <2>1. \A i \in 1..Len(pending') : pending'[i].id.id <= sequence
    BY <1>2 DEF NumbersInv
  <2>2. QED
    BY <1>5, <2>1 DEF NumbersInv
<1>12. ActiveInv'
  <2>1. \A x \in activeTimers' : x.id # 0 /\ IdAt(x.at) = x /\ Entry(x.at) \in list'
    BY <1>4, <1>5 DEF ActiveInv
  <2>2. \A e \in list' : \E x \in activeTimers' : e = Entry(x.at)
    BY <1>5 DEF ActiveInv
  <2>3. QED
    BY <1>6, <1>7, <2>1, <2>2 DEF ActiveInv
<1>13. PendingInv'
  <2>1. ASSUME NEW i \in 1..Len(pending'), IsAdd(i)', NEW p \in Ids, p = pending'[i].id
        PROVE  /\ p.id # 0 /\ IdAt(p.at)' = p /\ p \notin activeTimers'
               /\ \A x \in expired' : x.at # p.at
    <3>1. i + 1 \in 1..Len(pending) /\ p = pending[i + 1].id /\ IsAdd(i + 1)
      BY <1>2, <2>1
    <3>2. /\ p.id # 0 /\ IdAt(p.at) = p /\ p \notin activeTimers /\ p.at \in Addrs
          /\ \A x \in expired : x.at # p.at
      BY <1>7, <3>1 DEF PendingInv
    <3>3. p # id
      BY <1>4, <2>1
    <3>4. QED
      BY <1>5, <1>6, <3>2, <3>3
  <2>2. \A i, j \in 1..Len(pending') :
          IsAdd(i)' /\ IsAdd(j)' /\ pending'[i].id = pending'[j].id => i = j
    <3> SUFFICES ASSUME NEW i \in 1..Len(pending'), NEW j \in 1..Len(pending'),
                        IsAdd(i)', IsAdd(j)', pending'[i].id = pending'[j].id
                 PROVE  i = j
      OBVIOUS
    <3>1. i + 1 = j + 1
      BY <1>2 DEF PendingInv
    <3>2. QED
      BY <3>1
  <2>3. \A i \in 1..Len(pending') : pending'[i].id \in Ids
    BY <1>2, Members
  <2>4. QED
    BY <2>1, <2>2, <2>3 DEF PendingInv
<1>14. RoundInv'
  BY <1>4, <1>5, <1>6, <1>7, EntryProperties, IdAtProperties DEF RoundInv
<1>15. CancelInv'
  <2>1. \A y \in cancelled \ missed : y \notin activeTimers'
    BY <1>1, <1>3, <1>5 DEF CancelInv, IsAdd
  <2>2. \A y \in cancelled' \ missed' :
          /\ y \notin activeTimers'
          /\ \A x \in expired' : IdAt(x.at)' = y => y \in cancleingTimers'
    BY <1>5, <1>6, <1>7, <2>1 DEF CancelInv
  <2>3. \A i \in 1..Len(pending') :
          IsAdd(i)' /\ pending'[i].id \in cancelled => pending'[i].id \in missed
    BY <1>2 DEF CancelInv
  <2>4. QED
    BY <1>5, <2>2, <2>3 DEF CancelInv
<1>16. OnceInv'
  <2>1. \A x \in activeTimers' : mem[x.at].interval = 0 => x.id \notin ran
    BY <1>1, <1>3, <1>5 DEF OnceInv, IsAdd
  <2>2. \A i \in 1..Len(pending') :
          IsAdd(i)' /\ mem[pending'[i].id.at].interval = 0 => pending'[i].id.id \notin ran
    BY <1>2 DEF OnceInv
  <2>3. QED
    BY <1>5, <2>1, <2>2 DEF OnceInv
<1>17. QED
  BY <1>9, <1>10, <1>11, <1>12, <1>13, <1>14, <1>15, <1>16

LEMMA RunPendingKeeps ==
  ASSUME TimerInv, RunPending
  PROVE  TimerInv'
<1> USE DEF TimerInv
<1>1. pending # <<>> /\ pending' = Tail(pending) /\ UNCHANGED <<now, threadVars, ran>>
  BY DEF RunPending
<1>2. /\ Leaves(1) /\ 1 \in 1..Len(pending) /\ Head(pending) = pending[1]
      /\ pending' \in Seq([op : {"add", "cancel"}, id : Ids])
  BY <1>1, LeavesProperties
<1>3. CASE /\ Head(pending).op = "add"
           /\ AddTimerInOwnerLoop(Entry(Head(pending).id.at), IdAt(Head(pending).id.at))
           /\ UNCHANGED <<mem, sequence, cancelled, missed>>
  BY <1>1, <1>3, AddFunctorKeeps
<1>4. CASE Head(pending).op = "cancel" /\ CancelInOwnerLoop(Head(pending).id)
  <2>1. PICK id \in Ids : id = pending[1].id
    BY <1>2, Members
  <2>2. id.id <= sequence
    BY <1>2, <2>1 DEF NumbersInv
  <2>3. CancelInOwnerLoop(id)
    BY <1>2, <1>4, <2>1
  <2>4. QED
    BY <1>1, <1>2, <2>2, <2>3, CancelKeeps
<1>5. QED
  BY <1>3, <1>4 DEF RunPending

LEMMA OwnerCancelsKeeps ==
  ASSUME TimerInv, OwnerCancels, UNCHANGED <<now, ran>>
  PROVE  TimerInv'
<1> USE DEF TimerInv
<1>1. PICK id \in issued : CancelInOwnerLoop(id) /\ UNCHANGED <<pending, threadVars>>
  BY DEF OwnerCancels
<1>2. id \in Ids /\ id.id <= sequence
  BY Members DEF NumbersInv
<1>3. Leaves(0) /\ pending' \in Seq([op : {"add", "cancel"}, id : Ids])
  BY <1>1, LeavesProperties DEF TypeOK
<1>4. QED
  BY <1>1, <1>2, <1>3, CancelKeeps

LEMMA DueProperties ==
  ASSUME TimerInv, NEW due, due = {x \in list : x.when < now}
  PROVE  /\ due \subseteq Entries
         /\ \A x \in due : /\ x.at \in Addrs /\ x = Entry(x.at) /\ mem[x.at].id # 0
                           /\ IdAt(x.at) \in activeTimers
<1> USE DEF TimerInv
<1>1. due \subseteq Entries
  BY DEF TypeOK
<1>2. ASSUME NEW x \in due
      PROVE  /\ x.at \in Addrs /\ x = Entry(x.at) /\ mem[x.at].id # 0
             /\ IdAt(x.at) \in activeTimers
  <2>1. PICK y \in activeTimers : x = Entry(y.at)
    BY DEF ActiveInv
  <2>2. y \in Ids /\ y.at \in Addrs /\ y.id # 0 /\ IdAt(y.at) = y
    BY Members DEF ActiveInv
  <2>3. x.at = y.at
    BY <2>1, <2>2, EntryProperties
  <2>4. mem[y.at].id = y.id
    BY <2>2, IdAtProperties
  <2>5. QED
    BY <2>1, <2>2, <2>3, <2>4
<1>3. QED
  BY <1>1, <1>2

LEMMA HandleReadKeeps ==
  ASSUME TimerInv, HandleRead
  PROVE  TimerInv'
<1> USE DEF TimerInv
<1>1. PICK due : due = {x \in list : x.when < now}
  OBVIOUS
<1>2. /\ expired' = due /\ toRun' = due /\ list' = list \ due
      /\ activeTimers' = activeTimers \ {IdAt(x.at) : x \in due}
      /\ alarm' = 0 /\ isCallingExpiredTimers' = TRUE /\ cancleingTimers' = {}
      /\ UNCHANGED <<now, mem, sequence, pending, adding, issued, ran, cancelled, missed>>
  BY <1>1 DEF HandleRead, threadVars
<1>3. /\ due \subseteq Entries
      /\ \A x \in due : /\ x.at \in Addrs /\ x = Entry(x.at) /\ mem[x.at].id # 0
                        /\ IdAt(x.at) \in activeTimers
  BY <1>1, DueProperties
<1>4. \A b \in Addrs : IdAt(b)' = IdAt(b) /\ Entry(b)' = Entry(b)
  BY <1>2 DEF IdAt, Entry
<1>5. \A x \in activeTimers : x.at \in Addrs
  BY Members
<1>6. TypeOK'
  BY <1>2, <1>3, HorizonIsLast DEF TypeOK
<1>7. NumbersInv'
  BY <1>2 DEF NumbersInv
<1>8. ActiveInv'
  <2>1. \A x \in activeTimers' : x.id # 0 /\ IdAt(x.at) = x /\ Entry(x.at) \in list'
    <3> SUFFICES ASSUME NEW x \in activeTimers, Entry(x.at) \in due
                 PROVE  x \in {IdAt(y.at) : y \in due}
      BY <1>2 DEF ActiveInv
    <3>1. Entry(x.at).at = x.at
      BY <1>5, EntryProperties
    <3>2. QED
      BY <3>1 DEF ActiveInv
  <2>2. \A e \in list' : \E x \in activeTimers' : e = Entry(x.at)
    <3> TAKE e \in list'
    <3>1. PICK x \in activeTimers : e = Entry(x.at)
      BY <1>2 DEF ActiveInv
    <3>2. ASSUME NEW y \in due, x = IdAt(y.at) PROVE FALSE
      <4>1. x.at = y.at
        BY <1>3, <3>2, IdAtProperties
      <4>2. QED
        BY <1>2, <1>3, <3>1, <4>1
    <3>3. QED
      BY <1>2, <3>1, <3>2
  <2>3. QED
    BY <1>2, <1>4, <1>5, <2>1, <2>2 DEF ActiveInv
<1>9. PendingInv'
  <2>1. ASSUME NEW i \in 1..Len(pending), IsAdd(i), NEW p \in Ids, p = pending[i].id
        PROVE  /\ p.id # 0 /\ IdAt(p.at)' = p /\ p \notin activeTimers'
               /\ \A x \in expired' : x.at # p.at
    <3>1. p.id # 0 /\ IdAt(p.at) = p /\ p \notin activeTimers /\ p.at \in Addrs
      BY <2>1, Members DEF PendingInv
    <3>2. QED
      BY <1>2, <1>3, <1>4, <3>1
  <2>2. QED
    BY <1>2, <2>1, Members DEF PendingInv, IsAdd
<1>10. RoundInv'
  BY <1>2, <1>3, <1>4 DEF RoundInv
<1>11. CancelInv'
  <2>1. \A y \in cancelled \ missed : y \notin activeTimers
    BY DEF CancelInv
  <2>2. \A y \in cancelled \ missed, x \in due : IdAt(x.at)' # y
    BY <1>3, <1>4, <2>1
  <2>3. QED
    BY <1>2, <2>1, <2>2 DEF CancelInv, IsAdd
<1>12. OnceInv'
  <2>1. \A x \in due : mem[x.at].interval = 0 => mem[x.at].id \notin ran
    BY <1>3, IdAtProperties DEF OnceInv
  <2>2. QED
    BY <1>2, <2>1 DEF OnceInv, IsAdd
<1>13. ArmedInTime'
  BY <1>2 DEF ArmedInTime
<1>14. QED
  BY <1>6, <1>7, <1>8, <1>9, <1>10, <1>11, <1>12, <1>13

LEMMA RunTimerKeeps ==
  ASSUME TimerInv, RunTimer
  PROVE  TimerInv'
<1> USE DEF TimerInv
<1>1. PICK x \in toRun : toRun' = toRun \ {x} /\ ran' = ran \cup {mem[x.at].id}
  BY DEF RunTimer
<1>2. UNCHANGED <<now, mem, sequence, alarm, list, activeTimers, isCallingExpiredTimers,
                  cancleingTimers, expired, pending, adding, issued, cancelled, missed>>
  BY DEF RunTimer, threadVars
<1>3. \A y \in expired : /\ y.at \in Addrs /\ mem[y.at].id # 0 /\ y = Entry(y.at)
                         /\ IdAt(y.at) \notin activeTimers
  BY DEF TypeOK, Entries, RoundInv
<1>4. x \in expired /\ toRun \subseteq expired
  BY DEF TypeOK
<1>5. \A a \in Addrs : mem[a].id = mem[x.at].id => a = x.at
  BY <1>3, <1>4 DEF NumbersInv
<1>6. mem[x.at].id <= sequence /\ mem[x.at].id \in 0..MaxTimers
  BY <1>3, <1>4 DEF NumbersInv, TypeOK
<1>7. TypeOK'
  BY <1>1, <1>2, <1>6 DEF TypeOK
<1>8. NumbersInv'
  BY <1>1, <1>2, <1>6 DEF NumbersInv
<1>9. ActiveInv' /\ PendingInv' /\ RoundInv' /\ CancelInv' /\ ArmedInTime'
  BY <1>2 DEF ActiveInv, PendingInv, RoundInv, CancelInv, ArmedInTime, IsAdd, IdAt, Entry
<1>10. OnceInv'
  <2>1. \A y \in activeTimers : y.id # mem[x.at].id
    <3> TAKE y \in activeTimers
    <3>1. y.at \in Addrs /\ IdAt(y.at) = y /\ mem[y.at].id = y.id
      BY Members, IdAtProperties DEF ActiveInv
    <3>2. QED
      BY <1>3, <1>4, <1>5, <3>1
  <2>2. \A y \in toRun' : mem[y.at].id # mem[x.at].id
    BY <1>1, <1>3, <1>4, <1>5
  <2>3. \A i \in 1..Len(pending) : IsAdd(i) => pending[i].id.id # mem[x.at].id
    <3> SUFFICES ASSUME NEW i \in 1..Len(pending), IsAdd(i), NEW p \in Ids, p = pending[i].id
                 PROVE  p.id # mem[x.at].id
      BY Members
    <3>1. p.at \in Addrs /\ IdAt(p.at) = p /\ p.at # x.at
      BY <1>4, Members DEF PendingInv
    <3>2. mem[p.at].id = p.id
      BY <3>1, IdAtProperties
    <3>3. QED
      BY <1>5, <3>1, <3>2
  <2>4. \A n \in ran' : n \in ran \/ n = mem[x.at].id
    BY <1>1
  <2>5. toRun' \subseteq toRun
    BY <1>1
  <2>6. \A y \in toRun' : mem[y.at].interval = 0 => mem[y.at].id \notin ran'
    BY <2>2, <2>4, <2>5 DEF OnceInv
  <2>7. \A y \in activeTimers : mem[y.at].interval = 0 => y.id \notin ran'
    BY <2>1, <2>4 DEF OnceInv
  <2>8. \A i \in 1..Len(pending) :
          IsAdd(i) /\ mem[pending[i].id.at].interval = 0 => pending[i].id.id \notin ran'
    BY <2>3, <2>4 DEF OnceInv
  <2>9. QED
    BY <1>2, <2>6, <2>7, <2>8 DEF OnceInv, IsAdd
<1>11. QED
  BY <1>7, <1>8, <1>9, <1>10

LEMMA TickKeeps ==
  ASSUME TimerInv, Tick
  PROVE  TimerInv'
<1> USE DEF TimerInv
<1>1. /\ now < MaxTime /\ now' = now + 1
      /\ UNCHANGED <<mem, sequence, alarm, list, activeTimers, isCallingExpiredTimers, expired,
                     cancleingTimers, toRun, pending, adding, issued, ran, cancelled, missed>>
  BY DEF Tick, queueVars, threadVars
<1>2. TypeOK'
  BY <1>1, TimerAssumption DEF TypeOK
<1>3. ArmedInTime'
  <2>1. now \in Nat /\ alarm \in Nat /\ \A x \in list : x.when \in Nat
    BY HorizonIsLast, TimerAssumption DEF TypeOK, Entries
  <2>2. \A x \in list : Later(x.when, now + 1) <= Later(x.when, now' + 1)
    BY <1>1, <2>1 DEF Later
  <2>3. \A x \in list : Later(x.when, now + 1) \in Nat /\ Later(x.when, now' + 1) \in Nat
    BY <1>1, <2>1 DEF Later
  <2>4. QED
    BY <1>1, <2>1, <2>2, <2>3 DEF ArmedInTime
<1>4. NumbersInv' /\ ActiveInv' /\ PendingInv' /\ RoundInv' /\ CancelInv' /\ OnceInv'
  BY <1>1 DEF NumbersInv, ActiveInv, PendingInv, RoundInv, CancelInv, OnceInv, IsAdd, IdAt, Entry
<1>5. QED
  BY <1>2, <1>3, <1>4

-----------------------------------------------------------------------------
(***************************************************************************)
(* The end of a round.                                                     *)
(***************************************************************************)
LEMMA LeastElement ==
  ASSUME NEW T, T \subseteq Nat, T # {}
  PROVE  \E x \in T : \A y \in T : x <= y
<1> DEFINE Less == {ss \in Nat \X Nat : ss[1] < ss[2]}
<1>1. IsWellFoundedOn(Less, Nat)
  BY NatLessThanWellFounded DEF OpToRel
<1> HIDE DEF Less
<1>2. PICK x \in T : \A y \in T : <<y, x>> \notin Less
  BY <1>1, WFMin
<1>3. \A y \in T : ~(y < x)
  BY <1>2 DEF Less
<1>4. QED
  BY <1>3

LEMMA FirstEntry ==
  ASSUME NEW L \in SUBSET Entries, L # {}
  PROVE  LET first == CHOOSE x \in L : \A y \in L : x.when <= y.when
         IN  first \in L /\ \A y \in L : first.when <= y.when
<1> DEFINE T == {x.when : x \in L}
<1>1. \A x \in L : x.when \in Nat
  BY DEF Entries
<1>2. T \subseteq Nat /\ T # {}
  BY <1>1
<1>3. PICK t \in T : \A y \in T : t <= y
  BY <1>2, LeastElement
<1>4. PICK x \in L : t = x.when
  OBVIOUS
<1>5. \A y \in L : x.when <= y.when
  BY <1>3, <1>4
<1>6. QED
  BY <1>4, <1>5

LEMMA ResetKeeps ==
  ASSUME TimerInv, Reset
  PROVE  TimerInv'
<1> USE DEF TimerInv
<1> DEFINE again == {x \in expired : Repeats(x)}
           gone == {x.at : x \in expired \ again}
           next(x) == [when |-> now + mem[x.at].interval, at |-> x.at]
<1>1. /\ mem' = [a \in Addrs |->
            IF a \in gone THEN Freed
            ELSE IF \E x \in again : x.at = a
                 THEN [mem[a] EXCEPT !.expiration = now + mem[a].interval]
                 ELSE mem[a]]
      /\ list' = list \cup {next(x) : x \in again}
      /\ activeTimers' = activeTimers \cup {IdAt(x.at) : x \in again}
      /\ isCallingExpiredTimers' = FALSE /\ expired' = {} /\ toRun = {}
      /\ alarm' = IF list' = {} THEN alarm
                  ELSE Armed((CHOOSE x \in list' : \A y \in list' : x.when <= y.when).when)
  BY DEF Reset
<1>2. UNCHANGED <<now, sequence, cancleingTimers, toRun, pending, adding, issued, ran,
                  cancelled, missed>>
  BY DEF Reset, threadVars
<1>3. \A x \in expired : /\ x.at \in Addrs /\ mem[x.at].id # 0 /\ x = Entry(x.at)
                         /\ IdAt(x.at) \notin activeTimers
  BY DEF TypeOK, Entries, RoundInv
<1>4. \A x \in again : /\ x \in expired /\ x.at \notin gone
                       /\ mem[x.at].interval > 0 /\ IdAt(x.at) \notin cancleingTimers
  <2> TAKE x \in again
  <2>1. x \in expired /\ mem[x.at].interval > 0 /\ IdAt(x.at) \notin cancleingTimers
    BY DEF Repeats
  <2>2. ASSUME NEW y \in expired \ again, x.at = y.at PROVE FALSE
    BY <1>3, <2>1, <2>2
  <2>3. QED
    BY <2>1, <2>2
<1>5. \A a \in Addrs : (\A x \in expired : x.at # a) => mem'[a] = mem[a] /\ a \notin gone
  BY <1>1
<1>6. \A x \in again : /\ mem'[x.at].id = mem[x.at].id
                       /\ mem'[x.at].interval = mem[x.at].interval
                       /\ mem'[x.at].expiration = now + mem[x.at].interval
  <2> TAKE x \in again
  <2>1. x.at \in Addrs /\ x.at \notin gone
    BY <1>3, <1>4
  <2>2. mem'[x.at] = [mem[x.at] EXCEPT !.expiration = now + mem[x.at].interval]
    BY <1>1, <2>1
  <2>3. mem[x.at] \in [id : 0..MaxTimers, expiration : 0..Horizon, interval : Delays \cup {0}]
    BY <2>1 DEF TypeOK
  <2>4. QED
    BY <2>2, <2>3
<1>7. \A a \in gone : a \in Addrs /\ mem'[a].id = 0 /\ mem'[a].expiration = 0 /\ mem'[a].interval = 0
  BY <1>1, <1>3 DEF Freed
<1>8. \A x \in again : /\ now + mem[x.at].interval \in 1..Horizon
                       /\ next(x) \in Entries
                       /\ next(x) = Entry(x.at)' /\ IdAt(x.at)' = IdAt(x.at)
                       /\ IdAt(x.at) \in Ids /\ IdAt(x.at).at = x.at /\ IdAt(x.at).id = mem[x.at].id
  <2> TAKE x \in again
  <2>1. x.at \in Addrs
    BY <1>3, <1>4
  <2>2. mem[x.at].interval \in Delays
    BY <1>4, <2>1 DEF TypeOK
  <2>3. now + mem[x.at].interval \in 1..Horizon
    BY <2>2, HorizonIsLast DEF TypeOK
  <2>4. next(x) \in Entries
    BY <2>1, <2>3 DEF Entries
  <2>5. next(x) = Entry(x.at)' /\ IdAt(x.at)' = IdAt(x.at)
    BY <1>6 DEF Entry, IdAt
  <2>6. QED
    BY <2>1, <2>3, <2>4, <2>5, IdAtProperties
<1>9. \A x \in activeTimers : /\ x.at \in Addrs /\ IdAt(x.at)' = IdAt(x.at)
                              /\ Entry(x.at)' = Entry(x.at) /\ mem'[x.at] = mem[x.at]
  <2> TAKE x \in activeTimers
  <2>1. x.at \in Addrs /\ IdAt(x.at) = x
    BY Members DEF ActiveInv
  <2>2. \A y \in expired : y.at # x.at
    BY <1>3, <2>1
  <2>3. mem'[x.at] = mem[x.at]
    BY <1>5, <2>1, <2>2
  <2>4. QED
    BY <2>1, <2>3 DEF IdAt, Entry
<1>10. \A i \in 1..Len(pending) : IsAdd(i) =>
         /\ \A x \in expired : x.at # pending[i].id.at
         /\ pending[i].id.at \in Addrs /\ mem'[pending[i].id.at] = mem[pending[i].id.at]
  <2> TAKE i \in 1..Len(pending)
  <2> HAVE IsAdd(i)
  <2>1. pending[i].id.at \in Addrs /\ \A x \in expired : x.at # pending[i].id.at
    BY Members DEF PendingInv
  <2>2. QED
    BY <1>5, <2>1
<1>11. \A a \in Addrs : \/ \A x \in expired : x.at # a
                        \/ \E x \in again : x.at = a
                        \/ a \in gone
  OBVIOUS
<1>12. mem' \in [Addrs -> [id : 0..MaxTimers, expiration : 0..Horizon, interval : Delays \cup {0}]]
  <2>1. Freed \in [id : 0..MaxTimers, expiration : 0..Horizon, interval : Delays \cup {0}]
    BY HorizonIsLast, TimerAssumption DEF Freed
  <2>2. ASSUME NEW x \in again
        PROVE  [mem[x.at] EXCEPT !.expiration = now + mem[x.at].interval]
                 \in [id : 0..MaxTimers, expiration : 0..Horizon, interval : Delays \cup {0}]
    <3>1. mem[x.at] \in [id : 0..MaxTimers, expiration : 0..Horizon, interval : Delays \cup {0}]
      BY <1>3, <1>4 DEF TypeOK
    <3>2. now + mem[x.at].interval \in 0..Horizon
      <4>1. now + mem[x.at].interval \in 1..Horizon
        BY <1>8
      <4>2. QED
        BY <4>1
    <3>3. QED
      BY <3>1, <3>2
  <2>3. QED
    BY <1>1, <2>1, <2>2 DEF TypeOK
<1>13. list' \subseteq Entries /\ activeTimers' \subseteq Ids
  <2>1. list \subseteq Entries /\ activeTimers \subseteq Ids
    BY DEF TypeOK
  <2>2. \A x \in again : next(x) \in Entries /\ IdAt(x.at) \in Ids
    BY <1>8
  <2> HIDE DEF again, gone, next
  <2>3. list' \subseteq Entries
    BY <1>1, <2>1, <2>2
  <2>4. activeTimers' \subseteq Ids
    BY <1>1, <2>1, <2>2
  <2>5. QED
    BY <2>3, <2>4
<1> HIDE DEF again, gone, next
<1>14. alarm' \in 0..Horizon /\ \A x \in list' : alarm' # 0 /\ alarm' <= Later(x.when, now + 1)
  <2>1. CASE list' = {}
    BY <1>1, <2>1 DEF TypeOK
  <2>2. CASE list' # {}
    <3>1. PICK first \in list' : /\ \A y \in list' : first.when <= y.when
                                 /\ alarm' = Armed(first.when)
      BY <1>1, <1>13, <2>2, FirstEntry
    <3>2. \A y \in list' : y.when \in 1..Horizon
      BY <1>13 DEF Entries
    <3>3. alarm' \in 1..Horizon /\ alarm' <= Later(first.when, now + 1)
      BY <3>1, <3>2, ArmedType
    <3>4. now \in Nat
      BY Members
    <3>5. QED
      BY <3>1, <3>2, <3>3, <3>4 DEF Later
  <2>3. QED
    BY <2>1, <2>2
<1>15. TypeOK'
  BY <1>1, <1>2, <1>12, <1>13, <1>14 DEF TypeOK
<1>16. ArmedInTime'
  BY <1>2, <1>14 DEF ArmedInTime
<1>17. NumbersInv'
  <2>1. \A a \in Addrs : mem'[a].id = 0 \/ mem'[a].id = mem[a].id
    BY <1>5, <1>6, <1>7, <1>11
  <2>2. \A a \in Addrs : mem'[a].id # 0 => mem'[a].expiration >= 1
    <3> TAKE a \in Addrs
    <3>1. CASE \A x \in expired : x.at # a
      BY <1>5, <3>1 DEF NumbersInv
    <3>2. CASE \E x \in again : x.at = a
      BY <1>6, <1>8, <3>2
    <3>3. CASE a \in gone
      BY <1>7, <3>3
    <3>4. QED
      BY <1>11, <3>1, <3>2, <3>3
  <2>3. \A a \in Addrs : mem'[a].id <= sequence
    BY <2>1, Members DEF NumbersInv
  <2>4. \A a, b \in Addrs : mem'[a].id = mem'[b].id /\ mem'[a].id # 0 => a = b
    BY <2>1 DEF NumbersInv
  <2>5. QED
    BY <1>2, <2>2, <2>3, <2>4 DEF NumbersInv
<1>18. ActiveInv'
  <2>1. \A x \in activeTimers' : x.id # 0 /\ IdAt(x.at)' = x /\ Entry(x.at)' \in list'
    <3> TAKE x \in activeTimers'
    <3>1. CASE x \in activeTimers
      BY <1>1, <1>9, <3>1 DEF ActiveInv
    <3>2. CASE \E y \in again : x = IdAt(y.at)
      BY <1>1, <1>3, <1>4, <1>8, <3>2
    <3>3. QED
      BY <1>1, <3>1, <3>2
  <2>2. \A e \in list' : \E x \in activeTimers' : e = Entry(x.at)'
    <3> TAKE e \in list'
    <3>1. CASE e \in list
      <4>1. PICK x \in activeTimers : e = Entry(x.at)
        BY <3>1 DEF ActiveInv
      <4>2. x \in activeTimers' /\ e = Entry(x.at)'
        BY <1>1, <1>9, <4>1
      <4>3. QED
        BY <4>2
    <3>2. CASE \E y \in again : e = next(y)
      <4>1. PICK y \in again : e = next(y)
        BY <3>2
      <4>2. IdAt(y.at) \in activeTimers' /\ IdAt(y.at).at = y.at /\ e = Entry(y.at)'
        BY <1>1, <1>8, <4>1
      <4>3. PICK x \in activeTimers' : x.at = y.at
        BY <4>2
      <4>4. Entry(x.at)' = Entry(y.at)'
        BY <4>3 DEF Entry
      <4>5. QED
        BY <4>2, <4>4
    <3>3. QED
      BY <1>1, <3>1, <3>2
  <2>3. QED
    BY <2>1, <2>2 DEF ActiveInv
<1>19. PendingInv'
  <2>1. ASSUME NEW i \in 1..Len(pending), IsAdd(i), NEW p \in Ids, p = pending[i].id
        PROVE  p.id # 0 /\ IdAt(p.at)' = p /\ p \notin activeTimers'
    <3>1. p.id # 0 /\ IdAt(p.at) = p /\ p \notin activeTimers /\ mem'[p.at] = mem[p.at]
      BY <1>10, <2>1 DEF PendingInv
    <3>2. \A x \in again : IdAt(x.at) # p
      BY <1>4, <1>8, <1>10, <2>1
    <3>3. QED
      BY <1>1, <3>1, <3>2 DEF IdAt
  <2>2. QED
    BY <1>1, <1>2, <2>1, Members DEF PendingInv, IsAdd
<1>20. RoundInv'
  BY <1>1 DEF RoundInv
<1>21. CancelInv'
  <2>1. \A y \in cancelled \ missed : y \notin activeTimers'
    BY <1>1, <1>4 DEF CancelInv
  <2>2. QED
    BY <1>1, <1>2, <2>1 DEF CancelInv, IsAdd
<1>22. OnceInv'
  <2>1. \A x \in activeTimers' : mem'[x.at].interval = 0 => x.id \notin ran
    <3> TAKE x \in activeTimers'
    <3>1. CASE x \in activeTimers
      BY <1>9, <3>1 DEF OnceInv
    <3>2. CASE \E y \in again : x = IdAt(y.at)
      BY <1>4, <1>6, <1>8, <3>2
    <3>3. QED
      BY <1>1, <3>1, <3>2
  <2>2. \A i \in 1..Len(pending) :
          IsAdd(i) /\ mem'[pending[i].id.at].interval = 0 => pending[i].id.id \notin ran
    BY <1>10 DEF OnceInv
  <2>3. QED
    BY <1>1, <1>2, <2>1, <2>2 DEF OnceInv, IsAdd
<1>23. QED
  BY <1>15, <1>16, <1>17, <1>18, <1>19, <1>20, <1>21, <1>22

-----------------------------------------------------------------------------
(***************************************************************************)
(* The invariant holds, and with it what the queue promises.               *)
(***************************************************************************)
LEMMA TimerNext == TimerInv /\ [Next]_vars => TimerInv'
<1> SUFFICES ASSUME TimerInv, [Next]_vars PROVE TimerInv'
  OBVIOUS
<1>1. CASE RunPending
  BY <1>1, RunPendingKeeps
<1>2. CASE HandleRead
  BY <1>2, HandleReadKeeps
<1>3. CASE RunTimer
  BY <1>3, RunTimerKeeps
<1>4. CASE Reset
  BY <1>4, ResetKeeps
<1>5. CASE OwnerCalls \/ CallbackCalls
  BY <1>5, OwnerAddsKeeps, OwnerCancelsKeeps DEF OwnerCalls, CallbackCalls
<1>6. CASE \E th \in Threads : OtherAdds(th) \/ ReturnTimerId(th)
  BY <1>6, OtherAddsKeeps, ReturnKeeps
<1>7. CASE \E id \in issued : OtherCancels(id)
  BY <1>7, OtherCancelsKeeps
<1>8. CASE Tick
  BY <1>8, TickKeeps
<1>9. CASE UNCHANGED vars
  BY <1>9 DEF vars, queueVars, threadVars, TimerInv, TypeOK, NumbersInv, ActiveInv, PendingInv,
       RoundInv, CancelInv, OnceInv, ArmedInTime, IsAdd, IdAt, Entry
<1>10. QED
  BY <1>1, <1>2, <1>3, <1>4, <1>5, <1>6, <1>7, <1>8, <1>9 DEF Next, LoopStep

LEMMA TimerInvariant == Spec => []TimerInv
  BY TimerInit, TimerNext, PTL DEF Spec

(* TypeOK holds: no time passes the horizon of the clock's last value and  *)
(* the longest delay (timer-queue.cpp:17-54).                              *)
THEOREM TypeCorrect == Spec => []TypeOK
<1>1. TimerInv => TypeOK
  BY DEF TimerInv
<1>2. QED
  BY <1>1, TimerInvariant, PTL

LEMMA InvIsSound == TimerInv => QueueIsSound
<1> SUFFICES ASSUME TimerInv PROVE QueueIsSound
  OBVIOUS
<1> USE DEF TimerInv
<1>1. IndexesAgree
  <2>1. \A x \in activeTimers : IdAt(x.at) = x /\ Entry(x.at) \in list
    BY DEF ActiveInv
  <2>2. \A e \in list : \E x \in activeTimers : e = Entry(x.at)
    BY DEF ActiveInv
  <2>3. QED
    BY <2>1, <2>2 DEF IndexesAgree
<1>2. PointersAlive
  BY DEF PointersAlive, RoundInv, PendingInv, IsAdd
<1>3. CancelHolds
  BY DEF CancelHolds, CancelInv
<1>4. QED
  BY <1>1, <1>2, <1>3 DEF QueueIsSound

(* QueueIsSound holds: the two indexes hold the same, living timers, the   *)
(* pointers of a round and of queued additions stay valid, and a cancelled *)
(* timer is not scheduled again (timer-queue.cpp:35, 61-67, 90, 120-134).  *)
THEOREM QueueStaysSound == Spec => []QueueIsSound
  BY InvIsSound, TimerInvariant, PTL

(* ArmedInTime holds: between two rounds the descriptor is armed no later  *)
(* than the first timer needs (timer-queue.cpp:52-53, 99-103).             *)
THEOREM NoTimerOversleeps == Spec => []ArmedInTime
<1>1. TimerInv => ArmedInTime
  BY DEF TimerInv
<1>2. QED
  BY <1>1, TimerInvariant, PTL

LEMMA EndsRightly ==
  ASSUME TimerInv, [Next]_vars
  PROVE  /\ \A id \in activeTimers \ activeTimers' :
              id \in cancelled' \/ \E x \in expired' : x.at = id.at
         /\ \A x \in toRun \ toRun' : mem[x.at].interval = 0 => mem[x.at].id \notin ran
<1> USE DEF TimerInv
<1>1. ASSUME NEW i, CancelInOwnerLoop(i)
      PROVE  /\ \A id \in activeTimers \ activeTimers' : id \in cancelled'
             /\ UNCHANGED toRun
  BY <1>1 DEF CancelInOwnerLoop, Matching
<1>2. ASSUME NEW e, NEW i, AddTimerInOwnerLoop(e, i)
      PROVE  activeTimers \subseteq activeTimers' /\ UNCHANGED toRun
  BY <1>2 DEF AddTimerInOwnerLoop
<1>3. CASE RunPending
  BY <1>1, <1>2, <1>3 DEF RunPending
<1>4. CASE OwnerCalls \/ CallbackCalls
  BY <1>1, <1>2, <1>4 DEF OwnerCalls, CallbackCalls, OwnerAdds, OwnerCancels
<1>5. CASE HandleRead
  <2>1. PICK due : due = {x \in list : x.when < now}
    OBVIOUS
  <2>2. expired' = due /\ activeTimers' = activeTimers \ {IdAt(x.at) : x \in due}
    BY <1>5, <2>1 DEF HandleRead
  <2>3. \A x \in due : x.at \in Addrs
    BY <2>1, DueProperties
  <2>4. \A id \in activeTimers \ activeTimers' : \E x \in due : x.at = id.at
    BY <2>2, <2>3, IdAtProperties
  <2>5. toRun = {}
    BY <1>5 DEF HandleRead, RoundInv, TypeOK
  <2>6. QED
    BY <2>2, <2>4, <2>5
<1>6. CASE RunTimer
  BY <1>6 DEF RunTimer, OnceInv
<1>7. CASE Reset
  BY <1>7 DEF Reset
<1>8. CASE \E th \in Threads : OtherAdds(th) \/ ReturnTimerId(th)
  BY <1>8 DEF OtherAdds, ReturnTimerId, queueVars
<1>9. CASE \E id \in issued : OtherCancels(id)
  BY <1>9 DEF OtherCancels, queueVars
<1>10. CASE Tick
  BY <1>10 DEF Tick, queueVars
<1>11. CASE UNCHANGED vars
  BY <1>11 DEF vars, queueVars
<1>12. QED
  BY <1>3, <1>4, <1>5, <1>6, <1>7, <1>8, <1>9, <1>10, <1>11 DEF Next, LoopStep

(* Every step keeps TimersEndRightly: a TimerId that outlives its timer    *)
(* cancels no other, and a timer of runAt or runAfter is called once       *)
(* (timer-queue.cpp:90-96, 121-122).                                       *)
THEOREM NoTimerEndsWrongly == Spec => TimersEndRightly
  BY EndsRightly, TimerInvariant, PTL DEF Spec, TimersEndRightly
=============================================================================
