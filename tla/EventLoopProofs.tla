-------------------------- MODULE EventLoopProofs --------------------------
(***************************************************************************)
(* Proofs about EventLoop, for every set of threads and functors.          *)
(***************************************************************************)
EXTENDS EventLoop, SequenceTheorems, TLAPS

-----------------------------------------------------------------------------
(***************************************************************************)
(* Type correctness.                                                       *)
(***************************************************************************)
LEMMA TypeInit == Init => TypeOK
<1> SUFFICES ASSUME Init PROVE TypeOK
  OBVIOUS
<1>1. <<>> \in Seq(Tasks)
  BY EmptySeq
<1>2. pc \in [Threads -> {"idle", "pushed", "quitting"}]
  BY DEF Init
<1>3. active \subseteq Channels /\ asked \subseteq Threads
  BY DEF Init
<1>4. QED
  BY <1>1, <1>2, <1>3 DEF Init, TypeOK, Phases

LEMMA TypeNext == TypeOK /\ [Next]_vars => TypeOK'
<1> SUFFICES ASSUME TypeOK, [Next]_vars PROVE TypeOK'
  OBVIOUS
<1> USE DEF TypeOK, Goto, Phases, Channels, Threads,
            loopVars, queueVars, quitVars
<1>1. ASSUME NEW t \in Threads, NEW task \in Tasks, Push(t, task) PROVE TypeOK'
  BY <1>1 DEF Push
<1>2. ASSUME NEW t \in Threads, Quit(t) PROVE TypeOK'
  BY <1>2 DEF Quit
<1>3. ASSUME NEW t \in Threads, WakeAfterPush(t) PROVE TypeOK'
  BY <1>3 DEF WakeAfterPush
<1>4. ASSUME NEW t \in Threads, WakeAfterQuit(t) PROVE TypeOK'
  BY <1>4 DEF WakeAfterQuit
<1>5. CASE DeviceReady
  BY <1>5 DEF DeviceReady
<1>6. CASE EnterLoop \/ ClearQuit \/ TestQuit
  BY <1>6 DEF EnterLoop, ClearQuit, TestQuit
<1>7. CASE PollReturns \/ PollTimesOut
  BY <1>7 DEF PollReturns, PollTimesOut, Readable
<1>8. CASE HandleWakeup \/ BeginDevice
  <2>1. active' \subseteq Channels
    BY <1>8 DEF HandleWakeup, BeginDevice
  <2>2. counter' \in Nat
    BY <1>8 DEF HandleWakeup, BeginDevice
  <2>3. busy' \in BOOLEAN /\ ready' \in BOOLEAN
    BY <1>8, Zenon DEF HandleWakeup, BeginDevice
  <2>4. UNCHANGED <<phase, functions, memo, calling, quit, pc, asked, posted, ran>>
    BY <1>8 DEF HandleWakeup, BeginDevice
  <2>5. QED
    BY <2>1, <2>2, <2>3, <2>4
<1>9. CASE SwapFunctions
  BY <1>9, EmptySeq DEF SwapFunctions
<1>10. CASE BeginTask
  BY <1>10 DEF BeginTask
<1>11. CASE EndCallback \/ EndPending
  BY <1>11 DEF EndCallback, EndPending
<1>12. CASE UNCHANGED vars
  BY <1>12 DEF vars
<1>13. QED
  BY <1>1, <1>2, <1>3, <1>4, <1>5, <1>6, <1>7, <1>8, <1>9, <1>10, <1>11, <1>12
     DEF Next, LoopStep, Call, Wake

(***************************************************************************)
(* Every variable of the loop keeps its type (event-loop.h:115-139).       *)
(***************************************************************************)
THEOREM TypeCorrect == Spec => []TypeOK
  BY TypeInit, TypeNext, PTL DEF Spec

-----------------------------------------------------------------------------
(***************************************************************************)
(* No lost wakeup.  In the invariant the phases in which the owner may     *)
(* still go to sleep without looking at the queue are all but "events":    *)
(* from there the swap follows.  A push by the owner inside the batch is   *)
(* covered because _callingPendingFunctions is TRUE exactly then.          *)
(***************************************************************************)
OwnerInv ==
  /\ calling <=> phase = "tasks"
  /\ busy => phase \in {"events", "tasks"}
  /\ pc[Owner] # "idle" => busy

WakeupInv ==
  functions # <<>> /\ phase \notin {"events", "stopped"} =>
    counter > 0 \/ \E t \in Threads : pc[t] = "pushed"

LEMMA OwnerInit == Init => OwnerInv
  BY DEF Init, OwnerInv, Threads

LEMMA OwnerNext == TypeOK /\ OwnerInv /\ [Next]_vars => OwnerInv'
<1> SUFFICES ASSUME TypeOK, OwnerInv, [Next]_vars PROVE OwnerInv'
  OBVIOUS
<1> USE DEF TypeOK, OwnerInv, Goto, Phases, Threads, loopVars, queueVars, quitVars
<1>1. ASSUME NEW t \in Threads, NEW task \in Tasks, Push(t, task) PROVE OwnerInv'
  BY <1>1 DEF Push, CanCall
<1>2. ASSUME NEW t \in Threads, Quit(t) PROVE OwnerInv'
  BY <1>2 DEF Quit, CanCall
<1>3. ASSUME NEW t \in Threads, WakeAfterPush(t) \/ WakeAfterQuit(t) PROVE OwnerInv'
  BY <1>3 DEF WakeAfterPush, WakeAfterQuit
<1>4. CASE DeviceReady
  BY <1>4 DEF DeviceReady
<1>5. CASE EnterLoop \/ ClearQuit \/ TestQuit
  BY <1>5 DEF EnterLoop, ClearQuit, TestQuit
<1>6. CASE PollReturns \/ PollTimesOut
  BY <1>6 DEF PollReturns, PollTimesOut
<1>7. CASE HandleWakeup \/ BeginDevice
  BY <1>7 DEF HandleWakeup, BeginDevice
<1>8. CASE SwapFunctions \/ BeginTask
  BY <1>8 DEF SwapFunctions, BeginTask
<1>9. CASE EndCallback \/ EndPending
  BY <1>9 DEF EndCallback, EndPending
<1>10. CASE UNCHANGED vars
  BY <1>10 DEF vars
<1>11. QED
  BY <1>1, <1>2, <1>3, <1>4, <1>5, <1>6, <1>7, <1>8, <1>9, <1>10
     DEF Next, LoopStep, Call, Wake

LEMMA WakeupInit == Init => WakeupInv
  BY DEF Init, WakeupInv

LEMMA WakeupNext == TypeOK /\ OwnerInv /\ WakeupInv /\ [Next]_vars => WakeupInv'
<1> SUFFICES ASSUME TypeOK, OwnerInv, WakeupInv, [Next]_vars PROVE WakeupInv'
  OBVIOUS
<1> USE DEF TypeOK, WakeupInv, Goto, Phases, loopVars, queueVars, quitVars
<1>1. ASSUME NEW t \in Threads, NEW task \in Tasks, Push(t, task) PROVE WakeupInv'
  BY <1>1 DEF Push
<1>2. ASSUME NEW t \in Threads, Quit(t) PROVE WakeupInv'
  BY <1>2 DEF Quit, CanCall
<1>3. ASSUME NEW t \in Threads, WakeAfterPush(t) PROVE WakeupInv'
  <2>1. CASE NeedsWakeup(t)
    BY <1>3, <2>1 DEF WakeAfterPush
  <2>2. CASE ~NeedsWakeup(t)
    <3>1. phase = "events"
      BY <1>3, <2>2 DEF WakeAfterPush, NeedsWakeup, OwnerInv
    <3>2. QED
      BY <1>3, <3>1 DEF WakeAfterPush
  <2>3. QED
    BY <2>1, <2>2
<1>4. ASSUME NEW t \in Threads, WakeAfterQuit(t) PROVE WakeupInv'
  BY <1>4 DEF WakeAfterQuit
<1>5. CASE DeviceReady
  BY <1>5 DEF DeviceReady
<1>6. CASE EnterLoop \/ ClearQuit \/ TestQuit
  BY <1>6 DEF EnterLoop, ClearQuit, TestQuit
<1>7. CASE PollReturns \/ PollTimesOut
  BY <1>7 DEF PollReturns, PollTimesOut
<1>8. CASE HandleWakeup \/ BeginDevice
  BY <1>8 DEF HandleWakeup, BeginDevice
<1>9. CASE SwapFunctions \/ BeginTask
  BY <1>9 DEF SwapFunctions, BeginTask
<1>10. CASE EndCallback \/ EndPending
  BY <1>10 DEF EndCallback, EndPending
<1>11. CASE UNCHANGED vars
  BY <1>11 DEF vars
<1>12. QED
  BY <1>1, <1>2, <1>3, <1>4, <1>5, <1>6, <1>7, <1>8, <1>9, <1>10, <1>11
     DEF Next, LoopStep, Call, Wake

(***************************************************************************)
(* The owner never blocks in epoll_wait with a functor queued and nobody   *)
(* about to wake it (event-loop.cpp:88-100).                               *)
(***************************************************************************)
THEOREM NoWakeupIsLost == Spec => []NoLostWakeup
<1>1. WakeupInv => NoLostWakeup
  BY DEF WakeupInv, NoLostWakeup
<1>2. QED
  BY <1>1, TypeInit, TypeNext, OwnerInit, OwnerNext, WakeupInit, WakeupNext, PTL
     DEF Spec

-----------------------------------------------------------------------------
(***************************************************************************)
(* No sleeping on a quit().  The flag is tested on the way to epoll_wait,  *)
(* so a quitter that is too late for the test still has its write to do.   *)
(***************************************************************************)
LEMMA QuitNext == TypeOK /\ NoSleepOnQuit /\ [Next]_vars => NoSleepOnQuit'
<1> SUFFICES ASSUME TypeOK, NoSleepOnQuit, [Next]_vars PROVE NoSleepOnQuit'
  OBVIOUS
<1> USE DEF TypeOK, NoSleepOnQuit, Goto, Phases, loopVars, queueVars, quitVars
<1>1. ASSUME NEW t \in Threads, NEW task \in Tasks, Push(t, task) PROVE NoSleepOnQuit'
  BY <1>1 DEF Push, CanCall
<1>2. ASSUME NEW t \in Threads, Quit(t) PROVE NoSleepOnQuit'
  BY <1>2 DEF Quit
<1>3. ASSUME NEW t \in Threads, WakeAfterPush(t) PROVE NoSleepOnQuit'
  BY <1>3 DEF WakeAfterPush, NeedsWakeup
<1>4. ASSUME NEW t \in Threads, WakeAfterQuit(t) PROVE NoSleepOnQuit'
  BY <1>4 DEF WakeAfterQuit
<1>5. CASE DeviceReady
  BY <1>5 DEF DeviceReady
<1>6. CASE LoopStep \/ PollTimesOut
  BY <1>6 DEF LoopStep, EnterLoop, ClearQuit, TestQuit, PollReturns, PollTimesOut,
              HandleWakeup, BeginDevice, SwapFunctions, BeginTask, EndCallback, EndPending
<1>7. CASE UNCHANGED vars
  BY <1>7 DEF vars
<1>8. QED
  BY <1>1, <1>2, <1>3, <1>4, <1>5, <1>6, <1>7 DEF Next, Call, Wake

(***************************************************************************)
(* The owner never blocks in epoll_wait after a quit() it could see, unless*)
(* the eventfd is or will be written (event-loop.cpp:50-55).               *)
(***************************************************************************)
THEOREM NobodySleepsOnQuit == Spec => []NoSleepOnQuit
<1>1. Init => NoSleepOnQuit
  BY DEF Init, NoSleepOnQuit
<1>2. QED
  BY <1>1, TypeInit, TypeNext, QuitNext, PTL DEF Spec

(***************************************************************************)
(* The owner never blocks in epoll_wait with something left to do: a       *)
(* functor in the queue or a quit() it could see, unless the eventfd is or *)
(* will be written (event-loop.cpp:50-55, 88-100).                         *)
(***************************************************************************)
THEOREM NeverSleepsOnWork == Spec => []NeverAsleepOnWork
  BY NoWakeupIsLost, NobodySleepsOnQuit, PTL DEF NeverAsleepOnWork

-----------------------------------------------------------------------------
(***************************************************************************)
(* EventLoop implements TaskQueue.  The functors pushed are, in order, the *)
(* ones executed, then the rest of the batch, then the queue.              *)
(***************************************************************************)
BatchInv == phase # "tasks" => memo = <<>>

HistoryInv ==
  /\ Len(posted) = Len(ran) + Len(memo) + Len(functions)
  /\ \A i \in 1..Len(ran) : posted[i] = ran[i]
  /\ \A i \in 1..Len(memo) : posted[Len(ran) + i] = memo[i]
  /\ \A i \in 1..Len(functions) : posted[Len(ran) + Len(memo) + i] = functions[i]

OrderInv == TypeOK /\ BatchInv /\ HistoryInv

LEMMA OrderInit == Init => OrderInv
<1> SUFFICES ASSUME Init PROVE OrderInv
  OBVIOUS
<1>1. TypeOK
  BY TypeInit
<1>2. BatchInv
  BY DEF Init, BatchInv
<1>3. HistoryInv
  BY EmptySeq DEF Init, HistoryInv
<1>4. QED
  BY <1>1, <1>2, <1>3 DEF OrderInv

LEMMA BatchNext == BatchInv /\ [Next]_vars => BatchInv'
<1> SUFFICES ASSUME BatchInv, [Next]_vars PROVE BatchInv'
  OBVIOUS
<1> USE DEF BatchInv, Goto, loopVars, queueVars, quitVars
<1>1. CASE LoopStep \/ PollTimesOut
  BY <1>1 DEF LoopStep, EnterLoop, ClearQuit, TestQuit, PollReturns, PollTimesOut,
              HandleWakeup, BeginDevice, SwapFunctions, BeginTask, EndCallback, EndPending
<1>2. CASE DeviceReady \/ UNCHANGED vars
  BY <1>2 DEF DeviceReady, vars
<1>3. ASSUME NEW t \in Threads, Call(t) \/ Wake(t) PROVE BatchInv'
  BY <1>3 DEF Call, Wake, Push, Quit, WakeAfterPush, WakeAfterQuit
<1>4. QED
  BY <1>1, <1>2, <1>3 DEF Next

(* A push lengthens the history and the queue at the same end.             *)
LEMMA HistoryPush ==
  ASSUME TypeOK, HistoryInv, NEW t \in Threads, NEW task \in Tasks, Push(t, task)
  PROVE  HistoryInv'
<1>1. /\ Len(posted') = Len(posted) + 1
      /\ \A i \in 1..Len(posted) : posted'[i] = posted[i]
      /\ posted'[Len(posted) + 1] = task
  <2>1. posted \in Seq(Tasks) /\ posted' = Append(posted, task)
    BY DEF TypeOK, Push
  <2>2. QED
    BY <2>1, AppendProperties
<1>2. /\ Len(functions') = Len(functions) + 1
      /\ \A i \in 1..Len(functions) : functions'[i] = functions[i]
      /\ functions'[Len(functions) + 1] = task
  <2>1. functions \in Seq(Tasks) /\ functions' = Append(functions, task)
    BY DEF TypeOK, Push
  <2>2. QED
    BY <2>1, AppendProperties
<1>3. Len(ran) \in Nat /\ Len(memo) \in Nat /\ Len(functions) \in Nat
  BY LenProperties DEF TypeOK
<1>4. memo' = memo /\ ran' = ran
  BY DEF Push, loopVars
<1>5. \A i \in 1..Len(functions') :
        posted'[Len(ran) + Len(memo) + i] = functions'[i]
  <2> TAKE i \in 1..Len(functions')
  <2>1. CASE i = Len(functions) + 1
    BY <1>1, <1>2, <1>3, <2>1 DEF HistoryInv
  <2>2. CASE i \in 1..Len(functions)
    <3>1. Len(ran) + Len(memo) + i \in 1..Len(posted)
      BY <1>3, <2>2 DEF HistoryInv
    <3>2. QED
      BY <1>1, <1>2, <2>2, <3>1 DEF HistoryInv
  <2>3. i = Len(functions) + 1 \/ i \in 1..Len(functions)
    BY <1>2, <1>3
  <2>4. QED
    BY <2>1, <2>2, <2>3
<1>6. \A i \in 1..Len(ran) : posted'[i] = ran[i]
  <2> TAKE i \in 1..Len(ran)
  <2>1. i \in 1..Len(posted)
    BY <1>3 DEF HistoryInv
  <2>2. QED
    BY <1>1, <2>1 DEF HistoryInv
<1>7. \A i \in 1..Len(memo) : posted'[Len(ran) + i] = memo[i]
  <2> TAKE i \in 1..Len(memo)
  <2>1. Len(ran) + i \in 1..Len(posted)
    BY <1>3 DEF HistoryInv
  <2>2. QED
    BY <1>1, <2>1 DEF HistoryInv
<1>8. Len(posted') = Len(ran) + Len(memo) + Len(functions')
  BY <1>1, <1>2, <1>3 DEF HistoryInv
<1>9. QED
  BY <1>4, <1>5, <1>6, <1>7, <1>8 DEF HistoryInv

(* The swap moves the queue into an empty batch.                           *)
LEMMA HistorySwap ==
  ASSUME TypeOK, BatchInv, HistoryInv, SwapFunctions
  PROVE  HistoryInv'
<1>1. memo = <<>> /\ memo' = functions /\ functions' = <<>>
  BY DEF SwapFunctions, BatchInv, Goto
<1>2. posted' = posted /\ ran' = ran
  BY DEF SwapFunctions
<1>3. Len(<<>>) = 0 /\ Len(ran) \in Nat /\ Len(functions) \in Nat
  BY EmptySeq, LenProperties DEF TypeOK
<1>4. QED
  BY <1>1, <1>2, <1>3 DEF HistoryInv

(* The functor started is the one the history has next.                    *)
LEMMA NextIsHead ==
  ASSUME TypeOK, HistoryInv, memo # <<>>
  PROVE  /\ Len(ran) \in Nat
         /\ Len(ran) < Len(posted)
         /\ Head(memo) = posted[Len(ran) + 1]
<1>1. Len(ran) \in Nat /\ Len(memo) \in Nat \ {0} /\ Len(functions) \in Nat
  BY EmptySeq, LenProperties DEF TypeOK
<1>2. Head(memo) = memo[1]
  BY DEF TypeOK
<1>3. QED
  BY <1>1, <1>2 DEF HistoryInv

LEMMA HistoryRun ==
  ASSUME TypeOK, HistoryInv, BeginTask
  PROVE  HistoryInv'
<1> USE DEF TypeOK, HistoryInv
<1>1. /\ memo # <<>> /\ memo' = Tail(memo) /\ ran' = Append(ran, Head(memo))
      /\ posted' = posted /\ functions' = functions
  BY DEF BeginTask, queueVars
<1>2. /\ Head(memo) \in Tasks
      /\ Len(memo') = Len(memo) - 1
      /\ \A i \in 1..Len(memo') : memo'[i] = memo[i + 1]
  BY <1>1, HeadTailProperties
<1>3. /\ Len(ran') = Len(ran) + 1
      /\ \A i \in 1..Len(ran) : ran'[i] = ran[i]
      /\ ran'[Len(ran) + 1] = Head(memo)
  BY <1>1, <1>2, AppendProperties
<1>4. Len(ran) \in Nat /\ Len(memo) \in Nat \ {0} /\ Len(functions) \in Nat
  BY <1>1, EmptySeq, LenProperties
<1>5. \A i \in 1..Len(ran') : posted[i] = ran'[i]
  BY <1>1, <1>3, <1>4, NextIsHead
<1>6. \A i \in 1..Len(memo') : posted[Len(ran') + i] = memo'[i]
  <2> TAKE i \in 1..Len(memo')
  <2>1. i + 1 \in 1..Len(memo) /\ Len(ran') + i = Len(ran) + (i + 1)
    BY <1>2, <1>3, <1>4
  <2>2. QED
    BY <1>2, <2>1
<1>7. Len(ran') + Len(memo') = Len(ran) + Len(memo)
  BY <1>2, <1>3, <1>4
<1>8. \A i \in 1..Len(functions') : posted'[Len(ran') + Len(memo') + i] = functions'[i]
  <2>1. functions' = functions /\ posted' = posted
    BY <1>1
  <2>2. \A i \in 1..Len(functions) : posted[Len(ran) + Len(memo) + i] = functions[i]
    OBVIOUS
  <2>3. QED
    BY <2>1, <2>2, <1>7, Zenon
<1>9. Len(posted') = Len(ran') + Len(memo') + Len(functions')
  BY <1>1, <1>7, Zenon
<1> HIDE DEF TypeOK, HistoryInv
<1>10. posted' = posted
  BY <1>1
<1>11. QED
  BY <1>5, <1>6, <1>8, <1>9, <1>10, Zenon DEF HistoryInv

LEMMA OrderNext == OrderInv /\ [Next]_vars => OrderInv'
<1> SUFFICES ASSUME OrderInv, [Next]_vars PROVE OrderInv'
  OBVIOUS
<1>1. TypeOK' /\ BatchInv'
  BY TypeNext, BatchNext DEF OrderInv
<1>2. HistoryInv'
  <2> USE DEF OrderInv
  <2>1. ASSUME NEW t \in Threads, NEW task \in Tasks, Push(t, task) PROVE HistoryInv'
    BY <2>1, HistoryPush
  <2>2. CASE SwapFunctions
    BY <2>2, HistorySwap
  <2>3. CASE BeginTask
    BY <2>3, HistoryRun
  <2>4. CASE UNCHANGED <<memo, functions, posted, ran>>
    BY <2>4 DEF HistoryInv
  <2>5. \/ \E t \in Threads, task \in Tasks : Push(t, task)
        \/ SwapFunctions \/ BeginTask
        \/ UNCHANGED <<memo, functions, posted, ran>>
    BY DEF Next, LoopStep, Call, Wake, vars, loopVars, queueVars, quitVars,
           EnterLoop, ClearQuit, TestQuit, PollReturns, PollTimesOut, HandleWakeup,
           BeginDevice, EndCallback, EndPending, DeviceReady,
           Quit, WakeAfterPush, WakeAfterQuit
  <2>6. QED
    BY <2>1, <2>2, <2>3, <2>4, <2>5
<1>3. QED
  BY <1>1, <1>2 DEF OrderInv

(* Every step of the loop is one of the queue's or none at all.            *)
LEMMA StepImplements ==
  OrderInv /\ [Next]_vars => [Abstract!Next]_<<posted, ran>>
<1> SUFFICES ASSUME OrderInv, [Next]_vars PROVE [Abstract!Next]_<<posted, ran>>
  OBVIOUS
<1>1. ASSUME NEW t \in Threads, NEW task \in Tasks, Push(t, task)
      PROVE  Abstract!Post(task)
  BY <1>1 DEF Push, Fresh, Abstract!Post
<1>2. ASSUME BeginTask PROVE Abstract!Run
  <2>1. ran' = Append(ran, Head(memo)) /\ posted' = posted /\ memo # <<>>
    BY <1>2 DEF BeginTask, queueVars
  <2>2. QED
    BY <2>1, NextIsHead DEF OrderInv, Abstract!Run
<1>3. \/ \E t \in Threads, task \in Tasks : Push(t, task)
      \/ BeginTask
      \/ UNCHANGED <<posted, ran>>
  BY DEF Next, LoopStep, Call, Wake, vars, loopVars, queueVars, quitVars,
         EnterLoop, ClearQuit, TestQuit, PollReturns, PollTimesOut, HandleWakeup,
         BeginDevice, SwapFunctions, EndCallback, EndPending, DeviceReady,
         Quit, WakeAfterPush, WakeAfterQuit
<1>4. QED
  BY <1>1, <1>2, <1>3 DEF Abstract!Next

(***************************************************************************)
(* Functors run in the order they were pushed, none lost before another    *)
(* that ran, none twice (event-loop.cpp:88-100, 139-153).                  *)
(***************************************************************************)
THEOREM LoopIsFifo == Spec => FifoOnce
<1>1. Init => Abstract!Init
  BY DEF Init, Abstract!Init
<1>2. QED
  BY <1>1, OrderInit, OrderNext, StepImplements, PTL
     DEF Spec, FifoOnce, Abstract!Spec
=============================================================================
