----------------------------- MODULE EventLoop -----------------------------
(***************************************************************************)
(* mg::EventLoop (src/src/event-loop.cpp): the reactor every other part of *)
(* the library runs on.  One owner thread blocks in epoll_wait, handles    *)
(* the active channels, then executes the functors other threads pushed.   *)
(* A pusher appends under _mutex and, after unlocking, writes the eventfd  *)
(* that makes epoll_wait return; the model keeps those two steps apart, as *)
(* it keeps quit()'s store apart from its wakeup.                          *)
(*                                                                         *)
(* One channel stands for all those registered besides the eventfd's.      *)
(* A functor is a member of Tasks and is pushed at most once; what it does *)
(* inside is, to the loop, only whether it pushes or quits in turn.        *)
(***************************************************************************)
EXTENDS Naturals, Sequences

CONSTANTS
  Owner,      (* The thread that constructed the loop and calls loop().    *)
  Others,     (* Threads that push functors to it or ask it to quit.       *)
  Tasks       (* The functors.                                             *)

ASSUME ThreadsDistinct == Owner \notin Others

VARIABLES
  phase,      (* Where the owner is in loop().                             *)
  busy,       (* The owner is inside a channel callback or a functor.      *)
  active,     (* _channelList: the channels still to handle.               *)
  functions,  (* _functions: the functors pushed and not yet swapped out.  *)
  memo,       (* doPendingFunctions's memo, without the functors started.  *)
  calling,    (* _callingPendingFunctions.                                 *)
  quit,       (* _quit.                                                    *)
  counter,    (* The eventfd's counter.                                    *)
  ready,      (* The other channel has an event to report.                 *)
  pc,         (* How far each thread is in push() or quit().               *)
  asked,      (* The threads that have called quit(), each at most once.   *)
  posted,     (* History: every functor pushed, in order.                  *)
  ran         (* History: every functor executed, in order.                *)

loopVars  == <<phase, busy, active, memo, calling>>
queueVars == <<functions, posted>>
quitVars  == <<quit, asked>>
vars == <<loopVars, queueVars, quitVars, counter, ready, pc, ran>>

Threads  == Others \cup {Owner}
Channels == {"wakeup", "device"}
Phases   == {"created", "starting", "check", "poll", "events", "tasks", "stopped"}

(* A functor that has not been pushed yet.                                 *)
Fresh(task) == \A i \in 1..Len(posted) : posted[i] # task

Init ==
  /\ phase = "created"
  /\ busy = FALSE
  /\ active = {}
  /\ functions = <<>>
  /\ memo = <<>>
  /\ calling = FALSE
  /\ quit = FALSE
  /\ counter = 0
  /\ ready = FALSE
  /\ pc = [t \in Threads |-> "idle"]
  /\ asked = {}
  /\ posted = <<>>
  /\ ran = <<>>

(***************************************************************************)
(* push(), quit() and the device: the steps other threads take at any      *)
(* time, and the owner only from inside a callback.                        *)
(***************************************************************************)
CanCall(t) ==
  /\ pc[t] = "idle"
  /\ t = Owner => busy

(* Mutant of Push: the functor is moved from before it is stored.          *)
PushEmpty(t, task) ==
  /\ CanCall(t)
  /\ Fresh(task)
  /\ functions' = Append(functions, "empty")
  /\ posted' = Append(posted, task)
  /\ pc' = [pc EXCEPT ![t] = "pushed"]
  /\ UNCHANGED <<loopVars, quitVars, counter, ready, ran>>

(* The critical section of push().                                         *)
Push(t, task) ==
  /\ CanCall(t)
  /\ Fresh(task)
  /\ functions' = Append(functions, task)
  /\ posted' = Append(posted, task)
  /\ pc' = [pc EXCEPT ![t] = "pushed"]
  /\ UNCHANGED <<loopVars, quitVars, counter, ready, ran>>

(* Mutant of NeedsWakeup: without "|| _callingPendingFunctions".           *)
NeedsWakeupOthersOnly(t) == t # Owner

(* The rest of push(): the owner needs no wakeup unless it is running the  *)
(* batch it has already swapped out.                                       *)
NeedsWakeup(t) == t # Owner \/ calling

WakeAfterPush(t) ==
  /\ pc[t] = "pushed"
  /\ counter' = IF NeedsWakeup(t) THEN counter + 1 ELSE counter
  /\ pc' = [pc EXCEPT ![t] = "idle"]
  /\ UNCHANGED <<loopVars, queueVars, quitVars, ready, ran>>

Quit(t) ==
  /\ CanCall(t)
  /\ t \notin asked
  /\ quit' = TRUE
  /\ asked' = asked \cup {t}
  /\ pc' = [pc EXCEPT ![t] = "quitting"]
  /\ UNCHANGED <<loopVars, queueVars, counter, ready, ran>>

WakeAfterQuit(t) ==
  /\ pc[t] = "quitting"
  /\ counter' = counter + 1
  /\ pc' = [pc EXCEPT ![t] = "idle"]
  /\ UNCHANGED <<loopVars, queueVars, quitVars, ready, ran>>

DeviceReady ==
  /\ ~ready
  /\ ready' = TRUE
  /\ UNCHANGED <<loopVars, queueVars, quitVars, counter, pc, ran>>

(***************************************************************************)
(* loop(), run by the owner.                                               *)
(***************************************************************************)
Goto(from, to) ==
  /\ phase = from
  /\ phase' = to

(* _looping = true; _quit still holds whatever was stored before.          *)
EnterLoop ==
  /\ Goto("created", "starting")
  /\ UNCHANGED <<busy, active, memo, calling, queueVars, quitVars, counter, ready, pc, ran>>

ClearQuit ==
  /\ Goto("starting", "check")
  /\ quit' = FALSE
  /\ UNCHANGED <<busy, active, memo, calling, queueVars, asked, counter, ready, pc, ran>>

TestQuit ==
  /\ Goto("check", IF quit THEN "stopped" ELSE "poll")
  /\ UNCHANGED <<busy, active, memo, calling, queueVars, quitVars, counter, ready, pc, ran>>

Readable ==
  {c \in Channels : \/ c = "wakeup" /\ counter > 0
                    \/ c = "device" /\ ready}

(* epoll_wait returns as soon as a registered descriptor is readable...    *)
PollReturns ==
  /\ Goto("poll", "events")
  /\ Readable # {}
  /\ active' = Readable
  /\ UNCHANGED <<busy, memo, calling, queueVars, quitVars, counter, ready, pc, ran>>

(* ... or with nothing, after waitTime (10 s).                             *)
PollTimesOut ==
  /\ Goto("poll", "events")
  /\ Readable = {}
  /\ active' = {}
  /\ UNCHANGED <<busy, memo, calling, queueVars, quitVars, counter, ready, pc, ran>>

HandleWakeup ==
  /\ phase = "events" /\ ~busy
  /\ "wakeup" \in active
  /\ active' = active \ {"wakeup"}
  /\ counter' = 0
  /\ UNCHANGED <<phase, busy, memo, calling, queueVars, quitVars, ready, pc, ran>>

BeginDevice ==
  /\ phase = "events" /\ ~busy
  /\ "device" \in active
  /\ active' = active \ {"device"}
  /\ ready' = FALSE
  /\ busy' = TRUE
  /\ UNCHANGED <<phase, memo, calling, queueVars, quitVars, counter, pc, ran>>

(* Mutant of SwapFunctions: the queue is copied, not swapped.              *)
CopyFunctions ==
  /\ Goto("events", "tasks")
  /\ active = {} /\ ~busy
  /\ calling' = TRUE
  /\ memo' = functions
  /\ UNCHANGED <<busy, active, queueVars, quitVars, counter, ready, pc, ran>>

(* doPendingFunctions: the flag, then the swap under _mutex.               *)
SwapFunctions ==
  /\ Goto("events", "tasks")
  /\ active = {} /\ ~busy
  /\ calling' = TRUE
  /\ memo' = functions
  /\ functions' = <<>>
  /\ UNCHANGED <<busy, active, posted, quitVars, counter, ready, pc, ran>>

BeginTask ==
  /\ phase = "tasks" /\ ~busy
  /\ memo # <<>>
  /\ memo' = Tail(memo)
  /\ ran' = Append(ran, Head(memo))
  /\ busy' = TRUE
  /\ UNCHANGED <<phase, active, calling, queueVars, quitVars, counter, ready, pc>>

(* The end of a channel callback or of a functor.                          *)
EndCallback ==
  /\ busy
  /\ pc[Owner] = "idle"
  /\ busy' = FALSE
  /\ UNCHANGED <<phase, active, memo, calling, queueVars, quitVars, counter, ready, pc, ran>>

(* Mutants of EndPending: the queue is cleared after the batch instead of  *)
(* being swapped before it; _quit is reset at the wrong end of the loop.   *)
EndPendingClears ==
  /\ Goto("tasks", "check")
  /\ memo = <<>> /\ ~busy
  /\ calling' = FALSE
  /\ functions' = <<>>
  /\ UNCHANGED <<busy, active, memo, posted, quitVars, counter, ready, pc, ran>>

EndPendingResetsQuit ==
  /\ Goto("tasks", "check")
  /\ memo = <<>> /\ ~busy
  /\ calling' = FALSE
  /\ quit' = FALSE
  /\ UNCHANGED <<busy, active, memo, queueVars, asked, counter, ready, pc, ran>>

EndPending ==
  /\ Goto("tasks", "check")
  /\ memo = <<>> /\ ~busy
  /\ calling' = FALSE
  /\ UNCHANGED <<busy, active, memo, queueVars, quitVars, counter, ready, pc, ran>>

-----------------------------------------------------------------------------
Call(t) ==
  \/ \E task \in Tasks : Push(t, task)
  \/ Quit(t)

Wake(t) == WakeAfterPush(t) \/ WakeAfterQuit(t)

(* The steps the owner takes on its own once it has been scheduled.        *)
LoopStep ==
  \/ EnterLoop \/ ClearQuit \/ TestQuit
  \/ PollReturns \/ HandleWakeup \/ BeginDevice
  \/ SwapFunctions \/ BeginTask \/ EndCallback \/ EndPending

Next ==
  \/ LoopStep
  \/ PollTimesOut
  \/ DeviceReady
  \/ \E t \in Threads : Call(t) \/ Wake(t)

Spec == Init /\ [][Next]_vars

(* The scheduler runs every thread that can run, and a callback returns.   *)
(* Nobody has to call push() or quit(), the device need not become ready,  *)
(* and nothing below relies on the poll timing out.                        *)
Fairness ==
  /\ WF_vars(LoopStep)
  /\ \A t \in Threads : WF_vars(Wake(t))

FairSpec == Spec /\ Fairness

-----------------------------------------------------------------------------
TypeOK ==
  /\ phase \in Phases
  /\ busy \in BOOLEAN
  /\ active \subseteq Channels
  /\ functions \in Seq(Tasks)
  /\ memo \in Seq(Tasks)
  /\ calling \in BOOLEAN
  /\ quit \in BOOLEAN
  /\ counter \in Nat
  /\ ready \in BOOLEAN
  /\ pc \in [Threads -> {"idle", "pushed", "quitting"}]
  /\ asked \subseteq Threads
  /\ posted \in Seq(Tasks)
  /\ ran \in Seq(Tasks)

(***************************************************************************)
(* The owner never sleeps on work: whenever it is blocked in epoll_wait or *)
(* on its way there and a functor is queued, the eventfd is readable or a  *)
(* pusher has still to write it.  This is what the condition in push() and *)
(* the comment above it (event-loop.cpp:94-99) are for, and what would     *)
(* otherwise cost up to 10 s of the poll timeout.                          *)
(***************************************************************************)
NoLostWakeup ==
  phase \in {"check", "poll"} /\ functions # <<>> =>
    counter > 0 \/ \E t \in Threads : pc[t] = "pushed"

(***************************************************************************)
(* The owner never sleeps on a quit() that came after loop() was entered:  *)
(* the eventfd is readable or the quitter has still to write it            *)
(* (event-loop.cpp:52-53).                                                 *)
(***************************************************************************)
NoSleepOnQuit ==
  phase = "poll" /\ quit =>
    counter > 0 \/ \E t \in Threads : pc[t] = "quitting"

(***************************************************************************)
(* The owner sleeps neither on a functor nor on a quit.                    *)
(***************************************************************************)
NeverAsleepOnWork == NoLostWakeup /\ NoSleepOnQuit

(***************************************************************************)
(* EventLoop implements TaskQueue: the swap, the batch and the functors    *)
(* pushed while it runs lose none, repeat none and reorder none.           *)
(***************************************************************************)
Abstract == INSTANCE TaskQueue
FifoOnce == Abstract!Spec

(***************************************************************************)
(* Every functor pushed is executed, without the help of the poll timeout, *)
(* unless the loop stops (event-loop.cpp:88-100, 139-153).                 *)
(***************************************************************************)
EveryTaskRuns ==
  \A task \in Tasks :
    ~Fresh(task) ~> \/ \E i \in 1..Len(ran) : ran[i] = task
                    \/ phase = "stopped"

(***************************************************************************)
(* A _quit that the running loop can see stops it, however many functors   *)
(* and events keep arriving (event-loop.cpp:39-53).                        *)
(***************************************************************************)
QuitStops ==
  quit /\ phase \notin {"created", "starting"} ~> phase = "stopped"
=============================================================================
