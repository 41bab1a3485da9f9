----------------------------- MODULE TaskQueue -----------------------------
(***************************************************************************)
(* What EventLoop::push promises its callers, with no thread, lock, epoll  *)
(* or eventfd in sight: functors are executed by one executor, each of     *)
(* them at most once, in the order in which they were pushed.              *)
(* EventLoop is shown to implement it.                                     *)
(***************************************************************************)
EXTENDS Naturals, Sequences

CONSTANT Tasks      (* The functors; each is pushed at most once.          *)

VARIABLES
  posted,           (* Every functor pushed so far, in order.              *)
  ran               (* Every functor executed so far, in order.            *)

Init ==
  /\ posted = <<>>
  /\ ran = <<>>

Post(task) ==
  /\ \A i \in 1..Len(posted) : posted[i] # task
  /\ posted' = Append(posted, task)
  /\ UNCHANGED ran

Run ==
  /\ Len(ran) < Len(posted)
  /\ ran' = Append(ran, posted[Len(ran) + 1])
  /\ UNCHANGED posted

Next == Run \/ \E task \in Tasks : Post(task)

Spec == Init /\ [][Next]_<<posted, ran>>
=============================================================================
