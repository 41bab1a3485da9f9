----------------------------- MODULE RoundRobin -----------------------------
(***************************************************************************)
(* What EventLoopThreadPool::getNextLoop promises: the loops take turns.   *)
(* ("以轮询方式得到下一个eventloop实例", eventloop-threadpool.h:36)         *)
(* LoopPool is shown to implement it.                                      *)
(***************************************************************************)
EXTENDS Naturals

CONSTANT N          (* The number of loops.                                *)

VARIABLES
  turn,             (* The loop that was handed out last.                  *)
  given             (* How often each loop was handed out.                 *)

Indexes == 0..(N - 1)

Following(i) == IF i + 1 = N THEN 0 ELSE i + 1

Init == turn = 0 /\ given = [i \in Indexes |-> 0]

Hand ==
  /\ turn' = Following(turn)
  /\ given' = [given EXCEPT ![Following(turn)] = @ + 1]

Spec == Init /\ [][Hand]_<<turn, given>>
=============================================================================
