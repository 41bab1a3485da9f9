------------------------------ MODULE LoopPool ------------------------------
(***************************************************************************)
(* EventLoopThreadPool and EventLoopThread (src/src/eventloop-threadpool,  *)
(* src/src/eventloop-thread): the base thread starts the loops' threads    *)
(* one by one and waits for each until it has published its loop; then     *)
(* other threads ask for the next loop, without a lock; at the end the     *)
(* base thread tells each loop to quit and joins its thread.               *)
(*                                                                         *)
(* A loop is known by its number.  What a loop does until it is told to    *)
(* quit is in module EventLoop.  The pool has at least one thread.         *)
(***************************************************************************)
EXTENDS Naturals, Sequences

CONSTANTS
  N,            (* _threadNums                                             *)
  Callers,      (* The threads that call getNextLoop.                      *)
  MaxCalls,     (* Bound: the loops handed out.                            *)
  Null

ASSUME LoopPoolAssumption ==
  /\ N \in Nat \ {0}
  /\ MaxCalls \in Nat
  /\ Null \notin 0..(N - 1)

Indexes == 0..(N - 1)

VARIABLES
  main,         (* What the base thread does, with which thread.           *)
  loops,        (* _loops                                                  *)
  thread,       (* Where each loop's thread is.                            *)
  published,    (* The loops whose EventLoopThread has _loop set.          *)
  quit,         (* The loops with _quit set.                               *)
  forgotten,    (* History: the loops that erased a quit.                  *)
  next,         (* _next                                                   *)
  caller,       (* What each caller does, and its copy of _next.           *)
  given         (* History: how often each loop was handed out.            *)

threadVars == <<thread, published, quit, forgotten>>
callVars == <<next, caller, given>>
vars == <<main, loops, threadVars, callVars>>

Init ==
  /\ main = [at |-> "start", k |-> 0]
  /\ loops = <<>>
  /\ thread = [k \in Indexes |-> "none"]
  /\ published = {} /\ quit = {} /\ forgotten = {}
  /\ next = [first |-> 0, second |-> 0]
  /\ caller = [c \in Callers |-> [at |-> "idle", current |-> next]]
  /\ given = [k \in Indexes |-> 0]

-----------------------------------------------------------------------------
(* The base thread.  EventLoopThreadPool::start, a thread at a time.       *)
StartThread ==
  /\ main.at = "start"
  /\ thread' = [thread EXCEPT ![main.k] = "init"]
  /\ main' = [main EXCEPT !.at = "check"]
  /\ UNCHANGED <<loops, published, quit, forgotten, callVars>>

(* The loop the caller of startLoop gets, and what it does then.           *)
Push(loop) ==
  /\ loops' = Append(loops, loop)
  /\ main' = IF main.k + 1 = N THEN [at |-> "serve", k |-> 0]
                               ELSE [at |-> "start", k |-> main.k + 1]

(* Mutant of Check: what wakes up does not look again.                     *)
CheckOnce ==
  /\ \/ main.at = "check" /\ main.k \in published /\ Push(main.k)
     \/ main.at = "check" /\ main.k \notin published
        /\ main' = [main EXCEPT !.at = "wait"] /\ UNCHANGED loops
     \/ main.at = "woken" /\ Push(IF main.k \in published THEN main.k ELSE Null)
  /\ UNCHANGED <<threadVars, callVars>>

(* startLoop under its mutex: takes the loop, or waits and releases it.    *)
Check ==
  /\ main.at \in {"check", "woken"}
  /\ IF main.k \in published THEN Push(main.k)
     ELSE main' = [main EXCEPT !.at = "wait"] /\ UNCHANGED loops
  /\ UNCHANGED <<threadVars, callVars>>

(* A condition variable may wake its waiter for no reason.                 *)
WakeSpuriously ==
  /\ main.at = "wait"
  /\ main' = [main EXCEPT !.at = "woken"]
  /\ UNCHANGED <<loops, threadVars, callVars>>

(* The pool is destroyed when nobody asks it any more: one thread after    *)
(* the other, ~EventLoopThread.  Its _loop is still set: a loop ends only  *)
(* when it is told to.                                                     *)
Destroy ==
  /\ main.at = "serve"
  /\ \A c \in Callers : caller[c].at = "idle"
  /\ main' = [main EXCEPT !.at = "quit"]
  /\ UNCHANGED <<loops, threadVars, callVars>>

QuitLoop ==
  /\ main.at = "quit" /\ main.k \in published
  /\ quit' = quit \cup {main.k}
  /\ main' = [main EXCEPT !.at = "wakeup"]
  /\ UNCHANGED <<loops, thread, published, forgotten, callVars>>

(* The second half of EventLoop::quit, which the loop may not live to see. *)
Wakeup ==
  /\ main.at = "wakeup"
  /\ main' = [main EXCEPT !.at = "join"]
  /\ UNCHANGED <<loops, threadVars, callVars>>

Join ==
  /\ main.at = "join" /\ thread[main.k] = "ended"
  /\ main' = IF main.k + 1 = N THEN [main EXCEPT !.at = "ended"]
                               ELSE [at |-> "quit", k |-> main.k + 1]
  /\ UNCHANGED <<loops, threadVars, callVars>>

-----------------------------------------------------------------------------
(* Mutant of Publish: nobody is notified.                                  *)
PublishSilently(k) ==
  /\ thread[k] = "init"
  /\ published' = published \cup {k}
  /\ thread' = [thread EXCEPT ![k] = "started"]
  /\ UNCHANGED <<main, loops, quit, forgotten, callVars>>

(* The loops' threads: EventLoopThread::run.                               *)
Publish(k) ==
  /\ thread[k] = "init"
  /\ published' = published \cup {k}
  /\ main' = IF main.at = "wait" /\ main.k = k THEN [main EXCEPT !.at = "woken"] ELSE main
  /\ thread' = [thread EXCEPT ![k] = "started"]
  /\ UNCHANGED <<loops, quit, forgotten, callVars>>

(* EventLoop::loop begins by clearing _quit.                               *)
EnterLoop(k) ==
  /\ thread[k] = "started"
  /\ forgotten' = IF k \in quit THEN forgotten \cup {k} ELSE forgotten
  /\ quit' = quit \ {k}
  /\ thread' = [thread EXCEPT ![k] = "loop"]
  /\ UNCHANGED <<main, loops, published, callVars>>

LeaveLoop(k) ==
  /\ thread[k] = "loop" /\ k \in quit
  /\ thread' = [thread EXCEPT ![k] = "left"]
  /\ UNCHANGED <<main, loops, published, quit, forgotten, callVars>>

Clear(k) ==
  /\ thread[k] = "left"
  /\ published' = published \ {k}
  /\ thread' = [thread EXCEPT ![k] = "ended"]
  /\ UNCHANGED <<main, loops, quit, forgotten, callVars>>

-----------------------------------------------------------------------------
(* getNextLoop, by several threads at once.                                *)
Load(c) ==
  /\ main.at = "serve" /\ caller[c].at = "idle"
  /\ next.second < MaxCalls
  /\ caller' = [caller EXCEPT ![c] = [at |-> "exchange", current |-> next]]
  /\ UNCHANGED <<main, loops, threadVars, next, given>>

(* Mutant of Following: no way back to the first.                          *)
FollowingPast(i) == i + 1

Following(i) == IF i + 1 = N THEN 0 ELSE i + 1

(* Mutant of Exchange: the value is stored whatever _next is by then.      *)
ExchangeBlindly(c) ==
  /\ caller[c].at = "exchange"
  /\ LET current == caller[c].current
         first == Following(current.first)
     IN  /\ next' = [first |-> first, second |-> current.second + 1]
         /\ given' = [given EXCEPT ![first] = @ + 1]
  /\ caller' = [caller EXCEPT ![c].at = "idle"]
  /\ UNCHANGED <<main, loops, threadVars>>

(* compare_exchange_weak stores the value and loops[first] is returned.    *)
Exchange(c) ==
  /\ caller[c].at = "exchange" /\ next = caller[c].current
  /\ LET first == Following(next.first)
     IN  /\ next' = [first |-> first, second |-> next.second + 1]
         /\ given' = [given EXCEPT ![first] = @ + 1]
  /\ caller' = [caller EXCEPT ![c].at = "idle"]
  /\ UNCHANGED <<main, loops, threadVars>>

(* It fails, perhaps for no reason, and _next is loaded again.             *)
Reload(c) ==
  /\ caller[c].at = "exchange"
  /\ caller' = [caller EXCEPT ![c].current = next]
  /\ UNCHANGED <<main, loops, threadVars, next, given>>

-----------------------------------------------------------------------------
Main == StartThread \/ Check \/ WakeSpuriously \/ QuitLoop \/ Wakeup \/ Join

Run(k) == Publish(k) \/ EnterLoop(k) \/ LeaveLoop(k) \/ Clear(k)

Call(c) == Load(c) \/ Exchange(c) \/ Reload(c)

Next ==
  \/ Main \/ Destroy
  \/ \E k \in Indexes : Run(k)
  \/ \E c \in Callers : Call(c)

Spec == Init /\ [][Next]_vars

(* Threads go on; no wakeup comes for no reason, and destruction need not. *)
FairSpec ==
  /\ Spec
  /\ WF_vars(StartThread \/ Check \/ QuitLoop \/ Wakeup \/ Join)
  /\ \A k \in Indexes : WF_vars(Run(k))
-----------------------------------------------------------------------------
(***************************************************************************)
(* Everything has its type: what getNextLoop picks is an index of _loops   *)
(* (eventloop-threadpool.cpp:55-57).                                       *)
(***************************************************************************)
TypeOK ==
  /\ main \in [at : {"start", "check", "wait", "woken", "serve", "quit", "wakeup", "join", "ended"},
               k : Indexes]
  /\ loops \in Seq(Indexes \cup {Null})
  /\ thread \in [Indexes -> {"none", "init", "started", "loop", "left", "ended"}]
  /\ published \cup quit \cup forgotten \subseteq Indexes
  /\ next \in [first : Indexes, second : Nat]
  /\ caller \in [Callers -> [at : {"idle", "exchange"}, current : [first : Indexes, second : Nat]]]
  /\ given \in [Indexes -> Nat]

(***************************************************************************)
(* What startLoop returned is a loop, although its wait may end before the *)
(* loop is there (eventloop-thread.cpp:28-31); while loops are handed out  *)
(* all are there and none has ended; and no EventLoopThread is gone before *)
(* its thread, which uses it to the last line of run()                     *)
(* (eventloop-thread.cpp:13-21, 49-50).                                    *)
(***************************************************************************)
LoopsAlive ==
  /\ \A i \in DOMAIN loops : loops[i] = i - 1
  /\ main.at = "serve" =>
       /\ Len(loops) = N
       /\ \A k \in Indexes : k \in published /\ thread[k] \in {"started", "loop"}
  /\ \A k \in Indexes :
       main.at = "ended" \/ (main.at \in {"quit", "wakeup", "join"} /\ k < main.k)
         => thread[k] = "ended"

(***************************************************************************)
(* The loops take turns, whoever asks (eventloop-threadpool.cpp:51-60).    *)
(***************************************************************************)
Turns == INSTANCE RoundRobin WITH turn <- next.first

IsRoundRobin == Turns!Spec

(***************************************************************************)
(* The base thread gets every loop started (eventloop-thread.cpp:23-47),   *)
(* and every loop ended when it destroys the pool, unless a quit came      *)
(* before the loop that was to obey it and was forgotten                   *)
(* (event-loop.cpp:37).                                                    *)
(***************************************************************************)
Returns ==
  /\ <>(main.at = "serve")
  /\ main.at = "quit" ~> main.at = "ended" \/ forgotten # {}
=============================================================================
