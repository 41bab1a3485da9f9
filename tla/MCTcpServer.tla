---------------------------- MODULE MCTcpServer ----------------------------
(* Scenarios of TcpServer for TLC.                                         *)
EXTENDS TcpServer

CONSTANTS c1, c2

(* Two connections, and no workers; the callback of either may close both. *)
TwoConnections ==
  [conns |-> {c1, c2}, userOps |-> {"forceClose", "closeOther"}, workerOps |-> {},
   messages |-> 1, endings |-> {"fin", "reset"}, stops |-> TRUE]

(* Workers may force the connection to close at any time.                  *)
ForcedClose ==
  [conns |-> {c1}, userOps |-> {"send", "shutdown", "forceClose", "hand"},
   workerOps |-> {"forceClose"}, messages |-> 2, endings |-> {"reset"}, stops |-> TRUE]

(* Workers send and shut down on a connection that stays open.             *)
Senders ==
  [conns |-> {c1}, userOps |-> {"send", "hand"}, workerOps |-> {"send", "shutdown"},
   messages |-> 2, endings |-> {}, stops |-> FALSE]

(* Half-closes, of either side, with output pending.                       *)
HalfCloses ==
  [conns |-> {c1}, userOps |-> {"send", "shutdown"}, workerOps |-> {},
   messages |-> 2, endings |-> {"fin", "reset"}, stops |-> FALSE]

PassingScenarios == {TwoConnections, ForcedClose, Senders, HalfCloses}

(* shutdown() with output pending.                                         *)
HalfClose == {HalfCloses}

(* A worker sends on a connection that its peer closes.                    *)
RawSend ==
  {[conns |-> {c1}, userOps |-> {"hand"}, workerOps |-> {"send"},
    messages |-> 1, endings |-> {"fin"}, stops |-> FALSE]}
=============================================================================
