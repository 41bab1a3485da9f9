----------------------- MODULE MCMysqlConnectionPool -----------------------
(* Instances of MysqlConnectionPool for TLC.                               *)
EXTENDS MysqlConnectionPool, TLC

MCSymmetry == Permutations(Clients)
=============================================================================
