-------------------------- MODULE MCSeasocksServer --------------------------
(* Small instances of the seasocks server for TLC.                         *)
EXTENDS SeasocksServer, TLC

CONSTANT MaxPending   \* bound on the jobs waiting, which the code leaves open

BoundedNext ==
  \/ \E t \in Caller : Len(pending) < MaxPending /\ Post(t)
  \/ ServerOther

BoundedSpec == ServerInit /\ [][BoundedNext]_serverVars

Symmetry == Permutations(Conn) \cup Permutations(Caller)
=============================================================================
