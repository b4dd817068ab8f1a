--------------------------- MODULE MCSyncDispatcher ---------------------------
(* Instances of SyncDispatcher for TLC: every file has a peer of its own.   *)
EXTENDS SyncDispatcher

CONSTANTS r1, r2, k1, k2

MCSizeOf == [k \in Key |-> IF k = k1 THEN 1 ELSE 2]
MCPeerOf == [k \in Key |-> k]
=============================================================================
