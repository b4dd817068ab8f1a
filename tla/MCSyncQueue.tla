----------------------------- MODULE MCSyncQueue -----------------------------
(* Instances of SyncQueue for TLC.                                          *)
EXTENDS SyncQueue, TLC

CONSTANTS r1, r2, r3, k1, k2, k3

(* Three files of two sizes: two tie on the size and differ by timestamp.   *)
MCSizeOf == [k \in Key |-> IF k = k1 THEN 2 ELSE 1]

(* Repositories are interchangeable.                                        *)
RepoSymmetry == Permutations(Repo)
=============================================================================
