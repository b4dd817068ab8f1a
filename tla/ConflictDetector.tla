--------------------------- MODULE ConflictDetector ---------------------------
(***************************************************************************)
(* The last-write-wins policy of pkg/versioning/conflict.go, as operators. *)
(* A file version is [hash, ver, ts, peer]: the content hash, the version  *)
(* counter (LamportVersion), the modification time and a peer identifier.  *)
(* Peer identifiers are naturals: only their order matters, as that of the *)
(* strings in the code.                                                    *)
(***************************************************************************)
EXTENDS Naturals

FileVersion(Hash) == [hash : Hash, ver : Nat, ts : Nat, peer : Nat]

Action == {"AcceptRemote", "KeepLocal", "Skip"}

Resolution(action, isConflict) == [action |-> action, isConflict |-> isConflict]

(* Mutant of resolveConcurrent: the earlier version wins.                    *)
ResolveEarliest(local, remote) ==
  IF remote.ts < local.ts
    THEN Resolution("AcceptRemote", TRUE)
    ELSE Resolution("KeepLocal", TRUE)

(* Same version counter, different content: later timestamp, then greater
   peer identifier.                                                         *)
resolveConcurrent(local, remote) ==
  IF \/ remote.ts > local.ts
     \/ remote.ts = local.ts /\ remote.peer > local.peer
    THEN Resolution("AcceptRemote", TRUE)
    ELSE Resolution("KeepLocal", TRUE)

(* Mutant of Resolve: the version counter is not looked at.                  *)
ResolveByTime(local, remote) ==
  IF local.hash = remote.hash THEN Resolution("Skip", FALSE)
  ELSE resolveConcurrent(local, remote)

(* The counter decides, unless the contents are the same or the counters are.  *)
Resolve(local, remote) ==
  IF local.hash = remote.hash THEN Resolution("Skip", FALSE)
  ELSE IF remote.ver > local.ver THEN Resolution("AcceptRemote", FALSE)
  ELSE IF local.ver > remote.ver THEN Resolution("KeepLocal", FALSE)
  ELSE resolveConcurrent(local, remote)

(* The remote version replaces the local one.                               *)
Beats(remote, local) == Resolve(local, remote).action = "AcceptRemote"
=============================================================================
