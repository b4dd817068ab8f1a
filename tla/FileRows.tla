------------------------------- MODULE FileRows -------------------------------
(***************************************************************************)
(* The row that SQLite keeps for one file of one repository (FileMetadata  *)
(* of pkg/storage/sqlite), and what a local change, a peer's announcement  *)
(* and the start-up scan make of it (pkg/sync/coordinator.go).             *)
(*                                                                         *)
(* Permissions are left out: they are taken to be the same on all peers.   *)
(* The size of a file only matters when it is 0.                           *)
(***************************************************************************)
EXTENDS ConflictDetector

CONSTANTS
  Content,     (* content hashes of non-empty files                          *)
  Empty,       (* the content hash of the empty file                         *)
  NoHash       (* the empty string, hash of a deletion and of a missing row   *)

ASSUME HashAssumption ==
  /\ Empty \notin Content
  /\ NoHash \notin Content \cup {Empty}

Hash == Content \cup {Empty, NoHash}
Row == [hash : Hash, ver : Nat, ts : Nat, del : BOOLEAN]

(* A missing row is compared as version 0 of the empty hash, and the choice
   of the remote side of a conflict is announced as that same version.       *)
NoRow == [hash |-> NoHash, ver |-> 0, ts |-> 0, del |-> FALSE]
Exists(r) == r.ver > 0
SizeZero(r) == r.hash \in {Empty, NoHash}

(* The version that the conflict detector is given for peer p's row.         *)
Version(r, p) == [hash |-> r.hash, ver |-> r.ver, ts |-> r.ts, peer |-> p]

-----------------------------------------------------------------------------
(* HandleLocalFileChanged.                                                  *)

(* Mutant of NextVersion: changes of a known file keep its version.           *)
NextVersionStuck(r, h, act) == IF Exists(r) THEN r.ver ELSE 1

(* A row of size 0 counts as the premature report of a file whose content
   was not flushed yet: its first content reuses the version.               *)
NextVersion(r, h, act) ==
  IF Exists(r) /\ SizeZero(r) /\ h \in Content /\ act = "modify"
    THEN r.ver
    ELSE r.ver + 1

(* Mutant of Redundant: every report counts as a change.                     *)
NeverRedundant(r, h, act) == FALSE

(* What the row says already is no change.                                  *)
Redundant(r, h, act) == Exists(r) /\ r.hash = h /\ (r.del <=> act = "delete")

LocalRow(r, h, act, t) ==
  [hash |-> h, ver |-> NextVersion(r, h, act), ts |-> t, del |-> act = "delete"]

(* Mutant of InlineRow: the version starts again at 1.                       *)
InlineRowReset(r, h, t) == [hash |-> h, ver |-> 1, ts |-> t, del |-> FALSE]

(* The row after the content of h arrived inside a file_response.            *)
InlineRow(r, h, t) ==
  [hash |-> h, ver |-> IF Exists(r) THEN r.ver ELSE 1, ts |-> t, del |-> FALSE]

-----------------------------------------------------------------------------
(* The start-up scan stamps rows in milliseconds.                           *)
Millis(t) == 1000 * t

(* The row after a scan that finds hash h, or no file (NoHash), on the disk.
   A deletion keeps hash and time of the row.                               *)
ScannedRow(r, h, t) ==
  IF h = NoHash
    THEN IF Exists(r) /\ ~r.del THEN [r EXCEPT !.ver = @ + 1, !.del = TRUE] ELSE r
  ELSE IF Exists(r) /\ r.hash = h /\ ~r.del
    THEN [r EXCEPT !.ts = Millis(t)]
  ELSE [hash |-> h, ver |-> r.ver + 1, ts |-> Millis(t), del |-> FALSE]
=============================================================================
