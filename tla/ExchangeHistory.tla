---------------------------- MODULE ExchangeHistory ----------------------------
(***************************************************************************)
(* MetadataExchange with the history needed to say which change came       *)
(* later, and which changes were made in ignorance of each other.          *)
(***************************************************************************)
EXTENDS MetadataExchange

VARIABLES
  edited,  (* edited[h]: when a user gave the file the hash h                 *)
  past,    (* past[h]: h and the hashes its author knew of                    *)
  known    (* known[p]: the hashes p's file has had, and their pasts          *)

hvars == <<vars, edited, past, known>>

Written == Content \cup {Empty}

HInit ==
  /\ Init
  /\ edited = [h \in Written |-> 0]
  /\ past = [h \in Written |-> {}]
  /\ known = [p \in Peer |-> {}]

(* A step that gives p's file a hash nobody has written before is a change
   by p's user.                                                             *)
New == (written' \ written) \cap Written
Author(h) == CHOOSE p \in Peer : row'[p].hash = h /\ row[p].hash # h

HStep ==
  /\ edited' = [h \in Written |-> IF h \in New THEN now' ELSE edited[h]]
  /\ past' = [h \in Written |-> IF h \in New THEN {h} \cup known[Author(h)] ELSE past[h]]
  /\ known' = [p \in Peer |->
       IF row'[p].hash \in Written THEN known[p] \cup past'[row'[p].hash] ELSE known[p]]

HSpecFresh == HInit /\ [][NextFresh /\ HStep]_hvars
HSpecTies == HInit /\ [][NextTies /\ HStep]_hvars
HSpecEmpty == HInit /\ [][NextEmpty /\ HStep]_hvars
HSpecOffline == HInit /\ [][NextOffline /\ HStep]_hvars

-----------------------------------------------------------------------------
Ignorant(g, h) == g \notin past[h] /\ h \notin past[g]
Clash == \E g, h \in written \cap Written : Ignorant(g, h)

(* A conflict is only reported when two users did change the file without
   knowing of each other's change: "True when a real concurrent edit was
   detected" (conflict.go:38).                                               *)
NoFalseConflict == warned => Clash

(* Why: a version is later than what its author knew, and numbered higher.     *)
Dated == \A r \in Around : r # NoRow => edited[r.hash] = r.ts
PastIsLower ==
  \A r, s \in Around : r # NoRow /\ s.hash \in past[r.hash] => s = r \/ s.ver < r.ver
KnownIsLower ==
  \A p \in Peer : \A s \in Around : s.hash \in known[p] => s.ver <= row[p].ver

HistoryInv ==
  /\ FreshInv
  /\ edited \in [Written -> Nat]
  /\ past \in [Written -> SUBSET written]
  /\ known \in [Peer -> SUBSET written]
  /\ Dated /\ PastIsLower /\ KnownIsLower /\ NoFalseConflict

(* Two users that change the file without knowing of each other's change are
   told: "A conflict is detected" (user-manual.md:379).                      *)
ConflictReported == Settled /\ Clash => warned

(* Of two versions with the same number the one written later survives: the
   last-write-wins rule of resolveConcurrent.                               *)
LastWriteWins ==
  [][\A p \in Peer :
       LET g == row[p].hash
           h == row'[p].hash
       IN row'[p].ver = row[p].ver /\ {g, h} \subseteq Written /\ h \in written
            => edited[h] >= edited[g]]_hvars
=============================================================================
