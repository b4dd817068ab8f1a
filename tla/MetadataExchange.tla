--------------------------- MODULE MetadataExchange ---------------------------
(***************************************************************************)
(* The metadata plane of the coordinator (pkg/sync/coordinator.go): how    *)
(* the row that each peer keeps in SQLite for one file of one repository   *)
(* changes and spreads.  Local changes and the start-up scan write the     *)
(* row and broadcast it; a peer's announcement is compared with the local  *)
(* row by the conflict detector; two peers that connect exchange rows.     *)
(* The content itself is not transferred here (FileSync adds that).        *)
(*                                                                         *)
(* Broadcast starts one goroutine per message and peer, so announcements   *)
(* between two peers may arrive in any order: msgs is a set.  Handlers run *)
(* one at a time here; FileSync lets them overlap.                         *)
(***************************************************************************)
EXTENDS FileRows, FiniteSets

CONSTANTS
  Peer,        (* peer identifiers, ordered as the strings of the code       *)
  MaxVersion,  (* bound on the version counter                               *)
  MaxTime,     (* bound on the clock                                         *)
  MaxFlight    (* bound on the messages in flight when a peer sends another, or 0 *)

ASSUME ExchangeAssumption ==
  /\ Peer \subseteq Nat
  /\ MaxVersion \in Nat
  /\ MaxTime \in Nat
  /\ MaxFlight \in Nat

VARIABLES
  row,      (* row[p]: what SQLite at p holds for the file                    *)
  msgs,     (* file_metadata_update messages in flight                       *)
  links,    (* connected pairs of peers                                      *)
  now,      (* the time of the last change by a user, in seconds             *)
  written,  (* history: the hashes that some user has given the file         *)
  warned    (* history: some peer has reported a conflict to its user        *)

vars == <<row, msgs, links, now, written, warned>>

-----------------------------------------------------------------------------
Message == [from : Peer, to : Peer, row : Row]
Pair == {e \in SUBSET Peer : \E p, q \in Peer : p # q /\ e = {p, q}}

Linked(p, q) == {p, q} \in links
Room == MaxFlight = 0 \/ Cardinality(msgs) < MaxFlight
Msg(p, q, r) == [from |-> p, to |-> q, row |-> r]

(* connMgr.Broadcast: one message to every connected peer.                  *)
Broadcast(p, r) == {Msg(p, q, r) : q \in {x \in Peer : Linked(p, x)}}

(* connMgr.SendToPeer: fails, and the error is ignored, without a connection. *)
sendMetadataUpdateToPeer(p, q, r) == IF Linked(p, q) THEN {Msg(p, q, r)} ELSE {}

-----------------------------------------------------------------------------
(* The watcher reports to p that the file now has hash h, since time t.      *)
HandleLocalFileChanged(p, h, act, t) ==
  /\ Room /\ ~Redundant(row[p], h, act)
  /\ NextVersion(row[p], h, act) <= MaxVersion
  /\ row' = [row EXCEPT ![p] = LocalRow(row[p], h, act, t)]
  /\ msgs' = IF h = Empty THEN msgs ELSE msgs \cup Broadcast(p, row'[p])
  /\ now' = IF t > now THEN t ELSE now
  /\ written' = written \cup {h}
  /\ UNCHANGED <<links, warned>>

(* Mutant of HandlePeerMetadataUpdate: of an accepted row only the version and
   the time are saved.                                                      *)
AcceptVersionOnly(m) ==
  LET p == m.to
      res == Resolve(Version(row[p], p), Version(m.row, m.from))
  IN /\ row' = IF res.action = "AcceptRemote"
                 THEN [row EXCEPT ![p] = [m.row EXCEPT !.hash = row[p].hash]]
                 ELSE row
     /\ msgs' = msgs \ {m}
     /\ warned' = (warned \/ res.isConflict)
     /\ UNCHANGED <<links, now, written>>

(* The announcement m is handled by its receiver.                           *)
HandlePeerMetadataUpdate(m) ==
  LET p == m.to
      res == Resolve(Version(row[p], p), Version(m.row, m.from))
  IN /\ row' = IF res.action = "AcceptRemote" THEN [row EXCEPT ![p] = m.row] ELSE row
     /\ msgs' = (msgs \ {m}) \cup
                  IF res.action = "KeepLocal" /\ ~res.isConflict
                    THEN sendMetadataUpdateToPeer(p, m.from, row[p])
                    ELSE {}
     /\ warned' = (warned \/ res.isConflict)
     /\ UNCHANGED <<links, now, written>>

(* The scan at p meets what a user did to the file, at time t, while the
   application was closed.  Only a changed version is broadcast.             *)
ScanAndIndexLocalFiles(p, h, t) ==
  /\ Room /\ ScannedRow(row[p], h, t) # row[p]
  /\ ScannedRow(row[p], h, t).ver <= MaxVersion
  /\ row' = [row EXCEPT ![p] = ScannedRow(row[p], h, t)]
  /\ msgs' = IF row'[p].ver = row[p].ver \/ h = Empty
               THEN msgs
               ELSE msgs \cup Broadcast(p, row'[p])
  /\ now' = IF t > now THEN t ELSE now
  /\ written' = written \cup {h}
  /\ UNCHANGED <<links, warned>>

(* The user of p settles a conflict with q: its own row is announced again,
   or dropped so that q answers with its version.                           *)
HandleConflictResolution(p, q, choice) ==
  /\ Room
  /\ \/ /\ choice = "local"
        /\ Exists(row[p])
        /\ row' = row
        /\ msgs' = msgs \cup sendMetadataUpdateToPeer(p, q, row[p])
     \/ /\ choice = "remote"
        /\ row' = [row EXCEPT ![p] = NoRow]
        /\ msgs' = msgs \cup sendMetadataUpdateToPeer(p, q, NoRow)
  /\ UNCHANGED <<links, now, written, warned>>

(* The download of the row's content failed for good (coordinator.go:1020). *)
HardDelete(p) ==
  /\ Exists(row[p])
  /\ row' = [row EXCEPT ![p] = NoRow]
  /\ UNCHANGED <<msgs, links, now, written, warned>>

(* The content of h arrived inside a file_response at time t: the row is saved
   again, with the version it has by now.                                   *)
StoreInline(p, h, t) ==
  /\ row' = [row EXCEPT ![p] = InlineRow(row[p], h, t)]
  /\ UNCHANGED <<msgs, links, now, written, warned>>

(* Two peers connect: each announces its rows that are not deleted.          *)
SyncAllRepositoriesWithPeer(p, q) ==
  IF Exists(row[p]) /\ ~row[p].del THEN {Msg(p, q, row[p])} ELSE {}

Connect(p, q) ==
  /\ p # q /\ ~Linked(p, q)
  /\ links' = links \cup {{p, q}}
  /\ msgs' = msgs \cup SyncAllRepositoriesWithPeer(p, q)
                  \cup SyncAllRepositoriesWithPeer(q, p)
  /\ UNCHANGED <<row, now, written, warned>>

(* A connection breaks: what it carried is lost.                            *)
Disconnect(p, q) ==
  /\ Linked(p, q)
  /\ links' = links \ {{p, q}}
  /\ msgs' = {m \in msgs : {m.from, m.to} # {p, q}}
  /\ UNCHANGED <<row, now, written, warned>>

(* The application at p stops: all its connections break.                    *)
Leave(p) ==
  /\ links' = {e \in links : p \notin e}
  /\ msgs' = {m \in msgs : p \notin {m.from, m.to}}
  /\ UNCHANGED <<row, now, written, warned>>

(* A user changes the file on the disk; no peer has noticed yet.             *)
Tick ==
  /\ now < MaxTime
  /\ now' = now + 1
  /\ UNCHANGED <<row, msgs, links, written, warned>>

-----------------------------------------------------------------------------
Init ==
  /\ row = [p \in Peer |-> NoRow]
  /\ msgs = {}
  /\ links = Pair
  /\ now = 0
  /\ written = {}
  /\ warned = FALSE

(* A change is reported some time after it was made.                        *)
Time == {t \in 0 .. (now + 1) : t <= MaxTime}
Soon == {t \in Time : t >= now}

(* Users give the file one of the contents in H, at one of the times in T.   *)
EditNext(H, T) == \E p \in Peer, h \in H, act \in {"add", "modify"}, t \in T :
  HandleLocalFileChanged(p, h, act, t)

DeleteNext == \E p \in Peer, t \in Time : HandleLocalFileChanged(p, NoHash, "delete", t)

NetNext ==
  \/ \E m \in msgs : HandlePeerMetadataUpdate(m)
  \/ \E p, q \in Peer : Connect(p, q) \/ Disconnect(p, q)

ScanNext == \E p \in Peer, h \in Hash, t \in Time : ScanAndIndexLocalFiles(p, h, t)

RecoveryNext ==
  \/ \E p, q \in Peer, choice \in {"local", "remote"} :
        p # q /\ HandleConflictResolution(p, q, choice)
  \/ \E p \in Peer : HardDelete(p) \/ Leave(p)
  \/ \E p \in Peer, h \in Content, t \in Time : StoreInline(p, h, t)

Next ==
  \/ EditNext(Content \cup {Empty}, Time)
  \/ DeleteNext
  \/ NetNext
  \/ ScanNext
  \/ RecoveryNext
  \/ Tick
Spec == Init /\ [][Next]_vars

(* Users never write the same content twice and never in the same second;
   nothing is deleted or empty, or changed while an application is closed.   *)
Fresh == Content \ written
Later == {t \in Time : t > now}
NextFresh == EditNext(Fresh, Later) \/ NetNext
SpecFresh == Init /\ [][NextFresh]_vars

(* The same, with changes in the same second.                               *)
NextTies == EditNext(Fresh, Soon) \/ NetNext
SpecTies == Init /\ [][NextTies]_vars

(* The same as SpecFresh, with contents that come back.                     *)
NextReverts == EditNext(Content, Later) \/ NetNext
SpecReverts == Init /\ [][NextReverts]_vars

(* The same as SpecFresh, with files that are first reported empty.          *)
NextEmpty == EditNext(Fresh \cup ({Empty} \ written), Later) \/ NetNext
SpecEmpty == Init /\ [][NextEmpty]_vars

(* The same as SpecFresh, with changes and deletions found by a scan.        *)
NextOffline == \/ EditNext(Fresh, Later)
               \/ \E p \in Peer, h \in Fresh \cup {NoHash}, t \in Later :
                     ScanAndIndexLocalFiles(p, h, t)
               \/ NetNext
SpecOffline == Init /\ [][NextOffline]_vars

-----------------------------------------------------------------------------
TypeOK ==
  /\ row \in [Peer -> Row]
  /\ msgs \in SUBSET Message
  /\ links \in SUBSET Pair
  /\ now \in Nat
  /\ written \in SUBSET Hash
  /\ warned \in BOOLEAN

(* Once all peers are connected and nothing is in flight they hold the same
   version of the file: "deterministic tie-break so all nodes agree"
   (conflict.go:54).                                                        *)
Settled == links = Pair /\ msgs = {}
Agreement == Settled =>
  \A p, q \in Peer : row[p].hash = row[q].hash /\ row[p].del = row[q].del

(* The order of versions that Resolve follows when no two contents, and no two
   times, are the same.                                                     *)
AtMost(r, s) == r.ver < s.ver \/ (r.ver = s.ver /\ r.ts <= s.ts)

(* Every version around was written by a user, no later than now.            *)
Known(r) == r = NoRow \/ (/\ r.hash \in written \cap Content
                          /\ r.ver > 0
                          /\ r.ts \in 1..now
                          /\ ~r.del)
Around == {row[p] : p \in Peer} \cup {m.row : m \in msgs}
AllKnown == \A r \in Around : Known(r)
Distinct == \A r, s \in Around : r.hash = s.hash \/ r.ts = s.ts => r = s

(* A message in flight has a connection, and is not ahead of its sender.     *)
MsgsBehind == \A m \in msgs : Linked(m.from, m.to) /\ AtMost(m.row, row[m.from])

(* No peer is left behind for good: when q's version is ahead of p's then one
   at least as good is on its way to p, or is held by a peer that p is not
   connected to and that will announce it when they connect.                *)
NoneLeftBehind ==
  \A p, q \in Peer :
    \/ AtMost(row[q], row[p])
    \/ \E m \in msgs : m.to = p /\ AtMost(row[q], m.row)
    \/ \E x \in Peer \ {p} : ~Linked(x, p) /\ AtMost(row[q], row[x])

FreshInv == TypeOK /\ AllKnown /\ Distinct /\ MsgsBehind /\ NoneLeftBehind

(* A peer never goes back to an older version of the file, whatever stale
   announcement reaches it; it may only forget the file altogether.          *)
VersionsNeverRegress ==
  [][\A p \in Peer : row'[p].ver >= row[p].ver \/ row'[p] = NoRow]_vars
=============================================================================
