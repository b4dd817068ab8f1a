----------------------- MODULE MetadataExchangeProofs -----------------------
(***************************************************************************)
(* Proofs about the conflict policy and about MetadataExchange with its    *)
(* history, for any set of peers and contents and any bounds.              *)
(***************************************************************************)
EXTENDS ExchangeHistory, TLAPS

USE ZenonT(30)

-----------------------------------------------------------------------------
(* What the policy of ConflictDetector guarantees for any two versions.       *)

(* Two peers that compare the same pair of versions, each with its own as
   the local one, agree: the content is identical for both, or exactly one of
   them takes the other's version ("deterministic tie-break so all nodes
   agree", conflict.go:54).  Both also agree on whether it is a conflict.     *)
THEOREM ResolveAgrees ==
  ASSUME NEW H, NEW a \in FileVersion(H), NEW b \in FileVersion(H),
         a.peer # b.peer
  PROVE  /\ Resolve(a, b).action = "Skip" <=> Resolve(b, a).action = "Skip"
         /\ Resolve(a, b).action = "AcceptRemote" <=> Resolve(b, a).action = "KeepLocal"
         /\ Resolve(a, b).isConflict <=> Resolve(b, a).isConflict
  BY SMTT(30) DEF Resolve, resolveConcurrent, Resolution, FileVersion

(* The policy has no cycles: a version that beats one that beats a third one
   beats the third, unless their content is the same.  So the winner of any
   set of versions with different contents does not depend on the order in
   which Resolve compares them, as long as each keeps its peer identifier.   *)
THEOREM BeatsTransitive ==
  ASSUME NEW H, NEW a \in FileVersion(H), NEW b \in FileVersion(H),
         NEW c \in FileVersion(H),
         Beats(b, a), Beats(c, b)
  PROVE  Beats(c, a) \/ c.hash = a.hash
  BY SMTT(30) DEF Beats, Resolve, resolveConcurrent, Resolution, FileVersion

(* KeepLocal without a conflict, the branch of HandlePeerMetadataUpdate that
   dereferences the local row (coordinator.go:596), needs a local version
   above 0, so the row exists (a missing row is version 0,
   coordinator.go:479).                                                      *)
THEOREM KeepLocalHasRow ==
  ASSUME NEW H, NEW a \in FileVersion(H), NEW b \in FileVersion(H),
         Resolve(a, b) = Resolution("KeepLocal", FALSE)
  PROVE  a.ver > 0
  BY SMTT(30) DEF Resolve, resolveConcurrent, Resolution, FileVersion

-----------------------------------------------------------------------------
(* The operators of the exchange.                                           *)

(* When Resolve takes the remote version, in terms of the two rows.          *)
LEMMA AcceptFacts ==
  ASSUME NEW r \in Row, NEW s \in Row, NEW p \in Nat, NEW q \in Nat
  PROVE  /\ Resolve(Version(r, p), Version(s, q)).action = "AcceptRemote" <=>
              /\ r.hash # s.hash
              /\ \/ s.ver > r.ver
                 \/ s.ver = r.ver /\ (s.ts > r.ts \/ (s.ts = r.ts /\ q > p))
         /\ Resolve(Version(r, p), Version(s, q)).isConflict \in BOOLEAN
  BY SMTT(30) DEF Resolve, resolveConcurrent, Resolution, Version, Row

LEMMA NoRowType == NoRow \in Row
  BY DEF NoRow, Row, Hash

LEMMA BroadcastType ==
  ASSUME NEW p \in Peer, NEW r \in Row
  PROVE  Broadcast(p, r) \in SUBSET Message
  BY SMTT(30) DEF Broadcast, Msg, Message

LEMMA SendType ==
  ASSUME NEW p \in Peer, NEW q \in Peer, NEW r \in Row
  PROVE  sendMetadataUpdateToPeer(p, q, r) \in SUBSET Message
  BY SMTT(30) DEF sendMetadataUpdateToPeer, Msg, Message

-----------------------------------------------------------------------------
LEMMA LocalRowType ==
  ASSUME NEW r \in Row, NEW h \in Hash, NEW act, NEW t \in Nat
  PROVE  LocalRow(r, h, act, t) \in Row /\ LocalRow(r, h, act, t).ver >= r.ver
  <1>1. NextVersion(r, h, act) \in Nat /\ NextVersion(r, h, act) >= r.ver
    BY SMTT(30) DEF NextVersion, Row
  <1>2. (act = "delete") \in BOOLEAN
    OBVIOUS
  <1> QED BY <1>1, <1>2 DEF LocalRow, Row

LEMMA ScannedRowType ==
  ASSUME NEW r \in Row, NEW h \in Hash, NEW t \in Nat
  PROVE  ScannedRow(r, h, t) \in Row /\ ScannedRow(r, h, t).ver >= r.ver
  <1>0. CASE h = NoHash /\ ~(Exists(r) /\ ~r.del)
    BY <1>0, SMTT(30) DEF ScannedRow, Row
  <1>1. CASE h = NoHash /\ Exists(r) /\ ~r.del
    <2>1. ScannedRow(r, h, t) =
            [hash |-> r.hash, ver |-> r.ver + 1, ts |-> r.ts, del |-> TRUE]
      BY <1>1 DEF ScannedRow, Row
    <2> QED BY <2>1, SMTT(30) DEF Row
  <1>2. CASE h # NoHash /\ Exists(r) /\ r.hash = h /\ ~r.del
    BY <1>2, SMTT(30) DEF ScannedRow, Row, Millis
  <1>3. CASE h # NoHash /\ ~(Exists(r) /\ r.hash = h /\ ~r.del)
    BY <1>3, SMTT(30) DEF ScannedRow, Row, Millis
  <1> QED BY <1>0, <1>1, <1>2, <1>3

(* What every step does to the rows: it keeps their type, and each row either
   grows in version or is forgotten.                                         *)
LEMMA StepFacts ==
  ASSUME TypeOK, [Next]_vars
  PROVE  TypeOK' /\ \A p \in Peer : row'[p].ver >= row[p].ver \/ row'[p] = NoRow
  <1> USE ExchangeAssumption, HashAssumption
  <1> DEFINE Grows == \A p \in Peer : row'[p].ver >= row[p].ver \/ row'[p] = NoRow
  <1> SUFFICES TypeOK' /\ Grows
    OBVIOUS
  <1>t. \A p \in Peer : row[p] \in Row /\ row[p].ver \in Nat
    BY DEF TypeOK, Row
  <1>1. ASSUME NEW p \in Peer, NEW h \in Hash, NEW act, NEW t \in Time,
               HandleLocalFileChanged(p, h, act, t)
        PROVE  TypeOK' /\ Grows
    <2>t. t \in Nat
      BY SMTT(30) DEF Time, TypeOK
    <2>1. LocalRow(row[p], h, act, t) \in Row /\ LocalRow(row[p], h, act, t).ver >= row[p].ver
      BY <1>t, <2>t, LocalRowType
    <2>2. row' = [row EXCEPT ![p] = LocalRow(row[p], h, act, t)] /\ row' \in [Peer -> Row]
      BY <1>1, <2>1 DEF HandleLocalFileChanged, TypeOK
    <2>3. row'[p] \in Row
      BY <2>2
    <2>4. msgs' \in SUBSET Message
      BY <1>1, <2>3, BroadcastType DEF HandleLocalFileChanged, TypeOK
    <2>5. Grows
      BY <1>t, <2>1, <2>2, SMTT(30) DEF TypeOK
    <2> QED BY <1>1, <2>t, <2>2, <2>4, <2>5 DEF HandleLocalFileChanged, TypeOK
  <1>2. ASSUME NEW m \in msgs, HandlePeerMetadataUpdate(m)
        PROVE  TypeOK' /\ Grows
    <2> DEFINE res == Resolve(Version(row[m.to], m.to), Version(m.row, m.from))
    <2>1. m.to \in Peer /\ m.from \in Peer /\ m.row \in Row
      BY DEF TypeOK, Message
    <2>2. /\ res.action = "AcceptRemote" => m.row.ver >= row[m.to].ver
          /\ res.isConflict \in BOOLEAN
      <3>1. m.to \in Nat /\ m.from \in Nat
        BY <2>1
      <3>2. row[m.to] \in Row
        BY <1>t, <2>1
      <3>3. /\ res.action = "AcceptRemote" =>
                 m.row.ver > row[m.to].ver \/ m.row.ver = row[m.to].ver
            /\ res.isConflict \in BOOLEAN
        BY <2>1, <3>1, <3>2, AcceptFacts, SMTT(30)
      <3> QED BY <2>1, <3>2, <3>3, SMTT(30) DEF Row
    <2> HIDE DEF res
    <2>3. /\ row' = IF res.action = "AcceptRemote" THEN [row EXCEPT ![m.to] = m.row] ELSE row
          /\ warned' = (warned \/ res.isConflict)
          /\ msgs' \subseteq msgs \cup sendMetadataUpdateToPeer(m.to, m.from, row[m.to])
          /\ UNCHANGED <<links, now, written>>
      BY <1>2 DEF HandlePeerMetadataUpdate, res
    <2>4. row' \in [Peer -> Row]
      BY <2>1, <2>3 DEF TypeOK
    <2>5. msgs' \in SUBSET Message
      BY <1>t, <2>1, <2>3, SendType DEF TypeOK
    <2>6. Grows
      BY <1>t, <2>1, <2>2, <2>3, SMTT(30) DEF TypeOK
    <2>7. warned' \in BOOLEAN
      BY <2>2, <2>3 DEF TypeOK
    <2> QED BY <2>3, <2>4, <2>5, <2>6, <2>7 DEF TypeOK
  <1>3. ASSUME NEW p \in Peer, NEW h \in Hash, NEW t \in Time,
               ScanAndIndexLocalFiles(p, h, t)
        PROVE  TypeOK' /\ Grows
    <2>t. t \in Nat
      BY SMTT(30) DEF Time, TypeOK
    <2>1. ScannedRow(row[p], h, t) \in Row /\ ScannedRow(row[p], h, t).ver >= row[p].ver
      BY <1>t, <2>t, ScannedRowType
    <2>2. row' = [row EXCEPT ![p] = ScannedRow(row[p], h, t)] /\ row' \in [Peer -> Row]
      BY <1>3, <2>1 DEF ScanAndIndexLocalFiles, TypeOK
    <2>3. row'[p] \in Row
      BY <2>2
    <2>4. msgs' \in SUBSET Message
      BY <1>3, <2>3, BroadcastType DEF ScanAndIndexLocalFiles, TypeOK
    <2>5. Grows
      BY <1>t, <2>1, <2>2, SMTT(30) DEF TypeOK
    <2> QED BY <1>3, <2>t, <2>2, <2>4, <2>5 DEF ScanAndIndexLocalFiles, TypeOK
  <1>4. ASSUME NEW p \in Peer, NEW q \in Peer, NEW choice,
               HandleConflictResolution(p, q, choice)
        PROVE  TypeOK' /\ Grows
    <2>1. row' = row \/ row' = [row EXCEPT ![p] = NoRow]
      BY <1>4 DEF HandleConflictResolution
    <2>2. row' \in [Peer -> Row] /\ Grows
      BY <1>t, <2>1, NoRowType, SMTT(30) DEF TypeOK
    <2>3. msgs' \in SUBSET Message
      BY <1>4, <1>t, NoRowType, SendType DEF HandleConflictResolution, TypeOK
    <2> QED BY <1>4, <2>2, <2>3 DEF HandleConflictResolution, TypeOK
  <1>5. ASSUME NEW p \in Peer, HardDelete(p)
        PROVE  TypeOK' /\ Grows
    BY <1>5, <1>t, NoRowType, SMTT(30) DEF HardDelete, TypeOK
  <1>6. ASSUME NEW p \in Peer, NEW q \in Peer, Connect(p, q)
        PROVE  TypeOK' /\ Grows
    <2>1. msgs' \in SUBSET Message
      BY <1>6, <1>t, SMTT(30) DEF Connect, SyncAllRepositoriesWithPeer, Msg, Message, TypeOK
    <2>2. links' \in SUBSET Pair
      BY <1>6, SMTT(30) DEF Connect, Pair, TypeOK
    <2> QED BY <1>6, <1>t, <2>1, <2>2, SMTT(30) DEF Connect, TypeOK
  <1>7. ASSUME NEW p \in Peer, NEW q \in Peer, Disconnect(p, q)
        PROVE  TypeOK' /\ Grows
    BY <1>7, <1>t, SMTT(30) DEF Disconnect, TypeOK
  <1>l. ASSUME NEW p \in Peer, Leave(p)
        PROVE  TypeOK' /\ Grows
    BY <1>l, <1>t, SMTT(30) DEF Leave, TypeOK
  <1>s. ASSUME NEW p \in Peer, NEW h \in Content, NEW t \in Time, StoreInline(p, h, t)
        PROVE  TypeOK' /\ Grows
    <2>t. t \in Nat
      BY SMTT(30) DEF Time, TypeOK
    <2>1. InlineRow(row[p], h, t) \in Row /\ InlineRow(row[p], h, t).ver >= row[p].ver
      BY <1>t, <2>t, SMTT(30) DEF InlineRow, Exists, Row, Hash
    <2> QED BY <1>s, <1>t, <2>1, SMTT(30) DEF StoreInline, TypeOK
  <1>k. ASSUME Tick
        PROVE  TypeOK' /\ Grows
    BY <1>k, <1>t, SMTT(30) DEF Tick, TypeOK
  <1>8. ASSUME UNCHANGED vars
        PROVE  TypeOK' /\ Grows
    BY <1>8, <1>t, SMTT(30) DEF vars, TypeOK
  <1>9. CASE Next
    <2>1. CASE EditNext(Content \cup {Empty}, Time)
      BY <2>1, <1>1 DEF EditNext, Hash
    <2>2. CASE DeleteNext
      BY <2>2, <1>1 DEF DeleteNext, Hash
    <2>3. CASE NetNext
      BY <2>3, <1>2, <1>6, <1>7 DEF NetNext
    <2>4. CASE ScanNext
      BY <2>4, <1>3 DEF ScanNext
    <2>5. CASE RecoveryNext
      BY <2>5, <1>4, <1>5, <1>l, <1>s DEF RecoveryNext
    <2> QED BY <1>9, <1>k, <2>1, <2>2, <2>3, <2>4, <2>5 DEF Next
  <1> QED BY <1>8, <1>9

LEMMA InitType == Init => TypeOK
  <1> SUFFICES ASSUME Init PROVE TypeOK
    OBVIOUS
  <1>1. row \in [Peer -> Row]
    BY NoRowType DEF Init
  <1> QED BY <1>1 DEF Init, TypeOK

(* Every variable keeps its type, for every specification of the module.     *)
THEOREM ExchangeTypeCorrect == Spec => []TypeOK
  <1>1. TypeOK /\ [Next]_vars => TypeOK'
    BY StepFacts
  <1> QED BY <1>1, InitType, PTL DEF Spec

(* HandlePeerMetadataUpdate, HandleLocalFileChanged and the scan never replace
   a row by an older version of the file: it only disappears when the user
   drops it in a conflict or its download has failed for good.               *)
THEOREM NeverRegress == Spec => VersionsNeverRegress
  <1>1. TypeOK /\ [Next]_vars =>
          [\A p \in Peer : row'[p].ver >= row[p].ver \/ row'[p] = NoRow]_vars
    BY StepFacts
  <1>2. TypeOK /\ [Next]_vars => TypeOK'
    BY StepFacts
  <1> QED BY <1>1, <1>2, InitType, PTL DEF Spec, VersionsNeverRegress

-----------------------------------------------------------------------------
(* Agreement.  Under SpecFresh the rows are totally ordered by AtMost, and the
   invariant FreshInv follows every version to every peer.                   *)

LEMMA AtMostFacts ==
  ASSUME NEW r \in Row, NEW s \in Row, NEW u \in Row
  PROVE  /\ AtMost(r, r)
         /\ AtMost(r, s) /\ AtMost(s, u) => AtMost(r, u)
         /\ AtMost(r, s) \/ AtMost(s, r)
         /\ AtMost(r, s) /\ AtMost(s, r) => r.ts = s.ts
         /\ AtMost(NoRow, r)
  BY SMTT(30) DEF AtMost, Row, NoRow

LEMMA FreshIsNext == [NextFresh]_vars => [Next]_vars
  BY DEF NextFresh, Next, EditNext, Fresh, Later

(* The rows and messages around, one by one.                                *)
LEMMA AroundFacts ==
  ASSUME FreshInv
  PROVE  /\ \A p \in Peer : row[p] \in Around /\ row[p] \in Row
         /\ \A m \in msgs : /\ m.row \in Around /\ m.row \in Row
                            /\ m.from \in Peer /\ m.to \in Peer
  BY DEF FreshInv, TypeOK, Around, Message

(* With everyone connected and nothing in flight, NoneLeftBehind puts every two
   rows in both orders.                                                      *)
LEMMA Agrees == FreshInv => Agreement
  <1> SUFFICES ASSUME FreshInv, Settled, NEW p \in Peer, NEW q \in Peer
               PROVE  row[p] = row[q]
    BY DEF Agreement
  <1>1. ASSUME NEW x \in Peer, NEW y \in Peer PROVE AtMost(row[x], row[y])
    <2>1. \A z \in Peer \ {y} : Linked(z, y)
      BY DEF Settled, Linked, Pair
    <2> QED BY <2>1 DEF FreshInv, NoneLeftBehind, Settled
  <1>2. row[p].ts = row[q].ts
    BY <1>1, AtMostFacts, AroundFacts
  <1> QED BY <1>2, AroundFacts DEF FreshInv, Distinct

LEMMA InitFresh == Init => FreshInv
  <1> SUFFICES ASSUME Init PROVE FreshInv
    OBVIOUS
  <1>1. TypeOK
    BY InitType
  <1>2. \A p \in Peer : row[p] = NoRow
    BY DEF Init
  <1>3. Around \subseteq {NoRow}
    BY <1>2 DEF Around, Init
  <1>4. AllKnown /\ Distinct
    BY <1>3 DEF AllKnown, Distinct, Known
  <1>5. MsgsBehind
    BY DEF Init, MsgsBehind
  <1>6. NoneLeftBehind
    <2>1. AtMost(NoRow, NoRow)
      BY NoRowType, AtMostFacts
    <2> QED BY <1>2, <2>1 DEF NoneLeftBehind
  <1> QED BY <1>1, <1>4, <1>5, <1>6 DEF FreshInv

(* A change by p's user gives the file a row that nobody has had.             *)
NewRow(p, h, r) ==
  /\ now \in Nat /\ h \in Content /\ h \notin written
  /\ row[p].ver \in Nat
  /\ r \in Row
  /\ r = [hash |-> h, ver |-> row[p].ver + 1, ts |-> now + 1, del |-> FALSE]
  /\ now' = now + 1 /\ written' = written \cup {h} /\ links' = links /\ warned' = warned
  /\ \A x \in Peer : row'[x] = IF x = p THEN r ELSE row[x]
  /\ msgs' = msgs \cup Broadcast(p, r)
  /\ Around' \subseteq Around \cup {r}

LEMMA EditFacts ==
  ASSUME FreshInv,
         NEW p \in Peer, NEW h \in Fresh, NEW act \in {"add", "modify"}, NEW t \in Later,
         HandleLocalFileChanged(p, h, act, t)
  PROVE  \E r \in Row : NewRow(p, h, r)
  <1> USE ExchangeAssumption, HashAssumption
  <1>r. PICK r : r = LocalRow(row[p], h, act, t)
    OBVIOUS
  <1>0. /\ now \in Nat /\ t = now + 1 /\ h \in Content /\ h \notin written
        /\ row' = [row EXCEPT ![p] = r] /\ row'[p] = r
        /\ now' = t /\ written' = written \cup {h} /\ links' = links /\ warned' = warned
    BY <1>r, SMTT(30) DEF HandleLocalFileChanged, FreshInv, TypeOK, Later, Time, Fresh
  <1>1. Known(row[p])
    BY AroundFacts DEF FreshInv, AllKnown
  <1>2. /\ r = [hash |-> h, ver |-> row[p].ver + 1, ts |-> now + 1, del |-> FALSE]
        /\ r \in Row
    <2>1. row[p] \in Row
      BY AroundFacts
    <2>2. NextVersion(row[p], h, act) = row[p].ver + 1
      BY <1>1, <2>1, SMTT(30) DEF NextVersion, Known, NoRow, Exists, SizeZero, Row
    <2>3. (act = "delete") = FALSE
      OBVIOUS
    <2>4. r = [hash |-> h, ver |-> row[p].ver + 1, ts |-> now + 1, del |-> FALSE]
      BY <1>r, <1>0, <2>2, <2>3 DEF LocalRow
    <2> QED BY <1>0, <2>1, <2>4, SMTT(30) DEF Row, Hash
  <1>4. msgs' = msgs \cup Broadcast(p, r)
    BY <1>0 DEF HandleLocalFileChanged
  <1>5. \A x \in Peer : row'[x] = IF x = p THEN r ELSE row[x]
    BY <1>0 DEF FreshInv, TypeOK
  <1>6. \A m \in Broadcast(p, r) :
           m.from = p /\ m.to \in Peer /\ m.row = r /\ Linked(p, m.to)
    BY SMTT(30) DEF Broadcast, Msg
  <1>7. Around' \subseteq Around \cup {r}
    <2>1. \A x \in Peer : row'[x] \in Around \cup {r}
      BY <1>5, AroundFacts
    <2>2. \A m \in msgs' : m.row \in Around \cup {r}
      BY <1>4, <1>6, AroundFacts
    <2> QED BY <2>1, <2>2 DEF Around
  <1>8. row[p].ver \in Nat
    BY AroundFacts DEF Row
  <1> QED BY <1>0, <1>2, <1>4, <1>5, <1>7, <1>8 DEF NewRow

(* A change by p's user: its new row is above the old one, and is announced to
   every connected peer.                                                    *)
LEMMA EditKeepsFresh ==
  ASSUME FreshInv, TypeOK',
         NEW p \in Peer, NEW h \in Fresh, NEW act \in {"add", "modify"}, NEW t \in Later,
         HandleLocalFileChanged(p, h, act, t)
  PROVE  FreshInv'
  <1> USE ExchangeAssumption, HashAssumption
  <1>r. PICK r \in Row : NewRow(p, h, r)
    BY EditFacts
  <1>0. /\ now \in Nat /\ h \in Content /\ h \notin written /\ row[p].ver \in Nat
        /\ now' = now + 1 /\ written' = written \cup {h} /\ links' = links
    BY <1>r DEF NewRow
  <1>2. r = [hash |-> h, ver |-> row[p].ver + 1, ts |-> now + 1, del |-> FALSE]
    BY <1>r DEF NewRow
  <1>3. AtMost(row[p], r)
    BY <1>0, <1>2, SMTT(30) DEF AtMost
  <1>refl. AtMost(r, r)
    BY AtMostFacts
  <1>4. msgs' = msgs \cup Broadcast(p, r)
    BY <1>r DEF NewRow
  <1>5. \A x \in Peer : row'[x] = IF x = p THEN r ELSE row[x]
    BY <1>r DEF NewRow
  <1>6. \A m \in Broadcast(p, r) :
           m.from = p /\ m.to \in Peer /\ m.row = r /\ Linked(p, m.to)
    BY SMTT(30) DEF Broadcast, Msg
  <1>7. Around' \subseteq Around \cup {r}
    BY <1>r DEF NewRow
  <1>8. AllKnown'
    <2>1. \A s \in Around : Known(s)
      BY DEF FreshInv, AllKnown
    <2>2. \A s : Known(s) => Known(s)'
      BY <1>0, SMTT(30) DEF Known
    <2>3. Known(r)'
      BY <1>0, <1>2, SMTT(30) DEF Known
    <2> QED BY <1>7, <2>1, <2>2, <2>3 DEF AllKnown
  <1>9. Distinct'
    <2>1. \A s \in Around : s.hash # r.hash /\ s.ts # r.ts
      BY <1>0, <1>2, SMTT(30) DEF FreshInv, AllKnown, Known, NoRow
    <2> QED BY <1>7, <2>1 DEF FreshInv, Distinct
  <1>10. \A x \in Peer : AtMost(row[x], row'[x])
    BY <1>3, <1>5, AroundFacts, AtMostFacts
  <1>11. \A x \in Peer : row'[x] \in Row
    BY DEF TypeOK
  <1>12. MsgsBehind'
    <2>1. ASSUME NEW m \in msgs PROVE Linked(m.from, m.to)' /\ AtMost(m.row, row'[m.from])
      <3>1. Linked(m.from, m.to) /\ AtMost(m.row, row[m.from])
        BY DEF FreshInv, MsgsBehind
      <3>2. m.from \in Peer /\ m.row \in Row /\ row[m.from] \in Row /\ row'[m.from] \in Row
        BY <1>11, AroundFacts
      <3>3. AtMost(m.row, row'[m.from])
        <4>1. AtMost(m.row, row[m.from]) /\ AtMost(row[m.from], row'[m.from])
          BY <1>10, <3>1, <3>2
        <4>2. \A a, b, c \in Row : AtMost(a, b) /\ AtMost(b, c) => AtMost(a, c)
          BY AtMostFacts
        <4> QED BY <3>2, <4>1, <4>2
      <3> QED BY <1>0, <3>1, <3>3 DEF Linked
    <2>2. ASSUME NEW m \in Broadcast(p, r)
          PROVE  Linked(m.from, m.to)' /\ AtMost(m.row, row'[m.from])
      BY <1>0, <1>refl, <1>5, <1>6 DEF Linked
    <2> QED BY <1>4, <2>1, <2>2 DEF MsgsBehind, AtMost
  <1>13. NoneLeftBehind'
    <2> SUFFICES ASSUME NEW x \in Peer, NEW y \in Peer
                 PROVE  \/ AtMost(row'[y], row'[x])
                        \/ \E m \in msgs' : m.to = x /\ AtMost(row'[y], m.row)
                        \/ \E z \in Peer \ {x} : ~Linked(z, x) /\ AtMost(row'[y], row'[z])
      BY <1>0 DEF NoneLeftBehind, AtMost, Linked
    <2>1. CASE y = p /\ x = p
      BY <2>1, <1>11, AtMostFacts
    <2>2. CASE y = p /\ x # p /\ Linked(p, x)
      <3>1. Msg(p, x, r) \in Broadcast(p, r) /\ Msg(p, x, r).to = x /\ Msg(p, x, r).row = r
        BY <2>2 DEF Broadcast, Msg
      <3>2. row'[y] = r
        BY <2>2, <1>5
      <3> QED BY <3>1, <3>2, <1>refl, <1>4
    <2>3. CASE y = p /\ x # p /\ ~Linked(p, x)
      BY <2>3, <1>11, AtMostFacts
    <2>4. CASE y # p
      <3>1. row'[y] = row[y]
        BY <2>4, <1>5
      <3>2. CASE AtMost(row[y], row[x])
        BY <3>1, <3>2, <1>10, <1>11, AroundFacts, AtMostFacts
      <3>3. CASE \E m \in msgs : m.to = x /\ AtMost(row[y], m.row)
        BY <3>1, <3>3, <1>4
      <3>4. CASE \E z \in Peer \ {x} : ~Linked(z, x) /\ AtMost(row[y], row[z])
        BY <3>1, <3>4, <1>10, <1>11, AroundFacts, AtMostFacts
      <3> QED BY <3>2, <3>3, <3>4 DEF FreshInv, NoneLeftBehind
    <2> QED BY <2>1, <2>2, <2>3, <2>4
  <1> QED BY <1>8, <1>9, <1>12, <1>13 DEF FreshInv

(* An announcement is handled: the receiver ends with the greater of the two
   versions, so what the message covered is covered by the receiver's row.    *)
LEMMA ReceiveKeepsFresh ==
  ASSUME FreshInv, TypeOK', NEW m \in msgs, HandlePeerMetadataUpdate(m)
  PROVE  FreshInv'
  <1> USE ExchangeAssumption, HashAssumption
  <1>p. PICK p \in Peer : p = m.to
    BY AroundFacts
  <1>s. PICK s \in Row : s = m.row
    BY AroundFacts
  <1>0. row[p] \in Row /\ m.from \in Peer /\ AtMost(s, row[m.from]) /\ Linked(m.from, p)
    BY <1>p, <1>s, AroundFacts DEF FreshInv, MsgsBehind
  <1> DEFINE accept == Resolve(Version(row[p], p), Version(s, m.from)).action = "AcceptRemote"
  <1>1. /\ row' = IF accept THEN [row EXCEPT ![p] = s] ELSE row
        /\ UNCHANGED <<links, now, written>>
    BY <1>p, <1>s DEF HandlePeerMetadataUpdate
  <1>2. msgs' \subseteq msgs \cup {Msg(p, m.from, row[p])} /\ msgs \ {m} \subseteq msgs'
    BY <1>p, <1>s DEF HandlePeerMetadataUpdate, sendMetadataUpdateToPeer
  <1>3. row[p].hash = s.hash \/ row[p].ts = s.ts => row[p] = s
    BY <1>p, <1>s, AroundFacts DEF FreshInv, Distinct
  <1>4. /\ accept => AtMost(row[p], s)
        /\ ~accept => AtMost(s, row[p])
    <2>1. p \in Nat /\ m.from \in Nat
      BY <1>0
    <2>2. accept <=> /\ row[p].hash # s.hash
                     /\ \/ s.ver > row[p].ver
                        \/ s.ver = row[p].ver /\ (s.ts > row[p].ts \/ (s.ts = row[p].ts /\ m.from > p))
      BY <1>0, <2>1, AcceptFacts, SMTT(30)
    <2> HIDE DEF accept
    <2>3. row[p].ver \in Nat /\ row[p].ts \in Nat /\ s.ver \in Nat /\ s.ts \in Nat
      BY <1>0 DEF Row
    <2>4. CASE accept
      BY <2>2, <2>3, <2>4, SMTT(30) DEF AtMost
    <2>5. CASE ~accept
      BY <1>3, <2>2, <2>3, <2>5, SMTT(30) DEF AtMost
    <2> QED BY <2>4, <2>5
  <1> HIDE DEF accept
  <1>5. \A x \in Peer : row'[x] = IF x = p /\ accept THEN s ELSE row[x]
    BY <1>1 DEF FreshInv, TypeOK
  <1>6. \A x \in Peer : row'[x] \in Row /\ AtMost(row[x], row'[x])
    BY <1>4, <1>5, AroundFacts, AtMostFacts
  <1>7. AtMost(s, row'[p])
    BY <1>4, <1>5, AtMostFacts
  <1>8. Around' \subseteq Around
    <2>1. \A x \in Peer : row'[x] \in Around
      BY <1>5, <1>s, AroundFacts
    <2>2. \A n \in msgs' : n.row \in Around
      BY <1>2, AroundFacts, SMTT(30) DEF Msg
    <2> QED BY <2>1, <2>2 DEF Around
  <1>9. AllKnown'
    <2>1. \A u \in Around : Known(u)
      BY DEF FreshInv, AllKnown
    <2>2. \A u : Known(u) => Known(u)'
      BY <1>1 DEF Known
    <2> QED BY <1>8, <2>1, <2>2 DEF AllKnown
  <1>10. Distinct'
    BY <1>8 DEF FreshInv, Distinct
  <1>11. MsgsBehind'
    <2> SUFFICES ASSUME NEW n \in msgs'
                 PROVE  Linked(n.from, n.to)' /\ AtMost(n.row, row'[n.from])
      BY DEF MsgsBehind, AtMost
    <2>1. CASE n \in msgs
      <3>1. Linked(n.from, n.to) /\ AtMost(n.row, row[n.from])
        BY <2>1 DEF FreshInv, MsgsBehind
      <3>2. n.row \in Row /\ n.from \in Peer
        BY <2>1, AroundFacts
      <3> QED BY <1>1, <1>6, <3>1, <3>2, AroundFacts, AtMostFacts, SMTT(30) DEF Linked
    <2>2. CASE n = Msg(p, m.from, row[p])
      <3>1. n.from = p /\ n.to = m.from /\ n.row = row[p]
        BY <2>2 DEF Msg
      <3>2. Linked(p, m.from)
        <4>1. {p, m.from} = {m.from, p}
          OBVIOUS
        <4> QED BY <1>0, <4>1 DEF Linked
      <3> QED BY <1>1, <1>6, <3>1, <3>2 DEF Linked
    <2> QED BY <1>2, <2>1, <2>2
  <1>12. NoneLeftBehind'
    <2> SUFFICES ASSUME NEW x \in Peer, NEW y \in Peer
                 PROVE  \/ AtMost(row'[y], row'[x])
                        \/ \E n \in msgs' : n.to = x /\ AtMost(row'[y], n.row)
                        \/ \E z \in Peer \ {x} : ~Linked(z, x) /\ AtMost(row'[y], row'[z])
      BY <1>1 DEF NoneLeftBehind, AtMost, Linked
    <2>1. PICK w \in Peer : AtMost(row'[y], row[w])
      <3>1. CASE y = p /\ accept
        BY <3>1, <1>0, <1>5
      <3>2. CASE ~(y = p /\ accept)
        BY <3>2, <1>5, AroundFacts, AtMostFacts
      <3> QED BY <3>1, <3>2
    <2>y. row'[y] \in Row /\ row[w] \in Row /\ row[x] \in Row /\ row'[x] \in Row
      BY <1>6, AroundFacts
    <2>2. CASE AtMost(row[w], row[x])
      BY <1>6, <2>1, <2>2, <2>y, AtMostFacts
    <2>3. ASSUME NEW n \in msgs, n.to = x, AtMost(row[w], n.row)
          PROVE  \/ AtMost(row'[y], row'[x])
                 \/ \E k \in msgs' : k.to = x /\ AtMost(row'[y], k.row)
      <3>1. n.row \in Row
        BY AroundFacts
      <3>2. AtMost(row'[y], n.row)
        BY <2>1, <2>3, <2>y, <3>1, AtMostFacts
      <3>3. CASE n = m
        BY <1>7, <1>p, <1>s, <2>3, <2>y, <3>1, <3>2, <3>3, AtMostFacts
      <3>4. CASE n # m
        BY <1>2, <2>3, <3>2, <3>4
      <3> QED BY <3>3, <3>4
    <2>4. ASSUME NEW z \in Peer \ {x}, ~Linked(z, x), AtMost(row[w], row[z])
          PROVE  AtMost(row'[y], row'[z])
      <3>1. row[z] \in Row /\ row'[z] \in Row /\ AtMost(row[z], row'[z])
        BY <1>6, AroundFacts
      <3>2. AtMost(row'[y], row[z])
        BY <2>1, <2>4, <2>y, <3>1, AtMostFacts
      <3> QED BY <2>y, <3>1, <3>2, AtMostFacts
    <2>5. \/ AtMost(row[w], row[x])
          \/ \E n \in msgs : n.to = x /\ AtMost(row[w], n.row)
          \/ \E z \in Peer \ {x} : ~Linked(z, x) /\ AtMost(row[w], row[z])
      BY DEF FreshInv, NoneLeftBehind
    <2> QED BY <2>2, <2>3, <2>4, <2>5
  <1> QED BY <1>9, <1>10, <1>11, <1>12 DEF FreshInv

(* Two peers connect: each announces its row, so neither needs the other to be
   out of reach any longer.                                                 *)
LEMMA ConnectKeepsFresh ==
  ASSUME FreshInv, TypeOK', NEW c \in Peer, NEW d \in Peer, Connect(c, d)
  PROVE  FreshInv'
  <1>1. /\ UNCHANGED <<row, now, written>>
        /\ links' = links \cup {{c, d}}
        /\ msgs' = msgs \cup SyncAllRepositoriesWithPeer(c, d)
                        \cup SyncAllRepositoriesWithPeer(d, c)
    BY DEF Connect
  <1>2. \A x, y \in Peer : \A n \in SyncAllRepositoriesWithPeer(x, y) :
           n.from = x /\ n.to = y /\ n.row = row[x]
    BY SMTT(30) DEF SyncAllRepositoriesWithPeer, Msg
  <1>3. Around' \subseteq Around
    BY <1>1, <1>2, AroundFacts, SMTT(30) DEF Around
  <1>4. AllKnown' /\ Distinct'
    <2>1. \A u \in Around : Known(u)
      BY DEF FreshInv, AllKnown
    <2>2. \A u : Known(u) => Known(u)'
      BY <1>1 DEF Known
    <2> QED BY <1>3, <2>1, <2>2 DEF FreshInv, AllKnown, Distinct
  <1>5. MsgsBehind'
    <2> SUFFICES ASSUME NEW n \in msgs'
                 PROVE  Linked(n.from, n.to)' /\ AtMost(n.row, row[n.from])
      BY <1>1 DEF MsgsBehind, AtMost
    <2>1. CASE n \in msgs
      BY <1>1, <2>1 DEF FreshInv, MsgsBehind, Linked
    <2>2. CASE n \in SyncAllRepositoriesWithPeer(c, d)
      BY <1>1, <1>2, <2>2, AroundFacts, AtMostFacts, SMTT(30) DEF Linked
    <2>3. CASE n \in SyncAllRepositoriesWithPeer(d, c)
      <3>1. {c, d} = {d, c}
        OBVIOUS
      <3> QED BY <1>1, <1>2, <2>3, <3>1, AroundFacts, AtMostFacts, SMTT(30) DEF Linked
    <2> QED BY <1>1, <2>1, <2>2, <2>3
  <1>6. NoneLeftBehind'
    <2> SUFFICES ASSUME NEW x \in Peer, NEW y \in Peer
                 PROVE  \/ AtMost(row[y], row[x])
                        \/ \E n \in msgs' : n.to = x /\ AtMost(row[y], n.row)
                        \/ \E z \in Peer \ {x} : ~Linked(z, x)' /\ AtMost(row[y], row[z])
      BY <1>1 DEF NoneLeftBehind, AtMost
    <2>1. ASSUME NEW z \in Peer \ {x}, ~Linked(z, x), AtMost(row[y], row[z]), Linked(z, x)'
          PROVE  \/ AtMost(row[y], row[x])
                 \/ \E n \in msgs' : n.to = x /\ AtMost(row[y], n.row)
      <3>1. (z = c /\ x = d) \/ (z = d /\ x = c)
        <4>1. {z, x} = {c, d}
          BY <1>1, <2>1 DEF Linked
        <4>2. z \in {c, d} /\ x \in {c, d}
          BY <4>1
        <4>3. z # x
          OBVIOUS
        <4> QED BY <4>2, <4>3
      <3>2. SyncAllRepositoriesWithPeer(z, x) \subseteq msgs'
        BY <1>1, <3>1
      <3>3. Known(row[z])
        BY AroundFacts DEF FreshInv, AllKnown
      <3>4. CASE row[z] = NoRow
        <4>1. row[y] \in Row /\ row[x] \in Row
          BY AroundFacts
        <4>2. AtMost(row[y], NoRow) /\ AtMost(NoRow, row[x])
          BY <2>1, <3>4, <4>1, AtMostFacts
        <4> QED BY <4>1, <4>2, NoRowType, AtMostFacts
      <3>5. CASE row[z] # NoRow
        <4>1. SyncAllRepositoriesWithPeer(z, x) = {Msg(z, x, row[z])}
          BY <3>3, <3>5 DEF Known, SyncAllRepositoriesWithPeer, Exists
        <4>2. Msg(z, x, row[z]).to = x /\ Msg(z, x, row[z]).row = row[z]
          BY DEF Msg
        <4> QED BY <2>1, <3>2, <4>1, <4>2
      <3> QED BY <3>4, <3>5
    <2>2. \/ AtMost(row[y], row[x])
          \/ \E n \in msgs : n.to = x /\ AtMost(row[y], n.row)
          \/ \E z \in Peer \ {x} : ~Linked(z, x) /\ AtMost(row[y], row[z])
      BY DEF FreshInv, NoneLeftBehind
    <2> QED BY <1>1, <2>1, <2>2
  <1> QED BY <1>4, <1>5, <1>6 DEF FreshInv

(* A connection breaks: the version of a lost message is still with its
   sender, which its receiver is no longer connected to.                     *)
LEMMA DisconnectKeepsFresh ==
  ASSUME FreshInv, TypeOK', NEW c \in Peer, NEW d \in Peer, Disconnect(c, d)
  PROVE  FreshInv'
  <1>1. /\ UNCHANGED <<row, now, written>>
        /\ links' = links \ {{c, d}}
        /\ msgs' = {n \in msgs : {n.from, n.to} # {c, d}}
    BY DEF Disconnect
  <1>2. Around' \subseteq Around
    BY <1>1 DEF Around
  <1>3. AllKnown' /\ Distinct'
    <2>1. \A u \in Around : Known(u)
      BY DEF FreshInv, AllKnown
    <2>2. \A u : Known(u) => Known(u)'
      BY <1>1 DEF Known
    <2> QED BY <1>2, <2>1, <2>2 DEF FreshInv, AllKnown, Distinct
  <1>4. MsgsBehind'
    BY <1>1 DEF FreshInv, MsgsBehind, Linked, AtMost
  <1>5. NoneLeftBehind'
    <2> SUFFICES ASSUME NEW x \in Peer, NEW y \in Peer
                 PROVE  \/ AtMost(row[y], row[x])
                        \/ \E n \in msgs' : n.to = x /\ AtMost(row[y], n.row)
                        \/ \E z \in Peer \ {x} : ~Linked(z, x)' /\ AtMost(row[y], row[z])
      BY <1>1 DEF NoneLeftBehind, AtMost
    <2>1. ASSUME NEW n \in msgs, n.to = x, AtMost(row[y], n.row), n \notin msgs'
          PROVE  \E z \in Peer \ {x} : ~Linked(z, x)' /\ AtMost(row[y], row[z])
      <3>1. n.from \in Peer /\ n.row \in Row
        BY AroundFacts
      <3>2. Linked(n.from, x) /\ AtMost(n.row, row[n.from])
        BY <2>1 DEF FreshInv, MsgsBehind
      <3>3. n.from # x
        <4>1. {n.from, x} \in Pair
          BY <3>2 DEF FreshInv, TypeOK, Linked
        <4> QED BY <4>1 DEF Pair
      <3>4. ~Linked(n.from, x)'
        BY <1>1, <2>1 DEF Linked
      <3>5. AtMost(row[y], row[n.from])
        BY <2>1, <3>1, <3>2, AroundFacts, AtMostFacts, SMTT(30)
      <3> QED BY <3>1, <3>3, <3>4, <3>5
    <2>2. \/ AtMost(row[y], row[x])
          \/ \E n \in msgs : n.to = x /\ AtMost(row[y], n.row)
          \/ \E z \in Peer \ {x} : ~Linked(z, x) /\ AtMost(row[y], row[z])
      BY DEF FreshInv, NoneLeftBehind
    <2>3. \A z : ~Linked(z, x) => ~Linked(z, x)'
      BY <1>1 DEF Linked
    <2> QED BY <2>1, <2>2, <2>3
  <1> QED BY <1>3, <1>4, <1>5 DEF FreshInv

LEMMA FreshStep == FreshInv /\ [NextFresh]_vars => FreshInv'
  <1> SUFFICES ASSUME FreshInv, [NextFresh]_vars PROVE FreshInv'
    OBVIOUS
  <1>1. TypeOK'
    BY FreshIsNext, StepFacts DEF FreshInv
  <1>2. CASE EditNext(Fresh, Later)
    BY <1>1, <1>2, EditKeepsFresh DEF EditNext
  <1>3. CASE NetNext
    BY <1>1, <1>3, ReceiveKeepsFresh, ConnectKeepsFresh, DisconnectKeepsFresh DEF NetNext
  <1>4. CASE UNCHANGED vars
    <2>1. /\ row' = row /\ msgs' = msgs /\ links' = links
          /\ now' = now /\ written' = written
      BY <1>4 DEF vars
    <2>2. AllKnown' /\ Distinct'
      BY <2>1, SMTT(30) DEF FreshInv, AllKnown, Known, Around, Distinct
    <2>3. MsgsBehind'
      BY <2>1 DEF FreshInv, MsgsBehind, Linked, AtMost
    <2>4. NoneLeftBehind'
      BY <2>1 DEF FreshInv, NoneLeftBehind, Linked, AtMost
    <2> QED BY <1>1, <2>2, <2>3, <2>4 DEF FreshInv
  <1> QED BY <1>2, <1>3, <1>4 DEF NextFresh

(* Whatever order announcements arrive in, and however connections come and
   go, peers that are all connected with nothing in flight hold the same
   version, for any number of peers: as long as no two changes have the same
   content or the same second, nothing is deleted and no file is empty.  The
   counterexamples of MCMetadataExchange_ties.cfg and _reverts.cfg show that
   these conditions are needed.                                             *)
THEOREM AgreementHolds == SpecFresh => []Agreement
  BY FreshStep, InitFresh, Agrees, PTL DEF SpecFresh

-----------------------------------------------------------------------------
(* Conflicts and last-write-wins, from the history of who knew what.         *)

(* The network only carries versions that are around, and no peer takes a lesser
   one; a conflict is reported of two versions with one number.              *)
NetStep ==
  /\ written' = written /\ Around' \subseteq Around
  /\ \A p \in Peer : row'[p] \in Around /\ AtMost(row[p], row'[p])
  /\ warned' => warned \/ \E r, s \in Around : r.hash # s.hash /\ r.ver = s.ver

LEMMA NetFacts ==
  ASSUME FreshInv, NetNext \/ UNCHANGED vars
  PROVE  NetStep
  <1> USE ExchangeAssumption
  <1>1. ASSUME NEW m \in msgs, HandlePeerMetadataUpdate(m) PROVE NetStep
    <2>p. PICK p \in Peer : p = m.to
      BY AroundFacts
    <2>q. PICK q \in Peer : q = m.from
      BY AroundFacts
    <2>s. PICK s \in Row : s = m.row
      BY AroundFacts
    <2>r. PICK r \in Row : r = row[p]
      BY AroundFacts
    <2>a. r \in Around /\ s \in Around
      BY <2>r, <2>s, AroundFacts
    <2>d. PICK res : res = Resolve(Version(r, p), Version(s, q))
      OBVIOUS
    <2>1. /\ row' = IF res.action = "AcceptRemote" THEN [row EXCEPT ![p] = s] ELSE row
          /\ msgs' \subseteq msgs \cup {Msg(p, q, r)}
          /\ warned' = (warned \/ res.isConflict)
          /\ written' = written
      BY <1>1, <2>p, <2>q, <2>s, <2>r, <2>d DEF HandlePeerMetadataUpdate, sendMetadataUpdateToPeer
    <2>2. p \in Nat /\ q \in Nat
      OBVIOUS
    <2>3. res.action = "AcceptRemote" =>
            s.ver > r.ver \/ (s.ver = r.ver /\ (s.ts > r.ts \/ s.ts = r.ts))
      BY <2>2, <2>d, AcceptFacts, SMTT(30)
    <2>4. res.isConflict => r.hash # s.hash /\ r.ver = s.ver
      BY <2>2, <2>d, SMTT(30) DEF Resolve, resolveConcurrent, Resolution, Version, Row
    <2>5. res.action = "AcceptRemote" => AtMost(r, s)
      <3>1. r.ver \in Nat /\ s.ver \in Nat /\ r.ts \in Nat /\ s.ts \in Nat
        BY DEF Row
      <3> QED BY <2>3, <3>1, SMTT(30) DEF AtMost
    <2>6. \A x \in Peer : row'[x] = row[x] \/ (x = p /\ row'[x] = s /\ res.action = "AcceptRemote")
      BY <2>1 DEF FreshInv, TypeOK
    <2>7. ASSUME NEW x \in Peer PROVE row'[x] \in Around /\ AtMost(row[x], row'[x])
      <3>1. row[x] \in Around /\ AtMost(row[x], row[x])
        BY AroundFacts, AtMostFacts
      <3> QED BY <2>5, <2>6, <2>a, <2>r, <3>1
    <2>8. \A n \in msgs' : n.row \in Around
      BY <2>1, <2>a, AroundFacts, SMTT(30) DEF Msg
    <2>9. Around' \subseteq Around
      BY <2>7, <2>8 DEF Around
    <2>10. warned' => warned \/ \E u, v \in Around : u.hash # v.hash /\ u.ver = v.ver
      BY <2>1, <2>4, <2>a
    <2> QED BY <2>1, <2>7, <2>9, <2>10 DEF NetStep
  <1>2. ASSUME UNCHANGED <<row, written, warned>>, \A n \in msgs' : n.row \in Around
        PROVE NetStep
    <2>1. \A x \in Peer : row'[x] \in Around /\ AtMost(row[x], row'[x])
      <3>1. ASSUME NEW x \in Peer PROVE row[x] \in Around /\ AtMost(row[x], row[x])
        BY AroundFacts, AtMostFacts
      <3> QED BY <1>2, <3>1
    <2>2. Around' \subseteq Around
      BY <1>2, <2>1 DEF Around
    <2>3. warned' = warned /\ written' = written
      BY <1>2
    <2> QED BY <2>1, <2>2, <2>3 DEF NetStep
  <1>3. ASSUME NEW p \in Peer, NEW q \in Peer, Connect(p, q) PROVE NetStep
    <2>1. \A n \in msgs' : n.row \in Around
      BY <1>3, AroundFacts, SMTT(30) DEF Connect, SyncAllRepositoriesWithPeer, Msg
    <2> QED BY <1>2, <1>3, <2>1 DEF Connect
  <1>4. ASSUME NEW p \in Peer, NEW q \in Peer, Disconnect(p, q) PROVE NetStep
    BY <1>2, <1>4, AroundFacts DEF Disconnect
  <1>5. CASE UNCHANGED vars
    BY <1>2, <1>5, AroundFacts DEF vars
  <1> QED BY <1>1, <1>3, <1>4, <1>5 DEF NetNext

(* What HistoryInv says of one version.                                     *)
LEMMA HistoryFacts ==
  ASSUME HistoryInv, NEW r \in Around, r # NoRow
  PROVE  /\ r.hash \in Content /\ r.hash \in written /\ r.hash \in Written
         /\ edited[r.hash] = r.ts
         /\ past[r.hash] \subseteq written
         /\ \A s \in Around : s.hash \in past[r.hash] => s = r \/ s.ver < r.ver
  <1>1. r.hash \in Content /\ r.hash \in written
    BY DEF HistoryInv, FreshInv, AllKnown, Known
  <1>2. r.hash \in Written
    BY <1>1 DEF Written
  <1> QED BY <1>1, <1>2 DEF HistoryInv, Dated, PastIsLower

LEMMA AroundAreRows ==
  ASSUME HistoryInv, NEW r \in Around
  PROVE  r \in Row /\ r.ver \in Nat /\ r.ts \in Nat /\ (r.hash \in Written => r # NoRow)
  <1>1. r \in Row
    BY AroundFacts DEF HistoryInv, Around
  <1> QED BY <1>1, HashAssumption, SMTT(30) DEF Row, NoRow, Written

(* Last write wins: of two versions around with one number, the greater one was
   written no earlier.                                                      *)
LEMMA GreaterIsLater ==
  ASSUME HistoryInv, NEW r \in Around, NEW s \in Around, AtMost(r, s), r.ver = s.ver,
         r.hash \in Written, s.hash \in Written
  PROVE  edited[s.hash] >= edited[r.hash]
  <1>1. r.ts \in Nat /\ s.ts \in Nat /\ r.ver \in Nat /\ r # NoRow /\ s # NoRow
    BY AroundAreRows
  <1>2. edited[s.hash] = s.ts /\ edited[r.hash] = r.ts
    BY <1>1, HistoryFacts
  <1> QED BY <1>1, <1>2, SMTT(30) DEF AtMost

LastWrite(p) ==
  LET g == row[p].hash
      h == row'[p].hash
  IN row'[p].ver = row[p].ver /\ {g, h} \subseteq Written /\ h \in written
       => edited[h] >= edited[g]

LEMMA NetHistory ==
  ASSUME HistoryInv, FreshInv', NetStep, HStep \/ UNCHANGED hvars
  PROVE  HistoryInv' /\ \A p \in Peer : LastWrite(p)
  <1>w. written' = written
    BY DEF NetStep
  <1>t. /\ edited \in [Written -> Nat] /\ past \in [Written -> SUBSET written]
        /\ known \in [Peer -> SUBSET written]
    BY DEF HistoryInv
  <1>1. edited' = edited /\ past' = past
    <2>1. CASE UNCHANGED hvars
      BY <2>1 DEF hvars
    <2>2. CASE HStep
      <3>1. New = {}
        BY <1>w DEF New
      <3> QED BY <1>t, <2>2, <3>1 DEF HStep
    <2> QED BY <2>1, <2>2
  <1>2. /\ known' \in [Peer -> SUBSET written]
        /\ \A p \in Peer : \/ known'[p] = known[p]
                           \/ /\ row'[p].hash \in Written
                              /\ known'[p] = known[p] \cup past[row'[p].hash]
    <2>1. CASE UNCHANGED hvars
      BY <1>t, <2>1 DEF hvars
    <2>2. CASE HStep
      <3>1. known' = [p \in Peer |-> IF row'[p].hash \in Written
                                       THEN known[p] \cup past[row'[p].hash] ELSE known[p]]
        BY <1>1, <2>2 DEF HStep
      <3> QED BY <1>t, <3>1
    <2> QED BY <2>1, <2>2
  <1>3. Dated' /\ PastIsLower'
    BY <1>1 DEF NetStep, HistoryInv, Dated, PastIsLower
  <1>4. KnownIsLower'
    <2> SUFFICES ASSUME NEW p \in Peer, NEW s \in Around', s.hash \in known'[p]
                 PROVE  s.ver <= row'[p].ver
      BY DEF KnownIsLower
    <2>1. /\ s \in Around /\ row'[p] \in Around /\ row[p] \in Around /\ AtMost(row[p], row'[p])
      BY AroundFacts DEF NetStep, HistoryInv
    <2>2. s.ver \in Nat /\ row'[p].ver \in Nat /\ row[p].ver \in Nat
      BY <2>1, AroundAreRows
    <2>3. CASE s.hash \in known[p]
      <3>1. s.ver <= row[p].ver
        BY <2>1, <2>3 DEF HistoryInv, KnownIsLower
      <3> QED BY <2>1, <2>2, <3>1, SMTT(30) DEF AtMost
    <2>4. CASE row'[p].hash \in Written /\ s.hash \in past[row'[p].hash]
      <3>1. row'[p] # NoRow
        BY <2>1, <2>4, AroundAreRows
      <3>2. s = row'[p] \/ s.ver < row'[p].ver
        BY <2>1, <2>4, <3>1, HistoryFacts
      <3> QED BY <2>2, <3>2, SMTT(30)
    <2> QED BY <1>2, <2>3, <2>4
  <1>5. NoFalseConflict'
    <2>1. Clash' <=> Clash
      BY <1>1, <1>w DEF Clash, Ignorant
    <2>2. ASSUME NEW r \in Around, NEW s \in Around, r.hash # s.hash, r.ver = s.ver
          PROVE  Clash
      <3>1. r # NoRow /\ s # NoRow
        <4>1. r = NoRow \/ r.ver > 0
          BY DEF HistoryInv, FreshInv, AllKnown, Known
        <4>2. s = NoRow \/ s.ver > 0
          BY DEF HistoryInv, FreshInv, AllKnown, Known
        <4> QED BY <2>2, <4>1, <4>2, SMTT(30) DEF NoRow
      <3>2. r.ver \in Nat
        BY AroundAreRows
      <3>3. s.hash \notin past[r.hash] /\ r.hash \notin past[s.hash]
        <4>1. s.hash \in past[r.hash] => s = r \/ s.ver < r.ver
          BY <3>1, HistoryFacts
        <4>2. r.hash \in past[s.hash] => r = s \/ r.ver < s.ver
          BY <3>1, HistoryFacts
        <4> QED BY <2>2, <3>2, <4>1, <4>2, SMTT(30)
      <3>4. r.hash \in written \cap Written /\ s.hash \in written \cap Written
        BY <3>1, HistoryFacts
      <3> QED BY <3>3, <3>4 DEF Clash, Ignorant
    <2>3. warned => Clash
      BY DEF HistoryInv, NoFalseConflict
    <2> QED BY <2>1, <2>2, <2>3 DEF NoFalseConflict, NetStep
  <1>6. ASSUME NEW p \in Peer PROVE LastWrite(p)
    <2> SUFFICES ASSUME row'[p].ver = row[p].ver, row[p].hash \in Written, row'[p].hash \in Written
                 PROVE  edited[row'[p].hash] >= edited[row[p].hash]
      BY DEF LastWrite
    <2>1. row'[p] \in Around /\ row[p] \in Around /\ AtMost(row[p], row'[p])
      BY AroundFacts DEF NetStep, HistoryInv
    <2> QED BY <2>1, GreaterIsLater
  <1>7. /\ edited' \in [Written -> Nat] /\ past' \in [Written -> SUBSET written']
        /\ known' \in [Peer -> SUBSET written']
    BY <1>1, <1>2, <1>t, <1>w
  <1> QED BY <1>3, <1>4, <1>5, <1>6, <1>7 DEF HistoryInv

LEMMA EditHistory ==
  ASSUME HistoryInv, FreshInv', NEW p \in Peer, NEW h, NEW r, NewRow(p, h, r), HStep
  PROVE  HistoryInv' /\ \A x \in Peer : LastWrite(x)
  <1>t. /\ edited \in [Written -> Nat] /\ past \in [Written -> SUBSET written]
        /\ known \in [Peer -> SUBSET written] /\ now \in Nat /\ now' = now + 1
        /\ row[p].ver \in Nat /\ written' = written \cup {h} /\ warned' = warned
        /\ h \in Content /\ h \notin written /\ h \in Written
    BY DEF HistoryInv, NewRow, Written
  <1>r. /\ r = [hash |-> h, ver |-> row[p].ver + 1, ts |-> now + 1, del |-> FALSE]
        /\ r.hash = h /\ r.ver = row[p].ver + 1 /\ r.ts = now + 1 /\ r # NoRow
    BY HashAssumption DEF NewRow, NoRow
  <1>o. /\ \A x \in Peer : row'[x] = IF x = p THEN r ELSE row[x]
        /\ Around' \subseteq Around \cup {r}
    BY DEF NewRow
  <1>h. \A s \in Around : s.hash # h
    <2>1. \A s \in Around : s = NoRow \/ s.hash \in written
      BY DEF HistoryInv, FreshInv, AllKnown, Known
    <2> QED BY <1>t, <2>1, HashAssumption, SMTT(30) DEF NoRow
  <1>a. \A x \in Peer : row[x] \in Around
    BY AroundFacts DEF HistoryInv
  <1>1. New = {h}
    BY <1>t DEF New
  <1>2. Author(h) = p
    <2>1. \A x \in Peer : row'[x].hash = h /\ row[x].hash # h <=> x = p
      BY <1>a, <1>h, <1>o, <1>r
    <2> QED BY <2>1 DEF Author
  <1>3. /\ edited' = [g \in Written |-> IF g = h THEN now + 1 ELSE edited[g]]
        /\ past' = [g \in Written |-> IF g = h THEN {h} \cup known[p] ELSE past[g]]
    BY <1>1, <1>2, <1>t DEF HStep
  <1>4. known' = [x \in Peer |-> IF row'[x].hash \in Written
                                   THEN known[x] \cup past'[row'[x].hash] ELSE known[x]]
    BY DEF HStep
  <1>5. /\ edited' \in [Written -> Nat] /\ past' \in [Written -> SUBSET written']
        /\ known' \in [Peer -> SUBSET written']
    <2>1. edited' \in [Written -> Nat] /\ past' \in [Written -> SUBSET written']
      BY <1>3, <1>t, SMTT(30)
    <2> QED BY <1>4, <1>t, <2>1
  <1>6. Dated'
    <2> SUFFICES ASSUME NEW s \in Around', s # NoRow PROVE edited'[s.hash] = s.ts
      BY DEF Dated
    <2>1. CASE s = r
      BY <1>3, <1>r, <1>t, <2>1
    <2>2. CASE s \in Around
      BY <1>3, <1>h, <2>2, HistoryFacts
    <2> QED BY <1>o, <2>1, <2>2
  <1>7. PastIsLower'
    <2> SUFFICES ASSUME NEW u \in Around', NEW s \in Around', u # NoRow, s.hash \in past'[u.hash]
                 PROVE  s = u \/ s.ver < u.ver
      BY DEF PastIsLower
    <2>1. CASE u = r
      <3>1. CASE s \in Around
        <4>1. s.hash \in known[p]
          BY <1>3, <1>h, <1>r, <1>t, <2>1, <3>1
        <4>2. s.ver <= row[p].ver /\ s.ver \in Nat
          BY <3>1, <4>1, AroundAreRows DEF HistoryInv, KnownIsLower
        <4> QED BY <1>r, <1>t, <2>1, <4>2, SMTT(30)
      <3> QED BY <1>o, <2>1, <3>1
    <2>2. CASE u \in Around
      <3>1. s.hash \in past[u.hash] /\ past[u.hash] \subseteq written
        BY <1>3, <1>h, <2>2, HistoryFacts
      <3>2. s \in Around
        BY <1>o, <1>r, <1>t, <3>1
      <3> QED BY <2>2, <3>1, <3>2, HistoryFacts
    <2> QED BY <1>o, <2>1, <2>2
  <1>8. KnownIsLower'
    <2> SUFFICES ASSUME NEW x \in Peer, NEW s \in Around', s.hash \in known'[x]
                 PROVE  s.ver <= row'[x].ver
      BY DEF KnownIsLower
    <2>1. CASE x = p
      <3>1. row'[x] = r
        BY <1>o, <2>1
      <3>2. s.hash \in known[p] \cup {h}
        BY <1>3, <1>4, <1>r, <1>t, <2>1, <3>1
      <3>3. CASE s \in Around
        <4>1. s.hash \in known[p]
          BY <1>h, <3>2, <3>3
        <4>2. s.ver <= row[p].ver /\ s.ver \in Nat
          BY <3>3, <4>1, AroundAreRows DEF HistoryInv, KnownIsLower
        <4> QED BY <1>r, <1>t, <3>1, <4>2, SMTT(30)
      <3>4. CASE s = r
        BY <1>r, <1>t, <3>1, <3>4, SMTT(30)
      <3> QED BY <1>o, <3>3, <3>4
    <2>2. CASE x # p
      <3>1. row'[x] = row[x] /\ row[x] \in Around /\ row[x].ver \in Nat
        BY <1>a, <1>o, <2>2, AroundAreRows
      <3>2. s.hash \in known[x] \/ (row[x] # NoRow /\ s.hash \in past[row[x].hash])
        <4>1. s.hash \in known[x] \/ (row[x].hash \in Written /\ s.hash \in past'[row[x].hash])
          BY <1>4, <3>1
        <4>2. row[x].hash \in Written => row[x] # NoRow /\ past'[row[x].hash] = past[row[x].hash]
          BY <1>3, <1>h, <3>1, AroundAreRows
        <4> QED BY <4>1, <4>2
      <3>3. s.hash \in written
        BY <1>t, <3>1, <3>2, HistoryFacts
      <3>4. s \in Around /\ s.ver \in Nat
        <4>1. s \in Around
          BY <1>o, <1>r, <1>t, <3>3
        <4> QED BY <4>1, AroundAreRows
      <3>5. CASE s.hash \in known[x]
        BY <3>1, <3>4, <3>5 DEF HistoryInv, KnownIsLower
      <3>6. CASE row[x] # NoRow /\ s.hash \in past[row[x].hash]
        <4>1. s = row[x] \/ s.ver < row[x].ver
          BY <3>1, <3>4, <3>6, HistoryFacts
        <4> QED BY <3>1, <3>4, <4>1, SMTT(30)
      <3> QED BY <3>2, <3>5, <3>6
    <2> QED BY <2>1, <2>2
  <1>9. NoFalseConflict'
    <2>1. Clash => Clash'
      <3>1. \A g \in written \cap Written : g \in written' \cap Written /\ past'[g] = past[g]
        BY <1>3, <1>t
      <3> QED BY <3>1 DEF Clash, Ignorant
    <2>2. warned => Clash
      BY DEF HistoryInv, NoFalseConflict
    <2> QED BY <1>t, <2>1, <2>2 DEF NoFalseConflict
  <1>10. ASSUME NEW x \in Peer PROVE LastWrite(x)
    <2>1. CASE x = p
      BY <1>o, <1>r, <1>t, <2>1 DEF LastWrite
    <2>2. CASE x # p
      <3>1. row'[x] = row[x]
        BY <1>o, <2>2
      <3>2. row[x].hash \in Written => edited[row[x].hash] \in Nat
        BY <1>t
      <3> QED BY <3>1, <3>2, SMTT(30) DEF LastWrite
    <2> QED BY <2>1, <2>2
  <1> QED BY <1>5, <1>6, <1>7, <1>8, <1>9, <1>10 DEF HistoryInv

LEMMA HistoryStep ==
  ASSUME HistoryInv, [NextFresh /\ HStep]_hvars
  PROVE  HistoryInv' /\ \A p \in Peer : LastWrite(p)
  <1>1. [NextFresh]_vars
    BY DEF hvars
  <1>2. FreshInv'
    BY <1>1, FreshStep DEF HistoryInv
  <1>3. CASE EditNext(Fresh, Later) /\ HStep
    <2>1. PICK p \in Peer, h \in Fresh, act \in {"add", "modify"}, t \in Later :
            HandleLocalFileChanged(p, h, act, t)
      BY <1>3 DEF EditNext
    <2>2. PICK r \in Row : NewRow(p, h, r)
      BY <2>1, EditFacts DEF HistoryInv
    <2> QED BY <1>2, <1>3, <2>2, EditHistory
  <1>4. CASE NetNext /\ HStep
    BY <1>2, <1>4, NetFacts, NetHistory DEF HistoryInv
  <1>5. CASE UNCHANGED hvars
    <2>1. UNCHANGED vars
      BY <1>5 DEF hvars
    <2> QED BY <1>2, <1>5, <2>1, NetFacts, NetHistory DEF HistoryInv
  <1> QED BY <1>3, <1>4, <1>5 DEF NextFresh

LEMMA HistoryInvariant == HSpecFresh => []HistoryInv
  <1>1. HInit => HistoryInv
    <2> SUFFICES ASSUME HInit PROVE HistoryInv
      OBVIOUS
    <2>1. FreshInv
      BY InitFresh DEF HInit
    <2>2. /\ edited \in [Written -> Nat] /\ past \in [Written -> SUBSET written]
          /\ known \in [Peer -> SUBSET written]
      BY DEF HInit
    <2>3. \A r \in Around : r = NoRow
      BY DEF HInit, Init, Around
    <2>4. Dated /\ PastIsLower /\ KnownIsLower
      <3>1. Dated /\ PastIsLower
        BY <2>3 DEF Dated, PastIsLower
      <3>2. KnownIsLower
        BY DEF HInit, KnownIsLower
      <3> QED BY <3>1, <3>2
    <2>5. NoFalseConflict
      BY DEF HInit, Init, NoFalseConflict
    <2> QED BY <2>1, <2>2, <2>4, <2>5 DEF HistoryInv
  <1>2. HistoryInv /\ [NextFresh /\ HStep]_hvars => HistoryInv'
    BY HistoryStep
  <1> QED BY <1>1, <1>2, PTL DEF HSpecFresh

(* A conflict is only reported when two users changed the file, neither knowing of
   the other's change: "True when a real concurrent edit was detected"
   (conflict.go:38).  Under the conditions of AgreementHolds; the counterexample
   of MCExchangeHistory_empty.cfg shows what an empty file does to it.        *)
THEOREM ConflictsAreReal == HSpecFresh => []NoFalseConflict
  <1>1. HistoryInv => NoFalseConflict
    BY DEF HistoryInv
  <1> QED BY <1>1, HistoryInvariant, PTL

(* resolveConcurrent lets the later of two changes with one version number
   survive at every peer (conflict.go:54-63).                                 *)
THEOREM LastWriteSurvives == HSpecFresh => LastWriteWins
  <1>1. HistoryInv /\ [NextFresh /\ HStep]_hvars => [\A p \in Peer : LastWrite(p)]_hvars
    BY HistoryStep
  <1>2. [][\A p \in Peer : LastWrite(p)]_hvars => LastWriteWins
    BY DEF LastWriteWins, LastWrite
  <1> QED BY <1>1, <1>2, HistoryInvariant, PTL DEF HSpecFresh
=============================================================================
