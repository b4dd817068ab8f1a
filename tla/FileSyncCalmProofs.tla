--------------------------- MODULE FileSyncCalmProofs ---------------------------
(***************************************************************************)
(* How CalmInv of FileSync is kept while a change spreads: the steps of a  *)
(* peer's daemon and coordinator, of the messages between peers, and of a  *)
(* start, for any peers, contents and bounds.  Where nothing is under way, *)
(* and the theorems, are in FileSyncTheorems.                              *)
(***************************************************************************)
EXTENDS FileSync, TLAPS

USE ZenonT(30)

-----------------------------------------------------------------------------
LEMMA NoRowFacts ==
  /\ \A r : r.hash # NoHash \/ Exists(r) => r # NoRow
  /\ NoRow.hash = NoHash /\ ~Exists(NoRow) /\ NoRow.ver = 0 /\ ~NoRow.del
  BY SMTT(30) DEF NoRow, Exists

LEMMA OneNotice == \A n : Len(Append(<<>>, n)) = 1 /\ Head(Append(<<>>, n)) = n
  BY SMTT(30)

LEMMA Later == \A v, w \in Nat : v <= w => v <= w + 1
  BY SMTT(30)

LEMMA LinkedSym == \A p, q : Linked(p, q) <=> Linked(q, p)
  <1>1. \A p, q : {p, q} = {q, p}
    OBVIOUS
  <1> QED BY <1>1 DEF Linked

-----------------------------------------------------------------------------
(* What is recorded.                                                         *)

LEMMA PeerFacts ==
  ASSUME SyncInv, Shape, NEW p \in Peer
  PROVE  /\ row[p] \in Row /\ GoodRow(row[p]) /\ row[p].ver \in Nat /\ row[p].hash \in Hash
         /\ row[p].del \in BOOLEAN
         /\ GoodFile(disk[p]) /\ disk[p].hash \in Content \cup {NoHash} /\ disk[p].ts \in Nat
         /\ disk[p].ts <= Now
         /\ notices[p] \in Seq(Notice) /\ events[p] \in Seq(Event)
         /\ ~Linked(p, p) /\ row[p].ver <= row[p].ver
         /\ \A q \in Peer : Linked(p, q) => Linked(q, p) /\ p # q
  <1>1. row[p] \in Row /\ GoodRow(row[p]) /\ GoodFile(disk[p]) /\ events[p] \in Seq(Event)
    BY DEF SyncInv
  <1>2. row[p].ver \in Nat /\ row[p].hash \in Hash /\ row[p].del \in BOOLEAN /\ row[p].ver <= row[p].ver
    BY <1>1, SMTT(30) DEF Row
  <1>3. disk[p].hash \in Content \cup {NoHash} /\ disk[p].ts \in Nat /\ disk[p].ts <= Now
    BY <1>1 DEF GoodFile, File, Hash
  <1>4. ~Linked(p, p)
    <2>1. ASSUME {p, p} \in Pair PROVE FALSE
      <3>1. PICK x \in Peer, y \in Peer : x # y /\ {p, p} = {x, y}
        BY <2>1 DEF Pair
      <3> QED BY <3>1, SMTT(30)
    <2> QED BY <2>1 DEF Shape, Linked
  <1>5. \A q \in Peer : Linked(p, q) => Linked(q, p) /\ p # q
    BY <1>4, LinkedSym
  <1>6. notices[p] \in Seq(Notice)
    BY DEF Shape
  <1> QED BY <1>1, <1>2, <1>3, <1>4, <1>5, <1>6

LEMMA RecordedIs ==
  ASSUME NEW r, RecordedRow(r), Exists(r)
  PROVE  <<r.hash, r.ver>> \in written /\ (r.del <=> r.hash = NoHash)
  BY SMTT(30) DEF RecordedRow, Exists, NoRow

LEMMA RowsAgree ==
  ASSUME History, NEW r \in Row, NEW u \in Row, RecordedRow(r), RecordedRow(u)
  PROVE  /\ Exists(r) /\ Exists(u) => (r.hash = u.hash <=> r.ver = u.ver)
         /\ Newest(r) => u.ver <= r.ver
         /\ Newest(r) /\ Newest(u) => SameVersion(r, u)
         /\ SameVersion(r, u) => (r.del <=> u.del) /\ (Newest(r) <=> Newest(u))
         /\ Exists(r) => r.hash \in Recorded
         /\ ~Exists(r) => r = NoRow
  <1>0. \A x \in Row : x.ver \in Nat
    BY DEF Row
  <1>1. ASSUME NEW x \in Row, RecordedRow(x), Exists(x)
        PROVE  \E w \in written : w[1] = x.hash /\ w[2] = x.ver
    <2>1. <<x.hash, x.ver>> \in written
      BY <1>1, SMTT(30) DEF RecordedRow, Exists, NoRow
    <2>2. PICK w : w = <<x.hash, x.ver>>
      OBVIOUS
    <2>3. w[1] = x.hash /\ w[2] = x.ver
      BY <2>2
    <2> QED BY <2>1, <2>2, <2>3
  <1>2. ASSUME NEW x \in Row, RecordedRow(x), ~Exists(x)
        PROVE  x = NoRow
    <2>1. ASSUME <<x.hash, x.ver>> \in written PROVE FALSE
      <3>1. <<x.hash, x.ver>> \in Hash \X (Nat \ {0})
        BY <2>1 DEF History
      <3>2. x.ver \in Nat \ {0}
        BY <3>1
      <3> QED BY <1>2, <3>2, SMTT(30) DEF Exists
    <2> QED BY <1>2, <2>1 DEF RecordedRow
  <1>3. Exists(r) /\ Exists(u) => (r.hash = u.hash <=> r.ver = u.ver)
    <2> SUFFICES ASSUME Exists(r), Exists(u) PROVE r.hash = u.hash <=> r.ver = u.ver
      OBVIOUS
    <2>1. PICK v \in written : v[1] = r.hash /\ v[2] = r.ver
      BY <1>1
    <2>2. PICK w \in written : w[1] = u.hash /\ w[2] = u.ver
      BY <1>1
    <2>3. v[1] = w[1] <=> v[2] = w[2]
      BY DEF History
    <2> QED BY <2>1, <2>2, <2>3
  <1>4. Newest(r) => u.ver <= r.ver
    <2>1. CASE Exists(u)
      BY <1>1, <2>1 DEF Newest
    <2>2. CASE ~Exists(u)
      BY <1>0, <2>2, SMTT(30) DEF Exists
    <2> QED BY <2>1, <2>2
  <1>5. Newest(u) => r.ver <= u.ver
    <2>1. CASE Exists(r)
      BY <1>1, <2>1 DEF Newest
    <2>2. CASE ~Exists(r)
      BY <1>0, <2>2, SMTT(30) DEF Exists
    <2> QED BY <2>1, <2>2
  <1>6. Newest(r) /\ Newest(u) => SameVersion(r, u)
    <2> SUFFICES ASSUME Newest(r), Newest(u) PROVE SameVersion(r, u)
      OBVIOUS
    <2>1. r.ver = u.ver
      BY <1>0, <1>4, <1>5, SMTT(30)
    <2>2. Exists(r) <=> Exists(u)
      BY <2>1 DEF Exists
    <2>3. r.hash = u.hash
      BY <1>2, <1>3, <2>1, <2>2
    <2> QED BY <2>1, <2>3 DEF SameVersion
  <1>7. SameVersion(r, u) => (r.del <=> u.del) /\ (Newest(r) <=> Newest(u))
    BY DEF SameVersion, RecordedRow, Exists, Newest
  <1>8. Exists(r) => r.hash \in Recorded
    BY <1>1 DEF Recorded
  <1> QED BY <1>2, <1>3, <1>4, <1>6, <1>7, <1>8

-----------------------------------------------------------------------------
(* A peer that follows the source moves, and with it at most one message.       *)

Untouched(q) ==
  /\ disk'[q] = disk[q] /\ notices'[q] = notices[q] /\ events'[q] = events[q] /\ row'[q] = row[q]
  /\ queue'[q] = queue[q] /\ pending'[q] = pending[q] /\ timers'[q] = timers[q] /\ jobs'[q] = jobs[q]
Elsewhere(p) == \A q \in Peer \ {p} : Untouched(q)

LEMMA NoneTouched ==
  ASSUME UNCHANGED <<disk, notices, events, row, queue, pending, timers, jobs>>
  PROVE  \A q : Untouched(q)
  BY DEF Untouched

LEMMA OnlyAt ==
  ASSUME SyncInv, Shape, NEW p \in Peer,
         disk' = disk \/ \E x : disk' = [disk EXCEPT ![p] = x],
         notices' = notices \/ \E x : notices' = [notices EXCEPT ![p] = x],
         events' = events \/ \E x : events' = [events EXCEPT ![p] = x],
         row' = row \/ \E x : row' = [row EXCEPT ![p] = x],
         queue' = queue \/ \E x : queue' = [queue EXCEPT ![p] = x],
         pending' = pending \/ \E x : pending' = [pending EXCEPT ![p] = x],
         timers' = timers \/ \E x : timers' = [timers EXCEPT ![p] = x],
         jobs' = jobs \/ \E x : jobs' = [jobs EXCEPT ![p] = x]
  PROVE  Elsewhere(p)
  <1> SUFFICES ASSUME NEW q \in Peer \ {p} PROVE Untouched(q)
    BY DEF Elsewhere
  <1>1. \A f : Peer \subseteq DOMAIN f => \A x : [f EXCEPT ![p] = x][q] = f[q]
    OBVIOUS
  <1>2. /\ Peer \subseteq DOMAIN disk /\ Peer \subseteq DOMAIN notices /\ Peer \subseteq DOMAIN events
        /\ Peer \subseteq DOMAIN row /\ Peer \subseteq DOMAIN queue /\ Peer \subseteq DOMAIN pending
        /\ Peer \subseteq DOMAIN timers /\ Peer \subseteq DOMAIN jobs
    BY DEF SyncInv, Shape
  <1>3. disk'[q] = disk[q] BY <1>1, <1>2
  <1>4. notices'[q] = notices[q] BY <1>1, <1>2
  <1>5. events'[q] = events[q] BY <1>1, <1>2
  <1>6. row'[q] = row[q] BY <1>1, <1>2
  <1>7. queue'[q] = queue[q] BY <1>1, <1>2
  <1>8. pending'[q] = pending[q] BY <1>1, <1>2
  <1>9. timers'[q] = timers[q] BY <1>1, <1>2
  <1>10. jobs'[q] = jobs[q] BY <1>1, <1>2
  <1> QED BY <1>3, <1>4, <1>5, <1>6, <1>7, <1>8, <1>9, <1>10 DEF Untouched

Moves(p, s) ==
  /\ UNCHANGED <<written, links, phase, open, warned>>
  /\ Now' = Now /\ spent.faults <= spent'.faults
  /\ Elsewhere(p)
  /\ row'[p] = row[p] \/ (SameVersion(row'[p], row[s]) /\ RecordedRow(row'[p]) /\ Exists(row'[p]))
  /\ row[p].ver <= row'[p].ver
  /\ disk'[p].hash = disk[p].hash \/ (disk'[p].hash = row[s].hash /\ Linked(p, s))
  /\ \A m \in msgs' : m \in msgs \/ CalmMsg(m, s)'
  /\ \A q \in Peer \ {p} : Asked(q) => Asked(q)'
  /\ \A x \in Peer : Told(x, s) /\ Newest(row[s]) => Told(x, s)' \/ SameVersion(row'[x], row[s])

Following(s) == Spreading(s) /\ \A x \in Peer : UpToDate(x, s)
Steady(s) == SyncInv /\ Shape /\ History /\ Orderly /\ Following(s)

LEMMA OtherFollows ==
  ASSUME SyncInv, NEW s \in Peer, NEW q \in Peer, Follower(q, s),
         links' = links, spent.faults <= spent'.faults, spent.faults \in Nat, spent'.faults \in Nat,
         row'[s] = row[s], Untouched(q), pending[q] # {} => Asked(q)'
  PROVE  Follower(q, s)'
  <1> USE DEF Untouched
  <1>1. Tasks(q)' = Tasks(q) /\ NothingToDo(q)' = NothingToDo(q) /\ Linked(q, s)' = Linked(q, s)
    BY DEF Tasks, NothingToDo, Linked
  <1>2. \A t \in Tasks(q) : t.retries \in Nat
    BY SMTT(30) DEF SyncInv, Tasks, GoodTask, Task
  <1>3. \A t \in Tasks(q)' : t.hash = row'[s].hash /\ t.peer = s /\ t.retries <= spent'.faults
    BY <1>1, <1>2, SMTT(30) DEF Follower
  <1>4. pending'[q] # {} => Asked(q)'
    OBVIOUS
  <1> QED BY <1>1, <1>3, <1>4 DEF Follower, SameVersion

LEMMA FollowerMoves ==
  ASSUME NEW s \in Peer, Steady(s), SyncInv',
         NEW p \in Peer, p # s, Moves(p, s), Follower(p, s)'
  PROVE  CalmInv'
  <1> USE DEF Steady
  <1>1. row'[s] = row[s] /\ disk'[s] = disk[s] /\ NothingToDo(s)' = NothingToDo(s)
    BY DEF Moves, Elsewhere, Untouched, NothingToDo, Tasks
  <1>2. \A q \in Peer : row'[q] = row[q] \/
           (SameVersion(row'[q], row[s]) /\ RecordedRow(row'[q]) /\ Exists(row'[q]) /\ q = p)
    BY DEF Moves, Elsewhere, Untouched
  <1>3. /\ written' = written /\ links' = links /\ Recorded' = Recorded /\ Now' = Now
        /\ \A x, y : Linked(x, y)' = Linked(x, y)
        /\ \A r : RecordedRow(r)' = RecordedRow(r) /\ Newest(r)' = Newest(r)
    BY DEF Moves, Recorded, Linked, RecordedRow, Newest
  <1>4. \A q \in Peer : row[q].ver \in Nat /\ row[q] \in Row /\ row'[q] \in Row
    BY PeerFacts DEF SyncInv
  <1>5. History'
    <2>1. \A q \in Peer : RecordedRow(row'[q]) /\ (Exists(row[q]) => Exists(row'[q]))
      BY <1>2 DEF History
    <2>2. \A q \in Peer : RecordedRow(row[q])'
      BY <1>3, <2>1 DEF RecordedRow
    <2> QED BY <1>3, <2>1, <2>2 DEF History
  <1>6. Orderly'
    <2>1. ASSUME NEW q \in Peer, phase'[q] = "unseen" PROVE disk'[q].hash = NoHash
      <3>1. CASE q # p
        BY <2>1, <3>1 DEF Orderly, Moves, Elsewhere, Untouched
      <3>2. CASE q = p
        BY <2>1, <3>2 DEF Orderly, Moves
      <3> QED BY <3>1, <3>2
    <2>2. open' = {} /\ warned' = {} /\ phase' = phase
      BY DEF Orderly, Moves
    <2> QED BY <1>3, <2>1, <2>2 DEF Orderly
  <1>7. \A m \in msgs' : CalmMsg(m, s)'
    <2> SUFFICES ASSUME NEW m \in msgs', m \in msgs PROVE CalmMsg(m, s)'
      BY DEF Moves
    <2>1. CalmMsg(m, s) /\ m.from \in Peer /\ m.to \in Peer
      BY DEF Following, Spreading, SyncInv, GoodMsg
    <2>2. CASE m.type = "meta" /\ m.from = s /\ SameVersion(m.row, row[s]) /\ Exists(m.row) /\ RecordedRow(m.row)
               /\ row[m.to].ver <= row[s].ver
      <3>1. row'[m.to].ver <= row[s].ver
        <4>1. row[s].ver <= row[s].ver
          BY <1>4, SMTT(30)
        <4> QED BY <1>2, <2>1, <2>2, <4>1 DEF SameVersion
      <3> QED BY <1>1, <1>3, <2>2, <3>1 DEF CalmMsg, SameVersion
    <2>3. CASE m.type = "meta" /\ m.to = s /\ m.row.ver <= row[s].ver /\ Exists(m.row) /\ RecordedRow(m.row)
               /\ (SameVersion(m.row, row[m.from]) \/ SameVersion(row[m.from], row[s]))
      <3>1. SameVersion(m.row, row'[m.from]) \/ SameVersion(row'[m.from], row[s])
        BY <1>2, <2>1, <2>3
      <3> QED BY <1>1, <1>3, <2>3, <3>1 DEF CalmMsg, SameVersion
    <2>4. CASE m.type = "request" /\ m.to = s /\ m.hash = row[s].hash
      BY <1>1, <2>4 DEF CalmMsg
    <2>5. CASE /\ m.type = "response" /\ m.from = s /\ m.hash = row[s].hash
               /\ m.kind # "error" /\ (m.kind = "inline" => m.content = m.hash)
      BY <1>1, <2>5 DEF CalmMsg
    <2> QED BY <2>1, <2>2, <2>3, <2>4, <2>5 DEF CalmMsg
  <1>8. \A q \in Peer \ {s} : Follower(q, s)'
    <2> SUFFICES ASSUME NEW q \in Peer \ {s}, q # p PROVE Follower(q, s)'
      OBVIOUS
    <2>1. Follower(q, s)
      BY DEF Following, Spreading
    <2>2. spent.faults \in Nat /\ spent'.faults \in Nat
      BY DEF SyncInv
    <2>3. pending[q] # {} => Asked(q)'
      BY <2>1 DEF Follower, Moves
    <2> QED BY <1>1, <2>1, <2>2, <2>3, OtherFollows DEF Moves, Elsewhere, Untouched
  <1>9. Spreading(s)'
    <2>1. \A q \in Peer : disk'[q].hash \in Recorded \cup {NoHash}
      <3>1. row[s].hash \in Recorded \cup {NoHash}
        BY <1>1 DEF Following, Spreading
      <3> QED BY <3>1 DEF Moves, Elsewhere, Untouched, Following, Spreading
    <2> QED BY <1>1, <1>3, <1>7, <1>8, <2>1 DEF Following, Spreading
  <1>10. ASSUME NEW x \in Peer PROVE UpToDate(x, s)'
    <2>1. ASSUME NEW y \in Peer, NEW r, Newest(r), r.ver \in Nat, r.ver <= row'[y].ver PROVE Newest(row[y])'
      <3>1. \A w \in written : w[2] \in Nat
        BY DEF History
      <3>2. row'[y].ver \in Nat
        BY <1>4 DEF Row
      <3> QED BY <1>3, <2>1, <3>1, <3>2, SMTT(30) DEF Newest
    <2>2. \A y \in Peer : row[y].ver <= row'[y].ver
      BY <1>4, SMTT(30) DEF Moves, Elsewhere, Untouched
    <2>3. \A y \in Peer : Newest(row[y]) => Newest(row[y])'
      BY <1>4, <2>1, <2>2
    <2>4. CASE Newest(row[x])
      BY <2>3, <2>4 DEF UpToDate
    <2>5. ASSUME NEW q \in Peer, Newest(row[q]), ~Linked(x, q) PROVE UpToDate(x, s)'
      BY <1>3, <2>3, <2>5 DEF UpToDate
    <2>6. CASE Newest(row[s]) /\ Told(x, s)
      <3>1. CASE Told(x, s)'
        BY <2>3, <2>6, <3>1 DEF UpToDate
      <3>2. CASE SameVersion(row'[x], row[s])
        <4>1. row[s].ver <= row'[x].ver
          BY <1>4, <3>2, SMTT(30) DEF SameVersion
        <4>2. Newest(row[x])'
          BY <1>4, <2>1, <2>6, <4>1
        <4> QED BY <4>2 DEF UpToDate
      <3> QED BY <2>6, <3>1, <3>2 DEF Moves
    <2> QED BY <2>4, <2>5, <2>6 DEF UpToDate, Following
  <1> QED BY <1>5, <1>6, <1>9, <1>10 DEF CalmInv

(* A peer that has something to do follows the source, and knows its version.    *)
LEMMA BusyFollows ==
  ASSUME NEW s \in Peer, Steady(s), NEW p \in Peer, ~NothingToDo(p)
  PROVE  /\ p # s /\ Follower(p, s) /\ Linked(p, s) /\ Linked(s, p) /\ phase[p] = "up" /\ phase[s] = "up"
         /\ SameVersion(row[p], row[s]) /\ Exists(row[p]) /\ Exists(row[s])
         /\ (row[p].del <=> row[s].del) /\ (row[s].del <=> row[s].hash = NoHash)
         /\ row[p].hash = row[s].hash /\ disk[s].hash = row[s].hash
  <1> USE DEF Steady
  <1>1. p # s /\ disk[s].hash = row[s].hash
    BY DEF Following, Spreading
  <1>2. Follower(p, s)
    BY <1>1 DEF Following, Spreading
  <1>3. Linked(p, s) /\ SameVersion(row[p], row[s]) /\ Exists(row[p])
    BY <1>2 DEF Follower
  <1>4. Linked(s, p) /\ phase[p] = "up" /\ phase[s] = "up"
    BY <1>3, LinkedSym DEF Orderly
  <1>5. row[p].hash = row[s].hash /\ Exists(row[s])
    BY <1>3 DEF SameVersion, Exists
  <1>6. (row[p].del <=> row[s].del) /\ (row[s].del <=> row[s].hash = NoHash)
    BY <1>3, <1>5 DEF History, RecordedRow
  <1> QED BY <1>1, <1>2, <1>3, <1>4, <1>5, <1>6

(* Nothing is sent or received.                                              *)
LEMMA SilentMove ==
  ASSUME SyncInv, Shape, NEW s \in Peer, NEW p \in Peer, Elsewhere(p), row'[p] = row[p],
         UNCHANGED <<written, links, phase, open, warned, spent>>, msgs \subseteq msgs',
         \A m \in msgs' : m \in msgs \/ CalmMsg(m, s)',
         disk'[p].hash = disk[p].hash \/ (disk'[p].hash = row[s].hash /\ Linked(p, s))
  PROVE  Moves(p, s)
  <1>1. spent.faults <= spent'.faults /\ Now' = Now
    BY SMTT(30) DEF SyncInv, Now
  <1>2. row[p].ver <= row'[p].ver
    BY PeerFacts
  <1>3. \A q : Asked(q) => Asked(q)'
    BY DEF Asked
  <1>4. \A x : Told(x, s) => Told(x, s)'
    BY DEF Told
  <1> QED BY <1>1, <1>2, <1>3, <1>4 DEF Moves

LEMMA AppendIs ==
  ASSUME NEW S, NEW q \in Seq(S), NEW e \in S
  PROVE  /\ Append(q, e) # <<>>
         /\ \A i \in DOMAIN Append(q, e) : Append(q, e)[i] = e \/ (i \in DOMAIN q /\ Append(q, e)[i] = q[i])
  BY SMTT(30)

LEMMA TailIs ==
  ASSUME NEW S, NEW q \in Seq(S), q # <<>>
  PROVE  /\ 1 \in DOMAIN q /\ Head(q) = q[1]
         /\ \A i \in DOMAIN Tail(q) : i + 1 \in DOMAIN q /\ Tail(q)[i] = q[i + 1]
         /\ Len(q) = 1 => Tail(q) = <<>>
  <1>1. /\ 1 \in DOMAIN q /\ Head(q) = q[1]
        /\ \A i \in DOMAIN Tail(q) : i + 1 \in DOMAIN q /\ Tail(q)[i] = q[i + 1]
    BY SMTT(30)
  <1>2. Tail(q) \in Seq(S) /\ Len(Tail(q)) = Len(q) - 1
    BY SMTT(30)
  <1>3. \A u \in Seq(S) : Len(u) = 0 => u = <<>>
    BY SMTT(30)
  <1> QED BY <1>1, <1>2, <1>3, SMTT(30)

LEMMA TailKeeps ==
  ASSUME NEW S, NEW q \in Seq(S), q # <<>>, NEW h, NEW b
  PROVE  /\ (\A i \in DOMAIN q : q[i].hash = h) => \A i \in DOMAIN Tail(q) : Tail(q)[i].hash = h
         /\ (\A i \in DOMAIN q : q[i] = "deleted" <=> b) => \A i \in DOMAIN Tail(q) : Tail(q)[i] = "deleted" <=> b
  BY TailIs

LEMMA AppendKeeps ==
  ASSUME NEW S, NEW q \in Seq(S), NEW e \in S, NEW h, e.hash = h, \A i \in DOMAIN q : q[i].hash = h
  PROVE  \A i \in DOMAIN Append(q, e) : Append(q, e)[i].hash = h
  BY AppendIs, SMTT(30)

LEMMA CalmReport ==
  ASSUME NEW s \in Peer, Steady(s), SyncInv', NEW p \in Peer,
         ReportChange(p)
  PROVE  CalmInv'
  <1> USE DEF Steady, dbVars, downloadVars, netVars, procVars
  <1>1. /\ notices[p] # <<>> /\ notices' = [notices EXCEPT ![p] = Tail(notices[p])]
        /\ UNCHANGED <<disk, jobs, row, written, queue, pending, timers, msgs, links, phase, open, spent, warned>>
    BY DEF ReportChange
  <1>2. ~NothingToDo(p)
    BY <1>1 DEF NothingToDo
  <1>b. /\ p # s /\ Follower(p, s) /\ Linked(p, s) /\ SameVersion(row[p], row[s]) /\ Exists(row[p])
        /\ (row[s].del <=> row[s].hash = NoHash) /\ row[p].hash = row[s].hash
    BY <1>2, BusyFollows
  <1>3. /\ notices[p] \in Seq(Notice) /\ events[p] \in Seq(Event)
        /\ notices'[p] = Tail(notices[p])
    BY <1>1, PeerFacts DEF Shape
  <1>4. disk[p].hash = row[s].hash
    BY <1>1, <1>b DEF Follower
  <1>5. Head(notices[p]) = "deleted" <=> row[s].del
    BY <1>1, <1>3, <1>b, TailIs DEF Follower
  <1>6. PICK e : events' = [events EXCEPT ![p] = Append(events[p], e)] /\ e.hash = row[s].hash /\ e \in Event
    <2>1. CASE row[s].del
      <3>1. PICK e : e = [hash |-> NoHash, act |-> "delete", ts |-> Now]
        OBVIOUS
      <3>2. e \in Event /\ e.hash = row[s].hash
        BY <1>b, <2>1, <3>1 DEF Event, Hash, SyncInv, Now
      <3> QED BY <1>5, <2>1, <3>1, <3>2 DEF ReportChange
    <2>2. CASE ~row[s].del
      <3>1. PICK e : e = [hash |-> disk[p].hash, ts |-> disk[p].ts,
                          act |-> IF Head(notices[p]) = "created" THEN "add" ELSE "modify"]
        OBVIOUS
      <3>2. e \in Event /\ e.hash = row[s].hash
        BY <1>4, <3>1, PeerFacts DEF Event, Hash
      <3>3. disk[p].hash # NoHash
        BY <1>4, <1>b, <2>2
      <3> QED BY <1>5, <2>2, <3>1, <3>2, <3>3 DEF ReportChange
    <2> QED BY <2>1, <2>2
  <1>7. events'[p] = Append(events[p], e)
    BY <1>6 DEF SyncInv
  <1>8. Elsewhere(p)
    BY <1>1, <1>6, OnlyAt
  <1>9. Moves(p, s)
    BY <1>1, <1>8, SilentMove
  <1>10. Follower(p, s)'
    <2>1. \A i \in DOMAIN notices'[p] : notices'[p][i] = "deleted" <=> row'[s].del
      <3>1. \A i \in DOMAIN notices[p] : notices[p][i] = "deleted" <=> row[s].del
        BY <1>b DEF Follower
      <3>2. \A i \in DOMAIN Tail(notices[p]) : Tail(notices[p])[i] = "deleted" <=> row[s].del
        BY <1>1, <1>3, <3>1, TailKeeps
      <3> QED BY <1>1, <1>3, <3>2
    <2>2. \A i \in DOMAIN events'[p] : events'[p][i].hash = row'[s].hash
      <3>1. \A i \in DOMAIN events[p] : events[p][i].hash = row[s].hash
        BY <1>b DEF Follower
      <3>2. \A i \in DOMAIN Append(events[p], e) : Append(events[p], e)[i].hash = row[s].hash
        BY <1>3, <1>6, <3>1, AppendKeeps
      <3> QED BY <1>1, <1>7, <3>2
    <2>3. Tasks(p)' = Tasks(p) /\ Linked(p, s)' /\ (pending'[p] # {} => Asked(p)')
      BY <1>1, <1>b DEF Tasks, Linked, Follower, Asked
    <2>4. \A t \in Tasks(p)' : t.hash = row'[s].hash /\ t.peer = s /\ t.retries <= spent'.faults
      BY <1>1, <1>b, <2>3 DEF Follower
    <2>5. disk'[p].hash = row'[p].hash /\ SameVersion(row'[p], row'[s]) /\ Exists(row'[p])
      BY <1>1, <1>4, <1>b
    <2>6. \A j \in jobs'[p] : IF row'[s].del THEN j.do = "delete"
                              ELSE j.do # "delete" /\ j.hash = row'[s].hash /\ j.from = s
      BY <1>1, <1>b DEF Follower
    <2> QED BY <2>1, <2>2, <2>3, <2>4, <2>5, <2>6 DEF Follower
  <1> QED BY <1>9, <1>10, <1>b, FollowerMoves

(* The parts of Follower that most steps keep.                                *)
TasksFollow(p, s) ==
  \A t \in Tasks(p) : t.hash = row[s].hash /\ t.peer = s /\ t.retries <= spent.faults
JobsFollow(p, s) == \A j \in jobs[p] :
  IF row[s].del THEN j.do = "delete" ELSE j.do # "delete" /\ j.hash = row[s].hash /\ j.from = s
NoticesFollow(p, s) == \A i \in DOMAIN notices[p] : notices[p][i] = "deleted" <=> row[s].del
EventsFollow(p, s) == \A i \in DOMAIN events[p] : events[p][i].hash = row[s].hash

LEMMA FollowerIs ==
  ASSUME NEW p, NEW s,
         disk'[p].hash = row'[p].hash \/ Tasks(p)' # {} \/ jobs'[p] # {},
         NothingToDo(p)' \/ (Linked(p, s)' /\ SameVersion(row'[p], row'[s]) /\ Exists(row'[p])),
         pending'[p] # {} => Asked(p)',
         notices'[p] # <<>> \/ events'[p] # <<>> => disk'[p].hash = row'[p].hash,
         TasksFollow(p, s)', JobsFollow(p, s)', NoticesFollow(p, s)', EventsFollow(p, s)'
  PROVE  Follower(p, s)'
  BY DEF Follower, TasksFollow, JobsFollow, NoticesFollow, EventsFollow, SameVersion, Exists

LEMMA KeepParts ==
  ASSUME SyncInv, NEW p \in Peer, NEW s \in Peer, Follower(p, s), row'[s] = row[s]
  PROVE  /\ Tasks(p)' \subseteq Tasks(p) /\ spent' = spent => TasksFollow(p, s)'
         /\ jobs'[p] \subseteq jobs[p] => JobsFollow(p, s)'
         /\ notices'[p] = notices[p] => NoticesFollow(p, s)'
         /\ events'[p] = events[p] => EventsFollow(p, s)'
         /\ links' = links => Linked(p, s)' = Linked(p, s)
  BY DEF Follower, TasksFollow, JobsFollow, NoticesFollow, EventsFollow, Linked

LEMMA CalmLocal ==
  ASSUME NEW s \in Peer, Steady(s), SyncInv', NEW p \in Peer,
         HandleLocalFileChanged(p)
  PROVE  CalmInv'
  <1> USE DEF Steady, dbVars, downloadVars
  <1>1. /\ events[p] # <<>> /\ events' = [events EXCEPT ![p] = Tail(events[p])]
        /\ UNCHANGED <<disk, notices, jobs, queue, pending, timers, links, phase, spent, warned, open>>
    BY DEF HandleLocalFileChanged, LocalChange
  <1>2. ~NothingToDo(p)
    BY <1>1 DEF NothingToDo
  <1>b. /\ p # s /\ Follower(p, s) /\ Linked(p, s) /\ SameVersion(row[p], row[s]) /\ Exists(row[p])
        /\ (row[s].del <=> row[s].hash = NoHash) /\ row[p].hash = row[s].hash /\ (row[p].del <=> row[s].del)
    BY <1>2, BusyFollows
  <1>3. events[p] \in Seq(Event) /\ events'[p] = Tail(events[p])
    BY <1>1 DEF SyncInv
  <1>4. PICK e : e = Head(events[p])
    OBVIOUS
  <1>5. e.hash = row[s].hash /\ GoodEvent(e)
    <2>1. 1 \in DOMAIN events[p] /\ Head(events[p]) = events[p][1]
      BY <1>1, <1>3, TailIs
    <2> QED BY <1>b, <1>4, <2>1, SMTT(30) DEF SyncInv, Follower
  <1>6. Redundant(row[p], e.hash, e.act)
    <2>1. e.act = "delete" <=> e.hash = NoHash
      BY <1>5 DEF GoodEvent
    <2> QED BY <1>b, <1>5, <2>1 DEF Redundant
  <1>7. UNCHANGED <<row, written, msgs>>
    BY <1>4, <1>6 DEF HandleLocalFileChanged, LocalChange
  <1>8. Elsewhere(p)
    BY <1>1, <1>7, OnlyAt
  <1>9. Moves(p, s)
    BY <1>1, <1>7, <1>8, SilentMove
  <1>10. Follower(p, s)'
    <2>1. EventsFollow(p, s)'
      <3>1. \A i \in DOMAIN events[p] : events[p][i].hash = row[s].hash
        BY <1>b DEF Follower
      <3>2. \A i \in DOMAIN Tail(events[p]) : Tail(events[p])[i].hash = row[s].hash
        BY <1>1, <1>3, <3>1, TailKeeps
      <3> QED BY <1>3, <1>7, <3>2 DEF EventsFollow
    <2>2. Tasks(p)' = Tasks(p) /\ (pending'[p] # {} => Asked(p)')
      BY <1>1, <1>7, <1>b DEF Tasks, Follower, Asked
    <2>3. TasksFollow(p, s)' /\ JobsFollow(p, s)' /\ NoticesFollow(p, s)' /\ Linked(p, s)'
      BY <1>1, <1>7, <1>b, <2>2, KeepParts
    <2>4. disk'[p].hash = row'[p].hash /\ SameVersion(row'[p], row'[s]) /\ Exists(row'[p])
      BY <1>1, <1>7, <1>b DEF Follower
    <2> QED BY <2>1, <2>2, <2>3, <2>4, FollowerIs
  <1> QED BY <1>9, <1>10, <1>b, FollowerMoves

LEMMA CalmTask ==
  ASSUME NEW s \in Peer, Steady(s), SyncInv', NEW p \in Peer,
         (\E t \in queue[p] : executeSyncTask(p, t)) \/ (\E t \in timers[p] : RetryDownload(p, t))
  PROVE  CalmInv'
  <1> USE DEF Steady, daemonVars, dbVars, downloadVars, netVars, procVars
  <1>1. UNCHANGED <<disk, notices, events, jobs, row, written, links, phase, spent, warned, open>>
    BY DEF executeSyncTask, RetryDownload
  <1>2. ~NothingToDo(p)
    BY DEF NothingToDo, Tasks
  <1>b. /\ p # s /\ Follower(p, s) /\ Linked(p, s) /\ SameVersion(row[p], row[s]) /\ Exists(row[p])
    BY <1>2, BusyFollows
  <1>3. queue \in [Peer -> SUBSET Task] /\ pending \in [Peer -> SUBSET Task] /\ timers \in [Peer -> SUBSET Task]
    BY DEF SyncInv
  <1>4. ASSUME Elsewhere(p), msgs \subseteq msgs', \A m \in msgs' : m \in msgs \/ CalmMsg(m, s)',
               pending'[p] # {} => Asked(p)', Tasks(p)' \subseteq Tasks(p), Tasks(p)' # {}
        PROVE  CalmInv'
    <2>1. Moves(p, s)
      BY <1>1, <1>4, SilentMove
    <2>2. TasksFollow(p, s)' /\ JobsFollow(p, s)' /\ NoticesFollow(p, s)' /\ EventsFollow(p, s)' /\ Linked(p, s)'
      BY <1>1, <1>4, <1>b, KeepParts
    <2>3. notices'[p] # <<>> \/ events'[p] # <<>> => disk'[p].hash = row'[p].hash
      BY <1>1, <1>b DEF Follower
    <2>4. SameVersion(row'[p], row'[s]) /\ Exists(row'[p])
      BY <1>1, <1>b
    <2>5. Follower(p, s)'
      BY <1>4, <2>2, <2>3, <2>4, FollowerIs
    <2> QED BY <1>b, <2>1, <2>5, FollowerMoves
  <1>5. ASSUME NEW t \in queue[p], executeSyncTask(p, t) PROVE CalmInv'
    <2>1. /\ queue' = [queue EXCEPT ![p] = queue[p] \ {t}]
          /\ pending' = [pending EXCEPT ![p] = {x \in pending[p] : x.hash # t.hash} \cup {t}]
          /\ msgs' = msgs \cup {Request(p, t.peer, t.hash)} /\ timers' = timers
      BY <1>5 DEF executeSyncTask
    <2>2. Elsewhere(p)
      BY <1>1, <2>1, OnlyAt
    <2>3. queue'[p] = queue[p] \ {t} /\ pending'[p] = {x \in pending[p] : x.hash # t.hash} \cup {t}
      BY <1>3, <2>1
    <2>4. Tasks(p)' \subseteq Tasks(p) /\ Tasks(p)' # {}
      BY <2>1, <2>3 DEF Tasks
    <2>5. PICK m : m = Request(p, t.peer, t.hash)
      OBVIOUS
    <2>6. m.type = "request" /\ m.from = p /\ m.to = s /\ m.hash = row[s].hash
      <3>1. t.peer = s /\ t.hash = row[s].hash
        BY <1>b DEF Follower, Tasks
      <3> QED BY <2>5, <3>1 DEF Request
    <2>7. CalmMsg(m, s)' /\ Asked(p)'
      BY <1>1, <2>1, <2>5, <2>6 DEF CalmMsg, Asked
    <2> QED BY <1>4, <2>1, <2>2, <2>4, <2>5, <2>7
  <1>6. ASSUME NEW t \in timers[p], RetryDownload(p, t) PROVE CalmInv'
    <2>1. /\ queue' = [queue EXCEPT ![p] = Push(queue[p], t)]
          /\ timers' = [timers EXCEPT ![p] = timers[p] \ {t}]
          /\ msgs' = msgs /\ pending' = pending
      BY <1>6 DEF RetryDownload
    <2>2. Elsewhere(p)
      BY <1>1, <2>1, OnlyAt
    <2>3. queue'[p] = Push(queue[p], t) /\ timers'[p] = timers[p] \ {t} /\ pending'[p] = pending[p]
      BY <1>3, <2>1
    <2>4. Push(queue[p], t) \subseteq queue[p] \cup {t} /\ Push(queue[p], t) # {}
      BY DEF Push
    <2>5. Tasks(p)' \subseteq Tasks(p) /\ Tasks(p)' # {}
      BY <2>3, <2>4 DEF Tasks
    <2>6. pending'[p] # {} => Asked(p)'
      BY <1>b, <2>1 DEF Follower, Asked
    <2> QED BY <1>4, <2>1, <2>2, <2>5, <2>6
  <1> QED BY <1>5, <1>6

(* A file that arrives or goes is the source's.                               *)
Noted(p, f, n) ==
  /\ disk' = [disk EXCEPT ![p] = f] /\ notices' = [notices EXCEPT ![p] = Append(notices[p], n)]
  /\ disk'[p] = f
  /\ \A i \in DOMAIN notices'[p] : notices'[p][i] = n \/ (i \in DOMAIN notices[p] /\ notices'[p][i] = notices[p][i])

LEMMA CalmTouch ==
  ASSUME SyncInv, Shape, NEW p \in Peer, phase[p] = "up", NEW f, NEW n \in Notice, Touch(p, f, n)
  PROVE  Noted(p, f, n)
  <1>1. disk' = [disk EXCEPT ![p] = f] /\ notices' = [notices EXCEPT ![p] = Append(notices[p], n)]
    BY DEF Touch
  <1>2. disk'[p] = f /\ notices'[p] = Append(notices[p], n) /\ notices[p] \in Seq(Notice)
    BY <1>1 DEF Shape, SyncInv
  <1> QED BY <1>1, <1>2, AppendIs, SMTT(30) DEF Noted

LEMMA CalmJob ==
  ASSUME MaxBreaks = 0,
         NEW s \in Peer, Steady(s), SyncInv', NEW p \in Peer,
         NEW j \in jobs[p], Fetch(p, j) \/ Rename(p, j) \/ DeleteFile(p, j) \/ FetchBreaks(p, j)
  PROVE  CalmInv'
  <1> USE DEF Steady, dbVars, downloadVars, netVars, procVars
  <1>1. UNCHANGED <<events, row, written, queue, pending, timers, msgs, links, phase, open, warned>>
    BY DEF Fetch, Rename, DeleteFile, FetchBreaks
  <1>2. ~NothingToDo(p)
    BY DEF NothingToDo
  <1>b. /\ p # s /\ Follower(p, s) /\ Linked(p, s) /\ phase[p] = "up" /\ phase[s] = "up"
        /\ SameVersion(row[p], row[s]) /\ Exists(row[p])
        /\ (row[s].del <=> row[s].hash = NoHash) /\ row[p].hash = row[s].hash /\ disk[s].hash = row[s].hash
    BY <1>2, BusyFollows
  <1>3. jobs \in [Peer -> SUBSET Job] /\ j \in Job
    BY DEF SyncInv
  <1>4. IF row[s].del THEN j.do = "delete" ELSE j.do # "delete" /\ j.hash = row[s].hash /\ j.from = s
    BY <1>b DEF Follower
  <1>5. ASSUME FetchBreaks(p, j) PROVE FALSE
    <2>1. j.do = "fetch" /\ (phase[j.from] # "up" \/ spent.breaks < MaxBreaks)
      BY <1>5 DEF FetchBreaks
    <2>2. spent.breaks \in Nat
      BY DEF SyncInv
    <2>3. phase[j.from] # "up"
      BY <2>1, <2>2, SMTT(30)
    <2> QED BY <1>b, <1>4, <2>1, <2>3
  <1>6. spent' = spent
    BY <1>5 DEF Fetch, Rename, DeleteFile
  <1>7. ASSUME NEW then, jobs' = [jobs EXCEPT ![p] = (jobs[p] \ {j}) \cup then],
               \A x \in then : ~row[s].del /\ x.do # "delete" /\ x.hash = row[s].hash /\ x.from = s,
               Elsewhere(p), disk'[p].hash = row[s].hash \/ (disk' = disk /\ then # {}),
               notices' = notices \/ disk'[p].hash = row[s].hash,
               NoticesFollow(p, s)'
        PROVE  CalmInv'
    <2>1. disk'[p].hash = disk[p].hash \/ disk'[p].hash = row[s].hash
      BY <1>7
    <2>2. Moves(p, s)
      BY <1>1, <1>6, <1>7, <1>b, <2>1, SilentMove
    <2>3. jobs'[p] = (jobs[p] \ {j}) \cup then
      BY <1>3, <1>7
    <2>4. JobsFollow(p, s)'
      BY <1>1, <1>7, <1>b, <2>3 DEF JobsFollow, Follower
    <2>5. Tasks(p)' = Tasks(p) /\ (pending'[p] # {} => Asked(p)')
      BY <1>1, <1>b DEF Tasks, Follower, Asked
    <2>6. TasksFollow(p, s)' /\ EventsFollow(p, s)' /\ Linked(p, s)'
      BY <1>1, <1>6, <1>b, <2>5, KeepParts
    <2>7. disk'[p].hash = row'[p].hash \/ jobs'[p] # {}
      BY <1>1, <1>7, <1>b, <2>3
    <2>8. notices'[p] # <<>> \/ events'[p] # <<>> => disk'[p].hash = row'[p].hash
      BY <1>1, <1>7, <1>b DEF Follower
    <2>9. SameVersion(row'[p], row'[s]) /\ Exists(row'[p])
      BY <1>1, <1>b
    <2>10. Follower(p, s)'
      BY <1>7, <2>4, <2>5, <2>6, <2>7, <2>8, <2>9, FollowerIs
    <2> QED BY <1>b, <2>2, <2>10, FollowerMoves
  <1>e. ASSUME Done(p, j, {}), Elsewhere(p), disk'[p].hash = row[s].hash, NoticesFollow(p, s)'
        PROVE  CalmInv'
    <2>1. PICK then : then = {}
      OBVIOUS
    <2>2. jobs' = [jobs EXCEPT ![p] = (jobs[p] \ {j}) \cup then]
      BY <1>e, <2>1 DEF Done
    <2>3. \A y \in then : ~row[s].del /\ y.do # "delete" /\ y.hash = row[s].hash /\ y.from = s
      BY <2>1
    <2> QED BY <1>7, <1>e, <2>2, <2>3
  <1>8. CASE Fetch(p, j)
    <2>1. j.do = "fetch" /\ UNCHANGED <<disk, notices>>
      BY <1>8 DEF Fetch
    <2>2. ~row[s].del /\ j.hash = row[s].hash /\ j.from = s
      BY <1>4, <2>1
    <2>3. PICK x : x = [j EXCEPT !.do = "rename"]
      OBVIOUS
    <2>4. jobs' = [jobs EXCEPT ![p] = (jobs[p] \ {j}) \cup {x}]
      BY <1>8, <1>b, <2>2, <2>3 DEF Fetch, Done
    <2>5. j \in [do : {"fetch", "rename"}, hash : Content, from : Peer]
      BY <1>3, <2>1 DEF Job
    <2>6. x.do = "rename" /\ x.hash = row[s].hash /\ x.from = s
      BY <2>2, <2>3, <2>5
    <2>7. Elsewhere(p)
      BY <1>1, <2>1, <2>4, OnlyAt
    <2>8. NoticesFollow(p, s)'
      BY <1>1, <1>b, <2>1, KeepParts
    <2>9. PICK then : then = {x}
      OBVIOUS
    <2>10. jobs' = [jobs EXCEPT ![p] = (jobs[p] \ {j}) \cup then] /\ then # {}
      BY <2>4, <2>9
    <2>11. \A y \in then : ~row[s].del /\ y.do # "delete" /\ y.hash = row[s].hash /\ y.from = s
      BY <2>2, <2>6, <2>9
    <2> QED BY <1>7, <2>1, <2>7, <2>8, <2>10, <2>11
  <1>9. ASSUME NEW f, NEW n \in Notice, Touch(p, f, n), f.hash = row[s].hash, n = "deleted" <=> row[s].del,
               Done(p, j, {})
        PROVE  CalmInv'
    <2>1. Noted(p, f, n)
      BY <1>9, <1>b, CalmTouch
    <2>2. disk' = [disk EXCEPT ![p] = f] /\ notices' = [notices EXCEPT ![p] = Append(notices[p], n)] /\ disk'[p] = f
      BY <2>1 DEF Noted
    <2>3. Elsewhere(p)
      BY <1>1, <1>9, <2>2, OnlyAt DEF Done
    <2>4. NoticesFollow(p, s)'
      BY <1>1, <1>9, <1>b, <2>1 DEF NoticesFollow, Follower, Noted
    <2> QED BY <1>9, <1>e, <2>2, <2>3, <2>4
  <1>10. CASE Rename(p, j)
    <2>1. j.do = "rename" /\ Done(p, j, {}) /\ Touch(p, [hash |-> j.hash, ts |-> Now], "created")
      BY <1>10 DEF Rename
    <2>2. ~row[s].del /\ j.hash = row[s].hash
      BY <1>4, <2>1
    <2>3. PICK f : f = [hash |-> j.hash, ts |-> Now]
      OBVIOUS
    <2>4. f.hash = row[s].hash /\ "created" \in Notice
      BY <2>2, <2>3 DEF Notice
    <2> QED BY <1>9, <2>1, <2>2, <2>3, <2>4
  <1>11. CASE DeleteFile(p, j)
    <2>1. j.do = "delete" /\ Done(p, j, {})
      BY <1>11 DEF DeleteFile
    <2>2. row[s].del /\ row[s].hash = NoHash
      BY <1>4, <1>b, <2>1
    <2>3. CASE disk[p].hash = NoHash
      <3>1. UNCHANGED <<disk, notices>>
        BY <1>11, <2>3 DEF DeleteFile
      <3>3. Elsewhere(p)
        BY <1>1, <2>1, <3>1, OnlyAt DEF Done
      <3>4. NoticesFollow(p, s)'
        BY <1>1, <1>b, <3>1, KeepParts
      <3> QED BY <1>e, <2>1, <2>2, <2>3, <3>1, <3>3, <3>4
    <2>4. CASE disk[p].hash # NoHash
      <3>1. Touch(p, NoFile, "deleted")
        BY <1>11, <2>4 DEF DeleteFile
      <3>2. NoFile.hash = row[s].hash /\ "deleted" \in Notice
        BY <2>2 DEF NoFile, Notice
      <3>3. PICK f : f = NoFile
        OBVIOUS
      <3> QED BY <1>9, <2>1, <2>2, <3>1, <3>2, <3>3
    <2> QED BY <2>3, <2>4
  <1> QED BY <1>5, <1>8, <1>10, <1>11

(* A request or an answer is received, and S is sent.                         *)
LEMMA ReceiveMove ==
  ASSUME SyncInv, Shape, NEW s \in Peer, NEW p \in Peer, Elsewhere(p), NEW m \in msgs,
         (m.type = "request" /\ m.from = p) \/ (m.type = "response" /\ m.to = p),
         NEW S, msgs' = (msgs \ {m}) \cup S, \A n \in S : CalmMsg(n, s)',
         UNCHANGED <<written, links, phase, open, warned>>, Now' = Now, spent.faults <= spent'.faults,
         row'[p] = row[p] \/ (SameVersion(row'[p], row[s]) /\ RecordedRow(row'[p]) /\ Exists(row'[p])),
         row'[p].ver = row[p].ver,
         disk'[p].hash = disk[p].hash \/ (disk'[p].hash = row[s].hash /\ Linked(p, s))
  PROVE  Moves(p, s)
  <1>1. row[p].ver <= row'[p].ver
    BY PeerFacts
  <1>2. \A q \in Peer \ {p} : Asked(q) => Asked(q)'
    BY SMTT(30) DEF Asked
  <1>3. \A x : Told(x, s) => Told(x, s)'
    BY DEF Told
  <1> QED BY <1>1, <1>2, <1>3 DEF Moves

LEMMA CalmRequest ==
  ASSUME NEW s \in Peer, Steady(s), SyncInv', NEW m \in msgs,
         HandleFileRequest(m)
  PROVE  CalmInv'
  <1> USE DEF Steady, daemonVars, dbVars, downloadVars, procVars
  <1>1. /\ m.type = "request"
        /\ UNCHANGED <<disk, notices, events, jobs, row, written, queue, pending, timers, links, phase, open, spent,
                       warned>>
    BY DEF HandleFileRequest
  <1>2. m.to = s /\ m.hash = row[s].hash
    BY <1>1 DEF Following, Spreading, CalmMsg
  <1>3. m.from \in Peer /\ m.hash \in Content
    BY <1>1 DEF SyncInv, GoodMsg
  <1>p. PICK p \in Peer : p = m.from
    BY <1>3
  <1>4. p # s
    BY <1>2, <1>p, PeerFacts DEF Shape
  <1>5. /\ Exists(row[s]) /\ ~row[s].del /\ disk[s].hash = m.hash /\ m.hash # NoHash
    <2>1. m.hash # NoHash /\ disk[s].hash = m.hash
      BY <1>2, <1>3, HashAssumption DEF Following, Spreading
    <2>2. row[s] # NoRow
      BY <1>2, <2>1, SMTT(30) DEF NoRow
    <2>3. Exists(row[s]) /\ ~row[s].del
      BY <1>2, <2>1, <2>2, RowsAgree, PeerFacts DEF History, RecordedRow
    <2> QED BY <2>1, <2>3
  <1>6. PICK kind \in {"inline", "port"} : msgs' = (msgs \ {m}) \cup {Response(s, p, m.hash, kind, m.hash)}
    BY <1>2, <1>5, <1>p DEF HandleFileRequest
  <1>7. PICK n : n = Response(s, p, m.hash, kind, m.hash)
    OBVIOUS
  <1>8. /\ n.type = "response" /\ n.from = s /\ n.to = p /\ n.hash = m.hash /\ n.kind = kind /\ n.content = m.hash
    BY <1>7 DEF Response
  <1>9. CalmMsg(n, s)' /\ Asked(p)'
    BY <1>1, <1>2, <1>6, <1>7, <1>8 DEF CalmMsg, Asked
  <1>10. Elsewhere(p)
    BY <1>1, NoneTouched DEF Elsewhere
  <1>11. Moves(p, s)
    <2>1. Now' = Now /\ spent.faults <= spent'.faults
      BY <1>1, SMTT(30) DEF Now, SyncInv
    <2>2. PICK S : S = {n}
      OBVIOUS
    <2>3. msgs' = (msgs \ {m}) \cup S /\ \A x \in S : CalmMsg(x, s)'
      BY <1>6, <1>7, <1>9, <2>2
    <2> QED BY <1>1, <1>p, <1>10, <2>1, <2>3, ReceiveMove
  <1>12. Follower(p, s)'
    <2>1. Follower(p, s) /\ spent.faults \in Nat
      BY <1>4 DEF Following, Spreading, SyncInv
    <2>2. Untouched(p) /\ row'[s] = row[s] /\ links' = links
      BY <1>1, NoneTouched
    <2>3. spent.faults <= spent'.faults /\ spent'.faults \in Nat
      BY <1>1, <2>1, SMTT(30)
    <2> QED BY <1>9, <2>1, <2>2, <2>3, OtherFollows
  <1> QED BY <1>4, <1>11, <1>12, FollowerMoves

(* What an answer is, and to whom.                                            *)
LEMMA CalmAnswer ==
  ASSUME NEW s \in Peer, Steady(s), NEW m \in msgs, m.type = "response"
  PROVE  /\ m.to \in Peer /\ m.to # s /\ m.from = s /\ m.hash = row[s].hash /\ m.hash \in Content
         /\ m.kind # "error" /\ (m.kind = "inline" => m.content = m.hash)
         /\ ~row[s].del
         /\ Useful(m) <=> pending[m.to] # {}
         /\ {t \in pending[m.to] : t.hash # m.hash} = {}
         /\ Follower(m.to, s)
  <1> USE DEF Steady
  <1>1. /\ m.from = s /\ m.hash = row[s].hash /\ m.kind # "error" /\ (m.kind = "inline" => m.content = m.hash)
    BY DEF Following, Spreading, CalmMsg
  <1>2. m.to \in Peer /\ m.hash \in Content
    BY DEF SyncInv, GoodMsg
  <1>3. m.to # s
    BY <1>1, PeerFacts DEF Shape
  <1>4. Follower(m.to, s)
    BY <1>2, <1>3 DEF Following, Spreading
  <1>5. \A t \in pending[m.to] : t.hash = m.hash
    BY <1>1, <1>4 DEF Follower, Tasks
  <1>6. ~row[s].del
    <2>1. row[s].hash # NoHash
      BY <1>1, <1>2, HashAssumption
    <2> QED BY <2>1 DEF History, RecordedRow
  <1> QED BY <1>1, <1>2, <1>3, <1>4, <1>5, <1>6 DEF Useful

LEMMA CalmDiscard ==
  ASSUME NEW s \in Peer, Steady(s), SyncInv', NEW m \in msgs,
         DiscardResponse(m)
  PROVE  CalmInv'
  <1> USE DEF Steady, daemonVars, dbVars, downloadVars, procVars
  <1>1. /\ m.type = "response" /\ ~Useful(m) /\ msgs' = (msgs \ {m}) \cup {}
        /\ UNCHANGED <<disk, notices, events, jobs, row, written, queue, pending, timers, links, phase, open, spent,
                       warned>>
    BY DEF DiscardResponse
  <1>p. PICK p : p = m.to
    OBVIOUS
  <1>2. p \in Peer /\ p # s /\ pending[p] = {} /\ Follower(p, s)
    BY <1>1, <1>p, CalmAnswer
  <1>3. Elsewhere(p)
    BY <1>1, NoneTouched DEF Elsewhere
  <1>4. Moves(p, s)
    <2>1. Now' = Now /\ spent.faults <= spent'.faults
      BY <1>1, SMTT(30) DEF Now, SyncInv
    <2>2. PICK S : S = {}
      OBVIOUS
    <2>3. msgs' = (msgs \ {m}) \cup S /\ \A x \in S : CalmMsg(x, s)'
      BY <1>1, <2>2
    <2> QED BY <1>1, <1>2, <1>p, <1>3, <2>1, <2>3, ReceiveMove
  <1>5. Follower(p, s)'
    <2>1. spent.faults \in Nat
      BY DEF SyncInv
    <2>2. Untouched(p) /\ row'[s] = row[s] /\ links' = links
      BY <1>1, NoneTouched
    <2>3. spent.faults <= spent'.faults /\ spent'.faults \in Nat
      BY <1>1, <2>1, SMTT(30)
    <2> QED BY <1>2, <2>1, <2>2, <2>3, OtherFollows
  <1> QED BY <1>2, <1>4, <1>5, FollowerMoves

(* The answer ends the download, or starts a transfer of the source's content.   *)
LEMMA CalmDownload ==
  ASSUME MaxFaults <= MaxDownloadRetries,
         NEW s \in Peer, Steady(s), SyncInv', NEW m \in msgs,
         StoreInline(m) \/ StartDownload(m) \/ DownloadFails(m)
  PROVE  CalmInv'
  <1> USE DEF Steady, daemonVars, dbVars, procVars
  <1>p. PICK p : p = m.to
    OBVIOUS
  <1>1. /\ m.type = "response" /\ Useful(m) /\ msgs' = msgs \ {m} /\ Answered(p, m.hash)
        /\ UNCHANGED <<events, queue, written, links, phase, open, warned>>
    BY <1>p DEF StoreInline, StartDownload, DownloadFails
  <1>2. /\ p \in Peer /\ p # s /\ m.from = s /\ m.hash = row[s].hash /\ m.hash \in Content
        /\ (m.kind = "inline" => m.content = m.hash)
        /\ ~row[s].del /\ pending[p] # {}
        /\ {t \in pending[p] : t.hash # m.hash} = {}
    BY <1>1, <1>p, CalmAnswer
  <1>3. ~NothingToDo(p)
    BY <1>2 DEF NothingToDo, Tasks
  <1>b. /\ Follower(p, s) /\ Linked(p, s) /\ phase[p] = "up"
        /\ SameVersion(row[p], row[s]) /\ Exists(row[p]) /\ row[p].hash = row[s].hash
    BY <1>2, <1>3, BusyFollows
  <1>4. pending' = [pending EXCEPT ![p] = {}] /\ pending'[p] = {}
    <2>1. pending' = [pending EXCEPT ![p] = {t \in pending[p] : t.hash # m.hash}]
      BY <1>1 DEF Answered
    <2> QED BY <1>2, <2>1 DEF SyncInv
  <1>5. ASSUME Elsewhere(p), Now' = Now, spent.faults <= spent'.faults,
               row'[p] = row[p] \/ (SameVersion(row'[p], row[s]) /\ RecordedRow(row'[p]) /\ Exists(row'[p])),
               disk'[p].hash = row[s].hash
                 \/ (disk' = disk /\ notices' = notices /\ (jobs'[p] # {} \/ timers'[p] # {})),
               TasksFollow(p, s)', JobsFollow(p, s)', NoticesFollow(p, s)'
        PROVE  CalmInv'
    <2>1. row'[p].ver = row[p].ver /\ SameVersion(row'[p], row[s]) /\ Exists(row'[p])
      BY <1>5, <1>b DEF SameVersion
    <2>2. row'[s] = row[s]
      BY <1>2, <1>5 DEF Elsewhere, Untouched
    <2>3. PICK S : S = {}
      OBVIOUS
    <2>4. msgs' = (msgs \ {m}) \cup S /\ \A x \in S : CalmMsg(x, s)'
      BY <1>1, <2>3
    <2>5. Moves(p, s)
      BY <1>1, <1>2, <1>5, <1>b, <1>p, <2>1, <2>4, ReceiveMove
    <2>6. EventsFollow(p, s)' /\ Linked(p, s)'
      BY <1>1, <1>2, <1>b, <2>2, KeepParts
    <2>7. disk'[p].hash = row'[p].hash \/ Tasks(p)' # {} \/ jobs'[p] # {}
      BY <1>5, <2>1 DEF SameVersion, Tasks
    <2>8. notices'[p] # <<>> \/ events'[p] # <<>> => disk'[p].hash = row'[p].hash
      BY <1>1, <1>5, <1>b, <2>1 DEF Follower, SameVersion
    <2>9. Follower(p, s)'
      BY <1>4, <1>5, <2>1, <2>2, <2>6, <2>7, <2>8, FollowerIs
    <2> QED BY <1>2, <2>5, <2>9, FollowerMoves
  <1>6. CASE StoreInline(m)
    <2>1. m.kind = "inline" /\ UNCHANGED <<jobs, timers, spent>>
      BY <1>6 DEF StoreInline
    <2>2. PICK f, n, r : f = [hash |-> m.hash, ts |-> Now] /\ n = Written(p) /\ r = InlineRow(row[p], m.hash, Now)
      OBVIOUS
    <2>3. Touch(p, f, n) /\ row' = [row EXCEPT ![p] = r]
      BY <1>2, <1>6, <1>p, <2>1, <2>2 DEF StoreInline, Save
    <2>4. n \in Notice /\ n # "deleted" /\ f.hash = row[s].hash
      BY <1>2, <2>2 DEF Written, Notice
    <2>n. Noted(p, f, n)
      BY <1>2, <1>b, <2>3, <2>4, CalmTouch
    <2>5. disk' = [disk EXCEPT ![p] = f] /\ notices' = [notices EXCEPT ![p] = Append(notices[p], n)] /\ disk'[p] = f
      BY <2>n DEF Noted
    <2>6. Elsewhere(p)
      BY <1>1, <1>2, <1>4, <2>1, <2>3, <2>5, OnlyAt
    <2>7. row'[s] = row[s]
      BY <1>2, <2>6 DEF Elsewhere, Untouched
    <2>8. /\ row'[p] = r /\ r.hash = row[p].hash /\ r.ver = row[p].ver /\ r.del = FALSE
      BY <1>2, <1>b, <2>2, <2>3 DEF InlineRow, SyncInv
    <2>9. SameVersion(row'[p], row[s]) /\ Exists(row'[p]) /\ RecordedRow(row'[p])
      <3>1. SameVersion(row'[p], row[s]) /\ Exists(row'[p])
        BY <1>b, <2>8 DEF SameVersion, Exists
      <3>2. <<row[p].hash, row[p].ver>> \in written
        BY <1>2, <1>b, RecordedIs DEF History
      <3>3. row'[p].hash # NoHash
        BY <1>2, <1>b, <2>8, HashAssumption
      <3> QED BY <2>8, <3>1, <3>2, <3>3 DEF RecordedRow
    <2>10. Now' = Now /\ spent.faults <= spent'.faults
      BY <2>1, SMTT(30) DEF Now, SyncInv
    <2>11. NoticesFollow(p, s)'
      BY <1>2, <1>b, <2>4, <2>7, <2>n DEF NoticesFollow, Follower, Noted
    <2>12. Tasks(p)' \subseteq Tasks(p)
      BY <1>1, <1>4, <2>1 DEF Tasks
    <2>13. TasksFollow(p, s)' /\ JobsFollow(p, s)'
      BY <1>2, <1>b, <2>1, <2>7, <2>12, KeepParts
    <2> QED BY <1>5, <2>4, <2>5, <2>6, <2>9, <2>10, <2>11, <2>13
  <1>7. CASE StartDownload(m)
    <2>j. PICK j : j = [do |-> "fetch", hash |-> m.hash, from |-> m.from]
      OBVIOUS
    <2>1. /\ UNCHANGED <<disk, notices, row, timers, spent>>
          /\ jobs' = [jobs EXCEPT ![p] = jobs[p] \cup {j}]
      BY <1>7, <1>p, <1>b, <2>j DEF StartDownload
    <2>2. jobs'[p] = jobs[p] \cup {j} /\ j.do = "fetch" /\ j.hash = row[s].hash /\ j.from = s
      BY <1>2, <2>1, <2>j DEF SyncInv
    <2>3. Elsewhere(p)
      BY <1>1, <1>2, <1>4, <2>1, OnlyAt
    <2>4. Now' = Now /\ spent.faults <= spent'.faults
      BY <2>1, SMTT(30) DEF Now, SyncInv
    <2>5. Tasks(p)' \subseteq Tasks(p)
      BY <1>1, <1>4, <2>1 DEF Tasks
    <2>6. TasksFollow(p, s)' /\ NoticesFollow(p, s)'
      BY <1>2, <1>b, <2>1, <2>5, KeepParts
    <2>7. JobsFollow(p, s)'
      BY <1>2, <1>b, <2>1, <2>2 DEF JobsFollow, Follower
    <2> QED BY <1>5, <2>1, <2>2, <2>3, <2>4, <2>6, <2>7
  <1>8. CASE DownloadFails(m)
    <2>1. UNCHANGED <<disk, notices, jobs>> /\ spent.faults < MaxFaults /\ Spend("faults")
      BY <1>8 DEF DownloadFails
    <2>2. spent'.faults = spent.faults + 1 /\ Now' = Now /\ spent.faults \in Nat
      BY <2>1 DEF Spend, SyncInv, Now
    <2>3. PICK t \in pending[p] :
            IF t.retries < MaxDownloadRetries
              THEN timers' = [timers EXCEPT ![p] = @ \cup {[t EXCEPT !.retries = @ + 1]}] /\ UNCHANGED row
              ELSE row' = [row EXCEPT ![p] = NoRow] /\ UNCHANGED timers
      BY <1>8, <1>p DEF DownloadFails
    <2>4. t.hash = row[s].hash /\ t.peer = s /\ t.retries <= spent.faults
      BY <1>b DEF Follower, Tasks
    <2>5. t \in Task /\ t.retries \in Nat
      BY <1>2, SMTT(30) DEF SyncInv, GoodTask, Task
    <2>6. t.retries < MaxDownloadRetries
      BY <2>1, <2>2, <2>4, <2>5, SyncAssumption, SMTT(30) DEF MaxDownloadRetries
    <2>7. PICK u : u = [t EXCEPT !.retries = t.retries + 1]
      OBVIOUS
    <2>8. timers' = [timers EXCEPT ![p] = timers[p] \cup {u}] /\ row' = row
      BY <2>3, <2>6, <2>7
    <2>9. u.hash = t.hash /\ u.peer = t.peer /\ u.retries = t.retries + 1
      BY <2>5, <2>7 DEF Task
    <2>10. timers'[p] = timers[p] \cup {u}
      BY <1>2, <2>8 DEF SyncInv
    <2>11. Elsewhere(p)
      BY <1>1, <1>2, <1>4, <2>1, <2>8, OnlyAt
    <2>12. JobsFollow(p, s)' /\ NoticesFollow(p, s)'
      BY <1>2, <1>b, <2>1, <2>8, KeepParts
    <2>13. TasksFollow(p, s)'
      <3>1. \A x \in Tasks(p)' : x \in Tasks(p) \/ x = u
        BY <1>1, <1>4, <2>10 DEF Tasks
      <3>2. \A x \in Tasks(p) : x.hash = row[s].hash /\ x.peer = s /\ x.retries <= spent.faults
        BY <1>b DEF Follower
      <3>3. \A x \in Tasks(p) : x.retries \in Nat
        <4>1. \A x \in Tasks(p) : x \in Task
          BY <1>2 DEF SyncInv, GoodTask, Tasks
        <4> QED BY <4>1, SMTT(30) DEF Task
      <3>4. u.retries <= spent'.faults
        BY <2>2, <2>4, <2>5, <2>9, SMTT(30)
      <3>5. \A x \in Tasks(p) : x.retries <= spent'.faults
        BY <2>2, <3>2, <3>3, SMTT(30)
      <3> QED BY <2>4, <2>8, <2>9, <3>1, <3>2, <3>4, <3>5 DEF TasksFollow
    <2>14. row'[p] = row[p] /\ disk' = disk /\ notices' = notices /\ timers'[p] # {}
      BY <2>1, <2>8, <2>10
    <2>15. spent.faults <= spent'.faults
      BY <2>2, SMTT(30)
    <2> QED BY <1>5, <2>2, <2>11, <2>12, <2>13, <2>14, <2>15
  <1> QED BY <1>6, <1>7, <1>8

(* An announcement between p and the source is received, and S is sent.         *)
LEMMA MetaMove ==
  ASSUME SyncInv, Shape, NEW s \in Peer, NEW p \in Peer, p # s, Elsewhere(p), NEW m \in msgs,
         m.type = "meta", (m.from = p /\ m.to = s) \/ (m.from = s /\ m.to = p),
         NEW S, msgs' = (msgs \ {m}) \cup S, \A n \in S : CalmMsg(n, s)',
         UNCHANGED <<written, links, phase, open, warned, spent, disk>>,
         row'[p] = row[p] \/ (SameVersion(row'[p], row[s]) /\ RecordedRow(row'[p]) /\ Exists(row'[p])),
         row[p].ver <= row'[p].ver,
         SameVersion(row'[p], row[s]) \/ Told(p, s)'
  PROVE  Moves(p, s)
  <1>1. spent.faults <= spent'.faults /\ Now' = Now
    BY SMTT(30) DEF SyncInv, Now
  <1>2. \A q : Asked(q) => Asked(q)'
    BY DEF Asked
  <1>3. ASSUME NEW x \in Peer, Told(x, s), x # p PROVE Told(x, s)'
    <2>1. PICK n \in msgs : n.type = "meta" /\ ((n.from = x /\ n.to = s) \/ (n.from = s /\ n.to = x))
      BY <1>3 DEF Told
    <2>2. n # m
      BY <1>3, <2>1, SMTT(30)
    <2>3. n \in msgs'
      BY <2>1, <2>2
    <2> QED BY <2>1, <2>3 DEF Told
  <1> QED BY <1>1, <1>2, <1>3 DEF Moves

LEMMA ResolveCalm ==
  ASSUME NEW r \in Row, NEW u \in Row, NEW p, NEW q, NEW res, res = Resolve(Version(r, p), Version(u, q))
  PROVE  /\ r.hash = u.hash => res.action = "Skip" /\ ~res.isConflict
         /\ r.hash # u.hash /\ u.ver > r.ver => res.action = "AcceptRemote" /\ ~res.isConflict
         /\ r.hash # u.hash /\ r.ver > u.ver => res.action = "KeepLocal" /\ ~res.isConflict
  BY SMTT(30) DEF Resolve, Resolution, Version, Row

(* Who knows the hash of what was recorded knows its version.                   *)
LEMMA SameHash ==
  ASSUME History, SyncInv, NEW u \in Row, RecordedRow(u), Exists(u), NEW p \in Peer
  PROVE  /\ row[p].hash = u.hash => SameVersion(row[p], u) /\ Exists(row[p])
         /\ row[p].hash # u.hash => row[p].ver # u.ver
  <1>1. row[p] \in Row /\ RecordedRow(row[p])
    BY DEF SyncInv, History
  <1>2. Exists(row[p]) => (row[p].hash = u.hash <=> row[p].ver = u.ver)
    BY <1>1, RowsAgree
  <1>3. ~Exists(row[p]) => row[p] = NoRow /\ row[p].ver # u.ver
    <2>1. ~Exists(row[p]) => row[p] = NoRow
      BY <1>1, RowsAgree
    <2> QED BY <2>1, NoRowFacts DEF Exists
  <1>4. ASSUME ~Exists(row[p]), row[p].hash = u.hash PROVE FALSE
    <2>1. u.hash = NoHash
      BY <1>3, <1>4, NoRowFacts
    <2>2. u.hash \in Recorded
      BY RowsAgree
    <2> QED BY <1>4, <2>1, <2>2 DEF History
  <1> QED BY <1>2, <1>3, <1>4 DEF SameVersion

(* The parts of a peer's state that an announcement leaves alone.               *)
LEMMA MetaParts ==
  ASSUME NEW s \in Peer, Steady(s), NEW m \in msgs, HandlePeerMetadataUpdate(m)
  PROVE  /\ m.type = "meta" /\ m.from \in Peer /\ m.to \in Peer /\ m.row \in Row
         /\ Exists(m.row) /\ RecordedRow(m.row) /\ Linked(m.from, m.to)
         /\ (m.from = s /\ m.to # s /\ SameVersion(m.row, row[s]) /\ row[m.to].ver <= m.row.ver)
              \/ (m.to = s /\ m.from # s /\ m.row.ver <= row[s].ver
                    /\ (SameVersion(m.row, row[m.from]) \/ SameVersion(row[m.from], row[s])))
         /\ UNCHANGED <<disk, notices, events, written, pending, timers, links, phase, spent, open>>
  <1> USE DEF Steady
  <1>1. /\ m.type = "meta"
        /\ UNCHANGED <<disk, notices, events, written, pending, timers, links, phase, spent, open>>
    BY DEF HandlePeerMetadataUpdate, PeerUpdate
  <1>2. m.from \in Peer /\ m.to \in Peer /\ m.row \in Row
    <2>1. m \in [type : {"meta"}, from : Peer, to : Peer, row : Row]
      BY <1>1 DEF SyncInv, GoodMsg
    <2> QED BY <2>1
  <1>3. Linked(m.from, m.to)
    BY DEF Shape
  <1>4. m.from # m.to
    BY <1>2, <1>3, PeerFacts
  <1>5. CalmMsg(m, s)
    BY DEF Following, Spreading
  <1>6. /\ Exists(m.row) /\ RecordedRow(m.row)
        /\ (m.from = s /\ SameVersion(m.row, row[s]) /\ row[m.to].ver <= row[s].ver)
             \/ (m.to = s /\ m.row.ver <= row[s].ver
                   /\ (SameVersion(m.row, row[m.from]) \/ SameVersion(row[m.from], row[s])))
    BY <1>1, <1>5 DEF CalmMsg
  <1>7. SameVersion(m.row, row[s]) => m.row.ver = row[s].ver
    BY DEF SameVersion
  <1> QED BY <1>1, <1>2, <1>3, <1>4, <1>6, <1>7

(* The source is told of a version: its own, or an older one, which it answers.    *)
LEMMA CalmTold ==
  ASSUME NEW s \in Peer, Steady(s), SyncInv', NEW m \in msgs, HandlePeerMetadataUpdate(m), m.to = s
  PROVE  CalmInv'
  <1> USE DEF Steady
  <1>1. /\ m.type = "meta" /\ m.from \in Peer /\ m.row \in Row /\ m.from # s
        /\ Exists(m.row) /\ RecordedRow(m.row) /\ Linked(m.from, s) /\ m.row.ver <= row[s].ver
        /\ (SameVersion(m.row, row[m.from]) \/ SameVersion(row[m.from], row[s]))
        /\ UNCHANGED <<disk, notices, events, written, pending, timers, links, phase, spent, open>>
    BY MetaParts
  <1>r. PICK res : res = Resolve(Version(row[s], s), Version(m.row, m.from))
    OBVIOUS
  <1>p. PICK p \in Peer : p = m.from
    BY <1>1
  <1>2. row[s] \in Row /\ row[p] \in Row /\ RecordedRow(row[s]) /\ disk[s].hash = row[s].hash
    BY <1>1, PeerFacts DEF Following, Spreading, History
  <1>3. ASSUME NEW S, msgs' = (msgs \ {m}) \cup S, \A n \in S : CalmMsg(n, s)',
               UNCHANGED <<row, queue, jobs, warned>>, SameVersion(row[p], row[s]) \/ Told(p, s)'
        PROVE  CalmInv'
    <2>1. Elsewhere(p) /\ Untouched(p) /\ row'[s] = row[s]
      BY <1>1, <1>3, NoneTouched DEF Elsewhere
    <2>2. Moves(p, s)
      <3>1. row'[p] = row[p] /\ row[p].ver <= row'[p].ver
        BY <1>3, PeerFacts
      <3> QED BY <1>1, <1>3, <1>p, <2>1, <3>1, MetaMove
    <2>3. Follower(p, s) /\ spent.faults \in Nat /\ spent.faults <= spent.faults
      <3>1. spent.faults \in Nat
        BY DEF SyncInv
      <3>2. spent.faults <= spent.faults
        BY <3>1, SMTT(30)
      <3> QED BY <1>1, <1>p, <3>1, <3>2 DEF Following, Spreading
    <2>4. Asked(p) => Asked(p)'
      BY <1>1, <1>3 DEF Asked
    <2>a. pending[p] # {} => Asked(p)'
      BY <2>3, <2>4 DEF Follower
    <2>5. Follower(p, s)'
      BY <1>1, <2>1, <2>3, <2>a, OtherFollows
    <2> QED BY <1>1, <1>p, <2>2, <2>5, FollowerMoves
  <1>4. CASE row[s].hash = m.row.hash
    <2>1. res.action = "Skip" /\ ~res.isConflict
      BY <1>1, <1>2, <1>4, <1>r, ResolveCalm, SMTT(30)
    <2>2. SameVersion(row[s], m.row) /\ Exists(row[s])
      BY <1>1, <1>4, SameHash
    <2>3. ~(Exists(row[s]) /\ ~row[s].del /\ disk[s].hash = NoHash)
      BY <1>2, <2>2, RecordedIs
    <2>4. msgs' = msgs \ {m} /\ UNCHANGED <<row, queue, jobs, warned>>
      BY <1>r, <2>1, <2>3 DEF HandlePeerMetadataUpdate, PeerUpdate
    <2>5. SameVersion(row[p], row[s])
      BY <1>1, <1>p, <2>2 DEF SameVersion
    <2>6. PICK S : S = {}
      OBVIOUS
    <2>7. msgs' = (msgs \ {m}) \cup S /\ \A n \in S : CalmMsg(n, s)'
      BY <2>4, <2>6
    <2> QED BY <1>3, <2>4, <2>5, <2>7
  <1>5. CASE row[s].hash # m.row.hash
    <2>1. row[s].ver > m.row.ver /\ Exists(row[s])
      <3>1. row[s].ver # m.row.ver
        BY <1>1, <1>5, SameHash
      <3> QED BY <1>1, <1>2, <3>1, SMTT(30) DEF Row, Exists
    <2>2. res.action = "KeepLocal" /\ ~res.isConflict
      BY <1>1, <1>2, <1>5, <1>r, <2>1, ResolveCalm, SMTT(30)
    <2>n. PICK n : n = Meta(s, p, row[s])
      OBVIOUS
    <2>3. Linked(s, p)
      BY <1>1, <1>p, LinkedSym
    <2>4. UNCHANGED <<row, queue, jobs, warned>> /\ msgs' = (msgs \ {m}) \cup {n}
      BY <1>p, <1>r, <2>2, <2>3, <2>n DEF HandlePeerMetadataUpdate, PeerUpdate, sendMetadataUpdateToPeer
    <2>5. n.type = "meta" /\ n.from = s /\ n.to = p /\ n.row = row[s]
      BY <2>n DEF Meta
    <2>6. row[p].ver <= row[s].ver
      BY <1>1, <1>2, <1>p, SMTT(30) DEF SameVersion, Row
    <2>7. CalmMsg(n, s)'
      <3>1. SameVersion(n.row, row'[s]) /\ Exists(n.row) /\ RecordedRow(n.row)'
        BY <1>1, <1>2, <2>1, <2>4, <2>5 DEF SameVersion, RecordedRow
      <3>2. row'[n.to].ver <= row'[s].ver
        BY <2>4, <2>5, <2>6
      <3> QED BY <2>5, <3>1, <3>2 DEF CalmMsg
    <2>8. Told(p, s)'
      BY <2>4, <2>5 DEF Told
    <2>9. PICK S : S = {n}
      OBVIOUS
    <2>10. msgs' = (msgs \ {m}) \cup S /\ \A x \in S : CalmMsg(x, s)'
      BY <2>4, <2>7, <2>9
    <2> QED BY <1>3, <2>4, <2>8, <2>10
  <1> QED BY <1>4, <1>5

(* The source's version reaches another peer, which accepts it or knows it.       *)
LEMMA CalmHeard ==
  ASSUME NEW s \in Peer, Steady(s), SyncInv', NEW m \in msgs, HandlePeerMetadataUpdate(m), m.from = s
  PROVE  CalmInv'
  <1> USE DEF Steady
  <1>p. PICK p : p = m.to
    OBVIOUS
  <1>1. /\ m.type = "meta" /\ p \in Peer /\ p # s /\ m.row \in Row
        /\ Exists(m.row) /\ RecordedRow(m.row) /\ Linked(s, p)
        /\ SameVersion(m.row, row[s]) /\ row[p].ver <= m.row.ver
        /\ UNCHANGED <<disk, notices, events, written, pending, timers, links, phase, spent, open>>
    BY <1>p, MetaParts
  <1>r. PICK res : res = Resolve(Version(row[p], p), Version(m.row, m.from))
    OBVIOUS
  <1>t. PICK task : task = [hash |-> m.row.hash, peer |-> m.from, retries |-> 0]
    OBVIOUS
  <1>2. /\ row[p] \in Row /\ row[s] \in Row /\ RecordedRow(row[p]) /\ Follower(p, s) /\ phase[p] = "up"
        /\ Linked(p, s) /\ m.row.hash = row[s].hash /\ m.row.ver = row[s].ver /\ (m.row.del <=> row[s].del)
    <2>1. row[p] \in Row /\ row[s] \in Row /\ RecordedRow(row[p]) /\ RecordedRow(row[s]) /\ Follower(p, s)
      BY <1>1, PeerFacts DEF Following, Spreading, History
    <2>2. Linked(p, s) /\ phase[p] = "up"
      BY <1>1, LinkedSym DEF Orderly
    <2> QED BY <1>1, <2>1, <2>2, RowsAgree DEF SameVersion
  <1>3. task.hash = row[s].hash /\ task.peer = s /\ task.retries = 0
    BY <1>2, <1>t
  <1>4. spent.faults \in Nat /\ 0 <= spent.faults
    BY SMTT(30) DEF SyncInv
  <1>5. ASSUME msgs' = msgs \ {m}, UNCHANGED warned, Elsewhere(p), row'[p] = row[p] \/ row'[p] = m.row,
               SameVersion(row'[p], row[s]), row[p].ver <= row'[p].ver, Exists(row'[p]),
               disk[p].hash = row'[p].hash \/ Tasks(p)' # {} \/ jobs'[p] # {},
               notices[p] # <<>> \/ events[p] # <<>> => disk[p].hash = row'[p].hash,
               queue'[p] \subseteq queue[p] \cup {task}, JobsFollow(p, s)'
        PROVE  CalmInv'
    <2>1. row'[s] = row[s]
      BY <1>1, <1>5 DEF Elsewhere, Untouched
    <2>2. PICK S : S = {}
      OBVIOUS
    <2>3. msgs' = (msgs \ {m}) \cup S /\ \A n \in S : CalmMsg(n, s)'
      BY <1>5, <2>2
    <2>4. Moves(p, s)
      BY <1>1, <1>5, <1>p, <2>3, MetaMove
    <2>5. TasksFollow(p, s)'
      <3>1. \A t \in Tasks(p)' : t \in Tasks(p) \/ t = task
        BY <1>1, <1>5 DEF Tasks
      <3> QED BY <1>1, <1>2, <1>3, <1>4, <2>1, <3>1 DEF TasksFollow, Follower
    <2>6. NoticesFollow(p, s)' /\ EventsFollow(p, s)' /\ Linked(p, s)'
      BY <1>1, <1>2, <2>1, KeepParts
    <2>7. Asked(p) => Asked(p)'
      BY <1>1, <1>5 DEF Asked
    <2>8. pending'[p] # {} => Asked(p)'
      BY <1>1, <1>2, <2>7 DEF Follower
    <2>9. Follower(p, s)'
      BY <1>1, <1>5, <2>1, <2>5, <2>6, <2>8, FollowerIs
    <2> QED BY <1>1, <2>4, <2>9, FollowerMoves
  <1>6. CASE row[p].hash = m.row.hash
    <2>1. res.action = "Skip" /\ ~res.isConflict
      BY <1>1, <1>2, <1>6, <1>r, ResolveCalm, SMTT(30)
    <2>2. SameVersion(row[p], row[s]) /\ Exists(row[p])
      BY <1>1, <1>2, <1>6, SameHash DEF SameVersion
    <2>3. UNCHANGED <<row, jobs, warned>> /\ msgs' = msgs \ {m} /\
            (queue' = queue \/ queue' = [queue EXCEPT ![p] = Push(queue[p], task)])
      BY <1>p, <1>r, <1>t, <2>1 DEF HandlePeerMetadataUpdate, PeerUpdate
    <2>4. Elsewhere(p)
      BY <1>1, <2>3, OnlyAt
    <2>5. queue[p] \subseteq queue'[p] /\ queue'[p] \subseteq queue[p] \cup {task}
      <3>1. queue'[p] = queue[p] \/ queue'[p] = Push(queue[p], task)
        BY <1>1, <2>3 DEF SyncInv
      <3> QED BY <3>1 DEF Push
    <2>6. row'[p] = row[p] /\ row[p].ver <= row'[p].ver
      BY <1>1, <2>3, PeerFacts
    <2>7. disk[p].hash = row'[p].hash \/ Tasks(p)' # {} \/ jobs'[p] # {}
      <3>1. Tasks(p) # {} => Tasks(p)' # {}
        BY <1>1, <2>5 DEF Tasks
      <3> QED BY <1>2, <2>3, <3>1 DEF Follower
    <2>8. JobsFollow(p, s)'
      BY <1>1, <1>2, <2>3, KeepParts
    <2>9. notices[p] # <<>> \/ events[p] # <<>> => disk[p].hash = row'[p].hash
      BY <1>2, <2>6 DEF Follower
    <2> QED BY <1>5, <2>2, <2>3, <2>4, <2>5, <2>6, <2>7, <2>8, <2>9
  <1>7. CASE row[p].hash # m.row.hash
    <2>1. m.row.ver > row[p].ver
      <3>1. row[p].ver # m.row.ver
        BY <1>1, <1>7, SameHash
      <3> QED BY <1>1, <1>2, <3>1, SMTT(30) DEF Row
    <2>2. res.action = "AcceptRemote" /\ ~res.isConflict
      BY <1>1, <1>2, <1>7, <1>r, <2>1, ResolveCalm, SMTT(30)
    <2>3. NothingToDo(p)
      BY <1>2, <1>7 DEF Follower, SameVersion
    <2>4. queue[p] = {} /\ pending[p] = {} /\ timers[p] = {} /\ jobs[p] = {} /\ notices[p] = <<>> /\ events[p] = <<>>
      BY <2>3 DEF NothingToDo, Tasks
    <2>5. row' = [row EXCEPT ![p] = m.row] /\ msgs' = msgs \ {m} /\ UNCHANGED warned
      BY <1>p, <1>r, <2>2 DEF HandlePeerMetadataUpdate, PeerUpdate, Save
    <2>6. row'[p] = m.row
      BY <1>1, <2>5 DEF SyncInv
    <2>7. row[p].ver <= row'[p].ver /\ SameVersion(row'[p], row[s]) /\ Exists(row'[p])
      BY <1>1, <2>6
    <2>8. CASE m.row.del
      <3>1. queue' = queue /\ jobs' = [jobs EXCEPT ![p] = jobs[p] \cup {[do |-> "delete"]}]
        BY <1>2, <1>p, <1>r, <2>2, <2>8 DEF HandlePeerMetadataUpdate, PeerUpdate
      <3>2. Elsewhere(p)
        BY <1>1, <2>5, <3>1, OnlyAt
      <3>3. jobs'[p] = {[do |-> "delete"]}
        BY <1>1, <2>4, <3>1 DEF SyncInv
      <3>4. JobsFollow(p, s)' /\ jobs'[p] # {}
        <4>1. row'[s] = row[s]
          BY <1>1, <3>2 DEF Elsewhere, Untouched
        <4> QED BY <1>2, <2>8, <3>3, <4>1, SMTT(30) DEF JobsFollow
      <3>5. queue'[p] \subseteq queue[p] \cup {task}
        BY <3>1
      <3> QED BY <1>5, <2>4, <2>5, <2>6, <2>7, <3>2, <3>4, <3>5
    <2>9. CASE ~m.row.del
      <3>1. jobs' = jobs /\ queue' = [queue EXCEPT ![p] = Push(queue[p], task)]
        BY <1>p, <1>r, <1>t, <2>2, <2>4, <2>9 DEF HandlePeerMetadataUpdate, PeerUpdate
      <3>2. Elsewhere(p)
        BY <1>1, <2>5, <3>1, OnlyAt
      <3>3. queue'[p] = {task}
        <4>1. queue'[p] = Push(queue[p], task)
          BY <1>1, <3>1 DEF SyncInv
        <4> QED BY <2>4, <4>1 DEF Push
      <3>4. JobsFollow(p, s)' /\ Tasks(p)' # {}
        BY <2>4, <3>1, <3>3 DEF JobsFollow, Tasks
      <3>5. queue'[p] \subseteq queue[p] \cup {task}
        BY <3>3
      <3> QED BY <1>5, <2>4, <2>5, <2>6, <2>7, <3>2, <3>4, <3>5
    <2> QED BY <2>8, <2>9
  <1> QED BY <1>6, <1>7

LEMMA CalmUpdate ==
  ASSUME NEW s \in Peer, Steady(s), SyncInv', NEW m \in msgs, HandlePeerMetadataUpdate(m)
  PROVE  CalmInv'
  BY MetaParts, CalmTold, CalmHeard

-----------------------------------------------------------------------------
(* Applications start, stop and lose connections; a scan stamps a row that is right.  *)
Calm(s) == (Unrecorded(s) \/ Spreading(s)) /\ \A p \in Peer : UpToDate(p, s)
Restamped(q) ==
  row'[q] = row[q] \/
    (Exists(row[q]) /\ row'[q].hash = row[q].hash /\ row'[q].ver = row[q].ver /\ (row'[q].del <=> row[q].del))

LEMMA Settled ==
  ASSUME SyncInv, History, Orderly, NEW s \in Peer, Calm(s),
         UNCHANGED <<disk, notices, events, queue, pending, timers, jobs, written, msgs, open, warned>>,
         Now' = Now, spent'.faults = spent.faults, \A q \in Peer : Restamped(q),
         links' \subseteq links, links' = links \/ \A p \in Peer : NothingToDo(p),
         \A p, q \in Peer : Linked(p, q)' => phase'[p] = "up",
         \A p \in Peer : phase'[p] = "unseen" => disk[p].hash = NoHash,
         phase'[s] = phase[s] \/ {phase[s], phase'[s]} \subseteq {"down", "scan"} \/ Spreading(s)
  PROVE  CalmInv'
  <1>1. \A q \in Peer : /\ row'[q].hash = row[q].hash /\ row'[q].ver = row[q].ver /\ (row'[q].del <=> row[q].del)
                        /\ (Exists(row'[q]) <=> Exists(row[q])) /\ (Newest(row[q])' <=> Newest(row[q]))
                        /\ (RecordedRow(row[q]) => RecordedRow(row[q])')
    <2> SUFFICES ASSUME NEW q \in Peer
                 PROVE  /\ row'[q].hash = row[q].hash /\ row'[q].ver = row[q].ver /\ (row'[q].del <=> row[q].del)
                        /\ (Exists(row'[q]) <=> Exists(row[q])) /\ (Newest(row[q])' <=> Newest(row[q]))
                        /\ (RecordedRow(row[q]) => RecordedRow(row[q])')
      OBVIOUS
    <2>1. row'[q].hash = row[q].hash /\ row'[q].ver = row[q].ver /\ (row'[q].del <=> row[q].del)
      BY DEF Restamped
    <2>2. (Exists(row'[q]) <=> Exists(row[q])) /\ (Newest(row[q])' <=> Newest(row[q]))
      BY <2>1 DEF Exists, Newest
    <2>3. ASSUME RecordedRow(row[q]) PROVE RecordedRow(row[q])'
      <3>1. CASE row'[q] = row[q]
        BY <2>3, <3>1 DEF RecordedRow
      <3>2. CASE Exists(row[q])
        <4>1. <<row'[q].hash, row'[q].ver>> \in written' /\ (row[q].del <=> row[q].hash = NoHash)
          BY <2>1, <2>3, <3>2, RecordedIs
        <4> QED BY <2>1, <2>2, <3>2, <4>1 DEF RecordedRow
      <3> QED BY <3>1, <3>2 DEF Restamped
    <2> QED BY <2>1, <2>2, <2>3
  <1>2. Recorded' = Recorded /\ \A r : RecordedRow(r)' <=> RecordedRow(r)
    BY DEF Recorded, RecordedRow
  <1>3. /\ \A x, y : Linked(x, y)' => Linked(x, y)
        /\ \A q \in Peer : ~NothingToDo(q) => \A y : Linked(q, y)' <=> Linked(q, y)
    BY DEF Linked
  <1>4. History'
    BY <1>1, <1>2 DEF History
  <1>5. Orderly'
    BY DEF Orderly
  <1>6. \A q : Tasks(q)' = Tasks(q) /\ NothingToDo(q)' = NothingToDo(q) /\ Asked(q)' = Asked(q)
               /\ Told(q, s)' = Told(q, s)
    BY DEF Tasks, NothingToDo, Asked, Told
  <1>7. ASSUME Unrecorded(s) PROVE Unrecorded(s)' \/ Spreading(s)'
    <2>1. CASE Spreading(s)
      <3>1. disk[s].hash \in Recorded \cup {NoHash} /\ disk[s].hash = row[s].hash /\ disk[s].hash \notin Recorded
        BY <1>7, <2>1 DEF Unrecorded, Spreading
      <3>2. Exists(row[s])
        BY <1>7, <3>1 DEF Unrecorded
      <3> QED BY <3>1, <3>2, RowsAgree DEF History, SyncInv
    <2>2. CASE ~Spreading(s)
      <3>1. phase'[s] = phase[s] \/ (phase[s] \in {"down", "scan"} /\ phase'[s] \in {"down", "scan"})
        BY <2>2
      <3>2. /\ disk'[s].hash \notin Recorded' /\ (disk'[s].hash = NoHash => \A p \in Peer : Exists(row'[p]))
            /\ Newest(row[s])' /\ Cardinality(written)' < Now' + (IF First = NoHash THEN 0 ELSE 1)
            /\ msgs' = {} /\ \A p \in Peer : Tasks(p)' = {} /\ jobs'[p] = {}
        BY <1>1, <1>2, <1>6, <1>7 DEF Unrecorded
      <3>3. \A p \in Peer \ {s} : /\ notices'[p] = <<>> /\ events'[p] = <<>>
                                  /\ disk'[p].hash = row'[p].hash /\ disk'[p].ts < disk'[s].ts
        BY <1>1, <1>7 DEF Unrecorded
      <3>4. row'[s].hash = row[s].hash
        BY <1>1
      <3>5. \/ /\ phase'[s] \in {"down", "scan"} /\ disk'[s].hash # NoHash
               /\ notices'[s] = <<>> /\ events'[s] = <<>>
            \/ /\ phase'[s] = "up" /\ events'[s] = <<>> /\ Len(notices'[s]) = 1
               /\ Head(notices'[s]) = "deleted" <=> disk'[s].hash = NoHash
               /\ Head(notices'[s]) = "modified" => row'[s].hash # NoHash
            \/ /\ phase'[s] = "up" /\ notices'[s] = <<>> /\ Len(events'[s]) = 1
               /\ Head(events'[s]).hash = disk'[s].hash
               /\ Head(events'[s]).act = "modify" => row'[s].hash # NoHash
        BY <1>7, <3>1, <3>4 DEF Unrecorded
      <3> QED BY <3>2, <3>3, <3>5 DEF Unrecorded, Exists
    <2> QED BY <2>1, <2>2
  <1>8. ASSUME Spreading(s) PROVE Spreading(s)'
    <2>1. ASSUME NEW m \in msgs PROVE CalmMsg(m, s)'
      <3>1. CalmMsg(m, s) /\ (m.type = "meta" => m.from \in Peer /\ m.to \in Peer)
        BY <1>8 DEF Spreading, SyncInv, GoodMsg
      <3>2. SameVersion(m.row, row[s]) => SameVersion(m.row, row'[s])
        BY <1>1 DEF SameVersion
      <3>3. m.type = "meta" => /\ SameVersion(m.row, row[m.from]) => SameVersion(m.row, row'[m.from])
                               /\ SameVersion(row[m.from], row[s]) => SameVersion(row'[m.from], row'[s])
        BY <1>1, <3>1 DEF SameVersion
      <3> QED BY <1>1, <1>2, <3>1, <3>2, <3>3 DEF CalmMsg
    <2>2. ASSUME NEW p \in Peer \ {s} PROVE Follower(p, s)'
      <3>1. Follower(p, s)
        BY <1>8 DEF Spreading
      <3>2. NothingToDo(p)' \/ (Linked(p, s)' /\ SameVersion(row'[p], row'[s]) /\ Exists(row'[p]))
        BY <1>1, <1>3, <1>6, <3>1 DEF Follower, SameVersion
      <3>3. TasksFollow(p, s)' /\ JobsFollow(p, s)' /\ NoticesFollow(p, s)' /\ EventsFollow(p, s)'
        BY <1>1, <1>6, <3>1 DEF Follower, TasksFollow, JobsFollow, NoticesFollow, EventsFollow
      <3>4. /\ disk'[p].hash = row'[p].hash \/ Tasks(p)' # {} \/ jobs'[p] # {}
            /\ pending'[p] # {} => Asked(p)'
            /\ notices'[p] # <<>> \/ events'[p] # <<>> => disk'[p].hash = row'[p].hash
        BY <1>1, <1>6, <3>1 DEF Follower
      <3> QED BY <3>2, <3>3, <3>4, FollowerIs
    <2> QED BY <1>1, <1>2, <1>6, <1>8, <2>1, <2>2 DEF Spreading
  <1>9. ASSUME NEW p \in Peer PROVE UpToDate(p, s)'
    <2>1. UpToDate(p, s)
      BY DEF Calm
    <2> QED BY <1>1, <1>3, <1>6, <2>1 DEF UpToDate
  <1> QED BY <1>4, <1>5, <1>7, <1>8, <1>9 DEF CalmInv, Calm

LEMMA Apart ==
  ASSUME Orderly, NEW p \in Peer, phase[p] # "up"
  PROVE  \A q \in Peer : ~Linked(p, q) /\ ~Linked(q, p)
  BY LinkedSym DEF Orderly

(* Where no application is connected the row describes the file, but for a change
   that is not recorded yet.                                                 *)
LEMMA AtRest ==
  ASSUME Orderly, NEW s \in Peer, Calm(s), NEW p \in Peer, phase[p] # "up"
  PROVE  /\ (p = s /\ Unrecorded(s) /\ phase[p] \in {"down", "scan"} /\ disk[s].hash # NoHash)
              \/ disk[p].hash = row[p].hash
         /\ p = s /\ phase[p] \notin {"down", "scan"} => Spreading(s)
  <1>1. CASE Unrecorded(s)
    BY <1>1 DEF Unrecorded
  <1>2. CASE Spreading(s)
    <2>1. CASE p = s
      BY <1>2, <2>1 DEF Spreading
    <2>2. CASE p # s
      <3>1. Follower(p, s) /\ ~Linked(p, s)
        BY <1>2, <2>2, Apart DEF Spreading
      <3>2. Tasks(p) = {} /\ jobs[p] = {}
        BY <3>1 DEF Follower, NothingToDo
      <3> QED BY <2>2, <3>1, <3>2 DEF Follower
    <2> QED BY <2>1, <2>2
  <1> QED BY <1>1, <1>2 DEF Calm

(* What a scan makes of a row that describes the file.                          *)
LEMMA ScanStamps ==
  ASSUME History, NEW r \in Row, RecordedRow(r), NEW t \in Nat
  PROVE  /\ r.hash = NoHash => ScannedRow(r, NoHash, 0) = r
         /\ r.hash # NoHash => ScannedRow(r, r.hash, t) = [r EXCEPT !.ts = Millis(t)] /\ Exists(r)
  <1>1. r.hash # NoHash => r # NoRow
    BY SMTT(30) DEF NoRow
  <1>2. r.hash # NoHash => Exists(r) /\ ~r.del
    BY <1>1, RowsAgree, RecordedIs
  <1>3. r.hash = NoHash => ~(Exists(r) /\ ~r.del)
    BY RecordedIs
  <1> QED BY <1>2, <1>3 DEF ScannedRow

LEMMA CalmPhase ==
  ASSUME SyncInv, Shape, History, Orderly, NEW s \in Peer, Calm(s), NEW p \in Peer,
         Start(p) \/ ScanWalk(p) \/ ScanSweep(p) \/ StartDaemon(p),
         ScanWalk(p) /\ p = s => ~Unrecorded(s)
  PROVE  CalmInv'
  <1> USE DEF daemonVars, dbVars, downloadVars, netVars
  <1>1. /\ UNCHANGED <<disk, notices, events, jobs, queue, pending, timers, links, open, spent, warned>>
        /\ phase[p] # "up" /\ Now' = Now /\ spent'.faults = spent.faults
    BY DEF Start, ScanWalk, ScanSweep, StartDaemon, Now
  <1>2. /\ row[p] \in Row /\ RecordedRow(row[p]) /\ disk[p].ts \in Nat /\ phase \in [Peer -> Phases]
        /\ row \in [Peer -> Row] /\ disk[p].ts \in Nat
    BY PeerFacts DEF History, SyncInv, Shape
  <1>3. ASSUME NEW ph, phase' = [phase EXCEPT ![p] = ph], ph = "unseen" => disk[p].hash = NoHash,
               UNCHANGED <<written, msgs>>, \A q \in Peer : Restamped(q),
               Spreading(s) \/ p # s \/ {phase[p], ph} \subseteq {"down", "scan"}
        PROVE  CalmInv'
    <2>1. phase'[p] = ph /\ \A q \in Peer \ {p} : phase'[q] = phase[q]
      BY <1>2, <1>3
    <2>2. \A x, y \in Peer : Linked(x, y)' => phase'[x] = "up"
      <3>1. \A x, y \in Peer : Linked(x, y)' => Linked(x, y) /\ x # p /\ phase[x] = "up"
        BY <1>1, Apart DEF Linked, Orderly
      <3> QED BY <2>1, <3>1
    <2>3. \A x \in Peer : phase'[x] = "unseen" => disk[x].hash = NoHash
      BY <1>3, <2>1 DEF Orderly
    <2>4. phase'[s] = phase[s] \/ {phase[s], phase'[s]} \subseteq {"down", "scan"} \/ Spreading(s)
      BY <1>3, <2>1
    <2>5. links' \subseteq links
      BY <1>1
    <2> QED BY <1>1, <1>3, <2>2, <2>3, <2>4, <2>5, Settled
  <1>4. row' = row => \A q \in Peer : Restamped(q)
    BY DEF Restamped
  <1>5. CASE Start(p)
    <2>1. phase[p] = "down" /\ phase' = [phase EXCEPT ![p] = "scan"] /\ UNCHANGED <<row, written, msgs>>
      BY <1>5 DEF Start
    <2> QED BY <1>3, <1>4, <2>1
  <1>6. CASE StartDaemon(p)
    <2>1. phase[p] = "scanned" /\ phase' = [phase EXCEPT ![p] = "up"] /\ UNCHANGED <<row, written, msgs>>
      BY <1>6 DEF StartDaemon
    <2>2. p = s => Spreading(s)
      BY <1>1, <2>1, AtRest
    <2> QED BY <1>3, <1>4, <2>1, <2>2
  <1>7. CASE ScanSweep(p)
    <2>1. phase[p] \in {"seen", "unseen"} /\ phase' = [phase EXCEPT ![p] = "scanned"]
      BY <1>7 DEF ScanSweep
    <2>2. (p = s => Spreading(s)) /\ disk[p].hash = row[p].hash
      BY <1>1, <2>1, AtRest
    <2>3. UNCHANGED <<row, written, msgs>>
      <3>1. CASE phase[p] = "unseen" /\ ~fresh[p]
        <4>1. row[p].hash = NoHash /\ Scanned(p, NoHash, 0)
          BY <1>7, <2>2, <3>1 DEF ScanSweep, Orderly
        <4>2. ScannedRow(row[p], NoHash, 0) = row[p]
          BY <1>2, <4>1, ScanStamps
        <4> QED BY <4>1, <4>2 DEF Scanned
      <3>2. CASE ~(phase[p] = "unseen" /\ ~fresh[p])
        BY <1>7, <3>2 DEF ScanSweep
      <3> QED BY <3>1, <3>2
    <2> QED BY <1>3, <1>4, <2>1, <2>2, <2>3
  <1>8. CASE ScanWalk(p)
    <2>1. phase[p] = "scan"
      BY <1>8 DEF ScanWalk
    <2>2. disk[p].hash = row[p].hash /\ (p = s => Spreading(s))
      BY <1>1, <1>8, <2>1, AtRest DEF Calm
    <2>3. CASE disk[p].hash = NoHash
      <3>1. phase' = [phase EXCEPT ![p] = "unseen"] /\ UNCHANGED <<row, written, msgs>>
        BY <1>8, <2>3 DEF ScanWalk
      <3> QED BY <1>3, <1>4, <2>2, <2>3, <3>1
    <2>4. CASE disk[p].hash # NoHash
      <3>1. phase' = [phase EXCEPT ![p] = "seen"] /\ Scanned(p, disk[p].hash, disk[p].ts)
        BY <1>8, <2>4 DEF ScanWalk
      <3>2. PICK new : new = ScannedRow(row[p], disk[p].hash, disk[p].ts)
        OBVIOUS
      <3>3. new = [row[p] EXCEPT !.ts = Millis(disk[p].ts)] /\ Exists(row[p])
        BY <1>2, <2>2, <2>4, <3>2, ScanStamps
      <3>4. new.hash = row[p].hash /\ new.ver = row[p].ver /\ new.del = row[p].del
        BY <1>2, <3>3 DEF Row
      <3>5. row' = row \/ row' = [row EXCEPT ![p] = new]
        BY <3>1, <3>2 DEF Scanned, Save
      <3>6. UNCHANGED <<written, msgs>>
        BY <3>1, <3>2, <3>4 DEF Scanned
      <3>7. ASSUME NEW q \in Peer PROVE Restamped(q)
        <4>1. row'[q] = row[q] \/ (q = p /\ row'[p] = new)
          BY <1>2, <3>5
        <4> QED BY <3>3, <3>4, <4>1 DEF Restamped
      <3> QED BY <1>3, <2>2, <3>1, <3>6, <3>7
    <2> QED BY <2>3, <2>4
  <1> QED BY <1>5, <1>6, <1>7, <1>8
=============================================================================
