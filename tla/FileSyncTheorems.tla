---------------------------- MODULE FileSyncTheorems ----------------------------
(***************************************************************************)
(* What holds of FileSync for any peers, contents and bounds: the types of *)
(* its variables and, if users and operators wait until everything has     *)
(* settled, that the peers agree.                                          *)
(***************************************************************************)
EXTENDS FileSyncProofs, FileSyncCalmProofs

USE ZenonT(30)

-----------------------------------------------------------------------------
(* When nothing is under way.                                                 *)
Settles(p) == Newest(row[p]) \/ \E q \in Peer : Newest(row[q]) /\ ~Linked(p, q)
Shared == IF First = NoHash THEN 0 ELSE 1

Counted ==
  /\ Cardinality(written) \in Nat
  /\ \A w : /\ IsFiniteSet(written \cup {w})
            /\ w \notin written => Cardinality(written \cup {w}) = Cardinality(written) + 1

LEMMA Counting ==
  ASSUME NEW n \in Nat, NEW t \in Nat
  PROVE  /\ Shared \in Nat
         /\ n < t + Shared => n <= t + Shared /\ n + 1 <= t + Shared
         /\ n <= t + Shared => n < (t + 1) + Shared
  BY SMTT(30) DEF Shared

LEMMA IdleFacts ==
  ASSUME SyncInv, Orderly, Counted, NEW s \in Peer, Calm(s), Idle
  PROVE  /\ msgs = {} /\ open = {} /\ \A p \in Peer : NothingToDo(p) /\ Settles(p)
         /\ Unrecorded(s) => phase[s] \in {"down", "scan"} /\ disk[s].hash # NoHash
         /\ Spreading(s) => \A p \in Peer : disk[p].hash = row[p].hash
         /\ Cardinality(written) <= Now + Shared
  <1>1. /\ msgs = {} /\ open = {}
        /\ \A p \in Peer : notices[p] = <<>> /\ events[p] = <<>> /\ queue[p] = {} /\ timers[p] = {} /\ jobs[p] = {}
    BY DEF Idle
  <1>2. \A p : ~Asked(p) /\ ~Told(p, s)
    BY <1>1 DEF Asked, Told
  <1>3. \A p \in Peer : Settles(p)
    BY <1>2 DEF Calm, UpToDate, Settles
  <1>4. CASE Unrecorded(s)
    <2>1. \A p \in Peer : NothingToDo(p)
      BY <1>1, <1>4 DEF Unrecorded, NothingToDo
    <2>2. Len(notices[s]) # 1 /\ Len(events[s]) # 1
      BY <1>1, SMTT(30)
    <2>3. phase[s] \in {"down", "scan"} /\ disk[s].hash # NoHash
      BY <1>4, <2>2 DEF Unrecorded
    <2>4. Cardinality(written) <= Now + Shared
      <3>1. Now \in Nat /\ Cardinality(written) \in Nat /\ Cardinality(written) < Now + Shared
        BY <1>4 DEF Unrecorded, Shared, SyncInv, Now, Counted
      <3> QED BY <3>1, Counting
    <2>5. Spreading(s) => \A p \in Peer : disk[p].hash = row[p].hash
      BY <1>4 DEF Unrecorded, Spreading
    <2> QED BY <1>1, <1>3, <2>1, <2>3, <2>4, <2>5
  <1>5. CASE Spreading(s)
    <2>1. \A p \in Peer \ {s} : pending[p] = {} /\ Follower(p, s)
      BY <1>2, <1>5 DEF Spreading, Follower
    <2>2. \A p \in Peer : NothingToDo(p)
      <3>1. \A p \in Peer \ {s} : Tasks(p) = {}
        BY <1>1, <2>1 DEF Tasks
      <3> QED BY <1>1, <1>5, <3>1 DEF Spreading, NothingToDo
    <2>3. \A p \in Peer : disk[p].hash = row[p].hash
      BY <1>5, <2>1, <2>2 DEF Spreading, Follower, NothingToDo
    <2>4. Unrecorded(s) => phase[s] \in {"down", "scan"} /\ disk[s].hash # NoHash
      <3>1. Len(notices[s]) # 1 /\ Len(events[s]) # 1
        BY <1>1, SMTT(30)
      <3> QED BY <3>1 DEF Unrecorded
    <2> QED BY <1>1, <1>3, <1>5, <2>2, <2>3, <2>4 DEF Spreading, Shared
  <1> QED BY <1>4, <1>5 DEF Calm

LEMMA CalmEnvironment ==
  ASSUME SyncInv, Shape, History, Orderly, Counted, NEW s \in Peer, Calm(s), Idle, Environment
  PROVE  CalmInv'
  <1> USE DEF daemonVars, dbVars, downloadVars, netVars, procVars
  <1>1. /\ msgs = {} /\ open = {} /\ \A p \in Peer : NothingToDo(p)
        /\ Unrecorded(s) => phase[s] \in {"down", "scan"}
    BY IdleFacts
  <1>2. \A p \in Peer : /\ notices[p] = <<>> /\ events[p] = <<>> /\ queue[p] = {} /\ pending[p] = {}
                        /\ timers[p] = {} /\ jobs[p] = {}
    BY <1>1 DEF NothingToDo, Tasks
  <1>3. \A q \in Peer : row' = row => Restamped(q)
    BY DEF Restamped
  <1>4. ASSUME NEW p \in Peer, Stop(p) PROVE CalmInv'
    <2>1. /\ phase' = [phase EXCEPT ![p] = "down"] /\ links' = {e \in links : p \notin e}
          /\ UNCHANGED <<disk, row, written, warned>> /\ Spend("crashes")
      BY <1>4 DEF Stop
    <2>2. msgs' = msgs /\ open' = open
      BY <1>1, <1>4 DEF Stop
    <2>3. notices' = notices /\ events' = events /\ jobs' = jobs
      BY <1>2, <1>4 DEF Stop, Shape, SyncInv
    <2>4. queue' = queue /\ pending' = pending /\ timers' = timers
      BY <1>2, <1>4 DEF Stop, SyncInv
    <2>5. Now' = Now /\ spent'.faults = spent.faults
      BY <2>1 DEF Spend, SyncInv, Now
    <2>6. phase'[p] = "down" /\ \A q \in Peer \ {p} : phase'[q] = phase[q]
      BY <2>1 DEF Shape
    <2>7. links' \subseteq links /\ \A x, y : Linked(x, y)' => Linked(x, y) /\ x # p
      BY <2>1 DEF Linked
    <2>8. /\ \A x, y \in Peer : Linked(x, y)' => phase'[x] = "up"
          /\ \A x \in Peer : phase'[x] = "unseen" => disk[x].hash = NoHash
      BY <2>6, <2>7 DEF Orderly
    <2>9. phase'[s] = phase[s] \/ {phase[s], phase'[s]} \subseteq {"down", "scan"} \/ Spreading(s)
      BY <1>1, <2>6 DEF Calm
    <2> QED BY <1>1, <1>3, <2>1, <2>2, <2>3, <2>4, <2>5, <2>7, <2>8, <2>9, Settled
  <1>5. ASSUME NEW p \in Peer, NEW q \in Peer, Disconnect(p, q) PROVE CalmInv'
    <2>1. /\ UNCHANGED <<disk, notices, events, jobs, row, written, queue, pending, timers, phase, open, warned>>
          /\ links' \subseteq links /\ Spend("drops")
      BY <1>5 DEF Disconnect
    <2>2. msgs' = msgs
      BY <1>1, <1>5 DEF Disconnect
    <2>3. Now' = Now /\ spent'.faults = spent.faults
      BY <2>1 DEF Spend, SyncInv, Now
    <2>4. \A x, y : Linked(x, y)' => Linked(x, y)
      BY <2>1 DEF Linked
    <2>5. /\ \A x, y \in Peer : Linked(x, y)' => phase'[x] = "up"
          /\ \A x \in Peer : phase'[x] = "unseen" => disk[x].hash = NoHash
      BY <2>1, <2>4 DEF Orderly
    <2> QED BY <1>1, <1>3, <2>1, <2>2, <2>3, <2>5, Settled
  <1>6. ASSUME NEW p \in Peer, NEW q \in Peer, HandleConflictResolution(p, q) PROVE FALSE
    BY <1>6 DEF HandleConflictResolution, Orderly
  <1> QED BY <1>4, <1>5, <1>6 DEF Environment

(* A user changes the file at the peer that has the latest version.               *)
LEMMA CalmChange ==
  ASSUME SyncInv, Shape, History, Orderly, Counted, msgs = {}, NEW p \in Peer, Newest(row[p]),
         \A x \in Peer : NothingToDo(x) /\ Settles(x),
         \A x \in Peer \ {p} : disk[x].hash = row[x].hash,
         Cardinality(written) <= Now + Shared,
         NEW h \in New, NEW n \in Notice, Touch(p, [hash |-> h, ts |-> spent.edits + 1], n), Spend("edits"),
         UNCHANGED <<events, jobs, row, written, queue, pending, timers, msgs, links, phase, open, warned>>,
         (phase[p] = "down" /\ h # NoHash) \/ (phase[p] = "up" /\ disk[p].hash = row[p].hash),
         n = "deleted" <=> h = NoHash, n = "modified" => disk[p].hash # NoHash
  PROVE  CalmInv'
  <1>1. Now' = Now + 1 /\ Now \in Nat
    BY DEF Spend, SyncInv, Now
  <1>2. /\ disk' = [disk EXCEPT ![p] = [hash |-> h, ts |-> Now + 1]]
        /\ disk'[p].hash = h /\ disk'[p].ts = Now + 1 /\ \A x \in Peer \ {p} : disk'[x] = disk[x]
    <2>1. disk' = [disk EXCEPT ![p] = [hash |-> h, ts |-> Now + 1]]
      BY DEF Touch, Now
    <2>2. disk \in [Peer -> File]
      BY DEF SyncInv
    <2> QED BY <2>1, <2>2
  <1>3. \A x \in Peer \ {p} : disk'[x].ts < disk'[p].ts
    <2>1. \A x \in Peer : disk[x].ts \in Nat /\ disk[x].ts <= Now
      BY PeerFacts
    <2> QED BY <1>1, <1>2, <2>1, SMTT(30)
  <1>4. h \in Hash /\ h \notin Recorded /\ \A x \in Peer : disk[x].hash # h
    BY DEF New, Recorded
  <1>5. \A x \in Peer : notices[x] = <<>> /\ events[x] = <<>> /\ jobs[x] = {} /\ Tasks(x) = {}
    BY DEF NothingToDo
  <1>6. \A x : Tasks(x)' = Tasks(x)
    BY DEF Tasks
  <1>7. Recorded' = Recorded /\ (\A r : RecordedRow(r)' = RecordedRow(r)) /\ (\A r : Newest(r)' = Newest(r))
        /\ (\A x, y : Linked(x, y)' = Linked(x, y))
    BY DEF Recorded, RecordedRow, Newest, Linked
  <1>8. h = NoHash => \A x \in Peer : Exists(row[x])
    <2> SUFFICES ASSUME h = NoHash, NEW x \in Peer PROVE Exists(row[x])
      OBVIOUS
    <2>1. row[x].hash # NoHash
      BY <1>4
    <2>2. row[x] # NoRow
      BY <2>1, NoRowFacts
    <2> QED BY <2>2, RowsAgree, PeerFacts DEF History
  <1>9. Cardinality(written)' < Now' + (IF First = NoHash THEN 0 ELSE 1)
    BY <1>1, Counting DEF Counted, Shared
  <1>10. \A x \in Peer \ {p} : notices'[x] = <<>>
    BY <1>5 DEF Touch, Shape
  <1>11. \/ phase[p] = "down" /\ h # NoHash /\ notices' = notices
         \/ /\ phase[p] = "up" /\ Len(notices'[p]) = 1 /\ Head(notices'[p]) = n
            /\ n = "modified" => row[p].hash # NoHash
    <2>1. CASE phase[p] = "down" /\ h # NoHash
      BY <2>1 DEF Touch
    <2>2. CASE phase[p] = "up" /\ disk[p].hash = row[p].hash
      <3>1. notices'[p] = Append(<<>>, n)
        BY <1>5, <2>2 DEF Touch, Shape
      <3> QED BY <2>2, <3>1, OneNotice
    <2> QED BY <2>1, <2>2
  <1>12. Unrecorded(p)'
    <2>1. \/ /\ phase'[p] \in {"down", "scan"} /\ disk'[p].hash # NoHash /\ notices'[p] = <<>> /\ events'[p] = <<>>
          \/ /\ phase'[p] = "up" /\ events'[p] = <<>> /\ Len(notices'[p]) = 1
             /\ Head(notices'[p]) = "deleted" <=> disk'[p].hash = NoHash
             /\ Head(notices'[p]) = "modified" => row'[p].hash # NoHash
      BY <1>2, <1>5, <1>11
    <2>2. /\ disk'[p].hash \notin Recorded' /\ (disk'[p].hash = NoHash => \A x \in Peer : Exists(row'[x]))
          /\ msgs' = {} /\ \A x \in Peer : Tasks(x)' = {} /\ jobs'[x] = {}
      <3>1. disk'[p].hash \notin Recorded'
        <4>1. disk'[p].hash = h /\ Recorded' = Recorded /\ h \notin Recorded
          BY <1>2, <1>4, <1>7
        <4> QED BY <4>1
      <3>2. disk'[p].hash = NoHash => \A x \in Peer : Exists(row'[x])
        BY <1>2, <1>8
      <3>3. msgs' = {} /\ \A x \in Peer : Tasks(x)' = {} /\ jobs'[x] = {}
        BY <1>5, <1>6
      <3> QED BY <3>1, <3>2, <3>3
    <2>4. Newest(row[p])'
      BY DEF Newest
    <2>3. \A x \in Peer \ {p} : /\ notices'[x] = <<>> /\ events'[x] = <<>>
                                /\ disk'[x].hash = row'[x].hash /\ disk'[x].ts < disk'[p].ts
      BY <1>2, <1>3, <1>5, <1>10
    <2> QED BY <1>9, <2>1, <2>2, <2>3, <2>4 DEF Unrecorded, Exists
  <1>13. \A x \in Peer : UpToDate(x, p)'
    BY <1>7 DEF Settles, UpToDate
  <1>14. History'
    BY <1>7 DEF History, RecordedRow
  <1>15. Orderly'
    <2>1. \A x \in Peer : phase'[x] = "unseen" => disk'[x].hash = NoHash
      BY <1>2 DEF Orderly
    <2> QED BY <1>7, <2>1 DEF Orderly
  <1> QED BY <1>12, <1>13, <1>14, <1>15 DEF CalmInv

(* Who may change the file has the latest version.                               *)
LEMMA TurnIsNewest ==
  ASSUME SyncInv, Shape, History, NEW p \in Peer, Turn(p), \A x \in Peer : disk[x].hash = row[x].hash /\ Settles(x)
  PROVE  Newest(row[p])
  <1>1. PICK q \in Peer : Newest(row[q])
    BY DEF Settles
  <1>2. /\ row[p] \in Row /\ row[q] \in Row /\ RecordedRow(row[p]) /\ RecordedRow(row[q])
        /\ row[p].ver \in Nat /\ row[q].ver \in Nat
    BY PeerFacts DEF History
  <1>3. CASE row[q].ver <= row[p].ver
    BY <1>1, <1>2, <1>3, SMTT(30) DEF Newest, History
  <1>4. CASE InSync
    <2>1. row[p].hash = row[q].hash
      BY <1>4 DEF InSync
    <2>2. CASE Exists(row[q])
      <3>1. SameVersion(row[p], row[q])
        BY <1>2, <2>1, <2>2, SameHash
      <3> QED BY <1>1, <1>2, <3>1, RowsAgree
    <2>3. CASE ~Exists(row[q])
      <3>1. \A w \in written : w[2] \in Nat /\ w[2] # 0 /\ w[2] <= row[q].ver
        BY <1>1 DEF Newest, History
      <3>2. row[q].ver = 0
        BY <1>2, <2>3, SMTT(30) DEF Exists
      <3>3. \A w \in written : FALSE
        BY <3>1, <3>2, SMTT(30)
      <3> QED BY <3>3 DEF Newest
    <2> QED BY <2>2, <2>3
  <1> QED BY <1>3, <1>4 DEF Turn

LEMMA CalmUserStep ==
  ASSUME SyncInv, Shape, History, Orderly, Counted, NEW s \in Peer, Calm(s), Idle, CalmUser
  PROVE  CalmInv'
  <1> USE DEF dbVars, downloadVars, netVars, procVars
  <1>1. /\ msgs = {} /\ \A x \in Peer : NothingToDo(x) /\ Settles(x)
        /\ Unrecorded(s) => phase[s] \in {"down", "scan"} /\ disk[s].hash # NoHash
        /\ Spreading(s) => \A x \in Peer : disk[x].hash = row[x].hash
        /\ Cardinality(written) <= Now + Shared
    BY IdleFacts
  <1>2. PICK p \in Peer :
          /\ Turn(p) /\ phase[p] \in {"down", "up"}
          /\ (phase[p] = "up" /\ NoHash \in New /\ UserDelete(p)) \/ \E h \in Content \cap New : UserWrite(p, h)
    BY DEF CalmUser
  <1>3. /\ Newest(row[p]) /\ \A x \in Peer \ {p} : disk[x].hash = row[x].hash
        /\ phase[p] = "up" => disk[p].hash = row[p].hash
    <2>1. CASE Spreading(s)
      BY <1>1, <1>2, <2>1, TurnIsNewest
    <2>2. CASE Unrecorded(s)
      <3>1. p = s
        <4> SUFFICES ASSUME p # s PROVE FALSE
          OBVIOUS
        <4>1. disk[p].hash = row[p].hash /\ disk[p].ts < disk[s].ts /\ disk[s].hash \notin Recorded
          BY <2>2 DEF Unrecorded
        <4>2. CASE InSync
          <5>1. row[p].hash = disk[s].hash /\ row[p].hash # NoHash
            BY <1>1, <2>2, <4>1, <4>2 DEF InSync
          <5>2. row[p] # NoRow
            BY <5>1, SMTT(30) DEF NoRow
          <5>3. row[p].hash \in Recorded
            BY <5>2, RowsAgree, PeerFacts DEF History
          <5> QED BY <4>1, <5>1, <5>3
        <4>3. CASE disk[s].ts <= disk[p].ts
          <5>1. disk[s].ts \in Nat /\ disk[p].ts \in Nat
            BY PeerFacts
          <5> QED BY <4>1, <4>3, <5>1, SMTT(30)
        <4> QED BY <1>2, <4>2, <4>3 DEF Turn
      <3> QED BY <1>1, <1>2, <2>2, <3>1 DEF Unrecorded
    <2> QED BY <2>1, <2>2 DEF Calm
  <1>4. CASE phase[p] = "up" /\ NoHash \in New /\ UserDelete(p)
    <2>1. /\ Touch(p, [hash |-> NoHash, ts |-> spent.edits + 1], "deleted") /\ Spend("edits")
          /\ UNCHANGED <<events, jobs, row, written, queue, pending, timers, msgs, links, phase, open, warned>>
      BY <1>4 DEF UserDelete
    <2>2. "deleted" \in Notice /\ "deleted" # "modified"
      BY DEF Notice
    <2> QED BY <1>1, <1>3, <1>4, <2>1, <2>2, CalmChange
  <1>5. ASSUME NEW h \in Content \cap New, UserWrite(p, h) PROVE CalmInv'
    <2>1. /\ Touch(p, [hash |-> h, ts |-> spent.edits + 1], Written(p)) /\ Spend("edits")
          /\ UNCHANGED <<events, jobs, row, written, queue, pending, timers, msgs, links, phase, open, warned>>
      BY <1>5 DEF UserWrite
    <2>2. h # NoHash /\ h \in New
      BY HashAssumption
    <2>3. Written(p) \in Notice /\ Written(p) # "deleted" /\ (Written(p) = "modified" => disk[p].hash # NoHash)
      BY DEF Written, Notice
    <2> QED BY <1>1, <1>2, <1>3, <2>1, <2>2, <2>3, CalmChange
  <1> QED BY <1>2, <1>4, <1>5

-----------------------------------------------------------------------------
(* A change of a user is recorded: from now on it spreads.                        *)
LEMMA RecordHistory ==
  ASSUME SyncInv, SyncInv', History, Counted, NEW s \in Peer, Newest(row[s]), NEW new \in Row,
         new.hash \notin Recorded, new.hash = NoHash => \A p \in Peer : Exists(row[p]),
         new.ver = row[s].ver + 1, new.del <=> new.hash = NoHash,
         row' = [row EXCEPT ![s] = new], written' = written \cup {<<new.hash, new.ver>>}
  PROVE  /\ History' /\ Recorded' = Recorded \cup {new.hash} /\ Newest(new)' /\ RecordedRow(new)' /\ Exists(new)
         /\ Cardinality(written') = Cardinality(written) + 1
  <1>1. PICK w : w = <<new.hash, new.ver>>
    OBVIOUS
  <1>2. w[1] = new.hash /\ w[2] = new.ver /\ new.ver \in Nat \ {0} /\ row[s].ver \in Nat
    <2>1. row[s] \in Row
      BY DEF SyncInv
    <2>2. row[s].ver \in Nat
      BY <2>1 DEF Row
    <2> QED BY <1>1, <2>2, SMTT(30)
  <1>3. \A v \in written : v[1] # new.hash /\ v[2] \in Nat /\ v[2] <= row[s].ver
    BY DEF Recorded, Newest, History
  <1>4. written' = written \cup {w}
    BY <1>1
  <1>5. w \notin written
    BY <1>2, <1>3
  <1>6. IsFiniteSet(written') /\ Cardinality(written') = Cardinality(written) + 1
    BY <1>4, <1>5 DEF Counted
  <1>7. Recorded' = Recorded \cup {new.hash}
    BY <1>2, <1>4 DEF Recorded
  <1>8. Newest(new)' /\ Exists(new)
    <2>1. \A v \in written' : v[2] <= new.ver
      BY <1>2, <1>3, <1>4, SMTT(30)
    <2> QED BY <1>2, <2>1, SMTT(30) DEF Newest, Exists
  <1>9. written' \subseteq Hash \X (Nat \ {0})
    BY <1>1, <1>2, <1>4 DEF History, Row
  <1>10. \A u, v \in written' : u[1] = v[1] <=> u[2] = v[2]
    <2>1. \A v \in written : v[1] # w[1] /\ v[2] # w[2]
      BY <1>2, <1>3, SMTT(30)
    <2> QED BY <1>4, <2>1 DEF History
  <1>11. RecordedRow(new)'
    BY <1>1, <1>4, <1>8 DEF RecordedRow
  <1>12. row'[s] = new /\ \A p \in Peer \ {s} : row'[p] = row[p]
    BY DEF SyncInv
  <1>13. \A p \in Peer : RecordedRow(row[p])'
    <2>1. \A r : RecordedRow(r) => RecordedRow(r)'
      BY <1>4 DEF RecordedRow
    <2>2. ASSUME NEW p \in Peer \ {s} PROVE RecordedRow(row[p])'
      BY <1>4, <1>12 DEF RecordedRow, History
    <2>3. RecordedRow(row[s])'
      BY <1>11, <1>12 DEF RecordedRow
    <2> QED BY <2>2, <2>3
  <1>14. NoHash \in Recorded' => \A p \in Peer : Exists(row'[p])
    BY <1>7, <1>8, <1>12 DEF History
  <1> QED BY <1>6, <1>7, <1>8, <1>9, <1>10, <1>11, <1>13, <1>14 DEF History, Exists

LEMMA RestFollows ==
  ASSUME NEW p, NEW s, NothingToDo(p)', disk'[p].hash = row'[p].hash
  PROVE  Follower(p, s)'
  <1>1. notices'[p] = <<>> /\ events'[p] = <<>> /\ Tasks(p)' = {} /\ jobs'[p] = {}
    BY DEF NothingToDo
  <1>2. DOMAIN notices'[p] = {} /\ DOMAIN events'[p] = {} /\ pending'[p] = {}
    BY <1>1, SMTT(30) DEF Tasks
  <1>3. TasksFollow(p, s)' /\ JobsFollow(p, s)' /\ NoticesFollow(p, s)' /\ EventsFollow(p, s)'
    BY <1>1, <1>2 DEF TasksFollow, JobsFollow, NoticesFollow, EventsFollow
  <1> QED BY <1>2, <1>3, FollowerIs

LEMMA Records ==
  ASSUME SyncInv, SyncInv', Shape, History, Orderly, Counted, NEW s \in Peer, Unrecorded(s), NEW new \in Row,
         new.hash = disk[s].hash, new.ver = row[s].ver + 1, new.del <=> new.hash = NoHash,
         row' = [row EXCEPT ![s] = new], written' = written \cup {<<new.hash, new.ver>>},
         msgs' = msgs \cup Broadcast(s, new),
         UNCHANGED <<disk, jobs, queue, pending, timers, links, open, spent, warned>>,
         \A p \in Peer : notices'[p] = <<>> /\ events'[p] = <<>>,
         \A p, q \in Peer : Linked(p, q) => phase'[p] = "up",
         \A p \in Peer : phase'[p] = "unseen" => disk[p].hash = NoHash
  PROVE  CalmInv'
  <1>1. /\ History' /\ Recorded' = Recorded \cup {new.hash} /\ Newest(new)' /\ RecordedRow(new)' /\ Exists(new)
        /\ Cardinality(written') = Cardinality(written) + 1
    BY RecordHistory DEF Unrecorded
  <1>2. row'[s] = new /\ \A p \in Peer \ {s} : row'[p] = row[p]
    BY DEF SyncInv
  <1>3. \A x, y : Linked(x, y)' <=> Linked(x, y)
    BY DEF Linked
  <1>4. Orderly'
    BY <1>3 DEF Orderly
  <1>5. \A p \in Peer : NothingToDo(p)' /\ Tasks(p)' = {} /\ jobs'[p] = {} /\ pending'[p] = {}
    <2>1. \A p \in Peer : Tasks(p)' = {} /\ jobs'[p] = {} /\ pending'[p] = {}
      BY DEF Unrecorded, Tasks
    <2> QED BY <2>1 DEF NothingToDo
  <1>6. \A p \in Peer \ {s} : disk'[p].hash = row'[p].hash
    BY <1>2 DEF Unrecorded
  <1>7. ASSUME NEW m \in msgs'
        PROVE  /\ CalmMsg(m, s)' /\ m.type = "meta" /\ m.from = s
               /\ m.to \in Peer /\ Linked(s, m.to)
    <2>1. m \in Broadcast(s, new)
      BY <1>7 DEF Unrecorded
    <2>2. PICK q \in Peer : Linked(s, q) /\ m = Meta(s, q, new)
      BY <2>1 DEF Broadcast
    <2>3. m.type = "meta" /\ m.from = s /\ m.to = q /\ m.row = new
      BY <2>2 DEF Meta
    <2>4. q # s /\ row'[q] = row[q]
      BY <1>2, <2>2, PeerFacts
    <2>5. row[q].ver <= row[s].ver
      BY RowsAgree, PeerFacts DEF Unrecorded, History
    <2>6. row'[q].ver <= row'[s].ver
      <3>1. row[q].ver \in Nat /\ row[s].ver \in Nat
        BY PeerFacts
      <3> QED BY <1>2, <2>4, <2>5, <3>1, Later
    <2>7. SameVersion(m.row, row'[s]) /\ Exists(m.row) /\ RecordedRow(m.row)'
      BY <1>1, <1>2, <2>3 DEF SameVersion, RecordedRow
    <2> QED BY <2>2, <2>3, <2>6, <2>7 DEF CalmMsg
  <1>8. \A p \in Peer \ {s} : Follower(p, s)'
    BY <1>5, <1>6, RestFollows
  <1>9. Spreading(s)'
    <2>1. Cardinality(written)' <= Now' + (IF First = NoHash THEN 0 ELSE 1)
      <3>1. Now' = Now /\ Now \in Nat /\ Cardinality(written) \in Nat /\ Cardinality(written) < Now + Shared
        BY DEF Now, SyncInv, Counted, Unrecorded, Shared
      <3>2. Cardinality(written) + 1 <= Now + Shared
        BY <3>1, Counting
      <3> QED BY <1>1, <3>1, <3>2 DEF Shared
    <2>2. \A p \in Peer : disk'[p].hash \in Recorded' \cup {NoHash}
      <3> SUFFICES ASSUME NEW p \in Peer, p # s PROVE disk'[p].hash \in Recorded' \cup {NoHash}
        BY <1>1
      <3>1. disk'[p].hash = row[p].hash
        BY <1>2, <1>6
      <3>2. row[p].hash \in Recorded \/ row[p] = NoRow
        BY RowsAgree, PeerFacts DEF History
      <3>3. NoRow.hash = NoHash
        BY DEF NoRow
      <3> QED BY <1>1, <3>1, <3>2, <3>3
    <2>3. disk'[s].hash = row'[s].hash
      BY <1>2
    <2> QED BY <1>5, <1>7, <1>8, <2>1, <2>2, <2>3 DEF Spreading
  <1>10. ASSUME NEW p \in Peer PROVE UpToDate(p, s)'
    <2>1. Newest(row[s])'
      BY <1>1, <1>2 DEF Newest
    <2>2. CASE Linked(p, s)
      <3>1. PICK m : m = Meta(s, p, new)
        OBVIOUS
      <3>2. m \in msgs'
        BY <2>2, <3>1, LinkedSym DEF Broadcast
      <3>3. m.type = "meta" /\ m.from = s /\ m.to = p
        BY <3>1 DEF Meta
      <3> QED BY <2>1, <3>2, <3>3 DEF UpToDate, Told
    <2>3. CASE ~Linked(p, s)
      BY <1>3, <2>1, <2>3 DEF UpToDate
    <2> QED BY <2>2, <2>3
  <1> QED BY <1>1, <1>4, <1>9, <1>10 DEF CalmInv

(* The row that a change makes when it is reported or found by the scan.            *)
LEMMA NewRow ==
  ASSUME SyncInv, History, NEW s \in Peer, NEW h, h \notin Recorded, h \in Content \cup {NoHash}, NEW t \in Nat
  PROVE  /\ \A act : ~Redundant(row[s], h, act)
         /\ h # NoHash => ScannedRow(row[s], h, t) = [hash |-> h, ver |-> row[s].ver + 1, ts |-> Millis(t), del |-> FALSE]
         /\ \A act : (act = "modify" => row[s].hash # NoHash) => NextVersion(row[s], h, act) = row[s].ver + 1
  <1>1. row[s] \in Row /\ RecordedRow(row[s]) /\ GoodRow(row[s])
    BY DEF SyncInv, History
  <1>2. Exists(row[s]) => row[s].hash # h
    BY <1>1, RowsAgree
  <1>3. Exists(row[s]) /\ row[s].hash # NoHash => row[s].hash \in Content
    <2>1. Exists(row[s]) => row[s] # NoRow
      BY NoRowFacts
    <2>2. Exists(row[s]) /\ row[s].hash # NoHash => ~row[s].del
      BY <1>1, RecordedIs
    <2> QED BY <1>1, <2>1, <2>2 DEF GoodRow
  <1>4. Exists(row[s]) /\ row[s].hash # NoHash => ~SizeZero(row[s])
    BY <1>3, HashAssumption DEF SizeZero
  <1>5. \A act : (act = "modify" => row[s].hash # NoHash) => NextVersion(row[s], h, act) = row[s].ver + 1
    BY <1>4 DEF NextVersion
  <1>6. \A act : ~Redundant(row[s], h, act)
    BY <1>2 DEF Redundant
  <1>7. h # NoHash => ScannedRow(row[s], h, t) = [hash |-> h, ver |-> row[s].ver + 1, ts |-> Millis(t), del |-> FALSE]
    BY <1>2 DEF ScannedRow
  <1> QED BY <1>5, <1>6, <1>7

LEMMA CalmScan ==
  ASSUME SyncInv, SyncInv', Shape, History, Orderly, Counted, NEW s \in Peer, Unrecorded(s), ScanWalk(s)
  PROVE  CalmInv'
  <1> USE DEF daemonVars, downloadVars
  <1>1. /\ phase[s] = "scan" /\ disk[s].hash # NoHash /\ notices[s] = <<>> /\ events[s] = <<>>
        /\ disk[s].hash \notin Recorded
    BY DEF ScanWalk, Unrecorded
  <1>2. /\ phase' = [phase EXCEPT ![s] = "seen"] /\ Scanned(s, disk[s].hash, disk[s].ts)
        /\ UNCHANGED <<disk, notices, events, jobs, queue, pending, timers, links, open, spent, warned>>
    BY <1>1 DEF ScanWalk
  <1>3. disk[s].hash \in Content \cup {NoHash} /\ disk[s].ts \in Nat /\ row[s].ver \in Nat
    BY PeerFacts
  <1>4. PICK new : new = [hash |-> disk[s].hash, ver |-> row[s].ver + 1, ts |-> Millis(disk[s].ts), del |-> FALSE]
    OBVIOUS
  <1>5. ScannedRow(row[s], disk[s].hash, disk[s].ts) = new
    <2>1. PICK h, t : h = disk[s].hash /\ t = disk[s].ts
      OBVIOUS
    <2>2. ScannedRow(row[s], h, t) = [hash |-> h, ver |-> row[s].ver + 1, ts |-> Millis(t), del |-> FALSE]
      BY <1>1, <1>3, <2>1, NewRow
    <2> QED BY <1>4, <2>1, <2>2
  <1>6. /\ new \in Row /\ new.hash = disk[s].hash /\ new.ver = row[s].ver + 1 /\ ~new.del
        /\ new.ver # row[s].ver
    BY <1>3, <1>4, SMTT(30) DEF Row, Hash, Millis
  <1>7. /\ row' = [row EXCEPT ![s] = new] /\ written' = written \cup {<<new.hash, new.ver>>}
        /\ msgs' = msgs \cup Broadcast(s, new)
    BY <1>2, <1>5, <1>6 DEF Scanned, Save
  <1>8. /\ \A p, q \in Peer : Linked(p, q) => phase'[p] = "up"
        /\ \A p \in Peer : phase'[p] = "unseen" => disk[p].hash = NoHash
    <2>1. phase'[s] = "seen" /\ \A q \in Peer \ {s} : phase'[q] = phase[q]
      BY <1>2 DEF Shape
    <2>2. \A q \in Peer : ~Linked(s, q)
      BY <1>1, Apart
    <2> QED BY <2>1, <2>2 DEF Orderly
  <1>9. \A p \in Peer : notices'[p] = <<>> /\ events'[p] = <<>>
    BY <1>1, <1>2 DEF Unrecorded
  <1> QED BY <1>1, <1>2, <1>6, <1>7, <1>8, <1>9, Records

LEMMA CalmRecord ==
  ASSUME SyncInv, SyncInv', Shape, History, Orderly, Counted, NEW s \in Peer, Unrecorded(s),
         NEW p \in Peer, HandleLocalFileChanged(p)
  PROVE  CalmInv'
  <1> USE DEF downloadVars
  <1>1. /\ events[p] # <<>> /\ events' = [events EXCEPT ![p] = Tail(events[p])]
        /\ LocalChange(p, Head(events[p]), row[p])
        /\ UNCHANGED <<disk, notices, jobs, queue, pending, timers, links, phase, open, spent, warned>>
    BY DEF HandleLocalFileChanged, LocalChange
  <1>2. p = s
    BY <1>1 DEF Unrecorded
  <1>e. PICK e : e = Head(events[s])
    OBVIOUS
  <1>3. /\ notices[s] = <<>> /\ Len(events[s]) = 1 /\ e.hash = disk[s].hash
        /\ (e.act = "modify" => row[s].hash # NoHash) /\ disk[s].hash \notin Recorded
    BY <1>1, <1>2, <1>e DEF Unrecorded
  <1>4. events[s] \in Seq(Event) /\ disk[s].hash \in Content \cup {NoHash} /\ row[s].ver \in Nat
    BY PeerFacts
  <1>5. GoodEvent(e) /\ Tail(events[s]) = <<>>
    <2>1. 1 \in DOMAIN events[s] /\ Head(events[s]) = events[s][1] /\ Tail(events[s]) = <<>>
      BY <1>1, <1>2, <1>3, <1>4, TailIs
    <2> QED BY <1>e, <2>1 DEF SyncInv
  <1>6. (e.act = "delete" <=> e.hash = NoHash) /\ e.hash # Empty /\ e.ts \in Nat /\ e.hash \in Hash
    BY <1>5 DEF GoodEvent, Event
  <1>7. PICK new : new = [hash |-> e.hash, ver |-> row[s].ver + 1, ts |-> e.ts, del |-> e.act = "delete"]
    OBVIOUS
  <1>8. LocalRow(row[s], e.hash, e.act, e.ts) = new /\ ~Redundant(row[s], e.hash, e.act)
    <2>1. PICK h, t, act : h = e.hash /\ t = e.ts /\ act = e.act
      OBVIOUS
    <2>2. h \notin Recorded /\ h \in Content \cup {NoHash} /\ t \in Nat /\ (act = "modify" => row[s].hash # NoHash)
      BY <1>3, <1>4, <1>6, <2>1
    <2>3. NextVersion(row[s], h, act) = row[s].ver + 1 /\ ~Redundant(row[s], h, act)
      BY <2>2, NewRow
    <2> QED BY <1>7, <2>1, <2>3 DEF LocalRow
  <1>9. new \in Row /\ new.hash = disk[s].hash /\ new.ver = row[s].ver + 1 /\ (new.del <=> new.hash = NoHash)
    <2>1. CASE e.act = "delete"
      <3>1. new = [hash |-> e.hash, ver |-> row[s].ver + 1, ts |-> e.ts, del |-> TRUE]
        BY <1>7, <2>1
      <3> QED BY <1>3, <1>4, <1>6, <2>1, <3>1, SMTT(30) DEF Row
    <2>2. CASE e.act # "delete"
      <3>1. new = [hash |-> e.hash, ver |-> row[s].ver + 1, ts |-> e.ts, del |-> FALSE]
        BY <1>7, <2>2
      <3> QED BY <1>3, <1>4, <1>6, <2>2, <3>1, SMTT(30) DEF Row
    <2> QED BY <2>1, <2>2
  <1>10. /\ row' = [row EXCEPT ![s] = new] /\ written' = written \cup {<<new.hash, new.ver>>}
         /\ msgs' = msgs \cup Broadcast(s, new)
    <2>1. LocalChange(s, e, row[s]) /\ new.hash = e.hash
      BY <1>1, <1>2, <1>3, <1>9, <1>e
    <2>2. row' = [row EXCEPT ![s] = new] /\ written' = written \cup {<<e.hash, new.ver>>}
      BY <1>8, <2>1 DEF LocalChange, Save
    <2>3. msgs' = msgs \cup Broadcast(s, new)
      BY <1>6, <1>8, <2>1 DEF LocalChange
    <2> QED BY <2>1, <2>2, <2>3
  <1>11. \A x \in Peer : notices'[x] = <<>> /\ events'[x] = <<>>
    <2>1. events'[s] = <<>> /\ \A x \in Peer \ {s} : events'[x] = events[x]
      BY <1>1, <1>2, <1>5 DEF SyncInv
    <2> QED BY <1>1, <1>3, <2>1 DEF Unrecorded
  <1>12. /\ \A x, y \in Peer : Linked(x, y) => phase'[x] = "up"
         /\ \A x \in Peer : phase'[x] = "unseen" => disk[x].hash = NoHash
    BY <1>1 DEF Orderly
  <1> QED BY <1>1, <1>9, <1>10, <1>11, <1>12, Records

(* The daemon reports the change.                                              *)
LEMMA CalmNotice ==
  ASSUME SyncInv, Shape, History, Orderly, NEW s \in Peer, Unrecorded(s), \A x \in Peer : UpToDate(x, s),
         NEW p \in Peer, ReportChange(p)
  PROVE  CalmInv'
  <1> USE DEF dbVars, downloadVars, netVars, procVars
  <1>1. /\ notices[p] # <<>> /\ notices' = [notices EXCEPT ![p] = Tail(notices[p])]
        /\ UNCHANGED <<disk, jobs, row, written, queue, pending, timers, msgs, links, phase, open, spent, warned>>
    BY DEF ReportChange
  <1>2. p = s
    BY <1>1 DEF Unrecorded
  <1>n. PICK n : n = Head(notices[s])
    OBVIOUS
  <1>3. /\ phase[s] = "up" /\ events[s] = <<>> /\ Len(notices[s]) = 1
        /\ (n = "deleted" <=> disk[s].hash = NoHash) /\ (n = "modified" => row[s].hash # NoHash)
    BY <1>1, <1>2, <1>n DEF Unrecorded
  <1>4. notices'[s] = <<>> /\ \A x \in Peer \ {s} : notices'[x] = notices[x]
    <2>1. Tail(notices[s]) = <<>>
      BY <1>1, <1>2, <1>3, PeerFacts, TailIs
    <2> QED BY <1>1, <1>2, <2>1 DEF Shape
  <1>5. n \in Notice
    <2>1. 1 \in DOMAIN notices[s] /\ n = notices[s][1] /\ notices[s] \in Seq(Notice)
      BY <1>1, <1>2, <1>n, PeerFacts, TailIs
    <2> QED BY <2>1, SMTT(30)
  <1>6. PICK e : /\ events' = [events EXCEPT ![s] = Append(events[s], e)] /\ e.hash = disk[s].hash
                 /\ e.act = "modify" => row[s].hash # NoHash
    <2>1. CASE n = "deleted"
      <3>1. PICK e : e = [hash |-> NoHash, act |-> "delete", ts |-> Now]
        OBVIOUS
      <3>2. e.hash = NoHash /\ e.act = "delete"
        BY <3>1
      <3> QED BY <1>2, <1>3, <1>n, <2>1, <3>1, <3>2 DEF ReportChange
    <2>2. CASE n # "deleted"
      <3>1. PICK e : e = [hash |-> disk[s].hash, ts |-> disk[s].ts,
                          act |-> IF n = "created" THEN "add" ELSE "modify"]
        OBVIOUS
      <3>2. e.hash = disk[s].hash /\ (e.act = "modify" => n # "created")
        BY <3>1
      <3>3. e.act = "modify" => row[s].hash # NoHash
        BY <1>3, <1>5, <2>2, <3>2 DEF Notice
      <3>4. events' = [events EXCEPT ![s] = Append(events[s], e)]
        BY <1>2, <1>3, <1>n, <2>2, <3>1 DEF ReportChange
      <3> QED BY <3>2, <3>3, <3>4
    <2> QED BY <2>1, <2>2
  <1>7. Len(events'[s]) = 1 /\ Head(events'[s]) = e /\ \A x \in Peer \ {s} : events'[x] = events[x]
    <2>1. events'[s] = Append(<<>>, e) /\ \A x \in Peer \ {s} : events'[x] = events[x]
      BY <1>3, <1>6 DEF SyncInv
    <2> QED BY <2>1, SMTT(30)
  <1>8. Recorded' = Recorded /\ (\A r : RecordedRow(r)' = RecordedRow(r)) /\ (\A x, y : Linked(x, y)' = Linked(x, y))
        /\ (\A x : Tasks(x)' = Tasks(x) /\ Told(x, s)' = Told(x, s)) /\ \A x : Newest(row[x])' = Newest(row[x])
    BY <1>1 DEF Recorded, RecordedRow, Linked, Tasks, Told, Newest
  <1>9. Unrecorded(s)'
    <2>1. /\ disk'[s].hash \notin Recorded' /\ (disk'[s].hash = NoHash => \A x \in Peer : Exists(row'[x]))
          /\ Newest(row[s])' /\ Cardinality(written)' < Now' + (IF First = NoHash THEN 0 ELSE 1)
          /\ msgs' = {} /\ \A x \in Peer : Tasks(x)' = {} /\ jobs'[x] = {}
      BY <1>1, <1>8 DEF Unrecorded, Now
    <2>2. \A x \in Peer \ {s} : /\ notices'[x] = <<>> /\ events'[x] = <<>>
                                /\ disk'[x].hash = row'[x].hash /\ disk'[x].ts < disk'[s].ts
      BY <1>1, <1>4, <1>7 DEF Unrecorded
    <2>3. /\ phase'[s] = "up" /\ notices'[s] = <<>> /\ Len(events'[s]) = 1
          /\ Head(events'[s]).hash = disk'[s].hash
          /\ Head(events'[s]).act = "modify" => row'[s].hash # NoHash
      BY <1>1, <1>3, <1>4, <1>6, <1>7
    <2> QED BY <2>1, <2>2, <2>3 DEF Unrecorded, Exists
  <1>10. \A x \in Peer : UpToDate(x, s)'
    BY <1>8 DEF UpToDate
  <1>11. History' /\ Orderly'
    BY <1>1, <1>8 DEF History, RecordedRow, Orderly
  <1> QED BY <1>9, <1>10, <1>11 DEF CalmInv

-----------------------------------------------------------------------------
(* Two peers meet when nothing is under way: the one with the greater version is
   the source, and one of them announces what it has.                          *)
LEMMA Announces ==
  ASSUME SyncInv, Shape, History, NEW a \in Peer, NEW b \in Peer, Newest(row[a]), ~Newest(row[b])
  PROVE  SyncAllRepositoriesWithPeer(a, b) # {} \/ SyncAllRepositoriesWithPeer(b, a) # {}
  <1>1. row[a] \in Row /\ row[b] \in Row /\ RecordedRow(row[a]) /\ RecordedRow(row[b])
    BY PeerFacts DEF History
  <1>2. ~SameVersion(row[b], row[a])
    BY <1>1, RowsAgree
  <1>3. Exists(row[a])
    <2> SUFFICES ASSUME ~Exists(row[a]) PROVE FALSE
      OBVIOUS
    <2>1. row[b].ver <= row[a].ver
      BY <1>1, RowsAgree
    <2>2. ~Exists(row[b])
      BY <1>1, <2>1, SMTT(30) DEF Exists, Row
    <2>3. row[a] = NoRow /\ row[b] = NoRow
      BY <1>1, <2>2, RowsAgree
    <2> QED BY <1>2, <2>3 DEF SameVersion
  <1>4. CASE ~row[a].del
    BY <1>3, <1>4 DEF SyncAllRepositoriesWithPeer
  <1>5. CASE row[a].del
    <2>1. row[a].hash = NoHash /\ row[a].hash \in Recorded
      BY <1>1, <1>3, <1>5, RecordedIs, RowsAgree
    <2>2. Exists(row[b])
      BY <2>1 DEF History
    <2>3. row[b].hash # NoHash
      BY <1>1, <1>2, <1>3, <2>1, SameHash
    <2>4. ~row[b].del
      BY <1>1, <2>2, <2>3, RecordedIs
    <2> QED BY <2>2, <2>4 DEF SyncAllRepositoriesWithPeer
  <1> QED BY <1>4, <1>5

LEMMA Meets ==
  ASSUME SyncInv, Shape, History, Orderly, NEW a \in Peer, NEW b \in Peer, a # b, row[b].ver <= row[a].ver,
         msgs = {}, \A x \in Peer : NothingToDo(x) /\ Settles(x) /\ disk[x].hash = row[x].hash /\ phase[x] = "up",
         Cardinality(written) <= Now + Shared,
         links' = links \cup {{a, b}},
         msgs' = SyncAllRepositoriesWithPeer(a, b) \cup SyncAllRepositoriesWithPeer(b, a),
         UNCHANGED <<disk, notices, events, jobs, row, written, queue, pending, timers, phase, open, spent, warned>>
  PROVE  CalmInv'
  <1>1. /\ Recorded' = Recorded /\ \A r : RecordedRow(r)' = RecordedRow(r)
        /\ \A x : Newest(row[x])' = Newest(row[x]) /\ NothingToDo(x)' = NothingToDo(x)
    BY DEF Recorded, RecordedRow, Newest, NothingToDo, Tasks
  <1>2. History' /\ Orderly'
    BY <1>1 DEF History, RecordedRow, Orderly
  <1>3. /\ \A x \in Peer : row[x] \in Row /\ RecordedRow(row[x]) /\ row[x].ver \in Nat
    BY PeerFacts DEF History
  <1>4. ASSUME NEW m \in msgs'
        PROVE  /\ CalmMsg(m, a)' /\ m.type = "meta" /\ ((m.from = a /\ m.to = b) \/ (m.from = b /\ m.to = a))
    <2>1. CASE m \in SyncAllRepositoriesWithPeer(a, b)
      <3>1. m = Meta(a, b, row[a]) /\ Exists(row[a])
        BY <2>1 DEF SyncAllRepositoriesWithPeer
      <3>2. m.type = "meta" /\ m.from = a /\ m.to = b /\ m.row = row[a]
        BY <3>1 DEF Meta
      <3>3. SameVersion(m.row, row'[a]) /\ Exists(m.row) /\ RecordedRow(m.row)' /\ row'[m.to].ver <= row'[a].ver
        BY <1>1, <1>3, <3>1, <3>2 DEF SameVersion
      <3> QED BY <3>2, <3>3 DEF CalmMsg
    <2>2. CASE m \in SyncAllRepositoriesWithPeer(b, a)
      <3>1. m = Meta(b, a, row[b]) /\ Exists(row[b])
        BY <2>2 DEF SyncAllRepositoriesWithPeer
      <3>2. m.type = "meta" /\ m.from = b /\ m.to = a /\ m.row = row[b]
        BY <3>1 DEF Meta
      <3>3. /\ m.row.ver <= row'[a].ver /\ Exists(m.row) /\ RecordedRow(m.row)'
            /\ SameVersion(m.row, row'[m.from])
        BY <1>1, <1>3, <3>1, <3>2 DEF SameVersion
      <3> QED BY <3>2, <3>3 DEF CalmMsg
    <2> QED BY <2>1, <2>2
  <1>5. Spreading(a)'
    <2>1. \A x \in Peer \ {a} : Follower(x, a)'
      BY <1>1, RestFollows
    <2>2. \A x \in Peer : disk'[x].hash \in Recorded' \cup {NoHash}
      <3> SUFFICES ASSUME NEW x \in Peer PROVE disk'[x].hash \in Recorded' \cup {NoHash}
        OBVIOUS
      <3>1. row[x].hash \in Recorded \/ row[x] = NoRow
        BY <1>3, RowsAgree
      <3>2. NoRow.hash = NoHash
        BY DEF NoRow
      <3> QED BY <1>1, <3>1, <3>2
    <2>3. Cardinality(written)' <= Now' + (IF First = NoHash THEN 0 ELSE 1)
      BY DEF Shared, Now
    <2> QED BY <1>1, <1>4, <2>1, <2>2, <2>3 DEF Spreading
  <1>6. ASSUME NEW x \in Peer PROVE UpToDate(x, a)'
    <2> SUFFICES ASSUME ~Newest(row[x]) PROVE UpToDate(x, a)'
      BY <1>1 DEF UpToDate
    <2>1. PICK y \in Peer : Newest(row[y]) /\ ~Linked(x, y)
      BY DEF Settles
    <2>2. CASE ~Linked(x, y)'
      BY <1>1, <2>1, <2>2 DEF UpToDate
    <2>3. CASE Linked(x, y)'
      <3>1. {x, y} = {a, b}
        BY <2>1, <2>3 DEF Linked
      <3>2. x # y
        BY <2>1
      <3>3. ~(x = a /\ y = b)
        <4>1. \A w \in written : w[2] \in Nat
          BY DEF History
        <4> QED BY <1>3, <2>1, <4>1, SMTT(30) DEF Newest
      <3>4. x = b /\ y = a
        BY <3>1, <3>2, <3>3
      <3>5. PICK m : m \in msgs'
        BY <2>1, <3>4, Announces
      <3>6. Told(x, a)'
        BY <1>4, <3>4, <3>5 DEF Told
      <3> QED BY <1>1, <2>1, <3>4, <3>6 DEF UpToDate
    <2> QED BY <2>2, <2>3
  <1> QED BY <1>2, <1>5, <1>6 DEF CalmInv

LEMMA CalmConnect ==
  ASSUME SyncInv, Shape, History, Orderly, Counted, NEW s \in Peer, Calm(s), Ready, Reconnect
  PROVE  CalmInv'
  <1> USE DEF daemonVars, dbVars, downloadVars, procVars
  <1>1. Idle /\ \A x \in Peer : phase[x] = "up"
    BY DEF Ready
  <1>2. /\ msgs = {} /\ \A x \in Peer : NothingToDo(x) /\ Settles(x)
        /\ Cardinality(written) <= Now + Shared /\ (Unrecorded(s) => phase[s] \in {"down", "scan"})
        /\ (Spreading(s) => \A x \in Peer : disk[x].hash = row[x].hash)
    BY <1>1, IdleFacts
  <1>3. Spreading(s)
    BY <1>1, <1>2 DEF Calm
  <1>4. PICK p \in Peer, q \in Peer : Connect(p, q)
    BY DEF Reconnect
  <1>5. /\ p # q /\ links' = links \cup {{p, q}}
        /\ msgs' = SyncAllRepositoriesWithPeer(p, q) \cup SyncAllRepositoriesWithPeer(q, p)
        /\ UNCHANGED <<disk, notices, events, jobs, row, written, queue, pending, timers, phase, open, spent, warned>>
    BY <1>2, <1>4 DEF Connect
  <1>6. CASE row[q].ver <= row[p].ver
    BY <1>1, <1>2, <1>3, <1>5, <1>6, Meets
  <1>7. CASE row[p].ver <= row[q].ver
    <2>1. links' = links \cup {{q, p}} /\ msgs' = SyncAllRepositoriesWithPeer(q, p) \cup SyncAllRepositoriesWithPeer(p, q)
      BY <1>5
    <2> QED BY <1>1, <1>2, <1>3, <1>5, <1>7, <2>1, Meets
  <1>8. row[p].ver \in Nat /\ row[q].ver \in Nat
    BY PeerFacts
  <1> QED BY <1>6, <1>7, <1>8, SMTT(30)

-----------------------------------------------------------------------------
(* Every step.                                                               *)
LEMMA CalmQuietly ==
  ASSUME SyncInv, History, Orderly, NEW s \in Peer, Calm(s), UNCHANGED vars
  PROVE  CalmInv'
  <1>1. /\ UNCHANGED <<disk, notices, events, queue, pending, timers, jobs, written, msgs, open, warned>>
        /\ UNCHANGED <<row, links, phase, spent>>
    BY DEF vars, daemonVars, dbVars, downloadVars, netVars, procVars
  <1>2. Now' = Now /\ spent'.faults = spent.faults /\ links' \subseteq links /\ phase'[s] = phase[s]
    BY <1>1 DEF Now
  <1>3. \A q \in Peer : Restamped(q)
    BY <1>1 DEF Restamped
  <1>4. /\ \A p, q \in Peer : Linked(p, q)' => phase'[p] = "up"
        /\ \A p \in Peer : phase'[p] = "unseen" => disk[p].hash = NoHash
    BY <1>1 DEF Orderly, Linked
  <1> QED BY <1>1, <1>2, <1>3, <1>4, Settled

LEMMA CalmSpreads ==
  ASSUME MaxBreaks = 0, MaxFaults <= MaxDownloadRetries,
         SyncInv, SyncInv', Shape, History, Orderly, NEW s \in Peer, Calm(s), Spreading(s), System \/ Handlers
  PROVE  CalmInv'
  <1>1. Steady(s)
    BY DEF Steady, Following, Calm
  <1>2. ASSUME NEW p \in Peer, PeerStep(p) \/ HandleLocalFileChanged(p) PROVE CalmInv'
    <2>1. CASE ReportChange(p)
      BY <1>1, <2>1, CalmReport
    <2>2. CASE (\E t \in queue[p] : executeSyncTask(p, t)) \/ (\E t \in timers[p] : RetryDownload(p, t))
      BY <1>1, <2>2, CalmTask
    <2>3. ASSUME NEW j \in jobs[p], Fetch(p, j) \/ Rename(p, j) \/ DeleteFile(p, j) PROVE CalmInv'
      BY <1>1, <2>3, CalmJob
    <2>4. CASE Start(p) \/ ScanWalk(p) \/ ScanSweep(p) \/ StartDaemon(p)
      <3>1. ~Unrecorded(s) \/ p # s \/ ~ScanWalk(p)
        <4> SUFFICES ASSUME Unrecorded(s), p = s, ScanWalk(p) PROVE FALSE
          OBVIOUS
        <4>1. disk[s].hash \in Recorded \cup {NoHash} /\ disk[s].hash \notin Recorded
          BY DEF Unrecorded, Spreading
        <4>2. disk[s].hash # NoHash
          BY DEF ScanWalk, Unrecorded
        <4> QED BY <4>1, <4>2
      <3> QED BY <2>4, <3>1, CalmPhase
    <2>5. CASE HandleLocalFileChanged(p)
      BY <1>1, <2>5, CalmLocal
    <2> QED BY <1>2, <2>1, <2>2, <2>3, <2>4, <2>5 DEF PeerStep
  <1>3. ASSUME NEW m \in msgs, Deliver(m) \/ DownloadFails(m) \/ HandlePeerMetadataUpdate(m) PROVE CalmInv'
    <2>1. CASE HandleFileRequest(m)
      BY <1>1, <2>1, CalmRequest
    <2>2. CASE DiscardResponse(m)
      BY <1>1, <2>2, CalmDiscard
    <2>3. CASE StoreInline(m) \/ StartDownload(m) \/ DownloadFails(m)
      BY <1>1, <2>3, CalmDownload
    <2>4. CASE HandlePeerMetadataUpdate(m)
      BY <1>1, <2>4, CalmUpdate
    <2> QED BY <1>3, <2>1, <2>2, <2>3, <2>4 DEF Deliver
  <1>4. ASSUME NEW p \in Peer, NEW j \in jobs[p], FetchBreaks(p, j) PROVE CalmInv'
    BY <1>1, <1>4, CalmJob
  <1> QED BY <1>2, <1>3, <1>4 DEF System, Handlers, Faults

LEMMA CalmWaits ==
  ASSUME SyncInv, SyncInv', Shape, History, Orderly, Counted,
         NEW s \in Peer, Calm(s), Unrecorded(s), System \/ Handlers
  PROVE  CalmInv'
  <1>1. msgs = {} /\ \A p \in Peer : queue[p] = {} /\ timers[p] = {} /\ jobs[p] = {}
    BY DEF Unrecorded, Tasks
  <1>2. ASSUME NEW p \in Peer, PeerStep(p) PROVE CalmInv'
    <2>1. CASE ReportChange(p)
      BY <2>1, CalmNotice DEF Calm
    <2>2. CASE Start(p) \/ ScanSweep(p) \/ StartDaemon(p) \/ (ScanWalk(p) /\ p # s)
      <3>1. ScanWalk(p) => p # s \/ Start(p) \/ ScanSweep(p) \/ StartDaemon(p)
        BY <2>2
      <3>2. ScanWalk(p) => ~Start(p) /\ ~ScanSweep(p) /\ ~StartDaemon(p)
        BY DEF ScanWalk, Start, ScanSweep, StartDaemon
      <3> QED BY <2>2, <3>1, <3>2, CalmPhase
    <2>3. CASE ScanWalk(p) /\ p = s
      BY <2>3, CalmScan
    <2> QED BY <1>1, <1>2, <2>1, <2>2, <2>3 DEF PeerStep
  <1>3. ASSUME NEW p \in Peer, HandleLocalFileChanged(p) PROVE CalmInv'
    BY <1>3, CalmRecord
  <1> QED BY <1>1, <1>2, <1>3 DEF System, Handlers, Faults

LEMMA CalmStep ==
  ASSUME MaxBreaks = 0, MaxFaults <= MaxDownloadRetries,
         SyncInv, SyncInv', Shape, Counted, CalmInv, [NextCalm]_vars
  PROVE  CalmInv'
  <1>1. History /\ Orderly
    BY DEF CalmInv
  <1>2. PICK s \in Peer : Calm(s)
    BY DEF CalmInv, Calm
  <1>3. CASE Idle /\ CalmUser
    BY <1>1, <1>2, <1>3, CalmUserStep
  <1>4. CASE Idle /\ Environment
    BY <1>1, <1>2, <1>4, CalmEnvironment
  <1>5. CASE System \/ Handlers
    BY <1>1, <1>2, <1>5, CalmSpreads, CalmWaits DEF Calm
  <1>6. CASE Ready /\ Reconnect
    BY <1>1, <1>2, <1>6, CalmConnect
  <1>7. CASE UNCHANGED vars
    BY <1>1, <1>2, <1>7, CalmQuietly
  <1> QED BY <1>3, <1>4, <1>5, <1>6, <1>7 DEF NextCalm

-----------------------------------------------------------------------------
(* What the calm invariant says of a state and of a step.                     *)

LEMMA CalmVersions ==
  ASSUME SyncInv, Shape, CalmInv
  PROVE  VersionsAreTrue
  <1>1. ASSUME NEW p \in Peer, Exists(row[p]) PROVE <<row[p].hash, row[p].ver>> \in written
    <2>1. RecordedRow(row[p])
      BY DEF CalmInv, History
    <2>2. row[p] # NoRow
      BY <1>1, NoRowFacts
    <2> QED BY <2>1, <2>2 DEF RecordedRow
  <1> QED BY <1>1 DEF VersionsAreTrue

LEMMA CalmEchoes ==
  ASSUME SyncInv, Counted, CalmInv
  PROVE  NoEcho
  <1>1. PICK s \in Peer : Unrecorded(s) \/ Spreading(s)
    BY DEF CalmInv
  <1>2. Now \in Nat
    BY DEF SyncInv, Now
  <1>3. Cardinality(written) < Now + Shared \/ Cardinality(written) <= Now + Shared
    BY <1>1 DEF Unrecorded, Spreading, Shared
  <1>4. Cardinality(written) <= Now + Shared
    BY <1>2, <1>3, Counting DEF Counted
  <1> QED BY <1>4 DEF NoEcho, Shared

LEMMA CalmAgrees ==
  ASSUME SyncInv, Shape, Counted, CalmInv
  PROVE  QuietMeansInSync
  <1> SUFFICES ASSUME Quiet PROVE InSync /\ \A p \in Peer : RowMatches(p)
    BY DEF QuietMeansInSync
  <1>1. History /\ Orderly
    BY DEF CalmInv
  <1>2. PICK s \in Peer : Calm(s)
    BY DEF CalmInv, Calm
  <1>3. Idle /\ links = Pair /\ \A p \in Peer : phase[p] = "up"
    BY DEF Quiet, Ready
  <1>4. (\A p \in Peer : Settles(p)) /\ ~Unrecorded(s) /\ (Spreading(s) => \A p \in Peer : disk[p].hash = row[p].hash)
    <2>1. phase[s] \notin {"down", "scan"}
      BY <1>3
    <2> QED BY <1>1, <1>2, <1>3, <2>1, IdleFacts
  <1>5. \A p \in Peer : disk[p].hash = row[p].hash
    BY <1>2, <1>4 DEF Calm
  <1>6. \A p, q \in Peer : p # q => Linked(p, q)
    BY <1>3 DEF Linked, Pair
  <1>7. \A p \in Peer : Newest(row[p])
    BY <1>4, <1>6 DEF Settles
  <1>8. \A p \in Peer : row[p] \in Row /\ RecordedRow(row[p])
    BY <1>1, PeerFacts DEF History
  <1>9. \A p, q \in Peer : SameVersion(row[p], row[q])
    BY <1>1, <1>7, <1>8, RowsAgree
  <1>10. InSync
    BY <1>5, <1>9 DEF InSync, SameVersion
  <1>11. ASSUME NEW p \in Peer PROVE RowMatches(p)
    <2>1. disk[p].hash = row[p].hash /\ RecordedRow(row[p]) /\ GoodRow(row[p])
      BY <1>5, <1>8, PeerFacts
    <2> QED BY <2>1, SMTT(30) DEF RowMatches, RecordedRow, GoodRow, Exists, NoRow
  <1> QED BY <1>10, <1>11

LEMMA WaitingDisk ==
  ASSUME SyncInv, Orderly, NEW s \in Peer, Unrecorded(s), [NextCalm]_vars, spent'.edits = spent.edits
  PROVE  disk' = disk
  <1>1. msgs = {} /\ warned = {} /\ \A p \in Peer : queue[p] = {} /\ timers[p] = {} /\ jobs[p] = {}
    BY DEF Unrecorded, Tasks, Orderly
  <1>2. ASSUME CalmUser PROVE FALSE
    <2>1. Spend("edits")
      BY <1>2 DEF CalmUser, UserWrite, UserDelete
    <2>2. spent \in [{"edits", "crashes", "drops", "faults", "breaks", "choices"} -> Nat]
      BY DEF SyncInv
    <2>3. spent.edits \in Nat /\ spent'.edits = spent.edits + 1
      BY <2>1, <2>2 DEF Spend
    <2> QED BY <2>3, SMTT(30)
  <1>3. ASSUME Environment \/ Reconnect PROVE disk' = disk
    BY <1>1, <1>3 DEF Environment, Reconnect, Stop, Disconnect, HandleConflictResolution, Connect, daemonVars
  <1>4. ASSUME NEW p \in Peer, PeerStep(p) PROVE disk' = disk
    <2>1. ReportChange(p) \/ Start(p) \/ ScanWalk(p) \/ ScanSweep(p) \/ StartDaemon(p)
      BY <1>1, <1>4 DEF PeerStep
    <2> QED BY <2>1 DEF ReportChange, Start, ScanWalk, ScanSweep, StartDaemon, daemonVars
  <1>5. ASSUME NEW p \in Peer, HandleLocalFileChanged(p) PROVE disk' = disk
    BY <1>5 DEF HandleLocalFileChanged, LocalChange
  <1>6. ASSUME UNCHANGED vars PROVE disk' = disk
    BY <1>6 DEF vars, daemonVars
  <1> QED BY <1>1, <1>2, <1>3, <1>4, <1>5, <1>6 DEF NextCalm, System, Faults, Handlers

(* No content is replaced or deleted that no peer has recorded.              *)
LEMMA CalmLosesNothing ==
  ASSUME SyncInv, CalmInv, [NextCalm]_vars, NEW p \in Peer,
         disk'[p].hash # disk[p].hash, spent'.edits = spent.edits
  PROVE  disk[p].hash \in Recorded \cup {NoHash}
  <1>1. Orderly
    BY DEF CalmInv
  <1>2. PICK s \in Peer : Unrecorded(s) \/ Spreading(s)
    BY DEF CalmInv
  <1>3. ~Unrecorded(s)
    BY <1>1, WaitingDisk
  <1> QED BY <1>2, <1>3 DEF Spreading

-----------------------------------------------------------------------------
INSTANCE FiniteSetTheorems

LEMMA CountedHolds ==
  ASSUME History
  PROVE  Counted
  <1>1. IsFiniteSet(written)
    BY DEF History
  <1>2. Cardinality(written) \in Nat
    BY <1>1, FS_CardinalityType
  <1>3. ASSUME NEW w
        PROVE  /\ IsFiniteSet(written \cup {w})
               /\ w \notin written => Cardinality(written \cup {w}) = Cardinality(written) + 1
    BY <1>1, FS_AddElement
  <1> QED BY <1>2, <1>3 DEF Counted

LEMMA CalmInit == Init => CalmInv
  <1> SUFFICES ASSUME Init PROVE CalmInv
    OBVIOUS
  <1>1. First \in Hash /\ First \in Content \cup {NoHash}
    BY SyncAssumption DEF Hash
  <1>2. /\ \A p \in Peer : /\ disk[p].hash = First /\ row[p] = FirstRow /\ phase[p] = "up"
                           /\ NothingToDo(p) /\ pending[p] = {}
        /\ msgs = {} /\ open = {} /\ warned = {} /\ links = Pair
        /\ written = IF First = NoHash THEN {} ELSE {<<First, 1>>}
    BY DEF Init, NothingToDo, Tasks
  <1>3. Now = 0
    BY DEF Init, Now
  <1>4. IsFiniteSet(written) /\ Cardinality(written) = IF First = NoHash THEN 0 ELSE 1
    <2>1. CASE First = NoHash
      BY <1>2, <2>1, FS_EmptySet
    <2>2. CASE First # NoHash
      BY <1>2, <2>2, FS_Singleton
    <2> QED BY <2>1, <2>2
  <1>5. /\ FirstRow.hash = First
        /\ RecordedRow(FirstRow) /\ Newest(FirstRow)
    <2>1. CASE First = NoHash
      BY <1>2, <2>1, SMTT(30) DEF FirstRow, RecordedRow, Newest, NoRow, Exists
    <2>2. CASE First # NoHash
      BY <1>2, <2>2, SMTT(30) DEF FirstRow, RecordedRow, Newest, NoRow, Exists
    <2> QED BY <2>1, <2>2
  <1>6. First \in Recorded \cup {NoHash} /\ NoHash \notin Recorded
    <2>1. CASE First = NoHash
      BY <1>2, <2>1 DEF Recorded
    <2>2. CASE First # NoHash
      <3>1. written = {<<First, 1>>} /\ <<First, 1>>[1] = First
        BY <1>2, <2>2
      <3> QED BY <2>2, <3>1 DEF Recorded
    <2> QED BY <2>1, <2>2
  <1>7. /\ written \subseteq Hash \X (Nat \ {0})
        /\ \A v, w \in written : v[1] = w[1] <=> v[2] = w[2]
    BY <1>1, <1>2, SMTT(30)
  <1>8. History
    BY <1>2, <1>4, <1>5, <1>6, <1>7 DEF History
  <1>9. Orderly
    BY <1>2 DEF Orderly
  <1>10. PICK s \in Peer : TRUE
    BY SyncAssumption
  <1>11. Spreading(s)
    <2>1. Cardinality(written) <= Now + (IF First = NoHash THEN 0 ELSE 1)
      BY <1>3, <1>4, SMTT(30)
    <2>2. ASSUME NEW p \in Peer PROVE Follower(p, s)
      <3>1. disk[p].hash = row[p].hash
        BY <1>2, <1>5
      <3>2. \A i \in DOMAIN notices[p] : FALSE
        BY <1>2, SMTT(30) DEF NothingToDo
      <3>3. \A i \in DOMAIN events[p] : FALSE
        BY <1>2, SMTT(30) DEF NothingToDo
      <3> QED BY <1>2, <3>1, <3>2, <3>3 DEF Follower, NothingToDo
    <2> QED BY <1>2, <1>5, <1>6, <2>1, <2>2 DEF Spreading
  <1>12. \A p \in Peer : UpToDate(p, s)
    BY <1>2, <1>5 DEF UpToDate
  <1> QED BY <1>8, <1>9, <1>11, <1>12 DEF CalmInv

-----------------------------------------------------------------------------
LEMMA TypesStep == SyncInv /\ Shape /\ [Next]_vars => SyncInv' /\ Shape'
  BY SyncStep, ShapeStep

(* Every variable keeps its type; handlers that run one at a time leave none
   open, and a message is only ever on its way between peers that are connected
   (coordinator.go, daemon.go).                                              *)
THEOREM SyncTypes == Spec => []TypeOK
  BY TypesStep, SyncInit, ShapeInit, ShapeTypes, PTL DEF Spec

-----------------------------------------------------------------------------
(* Users and operators that wait.  No transfer breaks off, and a download fails
   no more often than it is tried again (maxDownloadRetries, coordinator.go).   *)
Undisturbed == MaxBreaks = 0 /\ MaxFaults <= MaxDownloadRetries

CalmAll == SyncInv /\ Shape /\ CalmInv

LEMMA CalmIsNext == [NextCalm]_vars => [Next]_vars
  <1>1. CalmUser => User
    BY DEF CalmUser, User
  <1> QED BY <1>1 DEF NextCalm, Next

LEMMA CalmAllStep ==
  ASSUME Undisturbed, CalmAll, [NextCalm]_vars
  PROVE  CalmAll'
  <1>1. SyncInv' /\ Shape'
    BY CalmIsNext, TypesStep DEF CalmAll
  <1>2. Counted
    BY CountedHolds DEF CalmAll, CalmInv
  <1>3. CalmInv'
    BY <1>1, <1>2, CalmStep DEF CalmAll, Undisturbed
  <1> QED BY <1>1, <1>3 DEF CalmAll

LEMMA CalmAllInit == Init => CalmAll
  BY SyncInit, ShapeInit, CalmInit DEF CalmAll

LEMMA CalmAlways ==
  ASSUME Undisturbed
  PROVE  SpecCalm => []CalmAll
  <1>1. CalmAll /\ [NextCalm]_vars => CalmAll'
    BY CalmAllStep
  <1> QED BY <1>1, CalmAllInit, PTL DEF SpecCalm

LEMMA CalmMeans == CalmAll => QuietMeansInSync /\ VersionsAreTrue /\ NoEcho
  <1> SUFFICES ASSUME CalmAll PROVE QuietMeansInSync /\ VersionsAreTrue /\ NoEcho
    OBVIOUS
  <1>1. SyncInv /\ Shape /\ CalmInv /\ Counted
    BY CountedHolds DEF CalmAll, CalmInv
  <1> QED BY <1>1, CalmAgrees, CalmVersions, CalmEchoes

(* Once nothing is under way, all peers have the same file and their rows describe
   it: whatever was changed, stopped, restarted and disconnected before
   (HandlePeerMetadataUpdate, executeSyncTask, ScanAndIndexLocalFiles).        *)
THEOREM CalmPeersAgree ==
  ASSUME Undisturbed
  PROVE  SpecCalm => []QuietMeansInSync
  BY CalmAlways, CalmMeans, PTL

(* A row always has the version under which its content was recorded
   (HandleLocalFileChanged, ScanAndIndexLocalFiles).                         *)
THEOREM CalmVersionsTrue ==
  ASSUME Undisturbed
  PROVE  SpecCalm => []VersionsAreTrue
  BY CalmAlways, CalmMeans, PTL

(* A download or a deletion on behalf of another peer is never announced as a
   change of its own (the Redundant check of HandleLocalFileChanged): there are
   never more versions than changes by users.                                *)
THEOREM CalmNoEcho ==
  ASSUME Undisturbed
  PROVE  SpecCalm => []NoEcho
  BY CalmAlways, CalmMeans, PTL

(* No download and no deletion for another peer replaces a content that nobody
   has recorded (StoreInline, Rename and DeleteFile).                        *)
THEOREM CalmLosesNothingEver ==
  ASSUME Undisturbed
  PROVE  SpecCalm => NothingUnrecordedLost
  <1> DEFINE Kept == \A p \in Peer :
               disk'[p].hash # disk[p].hash /\ UNCHANGED spent.edits
                 => disk[p].hash \in Recorded \cup {NoHash}
  <1>1. CalmAll /\ [NextCalm]_vars => [Kept]_vars
    <2> SUFFICES ASSUME CalmAll, [NextCalm]_vars, NEW p \in Peer,
                        disk'[p].hash # disk[p].hash, UNCHANGED spent.edits
                 PROVE  disk[p].hash \in Recorded \cup {NoHash}
      OBVIOUS
    <2> QED BY CalmLosesNothing DEF CalmAll
  <1> QED BY <1>1, CalmAlways, PTL DEF SpecCalm, NothingUnrecordedLost
=============================================================================
