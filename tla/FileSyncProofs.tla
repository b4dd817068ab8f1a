----------------------------- MODULE FileSyncProofs -----------------------------
(***************************************************************************)
(* The rows of FileSync follow MetadataExchange, for any peers, contents   *)
(* and bounds: the proof of the refinement FollowsExchange.                *)
(***************************************************************************)
EXTENDS FileSyncExchange, TLAPS

USE ZenonT(30)

(* What a step does to the rest never spoils what is good already.            *)
Grows ==
  /\ Recorded \subseteq Recorded' /\ Now <= Now' /\ Now' <= MaxEdits
  /\ spent' \in [{"edits", "crashes", "drops", "faults", "breaks", "choices"} -> Nat]

LEMMA NowType ==
  ASSUME SyncInv
  PROVE  Now \in Nat /\ Now <= MaxEdits /\ MaxEdits \in Nat
  BY SyncAssumption DEF SyncInv, Now

LEMMA Same ==
  ASSUME SyncInv, spent' = spent
  PROVE  Now' = Now /\ (written' = written => Grows)
  BY NowType, SMTT(30) DEF SyncInv, Now, Recorded, Grows

LEMMA StaysGood ==
  ASSUME SyncInv, Grows
  PROVE  /\ \A f : GoodFile(f) => GoodFile(f)'
         /\ \A e : GoodEvent(e) => GoodEvent(e)'
         /\ \A r : GoodRow(r) => GoodRow(r)'
         /\ \A t : GoodTask(t) => GoodTask(t)'
         /\ \A m : GoodMsg(m) => GoodMsg(m)'
  <1>0. Now \in Nat /\ Now' \in Nat /\ Now <= Now' /\ Recorded \subseteq Recorded'
    BY NowType DEF Grows, Now
  <1>1. ASSUME NEW f, GoodFile(f) PROVE GoodFile(f)'
    <2>1. f.ts \in Nat
      BY <1>1 DEF GoodFile, File
    <2> QED BY <1>0, <1>1, <2>1, SMTT(30) DEF GoodFile
  <1>2. ASSUME NEW e, GoodEvent(e) PROVE GoodEvent(e)'
    <2>1. e.ts \in Nat
      BY <1>2 DEF GoodEvent, Event
    <2> QED BY <1>0, <1>2, <2>1, SMTT(30) DEF GoodEvent
  <1>3. ASSUME NEW r, GoodRow(r) PROVE GoodRow(r)'
    BY <1>0, <1>3 DEF GoodRow
  <1>4. ASSUME NEW t, GoodTask(t) PROVE GoodTask(t)'
    BY <1>0, <1>4 DEF GoodTask
  <1>5. ASSUME NEW m, GoodMsg(m) PROVE GoodMsg(m)'
    BY <1>0, <1>3, <1>5 DEF GoodMsg
  <1> QED BY <1>1, <1>2, <1>3, <1>4, <1>5

-----------------------------------------------------------------------------
(* SyncInv part by part, each kept when what is new in it is good.            *)

DiskGood == disk \in [Peer -> File] /\ \A p \in Peer : GoodFile(disk[p])
EventsGood ==
  /\ events \in [Peer -> Seq(Event)]
  /\ \A p \in Peer : \A i \in DOMAIN events[p] : GoodEvent(events[p][i])
RowsGood == row \in [Peer -> Row] /\ \A p \in Peer : GoodRow(row[p])
TasksGood ==
  /\ {queue, pending, timers} \subseteq [Peer -> SUBSET Task]
  /\ \A p \in Peer : \A t \in queue[p] \cup pending[p] \cup timers[p] : GoodTask(t)
JobsGood == jobs \in [Peer -> SUBSET Job]
MsgsGood == \A m \in msgs : GoodMsg(m)

LEMMA Parts ==
  /\ SyncInv => DiskGood /\ EventsGood /\ RowsGood /\ TasksGood /\ JobsGood /\ MsgsGood
  /\ Grows /\ DiskGood' /\ EventsGood' /\ RowsGood' /\ TasksGood' /\ JobsGood' /\ MsgsGood' => SyncInv'
  <1>1. Grows => (Now <= MaxEdits)'
    BY DEF Grows
  <1>2. Grows => (spent \in [{"edits", "crashes", "drops", "faults", "breaks", "choices"} -> Nat])'
    BY DEF Grows
  <1> QED BY <1>1, <1>2 DEF SyncInv, DiskGood, EventsGood, RowsGood, TasksGood, JobsGood, MsgsGood

LEMMA Keep ==
  ASSUME SyncInv, Grows
  PROVE  /\ disk' = disk => DiskGood'
         /\ events' = events => EventsGood'
         /\ row' = row => RowsGood'
         /\ UNCHANGED <<queue, pending, timers>> => TasksGood'
         /\ jobs' = jobs => JobsGood'
         /\ msgs' \subseteq msgs => MsgsGood'
  <1>1. disk' = disk => DiskGood'
    BY Parts, StaysGood DEF DiskGood
  <1>2. events' = events => EventsGood'
    BY Parts, StaysGood DEF EventsGood
  <1>3. row' = row => RowsGood'
    BY Parts, StaysGood DEF RowsGood
  <1>4. UNCHANGED <<queue, pending, timers>> => TasksGood'
    BY Parts, StaysGood DEF TasksGood
  <1>5. jobs' = jobs => JobsGood'
    BY Parts DEF JobsGood
  <1>6. msgs' \subseteq msgs => MsgsGood'
    BY Parts, StaysGood DEF MsgsGood
  <1> QED BY <1>1, <1>2, <1>3, <1>4, <1>5, <1>6

LEMMA DiskSet ==
  ASSUME SyncInv, Grows, NEW p \in Peer, NEW f, GoodFile(f)', disk' = [disk EXCEPT ![p] = f]
  PROVE  DiskGood'
  <1>1. f \in File
    BY DEF GoodFile
  <1>2. disk' \in [Peer -> File]
    BY <1>1, Parts DEF DiskGood
  <1>3. ASSUME NEW q \in Peer PROVE GoodFile(disk[q])'
    <2>1. CASE q = p
      BY <2>1, Parts DEF DiskGood
    <2>2. CASE q # p
      <3>1. disk'[q] = disk[q] /\ GoodFile(disk[q])
        BY <2>2, Parts DEF DiskGood
      <3> QED BY <3>1, StaysGood DEF GoodFile
    <2> QED BY <2>1, <2>2
  <1> QED BY <1>2, <1>3 DEF DiskGood

LEMMA RowSet ==
  ASSUME SyncInv, Grows, NEW p \in Peer, NEW r, GoodRow(r)', row' = [row EXCEPT ![p] = r]
  PROVE  RowsGood'
  <1>1. r \in Row
    BY DEF GoodRow
  <1>2. row' \in [Peer -> Row]
    BY <1>1, Parts DEF RowsGood
  <1>3. ASSUME NEW q \in Peer PROVE GoodRow(row[q])'
    BY Parts, StaysGood DEF RowsGood
  <1> QED BY <1>2, <1>3 DEF RowsGood

LEMMA EventAdd ==
  ASSUME SyncInv, Grows, NEW p \in Peer, NEW e, GoodEvent(e)',
         events' = [events EXCEPT ![p] = Append(@, e)]
  PROVE  EventsGood'
  <1>1. e \in Event
    BY DEF GoodEvent
  <1>2. events \in [Peer -> Seq(Event)] /\ events[p] \in Seq(Event)
    BY Parts DEF EventsGood
  <1>3. events' \in [Peer -> Seq(Event)]
    BY <1>1, <1>2, SMTT(30)
  <1>4. ASSUME NEW q \in Peer, NEW i \in DOMAIN events'[q] PROVE GoodEvent(events[q][i])'
    <2>1. CASE q # p
      <3>1. events'[q] = events[q]
        BY <1>2, <2>1
      <3> QED BY <1>4, <3>1, Parts, StaysGood DEF EventsGood
    <2>2. CASE q = p
      <3>1. events'[q] = Append(events[p], e)
        BY <1>2, <2>2
      <3>2. (i \in DOMAIN events[p] /\ events'[q][i] = events[p][i]) \/ events'[q][i] = e
        BY <1>1, <1>2, <1>4, <3>1, SMTT(30)
      <3> QED BY <3>2, Parts, StaysGood DEF EventsGood
    <2> QED BY <2>1, <2>2
  <1> QED BY <1>3, <1>4 DEF EventsGood

LEMMA EventTake ==
  ASSUME SyncInv, Grows, NEW p \in Peer, events[p] # <<>>,
         events' = [events EXCEPT ![p] = Tail(@)]
  PROVE  EventsGood' /\ GoodEvent(Head(events[p]))
  <1>1. events \in [Peer -> Seq(Event)] /\ events[p] \in Seq(Event)
    BY Parts DEF EventsGood
  <1>2. events' \in [Peer -> Seq(Event)]
    BY <1>1, SMTT(30)
  <1>3. ASSUME NEW q \in Peer, NEW i \in DOMAIN events'[q] PROVE GoodEvent(events[q][i])'
    <2>1. CASE q # p
      <3>1. events'[q] = events[q]
        BY <1>1, <2>1
      <3> QED BY <1>3, <3>1, Parts, StaysGood DEF EventsGood
    <2>2. CASE q = p
      <3>1. events'[q] = Tail(events[p])
        BY <1>1, <2>2
      <3>2. i + 1 \in DOMAIN events[p] /\ events'[q][i] = events[p][i + 1]
        BY <1>1, <1>3, <3>1, SMTT(30)
      <3> QED BY <3>2, Parts, StaysGood DEF EventsGood
    <2> QED BY <2>1, <2>2
  <1>4. 1 \in DOMAIN events[p] /\ Head(events[p]) = events[p][1]
    BY <1>1, SMTT(30)
  <1>5. GoodEvent(Head(events[p]))
    BY <1>4, Parts DEF EventsGood
  <1> QED BY <1>2, <1>3, <1>5 DEF EventsGood

(* One peer's tasks change, to others of its own or to good ones.             *)
LEMMA TaskSet ==
  ASSUME SyncInv, Grows, NEW p \in Peer, NEW a, NEW b, NEW c,
         queue' = [queue EXCEPT ![p] = a], pending' = [pending EXCEPT ![p] = b],
         timers' = [timers EXCEPT ![p] = c],
         \A t \in a \cup b \cup c :
            t \in queue[p] \cup pending[p] \cup timers[p] \/ GoodTask(t)
  PROVE  TasksGood'
  <1>1. \A t \in a \cup b \cup c : GoodTask(t)
    BY Parts DEF TasksGood
  <1>2. a \in SUBSET Task /\ b \in SUBSET Task /\ c \in SUBSET Task
    BY <1>1 DEF GoodTask
  <1>3. queue \in [Peer -> SUBSET Task] /\ pending \in [Peer -> SUBSET Task]
        /\ timers \in [Peer -> SUBSET Task]
    BY Parts DEF TasksGood
  <1>4. queue' \in [Peer -> SUBSET Task] /\ pending' \in [Peer -> SUBSET Task]
        /\ timers' \in [Peer -> SUBSET Task]
    BY <1>2, <1>3
  <1>5. ASSUME NEW q \in Peer, NEW t \in queue'[q] \cup pending'[q] \cup timers'[q]
        PROVE  GoodTask(t)'
    <2>1. CASE q = p
      BY <1>1, <1>3, <1>5, <2>1, StaysGood
    <2>2. CASE q # p
      BY <1>3, <1>5, <2>2, Parts, StaysGood DEF TasksGood
    <2> QED BY <2>1, <2>2
  <1> QED BY <1>4, <1>5 DEF TasksGood

LEMMA MsgsSet ==
  ASSUME SyncInv, Grows, \A m \in msgs' : m \in msgs \/ GoodMsg(m)'
  PROVE  MsgsGood'
  BY Parts, StaysGood DEF MsgsGood

-----------------------------------------------------------------------------
(* The announcements among the messages.                                     *)

Bare(m) == [from |-> m.from, to |-> m.to, row |-> m.row]
Metas(S) == {m \in S : m.type = "meta"}

LEMMA AnnouncedIs == Announced = {Bare(m) : m \in Metas(msgs)}
  BY DEF Announced, Bare, Metas

LEMMA AnnouncedSame ==
  ASSUME Metas(msgs') = Metas(msgs)
  PROVE  Announced' = Announced
  BY DEF Announced, Metas

LEMMA AnnouncedAdd ==
  ASSUME NEW S, msgs' = msgs \cup S, \A m \in S : m.type = "meta"
  PROVE  Announced' = Announced \cup {Bare(m) : m \in S}
  BY DEF Announced, Bare

LEMMA Bares ==
  ASSUME NEW p, NEW r
  PROVE  /\ {Bare(m) : m \in Broadcast(p, r)} = Exchange!Broadcast(p, r)
         /\ \A q : {Bare(m) : m \in sendMetadataUpdateToPeer(p, q, r)}
                     = Exchange!sendMetadataUpdateToPeer(p, q, r)
         /\ \A q : {Bare(m) : m \in SyncAllRepositoriesWithPeer(p, q)}
                     = Exchange!SyncAllRepositoriesWithPeer(p, q)
         /\ \A m \in Broadcast(p, r) : m.type = "meta"
         /\ \A q : \A m \in sendMetadataUpdateToPeer(p, q, r) \cup SyncAllRepositoriesWithPeer(p, q) :
               m.type = "meta"
  <1>0. \A q, x : Bare(Meta(p, q, x)) = Exchange!Msg(p, q, x) /\ Meta(p, q, x).type = "meta"
    BY DEF Bare, Meta, Exchange!Msg
  <1>1. {Bare(m) : m \in Broadcast(p, r)} = Exchange!Broadcast(p, r)
    BY <1>0 DEF Broadcast, Exchange!Broadcast, Linked, Exchange!Linked
  <1>2. \A q : {Bare(m) : m \in sendMetadataUpdateToPeer(p, q, r)}
                     = Exchange!sendMetadataUpdateToPeer(p, q, r)
    BY <1>0 DEF sendMetadataUpdateToPeer, Exchange!sendMetadataUpdateToPeer, Linked, Exchange!Linked
  <1>3. \A q : {Bare(m) : m \in SyncAllRepositoriesWithPeer(p, q)}
                     = Exchange!SyncAllRepositoriesWithPeer(p, q)
    BY <1>0 DEF SyncAllRepositoriesWithPeer, Exchange!SyncAllRepositoriesWithPeer, Exists,
                Exchange!Exists
  <1>4. \A m \in Broadcast(p, r) : m.type = "meta"
    BY <1>0 DEF Broadcast
  <1>5. \A q : \A m \in sendMetadataUpdateToPeer(p, q, r) \cup SyncAllRepositoriesWithPeer(p, q) :
               m.type = "meta"
    BY <1>0 DEF sendMetadataUpdateToPeer, SyncAllRepositoriesWithPeer
  <1> QED BY <1>1, <1>2, <1>3, <1>4, <1>5

-----------------------------------------------------------------------------
(* The steps that the rows do not see.                                       *)

Follows == Exchange!Next \/ UNCHANGED Exchange!vars

LEMMA Silent ==
  ASSUME row' = row, Metas(msgs') = Metas(msgs), links' = links, Now' = Now,
         written' = written, warned' = warned
  PROVE  Follows
  <1>1. Announced' = Announced
    BY AnnouncedSame
  <1>2. Recorded' = Recorded
    BY DEF Recorded
  <1> QED BY <1>1, <1>2 DEF Follows, Exchange!vars

LEMMA SpendFacts ==
  ASSUME SyncInv, NEW what \in {"edits", "crashes", "drops", "faults", "breaks", "choices"},
         Spend(what), written' = written, what = "edits" => Now < MaxEdits
  PROVE  Grows /\ Now' = IF what = "edits" THEN Now + 1 ELSE Now
  <1>1. spent \in [{"edits", "crashes", "drops", "faults", "breaks", "choices"} -> Nat]
    BY DEF SyncInv
  <1>2. spent' = [spent EXCEPT ![what] = spent[what] + 1]
    BY DEF Spend
  <1>3. spent' \in [{"edits", "crashes", "drops", "faults", "breaks", "choices"} -> Nat]
    BY <1>1, <1>2, SMTT(30)
  <1>4. Now' = IF what = "edits" THEN Now + 1 ELSE Now
    BY <1>1, <1>2 DEF Now
  <1>5. Recorded' = Recorded
    BY DEF Recorded
  <1> QED BY <1>3, <1>4, <1>5, NowType, SMTT(30) DEF Grows

LEMMA TickFollows ==
  ASSUME SyncInv, Now < MaxEdits, Now' = Now + 1,
         UNCHANGED <<row, msgs, links, written, warned>>
  PROVE  Follows
  <1>1. Announced' = Announced /\ Recorded' = Recorded
    BY DEF Announced, Recorded
  <1>2. Exchange!Tick
    BY <1>1 DEF Exchange!Tick
  <1> QED BY <1>2 DEF Follows, Exchange!Next

LEMMA UserStep ==
  ASSUME SyncInv, NEW p \in Peer, UserDelete(p) \/ \E h \in Content : UserWrite(p, h)
  PROVE  SyncInv' /\ Follows
  <1> USE DEF dbVars, downloadVars, netVars, procVars
  <1>1. PICK h \in Content \cup {NoHash}, n \in Notice :
          /\ Now < MaxEdits /\ Spend("edits")
          /\ Touch(p, [hash |-> h, ts |-> Now + 1], n)
    BY DEF UserDelete, UserWrite, Now, Written, Notice
  <1>2. UNCHANGED <<events, jobs, row, written, queue, pending, timers, msgs, links, warned>>
    BY DEF UserDelete, UserWrite
  <1>3. Grows /\ Now' = Now + 1
    BY <1>1, <1>2, SpendFacts
  <1>f. PICK f : f = [hash |-> h, ts |-> Now + 1]
    OBVIOUS
  <1>4. GoodFile(f)'
    BY <1>3, <1>f, NowType, HashAssumption, SMTT(30) DEF GoodFile, File, Hash
  <1>5. DiskGood'
    BY <1>1, <1>3, <1>4, <1>f, DiskSet DEF Touch
  <1>6. SyncInv'
    BY <1>2, <1>3, <1>5, Keep, Parts
  <1> QED BY <1>1, <1>2, <1>3, <1>6, TickFollows

LEMMA ReportStep ==
  ASSUME SyncInv, NEW p \in Peer, ReportChange(p)
  PROVE  SyncInv' /\ Follows
  <1> USE DEF dbVars, downloadVars, netVars, procVars
  <1>1. UNCHANGED <<disk, jobs, row, written, queue, pending, timers, msgs, links, spent, warned>>
    BY DEF ReportChange
  <1>2. Grows /\ Now' = Now /\ Now \in Nat
    BY <1>1, Same, NowType
  <1>3. GoodFile(disk[p])
    BY Parts DEF DiskGood
  <1>4. EventsGood'
    <2>1. CASE events' = events
      BY <1>2, <2>1, Keep
    <2>2. CASE events' = [events EXCEPT ![p] = Append(@, [hash |-> NoHash, act |-> "delete", ts |-> Now])]
      <3>1. GoodEvent([hash |-> NoHash, act |-> "delete", ts |-> Now])'
        BY <1>2, HashAssumption, SMTT(30) DEF GoodEvent, Event, Hash
      <3> QED BY <1>2, <2>2, <3>1, EventAdd
    <2>3. ASSUME NEW a \in {"add", "modify"}, disk[p].hash # NoHash,
                 events' = [events EXCEPT ![p] =
                              Append(@, [hash |-> disk[p].hash, ts |-> disk[p].ts, act |-> a])]
          PROVE  EventsGood'
      <3>1. PICK e : e = [hash |-> disk[p].hash, ts |-> disk[p].ts, act |-> a]
        OBVIOUS
      <3>2. GoodEvent(e)
        BY <1>3, <2>3, <3>1 DEF GoodEvent, GoodFile, File, Event
      <3>3. GoodEvent(e)'
        BY <1>2, <3>2, StaysGood
      <3> QED BY <1>2, <2>3, <3>1, <3>3, EventAdd
    <2> QED BY <2>1, <2>2, <2>3 DEF ReportChange
  <1>5. SyncInv'
    BY <1>1, <1>2, <1>4, Keep, Parts
  <1> QED BY <1>1, <1>2, <1>5, Silent

(* Jobs of the daemon.                                                       *)
LEMMA JobStep ==
  ASSUME SyncInv, NEW p \in Peer, NEW j \in jobs[p],
         Fetch(p, j) \/ Rename(p, j) \/ DeleteFile(p, j) \/ FetchBreaks(p, j)
  PROVE  SyncInv' /\ Follows
  <1> USE DEF dbVars, downloadVars, netVars, procVars
  <1>1. UNCHANGED <<events, row, written, queue, pending, timers, msgs, links, warned>>
    BY DEF Fetch, Rename, DeleteFile, FetchBreaks
  <1>2. Grows /\ Now' = Now /\ Now \in Nat
    <2>1. CASE spent' = spent
      BY <1>1, <2>1, Same, NowType
    <2>2. CASE Spend("breaks")
      BY <1>1, <2>2, SpendFacts, NowType
    <2> QED BY <2>1, <2>2 DEF Fetch, Rename, DeleteFile, FetchBreaks
  <1>3. jobs \in [Peer -> SUBSET Job] /\ j \in Job
    BY Parts DEF JobsGood
  <1>4. j.do \in {"fetch", "rename"} => j \in [do : {"fetch", "rename"}, hash : Content, from : Peer]
    BY <1>3 DEF Job
  <1>5. JobsGood'
    <2>1. ASSUME NEW S \in SUBSET Job, Done(p, j, S) PROVE JobsGood'
      BY <1>3, <2>1 DEF Done, JobsGood
    <2>2. CASE Fetch(p, j)
      <3>1. [j EXCEPT !.do = "rename"] \in Job
        BY <1>4, <2>2 DEF Fetch, Job
      <3>2. Done(p, j, {[j EXCEPT !.do = "rename"]}) \/ Done(p, j, {})
        BY <2>2 DEF Fetch
      <3> QED BY <2>1, <3>1, <3>2
    <2>3. CASE Rename(p, j) \/ DeleteFile(p, j) \/ FetchBreaks(p, j)
      BY <2>1, <2>3 DEF Rename, DeleteFile, FetchBreaks
    <2> QED BY <2>2, <2>3
  <1>6. DiskGood'
    <2>1. CASE disk' = disk
      BY <1>2, <2>1, Keep
    <2>2. ASSUME NEW h \in Content \cup {NoHash}, disk' = [disk EXCEPT ![p] = [hash |-> h, ts |-> Now]]
          PROVE  DiskGood'
      <3>1. GoodFile([hash |-> h, ts |-> Now])'
        BY <1>2, HashAssumption, SMTT(30) DEF GoodFile, File, Hash
      <3> QED BY <1>2, <2>2, <3>1, DiskSet
    <2>3. CASE Rename(p, j)
      BY <1>4, <2>2, <2>3 DEF Rename, Touch
    <2>4. CASE DeleteFile(p, j)
      BY <2>1, <2>2, <2>4 DEF DeleteFile, Touch, NoFile
    <2>5. CASE Fetch(p, j) \/ FetchBreaks(p, j)
      BY <2>1, <2>5 DEF Fetch, FetchBreaks
    <2> QED BY <2>3, <2>4, <2>5
  <1>7. SyncInv'
    BY <1>1, <1>2, <1>5, <1>6, Keep, Parts
  <1> QED BY <1>1, <1>2, <1>7, Silent

LEMMA PhaseStep ==
  ASSUME SyncInv, NEW p \in Peer, Start(p) \/ StartDaemon(p)
  PROVE  SyncInv' /\ Follows
  <1>1. UNCHANGED <<disk, events, jobs, row, written, queue, pending, timers, msgs, links, spent, warned>>
    BY DEF Start, StartDaemon, daemonVars, dbVars, downloadVars, netVars
  <1>2. Grows /\ Now' = Now
    BY <1>1, Same
  <1>3. SyncInv'
    BY <1>1, <1>2, Keep, Parts
  <1> QED BY <1>1, <1>2, <1>3, Silent

(* Tasks of the queue and of the timers.                                     *)
LEMMA TaskStep ==
  ASSUME SyncInv, NEW p \in Peer,
         (\E t \in queue[p] : executeSyncTask(p, t)) \/ \E t \in timers[p] : RetryDownload(p, t)
  PROVE  SyncInv' /\ Follows
  <1> USE DEF daemonVars, dbVars, downloadVars, netVars, procVars
  <1>f. /\ queue = [queue EXCEPT ![p] = queue[p]] /\ pending = [pending EXCEPT ![p] = pending[p]]
        /\ timers = [timers EXCEPT ![p] = timers[p]]
    BY Parts DEF TasksGood
  <1>1. ASSUME NEW t \in queue[p], executeSyncTask(p, t) PROVE SyncInv' /\ Follows
    <2>1. /\ UNCHANGED <<disk, events, jobs, row, written, timers, links, spent, warned>>
          /\ queue' = [queue EXCEPT ![p] = queue[p] \ {t}]
          /\ pending' = [pending EXCEPT ![p] = {x \in pending[p] : x.hash # t.hash} \cup {t}]
          /\ msgs' = msgs \cup {Request(p, t.peer, t.hash)}
      BY <1>1 DEF executeSyncTask
    <2>2. Grows /\ Now' = Now
      BY <2>1, Same
    <2>3. GoodTask(t)
      BY Parts DEF TasksGood
    <2>4. TasksGood'
      <3>1. timers' = [timers EXCEPT ![p] = timers[p]]
        BY <1>f, <2>1
      <3> QED BY <2>1, <2>2, <3>1, TaskSet
    <2>5. GoodMsg(Request(p, t.peer, t.hash))
      BY <2>3 DEF GoodMsg, GoodTask, Task, Request
    <2>6. MsgsGood'
      BY <2>1, <2>2, <2>5, MsgsSet, StaysGood
    <2>7. Metas(msgs') = Metas(msgs)
      BY <2>1, SMTT(30) DEF Metas, Request
    <2>8. SyncInv'
      BY <2>1, <2>2, <2>4, <2>6, Keep, Parts
    <2> QED BY <2>1, <2>2, <2>7, <2>8, Silent
  <1>2. ASSUME NEW t \in timers[p], RetryDownload(p, t) PROVE SyncInv' /\ Follows
    <2>1. /\ UNCHANGED <<disk, events, jobs, row, written, pending, msgs, links, spent, warned>>
          /\ queue' = [queue EXCEPT ![p] = Push(queue[p], t)]
          /\ timers' = [timers EXCEPT ![p] = timers[p] \ {t}]
      BY <1>2 DEF RetryDownload
    <2>2. Grows /\ Now' = Now
      BY <2>1, Same
    <2>3. TasksGood'
      <3>1. pending' = [pending EXCEPT ![p] = pending[p]]
        BY <1>f, <2>1
      <3>2. Push(queue[p], t) \subseteq queue[p] \cup {t}
        BY DEF Push
      <3> QED BY <2>1, <2>2, <3>1, <3>2, TaskSet
    <2>4. SyncInv'
      BY <2>1, <2>2, <2>3, Keep, Parts
    <2> QED BY <2>1, <2>2, <2>4, Silent
  <1> QED BY <1>1, <1>2

(* Requests for a content, and answers to them.                              *)
LEMMA DeliverStep ==
  ASSUME SyncInv, NEW m \in msgs, HandleFileRequest(m) \/ DiscardResponse(m) \/ StartDownload(m)
  PROVE  SyncInv' /\ Follows
  <1> USE DEF daemonVars, dbVars, downloadVars, netVars, procVars
  <1>1. UNCHANGED <<disk, events, row, written, queue, timers, links, spent, warned>>
    BY DEF HandleFileRequest, DiscardResponse, StartDownload
  <1>2. Grows /\ Now' = Now
    BY <1>1, Same
  <1>3. GoodMsg(m) /\ m.type # "meta"
    BY Parts DEF MsgsGood, HandleFileRequest, DiscardResponse, StartDownload
  <1>4. m.from \in Peer /\ m.to \in Peer /\ m.hash \in Content /\ m.hash \in Recorded
    BY <1>3 DEF GoodMsg
  <1>5. MsgsGood' /\ Metas(msgs') = Metas(msgs)
    <2>1. CASE msgs' = msgs \ {m}
      BY <1>2, <1>3, <2>1, Keep, SMTT(30) DEF Metas
    <2>2. CASE HandleFileRequest(m)
      <3>1. PICK c \in Hash : c = disk[m.to].hash
        BY <1>4, Parts DEF DiskGood, File
      <3>2. PICK kind \in {"error", "inline", "port"} :
              msgs' = (msgs \ {m}) \cup {Response(m.to, m.from, m.hash, kind, c)}
        BY <2>2, <3>1 DEF HandleFileRequest
      <3>3. GoodMsg(Response(m.to, m.from, m.hash, kind, c))
        BY <1>4 DEF GoodMsg, Response
      <3>4. PICK a : a = Response(m.to, m.from, m.hash, kind, c)
        OBVIOUS
      <3>5. GoodMsg(a)'
        BY <1>2, <3>3, <3>4, StaysGood
      <3>6. MsgsGood'
        BY <1>2, <3>2, <3>4, <3>5, MsgsSet
      <3>7. Metas(msgs') = Metas(msgs)
        BY <1>3, <3>2, SMTT(30) DEF Metas, Response
      <3> QED BY <3>6, <3>7
    <2> QED BY <2>1, <2>2 DEF DiscardResponse, StartDownload
  <1>6. TasksGood'
    <2>1. CASE pending' = pending
      BY <1>1, <1>2, <2>1, Keep
    <2>2. CASE Answered(m.to, m.hash)
      <3>1. /\ queue' = [queue EXCEPT ![m.to] = queue[m.to]]
            /\ timers' = [timers EXCEPT ![m.to] = timers[m.to]]
        BY <1>1, Parts DEF TasksGood
      <3>2. pending' = [pending EXCEPT ![m.to] = {t \in pending[m.to] : t.hash # m.hash}]
        BY <2>2 DEF Answered
      <3> QED BY <1>2, <1>4, <3>1, <3>2, TaskSet
    <2> QED BY <2>1, <2>2 DEF HandleFileRequest, DiscardResponse, StartDownload
  <1>7. JobsGood'
    <2>1. CASE jobs' = jobs
      BY <1>2, <2>1, Keep
    <2>2. CASE jobs' = [jobs EXCEPT ![m.to] =
                          @ \cup {[do |-> "fetch", hash |-> m.hash, from |-> m.from]}]
      <3>1. [do |-> "fetch", hash |-> m.hash, from |-> m.from] \in Job
        BY <1>4 DEF Job
      <3> QED BY <1>4, <2>2, <3>1, Parts DEF JobsGood
    <2> QED BY <2>1, <2>2 DEF HandleFileRequest, DiscardResponse, StartDownload
  <1>8. SyncInv'
    BY <1>1, <1>2, <1>5, <1>6, <1>7, Keep, Parts
  <1> QED BY <1>1, <1>2, <1>5, <1>8, Silent

-----------------------------------------------------------------------------
(* The steps of the metadata plane.  What FileRows defines is the same there.  *)

LEMMA SameRows ==
  /\ Exchange!NoRow = NoRow
  /\ \A r : Exchange!Exists(r) <=> Exists(r)
  /\ \A r, h, a : Exchange!Redundant(r, h, a) <=> Redundant(r, h, a)
  /\ \A r, h, a : Exchange!NextVersion(r, h, a) = NextVersion(r, h, a)
  /\ \A r, h, a, t : Exchange!LocalRow(r, h, a, t) = LocalRow(r, h, a, t)
  /\ \A r, h, t : Exchange!InlineRow(r, h, t) = InlineRow(r, h, t)
  /\ \A r, h, t : Exchange!ScannedRow(r, h, t) = ScannedRow(r, h, t)
  /\ \A r, p, u, q : Exchange!Resolve(Exchange!Version(r, p), Exchange!Version(u, q))
                       = Resolve(Version(r, p), Version(u, q))
  BY SMTT(30) DEF Exchange!NoRow, NoRow, Exchange!Exists, Exists, Exchange!Redundant, Redundant,
     Exchange!NextVersion, NextVersion, Exchange!SizeZero, SizeZero, Exchange!LocalRow, LocalRow,
     Exchange!InlineRow, InlineRow, Exchange!ScannedRow, ScannedRow, Exchange!Millis, Millis,
     Exchange!Resolve, Resolve, Exchange!resolveConcurrent, resolveConcurrent,
     Exchange!Resolution, Resolution, Exchange!Version, Version

ResolvesAs(r, p, u, q, res) ==
  Exchange!Resolve(Exchange!Version(r, p), Exchange!Version(u, q)) = res

LEMMA SameResolve ==
  ASSUME NEW r, NEW p, NEW u, NEW q, NEW res, res = Resolve(Version(r, p), Version(u, q))
  PROVE  ResolvesAs(r, p, u, q, res)
  BY SameRows, SMTT(30) DEF ResolvesAs

LEMMA SomeTime ==
  ASSUME SyncInv, NEW t \in Nat, t <= Now
  PROVE  t \in Exchange!Time /\ ~(t > Now)
  BY NowType, SMTT(30) DEF Exchange!Time

LEMMA RecordedAdd ==
  ASSUME NEW h, NEW v, written' = written \cup {<<h, v>>}
  PROVE  Recorded' = Recorded \cup {h}
  <1>1. <<h, v>>[1] = h
    OBVIOUS
  <1>2. Recorded' = {w[1] : w \in written \cup {<<h, v>>}}
    BY DEF Recorded
  <1>3. PICK w0 : w0 = <<h, v>>
    OBVIOUS
  <1>4. Recorded' = {w[1] : w \in written \cup {w0}} /\ w0[1] = h
    BY <1>1, <1>2, <1>3
  <1>5. {w[1] : w \in written \cup {w0}} = {w[1] : w \in written} \cup {w0[1]}
    OBVIOUS
  <1> QED BY <1>4, <1>5 DEF Recorded

LEMMA AnnouncedTake ==
  ASSUME SyncInv, NEW m \in msgs, m.type = "meta", NEW S, \A n \in S : n.type = "meta",
         msgs' = (msgs \ {m}) \cup S
  PROVE  Bare(m) \in Announced /\ Announced' = (Announced \ {Bare(m)}) \cup {Bare(n) : n \in S}
  <1>1. \A n \in msgs : n.type = "meta" =>
          n \in [type : {"meta"}, from : Peer, to : Peer, row : Row]
    BY Parts DEF MsgsGood, GoodMsg
  <1>2. ASSUME NEW n \in msgs, n.type = "meta", Bare(n) = Bare(m) PROVE n = m
    <2>1. n.from = m.from /\ n.to = m.to /\ n.row = m.row
      BY <1>2 DEF Bare
    <2> QED BY <1>1, <1>2, <2>1, SMTT(30)
  <1>3. Announced = {Bare(n) : n \in {x \in msgs : x.type = "meta"}}
    BY DEF Announced, Bare
  <1>4. Announced' = {Bare(n) : n \in {x \in msgs' : x.type = "meta"}}
    BY DEF Announced, Bare
  <1> QED BY <1>2, <1>3, <1>4

LEMMA MetaGood ==
  ASSUME SyncInv, Grows, NEW p \in Peer, NEW r, GoodRow(r)'
  PROVE  /\ \A m \in Broadcast(p, r) : GoodMsg(m)'
         /\ \A q \in Peer : \A m \in sendMetadataUpdateToPeer(p, q, r) : GoodMsg(m)'
         /\ \A q \in Peer : GoodMsg(Meta(p, q, r))'
  <1>1. ASSUME NEW q \in Peer PROVE GoodMsg(Meta(p, q, r))'
    BY DEF GoodMsg, Meta, GoodRow
  <1>2. ASSUME NEW m \in Broadcast(p, r) PROVE GoodMsg(m)'
    <2>1. PICK q \in Peer : m = Meta(p, q, r)
      BY DEF Broadcast
    <2> QED BY <1>1, <2>1
  <1>3. ASSUME NEW q \in Peer, NEW m \in sendMetadataUpdateToPeer(p, q, r) PROVE GoodMsg(m)'
    <2>1. m = Meta(p, q, r)
      BY <1>3 DEF sendMetadataUpdateToPeer
    <2> QED BY <1>1, <2>1
  <1> QED BY <1>1, <1>2, <1>3

LEMMA LocalStep ==
  ASSUME SyncInv, NEW p \in Peer, HandleLocalFileChanged(p)
  PROVE  SyncInv' /\ Follows
  <1> USE DEF dbVars, downloadVars
  <1>e. PICK e : e = Head(events[p])
    OBVIOUS
  <1>n. PICK new : new = LocalRow(row[p], e.hash, e.act, e.ts)
    OBVIOUS
  <1>1. /\ UNCHANGED <<disk, jobs, queue, pending, timers, links, spent, warned>>
        /\ events[p] # <<>> /\ events' = [events EXCEPT ![p] = Tail(@)]
    BY DEF HandleLocalFileChanged, LocalChange
  <1>2. Now' = Now /\ Now \in Nat
    BY <1>1, Same, NowType
  <1>3. CASE Redundant(row[p], e.hash, e.act) /\ UNCHANGED <<row, written, msgs>>
    <2>1. Grows
      BY <1>1, <1>3, Same
    <2>2. SyncInv'
      BY <1>1, <1>3, <2>1, EventTake, Keep, Parts
    <2> QED BY <1>1, <1>2, <1>3, <2>2, Silent
  <1>4. CASE /\ ~Redundant(row[p], e.hash, e.act)
             /\ new.ver <= MaxVersion
             /\ row' = [row EXCEPT ![p] = new]
             /\ written' = written \cup {<<e.hash, new.ver>>}
             /\ msgs' = IF e.hash = Empty THEN msgs ELSE msgs \cup Broadcast(p, new)
    <2>1. Recorded' = Recorded \cup {e.hash}
      BY <1>4, RecordedAdd
    <2>2. Grows
      BY <1>1, <1>2, <2>1, NowType, SMTT(30) DEF Grows, SyncInv
    <2>3. EventsGood' /\ GoodEvent(e)
      BY <1>1, <1>e, <2>2, EventTake
    <2>4. /\ e.hash \in Content \cup {NoHash} /\ e.act \in {"add", "modify", "delete"}
          /\ e.ts \in Nat /\ e.ts <= Now /\ (e.act = "delete" <=> e.hash = NoHash)
      BY <2>3 DEF GoodEvent, Event, Hash
    <2>5. row \in [Peer -> Row] /\ row[p] \in Row /\ row[p].ver \in Nat
      BY Parts DEF RowsGood, Row
    <2>6. GoodRow(new)'
      <3>1. new.ver \in Nat /\ new.ver > 0
        BY <1>n, <2>5, SMTT(30) DEF LocalRow, NextVersion, Exists
      <3>2. new.hash = e.hash /\ new.del = (e.act = "delete") /\ new.ts = e.ts
        BY <1>n DEF LocalRow
      <3>3. new = [hash |-> e.hash, ver |-> new.ver, ts |-> e.ts, del |-> e.act = "delete"]
        BY <1>n DEF LocalRow
      <3>4. \A h \in Hash, v, t \in Nat, d \in BOOLEAN : [hash |-> h, ver |-> v, ts |-> t, del |-> d] \in Row
        BY DEF Row
      <3>5. new \in Row
        <4>1. CASE e.act = "delete"
          <5>1. new = [hash |-> e.hash, ver |-> new.ver, ts |-> e.ts, del |-> TRUE]
            BY <3>3, <4>1
          <5> QED BY <2>4, <3>1, <3>4, <5>1 DEF Hash
        <4>2. CASE e.act # "delete"
          <5>1. new = [hash |-> e.hash, ver |-> new.ver, ts |-> e.ts, del |-> FALSE]
            BY <3>3, <4>2
          <5> QED BY <2>4, <3>1, <3>4, <5>1 DEF Hash
        <4> QED BY <4>1, <4>2
      <3> QED BY <2>1, <2>4, <3>1, <3>2, <3>5 DEF GoodRow, Exists
    <2>7. RowsGood'
      BY <1>4, <2>2, <2>6, RowSet
    <2>8. msgs' = msgs \cup Broadcast(p, new) /\ e.hash # Empty
      BY <1>4, <2>4, HashAssumption
    <2>9. MsgsGood'
      BY <2>2, <2>6, <2>8, MetaGood, MsgsSet
    <2>10. SyncInv'
      BY <1>1, <2>2, <2>3, <2>7, <2>9, Keep, Parts
    <2>11. Announced' = Announced \cup Exchange!Broadcast(p, new)
      BY <2>8, AnnouncedAdd, Bares
    <2>12. Exchange!HandleLocalFileChanged(p, e.hash, e.act, e.ts)
      <3>1. Exchange!Room /\ row'[p] = new
        BY <1>4, <2>5 DEF Exchange!Room
      <3>2. Exchange!NextVersion(row[p], e.hash, e.act) <= MaxVersion
        BY <1>n, <1>4, SameRows DEF LocalRow
      <3> QED BY <1>1, <1>2, <1>n, <1>4, <2>1, <2>4, <2>8, <2>11, <3>1, <3>2, SameRows, SomeTime
              DEF Exchange!HandleLocalFileChanged
    <2>13. e.ts \in Exchange!Time
      BY <2>4, SomeTime
    <2>14. Exchange!Next
      <3>1. CASE e.hash = NoHash
        BY <2>4, <2>12, <2>13, <3>1 DEF Exchange!Next, Exchange!DeleteNext
      <3>2. CASE e.hash # NoHash
        BY <2>4, <2>12, <2>13, <3>2 DEF Exchange!Next, Exchange!EditNext
      <3> QED BY <3>1, <3>2
    <2> QED BY <2>10, <2>14 DEF Follows
  <1> QED BY <1>e, <1>n, <1>3, <1>4 DEF HandleLocalFileChanged, LocalChange, Save

LEMMA ResolveFacts ==
  ASSUME NEW r \in Row, NEW u \in Row, NEW p, NEW q, NEW res, res = Resolve(Version(r, p), Version(u, q))
  PROVE  /\ res.action = "Skip" => r.hash = u.hash /\ ~res.isConflict
         /\ res.action = "AcceptRemote" => r.hash # u.hash /\ u.ver >= r.ver
         /\ res.action \in {"Skip", "AcceptRemote", "KeepLocal"}
         /\ res.isConflict \in BOOLEAN
  BY SMTT(30) DEF Resolve, resolveConcurrent, Resolution, Version, Row

LEMMA UpdateStep ==
  ASSUME SyncInv, NEW m \in msgs, HandlePeerMetadataUpdate(m)
  PROVE  SyncInv' /\ Follows
  <1> USE DEF dbVars, downloadVars
  <1>p. PICK p : p = m.to
    OBVIOUS
  <1>r. PICK res : res = Resolve(Version(row[p], p), Version(m.row, m.from))
    OBVIOUS
  <1>t. PICK task : task = [hash |-> m.row.hash, peer |-> m.from, retries |-> 0]
    OBVIOUS
  <1>1. /\ m.type = "meta"
        /\ UNCHANGED <<disk, events, written, pending, timers, links, spent>>
        /\ warned' = IF res.isConflict THEN warned \cup {p} ELSE warned
    BY <1>p, <1>r DEF HandlePeerMetadataUpdate, PeerUpdate
  <1>2. Grows /\ Now' = Now
    BY <1>1, Same
  <1>3. m \in [type : {"meta"}, from : Peer, to : Peer, row : Row] /\ GoodRow(m.row)
    BY <1>1, Parts DEF MsgsGood, GoodMsg
  <1>4. m.from \in Peer /\ p \in Peer /\ m.row \in Row
    BY <1>3, <1>p
  <1>5. row \in [Peer -> Row] /\ row[p] \in Row /\ GoodRow(row[p])
    BY <1>4, Parts DEF RowsGood
  <1>6. /\ res.action = "Skip" => row[p].hash = m.row.hash /\ ~res.isConflict
        /\ res.action = "AcceptRemote" => row[p].hash # m.row.hash /\ m.row.ver >= row[p].ver
        /\ res.action \in {"Skip", "AcceptRemote", "KeepLocal"}
        /\ res.isConflict \in BOOLEAN
    BY <1>4, <1>5, <1>r, ResolveFacts
  <1>7. ASSUME m.row.hash \in Content \cap Recorded PROVE GoodTask(task)
    BY <1>4, <1>7, <1>t, SMTT(30) DEF GoodTask, Task, MaxDownloadRetries
  <1>8. ASSUME UNCHANGED queue \/ (GoodTask(task) /\ queue' = [queue EXCEPT ![p] = Push(@, task)])
        PROVE  TasksGood'
    <2>1. CASE UNCHANGED queue
      BY <1>1, <1>2, <2>1, Keep
    <2>2. CASE GoodTask(task) /\ queue' = [queue EXCEPT ![p] = Push(@, task)]
      <3>1. /\ pending' = [pending EXCEPT ![p] = pending[p]]
            /\ timers' = [timers EXCEPT ![p] = timers[p]]
        BY <1>1, Parts DEF TasksGood
      <3>2. queue' = [queue EXCEPT ![p] = Push(queue[p], task)]
        BY <2>2
      <3>3. Push(queue[p], task) \subseteq queue[p] \cup {task}
        BY DEF Push
      <3> QED BY <1>2, <1>4, <2>2, <3>1, <3>2, <3>3, TaskSet
    <2> QED BY <1>8, <2>1, <2>2
  <1>9. ASSUME NEW S, \A n \in S : n.type = "meta", msgs' = (msgs \ {m}) \cup S,
               {Bare(n) : n \in S} = IF res.action = "KeepLocal" /\ ~res.isConflict
                    THEN Exchange!sendMetadataUpdateToPeer(p, m.from, row[p]) ELSE {},
               row' = IF res.action = "AcceptRemote" THEN [row EXCEPT ![p] = m.row] ELSE row
        PROVE  Follows
    <2>b. PICK b : b = Bare(m)
      OBVIOUS
    <2>1. b \in Announced /\ Announced' = (Announced \ {b}) \cup {Bare(n) : n \in S}
      BY <1>1, <1>9, <2>b, AnnouncedTake
    <2>2. b.from = m.from /\ b.to = p /\ b.row = m.row
      BY <1>p, <2>b DEF Bare
    <2>3. (warned' # {}) <=> (warned # {} \/ res.isConflict)
      BY <1>1, <1>6
    <2>4. Recorded' = Recorded
      BY <1>1 DEF Recorded
    <2>5. Exchange!Resolve(Exchange!Version(row[b.to], b.to), Exchange!Version(b.row, b.from)) = res
      <3>1. Exchange!Resolve(Exchange!Version(row[p], p), Exchange!Version(m.row, m.from)) = res
        <4>1. ResolvesAs(row[p], p, m.row, m.from, res)
          BY <1>r, SameResolve
        <4> QED BY <4>1 DEF ResolvesAs
      <3> QED BY <2>2, <3>1
    <2>6. Exchange!HandlePeerMetadataUpdate(b)
      BY <1>1, <1>2, <1>9, <2>1, <2>2, <2>3, <2>4, <2>5 DEF Exchange!HandlePeerMetadataUpdate
    <2> QED BY <2>1, <2>6 DEF Follows, Exchange!Next, Exchange!NetNext
  <1>10. CASE /\ res.action = "AcceptRemote" /\ Save(p, m.row)
              /\ IF m.row.del
                   THEN /\ jobs' = IF phase[p] = "up" THEN [jobs EXCEPT ![p] = @ \cup {[do |-> "delete"]}]
                                   ELSE jobs
                        /\ UNCHANGED queue
                   ELSE /\ UNCHANGED queue \/ queue' = [queue EXCEPT ![p] = Push(@, task)]
                        /\ UNCHANGED jobs
              /\ msgs' = msgs \ {m}
    <2>1. row' = [row EXCEPT ![p] = m.row]
      BY <1>10 DEF Save
    <2>2. m.row # NoRow
      <3>1. row[p].hash # m.row.hash /\ m.row.ver >= row[p].ver
        BY <1>6, <1>10
      <3>2. ASSUME m.row = NoRow PROVE FALSE
        <4>1. m.row.ver = 0 /\ m.row.hash = NoHash
          BY <3>2, SMTT(30) DEF NoRow
        <4>2. row[p].ver \in Nat
          BY <1>5 DEF Row
        <4>3. row[p].ver = 0
          BY <3>1, <4>1, <4>2, SMTT(30)
        <4>4. row[p] = NoRow
          BY <1>5, <4>3, SMTT(30) DEF GoodRow, Exists
        <4> QED BY <3>1, <3>2, <4>4
      <3> QED BY <3>2
    <2>3. ~m.row.del => m.row.hash \in Content \cap Recorded
      BY <1>3, <2>2 DEF GoodRow
    <2>4. TasksGood'
      BY <1>7, <1>8, <1>10, <2>3
    <2>5. JobsGood'
      <3>1. [do |-> "delete"] \in Job
        BY DEF Job
      <3>2. jobs \in [Peer -> SUBSET Job]
        BY Parts DEF JobsGood
      <3> QED BY <1>10, <3>1, <3>2 DEF JobsGood
    <2>6. PICK u : u = m.row
      OBVIOUS
    <2>7. GoodRow(u)'
      BY <1>2, <1>3, <2>6, StaysGood
    <2>8. RowsGood'
      BY <1>2, <1>4, <2>1, <2>6, <2>7, RowSet
    <2>9. SyncInv'
      BY <1>1, <1>2, <1>10, <2>4, <2>5, <2>8, Keep, Parts
    <2>10. msgs' = (msgs \ {m}) \cup {} /\ {Bare(n) : n \in {}} = {}
      BY <1>10
    <2> QED BY <1>9, <1>10, <2>1, <2>9, <2>10
  <1>11. CASE /\ res.action = "KeepLocal"
              /\ msgs' = (msgs \ {m}) \cup
                           IF res.isConflict THEN {} ELSE sendMetadataUpdateToPeer(p, m.from, row[p])
              /\ UNCHANGED <<row, jobs, queue>>
    <2>1. PICK S : S = IF res.isConflict THEN {} ELSE sendMetadataUpdateToPeer(p, m.from, row[p])
      OBVIOUS
    <2>2. PICK u : u = row[p]
      OBVIOUS
    <2>3. GoodRow(u)'
      BY <1>2, <1>5, <2>2, StaysGood
    <2>4. \A n \in S : GoodMsg(n)'
      BY <1>2, <1>4, <2>1, <2>2, <2>3, MetaGood
    <2>5. MsgsGood'
      BY <1>2, <1>11, <2>1, <2>4, MsgsSet
    <2>6. SyncInv'
      BY <1>1, <1>2, <1>11, <2>5, Keep, Parts
    <2>7. \A n \in S : n.type = "meta"
      BY <2>1, Bares
    <2>8. {Bare(n) : n \in S} = IF res.action = "KeepLocal" /\ ~res.isConflict
                    THEN Exchange!sendMetadataUpdateToPeer(p, m.from, row[p]) ELSE {}
      <3>1. CASE res.isConflict
        BY <2>1, <3>1
      <3>2. CASE ~res.isConflict
        BY <1>11, <2>1, <3>2, Bares
      <3> QED BY <3>1, <3>2
    <2> QED BY <1>9, <1>11, <2>1, <2>6, <2>7, <2>8
  <1>12. CASE /\ res.action = "Skip"
              /\ queue' = IF Exists(row[p]) /\ ~row[p].del /\ disk[p].hash = NoHash
                            THEN [queue EXCEPT ![p] = Push(@, task)] ELSE queue
              /\ msgs' = msgs \ {m}
              /\ UNCHANGED <<row, jobs>>
    <2>1. Exists(row[p]) /\ ~row[p].del => m.row.hash \in Content \cap Recorded
      BY <1>5, <1>6, <1>12, SMTT(30) DEF GoodRow, NoRow, Exists
    <2>2. TasksGood'
      BY <1>7, <1>8, <1>12, <2>1
    <2>3. SyncInv'
      BY <1>1, <1>2, <1>12, <2>2, Keep, Parts
    <2>4. msgs' = (msgs \ {m}) \cup {} /\ {Bare(n) : n \in {}} = {}
      BY <1>12
    <2> QED BY <1>9, <1>12, <2>3, <2>4
  <1> QED
    <2>1. PeerUpdate(m, row[p])
      BY <1>p DEF HandlePeerMetadataUpdate
    <2> QED BY <1>p, <1>r, <1>t, <1>10, <1>11, <1>12, <2>1 DEF PeerUpdate

(* An answer that is stored or whose transfer fails.                          *)
LEMMA AnswerFacts ==
  ASSUME SyncInv, Grows, NEW m \in msgs, m.type = "response", msgs' = msgs \ {m}
  PROVE  /\ m.to \in Peer /\ m.hash \in Content /\ m.hash \in Recorded
         /\ MsgsGood' /\ Metas(msgs') = Metas(msgs)
         /\ Answered(m.to, m.hash) =>
              \E b : /\ pending' = [pending EXCEPT ![m.to] = b]
                     /\ b \subseteq pending[m.to]
  <1>1. GoodMsg(m)
    BY Parts DEF MsgsGood
  <1>2. m.to \in Peer /\ m.hash \in Content /\ m.hash \in Recorded
    BY <1>1 DEF GoodMsg
  <1>3. MsgsGood'
    BY Keep
  <1>4. Metas(msgs') = Metas(msgs)
    BY DEF Metas
  <1>5. Answered(m.to, m.hash) =>
              \E b : /\ pending' = [pending EXCEPT ![m.to] = b]
                     /\ b \subseteq pending[m.to]
    <2>1. PICK b : b = {t \in pending[m.to] : t.hash # m.hash}
      OBVIOUS
    <2>2. Answered(m.to, m.hash) => pending' = [pending EXCEPT ![m.to] = b]
      BY <2>1 DEF Answered
    <2> QED BY <2>1, <2>2
  <1> QED BY <1>2, <1>3, <1>4, <1>5

LEMMA InlineStep ==
  ASSUME SyncInv, NEW m \in msgs, StoreInline(m)
  PROVE  SyncInv' /\ Follows
  <1>p. PICK p : p = m.to
    OBVIOUS
  <1>1. /\ m.type = "response" /\ msgs' = msgs \ {m} /\ Answered(p, m.hash)
        /\ UNCHANGED <<events, jobs, written, queue, timers, links, spent, warned>>
    BY <1>p DEF StoreInline
  <1>2. Grows /\ Now' = Now /\ Now \in Nat
    BY <1>1, Same, NowType
  <1>3. /\ p \in Peer /\ m.hash \in Content /\ m.hash \in Recorded
        /\ MsgsGood' /\ Metas(msgs') = Metas(msgs)
        /\ \E b : pending' = [pending EXCEPT ![p] = b] /\ b \subseteq pending[p]
    BY <1>p, <1>1, <1>2, AnswerFacts
  <1>4. TasksGood'
    <2>1. PICK b : pending' = [pending EXCEPT ![p] = b] /\ b \subseteq pending[p]
      BY <1>3
    <2>2. /\ queue' = [queue EXCEPT ![p] = queue[p]]
          /\ timers' = [timers EXCEPT ![p] = timers[p]]
      BY <1>1, Parts DEF TasksGood
    <2> QED BY <1>2, <1>3, <2>1, <2>2, TaskSet
  <1>5. CASE UNCHANGED <<disk, row>>
    <2>1. SyncInv'
      BY <1>1, <1>2, <1>3, <1>4, <1>5, Keep, Parts
    <2> QED BY <1>1, <1>2, <1>3, <1>5, <2>1, Silent
  <1>6. CASE /\ disk' = [disk EXCEPT ![p] = [hash |-> m.hash, ts |-> Now]]
             /\ row' = [row EXCEPT ![p] = InlineRow(row[p], m.hash, Now)]
    <2>1. PICK f : f = [hash |-> m.hash, ts |-> Now]
      OBVIOUS
    <2>2. GoodFile(f)'
      BY <1>2, <1>3, <2>1, HashAssumption, SMTT(30) DEF GoodFile, File, Hash
    <2>3. DiskGood'
      BY <1>2, <1>3, <1>6, <2>1, <2>2, DiskSet
    <2>4. PICK new : new = InlineRow(row[p], m.hash, Now)
      OBVIOUS
    <2>5. row[p] \in Row /\ row[p].ver \in Nat
      BY <1>3, Parts DEF RowsGood, Row
    <2>6. new \in Row /\ new.ver > 0 /\ new.hash = m.hash
      BY <1>2, <1>3, <2>4, <2>5, SMTT(30) DEF InlineRow, Row, Hash, Exists
    <2>7. Recorded' = Recorded
      BY <1>1 DEF Recorded
    <2>8. GoodRow(new)'
      BY <1>3, <2>6, <2>7 DEF GoodRow, Exists
    <2>9. RowsGood'
      BY <1>2, <1>3, <1>6, <2>4, <2>8, RowSet
    <2>10. SyncInv'
      BY <1>1, <1>2, <1>3, <1>4, <2>3, <2>9, Keep, Parts
    <2>11. Announced' = Announced
      BY <1>3, AnnouncedSame
    <2>12. Exchange!StoreInline(p, m.hash, Now)
      BY <1>1, <1>2, <1>6, <2>7, <2>11, SameRows DEF Exchange!StoreInline
    <2>13. Now \in Exchange!Time
      BY <1>2, SomeTime, SMTT(30)
    <2> QED BY <1>3, <2>10, <2>12, <2>13 DEF Follows, Exchange!Next, Exchange!RecoveryNext
  <1> QED BY <1>p, <1>5, <1>6 DEF StoreInline, Touch, Save

LEMMA FailStep ==
  ASSUME SyncInv, NEW m \in msgs, DownloadFails(m)
  PROVE  SyncInv' /\ Follows
  <1>p. PICK p : p = m.to
    OBVIOUS
  <1>1. /\ m.type = "response" /\ msgs' = msgs \ {m} /\ Answered(p, m.hash) /\ Spend("faults")
        /\ UNCHANGED <<disk, events, jobs, written, queue, links, warned>>
    BY <1>p DEF DownloadFails, daemonVars
  <1>2. Grows /\ Now' = Now
    BY <1>1, SpendFacts
  <1>3. /\ p \in Peer /\ MsgsGood' /\ Metas(msgs') = Metas(msgs)
        /\ \E b : pending' = [pending EXCEPT ![p] = b] /\ b \subseteq pending[p]
    BY <1>p, <1>1, <1>2, AnswerFacts
  <1>4. PICK b : pending' = [pending EXCEPT ![p] = b] /\ b \subseteq pending[p]
    BY <1>3
  <1>5. queue' = [queue EXCEPT ![p] = queue[p]]
    BY <1>1, Parts DEF TasksGood
  <1>6. PICK t \in pending[p] :
          IF t.retries < MaxDownloadRetries
            THEN timers' = [timers EXCEPT ![p] = @ \cup {[t EXCEPT !.retries = @ + 1]}] /\ UNCHANGED row
            ELSE row' = [row EXCEPT ![p] = NoRow] /\ UNCHANGED timers
    BY <1>p DEF DownloadFails
  <1>7. CASE t.retries < MaxDownloadRetries
    <2>1. GoodTask(t)
      BY <1>3, Parts DEF TasksGood
    <2>2. PICK u : u = [t EXCEPT !.retries = t.retries + 1]
      OBVIOUS
    <2>3. GoodTask(u)
      BY <1>7, <2>1, <2>2, SMTT(30) DEF GoodTask, Task, MaxDownloadRetries
    <2>4. PICK c : c = timers[p] \cup {u}
      OBVIOUS
    <2>5. timers' = [timers EXCEPT ![p] = c] /\ UNCHANGED row
      BY <1>6, <1>7, <2>2, <2>4
    <2>6. TasksGood'
      BY <1>2, <1>3, <1>4, <1>5, <2>3, <2>4, <2>5, TaskSet
    <2>7. SyncInv'
      BY <1>1, <1>2, <1>3, <2>5, <2>6, Keep, Parts
    <2> QED BY <1>1, <1>2, <1>3, <2>5, <2>7, Silent
  <1>8. CASE ~(t.retries < MaxDownloadRetries)
    <2>1. row' = [row EXCEPT ![p] = NoRow] /\ timers' = [timers EXCEPT ![p] = timers[p]]
      BY <1>6, <1>8, Parts DEF TasksGood
    <2>2. TasksGood'
      BY <1>2, <1>3, <1>4, <1>5, <2>1, TaskSet
    <2>3. GoodRow(NoRow)'
      BY DEF GoodRow, NoRow, Row, Hash
    <2>4. RowsGood'
      BY <1>2, <1>3, <2>1, <2>3, RowSet
    <2>5. SyncInv'
      BY <1>1, <1>2, <1>3, <2>2, <2>4, Keep, Parts
    <2>6. row \in [Peer -> Row] /\ GoodRow(row[p])
      BY <1>3, Parts DEF RowsGood
    <2>7. CASE row[p] = NoRow
      <3>1. row' = row
        BY <2>1, <2>6, <2>7
      <3> QED BY <1>1, <1>2, <1>3, <2>5, <3>1, Silent
    <2>8. CASE row[p] # NoRow
      <3>1. Announced' = Announced /\ Recorded' = Recorded
        BY <1>1, <1>3, AnnouncedSame DEF Recorded
      <3>2. Exists(row[p])
        BY <2>6, <2>8 DEF GoodRow
      <3>3. Exchange!HardDelete(p)
        BY <1>1, <1>2, <2>1, <3>1, <3>2, SameRows DEF Exchange!HardDelete
      <3> QED BY <1>3, <2>5, <3>3 DEF Follows, Exchange!Next, Exchange!RecoveryNext
    <2> QED BY <2>7, <2>8
  <1> QED BY <1>7, <1>8

(* The start-up scan.                                                        *)
LEMMA ScannedFacts ==
  ASSUME NEW r, GoodRow(r), NEW h \in Content \cup {NoHash}, NEW t \in Nat, NEW new,
         new = ScannedRow(r, h, t), new # r
  PROVE  /\ new \in Row /\ Exists(new) /\ new.hash \in Recorded \cup {h}
         /\ ~new.del => new.hash \in Content
         /\ new.ver = r.ver => h \in Recorded
  <1>1. r \in Row
    BY DEF GoodRow
  <1>2. r = [hash |-> r.hash, ver |-> r.ver, ts |-> r.ts, del |-> r.del]
        /\ r.ver \in Nat /\ r.hash \in Hash /\ r.ts \in Nat /\ r.del \in BOOLEAN
    BY <1>1 DEF Row
  <1>3. CASE h = NoHash
    <2>1. Exists(r) /\ ~r.del /\ new = [r EXCEPT !.ver = r.ver + 1, !.del = TRUE]
      BY <1>3 DEF ScannedRow
    <2>2. new = [hash |-> r.hash, ver |-> r.ver + 1, ts |-> r.ts, del |-> TRUE]
      BY <1>1, <2>1 DEF Row
    <2>3. r.hash \in Recorded
      BY <2>1, SMTT(30) DEF GoodRow, NoRow, Exists
    <2> QED BY <1>2, <2>2, <2>3, SMTT(30) DEF Row, Exists
  <1>4. CASE h # NoHash /\ Exists(r) /\ r.hash = h /\ ~r.del
    <2>1. new = [r EXCEPT !.ts = 1000 * t]
      BY <1>4 DEF ScannedRow, Millis
    <2>2. new = [hash |-> h, ver |-> r.ver, ts |-> 1000 * t, del |-> r.del]
      BY <1>1, <1>4, <2>1, SMTT(30) DEF Row
    <2>3. r.hash \in Recorded
      BY <1>4, SMTT(30) DEF GoodRow, NoRow, Exists
    <2> QED BY <1>2, <1>4, <2>2, <2>3, SMTT(30) DEF Row, Exists, Hash
  <1>5. CASE h # NoHash /\ ~(Exists(r) /\ r.hash = h /\ ~r.del)
    <2>1. new = [hash |-> h, ver |-> r.ver + 1, ts |-> 1000 * t, del |-> FALSE]
      BY <1>5 DEF ScannedRow, Millis
    <2> QED BY <1>2, <1>5, <2>1, SMTT(30) DEF Row, Exists, Hash
  <1> QED BY <1>3, <1>4, <1>5

LEMMA ScannedStep ==
  ASSUME SyncInv, NEW p \in Peer, NEW h \in Content \cup {NoHash}, NEW t \in Nat, t <= Now,
         Scanned(p, h, t),
         UNCHANGED <<disk, events, jobs, queue, pending, timers, links, spent, warned>>
  PROVE  SyncInv' /\ Follows
  <1>1. Now' = Now /\ Now \in Nat
    BY Same, NowType
  <1>n. PICK new : new = ScannedRow(row[p], h, t)
    OBVIOUS
  <1>2. row \in [Peer -> Row] /\ GoodRow(row[p])
    BY Parts DEF RowsGood
  <1>3. CASE UNCHANGED <<row, written, msgs>>
    <2>1. Grows
      BY <1>3, Same
    <2>2. SyncInv'
      BY <1>3, <2>1, Keep, Parts
    <2> QED BY <1>1, <1>3, <2>2, Silent
  <1>4. CASE /\ new # row[p] /\ new.ver <= MaxVersion /\ row' = [row EXCEPT ![p] = new]
             /\ IF new.ver = row[p].ver
                  THEN UNCHANGED <<written, msgs>>
                  ELSE /\ written' = written \cup {<<h, new.ver>>}
                       /\ msgs' = msgs \cup Broadcast(p, new)
    <2>1. /\ new \in Row /\ Exists(new) /\ new.hash \in Recorded \cup {h}
          /\ ~new.del => new.hash \in Content
          /\ new.ver = row[p].ver => h \in Recorded
      BY <1>2, <1>4, <1>n, ScannedFacts, SMTT(30)
    <2>2. Recorded' = Recorded \cup {h}
      <3>1. CASE new.ver = row[p].ver
        BY <1>4, <2>1, <3>1 DEF Recorded
      <3>2. CASE new.ver # row[p].ver
        BY <1>4, <3>2, RecordedAdd
      <3> QED BY <3>1, <3>2
    <2>3. Grows
      BY <1>1, <2>2, NowType, SMTT(30) DEF Grows, SyncInv
    <2>4. GoodRow(new)'
      BY <2>1, <2>2 DEF GoodRow, Exists
    <2>5. RowsGood'
      BY <1>4, <2>3, <2>4, RowSet
    <2>6. MsgsGood'
      BY <1>4, <2>3, <2>4, MetaGood, MsgsSet
    <2>7. SyncInv'
      BY <2>3, <2>5, <2>6, Keep, Parts
    <2>8. Announced' = IF new.ver = row[p].ver THEN Announced
                       ELSE Announced \cup Exchange!Broadcast(p, new)
      <3>1. CASE new.ver = row[p].ver
        BY <1>4, <3>1 DEF Announced
      <3>2. CASE new.ver # row[p].ver
        BY <1>4, <3>2, AnnouncedAdd, Bares
      <3> QED BY <3>1, <3>2
    <2>9. h # Empty /\ h \in Hash
      BY HashAssumption DEF Hash
    <2>10. Exchange!Room /\ row'[p] = new /\ ~(t > Now)
      BY <1>2, <1>4, SomeTime DEF Exchange!Room
    <2>11. Exchange!ScannedRow(row[p], h, t) = new
      BY <1>n, SameRows
    <2>12. Exchange!ScanAndIndexLocalFiles(p, h, t)
      BY <1>1, <1>4, <2>2, <2>8, <2>9, <2>10, <2>11 DEF Exchange!ScanAndIndexLocalFiles
    <2>13. t \in Exchange!Time /\ Exchange!Hash = Hash
      BY SomeTime DEF Exchange!Hash, Hash
    <2> QED BY <2>7, <2>9, <2>12, <2>13 DEF Follows, Exchange!Next, Exchange!ScanNext
  <1> QED BY <1>n, <1>3, <1>4 DEF Scanned, Save, dbVars

LEMMA ScanStep ==
  ASSUME SyncInv, NEW p \in Peer, ScanWalk(p) \/ ScanSweep(p)
  PROVE  SyncInv' /\ Follows
  <1>1. UNCHANGED <<disk, events, jobs, queue, pending, timers, links, spent, warned>>
    BY DEF ScanWalk, ScanSweep, daemonVars, downloadVars
  <1>2. CASE UNCHANGED <<row, written, msgs>>
    <2>1. Grows /\ Now' = Now
      BY <1>1, <1>2, Same
    <2>2. SyncInv'
      BY <1>1, <1>2, <2>1, Keep, Parts
    <2> QED BY <1>1, <1>2, <2>1, <2>2, Silent
  <1>3. CASE disk[p].hash # NoHash /\ Scanned(p, disk[p].hash, disk[p].ts)
    <2>1. GoodFile(disk[p])
      BY Parts DEF DiskGood
    <2>2. disk[p].hash \in Content \cup {NoHash} /\ disk[p].ts \in Nat /\ disk[p].ts <= Now
      BY <2>1 DEF GoodFile, File, Hash
    <2> QED BY <1>1, <1>3, <2>2, ScannedStep
  <1>4. CASE Scanned(p, NoHash, 0)
    BY <1>1, <1>4, ScannedStep, NowType, SMTT(30)
  <1> QED BY <1>2, <1>3, <1>4 DEF ScanWalk, ScanSweep, dbVars

(* Connections and stops.                                                    *)
LEMMA AnnouncedFilter ==
  ASSUME NEW x, NEW y
  PROVE  /\ msgs' = {m \in msgs : x \notin {m.from, m.to}} =>
              Announced' = {b \in Announced : x \notin {b.from, b.to}}
         /\ msgs' = {m \in msgs : {m.from, m.to} # {x, y}} =>
              Announced' = {b \in Announced : {b.from, b.to} # {x, y}}
  <1>1. \A m : Bare(m).from = m.from /\ Bare(m).to = m.to
    BY DEF Bare
  <1>2. /\ Announced = {Bare(m) : m \in {z \in msgs : z.type = "meta"}}
        /\ Announced' = {Bare(m) : m \in {z \in msgs' : z.type = "meta"}}
    BY DEF Announced, Bare
  <1>3. ASSUME msgs' = {m \in msgs : x \notin {m.from, m.to}}
        PROVE  Announced' = {b \in Announced : x \notin {b.from, b.to}}
    BY <1>1, <1>2, <1>3
  <1>4. ASSUME msgs' = {m \in msgs : {m.from, m.to} # {x, y}}
        PROVE  Announced' = {b \in Announced : {b.from, b.to} # {x, y}}
    <2>1. \A m : {Bare(m).from, Bare(m).to} = {m.from, m.to}
      BY <1>1
    <2>2. ASSUME NEW b
          PROVE  b \in Announced' <=> b \in Announced /\ {b.from, b.to} # {x, y}
      <3>1. b \in Announced' <=> \E m \in msgs' : m.type = "meta" /\ b = Bare(m)
        BY <1>2
      <3>2. b \in Announced <=> \E m \in msgs : m.type = "meta" /\ b = Bare(m)
        BY <1>2
      <3>3. \A m : m \in msgs' <=> m \in msgs /\ {m.from, m.to} # {x, y}
        BY <1>4
      <3>4. ASSUME b \in Announced' PROVE b \in Announced /\ {b.from, b.to} # {x, y}
        <4>1. PICK m \in msgs' : m.type = "meta" /\ b = Bare(m)
          BY <3>1, <3>4
        <4>2. m \in msgs /\ {m.from, m.to} # {x, y}
          BY <3>3
        <4>3. {b.from, b.to} = {m.from, m.to}
          BY <2>1, <4>1
        <4> QED BY <3>2, <4>1, <4>2, <4>3
      <3>5. ASSUME b \in Announced, {b.from, b.to} # {x, y} PROVE b \in Announced'
        BY <2>1, <3>1, <3>2, <3>3, <3>5
      <3> QED BY <3>4, <3>5
    <2> QED BY <2>2
  <1> QED BY <1>3, <1>4

LEMMA StopStep ==
  ASSUME SyncInv, NEW p \in Peer, Stop(p)
  PROVE  SyncInv' /\ Follows
  <1>1. /\ Spend("crashes") /\ UNCHANGED <<disk, row, written, warned>>
        /\ events' = [events EXCEPT ![p] = <<>>] /\ jobs' = [jobs EXCEPT ![p] = {}]
        /\ queue' = [queue EXCEPT ![p] = {}] /\ pending' = [pending EXCEPT ![p] = {}]
        /\ timers' = [timers EXCEPT ![p] = {}]
        /\ links' = {e \in links : p \notin e}
        /\ msgs' = {m \in msgs : p \notin {m.from, m.to}}
    BY DEF Stop, dbVars
  <1>2. Grows /\ Now' = Now
    BY <1>1, SpendFacts
  <1>3. EventsGood'
    <2>1. events \in [Peer -> Seq(Event)] /\ <<>> \in Seq(Event)
      BY Parts, SMTT(30) DEF EventsGood
    <2>2. events' \in [Peer -> Seq(Event)]
      BY <1>1, <2>1
    <2>3. ASSUME NEW q \in Peer, NEW i \in DOMAIN events'[q] PROVE GoodEvent(events[q][i])'
      <3>1. CASE q = p
        BY <1>1, <2>1, <2>3, <3>1, SMTT(30)
      <3>2. CASE q # p
        <4>1. events'[q] = events[q]
          BY <1>1, <2>1, <3>2
        <4> QED BY <1>2, <2>3, <4>1, Parts, StaysGood DEF EventsGood
      <3> QED BY <3>1, <3>2
    <2> QED BY <2>2, <2>3 DEF EventsGood
  <1>4. TasksGood'
    BY <1>1, <1>2, TaskSet
  <1>5. JobsGood'
    BY <1>1, Parts DEF JobsGood
  <1>6. SyncInv'
    BY <1>1, <1>2, <1>3, <1>4, <1>5, Keep, Parts
  <1>7. Announced' = {b \in Announced : p \notin {b.from, b.to}} /\ Recorded' = Recorded
    BY <1>1, AnnouncedFilter DEF Recorded
  <1>8. Exchange!Leave(p)
    BY <1>1, <1>2, <1>7 DEF Exchange!Leave
  <1> QED BY <1>6, <1>8 DEF Follows, Exchange!Next, Exchange!RecoveryNext

LEMMA DisconnectStep ==
  ASSUME SyncInv, NEW p \in Peer, NEW q \in Peer, Disconnect(p, q)
  PROVE  SyncInv' /\ Follows
  <1>1. /\ Linked(p, q) /\ Spend("drops") /\ links' = links \ {{p, q}}
        /\ msgs' = {m \in msgs : {m.from, m.to} # {p, q}}
        /\ UNCHANGED <<disk, events, jobs, row, written, queue, pending, timers, warned>>
    BY DEF Disconnect, daemonVars, dbVars, downloadVars
  <1>2. Grows /\ Now' = Now
    BY <1>1, SpendFacts
  <1>3. SyncInv'
    BY <1>1, <1>2, Keep, Parts
  <1>4. Announced' = {b \in Announced : {b.from, b.to} # {p, q}} /\ Recorded' = Recorded
    BY <1>1, AnnouncedFilter DEF Recorded
  <1>5. Exchange!Disconnect(p, q)
    BY <1>1, <1>2, <1>4 DEF Exchange!Disconnect, Exchange!Linked, Linked
  <1> QED BY <1>3, <1>5 DEF Follows, Exchange!Next, Exchange!NetNext

LEMMA ConnectStep ==
  ASSUME SyncInv, NEW p \in Peer, NEW q \in Peer, Connect(p, q)
  PROVE  SyncInv' /\ Follows
  <1>s. PICK S : S = SyncAllRepositoriesWithPeer(p, q) \cup SyncAllRepositoriesWithPeer(q, p)
    OBVIOUS
  <1>1. /\ p # q /\ ~Linked(p, q) /\ links' = links \cup {{p, q}}
        /\ msgs' = msgs \cup S
        /\ UNCHANGED <<disk, events, jobs, row, written, queue, pending, timers, spent, warned>>
    BY <1>s DEF Connect, daemonVars, dbVars, downloadVars
  <1>2. Grows /\ Now' = Now
    BY <1>1, Same
  <1>3. ASSUME NEW x \in Peer, NEW y \in Peer, NEW m \in SyncAllRepositoriesWithPeer(x, y)
        PROVE  GoodMsg(m)'
    <2>1. PICK u : u = row[x]
      OBVIOUS
    <2>2. GoodRow(u)'
      BY <1>2, <2>1, Parts, StaysGood DEF RowsGood
    <2>3. m = Meta(x, y, u)
      BY <1>3, <2>1 DEF SyncAllRepositoriesWithPeer
    <2> QED BY <1>2, <2>2, <2>3, MetaGood
  <1>4. MsgsGood'
    BY <1>1, <1>2, <1>3, <1>s, MsgsSet
  <1>5. SyncInv'
    BY <1>1, <1>2, <1>4, Keep, Parts
  <1>6. \A m \in S : m.type = "meta"
    BY <1>s, Bares
  <1>7. {Bare(m) : m \in S} = Exchange!SyncAllRepositoriesWithPeer(p, q)
                                \cup Exchange!SyncAllRepositoriesWithPeer(q, p)
    <2>1. {Bare(m) : m \in S} = {Bare(m) : m \in SyncAllRepositoriesWithPeer(p, q)}
                                  \cup {Bare(m) : m \in SyncAllRepositoriesWithPeer(q, p)}
      BY <1>s
    <2> QED BY <2>1, Bares
  <1>8. Announced' = Announced \cup {Bare(m) : m \in S} /\ Recorded' = Recorded
    BY <1>1, <1>6, AnnouncedAdd DEF Recorded
  <1>9. Exchange!Connect(p, q)
    BY <1>1, <1>2, <1>7, <1>8 DEF Exchange!Connect, Exchange!Linked, Linked
  <1> QED BY <1>5, <1>9 DEF Follows, Exchange!Next, Exchange!NetNext

(* The user settles a conflict.                                              *)
LEMMA ChoiceStep ==
  ASSUME SyncInv, NEW p \in Peer, NEW q \in Peer, HandleConflictResolution(p, q)
  PROVE  SyncInv' /\ Follows
  <1>1. /\ p # q /\ Spend("choices")
        /\ UNCHANGED <<events, jobs, written, queue, pending, timers, links, warned>>
    BY DEF HandleConflictResolution, KeepMine, TakeTheirs, daemonVars, dbVars, downloadVars
  <1>2. Grows /\ Now' = Now /\ Now \in Nat
    BY <1>1, SpendFacts, NowType
  <1>3. Recorded' = Recorded
    BY <1>1 DEF Recorded
  <1>4. ASSUME NEW u, GoodRow(u)', msgs' = msgs \cup sendMetadataUpdateToPeer(p, q, u)
        PROVE  /\ MsgsGood'
               /\ Announced' = Announced \cup Exchange!sendMetadataUpdateToPeer(p, q, u)
    <2>1. MsgsGood'
      BY <1>2, <1>4, MetaGood, MsgsSet
    <2>2. \A m \in sendMetadataUpdateToPeer(p, q, u) : m.type = "meta"
      BY Bares
    <2>3. {Bare(m) : m \in sendMetadataUpdateToPeer(p, q, u)} = Exchange!sendMetadataUpdateToPeer(p, q, u)
      BY Bares
    <2> QED BY <1>4, <2>1, <2>2, <2>3, AnnouncedAdd
  <1>5. Exchange!Room
    BY DEF Exchange!Room
  <1>6. CASE KeepMine(p, q)
    <2>1. /\ Exists(row[p]) /\ msgs' = msgs \cup sendMetadataUpdateToPeer(p, q, row[p])
          /\ UNCHANGED <<disk, row>>
      BY <1>6 DEF KeepMine, daemonVars, dbVars
    <2>2. PICK u : u = row[p]
      OBVIOUS
    <2>3. GoodRow(u)'
      BY <1>2, <2>2, Parts, StaysGood DEF RowsGood
    <2>4. MsgsGood' /\ Announced' = Announced \cup Exchange!sendMetadataUpdateToPeer(p, q, u)
      BY <1>4, <2>1, <2>2, <2>3
    <2>5. SyncInv'
      BY <1>1, <1>2, <2>1, <2>4, Keep, Parts
    <2>6. Exchange!HandleConflictResolution(p, q, "local")
      BY <1>1, <1>2, <1>3, <1>5, <2>1, <2>2, <2>4, SameRows DEF Exchange!HandleConflictResolution
    <2> QED BY <1>1, <2>5, <2>6 DEF Follows, Exchange!Next, Exchange!RecoveryNext
  <1>7. CASE TakeTheirs(p, q)
    <2>1. /\ row' = [row EXCEPT ![p] = NoRow] /\ msgs' = msgs \cup sendMetadataUpdateToPeer(p, q, NoRow)
          /\ disk' = disk \/ disk' = [disk EXCEPT ![p] = [hash |-> NoHash, ts |-> Now]]
      BY <1>7 DEF TakeTheirs, Touch, NoFile
    <2>2. GoodRow(NoRow)'
      BY DEF GoodRow, NoRow, Row, Hash
    <2>3. MsgsGood' /\ Announced' = Announced \cup Exchange!sendMetadataUpdateToPeer(p, q, NoRow)
      BY <1>4, <2>1, <2>2
    <2>4. RowsGood'
      BY <1>2, <2>1, <2>2, RowSet
    <2>5. DiskGood'
      <3>1. PICK f : f = [hash |-> NoHash, ts |-> Now]
        OBVIOUS
      <3>2. GoodFile(f)'
        BY <1>2, <3>1, HashAssumption, SMTT(30) DEF GoodFile, File, Hash
      <3> QED BY <1>2, <2>1, <3>1, <3>2, DiskSet, Keep
    <2>6. SyncInv'
      BY <1>1, <1>2, <2>3, <2>4, <2>5, Keep, Parts
    <2>7. Exchange!HandleConflictResolution(p, q, "remote")
      BY <1>1, <1>2, <1>3, <1>5, <2>1, <2>3, SameRows DEF Exchange!HandleConflictResolution
    <2> QED BY <1>1, <2>6, <2>7 DEF Follows, Exchange!Next, Exchange!RecoveryNext
  <1> QED BY <1>6, <1>7 DEF HandleConflictResolution

-----------------------------------------------------------------------------
LEMMA SyncStep ==
  ASSUME SyncInv, [Next]_vars
  PROVE  SyncInv' /\ Follows
  <1>1. CASE User
    BY <1>1, UserStep DEF User
  <1>2. CASE Environment
    BY <1>2, StopStep, DisconnectStep, ChoiceStep DEF Environment
  <1>3. CASE System
    <2>1. ASSUME NEW p \in Peer, PeerStep(p) PROVE SyncInv' /\ Follows
      BY <2>1, ReportStep, TaskStep, JobStep, PhaseStep, ScanStep DEF PeerStep
    <2>2. ASSUME NEW m \in msgs, Deliver(m) PROVE SyncInv' /\ Follows
      BY <2>2, DeliverStep, InlineStep DEF Deliver
    <2>3. CASE Faults
      BY <2>3, FailStep, JobStep DEF Faults
    <2> QED BY <1>3, <2>1, <2>2, <2>3 DEF System
  <1>4. CASE Reconnect
    BY <1>4, ConnectStep DEF Reconnect
  <1>5. CASE Handlers
    BY <1>5, LocalStep, UpdateStep DEF Handlers
  <1>6. CASE UNCHANGED vars
    <2>1. UNCHANGED <<disk, events, jobs, row, written, queue, pending, timers, msgs, links, spent, warned>>
      BY <1>6 DEF vars, daemonVars, dbVars, downloadVars, netVars
    <2>2. Grows /\ Now' = Now
      BY <2>1, Same
    <2>3. SyncInv'
      BY <2>1, <2>2, Keep, Parts
    <2> QED BY <2>1, <2>2, <2>3, Silent
  <1> QED BY <1>1, <1>2, <1>3, <1>4, <1>5, <1>6 DEF Next

LEMMA SyncInit == Init => SyncInv
  <1> SUFFICES ASSUME Init PROVE SyncInv
    OBVIOUS
  <1>1. Now = 0 /\ spent \in [{"edits", "crashes", "drops", "faults", "breaks", "choices"} -> Nat]
    <2>1. spent = [edits |-> 0, crashes |-> 0, drops |-> 0, faults |-> 0, breaks |-> 0, choices |-> 0]
      BY DEF Init
    <2> QED BY <2>1, SMTT(30) DEF Now
  <1>2. MaxEdits \in Nat /\ First \in Content \cup {NoHash}
    BY SyncAssumption
  <1>3. DiskGood
    <2>1. disk = [p \in Peer |-> [hash |-> First, ts |-> 0]]
      BY DEF Init
    <2>2. GoodFile([hash |-> First, ts |-> 0])
      BY <1>1, <1>2, HashAssumption, SMTT(30) DEF GoodFile, File, Hash
    <2>3. [hash |-> First, ts |-> 0] \in File
      BY <2>2 DEF GoodFile
    <2> QED BY <2>1, <2>2, <2>3 DEF DiskGood
  <1>4. EventsGood
    <2>1. events = [p \in Peer |-> <<>>]
      BY DEF Init
    <2>2. <<>> \in Seq(Event)
      BY SMTT(30)
    <2>3. events \in [Peer -> Seq(Event)]
      BY <2>1, <2>2
    <2>4. \A p \in Peer : DOMAIN events[p] = {}
      BY <2>1, SMTT(30)
    <2> QED BY <2>3, <2>4 DEF EventsGood
  <1>5. FirstRow \in Row /\ GoodRow(FirstRow)
    <2>1. CASE First = NoHash
      BY <2>1 DEF FirstRow, GoodRow, NoRow, Row, Hash
    <2>2. CASE First # NoHash
      <3>1. FirstRow \in Row /\ FirstRow.ver = 1 /\ FirstRow.hash = First
        BY <1>2, <2>2 DEF FirstRow, Row, Hash
      <3>2. written = {<<First, 1>>}
        BY <2>2 DEF Init
      <3>3. First \in Recorded
        <4>1. PICK w : w = <<First, 1>>
          OBVIOUS
        <4>2. w \in written /\ w[1] = First
          BY <3>2, <4>1
        <4> QED BY <4>2 DEF Recorded
      <3> QED BY <1>2, <2>2, <3>1, <3>3, SMTT(30) DEF GoodRow, Exists
    <2> QED BY <2>1, <2>2
  <1>6. RowsGood
    BY <1>5 DEF Init, RowsGood
  <1>7. TasksGood /\ JobsGood /\ MsgsGood
    BY DEF Init, TasksGood, JobsGood, MsgsGood
  <1> QED BY <1>1, <1>2, <1>3, <1>4, <1>6, <1>7, SMTT(30)
          DEF SyncInv, DiskGood, EventsGood, RowsGood, TasksGood, JobsGood, MsgsGood

(* Whatever users, applications, connections and transfers do, what happens to
   the rows is what MetadataExchange says: the content plane (downloads, retries,
   the daemon's jobs, the start-up scan) changes a row only through the
   coordinator's handlers, and never by making up a hash or a time.  It is stated
   for a file that no peer has yet, which is where MetadataExchange begins.     *)
THEOREM RowsFollowExchange ==
  ASSUME First = NoHash
  PROVE  Spec => FollowsExchange
  <1>1. Init => SyncInv
    BY SyncInit
  <1>2. SyncInv /\ [Next]_vars => SyncInv'
    BY SyncStep
  <1>3. SyncInv /\ [Next]_vars => [Exchange!Next]_(Exchange!vars)
    BY SyncStep DEF Follows
  <1>4. Init => Exchange!Init
    <2> SUFFICES ASSUME Init PROVE Exchange!Init
      OBVIOUS
    <2>1. row = [p \in Peer |-> Exchange!NoRow]
      BY SameRows DEF Init, FirstRow
    <2>2. Announced = {} /\ Recorded = {} /\ Now = 0
      BY DEF Init, Announced, Recorded, Now
    <2>3. links = Exchange!Pair
      BY DEF Init, Pair, Exchange!Pair
    <2>4. ~(warned # {})
      BY DEF Init
    <2> QED BY <2>1, <2>2, <2>3, <2>4 DEF Exchange!Init
  <1> QED BY <1>1, <1>2, <1>3, <1>4, PTL DEF Spec, FollowsExchange, Exchange!Spec

(* Handlers that run one at a time never put an older version of the file in
   the place of a newer one, whatever is lost, late or repeated and however often
   applications stop: a row only disappears, when its download has failed for
   good or the user gives it up.  (Handlers that overlap do:
   MCFileSync_split.cfg.)                                                    *)
THEOREM RowsKeepVersions == Spec => RowsNeverRegress
  <1>1. ASSUME SyncInv, Follows, NEW p \in Peer
        PROVE  row'[p].ver >= row[p].ver \/ row'[p] = NoRow
    <2>r. \A q \in Peer : row[q] \in Row /\ row[q].ver \in Nat
      BY <1>1, Parts DEF RowsGood, Row
    <2>f. row \in [Peer -> Row]
      BY <1>1, Parts DEF RowsGood
    <2>1. ASSUME NEW q \in Peer, NEW r, row' = [row EXCEPT ![q] = r],
                 r.ver >= row[q].ver \/ r = NoRow
          PROVE  row'[p].ver >= row[p].ver \/ row'[p] = NoRow
      BY <2>r, <2>f, <2>1, SMTT(30)
    <2>2. CASE row' = row
      BY <2>r, <2>2, SMTT(30)
    <2>3. ASSUME NEW q \in Peer, NEW h, NEW act, NEW t, Exchange!HandleLocalFileChanged(q, h, act, t)
          PROVE  row'[p].ver >= row[p].ver \/ row'[p] = NoRow
      <3>1. row' = [row EXCEPT ![q] = LocalRow(row[q], h, act, t)]
        BY <2>3, SameRows DEF Exchange!HandleLocalFileChanged
      <3>2. LocalRow(row[q], h, act, t).ver >= row[q].ver
        <4>1. LocalRow(row[q], h, act, t).ver = NextVersion(row[q], h, act)
          BY DEF LocalRow
        <4>2. row[q].ver \in Nat
          BY <2>r
        <4>3. NextVersion(row[q], h, act) \in {row[q].ver, row[q].ver + 1}
          BY DEF NextVersion
        <4> QED BY <4>1, <4>2, <4>3, SMTT(30)
      <3> QED BY <2>1, <3>1, <3>2
    <2>4. ASSUME NEW m \in Announced, Exchange!HandlePeerMetadataUpdate(m)
          PROVE  row'[p].ver >= row[p].ver \/ row'[p] = NoRow
      <3>1. PICK n \in msgs : n.type = "meta" /\ m = Bare(n)
        BY DEF Announced, Bare
      <3>2. n.to \in Peer /\ n.row \in Row
        BY <1>1, <3>1, Parts DEF MsgsGood, GoodMsg
      <3>3. m.to \in Peer /\ m.row \in Row
        BY <3>1, <3>2 DEF Bare
      <3>4. PICK res : res = Resolve(Version(row[m.to], m.to), Version(m.row, m.from))
        OBVIOUS
      <3>5. row' = IF res.action = "AcceptRemote" THEN [row EXCEPT ![m.to] = m.row] ELSE row
        <4>1. Exchange!Resolve(Exchange!Version(row[m.to], m.to), Exchange!Version(m.row, m.from)) = res
          <5>1. ResolvesAs(row[m.to], m.to, m.row, m.from, res)
            BY <3>4, SameResolve
          <5> QED BY <5>1 DEF ResolvesAs
        <4> QED BY <2>4, <4>1 DEF Exchange!HandlePeerMetadataUpdate
      <3>6. res.action = "AcceptRemote" => m.row.ver >= row[m.to].ver
        BY <2>r, <3>3, <3>4, ResolveFacts
      <3> QED BY <2>1, <2>2, <3>3, <3>5, <3>6
    <2>5. ASSUME NEW q \in Peer, NEW h, NEW t, Exchange!ScanAndIndexLocalFiles(q, h, t)
          PROVE  row'[p].ver >= row[p].ver \/ row'[p] = NoRow
      <3>1. row' = [row EXCEPT ![q] = ScannedRow(row[q], h, t)]
        BY <2>5, SameRows DEF Exchange!ScanAndIndexLocalFiles
      <3>2. ScannedRow(row[q], h, t).ver >= row[q].ver
        BY <2>r, SMTT(30) DEF ScannedRow, Row
      <3> QED BY <2>1, <3>1, <3>2
    <2>6. ASSUME NEW q \in Peer, NEW h, NEW t, Exchange!StoreInline(q, h, t)
          PROVE  row'[p].ver >= row[p].ver \/ row'[p] = NoRow
      <3>1. row' = [row EXCEPT ![q] = InlineRow(row[q], h, t)]
        BY <2>6, SameRows DEF Exchange!StoreInline
      <3>2. InlineRow(row[q], h, t).ver >= row[q].ver
        <4>1. InlineRow(row[q], h, t).ver = IF row[q].ver > 0 THEN row[q].ver ELSE 1
          BY DEF InlineRow, Exists
        <4>2. row[q].ver \in Nat
          BY <2>r
        <4> QED BY <4>1, <4>2, SMTT(30)
      <3> QED BY <2>1, <3>1, <3>2
    <2>7. CASE Exchange!RecoveryNext
      <3>1. ASSUME NEW q \in Peer, NEW x, NEW c, Exchange!HandleConflictResolution(q, x, c)
            PROVE  row'[p].ver >= row[p].ver \/ row'[p] = NoRow
        BY <2>1, <2>2, <3>1, SameRows DEF Exchange!HandleConflictResolution
      <3>2. ASSUME NEW q \in Peer, Exchange!HardDelete(q) \/ Exchange!Leave(q)
            PROVE  row'[p].ver >= row[p].ver \/ row'[p] = NoRow
        BY <2>1, <2>2, <3>2, SameRows DEF Exchange!HardDelete, Exchange!Leave
      <3> QED BY <2>6, <2>7, <3>1, <3>2 DEF Exchange!RecoveryNext
    <2>8. CASE Exchange!NetNext
      BY <2>2, <2>4, <2>8 DEF Exchange!NetNext, Exchange!Connect, Exchange!Disconnect
    <2>9. CASE Exchange!Tick \/ UNCHANGED Exchange!vars
      BY <2>2, <2>9 DEF Exchange!Tick, Exchange!vars
    <2> QED BY <1>1, <2>3, <2>5, <2>7, <2>8, <2>9 DEF Follows, Exchange!Next, Exchange!EditNext,
                Exchange!DeleteNext, Exchange!ScanNext
  <1>2. SyncInv /\ [Next]_vars => [\A p \in Peer : row'[p].ver >= row[p].ver \/ row'[p] = NoRow]_vars
    BY <1>1, SyncStep
  <1>3. SyncInv /\ [Next]_vars => SyncInv'
    BY SyncStep
  <1> QED BY <1>2, <1>3, SyncInit, PTL DEF Spec, RowsNeverRegress
-----------------------------------------------------------------------------
(* The types of all variables.                                               *)

LEMMA ShapeTypes == SyncInv /\ Shape => TypeOK
  <1> SUFFICES ASSUME SyncInv, Shape PROVE TypeOK
    OBVIOUS
  <1>1. \A p \in Peer : queue[p] \cup pending[p] \cup timers[p] \subseteq Task
    BY DEF SyncInv
  <1>2. \A p \in Peer : jobs[p] \subseteq Job
    BY DEF SyncInv
  <1>3. /\ disk \in [Peer -> File] /\ events \in [Peer -> Seq(Event)] /\ row \in [Peer -> Row]
    BY DEF SyncInv
  <1> QED BY <1>1, <1>2, <1>3 DEF Shape, TypeOK, Phases

LEMMA NewLinked ==
  ASSUME NEW p, NEW q, NEW r
  PROVE  /\ \A m \in Broadcast(p, r) : Linked(m.from, m.to) /\ m.from = p /\ m.to \in Peer /\ m = Meta(p, m.to, r)
         /\ \A m \in sendMetadataUpdateToPeer(p, q, r) : Linked(m.from, m.to)
  <1>1. \A x : Meta(p, x, r).from = p /\ Meta(p, x, r).to = x
    BY DEF Meta
  <1>2. ASSUME NEW m \in Broadcast(p, r)
        PROVE Linked(m.from, m.to) /\ m.from = p /\ m.to \in Peer /\ m = Meta(p, m.to, r)
    <2>1. PICK x \in Peer : Linked(p, x) /\ m = Meta(p, x, r)
      BY DEF Broadcast
    <2> QED BY <1>1, <2>1
  <1>3. ASSUME NEW m \in sendMetadataUpdateToPeer(p, q, r) PROVE Linked(m.from, m.to)
    <2>1. Linked(p, q) /\ m = Meta(p, q, r)
      BY DEF sendMetadataUpdateToPeer
    <2> QED BY <1>1, <2>1
  <1> QED BY <1>2, <1>3

LEMMA TouchShape ==
  ASSUME Shape, NEW p \in Peer, NEW f, NEW n \in Notice, Touch(p, f, n)
  PROVE  notices' \in [Peer -> Seq(Notice)]
  <1>1. notices \in [Peer -> Seq(Notice)] /\ notices[p] \in Seq(Notice)
    BY DEF Shape
  <1>2. Append(notices[p], n) \in Seq(Notice)
    BY <1>1, SMTT(30)
  <1>3. notices' = notices \/ notices' = [notices EXCEPT ![p] = Append(notices[p], n)]
    BY DEF Touch
  <1> QED BY <1>1, <1>2, <1>3

(* The steps of one peer and its messages.                                    *)
LEMMA ShapeLinks ==
  ASSUME Shape, links' = links, \A m \in msgs' : m \in msgs \/ Linked(m.from, m.to)
  PROVE  (\A m \in msgs : Linked(m.from, m.to))' /\ links' \subseteq Pair
  BY DEF Shape, Linked

LEMMA ShapeLocal ==
  ASSUME SyncInv, Shape, NEW p \in Peer,
         ReportChange(p) \/ HandleLocalFileChanged(p) \/ Start(p) \/ ScanWalk(p) \/ ScanSweep(p)
           \/ StartDaemon(p)
  PROVE  Shape'
  <1> USE DEF daemonVars, dbVars, downloadVars, netVars, procVars
  <1>1. open' = open /\ warned' = warned /\ links' = links
    BY DEF ReportChange, HandleLocalFileChanged, LocalChange, Start, ScanWalk, ScanSweep, StartDaemon
  <1>2. phase' \in [Peer -> Phases]
    <2>1. phase' = phase \/ \E x \in Phases : phase' = [phase EXCEPT ![p] = x]
      BY DEF ReportChange, HandleLocalFileChanged, LocalChange, Start, ScanWalk, ScanSweep, StartDaemon, Phases
    <2> QED BY <2>1 DEF Shape
  <1>3. notices' \in [Peer -> Seq(Notice)]
    <2>1. CASE notices' = notices
      BY <2>1 DEF Shape
    <2>2. CASE notices[p] # <<>> /\ notices' = [notices EXCEPT ![p] = Tail(@)]
      <3>1. notices[p] \in Seq(Notice)
        BY DEF Shape
      <3>2. Tail(notices[p]) \in Seq(Notice)
        BY <2>2, <3>1, SMTT(30)
      <3> QED BY <2>2, <3>2 DEF Shape
    <2> QED BY <2>1, <2>2 DEF ReportChange, HandleLocalFileChanged, LocalChange, Start, ScanWalk,
                              ScanSweep, StartDaemon
  <1>4. fresh' \in [Peer -> BOOLEAN]
    <2>1. fresh' = fresh \/ \E x \in BOOLEAN : fresh' = [fresh EXCEPT ![p] = x]
      BY DEF ReportChange, HandleLocalFileChanged, LocalChange, Start, ScanWalk, ScanSweep, StartDaemon,
             Save, Scanned
    <2> QED BY <2>1 DEF Shape
  <1>5. \A m \in msgs' : m \in msgs \/ Linked(m.from, m.to)
    <2>1. msgs' = msgs \/ \E r : msgs' = msgs \cup Broadcast(p, r)
      BY DEF ReportChange, HandleLocalFileChanged, LocalChange, Start, ScanWalk, ScanSweep, StartDaemon,
             Scanned
    <2> QED BY <2>1, NewLinked
  <1> QED BY <1>1, <1>2, <1>3, <1>4, <1>5, ShapeLinks DEF Shape

LEMMA ShapeDaemon ==
  ASSUME SyncInv, Shape, NEW p \in Peer,
         \/ \E t \in queue[p] : executeSyncTask(p, t)
         \/ \E t \in timers[p] : RetryDownload(p, t)
         \/ \E j \in jobs[p] : Fetch(p, j) \/ Rename(p, j) \/ DeleteFile(p, j) \/ FetchBreaks(p, j)
         \/ UserDelete(p) \/ \E h \in Content : UserWrite(p, h)
  PROVE  Shape'
  <1> USE DEF daemonVars, dbVars, downloadVars, netVars, procVars
  <1>1. UNCHANGED <<open, warned, links, phase, fresh>>
    BY DEF executeSyncTask, RetryDownload, Fetch, Rename, DeleteFile, FetchBreaks, UserDelete, UserWrite
  <1>2. notices' \in [Peer -> Seq(Notice)]
    <2>1. notices' = notices \/ \E f : \E n \in Notice : Touch(p, f, n)
      BY DEF executeSyncTask, RetryDownload, Fetch, Rename, DeleteFile, FetchBreaks, UserDelete, UserWrite,
               Written, Notice
    <2>2. CASE notices' = notices
      BY <2>2 DEF Shape
    <2> QED BY <2>1, <2>2, TouchShape
  <1>3. \A m \in msgs' : m \in msgs \/ Linked(m.from, m.to)
    <2>1. msgs' = msgs \/ \E x, h : msgs' = msgs \cup {Request(p, x, h)} /\ Linked(p, x)
      BY DEF executeSyncTask, RetryDownload, Fetch, Rename, DeleteFile, FetchBreaks, UserDelete, UserWrite
    <2>2. \A x, h : Request(p, x, h).from = p /\ Request(p, x, h).to = x
      BY DEF Request
    <2>3. CASE msgs' = msgs
      BY <2>3
    <2>4. ASSUME NEW x, NEW h, msgs' = msgs \cup {Request(p, x, h)}, Linked(p, x)
          PROVE  \A m \in msgs' : m \in msgs \/ Linked(m.from, m.to)
      BY <2>2, <2>4
    <2> QED BY <2>1, <2>3, <2>4
  <1> QED BY <1>1, <1>2, <1>3, ShapeLinks DEF Shape

LEMMA ShapeMsgs ==
  ASSUME SyncInv, Shape, NEW m \in msgs, Deliver(m) \/ DownloadFails(m) \/ HandlePeerMetadataUpdate(m)
  PROVE  Shape'
  <1> USE DEF daemonVars, dbVars, downloadVars, netVars, procVars
  <1>1. UNCHANGED <<open, links, phase>>
    BY DEF Deliver, HandleFileRequest, DiscardResponse, StoreInline, StartDownload, DownloadFails,
                 HandlePeerMetadataUpdate, PeerUpdate
  <1>2. m.to \in Peer /\ m.from \in Peer
    BY Parts DEF MsgsGood, GoodMsg
  <1>3. notices' \in [Peer -> Seq(Notice)]
    <2>1. notices' = notices \/ \E f : \E n \in Notice : Touch(m.to, f, n)
      BY DEF Deliver, HandleFileRequest, DiscardResponse, StoreInline, StartDownload, DownloadFails,
                 HandlePeerMetadataUpdate, PeerUpdate, Written, Notice
    <2>2. CASE notices' = notices
      BY <2>2 DEF Shape
    <2> QED BY <1>2, <2>1, <2>2, TouchShape
  <1>4. fresh' \in [Peer -> BOOLEAN] /\ warned' \subseteq Peer
    <2>1. fresh' = fresh \/ \E x \in BOOLEAN : fresh' = [fresh EXCEPT ![m.to] = x]
      BY DEF Deliver, HandleFileRequest, DiscardResponse, StoreInline, StartDownload, DownloadFails,
                 HandlePeerMetadataUpdate, PeerUpdate, Save
    <2>2. warned' = warned \/ warned' = warned \cup {m.to}
      BY DEF Deliver, HandleFileRequest, DiscardResponse, StoreInline, StartDownload, DownloadFails,
                 HandlePeerMetadataUpdate, PeerUpdate
    <2> QED BY <1>2, <2>1, <2>2 DEF Shape
  <1>5. \A n \in msgs' : n \in msgs \/ Linked(n.from, n.to)
    <2>1. CASE HandleFileRequest(m)
      <3>1. PICK k, c : msgs' = (msgs \ {m}) \cup {Response(m.to, m.from, m.hash, k, c)}
        BY <2>1 DEF HandleFileRequest
      <3>2. PICK n : n = Response(m.to, m.from, m.hash, k, c)
        OBVIOUS
      <3>3. n.from = m.to /\ n.to = m.from
        BY <3>2 DEF Response
      <3>4. Linked(n.from, n.to)
        <4>1. Linked(m.from, m.to) /\ {m.from, m.to} = {m.to, m.from}
          BY DEF Shape
        <4> QED BY <3>3, <4>1 DEF Linked
      <3> QED BY <3>1, <3>2, <3>4
    <2>2. CASE DiscardResponse(m) \/ StoreInline(m) \/ StartDownload(m) \/ DownloadFails(m)
      <3>1. msgs' = msgs \ {m}
        BY <2>2 DEF DiscardResponse, StoreInline, StartDownload, DownloadFails
      <3> QED BY <3>1
    <2>3. CASE HandlePeerMetadataUpdate(m)
      <3>1. msgs' = msgs \ {m} \/ \E S : msgs' = (msgs \ {m}) \cup S
                                          /\ (S = {} \/ S = sendMetadataUpdateToPeer(m.to, m.from, row[m.to]))
        BY <2>3 DEF HandlePeerMetadataUpdate, PeerUpdate
      <3>2. ASSUME NEW n \in msgs', n \notin msgs PROVE n \in sendMetadataUpdateToPeer(m.to, m.from, row[m.to])
        BY <3>1, <3>2
      <3> QED BY <3>2, NewLinked
    <2> QED BY <2>1, <2>2, <2>3 DEF Deliver
  <1> QED BY <1>1, <1>3, <1>4, <1>5, ShapeLinks DEF Shape

LEMMA ShapeNet ==
  ASSUME SyncInv, Shape, NEW p \in Peer, NEW q \in Peer,
         Stop(p) \/ Connect(p, q) \/ Disconnect(p, q) \/ HandleConflictResolution(p, q)
  PROVE  Shape'
  <1> USE DEF daemonVars, dbVars, downloadVars, netVars, procVars
  <1>1. CASE Stop(p)
    <2>1. /\ phase' = [phase EXCEPT ![p] = "down"] /\ open' = {o \in open : o.at # p}
          /\ notices' = [notices EXCEPT ![p] = <<>>]
          /\ links' = {e \in links : p \notin e}
          /\ msgs' = {m \in msgs : p \notin {m.from, m.to}}
          /\ UNCHANGED <<fresh, warned>>
      BY <1>1 DEF Stop
    <2>2. <<>> \in Seq(Notice)
      BY SMTT(30)
    <2>3. notices' \in [Peer -> Seq(Notice)] /\ phase' \in [Peer -> Phases] /\ open' = {}
      BY <2>1, <2>2 DEF Shape, Phases
    <2>4. ASSUME NEW m \in msgs' PROVE {m.from, m.to} \in links'
      <3>1. m \in msgs /\ p \notin {m.from, m.to}
        BY <2>1
      <3>2. {m.from, m.to} \in links
        BY <3>1 DEF Shape, Linked
      <3> QED BY <2>1, <3>1, <3>2
    <2> QED BY <2>1, <2>3, <2>4 DEF Shape, Linked
  <1>2. CASE Connect(p, q)
    <2>1. /\ p # q /\ links' = links \cup {{p, q}}
          /\ msgs' = msgs \cup SyncAllRepositoriesWithPeer(p, q) \cup SyncAllRepositoriesWithPeer(q, p)
          /\ UNCHANGED <<fresh, warned, notices, phase, open>>
      BY <1>2 DEF Connect
    <2>2. {p, q} \in Pair
      BY <2>1 DEF Pair
    <2>3. \A x, y : \A m \in SyncAllRepositoriesWithPeer(x, y) : m.from = x /\ m.to = y
      BY SMTT(30) DEF SyncAllRepositoriesWithPeer, Meta
    <2>4. ASSUME NEW m \in msgs' PROVE {m.from, m.to} \in links'
      <3>1. m \in msgs \/ {m.from, m.to} = {p, q}
        BY <2>1, <2>3
      <3> QED BY <2>1, <3>1 DEF Shape, Linked
    <2> QED BY <2>1, <2>2, <2>4 DEF Shape, Linked
  <1>3. CASE Disconnect(p, q)
    <2>1. /\ links' = links \ {{p, q}} /\ msgs' = {m \in msgs : {m.from, m.to} # {p, q}}
          /\ UNCHANGED <<fresh, warned, notices, phase, open>>
      BY <1>3 DEF Disconnect
    <2> QED BY <2>1 DEF Shape, Linked
  <1>4. CASE HandleConflictResolution(p, q)
    <2>1. /\ UNCHANGED <<fresh, warned, phase, open, links>>
          /\ \E r : msgs' = msgs \cup sendMetadataUpdateToPeer(p, q, r)
          /\ notices' = notices \/ \E f : \E n \in Notice : Touch(p, f, n)
      BY <1>4 DEF HandleConflictResolution, KeepMine, TakeTheirs, Notice
    <2>2. notices' \in [Peer -> Seq(Notice)]
      <3>1. CASE notices' = notices
        BY <3>1 DEF Shape
      <3> QED BY <2>1, <3>1, TouchShape
    <2>3. \A m \in msgs' : m \in msgs \/ Linked(m.from, m.to)
      BY <2>1, NewLinked
    <2> QED BY <2>1, <2>2, <2>3, ShapeLinks DEF Shape
  <1> QED BY <1>1, <1>2, <1>3, <1>4

LEMMA ShapeStep ==
  ASSUME SyncInv, Shape, [Next]_vars
  PROVE  Shape'
  <1>1. CASE User
    BY <1>1, ShapeDaemon DEF User
  <1>2. CASE Environment
    BY <1>2, ShapeNet DEF Environment
  <1>3. CASE System
    BY <1>3, ShapeLocal, ShapeDaemon, ShapeMsgs DEF System, PeerStep, Faults
  <1>4. CASE Reconnect
    BY <1>4, ShapeNet DEF Reconnect
  <1>5. CASE Handlers
    BY <1>5, ShapeLocal, ShapeMsgs DEF Handlers
  <1>6. CASE UNCHANGED vars
    BY <1>6 DEF vars, daemonVars, dbVars, downloadVars, netVars, procVars, Shape, Linked
  <1> QED BY <1>1, <1>2, <1>3, <1>4, <1>5, <1>6 DEF Next

LEMMA ShapeInit == Init => Shape
  <1> SUFFICES ASSUME Init PROVE Shape
    OBVIOUS
  <1>1. <<>> \in Seq(Notice) /\ "up" \in Phases
    BY SMTT(30) DEF Phases
  <1>2. notices = [p \in Peer |-> <<>>] /\ phase = [p \in Peer |-> "up"] /\ fresh = [p \in Peer |-> FALSE]
    BY DEF Init
  <1>3. open = {} /\ warned = {} /\ msgs = {} /\ links = Pair
    BY DEF Init
  <1> QED BY <1>1, <1>2, <1>3 DEF Shape
=============================================================================
