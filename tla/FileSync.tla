------------------------------- MODULE FileSync -------------------------------
(***************************************************************************)
(* One file of one repository on several peers: the user's disk, the C++   *)
(* daemon that watches and writes it, and the Go coordinator that keeps    *)
(* its row, talks to the other peers and downloads its content.            *)
(*                                                                         *)
(*   user -> disk -> notices (inotify) -> daemon -> events (IPC)           *)
(*        -> HandleLocalFileChanged -> row, msgs (P2P)                     *)
(*        -> HandlePeerMetadataUpdate -> row, queue                        *)
(*        -> executeSyncTask -> file_request -> file_response              *)
(*        -> inline write, or jobs (daemon) -> disk -> notices ...         *)
(*                                                                         *)
(* Messages between two peers may overtake each other: Broadcast starts a  *)
(* goroutine per message.  Time is counted in changes made by users, so no *)
(* two of them share a timestamp.                                          *)
(***************************************************************************)
EXTENDS FileRows, Sequences, FiniteSets

CONSTANTS
  Peer,         (* peer identifiers                                          *)
  Inline,       (* contents of at most 1024 bytes, sent inside the response   *)
  First,        (* the content that all peers share at first, or NoHash       *)
  MaxVersion,   (* bound on the version counter                              *)
  MaxEdits,     (* bound on the changes made by users                        *)
  MaxCrashes,   (* bound on the stops of an application                      *)
  MaxDrops,     (* bound on the connections that break                       *)
  MaxFaults,    (* bound on the transfers that cannot be started              *)
  MaxBreaks,    (* bound on the transfers that break off                      *)
  MaxChoices,   (* bound on the conflicts settled by a user                   *)
  MaxEvents     (* bound on all of these together                            *)

ASSUME SyncAssumption ==
  /\ Peer \subseteq Nat /\ Peer # {}
  /\ Inline \subseteq Content
  /\ First \in Content \cup {NoHash}
  /\ {MaxVersion, MaxEdits, MaxCrashes, MaxDrops, MaxFaults,
      MaxBreaks, MaxChoices, MaxEvents} \subseteq Nat

MaxDownloadRetries == 3

VARIABLES
  disk,     (* disk[p]: hash (NoHash: no file) and time of the file           *)
  notices,  (* notices[p]: file system notifications the daemon has to handle *)
  events,   (* events[p]: file_changed messages from the daemon to Go         *)
  row,      (* row[p]: the row in SQLite                                     *)
  queue,    (* queue[p]: the download tasks in the SyncQueue                  *)
  pending,  (* pending[p]: tasks whose request is out (pendingDownloads)      *)
  timers,   (* timers[p]: tasks waiting for their backoff                     *)
  jobs,     (* jobs[p]: what the daemon has been told to do                   *)
  open,     (* handlers that have read their row and not saved yet            *)
  phase,    (* phase[p]: how far the application has started                  *)
  fresh,    (* fresh[p]: the row was saved since the scan started             *)
  msgs,     (* P2P messages in flight                                        *)
  links,    (* connected pairs of peers                                      *)
  spent,    (* how much of each bound is used                                *)
  written,  (* history: hash and version of the changes recorded by a peer    *)
  warned    (* peers whose user has been told of a conflict                  *)

daemonVars == <<disk, notices, events, jobs>>
dbVars == <<row, fresh, written>>
downloadVars == <<queue, pending, timers>>
netVars == <<msgs, links>>
procVars == <<phase, open>>
vars == <<daemonVars, dbVars, downloadVars, netVars, procVars, spent, warned>>

-----------------------------------------------------------------------------
Pair == {e \in SUBSET Peer : \E p, q \in Peer : p # q /\ e = {p, q}}
Linked(p, q) == {p, q} \in links
Now == spent.edits

File == [hash : Hash, ts : Nat]
NoFile == [hash |-> NoHash, ts |-> Now]
Notice == {"created", "modified", "deleted"}
Event == [hash : Hash, act : {"add", "modify", "delete"}, ts : Nat]
Task == [hash : Content, peer : Peer, retries : 0 .. MaxDownloadRetries]
Job == [do : {"fetch", "rename"}, hash : Content, from : Peer] \cup
       [do : {"delete"}]

Meta(p, q, r) == [type |-> "meta", from |-> p, to |-> q, row |-> r]
Request(p, q, h) == [type |-> "request", from |-> p, to |-> q, hash |-> h]
Response(p, q, h, kind, c) ==
  [type |-> "response", from |-> p, to |-> q, hash |-> h, kind |-> kind, content |-> c]

(* Mutant of Broadcast: the row from before the change is sent.              *)
BroadcastStale(p, r) == {Meta(p, q, row[p]) : q \in {x \in Peer : Linked(p, x)}}

Broadcast(p, r) == {Meta(p, q, r) : q \in {x \in Peer : Linked(p, x)}}
sendMetadataUpdateToPeer(p, q, r) == IF Linked(p, q) THEN {Meta(p, q, r)} ELSE {}

(* A stop and a lost connection count twice: a start or a connection follows. *)
Events(s) == s.edits + s.faults + s.breaks + s.choices + 2 * (s.crashes + s.drops)
Spend(what) ==
  /\ spent' = [spent EXCEPT ![what] = @ + 1]
  /\ Events(spent') <= MaxEvents

(* The file at p becomes f: the watcher, once started, is notified.          *)
Touch(p, f, notice) ==
  /\ disk' = [disk EXCEPT ![p] = f]
  /\ notices' = IF phase[p] = "up"
                  THEN [notices EXCEPT ![p] = Append(@, notice)]
                  ELSE notices
Written(p) == IF disk[p].hash = NoHash THEN "created" ELSE "modified"

(* Metadata().Save, which stamps the row with the current time.              *)
Save(p, r) ==
  /\ row' = [row EXCEPT ![p] = r]
  /\ fresh' = [fresh EXCEPT ![p] = TRUE]

(* SyncQueue.Push refuses a task for a file and hash that it already holds.   *)
Push(q, t) == IF \E x \in q : x.hash = t.hash THEN q ELSE q \cup {t}

-----------------------------------------------------------------------------
(* The user of p works on the file, whether or not the application runs.     *)

UserWrite(p, h) ==
  /\ spent.edits < MaxEdits
  /\ disk[p].hash # h
  /\ Spend("edits")
  /\ Touch(p, [hash |-> h, ts |-> spent.edits + 1], Written(p))
  /\ UNCHANGED <<events, jobs, dbVars, downloadVars, netVars, procVars, warned>>

UserDelete(p) ==
  /\ spent.edits < MaxEdits
  /\ disk[p].hash # NoHash
  /\ Spend("edits")
  /\ Touch(p, [hash |-> NoHash, ts |-> spent.edits + 1], "deleted")
  /\ UNCHANGED <<events, jobs, dbVars, downloadVars, netVars, procVars, warned>>

-----------------------------------------------------------------------------
(* The daemon reports the file as it is when the notice is handled.  Of a file
   that has vanished since it would report an empty hash, which the
   coordinator refuses (FileChangedPayload.Validate).                        *)
ReportChange(p) ==
  LET n == Head(notices[p]) IN
  /\ notices[p] # <<>>
  /\ notices' = [notices EXCEPT ![p] = Tail(@)]
  /\ events' =
       IF n = "deleted"
         THEN [events EXCEPT ![p] = Append(@, [hash |-> NoHash, act |-> "delete", ts |-> Now])]
       ELSE IF disk[p].hash = NoHash THEN events
       ELSE [events EXCEPT ![p] = Append(@,
               [hash |-> disk[p].hash, ts |-> disk[p].ts,
                act |-> IF n = "created" THEN "add" ELSE "modify"])]
  /\ UNCHANGED <<disk, jobs, dbVars, downloadVars, netVars, procVars, spent, warned>>

-----------------------------------------------------------------------------
(* HandleLocalFileChanged at p for the event e, when the row it read was r.   *)
LocalChange(p, e, r) ==
  LET new == LocalRow(r, e.hash, e.act, e.ts) IN
  /\ \/ /\ Redundant(r, e.hash, e.act)
        /\ UNCHANGED <<dbVars, msgs>>
     \/ /\ ~Redundant(r, e.hash, e.act)
        /\ new.ver <= MaxVersion
        /\ Save(p, new)
        /\ written' = written \cup {<<e.hash, new.ver>>}
        /\ msgs' = IF e.hash = Empty THEN msgs ELSE msgs \cup Broadcast(p, new)
  /\ UNCHANGED <<disk, notices, jobs, downloadVars, links, phase, spent, warned>>

(* HandlePeerMetadataUpdate at m.to, when the row it read was r.  Messages to a
   daemon that does not run yet are lost.                                   *)
PeerUpdate(m, r) ==
  LET p == m.to
      res == Resolve(Version(r, p), Version(m.row, m.from))
      task == [hash |-> m.row.hash, peer |-> m.from, retries |-> 0]
      known == \E t \in queue[p] \cup pending[p] : t.hash = m.row.hash
      missing == Exists(r) /\ ~r.del /\ disk[p].hash = NoHash
  IN
  /\ \/ /\ res.action = "AcceptRemote"
        /\ Save(p, m.row)
        /\ IF m.row.del
             THEN /\ jobs' = IF phase[p] = "up" THEN [jobs EXCEPT ![p] = @ \cup {[do |-> "delete"]}]
                             ELSE jobs
                  /\ UNCHANGED queue
             ELSE /\ queue' = IF known THEN queue ELSE [queue EXCEPT ![p] = Push(@, task)]
                  /\ UNCHANGED jobs
        /\ msgs' = msgs \ {m}
     \/ /\ res.action = "KeepLocal"
        /\ msgs' = (msgs \ {m}) \cup
                     IF res.isConflict THEN {} ELSE sendMetadataUpdateToPeer(p, m.from, r)
        /\ UNCHANGED <<row, fresh, jobs, queue>>
     \/ /\ res.action = "Skip"
        /\ queue' = IF missing THEN [queue EXCEPT ![p] = Push(@, task)] ELSE queue
        /\ msgs' = msgs \ {m}
        /\ UNCHANGED <<row, fresh, jobs>>
  /\ warned' = IF res.isConflict THEN warned \cup {p} ELSE warned
  /\ UNCHANGED <<disk, notices, events, written, pending, timers, links, phase, spent>>

(* The handlers as single steps ...                                         *)
HandleLocalFileChanged(p) ==
  /\ events[p] # <<>>
  /\ events' = [events EXCEPT ![p] = Tail(@)]
  /\ LocalChange(p, Head(events[p]), row[p])
  /\ UNCHANGED open

HandlePeerMetadataUpdate(m) ==
  /\ m.type = "meta"
  /\ PeerUpdate(m, row[m.to])
  /\ UNCHANGED open

(* ... and in two, for nothing keeps the handlers of the daemon's messages and
   of each connection's messages from running between each other's read and
   save.  Each source of messages has one handler at a time.                 *)
Busy(p, source) == \E o \in open : o.at = p /\ o.source = source

ReadLocal(p) ==
  /\ events[p] # <<>>
  /\ ~Busy(p, p)
  /\ open' = open \cup {[at |-> p, source |-> p, arg |-> Head(events[p]), row |-> row[p]]}
  /\ events' = [events EXCEPT ![p] = Tail(@)]
  /\ UNCHANGED <<disk, notices, jobs, dbVars, downloadVars, netVars, phase, spent, warned>>

ReadRemote(m) ==
  /\ m.type = "meta"
  /\ ~Busy(m.to, m.from)
  /\ open' = open \cup {[at |-> m.to, source |-> m.from, arg |-> m, row |-> row[m.to]]}
  /\ msgs' = msgs \ {m}
  /\ UNCHANGED <<daemonVars, dbVars, downloadVars, links, phase, spent, warned>>

FinishHandler(o) ==
  /\ open' = open \ {o}
  /\ \/ /\ o.source = o.at
        /\ LocalChange(o.at, o.arg, o.row)
        /\ UNCHANGED events
     \/ /\ o.source # o.at
        /\ PeerUpdate(o.arg, o.row)

-----------------------------------------------------------------------------
(* Downloads.                                                               *)

(* Mutant of executeSyncTask: the task stays in the queue.                   *)
ExecuteKeepsTask(p, t) ==
  /\ t \in queue[p]
  /\ Linked(p, t.peer)
  /\ pending' = [pending EXCEPT ![p] = {x \in @ : x.hash # t.hash} \cup {t}]
  /\ msgs' = msgs \cup {Request(p, t.peer, t.hash)}
  /\ UNCHANGED <<daemonVars, dbVars, queue, timers, links, procVars, spent, warned>>

(* A task whose peer is away goes back into the queue.                       *)
executeSyncTask(p, t) ==
  /\ t \in queue[p]
  /\ Linked(p, t.peer)
  /\ queue' = [queue EXCEPT ![p] = @ \ {t}]
  /\ pending' = [pending EXCEPT ![p] = {x \in @ : x.hash # t.hash} \cup {t}]
  /\ msgs' = msgs \cup {Request(p, t.peer, t.hash)}
  /\ UNCHANGED <<daemonVars, dbVars, timers, links, procVars, spent, warned>>

(* The file_request m is answered from the row, and a small file from the disk
   as it is by now (FileTransferManager.StartUpload).                        *)
HandleFileRequest(m) ==
  LET p == m.to
      current == disk[p].hash
      kind == IF ~(Exists(row[p]) /\ row[p].hash = m.hash /\ ~row[p].del) THEN "error"
              ELSE IF m.hash \in Inline /\ current # NoHash THEN "inline"
              ELSE "port"
  IN
  /\ m.type = "request"
  /\ ~Busy(p, m.from)
  /\ msgs' = (msgs \ {m}) \cup {Response(p, m.from, m.hash, kind, current)}
  /\ UNCHANGED <<daemonVars, dbVars, downloadVars, links, procVars, spent, warned>>

(* The answer m to a request that is no longer pending, or an error, changes
   nothing; after an error the download stays pending.                       *)
Useful(m) == m.kind # "error" /\ \E t \in pending[m.to] : t.hash = m.hash
Answered(p, h) == pending' = [pending EXCEPT ![p] = {t \in @ : t.hash # h}]

DiscardResponse(m) ==
  /\ m.type = "response" /\ ~Busy(m.to, m.from)
  /\ ~Useful(m)
  /\ msgs' = msgs \ {m}
  /\ UNCHANGED <<daemonVars, dbVars, downloadVars, links, procVars, spent, warned>>

(* The content came with the answer: it is written, unless its hash is not the
   requested one, and the row keeps the version it has by now.               *)
StoreInline(m) ==
  LET p == m.to IN
  /\ m.type = "response" /\ ~Busy(m.to, m.from)
  /\ Useful(m) /\ m.kind = "inline"
  /\ Answered(p, m.hash)
  /\ IF m.content # m.hash
       THEN UNCHANGED <<disk, notices, row, fresh>>
       ELSE /\ Touch(p, [hash |-> m.hash, ts |-> Now], Written(p))
            /\ Save(p, InlineRow(row[p], m.hash, Now))
  /\ msgs' = msgs \ {m}
  /\ UNCHANGED <<events, jobs, written, queue, timers, links, procVars, spent, warned>>

(* The answer names a port of the peer's transfer manager: the daemon, if it
   runs, is told to fetch the file from there.                               *)
StartDownload(m) ==
  LET p == m.to IN
  /\ m.type = "response" /\ ~Busy(m.to, m.from)
  /\ Useful(m) /\ m.kind = "port"
  /\ Answered(p, m.hash)
  /\ jobs' = IF phase[p] = "up"
               THEN [jobs EXCEPT ![p] = @ \cup {[do |-> "fetch", hash |-> m.hash, from |-> m.from]}]
               ELSE jobs
  /\ msgs' = msgs \ {m}
  /\ UNCHANGED <<disk, notices, events, dbVars, queue, timers, links, procVars, spent, warned>>

(* The port cannot be reached: retry after a while, at most
   MaxDownloadRetries times, and then forget the row.                        *)
DownloadFails(m) ==
  LET p == m.to IN
  /\ m.type = "response" /\ ~Busy(m.to, m.from)
  /\ Useful(m) /\ m.kind = "port"
  /\ spent.faults < MaxFaults
  /\ Spend("faults")
  /\ Answered(p, m.hash)
  /\ \E t \in pending[p] :
       /\ t.hash = m.hash
       /\ IF t.retries < MaxDownloadRetries
            THEN /\ timers' = [timers EXCEPT ![p] = @ \cup {[t EXCEPT !.retries = @ + 1]}]
                 /\ UNCHANGED row
            ELSE /\ row' = [row EXCEPT ![p] = NoRow]
                 /\ UNCHANGED timers
  /\ msgs' = msgs \ {m}
  /\ UNCHANGED <<daemonVars, fresh, written, queue, links, procVars, warned>>

RetryDownload(p, t) ==
  /\ t \in timers[p]
  /\ timers' = [timers EXCEPT ![p] = @ \ {t}]
  /\ queue' = [queue EXCEPT ![p] = Push(@, t)]
  /\ UNCHANGED <<daemonVars, dbVars, pending, netVars, procVars, spent, warned>>

-----------------------------------------------------------------------------
(* The daemon's work for the coordinator.                                   *)

Done(p, j, then) == jobs' = [jobs EXCEPT ![p] = (@ \ {j}) \cup then]

(* The peer's daemon sends its file as it is by now; what arrives is checked
   against the expected hash and a file that differs is thrown away.          *)
Fetch(p, j) ==
  /\ j \in jobs[p] /\ j.do = "fetch"
  /\ phase[j.from] = "up"
  /\ Done(p, j, IF disk[j.from].hash = j.hash THEN {[j EXCEPT !.do = "rename"]} ELSE {})
  /\ UNCHANGED <<disk, notices, events, dbVars, downloadVars, netVars, procVars, spent, warned>>

(* The transfer breaks off or times out: nobody tries again.                 *)
FetchBreaks(p, j) ==
  /\ j \in jobs[p] /\ j.do = "fetch"
  /\ \/ phase[j.from] # "up" /\ UNCHANGED spent
     \/ spent.breaks < MaxBreaks /\ Spend("breaks")
  /\ Done(p, j, {})
  /\ UNCHANGED <<disk, notices, events, dbVars, downloadVars, netVars, procVars, warned>>

(* fs::rename moves the finished file over whatever is there.                *)
Rename(p, j) ==
  /\ j \in jobs[p] /\ j.do = "rename"
  /\ Done(p, j, {})
  /\ Touch(p, [hash |-> j.hash, ts |-> Now], "created")
  /\ UNCHANGED <<events, dbVars, downloadVars, netVars, procVars, spent, warned>>

DeleteFile(p, j) ==
  /\ j \in jobs[p] /\ j.do = "delete"
  /\ Done(p, j, {})
  /\ IF disk[p].hash = NoHash THEN UNCHANGED <<disk, notices>> ELSE Touch(p, NoFile, "deleted")
  /\ UNCHANGED <<events, dbVars, downloadVars, netVars, procVars, spent, warned>>

-----------------------------------------------------------------------------
(* Start and stop of an application, and its connections.                    *)

(* The application at p stops or crashes: only disk and database survive.     *)
Stop(p) ==
  /\ phase[p] # "down"
  /\ spent.crashes < MaxCrashes
  /\ Spend("crashes")
  /\ phase' = [phase EXCEPT ![p] = "down"]
  /\ open' = {o \in open : o.at # p}
  /\ notices' = [notices EXCEPT ![p] = <<>>]
  /\ events' = [events EXCEPT ![p] = <<>>]
  /\ jobs' = [jobs EXCEPT ![p] = {}]
  /\ queue' = [queue EXCEPT ![p] = {}]
  /\ pending' = [pending EXCEPT ![p] = {}]
  /\ timers' = [timers EXCEPT ![p] = {}]
  /\ links' = {e \in links : p \notin e}
  /\ msgs' = {m \in msgs : p \notin {m.from, m.to}}
  /\ UNCHANGED <<disk, dbVars, warned>>

(* The worker of the repository starts (startRepoWorkerLocked): it scans, and
   then spawns the daemon.                                                  *)
Start(p) ==
  /\ phase[p] = "down"
  /\ phase' = [phase EXCEPT ![p] = "scan"]
  /\ fresh' = [fresh EXCEPT ![p] = FALSE]
  /\ UNCHANGED <<daemonVars, row, written, downloadVars, netVars, open, spent, warned>>

(* What the scan makes of the row, given what it finds on the disk.          *)
Scanned(p, h, t) ==
  LET r == row[p]
      new == ScannedRow(r, h, t)
  IN IF new = r
       THEN UNCHANGED <<dbVars, msgs>>
       ELSE /\ new.ver <= MaxVersion
            /\ Save(p, new)
            /\ IF new.ver = r.ver
                 THEN UNCHANGED <<written, msgs>>
                 ELSE /\ written' = written \cup {<<h, new.ver>>}
                      /\ msgs' = msgs \cup Broadcast(p, new)

(* ScanAndIndexLocalFiles walks over the directory ...                       *)
ScanWalk(p) ==
  /\ phase[p] = "scan"
  /\ IF disk[p].hash = NoHash
       THEN /\ phase' = [phase EXCEPT ![p] = "unseen"]
            /\ UNCHANGED <<dbVars, msgs>>
       ELSE /\ phase' = [phase EXCEPT ![p] = "seen"]
            /\ Scanned(p, disk[p].hash, disk[p].ts)
  /\ UNCHANGED <<daemonVars, downloadVars, links, open, spent, warned>>

(* ... and then over the rows, for those whose file it has not seen and that
   were not saved meanwhile.                                                *)
ScanSweep(p) ==
  /\ phase[p] \in {"seen", "unseen"}
  /\ phase' = [phase EXCEPT ![p] = "scanned"]
  /\ IF phase[p] = "unseen" /\ ~fresh[p]
       THEN Scanned(p, NoHash, 0)
       ELSE UNCHANGED <<dbVars, msgs>>
  /\ UNCHANGED <<daemonVars, downloadVars, links, open, spent, warned>>

StartDaemon(p) ==
  /\ phase[p] = "scanned"
  /\ phase' = [phase EXCEPT ![p] = "up"]
  /\ UNCHANGED <<daemonVars, dbVars, downloadVars, netVars, open, spent, warned>>

(* Mutant of SyncAllRepositoriesWithPeer: nothing is announced.               *)
SyncNothing(p, q) == {}

SyncAllRepositoriesWithPeer(p, q) ==
  IF Exists(row[p]) /\ ~row[p].del THEN {Meta(p, q, row[p])} ELSE {}

Connect(p, q) ==
  /\ p # q /\ ~Linked(p, q)
  /\ phase[p] # "down" /\ phase[q] # "down"
  /\ links' = links \cup {{p, q}}
  /\ msgs' = msgs \cup SyncAllRepositoriesWithPeer(p, q) \cup SyncAllRepositoriesWithPeer(q, p)
  /\ UNCHANGED <<daemonVars, dbVars, downloadVars, procVars, spent, warned>>

Disconnect(p, q) ==
  /\ Linked(p, q)
  /\ spent.drops < MaxDrops
  /\ Spend("drops")
  /\ links' = links \ {{p, q}}
  /\ msgs' = {m \in msgs : {m.from, m.to} # {p, q}}
  /\ UNCHANGED <<daemonVars, dbVars, downloadVars, procVars, warned>>

(* HandleConflictResolution: the user of p keeps the own version or asks q for
   the other one.                                                           *)
KeepMine(p, q) ==
  /\ Exists(row[p])
  /\ msgs' = msgs \cup sendMetadataUpdateToPeer(p, q, row[p])
  /\ UNCHANGED <<daemonVars, dbVars, downloadVars, links, procVars, warned>>

TakeTheirs(p, q) ==
  /\ row' = [row EXCEPT ![p] = NoRow]
  /\ IF disk[p].hash = NoHash THEN UNCHANGED <<disk, notices>> ELSE Touch(p, NoFile, "deleted")
  /\ msgs' = msgs \cup sendMetadataUpdateToPeer(p, q, NoRow)
  /\ UNCHANGED <<events, jobs, fresh, written, downloadVars, links, procVars, warned>>

HandleConflictResolution(p, q) ==
  /\ p \in warned
  /\ phase[p] # "down" /\ p # q
  /\ spent.choices < MaxChoices
  /\ Spend("choices")
  /\ KeepMine(p, q) \/ TakeTheirs(p, q)

-----------------------------------------------------------------------------
FirstRow == IF First = NoHash THEN NoRow ELSE [hash |-> First, ver |-> 1, ts |-> 0, del |-> FALSE]

Init ==
  /\ disk = [p \in Peer |-> [hash |-> First, ts |-> 0]]
  /\ row = [p \in Peer |-> FirstRow]
  /\ notices = [p \in Peer |-> <<>>] /\ events = [p \in Peer |-> <<>>]
  /\ queue = [p \in Peer |-> {}] /\ pending = [p \in Peer |-> {}]
  /\ timers = [p \in Peer |-> {}] /\ jobs = [p \in Peer |-> {}]
  /\ open = {} /\ msgs = {}
  /\ phase = [p \in Peer |-> "up"]
  /\ fresh = [p \in Peer |-> FALSE]
  /\ links = Pair
  /\ spent = [edits |-> 0, crashes |-> 0, drops |-> 0, faults |-> 0,
              breaks |-> 0, choices |-> 0]
  /\ written = IF First = NoHash THEN {} ELSE {<<First, 1>>}
  /\ warned = {}

User == \E p \in Peer : UserDelete(p) \/ \E h \in Content : UserWrite(p, h)

Environment ==
  \/ \E p \in Peer : Stop(p)
  \/ \E p, q \in Peer : Disconnect(p, q) \/ HandleConflictResolution(p, q)

(* The faults of a transfer.                                                *)
Faults ==
  \/ \E m \in msgs : DownloadFails(m)
  \/ \E p \in Peer : \E j \in jobs[p] : FetchBreaks(p, j)

PeerStep(p) ==
  \/ ReportChange(p)
  \/ \E t \in queue[p] : executeSyncTask(p, t)
  \/ \E t \in timers[p] : RetryDownload(p, t)
  \/ \E j \in jobs[p] : Fetch(p, j) \/ Rename(p, j) \/ DeleteFile(p, j)
  \/ Start(p) \/ ScanWalk(p) \/ ScanSweep(p) \/ StartDaemon(p)

Deliver(m) == HandleFileRequest(m) \/ DiscardResponse(m) \/ StoreInline(m) \/ StartDownload(m)

Handlers ==
  \/ \E p \in Peer : HandleLocalFileChanged(p)
  \/ \E m \in msgs : HandlePeerMetadataUpdate(m)

SplitHandlers ==
  \/ \E p \in Peer : ReadLocal(p)
  \/ \E m \in msgs : ReadRemote(m)
  \/ \E o \in open : FinishHandler(o)

System == (\E p \in Peer : PeerStep(p)) \/ (\E m \in msgs : Deliver(m)) \/ Faults

Reconnect == \E p, q \in Peer : Connect(p, q)

(* Handlers that never overlap, and handlers that do.                        *)
Next == User \/ Environment \/ System \/ Reconnect \/ Handlers
NextSplit == User \/ Environment \/ System \/ Reconnect \/ SplitHandlers
Spec == Init /\ [][Next]_vars
SpecSplit == Init /\ [][NextSplit]_vars

(* Users that never delete the file.                                        *)
NextKeep ==
  \/ \E p \in Peer, h \in Content : UserWrite(p, h)
  \/ Environment \/ System \/ Reconnect \/ Handlers
SpecKeep == Init /\ [][NextKeep]_vars

(* Nothing is under way.                                                    *)
Idle ==
  /\ msgs = {} /\ open = {}
  /\ \A p \in Peer : /\ notices[p] = <<>> /\ events[p] = <<>>
                     /\ queue[p] = {} /\ timers[p] = {} /\ jobs[p] = {}
Ready == Idle /\ \A p \in Peer : phase[p] = "up"
Quiet == Ready /\ links = Pair
InSync == \A p, q \in Peer : disk[p].hash = disk[q].hash

(* Users and operators that wait until everything has settled: nothing is
   changed, stopped or disconnected while something is under way, of peers
   that are apart only one is changed, and no change brings back an earlier
   state of the file.                                                       *)
Turn(p) == InSync \/ \A q \in Peer : disk[q].ts <= disk[p].ts /\ row[q].ver <= row[p].ver
New == Hash \ ({w[1] : w \in written} \cup {disk[p].hash : p \in Peer})
CalmUser == \E p \in Peer :
  /\ Turn(p) /\ phase[p] \in {"down", "up"}
  /\ \/ phase[p] = "up" /\ NoHash \in New /\ UserDelete(p)
     \/ \E h \in Content \cap New : UserWrite(p, h)
NextCalm ==
  (Idle /\ (CalmUser \/ Environment)) \/ System \/ (Ready /\ Reconnect) \/ Handlers

(* The same, but connections are made as soon as the applications run.        *)
NextHasty == (Idle /\ (CalmUser \/ Environment)) \/ System \/ Reconnect \/ Handlers

(* The same as NextCalm, but connections may break at any time.              *)
NextBusy ==
  (Idle /\ CalmUser) \/ Environment \/ System \/ (Ready /\ Reconnect) \/ Handlers

(* The goroutines and threads of every peer keep running, and the
   reconnection loop keeps trying.                                          *)
Fairness == \A p \in Peer :
  /\ WF_vars(ReportChange(p)) /\ WF_vars(HandleLocalFileChanged(p))
  /\ WF_vars(\E m \in msgs : m.to = p /\ (HandlePeerMetadataUpdate(m) \/ Deliver(m)))
  /\ WF_vars(\E t \in queue[p] : executeSyncTask(p, t))
  /\ WF_vars(\E t \in timers[p] : RetryDownload(p, t))
  /\ WF_vars(\E j \in jobs[p] : Fetch(p, j) \/ Rename(p, j) \/ DeleteFile(p, j))
  /\ WF_vars(Start(p)) /\ WF_vars(ScanWalk(p)) /\ WF_vars(ScanSweep(p))
  /\ WF_vars(StartDaemon(p))
  /\ WF_vars(\E q \in Peer : Ready /\ Connect(p, q))

SpecHasty == Init /\ [][NextHasty]_vars
SpecBusy == Init /\ [][NextBusy]_vars
SpecCalm == Init /\ [][NextCalm]_vars /\ Fairness

-----------------------------------------------------------------------------
TypeOK ==
  /\ disk \in [Peer -> File]
  /\ notices \in [Peer -> Seq(Notice)]
  /\ events \in [Peer -> Seq(Event)]
  /\ row \in [Peer -> Row]
  /\ \A p \in Peer : queue[p] \cup pending[p] \cup timers[p] \subseteq Task
  /\ \A p \in Peer : jobs[p] \subseteq Job
  /\ phase \in [Peer -> {"down", "scan", "seen", "unseen", "scanned", "up"}]
  /\ \A o \in open : {o.at, o.source} \subseteq Peer /\ o.row \in Row
  /\ fresh \in [Peer -> BOOLEAN]
  /\ warned \subseteq Peer
  /\ links \subseteq Pair
  /\ \A m \in msgs : Linked(m.from, m.to)

(* Once nothing is under way all peers have the same file, and their rows
   describe it.                                                             *)
RowMatches(p) ==
  IF Exists(row[p]) /\ ~row[p].del THEN disk[p].hash = row[p].hash ELSE disk[p].hash = NoHash
QuietMeansInSync == Quiet => InSync /\ \A p \in Peer : RowMatches(p)

(* Versions are made by users: what a peer downloads, or deletes on behalf of
   another one, is never announced as a change of its own.                   *)
Recorded == {w[1] : w \in written}
NoEcho == Cardinality(written) <= Now + (IF First = NoHash THEN 0 ELSE 1)

(* A row has the version under which its content was recorded.               *)
VersionsAreTrue == \A p \in Peer :
  Exists(row[p]) /\ ~row[p].del => <<row[p].hash, row[p].ver>> \in written

(* The application never replaces or deletes a content that no peer has
   recorded.                                                                *)
NothingUnrecordedLost ==
  [][\A p \in Peer :
       disk'[p].hash # disk[p].hash /\ UNCHANGED spent.edits
         => disk[p].hash \in Recorded \cup {NoHash}]_vars

(* A file that no user deletes is still there once nothing is under way.      *)
FileSurvives == Quiet => \E p \in Peer : disk[p].hash # NoHash

(* A version that a peer has recorded or accepted is never replaced by an
   older one.                                                               *)
RowsNeverRegress ==
  [][\A p \in Peer : row'[p].ver >= row[p].ver \/ row'[p] = NoRow]_vars

(* Every change reaches every peer in the end.                              *)
Converges == <>[](Quiet /\ InSync)

(* Whatever names a content names one that a peer has recorded, no time is
   later than the last change of a user, and a row of version 0 is no row.   *)
GoodFile(f) == f \in File /\ f.hash # Empty /\ f.ts <= Now
GoodEvent(e) ==
  e \in Event /\ e.hash # Empty /\ e.ts <= Now /\ (e.act = "delete" <=> e.hash = NoHash)
GoodRow(r) ==
  /\ r \in Row
  /\ r = NoRow \/ (Exists(r) /\ r.hash \in Recorded /\ (~r.del => r.hash \in Content))
GoodTask(t) == t \in Task /\ t.hash \in Recorded
GoodMsg(m) ==
  \/ m \in [type : {"meta"}, from : Peer, to : Peer, row : Row] /\ GoodRow(m.row)
  \/ m \in [type : {"request"}, from : Peer, to : Peer, hash : Content] /\ m.hash \in Recorded
  \/ /\ m \in [type : {"response"}, from : Peer, to : Peer, hash : Content,
               kind : {"error", "inline", "port"}, content : Hash]
     /\ m.hash \in Recorded

SyncInv ==
  /\ disk \in [Peer -> File] /\ \A p \in Peer : GoodFile(disk[p])
  /\ events \in [Peer -> Seq(Event)]
  /\ \A p \in Peer : \A i \in DOMAIN events[p] : GoodEvent(events[p][i])
  /\ row \in [Peer -> Row] /\ \A p \in Peer : GoodRow(row[p])
  /\ {queue, pending, timers} \subseteq [Peer -> SUBSET Task]
  /\ \A p \in Peer : \A t \in queue[p] \cup pending[p] \cup timers[p] : GoodTask(t)
  /\ jobs \in [Peer -> SUBSET Job]
  /\ \A m \in msgs : GoodMsg(m)
  /\ spent \in [{"edits", "crashes", "drops", "faults", "breaks", "choices"} -> Nat]
  /\ Now <= MaxEdits

(* The types that SyncInv leaves out: handlers that run one at a time leave none
   open, and messages are on their way between peers that are connected only. *)
Phases == {"down", "scan", "seen", "unseen", "scanned", "up"}

Shape ==
  /\ notices \in [Peer -> Seq(Notice)]
  /\ phase \in [Peer -> Phases]
  /\ fresh \in [Peer -> BOOLEAN]
  /\ open = {} /\ warned \subseteq Peer
  /\ links \subseteq Pair
  /\ \A m \in msgs : Linked(m.from, m.to)

-----------------------------------------------------------------------------
(* Why the peers agree if users and operators wait (NextCalm, no transfer breaks
   off).  Contents and versions are recorded one for one, and a row says what
   was recorded.                                                             *)
Newest(r) == \A w \in written : w[2] <= r.ver
SameVersion(r, u) == r.hash = u.hash /\ r.ver = u.ver
RecordedRow(r) ==
  /\ r = NoRow \/ <<r.hash, r.ver>> \in written
  /\ r.del <=> (Exists(r) /\ r.hash = NoHash)
History ==
  /\ IsFiniteSet(written) /\ written \subseteq Hash \X (Nat \ {0})
  /\ \A v, w \in written : v[1] = w[1] <=> v[2] = w[2]
  /\ \A p \in Peer : RecordedRow(row[p])
  /\ NoHash \in Recorded => \A p \in Peer : Exists(row[p])

(* Only applications that run are connected, and nobody is told of a conflict.  *)
Orderly ==
  /\ open = {} /\ warned = {}
  /\ \A p, q \in Peer : Linked(p, q) => phase[p] = "up"
  /\ \A p \in Peer : phase[p] = "unseen" => disk[p].hash = NoHash

Tasks(p) == queue[p] \cup pending[p] \cup timers[p]
NothingToDo(p) == notices[p] = <<>> /\ events[p] = <<>> /\ Tasks(p) = {} /\ jobs[p] = {}

(* What happens has one source s: either its user's change is not recorded yet,
   and nothing else is under way ...                                         *)
Unrecorded(s) ==
  /\ disk[s].hash \notin Recorded
  /\ disk[s].hash = NoHash => \A p \in Peer : Exists(row[p])
  /\ Newest(row[s])
  /\ Cardinality(written) < Now + (IF First = NoHash THEN 0 ELSE 1)
  /\ msgs = {}
  /\ \A p \in Peer : Tasks(p) = {} /\ jobs[p] = {}
  /\ \A p \in Peer \ {s} : /\ notices[p] = <<>> /\ events[p] = <<>>
                           /\ disk[p].hash = row[p].hash /\ disk[p].ts < disk[s].ts
  /\ \/ /\ phase[s] \in {"down", "scan"} /\ disk[s].hash # NoHash
        /\ notices[s] = <<>> /\ events[s] = <<>>
     \/ /\ phase[s] = "up" /\ events[s] = <<>> /\ Len(notices[s]) = 1
        /\ Head(notices[s]) = "deleted" <=> disk[s].hash = NoHash
        /\ Head(notices[s]) = "modified" => row[s].hash # NoHash
     \/ /\ phase[s] = "up" /\ notices[s] = <<>> /\ Len(events[s]) = 1
        /\ Head(events[s]).hash = disk[s].hash
        /\ Head(events[s]).act = "modify" => row[s].hash # NoHash

(* ... or its row spreads to the peers it is connected to, which follow it.     *)
CalmMsg(m, s) ==
  \/ /\ m.type = "meta" /\ m.from = s
     /\ SameVersion(m.row, row[s]) /\ Exists(m.row) /\ RecordedRow(m.row)
     /\ row[m.to].ver <= row[s].ver
  \/ /\ m.type = "meta" /\ m.to = s
     /\ m.row.ver <= row[s].ver /\ Exists(m.row) /\ RecordedRow(m.row)
     /\ SameVersion(m.row, row[m.from]) \/ SameVersion(row[m.from], row[s])
  \/ m.type = "request" /\ m.to = s /\ m.hash = row[s].hash
  \/ /\ m.type = "response" /\ m.from = s /\ m.hash = row[s].hash
     /\ m.kind # "error" /\ (m.kind = "inline" => m.content = m.hash)

Asked(p) ==
  \E m \in msgs : (m.type = "request" /\ m.from = p) \/ (m.type = "response" /\ m.to = p)

Follower(p, s) ==
  /\ disk[p].hash = row[p].hash \/ Tasks(p) # {} \/ jobs[p] # {}
  /\ NothingToDo(p) \/ (Linked(p, s) /\ SameVersion(row[p], row[s]) /\ Exists(row[p]))
  /\ \A t \in Tasks(p) : t.hash = row[s].hash /\ t.peer = s /\ t.retries <= spent.faults
  /\ pending[p] # {} => Asked(p)
  /\ \A j \in jobs[p] :
       IF row[s].del THEN j.do = "delete" ELSE j.do # "delete" /\ j.hash = row[s].hash /\ j.from = s
  /\ notices[p] # <<>> \/ events[p] # <<>> => disk[p].hash = row[p].hash
  /\ \A i \in DOMAIN notices[p] : notices[p][i] = "deleted" <=> row[s].del
  /\ \A i \in DOMAIN events[p] : events[p][i].hash = row[s].hash

Spreading(s) ==
  /\ Cardinality(written) <= Now + (IF First = NoHash THEN 0 ELSE 1)
  /\ \A p \in Peer : disk[p].hash \in Recorded \cup {NoHash}
  /\ disk[s].hash = row[s].hash /\ NothingToDo(s)
  /\ \A m \in msgs : CalmMsg(m, s)
  /\ \A p \in Peer \ {s} : Follower(p, s)

(* Who has not the latest version is not connected to a peer that has it, or an
   announcement between it and the source is on its way.                     *)
Told(p, s) ==
  \E m \in msgs : m.type = "meta" /\ ((m.from = p /\ m.to = s) \/ (m.from = s /\ m.to = p))
UpToDate(p, s) ==
  \/ Newest(row[p])
  \/ \E q \in Peer : Newest(row[q]) /\ ~Linked(p, q)
  \/ Newest(row[s]) /\ Told(p, s)

CalmInv ==
  /\ History /\ Orderly
  /\ \E s \in Peer : (Unrecorded(s) \/ Spreading(s)) /\ \A p \in Peer : UpToDate(p, s)
=============================================================================
