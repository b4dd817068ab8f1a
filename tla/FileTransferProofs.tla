-------------------------- MODULE FileTransferProofs --------------------------
(***************************************************************************)
(* Proofs about the downloads of a file, for any number of transfers,      *)
(* files and blocks, on every platform.                                    *)
(***************************************************************************)
EXTENDS FileTransfer, TLAPS

USE ZenonT(30)

-----------------------------------------------------------------------------
(* What the watcher, its users and its main thread do to what a download uses. *)

WatchStep ==
  /\ changes' \in 0 .. MaxChanges /\ disk' \in [File -> Applied]
  /\ main = "exited" => main' = "exited"

LEMMA ChangeFacts ==
  ASSUME SerialInv, NEW f \in File, NEW content \in Applied \cup {Whole(changes + 1)}, NEW kind,
         Change(f, content, kind)
  PROVE  WatchStep
  <1>1. changes + 1 \in 0 .. MaxChanges /\ changes' = changes + 1
    BY WatcherAssumption, SMTT(30) DEF Change, SerialInv
  <1>2. content \in Applied
    BY <1>1 DEF Applied
  <1>3. disk' \in [File -> Applied] /\ main' = main
    BY <1>2 DEF Change, SerialInv
  <1> QED BY <1>1, <1>3 DEF WatchStep

LEMMA UsersFacts ==
  ASSUME SerialInv, Users
  PROVE  WatchStep
  <1>1. Missing \in Applied
    BY DEF Applied
  <1>2. ASSUME NEW f \in File, Adds(f) \/ Takes(f) PROVE WatchStep
    BY <1>1, <1>2, ChangeFacts DEF Adds, Takes, Write, Remove, MoveIn, MoveOut
  <1>3. CASE MakeDir
    <2>1. changes' = changes + 1 /\ changes < MaxChanges /\ disk' = disk /\ main' = main
      BY <1>3 DEF MakeDir
    <2> QED BY <2>1, WatcherAssumption, SMTT(30) DEF SerialInv, WatchStep
  <1>4. CASE RemoveDir
    <2>1. changes' = changes + 1 /\ changes < MaxChanges /\ disk' = disk /\ main' = main
      BY <1>4 DEF RemoveDir
    <2> QED BY <2>1, WatcherAssumption, SMTT(30) DEF SerialInv, WatchStep
  <1> QED BY <1>2, <1>3, <1>4 DEF Users

LEMMA DaemonFacts ==
  ASSUME SerialInv, Starts \/ StopBegins \/ Stops \/ Thread \/ Kernel \/ Environment
  PROVE  WatchStep
  <1> USE DEF diskVars
  <1>0. ASSUME changes' = changes, disk' = disk, main = "exited" => main' = "exited"
        PROVE  WatchStep
    BY <1>0 DEF SerialInv, WatchStep
  <1>1. CASE Starts
    BY <1>0, <1>1 DEF Starts, StartInotify, StartHandler, StartThread
  <1>2. CASE StopBegins
    BY <1>0, <1>2 DEF StopBegins
  <1>3. CASE Stops
    BY <1>0, <1>3 DEF Stops, CloseInotify, StopStream, CloseDirectory, Join
  <1>4. CASE Thread
    <2>1. CASE PollDescriptor \/ ReadEvents \/ handleEvents
      BY <1>0, <2>1 DEF PollDescriptor, ReadEvents, handleEvents
    <2>2. CASE PublishStream \/ StartStream \/ CreateSemaphore \/ WaitForStop
      BY <1>0, <2>2 DEF PublishStream, StartStream, CreateSemaphore, WaitForStop
    <2>3. CASE OpenDirectory \/ ReadDirectoryChanges \/ WaitForEvent \/ CancelIoEx
      BY <1>0, <2>3 DEF OpenDirectory, ReadDirectoryChanges, WaitForEvent, CancelIoEx
    <2>4. CASE GetOverlappedResult \/ HandleNotification \/ EndLoop
      BY <1>0, <2>4 DEF GetOverlappedResult, HandleNotification, EndLoop
    <2>5. CASE BeginScan \/ EndScan
      BY <1>0, <2>5 DEF BeginScan, EndScan
    <2>6. ASSUME NEW f \in File, VisitEntry(f) PROVE WatchStep
      BY <1>0, <2>6 DEF VisitEntry
    <2> QED BY <1>4, <2>1, <2>2, <2>3, <2>4, <2>5, <2>6 DEF Thread
  <1>5. CASE Kernel
    BY <1>0, <1>5 DEF Kernel, callback, CompleteRequest, CancelRequest
  <1>6. CASE Environment
    BY <1>0, <1>6 DEF Environment, AnotherOpens, LoseConnection, RegainConnection
  <1> QED BY <1>1, <1>2, <1>3, <1>4, <1>5, <1>6

LEMMA WatchFacts ==
  ASSUME SerialInv, Next
  PROVE  WatchStep
  BY UsersFacts, DaemonFacts DEF Next

-----------------------------------------------------------------------------
(* The step that takes transfer t to session s, place p and open file a keeps
   SerialInv, since the other transfers stay as they are: t writes only if it did
   before or nobody does, it has the temporary file open only while it receives,
   and it leaves the file behind for a later place of its own.               *)

Keeps(t, s, p, a) ==
  /\ s \in {"none", "listening", "streaming", "closed"}
  /\ p \in {"none", "connect", "open", "receive", "hash", "rename", "done"}
  /\ a \in {"none", "tmp"}
  /\ session' = [session EXCEPT ![t] = s]
  /\ place' = [place EXCEPT ![t] = p]
  /\ at' = [at EXCEPT ![t] = a]
  /\ changes' = changes /\ disk' \in [File -> Applied]
  /\ main = "exited" => main' = "exited"
  /\ \/ s \notin {"listening", "streaming"} /\ p \notin {"open", "receive", "hash", "rename"}
     \/ Writing(t)
     \/ \A u \in Transfer : ~Writing(u)
  /\ p # "none" => s # "none"
  /\ a = "tmp" => p = "receive"
  /\ p = "rename" => tmp' \in {Content(t), Missing}
  /\ tmp' = tmp \/ Writing(t)
  /\ \/ tmp' = tmp /\ (place[t] \in {"receive", "hash", "rename"} =>
                          p \in {"receive", "hash", "rename"})
     \/ tmp' = Missing
     \/ p = "receive"

LEMMA OthersKeep ==
  ASSUME SerialInv, NEW t \in Transfer, NEW s, NEW p, NEW a, Keeps(t, s, p, a)
  PROVE  SerialInv'
  <1> USE DEF Keeps
  <1>1. /\ session' \in [Transfer -> {"none", "listening", "streaming", "closed"}]
        /\ place' \in [Transfer -> {"none", "connect", "open", "receive", "hash", "rename", "done"}]
        /\ at' \in [Transfer -> {"none", "tmp"}]
        /\ changes' \in 0 .. MaxChanges
    BY DEF SerialInv
  <1>2. /\ session'[t] = s /\ place'[t] = p /\ at'[t] = a
        /\ \A u \in Transfer \ {t} :
             session'[u] = session[u] /\ place'[u] = place[u] /\ at'[u] = at[u]
    BY DEF SerialInv
  <1>3. \A u \in Transfer \ {t} : Writing(u)' <=> Writing(u)
    BY <1>2 DEF Writing
  <1>w. Writing(t)' => Writing(t) \/ \A u \in Transfer : ~Writing(u)
    BY <1>2 DEF Writing
  <1>4. ASSUME NEW u \in Transfer, NEW v \in Transfer, Writing(u)', Writing(v)' PROVE u = v
    BY <1>3, <1>4, <1>w DEF SerialInv
  <1>5. ASSUME NEW u \in Transfer, place'[u] # "none" PROVE session'[u] # "none"
    BY <1>2, <1>5 DEF SerialInv
  <1>6. ASSUME NEW u \in Transfer, at'[u] = "tmp" PROVE place'[u] = "receive"
    BY <1>2, <1>6 DEF SerialInv
  <1>7. ASSUME NEW u \in Transfer, place'[u] = "rename" PROVE tmp' \in {Content(u), Missing}
    <2>1. CASE u = t
      BY <1>2, <1>7, <2>1
    <2>2. CASE u # t
      <3>1. place[u] = "rename" /\ Writing(u)
        BY <1>2, <1>7, <2>2 DEF Writing
      <3>2. tmp' = tmp
        BY <2>2, <3>1 DEF SerialInv
      <3> QED BY <3>1, <3>2 DEF SerialInv
    <2> QED BY <2>1, <2>2
  <1>8. TempHeld'
    <2> SUFFICES ASSUME main' # "exited", tmp' # Missing
                 PROVE  \E u \in Transfer : place'[u] \in {"receive", "hash", "rename"}
      BY DEF TempHeld
    <2>1. CASE tmp' = tmp /\ (place[t] \in {"receive", "hash", "rename"} =>
                                p \in {"receive", "hash", "rename"})
      <3>1. PICK u \in Transfer : place[u] \in {"receive", "hash", "rename"}
        BY <2>1 DEF SerialInv, TempHeld
      <3> QED BY <1>2, <2>1, <3>1
    <2>2. CASE p = "receive"
      BY <1>2, <2>2
    <2> QED BY <2>1, <2>2
  <1> QED BY <1>1, <1>4, <1>5, <1>6, <1>7, <1>8 DEF SerialInv

(* One transfer's steps.                                                    *)
LEMMA TransferStep ==
  ASSUME SerialInv, NEW t \in Transfer, (~Busy /\ StartDownload(t)) \/ Transfers(t)
  PROVE  SerialInv'
  <1> USE DEF vars, relay, diskVars, Go
  <1>t. /\ session \in [Transfer -> {"none", "listening", "streaming", "closed"}]
        /\ place \in [Transfer -> {"none", "connect", "open", "receive", "hash", "rename", "done"}]
        /\ at \in [Transfer -> {"none", "tmp"}] /\ disk \in [File -> Applied]
        /\ (place[t] # "none" => session[t] # "none")
        /\ (at[t] = "tmp" => place[t] = "receive")
        /\ (place[t] = "rename" => tmp \in {Content(t), Missing})
    BY DEF SerialInv
  <1>e. /\ session = [session EXCEPT ![t] = session[t]] /\ place = [place EXCEPT ![t] = place[t]]
        /\ at = [at EXCEPT ![t] = at[t]]
    BY <1>t
  <1>u. place[t] # "receive" => \A u \in Transfer : Writing(t) => at[u] = "none"
    <2>1. \A u \in Transfer : at[u] = "tmp" => Writing(u) /\ place[u] = "receive"
      BY DEF SerialInv, Writing
    <2> QED BY <1>t, <2>1 DEF SerialInv
  <1>1. CASE ~Busy /\ StartDownload(t)
    <2>1. \A u \in Transfer : ~Writing(u)
      BY <1>1 DEF Busy, Writing, Ended, Idle, SerialInv
    <2>2. /\ session' = [session EXCEPT ![t] = "listening"] /\ place' = place /\ at' = at
          /\ session[t] = "none" /\ place[t] = "none" /\ at[t] = "none"
          /\ changes' = changes /\ disk' = disk /\ main' = main /\ tmp' = tmp
      BY <1>1, <1>t DEF StartDownload
    <2>k. Keeps(t, "listening", "none", "none")
      BY <1>e, <1>t, <2>1, <2>2 DEF Keeps, Writing
    <2> QED BY <2>k, OthersKeep
  <1>2. CASE Relay(t)
    <2>1. CASE AcceptTimeout(t) \/ streamDownload(t)
      <3>1. /\ session' = [session EXCEPT ![t] = "closed"] /\ place' = place /\ at' = at
            /\ changes' = changes /\ disk' = disk /\ main' = main /\ tmp' = tmp
            /\ Writing(t)
        BY <2>1 DEF AcceptTimeout, streamDownload, Writing
      <3>k. Keeps(t, "closed", place[t], at[t])
        BY <1>e, <1>t, <3>1 DEF Keeps, Writing
      <3> QED BY <3>k, OthersKeep
    <2>2. CASE SendBlock(t)
      <3>1. /\ session' = session /\ place' = place /\ at' = at
            /\ changes' = changes /\ disk' = disk /\ main' = main /\ tmp' = tmp
            /\ Writing(t)
        BY <2>2 DEF SendBlock, Writing
      <3>k. Keeps(t, session[t], place[t], at[t])
        BY <1>e, <1>t, <3>1 DEF Keeps, Writing
      <3> QED BY <3>k, OthersKeep
    <2> QED BY <1>2, <2>1, <2>2 DEF Relay
  <1>3. CASE SourceChanges(t)
    <2>1. /\ session' = session /\ place' = place /\ at' = at
          /\ changes' = changes /\ disk' = disk /\ main' = main /\ tmp' = tmp
      BY <1>3 DEF SourceChanges
    <2>k. Keeps(t, session[t], place[t], at[t])
      BY <1>e, <1>t, <2>1 DEF Keeps, Writing
    <2> QED BY <2>k, OthersKeep
  <1>4. CASE prepare_file_transfer(t)
    <2>1. /\ session' = session /\ place' = [place EXCEPT ![t] = "connect"] /\ at' = at
          /\ changes' = changes /\ disk' = disk /\ main' = main /\ tmp' = tmp
          /\ place[t] = "none" /\ session[t] # "none" /\ at[t] = "none"
      BY <1>4, <1>t DEF prepare_file_transfer
    <2>k. Keeps(t, session[t], "connect", "none")
      BY <1>e, <1>t, <2>1 DEF Keeps, Writing
    <2> QED BY <2>k, OthersKeep
  <1>5. CASE ConnectLocal(t)
    <2>1. /\ at' = at /\ changes' = changes /\ disk' = disk /\ main' = main /\ tmp' = tmp
          /\ place[t] = "connect" /\ session[t] # "none" /\ at[t] = "none"
      BY <1>5, <1>t DEF ConnectLocal
    <2>2. CASE session[t] = "listening"
      <3>1. /\ session' = [session EXCEPT ![t] = "streaming"]
            /\ place' = [place EXCEPT ![t] = "open"]
            /\ Writing(t)
        BY <1>5, <2>2 DEF ConnectLocal, Writing
      <3>k. Keeps(t, "streaming", "open", "none")
        BY <1>e, <1>t, <2>1, <3>1 DEF Keeps, Writing
      <3> QED BY <3>k, OthersKeep
    <2>3. CASE session[t] # "listening"
      <3>1. session' = session /\ place' = [place EXCEPT ![t] = "done"]
        BY <1>5, <2>3 DEF ConnectLocal
      <3>k. Keeps(t, session[t], "done", "none")
        BY <1>e, <1>t, <2>1, <3>1 DEF Keeps, Writing
      <3> QED BY <3>k, OthersKeep
    <2> QED BY <2>2, <2>3
  <1>6. CASE OpenTemp(t)
    <2>1. /\ session' = session /\ changes' = changes /\ disk' = disk /\ main' = main
          /\ place[t] = "open" /\ session[t] # "none" /\ at[t] = "none" /\ Writing(t)
      BY <1>6, <1>t DEF OpenTemp, Writing
    <2>2. CASE tmp' = <<>> /\ at' = [at EXCEPT ![t] = "tmp"] /\ place' = [place EXCEPT ![t] = "receive"]
      <3>k. Keeps(t, session[t], "receive", "tmp")
        BY <1>e, <1>t, <2>1, <2>2 DEF Keeps, Writing
      <3> QED BY <3>k, OthersKeep
    <2>3. CASE tmp' = tmp /\ at' = at /\ place' = [place EXCEPT ![t] = "done"]
      <3>k. Keeps(t, session[t], "done", "none")
        BY <1>e, <1>t, <2>1, <2>3 DEF Keeps, Writing
      <3> QED BY <3>k, OthersKeep
    <2> QED BY <1>6, <2>2, <2>3 DEF OpenTemp
  <1>7. CASE ReceiveBlock(t)
    <2>1. /\ session' = session /\ place' = place /\ at' = at
          /\ place[t] = "receive" /\ session[t] # "none" /\ Writing(t)
          /\ changes' = changes /\ main' = main
      BY <1>7, <1>t DEF ReceiveBlock, watchVars, Writing
    <2>2. disk' = disk
      <3>1. CASE at[t] = "tmp"
        BY <1>7, <3>1 DEF ReceiveBlock
      <3>2. CASE at[t] = "none"
        BY <1>7, <3>2 DEF ReceiveBlock
      <3> QED BY <1>t, <3>1, <3>2
    <2>k. Keeps(t, session[t], "receive", at[t])
      BY <1>e, <1>t, <2>1, <2>2 DEF Keeps, Writing
    <2> QED BY <2>k, OthersKeep
  <1>8. CASE EndReceive(t)
    <2>1. /\ session' = session /\ changes' = changes /\ disk' = disk /\ main' = main
          /\ place[t] = "receive" /\ session[t] # "none" /\ Writing(t)
      BY <1>8, <1>t DEF EndReceive, watchVars, Writing
    <2>2. CASE received[t] = Size
      <3>1. place' = [place EXCEPT ![t] = "hash"] /\ at' = [at EXCEPT ![t] = "none"] /\ tmp' = tmp
        BY <1>8, <2>2 DEF EndReceive
      <3>k. Keeps(t, session[t], "hash", "none")
        BY <1>e, <1>t, <2>1, <3>1 DEF Keeps, Writing
      <3> QED BY <3>k, OthersKeep
    <2>3. CASE received[t] # Size
      <3>1. /\ place' = [place EXCEPT ![t] = "done"] /\ tmp' = Missing
            /\ at' = [Unlinked("tmp") EXCEPT ![t] = "none"]
        BY <1>8, <2>3 DEF EndReceive
      <3>2. \A u \in Transfer \ {t} : at[u] = "none"
        BY <1>t, <2>1 DEF SerialInv, Writing
      <3>3. at' = [at EXCEPT ![t] = "none"]
        BY <1>t, <3>1, <3>2 DEF Unlinked
      <3>k. Keeps(t, session[t], "done", "none")
        BY <1>e, <1>t, <2>1, <3>1, <3>3 DEF Keeps, Writing
      <3> QED BY <3>k, OthersKeep
    <2> QED BY <2>2, <2>3
  <1>9. CASE CheckHash(t)
    <2>1. /\ session' = session /\ changes' = changes /\ disk' = disk /\ main' = main
          /\ place[t] = "hash" /\ session[t] # "none" /\ at[t] = "none" /\ Writing(t)
      BY <1>9, <1>t DEF CheckHash, watchVars, Writing
    <2>2. CASE tmp \in {Content(t), Missing}
      <3>1. place' = [place EXCEPT ![t] = "rename"] /\ at' = at /\ tmp' = tmp
        BY <1>9, <2>2 DEF CheckHash
      <3>k. Keeps(t, session[t], "rename", "none")
        BY <1>e, <1>t, <2>1, <2>2, <3>1 DEF Keeps, Writing
      <3> QED BY <3>k, OthersKeep
    <2>3. CASE tmp \notin {Content(t), Missing}
      <3>1. place' = [place EXCEPT ![t] = "done"] /\ tmp' = Missing /\ at' = Unlinked("tmp")
        BY <1>9, <2>3 DEF CheckHash
      <3>2. at' = at
        BY <1>t, <1>u, <2>1, <3>1 DEF Unlinked
      <3>k. Keeps(t, session[t], "done", "none")
        BY <1>e, <1>t, <2>1, <3>1, <3>2 DEF Keeps, Writing
      <3> QED BY <3>k, OthersKeep
    <2> QED BY <2>2, <2>3
  <1>10. CASE Rename(t)
    <2>1. /\ session' = session /\ changes' = changes /\ main' = main
          /\ place[t] = "rename" /\ session[t] # "none" /\ at[t] = "none" /\ Writing(t)
          /\ place' = [place EXCEPT ![t] = "done"] /\ tmp' = Missing
      BY <1>10, <1>t DEF Rename, watchVars, Writing
    <2>2. \A u \in Transfer : at[u] = "none"
      BY <1>u, <2>1
    <2>3. at' = at
      <3>1. CASE at' = Unlinked("tmp")
        BY <1>t, <2>2, <3>1 DEF Unlinked
      <3>2. CASE at' = [u \in Transfer |-> CASE at[u] = "tmp" -> "dest" [] at[u] = "dest" -> "gone"
                                             [] OTHER -> at[u]]
        BY <1>t, <2>2, <3>2
      <3> QED BY <1>10, <3>1, <3>2 DEF Rename
    <2>4. disk' \in [File -> Applied]
      <3>1. CASE disk' = disk
        BY <1>t, <3>1
      <3>2. CASE tmp # Missing /\ disk' = [disk EXCEPT ![Dest] = tmp]
        <4>1. tmp \in Applied
          BY <1>t, <2>1, <3>2 DEF Applied
        <4> QED BY <1>t, <3>2, <4>1
      <3> QED BY <1>10, <3>1, <3>2 DEF Rename
    <2>k. Keeps(t, session[t], "done", "none")
      BY <1>e, <1>t, <2>1, <2>3, <2>4 DEF Keeps, Writing
    <2> QED BY <2>k, OthersKeep
  <1> QED BY <1>1, <1>2, <1>3, <1>4, <1>5, <1>6, <1>7, <1>8, <1>9, <1>10 DEF Transfers, Download

LEMMA SerialStep == SerialInv /\ [NextSerial]_allVars => SerialInv'
  <1> SUFFICES ASSUME SerialInv, [NextSerial]_allVars PROVE SerialInv'
    OBVIOUS
  <1>1. ASSUME WatchStep, UNCHANGED <<session, place, at, tmp>> PROVE SerialInv'
    BY <1>1 DEF SerialInv, WatchStep, Writing, TempHeld
  <1>2. CASE Besides(Next)
    <2>1. WatchStep
      BY <1>2, WatchFacts DEF Besides
    <2>2. at' = at
      BY <1>2 DEF Besides, Unlinked, SerialInv
    <2> QED BY <1>1, <1>2, <2>1, <2>2 DEF Besides, relay
  <1>3. CASE Exit
    <2>1. /\ place' = [t \in Transfer |-> IF place[t] = "none" THEN "none" ELSE "done"]
          /\ at' = [t \in Transfer |-> "none"] /\ main' = "exited"
          /\ changes' = changes /\ disk' = disk /\ session' = session /\ tmp' = tmp
      BY <1>3 DEF Exit, diskVars, relay
    <2>2. \A t \in Transfer : Writing(t)' => Writing(t)
      BY <2>1 DEF Writing
    <2> QED BY <2>1, <2>2 DEF SerialInv, TempHeld
  <1>4. CASE UNCHANGED allVars
    BY <1>4 DEF allVars, vars, tvars, relay, diskVars, SerialInv, Writing, TempHeld
  <1> QED BY <1>2, <1>3, <1>4, TransferStep DEF NextSerial

LEMMA SerialInvariant == SpecSerial => []SerialInv
  <1>1. TransferInit => SerialInv
    <2> SUFFICES ASSUME TransferInit PROVE SerialInv
      OBVIOUS
    <2>1. changes \in 0 .. MaxChanges /\ disk \in [File -> Applied]
      BY WatcherAssumption, SMTT(30) DEF TransferInit, Init, Applied
    <2> QED BY <2>1 DEF TransferInit, SerialInv, Writing, TempHeld
  <1> QED BY <1>1, SerialStep, PTL DEF SpecSerial

LEMMA AloneIsSerial == NextAlone => NextSerial
  <1>1. NextCalm => Next
    BY DEF NextCalm, Next, CalmUsers, Users, Adds, Takes, CalmStop, CalmThread
  <1>2. Besides(NextCalm) => Besides(Next)
    BY <1>1 DEF Besides
  <1> QED BY <1>2 DEF NextAlone, NextSerial, Alone, Transfers, CalmDownload

(* handle_file_transfer applies a download as a whole (p2p-protocol.md:486), for
   any number of transfers, as long as the next one begins when the last has
   ended: whatever users do to the file meanwhile, whatever is lost, however
   late the daemon is told of a transfer, and wherever it is stopped.  The
   condition is needed: FileTransfer_shared.cfg.                             *)
THEOREM DownloadsAppliedWhole == SpecSerial => []AppliedWhole
  <1>1. SerialInv => AppliedWhole
    BY TransferAssumption DEF SerialInv, AppliedWhole, File
  <1> QED BY <1>1, SerialInvariant, PTL

(* The temporary file does not outlive the download (the error paths of
   handle_file_transfer remove it), unless the daemon ends in the middle.     *)
THEOREM NoTempStays == SpecSerial => []NoTempLeft
  <1>1. SerialInv => NoTempLeft
    BY DEF SerialInv, TempHeld, NoTempLeft, Idle
  <1> QED BY <1>1, SerialInvariant, PTL

(* Both hold in the runs' specification.                                    *)
THEOREM AloneAppliedWhole == SpecAlone => []AppliedWhole /\ []NoTempLeft
  <1>1. SpecAlone => SpecSerial
    BY AloneIsSerial, PTL DEF SpecAlone, SpecSerial
  <1> QED BY <1>1, DownloadsAppliedWhole, NoTempStays, PTL

-----------------------------------------------------------------------------
(* stop of the three watchers that join their thread returns only when the
   thread has ended, in whatever state it catches them: main.cpp goes on to
   destroy what the callback refers to.  For the polling watcher, which does not
   join, and for a thread that ended by an error, see Watchers.              *)
THEOREM StopWaits == TransferSpec => []StopJoins
  <1>1. TransferInit => StopJoins
    BY DEF TransferInit, Init, StopJoins
  <1>2. StopJoins /\ [TransferNext]_allVars => StopJoins'
    <2> SUFFICES ASSUME StopJoins, [TransferNext]_allVars PROVE StopJoins'
      OBVIOUS
    <2> USE DEF StopJoins
    <2>0. ASSUME UNCHANGED <<main, platform, pc>> PROVE StopJoins'
      BY <2>0
    <2>1. CASE Starts
      BY <2>1 DEF Starts, StartInotify, StartHandler, StartThread
    <2>2. CASE StopBegins
      BY <2>2 DEF StopBegins
    <2>3. CASE Stops
      BY <2>3 DEF Stops, CloseInotify, StopStream, CloseDirectory, Join
    <2>4. CASE Thread
      <3>1. CASE PollDescriptor \/ ReadEvents \/ handleEvents
        BY <3>1 DEF PollDescriptor, ReadEvents, handleEvents
      <3>2. CASE PublishStream \/ StartStream \/ CreateSemaphore \/ WaitForStop
        BY <3>2 DEF PublishStream, StartStream, CreateSemaphore, WaitForStop
      <3>3. CASE OpenDirectory \/ ReadDirectoryChanges \/ WaitForEvent \/ CancelIoEx
        BY <3>3 DEF OpenDirectory, ReadDirectoryChanges, WaitForEvent, CancelIoEx
      <3>4. CASE GetOverlappedResult \/ HandleNotification \/ EndLoop
        BY <3>4 DEF GetOverlappedResult, HandleNotification, EndLoop
      <3>5. CASE BeginScan \/ EndScan
        BY <3>5 DEF BeginScan, EndScan
      <3>6. ASSUME NEW f \in File, VisitEntry(f) PROVE StopJoins'
        BY <3>6 DEF VisitEntry
      <3> QED BY <2>4, <3>1, <3>2, <3>3, <3>4, <3>5, <3>6 DEF Thread
    <2>5. CASE Kernel \/ Environment
      BY <2>0, <2>5 DEF Kernel, callback, CompleteRequest, CancelRequest,
                        Environment, AnotherOpens, LoseConnection, RegainConnection
    <2>6. CASE Users
      BY <2>0, <2>6 DEF Users, Adds, Takes, Write, Remove, MoveIn, MoveOut, Change, MakeDir, RemoveDir
    <2>7. CASE Exit
      BY <2>7 DEF Exit
    <2>8. ASSUME NEW t \in Transfer, StartDownload(t) \/ Transfers(t) PROVE StopJoins'
      BY <2>0, <2>8 DEF StartDownload, Transfers, Relay, AcceptTimeout, SendBlock, streamDownload,
         SourceChanges, prepare_file_transfer, Download, ConnectLocal, OpenTemp, ReceiveBlock,
         EndReceive, CheckHash, Rename, vars, watchVars
    <2>9. CASE UNCHANGED allVars
      BY <2>0, <2>9 DEF allVars, vars
    <2> HIDE DEF StopJoins
    <2> QED BY <2>1, <2>2, <2>3, <2>4, <2>5, <2>6, <2>7, <2>8, <2>9 DEF TransferNext, Besides, Next
  <1> QED BY <1>1, <1>2, PTL DEF TransferSpec

-----------------------------------------------------------------------------
(* The notes of removals in a queue, when it loses its first note and when the
   kernel adds one.                                                          *)
INSTANCE FiniteSetTheorems

One(e, f) == IF e.name = f /\ ActionOf(e.kinds) = "deleted" THEN 1 ELSE 0

LEMMA NotesAre ==
  ASSUME NEW q \in Notes
  PROVE  Len(q) \in Nat /\ DOMAIN q = 1 .. Len(q) /\ \A i \in 1 .. Len(q) : q[i] \in ANote
  BY SMTT(30) DEF Notes

LEMMA NotesCount ==
  ASSUME NEW q \in Notes, NEW f
  PROVE  IsFiniteSet(Deletions(q, f)) /\ Cardinality(Deletions(q, f)) \in Nat
  <1>1. Len(q) \in Nat /\ DOMAIN q = 1 .. Len(q)
    BY NotesAre
  <1>2. IsFiniteSet(1 .. Len(q))
    BY <1>1, FS_Interval, SMTT(30)
  <1>3. Deletions(q, f) \in SUBSET (1 .. Len(q))
    BY <1>1 DEF Deletions
  <1>4. IsFiniteSet(Deletions(q, f))
    BY <1>2, <1>3, FS_Subset
  <1> QED BY <1>4, FS_CardinalityType

LEMMA NoNotes == \A f : Deletions(<<>>, f) = {} /\ Cardinality(Deletions(<<>>, f)) = 0
  <1> SUFFICES ASSUME NEW f PROVE Deletions(<<>>, f) = {}
    BY FS_EmptySet
  <1> QED BY SMTT(30) DEF Deletions

LEMMA TailCounts ==
  ASSUME NEW q \in Notes, q # <<>>, NEW f
  PROVE  /\ Head(q) \in ANote /\ Tail(q) \in Notes
         /\ Cardinality(Deletions(Tail(q), f)) + One(Head(q), f) = Cardinality(Deletions(q, f))
  <1>1. /\ Len(q) \in Nat \ {0} /\ DOMAIN q = 1 .. Len(q) /\ Head(q) = q[1]
        /\ Head(q) \in ANote /\ Tail(q) \in Notes
        /\ DOMAIN Tail(q) = 1 .. Len(q) - 1
        /\ \A i \in 1 .. Len(q) - 1 : Tail(q)[i] = q[i + 1]
    BY SMTT(30) DEF Notes
  <1> DEFINE S == Deletions(Tail(q), f)
             T == Deletions(q, f) \ {1}
             shift == [i \in S |-> i + 1]
  <1>2. \A i \in S : i \in 1 .. Len(q) - 1 /\ i + 1 \in T
    BY <1>1, SMTT(30) DEF Deletions
  <1>3. \A j \in T : j - 1 \in S /\ (j - 1) + 1 = j
    BY <1>1, SMTT(30) DEF Deletions
  <1>4. shift \in Bijection(S, T)
    <2>1. shift \in [S -> T]
      BY <1>2
    <2>2. \A a, b \in S : shift[a] = shift[b] => a = b
      BY <1>2, SMTT(30)
    <2>3. \A j \in T : \E i \in S : shift[i] = j
      <3> SUFFICES ASSUME NEW j \in T PROVE \E i \in S : shift[i] = j
        OBVIOUS
      <3>1. j - 1 \in S /\ shift[j - 1] = j
        BY <1>3
      <3> QED BY <3>1
    <2> QED BY <2>1, <2>2, <2>3 DEF Bijection, Injection, Surjection, IsInjective
  <1>5. IsFiniteSet(S) /\ ExistsBijection(S, T)
    BY <1>1, <1>4, NotesCount DEF ExistsBijection
  <1>6. Cardinality(T) = Cardinality(S)
    BY <1>5, FS_Bijection
  <1>7. IsFiniteSet(Deletions(q, f)) /\ Cardinality(Deletions(q, f)) \in Nat
    BY NotesCount
  <1>8. Cardinality(T) = IF 1 \in Deletions(q, f) THEN Cardinality(Deletions(q, f)) - 1
                         ELSE Cardinality(Deletions(q, f))
    BY <1>7, FS_RemoveElement
  <1>9. 1 \in Deletions(q, f) <=> One(Head(q), f) = 1
    BY <1>1, SMTT(30) DEF Deletions, One
  <1>10. One(Head(q), f) \in {0, 1}
    BY DEF One
  <1> QED BY <1>1, <1>6, <1>7, <1>8, <1>9, <1>10, SMTT(30)

LEMMA AppendCounts ==
  ASSUME NEW q \in Notes, NEW e \in ANote, NEW f
  PROVE  /\ Append(q, e) \in Notes
         /\ Cardinality(Deletions(Append(q, e), f)) <= Cardinality(Deletions(q, f)) + One(e, f)
  <1>1. /\ Len(q) \in Nat /\ DOMAIN q = 1 .. Len(q) /\ Append(q, e) \in Notes
        /\ DOMAIN Append(q, e) = 1 .. Len(q) + 1
        /\ \A i \in 1 .. Len(q) : Append(q, e)[i] = q[i]
        /\ Append(q, e)[Len(q) + 1] = e
    BY SMTT(30) DEF Notes
  <1>2. IsFiniteSet(Deletions(q, f)) /\ Cardinality(Deletions(q, f)) \in Nat
    BY NotesCount
  <1>3. CASE e.name = f /\ ActionOf(e.kinds) = "deleted"
    <2>1. Deletions(Append(q, e), f) = Deletions(q, f) \cup {Len(q) + 1}
      BY <1>1, <1>3, SMTT(30) DEF Deletions
    <2>2. Len(q) + 1 \notin Deletions(q, f)
      BY <1>1, SMTT(30) DEF Deletions
    <2>3. One(e, f) = 1
      BY <1>3 DEF One
    <2>4. Cardinality(Deletions(q, f) \cup {Len(q) + 1}) = Cardinality(Deletions(q, f)) + 1
      BY <1>2, <2>2, FS_AddElement
    <2> QED BY <1>1, <1>2, <2>1, <2>3, <2>4, SMTT(30)
  <1>4. CASE ~(e.name = f /\ ActionOf(e.kinds) = "deleted")
    <2>1. Deletions(Append(q, e), f) = Deletions(q, f)
      BY <1>1, <1>4, SMTT(30) DEF Deletions
    <2>2. One(e, f) = 0
      BY <1>4 DEF One
    <2> QED BY <1>1, <1>2, <2>1, <2>2, SMTT(30)
  <1> QED BY <1>3, <1>4

LEMMA OverflowCounts == <<NoNote>> \in Notes /\ \A f : Cardinality(Deletions(<<NoNote>>, f)) = 0
  <1>1. <<NoNote>> \in Notes
    BY SMTT(30) DEF NoNote, Notes, ANote
  <1>2. ActionOf(NoNote.kinds) # "deleted"
    BY DEF NoNote, ActionOf
  <1>3. \A f : Deletions(<<NoNote>>, f) = {}
    BY <1>2, SMTT(30) DEF Deletions
  <1> QED BY <1>1, <1>3, FS_EmptySet

(* What the kernel adds.                                                     *)
LEMMA NotedCounts ==
  ASSUME NEW n \in File \cup {Dir}, NEW kind \in Kinds, NEW f, notes \in Notes,
         platform \in {"linux", "windows"}
  PROVE  /\ Noted(notes, n, kind) \in Notes
         /\ Cardinality(Deletions(Noted(notes, n, kind), f)) <=
              Cardinality(Deletions(notes, f)) + One([name |-> n, kinds |-> {kind}], f)
  <1> DEFINE e == [name |-> n, kinds |-> {kind}]
  <1>1. e \in ANote
    BY DEF ANote
  <1>2. \/ Noted(notes, n, kind) = notes \/ Noted(notes, n, kind) = Append(notes, e)
        \/ Noted(notes, n, kind) = <<NoNote>>
    BY DEF Noted
  <1>3. Cardinality(Deletions(notes, f)) \in Nat /\ One(e, f) \in {0, 1}
    BY NotesCount DEF One
  <1>4. CASE Noted(notes, n, kind) = notes
    BY <1>3, <1>4, SMTT(30)
  <1>5. CASE Noted(notes, n, kind) = Append(notes, e)
    BY <1>1, <1>5, AppendCounts
  <1>6. CASE Noted(notes, n, kind) = <<NoNote>>
    BY <1>3, <1>6, OverflowCounts, SMTT(30)
  <1> QED BY <1>2, <1>4, <1>5, <1>6

-----------------------------------------------------------------------------
(* Every step keeps NotesInv, and reports as deleted only what was noted.    *)
NotedStep ==
  platform # "other" => \A f \in File : row[f] # Missing /\ row'[f] = Missing => gone[f] > 0

(* Notes are handed over or dropped, or nothing happens to them.             *)
LEMMA NotesPass ==
  ASSUME NotesInv, UNCHANGED <<platform, gone>>, DOMAIN row' = DOMAIN row,
         platform = "linux" /\ pc' = "handle" => taken' # <<>>,
         \/ taken' = notes /\ notes' = <<>>
         \/ taken' \in {taken, <<>>} /\ notes' \in {notes, <<>>}
  PROVE  NotesInv'
  <1>1. <<>> \in Notes
    BY SMTT(30) DEF Notes
  <1>2. notes' \in Notes /\ taken' \in Notes
    BY <1>1 DEF NotesInv
  <1>3. ASSUME platform \in {"linux", "windows"}, NEW f \in File PROVE Unreported(f)' <= gone[f]
    <2>1. /\ Cardinality(Deletions(notes, f)) \in Nat /\ Cardinality(Deletions(taken, f)) \in Nat
          /\ gone[f] \in Nat
      BY NotesCount DEF NotesInv
    <2>2. Cardinality(Deletions(notes, f)) + Cardinality(Deletions(taken, f)) <= gone[f]
      BY <1>3 DEF NotesInv, Unreported
    <2>3. Cardinality(Deletions(<<>>, f)) = 0
      BY NoNotes
    <2>4. Unreported(f)' = Cardinality(Deletions(notes', f)) + Cardinality(Deletions(taken', f))
      BY DEF Unreported, Deletions
    <2>5. CASE taken' = notes /\ notes' = <<>>
      BY <2>1, <2>2, <2>3, <2>4, <2>5, SMTT(30)
    <2>6. CASE taken' \in {taken, <<>>} /\ notes' \in {notes, <<>>}
      BY <2>1, <2>2, <2>3, <2>4, <2>6, SMTT(30)
    <2> QED BY <2>5, <2>6
  <1>4. platform = "macos" => Merged'
    BY SMTT(30) DEF NotesInv, Merged
  <1> QED BY <1>2, <1>3, <1>4 DEF NotesInv

LEMMA Positive == \A n \in Nat : n # 0 => n > 0
  BY SMTT(30)

LEMMA CountsAdd ==
  ASSUME NEW a \in Nat, NEW b \in Nat, NEW c \in Nat, NEW o \in Nat, NEW g \in Nat, NEW h \in Nat,
         a <= b + o, b + c <= g, h >= g + o
  PROVE  a + c <= h
  BY SMTT(30)

LEMMA AppendIs ==
  ASSUME NEW q \in Notes, NEW e \in ANote, NEW s, s = Append(q, e)
  PROVE  /\ s \in Notes /\ DOMAIN s = 1 .. Len(q) + 1
         /\ \A i \in 1 .. Len(q) : s[i] = q[i]
         /\ s[Len(q) + 1] = e
         /\ \A i \in DOMAIN s : i \in DOMAIN q \/ i = Len(q) + 1
  BY SMTT(30) DEF Notes

(* The kernel notes a change.                                                *)
LEMMA NotesAdded ==
  ASSUME NotesInv, NEW n \in File \cup {Dir}, NEW kind \in Kinds, Note(n, kind),
         UNCHANGED <<platform, taken, pc>>, DOMAIN row' = DOMAIN row, gone' \in [File -> Nat],
         \A f \in File : gone'[f] >= gone[f],
         n \in File /\ kind \in {"remove", "moveOut"} => gone'[n] = gone[n] + 1
  PROVE  NotesInv'
  <1>0. notes \in Notes /\ taken \in Notes /\ notes' = Noted(notes, n, kind) /\ gone \in [File -> Nat]
    BY DEF NotesInv, Note
  <1>1. CASE platform \in {"linux", "windows"}
    <2>1. notes' \in Notes
      BY <1>0, <1>1, NotedCounts
    <2>2. ASSUME NEW f \in File PROVE Unreported(f)' <= gone'[f]
      <3> DEFINE e == [name |-> n, kinds |-> {kind}]
      <3>1. Cardinality(Deletions(notes', f)) <= Cardinality(Deletions(notes, f)) + One(e, f)
        BY <1>0, <1>1, NotedCounts
      <3>2. gone'[f] >= gone[f] + One(e, f)
        <4>1. One(e, f) = 1 => f = n /\ kind \in {"remove", "moveOut"}
          BY SMTT(30) DEF One, ActionOf, Kinds
        <4>2. One(e, f) \in {0, 1}
          BY DEF One
        <4>3. gone[f] \in Nat /\ gone'[f] \in Nat
          BY <1>0
        <4> QED BY <4>1, <4>2, <4>3, SMTT(30)
      <3>3. /\ Cardinality(Deletions(notes, f)) \in Nat /\ Cardinality(Deletions(taken, f)) \in Nat
            /\ Cardinality(Deletions(notes', f)) \in Nat
        BY <1>0, <2>1, NotesCount
      <3>4. Cardinality(Deletions(notes, f)) + Cardinality(Deletions(taken, f)) <= gone[f]
        BY <1>1 DEF NotesInv, Unreported
      <3>5. Unreported(f)' = Cardinality(Deletions(notes', f)) + Cardinality(Deletions(taken, f))
        BY DEF Unreported, Deletions
      <3>6. gone[f] \in Nat /\ gone'[f] \in Nat /\ One(e, f) \in Nat
        BY <1>0, SMTT(30) DEF One
      <3> HIDE DEF e
      <3>7. Cardinality(Deletions(notes', f)) + Cardinality(Deletions(taken, f)) <= gone'[f]
        BY <3>1, <3>2, <3>3, <3>4, <3>6, CountsAdd
      <3> QED BY <3>5, <3>7
    <2> QED BY <1>1, <2>1, <2>2 DEF NotesInv
  <1>2. CASE platform = "macos"
    <2> DEFINE e == [name |-> n, kinds |-> {kind}]
    <2>0. e \in ANote /\ e.name = n /\ e.kinds = {kind}
      BY DEF ANote
    <2>1. Merged
      BY <1>2 DEF NotesInv
    <2>2. Len(notes) \in Nat /\ DOMAIN notes = 1 .. Len(notes) /\ \A i \in DOMAIN notes : notes[i] \in ANote
      BY <1>0, NotesAre
    <2>3. "remove" = kind /\ n \in File => gone'[n] > 0
      BY <1>0, SMTT(30)
    <2>4. \A f \in File : gone[f] > 0 => gone'[f] > 0
      BY <1>0, SMTT(30)
    <2>5. CASE notes' = notes
      BY <1>0, <1>2, <2>1, <2>4, <2>5, <2>2 DEF NotesInv, Merged, ANote
    <2>6. CASE (\A i \in DOMAIN notes : notes[i].name # n) /\ notes' = Append(notes, e)
      <3>1. /\ notes' \in Notes /\ DOMAIN notes' = 1 .. Len(notes) + 1
            /\ \A i \in 1 .. Len(notes) : notes'[i] = notes[i]
            /\ notes'[Len(notes) + 1] = e
            /\ \A i \in DOMAIN notes' : i \in DOMAIN notes \/ i = Len(notes) + 1
        <4> HIDE DEF e
        <4> QED BY <1>0, <2>0, <2>6, AppendIs
      <3>2. \A i \in DOMAIN notes' : i \in DOMAIN notes \/ i = Len(notes) + 1
        BY <3>1
      <3>3. \A i \in DOMAIN notes : notes'[i] = notes[i]
        BY <2>2, <3>1
      <3> HIDE DEF e
      <3>4. \A i, j \in DOMAIN notes' : notes'[i].name = notes'[j].name => i = j
        BY <2>0, <2>1, <2>6, <3>1, <3>2, <3>3, SMTT(30) DEF Merged
      <3>5. ASSUME NEW i \in DOMAIN notes', "remove" \in notes'[i].kinds, notes'[i].name \in File
            PROVE  gone'[notes'[i].name] > 0
        BY <2>0, <2>1, <2>3, <2>4, <3>1, <3>2, <3>3, <3>5 DEF Merged
      <3>6. Merged'
        BY <3>4, <3>5 DEF Merged
      <3> QED BY <1>0, <1>2, <3>1, <3>6 DEF NotesInv
    <2>7. CASE notes' = [i \in DOMAIN notes |->
                           IF notes[i].name = n THEN [notes[i] EXCEPT !.kinds = @ \cup {kind}]
                           ELSE notes[i]]
      <3>1. DOMAIN notes' = DOMAIN notes
        BY <2>7
      <3>2. ASSUME NEW i \in DOMAIN notes
            PROVE  /\ notes'[i] \in ANote /\ notes'[i].name = notes[i].name
                   /\ \/ notes'[i].kinds = notes[i].kinds
                      \/ notes[i].name = n /\ notes'[i].kinds = notes[i].kinds \cup {kind}
        <4>1. CASE notes[i].name # n
          BY <2>2, <2>7, <4>1
        <4>2. CASE notes[i].name = n
          BY <2>2, <2>7, <4>2 DEF ANote
        <4> QED BY <4>1, <4>2
      <3>3. notes' \in Notes
        <4>1. notes' \in [1 .. Len(notes) -> ANote]
          BY <2>2, <2>7, <3>2
        <4> QED BY <2>2, <4>1, SMTT(30) DEF Notes
      <3>4. ASSUME NEW i \in DOMAIN notes, "remove" \in notes'[i].kinds, notes'[i].name \in File
            PROVE  gone'[notes'[i].name] > 0
        BY <2>1, <2>3, <2>4, <3>2, <3>4, SMTT(30) DEF Merged
      <3>5. Merged'
        BY <2>1, <3>1, <3>2, <3>4 DEF Merged
      <3> QED BY <1>0, <1>2, <3>3, <3>5 DEF NotesInv
    <2> QED BY <1>0, <1>2, <2>5, <2>6, <2>7 DEF Noted
  <1>3. CASE platform \notin {"linux", "windows", "macos"}
    BY <1>0, <1>3 DEF NotesInv, Noted
  <1> QED BY <1>1, <1>2, <1>3

(* handleEvents and HandleNotification report the first note that was read.   *)
LEMMA NotesReport ==
  ASSUME NotesInv, platform \in {"linux", "windows"}, taken # <<>>, taken' = Tail(taken),
         Report(Head(taken).name, ActionOf(Head(taken).kinds)),
         UNCHANGED <<platform, notes>>, platform = "linux" /\ pc' = "handle" => Len(taken) # 1
  PROVE  NotesInv' /\ NotedStep
  <1> DEFINE n == Head(taken).name
             action == ActionOf(Head(taken).kinds)
  <1>0. /\ notes \in Notes /\ taken \in Notes /\ gone \in [File -> Nat]
        /\ DOMAIN row = File \cup {Dir}
    BY DEF NotesInv
  <1>1. Head(taken) \in ANote /\ Tail(taken) \in Notes
    BY <1>0, TailCounts
  <1>2. n \in File \cup {Dir}
    BY <1>1 DEF ANote
  <1>3. /\ row' = Reported(row, n, action)
        /\ gone' = [f \in File |->
                      IF f = n /\ action = "deleted" /\ gone[f] > 0 THEN gone[f] - 1 ELSE gone[f]]
    BY DEF Report
  <1>4. gone' \in [File -> Nat]
    BY <1>0, <1>3, SMTT(30)
  <1>5. \/ row' = row
        \/ action = "deleted" /\ row' = [row EXCEPT ![n] = Missing]
        \/ disk[n] # Missing /\ row' = [row EXCEPT ![n] = disk[n]]
    BY <1>3, SMTT(30) DEF Reported, Exists
  <1>6. DOMAIN row' = File \cup {Dir}
    BY <1>0, <1>5
  <1>7. platform = "linux" /\ pc' = "handle" => taken' # <<>>
    <2>1. Len(taken) \in Nat /\ Len(Tail(taken)) = Len(taken) - 1 /\ Len(<<>>) = 0
      BY <1>0, SMTT(30) DEF Notes
    <2> QED BY <2>1, SMTT(30)
  <1>8. ASSUME NEW f \in File
        PROVE  /\ Unreported(f)' <= gone'[f]
               /\ action = "deleted" /\ f = n => gone[f] > 0
    <2>1. Cardinality(Deletions(Tail(taken), f)) + One(Head(taken), f) = Cardinality(Deletions(taken, f))
      BY <1>0, TailCounts
    <2>2. /\ Cardinality(Deletions(notes, f)) \in Nat /\ Cardinality(Deletions(taken, f)) \in Nat
          /\ Cardinality(Deletions(Tail(taken), f)) \in Nat
      BY <1>0, <1>1, NotesCount
    <2>3. Cardinality(Deletions(notes, f)) + Cardinality(Deletions(taken, f)) <= gone[f]
      BY DEF NotesInv, Unreported
    <2>4. Unreported(f)' = Cardinality(Deletions(notes, f)) + Cardinality(Deletions(Tail(taken), f))
      BY DEF Unreported, Deletions
    <2>5. One(Head(taken), f) = IF f = n /\ action = "deleted" THEN 1 ELSE 0
      BY DEF One
    <2>6. gone[f] \in Nat
      BY <1>0
    <2>7. gone'[f] = IF f = n /\ action = "deleted" /\ gone[f] > 0 THEN gone[f] - 1 ELSE gone[f]
      BY <1>3
    <2> HIDE DEF n, action
    <2> QED BY <2>1, <2>2, <2>3, <2>4, <2>5, <2>6, <2>7, SMTT(30)
  <1> HIDE DEF n, action
  <1>9. NotesInv'
    BY <1>0, <1>1, <1>4, <1>6, <1>7, <1>8 DEF NotesInv
  <1>10. NotedStep
    <2> SUFFICES ASSUME NEW f \in File, row[f] # Missing, row'[f] = Missing PROVE gone[f] > 0
      BY DEF NotedStep
    <2>1. action = "deleted" /\ f = n
      BY <1>0, <1>2, <1>5
    <2> QED BY <1>8, <2>1
  <1> QED BY <1>9, <1>10

(* The stream's callback reports all that was noted of a file.               *)
LEMMA NotesMerged ==
  ASSUME NotesInv, callback
  PROVE  NotesInv' /\ NotedStep
  <1> DEFINE n == Head(notes).name
             flags == Head(notes).kinds
             r1 == IF flags \cap {"create", "modify"} # {} THEN Reported(row, n, "modified") ELSE row
             r2 == IF "remove" \in flags THEN Reported(r1, n, "deleted") ELSE r1
  <1>0. /\ platform = "macos" /\ notes # <<>> /\ notes' = Tail(notes)
        /\ UNCHANGED <<platform, taken, pc>>
        /\ row' = IF flags \cap {"moveIn", "moveOut"} # {} THEN Reported(r2, n, "moved") ELSE r2
        /\ gone' = [f \in File |-> IF f = n /\ "remove" \in flags THEN 0 ELSE gone[f]]
    BY DEF callback
  <1>1. /\ notes \in Notes /\ taken \in Notes /\ gone \in [File -> Nat]
        /\ DOMAIN row = File \cup {Dir} /\ Merged
    BY <1>0 DEF NotesInv
  <1>2. /\ Len(notes) \in Nat \ {0} /\ DOMAIN notes = 1 .. Len(notes)
        /\ Head(notes) = notes[1] /\ Head(notes) \in ANote /\ Tail(notes) \in Notes
        /\ DOMAIN Tail(notes) = 1 .. Len(notes) - 1
        /\ \A i \in 1 .. Len(notes) - 1 : Tail(notes)[i] = notes[i + 1]
    BY <1>0, <1>1, SMTT(30) DEF Notes
  <1>3. n \in File \cup {Dir}
    BY <1>2 DEF ANote
  <1>4. gone' \in [File -> Nat]
    BY <1>0, <1>1
  <1>5. \A r : Reported(r, n, "moved") = r
    BY DEF Reported
  <1>6. r1 = row \/ (disk[n] # Missing /\ r1 = [row EXCEPT ![n] = disk[n]])
    BY SMTT(30) DEF Reported, Exists
  <1>7. r2 = r1 \/ ("remove" \in flags /\ r2 = [r1 EXCEPT ![n] = Missing])
    BY SMTT(30) DEF Reported
  <1>8. row' = r2
    BY <1>0, <1>5, SMTT(30)
  <1> HIDE DEF r1, r2
  <1>9. DOMAIN row' = File \cup {Dir}
    BY <1>1, <1>6, <1>7, <1>8
  <1>10. \A i \in DOMAIN notes' : i + 1 \in DOMAIN notes /\ i + 1 # 1 /\ notes'[i] = notes[i + 1]
    BY <1>0, <1>2, SMTT(30)
  <1>11. \A i, j \in DOMAIN notes' : i + 1 = j + 1 => i = j
    BY <1>0, <1>2, SMTT(30)
  <1>12. \A i \in DOMAIN notes' : notes'[i].name # n
    BY <1>1, <1>2, <1>10, SMTT(30) DEF Merged
  <1>13. Merged'
    <2>1. \A i, j \in DOMAIN notes' : notes'[i].name = notes'[j].name => i = j
      BY <1>1, <1>10, <1>11, SMTT(30) DEF Merged
    <2>2. ASSUME NEW i \in DOMAIN notes', "remove" \in notes'[i].kinds, notes'[i].name \in File
          PROVE  gone'[notes'[i].name] > 0
      <3>1. gone'[notes'[i].name] = gone[notes'[i].name]
        BY <1>0, <1>12, <2>2
      <3>2. gone[notes'[i].name] > 0
        BY <1>1, <1>10, <2>2 DEF Merged
      <3> QED BY <3>1, <3>2
    <2> QED BY <2>1, <2>2 DEF Merged
  <1>14. NotesInv'
    BY <1>0, <1>1, <1>2, <1>4, <1>9, <1>13 DEF NotesInv
  <1>15. NotedStep
    <2> SUFFICES ASSUME NEW f \in File, row[f] # Missing, row'[f] = Missing PROVE gone[f] > 0
      BY DEF NotedStep
    <2>1. "remove" \in flags /\ f = n
      BY <1>1, <1>3, <1>6, <1>7, <1>8
    <2> QED BY <1>1, <1>2, <2>1, SMTT(30) DEF Merged
  <1> QED BY <1>14, <1>15

(* Whatever coincides.                                                       *)
LEMMA NotesStep ==
  ASSUME NotesInv, [TransferNext]_allVars
  PROVE  NotesInv' /\ NotedStep
  <1> USE DEF diskVars, kernel
  <1>0. ASSUME UNCHANGED <<platform, notes, taken, gone, row>>,
               platform = "linux" /\ pc' = "handle" => pc = "handle"
        PROVE  NotesInv' /\ NotedStep
    <2>1. platform = "linux" /\ pc' = "handle" => taken' # <<>>
      BY <1>0 DEF NotesInv
    <2> QED BY <1>0, <2>1, NotesPass DEF NotedStep
  <1>1. CASE Users
    <2>1. ASSUME NEW n \in File \cup {Dir}, NEW kind \in Kinds, Note(n, kind),
                 UNCHANGED <<platform, taken, pc, row>>,
                 gone' = gone \/ gone' = [gone EXCEPT ![n] = @ + 1],
                 n \in File /\ kind \in {"remove", "moveOut"} => gone' = [gone EXCEPT ![n] = @ + 1]
          PROVE  NotesInv' /\ NotedStep
      <3>1. gone \in [File -> Nat]
        BY DEF NotesInv
      <3>2. gone' \in [File -> Nat] /\ \A f \in File : gone'[f] >= gone[f]
        BY <2>1, <3>1, SMTT(30)
      <3>3. n \in File /\ kind \in {"remove", "moveOut"} => gone'[n] = gone[n] + 1
        BY <2>1, <3>1
      <3>4. NotesInv'
        BY <2>1, <3>2, <3>3, NotesAdded
      <3> QED BY <2>1, <3>4 DEF NotedStep
    <2>2. ASSUME NEW f \in File, NEW content, NEW kind \in Kinds, Change(f, content, kind),
                 kind \in {"remove", "moveOut"} => content = Missing
          PROVE  NotesInv' /\ NotedStep
      BY <2>1, <2>2 DEF Change
    <2>4. ASSUME NEW f \in File, Adds(f) \/ Takes(f) PROVE NotesInv' /\ NotedStep
      <3>2. CASE Write(f)
        BY <2>2, <3>2 DEF Write, Kinds
      <3>3. CASE MoveIn(f)
        BY <2>2, <3>3 DEF MoveIn, Kinds
      <3>4. CASE Remove(f)
        BY <2>2, <3>4 DEF Remove, Kinds
      <3>5. CASE MoveOut(f)
        BY <2>2, <3>5 DEF MoveOut, Kinds
      <3> QED BY <2>4, <3>2, <3>3, <3>4, <3>5 DEF Adds, Takes
    <2>5. Dir \notin File
      BY WatcherAssumption
    <2>6. CASE MakeDir
      BY <2>1, <2>5, <2>6 DEF MakeDir, Kinds
    <2>7. CASE RemoveDir
      BY <2>1, <2>5, <2>7 DEF RemoveDir, Kinds
    <2> QED BY <1>1, <2>4, <2>6, <2>7 DEF Users
  <1>2. CASE Starts
    BY <1>0, <1>2 DEF Starts, StartInotify, StartHandler, StartThread
  <1>3. CASE StopBegins
    BY <1>0, <1>3 DEF StopBegins
  <1>4. ASSUME UNCHANGED <<platform, gone, row, pc>>,
               \/ taken' = notes /\ notes' = <<>>
               \/ taken' \in {taken, <<>>} /\ notes' \in {notes, <<>>},
               platform = "linux" => UNCHANGED taken
        PROVE  NotesInv' /\ NotedStep
    <2>1. platform = "linux" /\ pc' = "handle" => taken' # <<>>
      BY <1>4 DEF NotesInv
    <2> QED BY <1>4, <2>1, NotesPass DEF NotedStep
  <1>5. CASE Stops
    <2>1. CASE CloseInotify \/ CloseDirectory \/ Join
      BY <1>0, <2>1 DEF CloseInotify, CloseDirectory, Join
    <2>2. CASE StopStream
      BY <1>4, <2>2 DEF StopStream
    <2> QED BY <1>5, <2>1, <2>2 DEF Stops
  <1>6. CASE Thread
    <2>1. CASE PollDescriptor
      BY <1>0, <2>1 DEF PollDescriptor
    <2>2. CASE ReadEvents
      <3>1. CASE fd = "inotify" /\ notes # <<>>
        <4>1. UNCHANGED <<platform, gone, row>> /\ taken' = notes /\ notes' = <<>>
          BY <2>2, <3>1 DEF ReadEvents
        <4> QED BY <3>1, <4>1, NotesPass DEF NotedStep
      <3>2. CASE ~(fd = "inotify" /\ notes # <<>>)
        BY <1>0, <2>2, <3>2 DEF ReadEvents
      <3> QED BY <3>1, <3>2
    <2>3. CASE handleEvents
      <3>1. platform = "linux" /\ pc = "handle" /\ taken # <<>>
        BY <2>3 DEF handleEvents, NotesInv
      <3>2. /\ Report(Head(taken).name, ActionOf(Head(taken).kinds)) /\ taken' = Tail(taken)
            /\ UNCHANGED <<platform, notes>> /\ (pc' = "handle" => Len(taken) # 1)
        BY <2>3 DEF handleEvents
      <3> QED BY <3>1, <3>2, NotesReport
    <2>4. CASE PublishStream \/ StartStream \/ CreateSemaphore \/ WaitForStop
      BY <1>0, <2>4 DEF PublishStream, StartStream, CreateSemaphore, WaitForStop
    <2>5. CASE OpenDirectory \/ WaitForEvent \/ CancelIoEx \/ GetOverlappedResult \/ EndLoop
      BY <1>0, <2>5 DEF OpenDirectory, WaitForEvent, CancelIoEx, GetOverlappedResult, EndLoop
    <2>6. CASE ReadDirectoryChanges
      <3>1. /\ UNCHANGED <<platform, gone, row, notes>> /\ platform = "windows"
            /\ taken' \in {taken, <<>>}
        BY <2>6 DEF ReadDirectoryChanges
      <3> QED BY <3>1, NotesPass DEF NotedStep
    <2>7. CASE HandleNotification
      <3>1. CASE taken = <<>>
        BY <1>0, <2>7, <3>1 DEF HandleNotification
      <3>2. CASE taken # <<>>
        <4>1. /\ Report(Head(taken).name, ActionOf(Head(taken).kinds)) /\ taken' = Tail(taken)
              /\ UNCHANGED <<platform, notes>> /\ platform = "windows"
          BY <2>7, <3>2 DEF HandleNotification
        <4> QED BY <3>2, <4>1, NotesReport
      <3> QED BY <3>1, <3>2
    <2>8. CASE BeginScan
      BY <1>0, <2>8 DEF BeginScan
    <2>9. CASE EndScan \/ \E f \in File : VisitEntry(f)
      <3>0. gone \in [File -> Nat]
        BY DEF NotesInv
      <3>1. ASSUME platform = "other", UNCHANGED <<platform, notes, taken>>,
                   gone' \in [File -> Nat], DOMAIN row' = DOMAIN row
            PROVE  NotesInv' /\ NotedStep
        BY <3>1 DEF NotesInv, NotedStep
      <3>2. CASE EndScan
        BY <3>0, <3>1, <3>2 DEF EndScan
      <3>3. ASSUME NEW f \in File, VisitEntry(f) PROVE NotesInv' /\ NotedStep
        <4>1. DOMAIN row' = DOMAIN row
          BY <3>3 DEF VisitEntry, Reported
        <4>2. platform = "other" /\ UNCHANGED <<platform, notes, taken, gone>>
          BY <3>3 DEF VisitEntry
        <4> QED BY <3>0, <3>1, <4>1, <4>2
      <3> QED BY <2>9, <3>2, <3>3
    <2> QED BY <1>6, <2>1, <2>2, <2>3, <2>4, <2>5, <2>6, <2>7, <2>8, <2>9 DEF Thread
  <1>7. CASE Kernel
    <2>1. CASE callback
      BY <2>1, NotesMerged
    <2>2. CASE CompleteRequest
      BY <1>4, <2>2 DEF CompleteRequest
    <2>3. CASE CancelRequest
      BY <1>0, <2>3 DEF CancelRequest
    <2> QED BY <1>7, <2>1, <2>2, <2>3 DEF Kernel
  <1>8. CASE Environment
    BY <1>0, <1>8 DEF Environment, AnotherOpens, LoseConnection, RegainConnection
  <1>9. CASE Exit
    BY <1>0, <1>9 DEF Exit
  <1>10. ASSUME NEW t \in Transfer, StartDownload(t) PROVE NotesInv' /\ NotedStep
    <2>1. UNCHANGED <<platform, gone, pc, notes, taken>> /\ row' = [row EXCEPT ![Dest] = Content(t)]
      BY <1>10 DEF StartDownload
    <2>2. Content(t) # Missing
      <3>1. Content(t)[1] = 100 + t /\ t \in Nat /\ Missing[1] = -1
        BY WatcherAssumption, TransferAssumption, SMTT(30) DEF Content, Whole, Missing
      <3> QED BY <3>1, SMTT(30)
    <2>3. DOMAIN row' = DOMAIN row /\ \A f \in File : row'[f] = Missing => row[f] = Missing
      BY <2>1, <2>2 DEF NotesInv
    <2>4. platform = "linux" /\ pc' = "handle" => taken' # <<>>
      BY <2>1 DEF NotesInv
    <2>5. NotesInv'
      BY <2>1, <2>3, <2>4, NotesPass
    <2> QED BY <2>3, <2>5 DEF NotedStep
  <1>11. ASSUME NEW t \in Transfer, Transfers(t) PROVE NotesInv' /\ NotedStep
    <2> USE DEF vars, watchVars
    <2>1. CASE Relay(t) \/ SourceChanges(t) \/ prepare_file_transfer(t)
      BY <1>0, <2>1 DEF Relay, AcceptTimeout, SendBlock, streamDownload, SourceChanges,
                        prepare_file_transfer
    <2>2. CASE ConnectLocal(t) \/ OpenTemp(t) \/ EndReceive(t) \/ CheckHash(t)
      BY <1>0, <2>2 DEF ConnectLocal, OpenTemp, EndReceive, CheckHash
    <2>3. ASSUME NEW kind \in Kinds \ {"remove", "moveOut"}, UNCHANGED <<row, gone, watchVars>>,
                 Note(Dest, kind)
          PROVE  NotesInv' /\ NotedStep
      <3>1. gone' = gone /\ gone \in [File -> Nat] /\ \A f \in File : gone'[f] >= gone[f]
        BY <2>3, SMTT(30) DEF NotesInv
      <3>2. Dest \in File /\ UNCHANGED <<platform, taken, pc, row>>
        BY <2>3, TransferAssumption DEF File
      <3> QED BY <2>3, <3>1, <3>2, NotesAdded DEF NotedStep
    <2>4. CASE ReceiveBlock(t)
      BY <1>0, <2>3, <2>4 DEF ReceiveBlock, Kinds
    <2>5. CASE Rename(t)
      BY <1>0, <2>3, <2>5 DEF Rename, Kinds
    <2> QED BY <1>11, <2>1, <2>2, <2>4, <2>5 DEF Transfers, Download
  <1>12. CASE UNCHANGED allVars
    BY <1>0, <1>12 DEF allVars, vars
  <1> QED BY <1>1, <1>2, <1>3, <1>5, <1>6, <1>7, <1>8, <1>9, <1>10, <1>11, <1>12
          DEF TransferNext, Besides, Next

LEMMA NotesInvariant == TransferSpec => []NotesInv
  <1>1. TransferInit => NotesInv
    <2> SUFFICES ASSUME TransferInit PROVE NotesInv
      OBVIOUS
    <2>1. /\ notes = <<>> /\ taken = <<>> /\ gone = [f \in File |-> 0] /\ pc = "none"
          /\ DOMAIN row = File \cup {Dir}
      BY DEF TransferInit, Init
    <2>2. <<>> \in Notes /\ Merged
      BY <2>1, SMTT(30) DEF Notes, Merged
    <2>3. \A f \in File : Unreported(f) = 0
      BY <2>1, NoNotes, SMTT(30) DEF Unreported
    <2> QED BY <2>1, <2>2, <2>3, SMTT(30) DEF NotesInv
  <1> QED BY <1>1, NotesStep, PTL DEF TransferSpec

(* On Linux, macOS and Windows the daemon reports no deletion of a file that was
   not removed as often: whatever users, downloads and stop do meanwhile, however
   many notes the kernel loses or merges, and with two requests on one buffer.   *)
THEOREM NotedDeletions == TransferSpec => NotedDeletionsAreReal
  <1>1. NotesInv /\ [TransferNext]_allVars =>
          [platform # "other" =>
             \A f \in File : row[f] # Missing /\ row'[f] = Missing => gone[f] > 0]_vars
    BY NotesStep DEF NotedStep
  <1> QED BY <1>1, NotesInvariant, PTL DEF TransferSpec, NotedDeletionsAreReal

-----------------------------------------------------------------------------
(* The polling watcher, whose scans find files missing.                      *)
FoundStep ==
  platform = "other" => \A f \in File : row[f] # Missing /\ row'[f] = Missing => gone[f] > 0

LEMMA ThereIs == \A c \in Nat : Whole(c) # Missing
  <1>1. \A c \in Nat : Whole(c)[1] = c /\ Missing[1] = -1
    BY WatcherAssumption, SMTT(30) DEF Whole, Missing
  <1> QED BY <1>1, SMTT(30)

(* Files are removed between scans only, and a scan meets all that there are.  *)
LEMMA ScanStep ==
  ASSUME SerialInv, NotesInv, ScanInv, [NextAlone]_allVars
  PROVE  ScanInv' /\ FoundStep
  <1> USE DEF diskVars, polling
  <1>t. /\ disk \in [File -> Applied] /\ gone \in [File -> Nat] /\ DOMAIN row = File \cup {Dir}
        /\ changes \in Nat
    BY WatcherAssumption, SMTT(30) DEF SerialInv, NotesInv
  <1>0. ASSUME UNCHANGED <<platform, disk, gone, row, knownFiles>>,
               entries' = entries, pc' # "scan" \/ UNCHANGED <<pc, seenFiles>>
        PROVE  ScanInv' /\ FoundStep
    BY <1>0 DEF ScanInv, FoundStep, Exists
  <1>1. ASSUME platform # "other", platform' = platform PROVE ScanInv' /\ FoundStep
    BY <1>1 DEF ScanInv, FoundStep
  <1>2. ASSUME NEW f \in File, NEW content, content # Missing, disk' = [disk EXCEPT ![f] = content],
               UNCHANGED <<platform, pc, gone, row, polling>>
        PROVE  ScanInv' /\ FoundStep
    <2>1. \A g \in File : Exists(g) => Exists(g)'
      BY <1>t, <1>2 DEF Exists
    <2> QED BY <1>2, <2>1 DEF ScanInv, FoundStep
  <1>3. CASE CalmUsers
    <2>1. ASSUME NEW f \in File, Write(f) \/ MoveIn(f) PROVE ScanInv' /\ FoundStep
      <3>1. Whole(changes + 1) # Missing
        BY <1>t, ThereIs, SMTT(30)
      <3>2. \E kind : Change(f, Whole(changes + 1), kind)
        BY <2>1 DEF Write, MoveIn
      <3> QED BY <1>2, <3>1, <3>2 DEF Change
    <2>2. ASSUME NEW f \in File, Found(f), Remove(f) \/ MoveOut(f) PROVE ScanInv' /\ FoundStep
      <3>1. /\ UNCHANGED <<platform, pc, row, polling>> /\ disk' = [disk EXCEPT ![f] = Missing]
            /\ gone' = [gone EXCEPT ![f] = @ + 1]
        BY <2>2 DEF Remove, MoveOut, Change
      <3>2. CASE platform = "other"
        <4>1. pc' # "scan"
          BY <2>2, <3>1, <3>2 DEF Found
        <4>2. gone'[f] # 0 /\ \A g \in File \ {f} : gone'[g] = gone[g] /\ disk'[g] = disk[g]
          BY <1>t, <3>1, SMTT(30)
        <4> QED BY <3>1, <4>1, <4>2 DEF ScanInv, FoundStep, Exists
      <3> QED BY <1>1, <3>1, <3>2
    <2>3. CASE MakeDir \/ RemoveDir
      BY <1>0, <2>3 DEF MakeDir, RemoveDir
    <2> QED BY <1>3, <2>1, <2>2, <2>3 DEF CalmUsers
  <1>4. CASE Starts
    BY <1>0, <1>4 DEF Starts, StartInotify, StartHandler, StartThread
  <1>5. CASE StopBegins \/ Stops
    BY <1>0, <1>5 DEF StopBegins, Stops, CloseInotify, StopStream, CloseDirectory, Join
  <1>6. CASE Thread
    <2>1. CASE PollDescriptor \/ ReadEvents \/ handleEvents
      BY <1>1, <2>1 DEF PollDescriptor, ReadEvents, handleEvents
    <2>2. CASE PublishStream \/ StartStream \/ CreateSemaphore \/ WaitForStop
      BY <1>1, <2>2 DEF PublishStream, StartStream, CreateSemaphore, WaitForStop
    <2>3. CASE OpenDirectory \/ ReadDirectoryChanges \/ WaitForEvent \/ CancelIoEx
      BY <1>1, <2>3 DEF OpenDirectory, ReadDirectoryChanges, WaitForEvent, CancelIoEx
    <2>4. CASE GetOverlappedResult \/ HandleNotification \/ EndLoop
      BY <1>1, <2>4 DEF GetOverlappedResult, HandleNotification, EndLoop
    <2>5. CASE BeginScan
      <3>1. CASE running
        <4>1. UNCHANGED <<platform, disk, gone, row, knownFiles>> /\ entries' = {f \in File : Exists(f)}
          BY <2>5, <3>1 DEF BeginScan
        <4> QED BY <4>1 DEF ScanInv, FoundStep, Exists
      <3>2. CASE ~running
        BY <1>0, <2>5, <3>2 DEF BeginScan
      <3> QED BY <3>1, <3>2
    <2>6. CASE EndScan
      <3> DEFINE lost == {f \in File : knownFiles[f] # Missing} \ seenFiles
      <3>1. /\ platform = "other" /\ pc = "scan" /\ entries = {} /\ pc' # "scan"
            /\ UNCHANGED <<platform, disk, entries>>
            /\ knownFiles' = [f \in File |-> IF f \in lost THEN Missing ELSE knownFiles[f]]
            /\ row' = [n \in DOMAIN row |-> IF n \in lost /\ online THEN Missing ELSE row[n]]
            /\ gone' = [f \in File |-> IF f \in lost THEN 0 ELSE gone[f]]
        BY <2>6 DEF EndScan
      <3>2. \A f \in lost : gone[f] > 0
        <4>1. \A f \in lost : gone[f] # 0 /\ gone[f] \in Nat
          BY <1>t, <3>1 DEF ScanInv
        <4> QED BY <4>1, Positive
      <3>3. \A f \in File : knownFiles'[f] # Missing => f \notin lost
        BY <3>1
      <3> HIDE DEF lost
      <3>4. \A f \in File : knownFiles'[f] # Missing /\ gone'[f] = 0 => Exists(f)'
        BY <3>1, <3>3 DEF ScanInv, Exists
      <3>5. ScanInv'
        BY <3>1, <3>4 DEF ScanInv
      <3>6. FoundStep
        BY <1>t, <3>1, <3>2 DEF FoundStep
      <3> QED BY <3>5, <3>6
    <2>7. ASSUME NEW f \in File, VisitEntry(f) PROVE ScanInv' /\ FoundStep
      <3>1. platform = "other" /\ pc = "scan" /\ f \in entries /\ UNCHANGED <<platform, disk, gone>>
        BY <2>7 DEF VisitEntry
      <3>2. Exists(f)
        BY <3>1 DEF ScanInv
      <3>3. CASE ~running
        BY <1>0, <2>7, <3>3 DEF VisitEntry
      <3>4. CASE running
        <4>1. /\ entries' = entries \ {f} /\ seenFiles' = seenFiles \cup {f} /\ pc' = pc
              /\ knownFiles' = [knownFiles EXCEPT ![f] = disk[f]]
              /\ row' = IF knownFiles[f] # disk[f] THEN Reported(row, f, "modified") ELSE row
          BY <2>7, <3>2, <3>4 DEF VisitEntry
        <4>2. row' = row \/ row' = [row EXCEPT ![f] = disk[f]]
          BY <4>1, SMTT(30) DEF Reported
        <4>3. FoundStep
          BY <1>t, <3>2, <4>2 DEF FoundStep, Exists
        <4>4. DOMAIN knownFiles = File /\ \A g \in File \ {f} : knownFiles'[g] = knownFiles[g]
          BY <3>1, <4>1 DEF ScanInv
        <4>5. \A g \in File : knownFiles'[g] # Missing /\ gone'[g] = 0 =>
                Exists(g) /\ g \in entries' \cup seenFiles'
          BY <3>1, <3>2, <4>1, <4>4 DEF ScanInv
        <4>6. entries' \subseteq File /\ \A g \in entries' : Exists(g)
          BY <3>1, <4>1 DEF ScanInv
        <4>7. DOMAIN knownFiles' = File
          BY <4>1, <4>4
        <4>8. ScanInv'
          BY <3>1, <4>5, <4>6, <4>7 DEF ScanInv, Exists
        <4> QED BY <4>3, <4>8
      <3> QED BY <3>3, <3>4
    <2> QED BY <1>6, <2>1, <2>2, <2>3, <2>4, <2>5, <2>6, <2>7 DEF Thread
  <1>7. CASE Kernel
    BY <1>1, <1>7 DEF Kernel, callback, CompleteRequest, CancelRequest
  <1>8. CASE Exit
    BY <1>0, <1>8 DEF Exit
  <1>9. ASSUME NEW t \in Transfer, StartDownload(t) PROVE ScanInv' /\ FoundStep
    <2>1. /\ UNCHANGED <<platform, disk, gone, pc, knownFiles, entries, seenFiles>>
          /\ row' = [row EXCEPT ![Dest] = Content(t)]
      BY <1>9 DEF StartDownload
    <2>2. Content(t) # Missing
      BY ThereIs, TransferAssumption, SMTT(30) DEF Content
    <2>3. FoundStep
      BY <1>t, <2>1, <2>2 DEF FoundStep
    <2>4. ScanInv'
      BY <2>1 DEF ScanInv, Exists
    <2> QED BY <2>3, <2>4
  <1>10. ASSUME NEW t \in Transfer,
                Relay(t) \/ SourceChanges(t) \/ prepare_file_transfer(t) \/ CalmDownload(t)
         PROVE  ScanInv' /\ FoundStep
    <2> USE DEF vars, watchVars
    <2>1. CASE Relay(t) \/ SourceChanges(t) \/ prepare_file_transfer(t)
      BY <1>0, <2>1 DEF Relay, AcceptTimeout, SendBlock, streamDownload, SourceChanges,
                        prepare_file_transfer
    <2>2. CASE CalmDownload(t)
      <3>1. entries' = entries
        BY <2>2 DEF CalmDownload
      <3>2. CASE ConnectLocal(t) \/ OpenTemp(t) \/ EndReceive(t) \/ CheckHash(t)
        BY <1>0, <3>1, <3>2 DEF ConnectLocal, OpenTemp, EndReceive, CheckHash
      <3>3. CASE ReceiveBlock(t)
        <4>1. at[t] # "dest"
          BY DEF SerialInv
        <4> QED BY <1>0, <3>3, <4>1 DEF ReceiveBlock
      <3>4. CASE Rename(t)
        <4>1. Dest \in File
          BY TransferAssumption DEF File
        <4>2. CASE disk' = disk
          BY <1>0, <3>1, <3>4, <4>2 DEF Rename
        <4>3. CASE tmp # Missing /\ disk' = [disk EXCEPT ![Dest] = tmp]
          BY <1>2, <3>1, <3>4, <4>1, <4>3 DEF Rename
        <4> QED BY <3>4, <4>2, <4>3 DEF Rename
      <3> QED BY <2>2, <3>2, <3>3, <3>4 DEF CalmDownload, Download
    <2> QED BY <1>10, <2>1, <2>2
  <1>11. CASE UNCHANGED allVars
    BY <1>0, <1>11 DEF allVars, vars
  <1> QED BY <1>3, <1>4, <1>5, <1>6, <1>7, <1>8, <1>9, <1>10, <1>11 DEF NextAlone, Besides, NextCalm, CalmThread, CalmStop, Alone

LEMMA ScanInvariant == SpecAlone => []SerialInv /\ []NotesInv /\ []ScanInv
  <1>1. SpecAlone => SpecSerial
    BY AloneIsSerial, PTL DEF SpecAlone, SpecSerial
  <1>2. NextSerial => TransferNext
    BY DEF NextSerial, TransferNext
  <1>3. SpecSerial => TransferSpec
    BY <1>2, PTL DEF SpecSerial, TransferSpec
  <1>4. TransferInit => ScanInv
    BY DEF TransferInit, Init, ScanInv, Missing
  <1>5. SerialInv /\ NotesInv /\ ScanInv /\ [NextAlone]_allVars => ScanInv'
    BY ScanStep
  <1> QED BY <1>1, <1>3, <1>4, <1>5, SerialInvariant, NotesInvariant, PTL DEF SpecAlone

(* Where the watcher polls, the same needs users that leave a scan alone: then a
   file that a scan does not meet has been removed, and on all platforms a file is
   reported as deleted at most once for every time it was removed.             *)
THEOREM DeletionsReported == SpecAlone => DeletionsAreReal
  <1>1. NextAlone => TransferNext
    BY AloneIsSerial DEF NextSerial, TransferNext
  <1>2. SerialInv /\ NotesInv /\ ScanInv /\ [NextAlone]_allVars =>
          [\A f \in File : row[f] # Missing /\ row'[f] = Missing => gone[f] > 0]_vars
    BY <1>1, NotesStep, ScanStep DEF NotedStep, FoundStep
  <1> QED BY <1>2, ScanInvariant, PTL DEF SpecAlone, DeletionsAreReal
=============================================================================
