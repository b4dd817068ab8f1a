------------------------------ MODULE FileTransfer ------------------------------
(***************************************************************************)
(* The data plane: a file is downloaded by a thread of the daemon (the     *)
(* download branch of handle_file_transfer, cpp/src/file_transfer.cpp)     *)
(* while the daemon's watcher looks on.  The bytes come from a thread of   *)
(* another daemon (the upload branch), through a session of each           *)
(* coordinator (go/pkg/transfer/file_transfer.go), which relay them.       *)
(*                                                                         *)
(* All downloads of a file write to the same temporary name.  A thread     *)
(* keeps the file it opened, wherever that file is moved: at[t] says under *)
(* which name it is now.                                                   *)
(***************************************************************************)
EXTENDS Watchers

CONSTANTS
  Dest,        (* the file that is downloaded                                *)
  Transfer,    (* transfers, numbered                                        *)
  MaxSourceChanges  (* bound on the changes of the file at its source          *)

ASSUME TransferAssumption ==
  Dest \in Top /\ Transfer \subseteq Nat /\ MaxSourceChanges \in Nat

Content(t) == Whole(100 + t)    (* what was announced and is asked for       *)
Changed(t) == Whole(200 + t)    (* what the source has made of it since        *)
Hole == -2                      (* what was never written before a later block *)

VARIABLES
  session,     (* session[t]: the sessions of the coordinators                *)
  source,      (* source[t]: the file at the other end                       *)
  pipe,        (* pipe[t]: a block that was sent and is not read yet          *)
  place,       (* place[t]: where the downloading thread is                   *)
  at,          (* at[t]: where the file is that it has open                   *)
  received,    (* received[t]: total_received                                *)
  tmp          (* what is stored under the temporary name                    *)

relay == <<session, source, pipe>>
tvars == <<relay, place, at, received, tmp>>
allVars == <<vars, tvars>>

Idle(t) == place[t] \in {"none", "done"}
Ended(t) == session[t] = "closed"
Go(t, p) == place' = [place EXCEPT ![t] = p]

(* The watcher's state apart from what a change of a file touches.           *)
watchVars == <<platform, subdir, changes, link, main, running, pc, taken, linux, macos, windows,
               knownFiles, seenFiles>>

-----------------------------------------------------------------------------
(* The coordinators.  The row has been saved when the download starts.       *)
StartDownload(t) ==
  /\ session[t] = "none"
  /\ session' = [session EXCEPT ![t] = "listening"]
  /\ row' = [row EXCEPT ![Dest] = Content(t)]
  /\ UNCHANGED <<platform, diskVars, link, main, running, pc, kernel, linux, macos, windows, polling,
                 source, pipe, place, at, received, tmp>>

(* Mutant of AcceptTimeout: the deadline starts with the connection.          *)
TimeoutOfConnected(t) ==
  /\ session[t] = "listening" /\ place[t] # "none"
  /\ session' = [session EXCEPT ![t] = "closed"]
  /\ UNCHANGED <<vars, source, pipe, place, at, received, tmp>>

(* Nobody connects to the session's port within its deadline.                *)
AcceptTimeout(t) ==
  /\ session[t] = "listening"
  /\ session' = [session EXCEPT ![t] = "closed"]
  /\ UNCHANGED <<vars, source, pipe, place, at, received, tmp>>

(* The uploading thread reads the file block by block, as it is by then ...  *)
SourceChanges(t) ==
  /\ ~Ended(t) /\ source[t] = Content(t)
  /\ Cardinality({u \in Transfer : source[u] # Content(u)}) < MaxSourceChanges
  /\ source' = [source EXCEPT ![t] = Changed(t)] \/ source' = [source EXCEPT ![t] = <<>>]
  /\ UNCHANGED <<vars, session, pipe, place, at, received, tmp>>
SendBlock(t) ==
  LET i == received[t] + 1 IN
  /\ session[t] = "streaming" /\ pipe[t] = <<>>
  /\ i <= Size /\ i <= Len(source[t])
  /\ pipe' = [pipe EXCEPT ![t] = <<source[t][i]>>]
  /\ UNCHANGED <<vars, session, source, place, at, received, tmp>>

(* ... and ends with the file, with the size asked for, or with a connection
   that fails; the sessions end with it.                                     *)
streamDownload(t) ==
  /\ session[t] = "streaming"
  /\ session' = [session EXCEPT ![t] = "closed"]
  /\ UNCHANGED <<vars, source, pipe, place, at, received, tmp>>

-----------------------------------------------------------------------------
(* The downloading thread.  The daemon is told of the transfer, connects to the
   session ...                                                              *)
prepare_file_transfer(t) ==
  /\ place[t] = "none" /\ session[t] # "none" /\ main # "exited"
  /\ Go(t, "connect")
  /\ UNCHANGED <<vars, relay, at, received, tmp>>
ConnectLocal(t) ==
  /\ place[t] = "connect"
  /\ IF session[t] = "listening"
       THEN session' = [session EXCEPT ![t] = "streaming"] /\ Go(t, "open")
       ELSE Go(t, "done") /\ UNCHANGED session
  /\ UNCHANGED <<vars, source, pipe, at, received, tmp>>

(* ... opens the temporary file, emptying it if it exists ...                *)
OpenTemp(t) ==
  /\ place[t] = "open"
  /\ \/ /\ tmp' = <<>> /\ at' = [at EXCEPT ![t] = "tmp"]
        /\ Go(t, "receive")
     \/ UNCHANGED <<tmp, at>> /\ Go(t, "done")
  /\ UNCHANGED <<vars, relay, received>>

(* ... writes what it reads where its file is now, after its last block ...  *)
WriteBlock(file, i, b) ==
  [j \in 1 .. (IF i > Len(file) THEN i ELSE Len(file)) |->
     IF j = i THEN b ELSE IF j <= Len(file) THEN file[j] ELSE Hole]
ReceiveBlock(t) ==
  LET i == received[t] + 1
      b == Head(pipe[t])
  IN
  /\ place[t] = "receive" /\ received[t] < Size /\ pipe[t] # <<>>
  /\ pipe' = [pipe EXCEPT ![t] = Tail(@)]
  /\ received' = [received EXCEPT ![t] = i]
  /\ CASE at[t] = "tmp" -> tmp' = WriteBlock(tmp, i, b) /\ UNCHANGED <<disk, notes>>
       [] at[t] = "dest" -> /\ disk' = [disk EXCEPT ![Dest] = WriteBlock(@, i, b)]
                            /\ Note(Dest, "modify")
                            /\ UNCHANGED tmp
       [] OTHER -> UNCHANGED <<disk, notes, tmp>>
  /\ UNCHANGED <<row, gone, entries, watchVars, session, source, place, at>>

(* The temporary name is given up, and a scan may stumble over that.         *)
TempVanishes ==
  IF platform = "other" /\ pc = "scan" THEN entries' \in {entries, {}} ELSE UNCHANGED entries
Unlinked(file) == [t \in Transfer |-> IF at[t] = file THEN "gone" ELSE at[t]]

(* ... until it has all, the connection ends, the read times out, or a write
   fails.  Without all of it the temporary file is removed.                  *)
EndReceive(t) ==
  /\ place[t] = "receive"
  /\ IF received[t] = Size
       THEN Go(t, "hash") /\ at' = [at EXCEPT ![t] = "none"] /\ UNCHANGED <<tmp, entries>>
       ELSE /\ Go(t, "done") /\ tmp' = Missing /\ TempVanishes
            /\ at' = [Unlinked("tmp") EXCEPT ![t] = "none"]
  /\ UNCHANGED <<disk, row, gone, notes, watchVars, relay, received>>

(* Mutant of CheckHash: the hash of what arrived is not compared.            *)
CheckNothing(t) ==
  /\ place[t] = "hash"
  /\ Go(t, "rename")
  /\ UNCHANGED <<vars, relay, at, received, tmp>>

(* ... compares the hash, if the temporary file can be opened, and removes it
   if that is not the one that was announced ...                             *)
CheckHash(t) ==
  /\ place[t] = "hash"
  /\ IF tmp \in {Content(t), Missing}
       THEN Go(t, "rename") /\ UNCHANGED <<tmp, at, entries>>
       ELSE Go(t, "done") /\ tmp' = Missing /\ at' = Unlinked("tmp") /\ TempVanishes
  /\ UNCHANGED <<disk, row, gone, notes, watchVars, relay, received>>

(* ... and renames it.  If that fails it is removed.                         *)
Rename(t) ==
  /\ place[t] = "rename"
  /\ Go(t, "done") /\ tmp' = Missing
  /\ \/ /\ tmp # Missing
        /\ disk' = [disk EXCEPT ![Dest] = tmp]
        /\ at' = [u \in Transfer |-> CASE at[u] = "tmp" -> "dest" [] at[u] = "dest" -> "gone"
                                       [] OTHER -> at[u]]
        /\ Note(Dest, "moveIn")
     \/ at' = Unlinked("tmp") /\ UNCHANGED <<disk, notes>>
  /\ TempVanishes
  /\ UNCHANGED <<row, gone, watchVars, relay, received>>

(* The daemon ends, and its transfers with it, wherever they are.            *)
Exit ==
  /\ main \in {"stopped", "abandoned"}
  /\ main' = "exited"
  /\ place' = [t \in Transfer |-> IF place[t] = "none" THEN "none" ELSE "done"]
  /\ at' = [t \in Transfer |-> "none"]
  /\ UNCHANGED <<platform, diskVars, row, link, running, pc, kernel, linux, macos, windows, polling,
                 relay, received, tmp>>

-----------------------------------------------------------------------------
TransferInit ==
  /\ Init
  /\ session = [t \in Transfer |-> "none"]
  /\ source = [t \in Transfer |-> Content(t)]
  /\ pipe = [t \in Transfer |-> <<>>]
  /\ place = [t \in Transfer |-> "none"] /\ at = [t \in Transfer |-> "none"]
  /\ received = [t \in Transfer |-> 0]
  /\ tmp = Missing

Relay(t) == AcceptTimeout(t) \/ SendBlock(t) \/ streamDownload(t)
Download(t) ==
  \/ ConnectLocal(t) \/ OpenTemp(t) \/ ReceiveBlock(t) \/ EndReceive(t) \/ CheckHash(t) \/ Rename(t)
Transfers(t) == Relay(t) \/ SourceChanges(t) \/ prepare_file_transfer(t) \/ Download(t)

(* A file that is replaced or removed is no longer the one that a thread has
   open; one that is written to still is.                                    *)
Besides(watch) ==
  /\ watch
  /\ at' = IF disk'[Dest] = Missing THEN Unlinked("dest") ELSE at
  /\ UNCHANGED <<relay, place, received, tmp>>

TransferNext ==
  \/ Besides(Next) \/ Exit
  \/ \E t \in Transfer : StartDownload(t) \/ Transfers(t)

(* Anything may coincide: two downloads of the file, changes of users, scans. *)
TransferSpec == TransferInit /\ [][TransferNext]_allVars

(* One download at a time.                                                   *)
Busy == \E t \in Transfer : session[t] # "none" /\ ~(Ended(t) /\ Idle(t))
NextSerial ==
  \/ Besides(Next) \/ Exit
  \/ \E t \in Transfer : (~Busy /\ StartDownload(t)) \/ Transfers(t)
SpecSerial == TransferInit /\ [][NextSerial]_allVars

(* As well as that, the file is not changed meanwhile on macOS, where a
   rename is not reported, and on Windows, where the report may be lost; on
   Linux and Windows there is room for the notification as long as the watcher
   runs.  No scan comes across a temporary file that vanishes.  A download counts
   for two changes.                                                          *)
Bounded == changes' + 2 * Cardinality({t \in Transfer : session'[t] # "none"}) <= MaxChanges
Exclusive == platform \in {"macos", "windows"}
Alone(t) ==
  /\ ~Busy
  /\ Exclusive => \A i \in DOMAIN (notes \o taken) : (notes \o taken)[i].name # Dest
  /\ StartDownload(t)
CalmDownload(t) ==
  /\ place[t] = "rename" /\ platform \in {"linux", "windows"} /\ running => Len(notes) < MaxNotes
  /\ Download(t)
  /\ entries' = entries
NextAlone ==
  \/ Besides(NextCalm) /\ (Busy /\ Exclusive => disk'[Dest] = disk[Dest]) /\ Bounded
  \/ Exit
  \/ \E t \in Transfer : \/ Alone(t) /\ Bounded
                        \/ Relay(t) \/ SourceChanges(t) \/ prepare_file_transfer(t)
                        \/ CalmDownload(t)
(* Every thread and every deadline makes progress.                           *)
FairnessAlone ==
  /\ \A t \in Transfer : WF_allVars(Relay(t)) /\ WF_allVars(CalmDownload(t))
  /\ WF_allVars(Besides(Starts)) /\ WF_allVars(Besides(Stops)) /\ WF_allVars(Besides(CalmThread))
  /\ WF_allVars(Besides(callback)) /\ WF_allVars(Besides(CompleteRequest))
  /\ WF_allVars(Besides(CancelRequest))
SpecAlone == TransferInit /\ [][NextAlone]_allVars /\ FairnessAlone

-----------------------------------------------------------------------------
TransferTypeOK ==
  /\ TypeOK
  /\ session \in [Transfer -> {"none", "listening", "streaming", "closed"}]
  /\ place \in [Transfer -> {"none", "connect", "open", "receive", "hash", "rename", "done"}]
  /\ at \in [Transfer -> {"none", "tmp", "dest", "gone"}]
  /\ received \in [Transfer -> 0 .. Size]
  /\ tmp \in Seq(Int)

(* "[Bob's C++ receives, verifies hash, atomically applies]"
   (docs/api/p2p-protocol.md:486): at every moment the file is missing, or all of
   what a user wrote, or all of what was announced; never a part of a download,
   a mixture, or what the source has become while it was read.               *)
Applied == {Missing} \cup {Whole(c) : c \in 0 .. MaxChanges} \cup {Content(t) : t \in Transfer}
AppliedWhole == disk[Dest] \in Applied

(* When no download is under way there is no temporary file, unless the daemon
   was ended in the middle of one.                                           *)
NoTempLeft == main # "exited" /\ (\A t \in Transfer : Idle(t)) => tmp = Missing

(* Why, when downloads follow each other: at most one of them can write, it has the
   temporary file to itself until it gives the name up, and only what has passed
   CheckHash is renamed.  The daemon may be told of a transfer late: its thread
   then finds that the session has ended.                                    *)
Writing(t) ==
  session[t] \in {"listening", "streaming"} \/ place[t] \in {"open", "receive", "hash", "rename"}
TempHeld ==
  main # "exited" /\ tmp # Missing => \E t \in Transfer : place[t] \in {"receive", "hash", "rename"}

SerialInv ==
  /\ changes \in 0 .. MaxChanges
  /\ disk \in [File -> Applied]
  /\ session \in [Transfer -> {"none", "listening", "streaming", "closed"}]
  /\ place \in [Transfer -> {"none", "connect", "open", "receive", "hash", "rename", "done"}]
  /\ at \in [Transfer -> {"none", "tmp"}]
  /\ \A t, u \in Transfer : Writing(t) /\ Writing(u) => t = u
  /\ \A t \in Transfer : place[t] # "none" => session[t] # "none"
  /\ \A t \in Transfer : at[t] = "tmp" => place[t] = "receive"
  /\ \A t \in Transfer : place[t] = "rename" => tmp \in {Content(t), Missing}
  /\ TempHeld

(* Every transfer ends at both ends, whatever is lost on the way, and cleans up
   (AcceptTimeout of the session, the error paths of handle_file_transfer).  *)
TransfersEnd ==
  /\ \A t \in Transfer : session[t] = "listening" ~> Ended(t) /\ Idle(t)
  /\ []NoTempLeft

(* What the coordinator believes of the files is what is on the disk in the end,
   except that the row of a file may be that of a download that failed.      *)
RowsCatchUp ==
  <>[](~running \/ pc = "done" \/ \A f \in File :
         row[f] = disk[f] \/ (f = Dest /\ \E t \in Transfer : row[f] = Content(t)))
=============================================================================
