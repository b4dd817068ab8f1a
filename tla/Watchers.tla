-------------------------------- MODULE Watchers --------------------------------
(***************************************************************************)
(* The file system watchers of the daemon (cpp/src/*_watcher.cpp) and the  *)
(* callback that turns their events into file_changed messages             *)
(* (cpp/src/main.cpp).  A daemon is built for one platform: inotify on     *)
(* Linux, FSEvents on macOS, ReadDirectoryChangesW on Windows, and polling *)
(* elsewhere.                                                              *)
(*                                                                         *)
(* The watched directory holds files and one subdirectory.  A change has a *)
(* content, and with it a modification time, of its own.  row is what the  *)
(* coordinator believes of a file.  The main thread starts the watcher and *)
(* stops it; both go through several steps that meet those of the          *)
(* watcher's thread.                                                       *)
(***************************************************************************)
EXTENDS Integers, Sequences, FiniteSets

CONSTANTS
  Top,         (* files of the watched directory itself                      *)
  Sub,         (* files of its subdirectory                                  *)
  Platform,    (* the platforms looked at                                    *)
  Size,        (* blocks of a file                                           *)
  MaxChanges,  (* bound on what users do to the files                        *)
  MaxNotes,    (* room for notifications that the daemon has not read yet     *)
  MaxDrops     (* bound on the losses of the connection to the coordinator    *)

File == Top \cup Sub
Dir == "dir"                 (* the name of the subdirectory                  *)

ASSUME WatcherAssumption ==
  /\ Top \cap Sub = {} /\ Dir \notin File
  /\ Platform \subseteq {"linux", "macos", "windows", "other"}
  /\ Size \in Nat \ {0} /\ MaxNotes \in Nat \ {0}
  /\ {MaxChanges, MaxDrops} \subseteq Nat

Missing == <<-1>>            (* the content of a file that does not exist     *)
Whole(c) == [i \in 1 .. Size |-> c]
NoNote == [name |-> Dir, kinds |-> {}]     (* changes that did not fit        *)

VARIABLES
  platform,
  disk,        (* disk[f]: the blocks of f                                   *)
  subdir,      (* the subdirectory exists                                    *)
  row,         (* row[f]: what the coordinator believes; also of Dir          *)
  gone,        (* gone[f]: removals of f that were not reported yet           *)
  changes,     (* the number of changes made                                 *)
  online,      (* the daemon is connected to the coordinator                 *)
  drops,       (* how often it was not                                       *)
  main,        (* where the main thread is in start and stop                 *)
  running,     (* running_                                                   *)
  pc,          (* where the watcher's thread is                              *)
  notes,       (* notifications in the kernel                                *)
  taken,       (* notifications that the thread has read                     *)
  watched,     (* Linux: directories with a watch                            *)
  fd,          (* Linux: what the number in inotifyFd_ stands for             *)
  stream,      (* macOS: the event stream                                    *)
  sem,         (* macOS: sem_, -1 before it is created                       *)
  hDir,        (* Windows: the directory handle                              *)
  pending,     (* Windows: requests that are outstanding                     *)
  cancel,      (* Windows: a cancellation was asked for                       *)
  event,       (* Windows: ov.hEvent is signalled                            *)
  result,      (* Windows: what GetOverlappedResult would find               *)
  knownFiles,  (* polling: the files and times seen last                     *)
  seenFiles,   (* polling: the files seen in this scan                       *)
  entries      (* polling: the directory entries still to be visited          *)

diskVars == <<disk, subdir, gone, changes>>
linux == <<watched, fd>>
macos == <<stream, sem>>
windows == <<hDir, pending, cancel, event, result>>
polling == <<knownFiles, seenFiles, entries>>
kernel == <<notes, taken>>
link == <<online, drops>>
vars == <<platform, diskVars, row, link, main, running, pc, kernel, linux, macos,
          windows, polling>>

Exists(f) == disk[f] # Missing
DirOf(n) == IF n \in Sub THEN "sub" ELSE "top"

-----------------------------------------------------------------------------
(* External: what the kernel notes of a change, in the order of the changes on
   Linux and Windows, where what does not fit is lost; on macOS what happens to
   one file within the latency is merged into one set of flags.              *)
Noted(q, n, kind) ==
  LET more == Append(q, [name |-> n, kinds |-> {kind}]) IN
  CASE platform = "linux" ->
         IF DirOf(n) \in watched /\ Len(q) < MaxNotes THEN more ELSE q
    [] platform = "windows" ->
         IF hDir # "open" \/ result = "none" \/ q = <<NoNote>> THEN q
         ELSE IF Len(q) < MaxNotes THEN more ELSE <<NoNote>>
    [] platform = "macos" ->
         IF stream # "started" THEN q
         ELSE IF \A i \in DOMAIN q : q[i].name # n THEN more
         ELSE [i \in DOMAIN q |->
                 IF q[i].name = n THEN [q[i] EXCEPT !.kinds = @ \cup {kind}] ELSE q[i]]
    [] OTHER -> q
Note(n, kind) == notes' = Noted(notes, n, kind)

Change(f, content, kind) ==
  /\ changes < MaxChanges /\ (f \in Sub => subdir)
  /\ changes' = changes + 1
  /\ disk' = [disk EXCEPT ![f] = content]
  /\ gone' = IF content = Missing THEN [gone EXCEPT ![f] = @ + 1] ELSE gone
  /\ Note(f, kind)
  /\ UNCHANGED <<platform, subdir, row, link, main, running, pc, taken, linux, macos,
                 windows, polling>>

(* Users and their programs: they write a file, remove it, or rename something
   to or from a name that the daemon ignores, as editors do to save.          *)
Write(f) == Change(f, Whole(changes + 1), IF Exists(f) THEN "modify" ELSE "create")
Remove(f) == Exists(f) /\ Change(f, Missing, "remove")
MoveIn(f) == Change(f, Whole(changes + 1), "moveIn")
MoveOut(f) == Exists(f) /\ Change(f, Missing, "moveOut")

MakeDir ==
  /\ ~subdir /\ changes < MaxChanges
  /\ subdir' = TRUE /\ changes' = changes + 1
  /\ Note(Dir, "create")
  /\ UNCHANGED <<platform, disk, gone, row, link, main, running, pc, taken, linux, macos,
                 windows, polling>>
RemoveDir ==
  /\ subdir /\ changes < MaxChanges
  /\ \A f \in Sub : ~Exists(f)
  /\ subdir' = FALSE /\ changes' = changes + 1
  /\ watched' = watched \ {"sub"}
  /\ Note(Dir, "remove")
  /\ UNCHANGED <<platform, disk, gone, row, link, main, running, pc, taken, fd, macos,
                 windows, polling>>

-----------------------------------------------------------------------------
(* The callback of main.cpp, with the coordinator's check of the payload: a
   report of a file that no longer exists has no hash, and "moved" is no action
   it knows; both are refused.  Directories are skipped while they exist.     *)
Reported(r, n, action) ==
  CASE ~online -> r
    [] n = Dir /\ subdir -> r
    [] action = "deleted" -> [r EXCEPT ![n] = Missing]
    [] action \in {"created", "modified"} /\ n # Dir /\ Exists(n) -> [r EXCEPT ![n] = disk[n]]
    [] OTHER -> r
Report(n, action) ==
  /\ row' = Reported(row, n, action)
  /\ gone' = [f \in File |->
                IF f = n /\ action = "deleted" /\ gone[f] > 0 THEN gone[f] - 1 ELSE gone[f]]

(* The events that inotify and ReadDirectoryChangesW are turned into.        *)
ActionOf(kinds) ==
  CASE kinds \cap {"create", "moveIn"} # {} -> "created"
    [] kinds \cap {"remove", "moveOut"} # {} -> "deleted"
    [] OTHER -> "modified"

LoseConnection ==
  /\ online /\ drops < MaxDrops
  /\ online' = FALSE /\ drops' = drops + 1
  /\ UNCHANGED <<platform, diskVars, row, main, running, pc, kernel, linux, macos, windows, polling>>
RegainConnection ==
  /\ ~online
  /\ online' = TRUE
  /\ UNCHANGED <<platform, diskVars, row, drops, main, running, pc, kernel, linux, macos,
                 windows, polling>>

-----------------------------------------------------------------------------
(* InotifyWatcher.  start runs in the main thread: the descriptor and the watch
   of the directory itself, then those of its subdirectories.                *)
StartInotify ==
  /\ platform = "linux" /\ main = "start"
  /\ \/ /\ running' = TRUE /\ fd' = "inotify" /\ watched' = {"top"}
        /\ main' = "walk"
     \/ /\ UNCHANGED <<running, fd, watched>>       (* inotify_init1 fails     *)
        /\ main' = "failed"
  /\ UNCHANGED <<platform, diskVars, row, link, pc, kernel, macos, windows, polling>>

addWatchRecursive == IF subdir /\ fd = "inotify" THEN watched \cup {"sub"} ELSE watched

StartHandler ==
  /\ main = "walk"
  /\ watched' = addWatchRecursive
  /\ main' = "up" /\ pc' = "top"
  /\ UNCHANGED <<platform, diskVars, row, link, running, kernel, fd, macos, windows, polling>>

(* The loop of handleEvents: poll waits for half a second at most, and also
   returns for a descriptor that was closed ...                              *)
PollDescriptor ==
  /\ platform = "linux" /\ pc \in {"top", "stolen"}
  /\ \/ ~running /\ pc' = "done"
     \/ running /\ (fd \in {"closed", "other"} \/ (fd = "inotify" /\ notes # <<>>)) /\ pc' = "read"
  /\ UNCHANGED <<platform, diskVars, row, link, main, running, kernel, linux, macos, windows, polling>>

(* ... what there is to read is read; from a descriptor that meanwhile belongs
   to another thread, something else ...                                    *)
ReadEvents ==
  /\ platform = "linux" /\ pc = "read"
  /\ IF fd = "inotify" /\ notes # <<>>
       THEN taken' = notes /\ notes' = <<>> /\ pc' = "handle"
       ELSE pc' = (IF fd = "other" THEN "stolen" ELSE "top") /\ UNCHANGED kernel
  /\ UNCHANGED <<platform, diskVars, row, link, main, running, linux, macos, windows, polling>>

(* ... and handled event by event; a directory that appears is watched.      *)
handleEvents ==
  LET e == Head(taken) IN
  /\ platform = "linux" /\ pc = "handle"
  /\ Report(e.name, ActionOf(e.kinds))
  /\ watched' = IF e.name = Dir /\ ActionOf(e.kinds) = "created" THEN addWatchRecursive ELSE watched
  /\ taken' = Tail(taken)
  /\ pc' = IF Len(taken) = 1 THEN "top" ELSE "handle"
  /\ UNCHANGED <<platform, disk, subdir, changes, link, main, running, notes, fd, macos,
                 windows, polling>>

(* stop closes the descriptor and forgets it, in two steps, between which the
   IPC thread or a transfer may open another of the same number.             *)
CloseInotify ==
  /\ platform = "linux"
  /\ \/ main = "stop" /\ fd' = "closed" /\ main' = "forget"
     \/ main = "forget" /\ fd' = "none" /\ main' = "join"
  /\ UNCHANGED <<platform, diskVars, row, link, running, pc, kernel, watched, macos, windows, polling>>
AnotherOpens ==
  /\ fd = "closed"
  /\ fd' = "other"
  /\ UNCHANGED <<platform, diskVars, row, link, main, running, pc, kernel, watched, macos,
                 windows, polling>>

-----------------------------------------------------------------------------
(* FSEventsWatcher.  The thread makes a stream, publishes it under
   streamMutex_ unless it was stopped already ...                            *)
PublishStream ==
  /\ platform = "macos" /\ pc = "create"
  /\ \/ /\ running
        /\ stream' = "set" /\ pc' = "start"
     \/ UNCHANGED stream /\ pc' = "done"     (* stopped, or no stream was made  *)
  /\ UNCHANGED <<platform, diskVars, row, link, main, running, kernel, linux, sem, windows, polling>>

(* ... starts it, and only then makes the semaphore that it waits for.       *)
StartStream ==
  /\ platform = "macos" /\ pc = "start"
  /\ stream' = IF stream = "set" THEN "started" ELSE stream
  /\ pc' = "semaphore"
  /\ UNCHANGED <<platform, diskVars, row, link, main, running, kernel, linux, sem, windows, polling>>
CreateSemaphore ==
  /\ platform = "macos" /\ pc = "semaphore"
  /\ sem' = 0 /\ pc' = "wait"
  /\ UNCHANGED <<platform, diskVars, row, link, main, running, kernel, linux, stream, windows, polling>>
WaitForStop ==
  /\ platform = "macos" /\ pc = "wait" /\ sem > 0
  /\ sem' = sem - 1 /\ pc' = "done"
  /\ UNCHANGED <<platform, diskVars, row, link, main, running, kernel, linux, stream, windows, polling>>

(* The stream's callback gets the flags of a file all at once, and reports them
   in a fixed order: created, modified, removed, renamed.                    *)
callback ==
  LET n == Head(notes).name
      eventFlags == Head(notes).kinds
      r1 == IF eventFlags \cap {"create", "modify"} # {} THEN Reported(row, n, "modified") ELSE row
      r2 == IF "remove" \in eventFlags THEN Reported(r1, n, "deleted") ELSE r1
  IN
  /\ platform = "macos" /\ stream = "started" /\ notes # <<>>
  /\ row' = IF eventFlags \cap {"moveIn", "moveOut"} # {} THEN Reported(r2, n, "moved") ELSE r2
  /\ gone' = [f \in File |-> IF f = n /\ "remove" \in eventFlags THEN 0 ELSE gone[f]]
  /\ notes' = Tail(notes)
  /\ UNCHANGED <<platform, disk, subdir, changes, link, main, running, pc, taken, linux, macos,
                 windows, polling>>

(* Mutant of StopStream: the semaphore is not signalled.                     *)
StopSilently ==
  /\ platform = "macos" /\ main = "stop"
  /\ stream' = IF stream \in {"set", "started"} THEN "released" ELSE stream
  /\ notes' = <<>> /\ main' = "join"
  /\ UNCHANGED <<platform, diskVars, row, link, running, pc, taken, linux, sem, windows, polling>>

(* stop takes the stream away, and signals the semaphore if there is one.    *)
StopStream ==
  /\ platform = "macos"
  /\ \/ /\ main = "stop"
        /\ stream' = IF stream \in {"set", "started"} THEN "released" ELSE stream
        /\ notes' = <<>>
        /\ main' = "signal" /\ UNCHANGED sem
     \/ /\ main = "signal"
        /\ sem' = IF sem >= 0 THEN sem + 1 ELSE sem
        /\ main' = "join" /\ UNCHANGED <<stream, notes>>
  /\ UNCHANGED <<platform, diskVars, row, link, running, pc, taken, linux, windows, polling>>

-----------------------------------------------------------------------------
(* ReadDirectoryChangesWatcher.  The thread opens the directory, publishes the
   handle under handleMutex_ unless it was stopped already ...               *)
OpenDirectory ==
  /\ platform = "windows" /\ pc = "open"
  /\ \/ running /\ hDir' = "open" /\ pc' = "issue" /\ UNCHANGED running
     \/ ~running /\ pc' = "done" /\ UNCHANGED <<hDir, running>>
     \/ pc' = "done" /\ running' = FALSE /\ UNCHANGED hDir          (* it fails *)
  /\ UNCHANGED <<platform, diskVars, row, link, main, kernel, linux, macos, pending, cancel,
                 event, result, polling>>

(* ... and asks for changes, which resets the event and hands the buffer to the
   kernel; the request fails when stop has closed the handle ...             *)
ReadDirectoryChanges ==
  /\ platform = "windows" /\ pc = "issue"
  /\ IF running /\ hDir = "open"
       THEN /\ pending' = pending + 1 /\ event' = FALSE /\ result' = "pending"
            /\ taken' = <<>>
            /\ pc' = "wait"
       ELSE pc' = "end" /\ UNCHANGED <<pending, event, result, taken>>
  /\ UNCHANGED <<platform, diskVars, row, link, main, running, notes, linux, macos, hDir, cancel,
                 polling>>

(* External: a request is completed with the changes noted so far, or with none
   when they did not fit; or it is cancelled, at the latest with the handle.  *)
CompleteRequest ==
  /\ platform = "windows" /\ pending > 0 /\ hDir = "open" /\ notes # <<>>
  /\ pending' = pending - 1 /\ event' = TRUE
  /\ result' = IF notes = <<NoNote>> THEN "nothing" ELSE "data"
  /\ taken' = IF notes = <<NoNote>> THEN <<>> ELSE notes
  /\ notes' = <<>>
  /\ cancel' = (cancel /\ pending' > 0)
  /\ UNCHANGED <<platform, diskVars, row, link, main, running, pc, linux, macos, hDir, polling>>
CancelRequest ==
  /\ platform = "windows" /\ pending > 0 /\ (cancel \/ hDir # "open")
  /\ pending' = pending - 1 /\ event' = TRUE /\ result' = "nothing"
  /\ cancel' = FALSE
  /\ UNCHANGED <<platform, diskVars, row, link, main, running, pc, kernel, linux, macos, hDir,
                 polling>>

(* ... waits for the event for half a second at most ...                     *)
WaitForEvent ==
  /\ platform = "windows" /\ pc = "wait"
  /\ pc' = IF ~running THEN "end" ELSE IF event THEN "result" ELSE "cancel"
  /\ UNCHANGED <<platform, diskVars, row, link, main, running, kernel, linux, macos, windows, polling>>

(* ... and after a timeout asks for the cancellation and goes on at once ... *)
CancelIoEx ==
  /\ platform = "windows" /\ pc = "cancel"
  /\ cancel' = (pending > 0)
  /\ pc' = "issue"
  /\ UNCHANGED <<platform, diskVars, row, link, main, running, kernel, linux, macos, hDir, pending,
                 event, result, polling>>

(* ... otherwise looks at the result, and handles what is in the buffer.     *)
GetOverlappedResult ==
  /\ platform = "windows" /\ pc = "result"
  /\ IF result = "data"
       THEN pc' = "handle" /\ UNCHANGED event
       ELSE pc' = "issue" /\ event' = FALSE
  /\ UNCHANGED <<platform, diskVars, row, link, main, running, kernel, linux, macos, hDir, pending,
                 cancel, result, polling>>
HandleNotification ==
  /\ platform = "windows" /\ pc = "handle"
  /\ IF taken = <<>>
       THEN pc' = "issue" /\ event' = FALSE /\ UNCHANGED <<row, gone, taken>>
       ELSE /\ Report(Head(taken).name, ActionOf(Head(taken).kinds))
            /\ taken' = Tail(taken) /\ UNCHANGED <<pc, event>>
  /\ UNCHANGED <<platform, disk, subdir, changes, link, main, running, notes, linux, macos, hDir,
                 pending, cancel, result, polling>>

(* At the end the thread closes the handle, which stop may have done before. *)
EndLoop ==
  /\ platform = "windows" /\ pc = "end"
  /\ hDir' = IF hDir = "closed" THEN "closed twice" ELSE "closed"
  /\ pc' = "done"
  /\ UNCHANGED <<platform, diskVars, row, link, main, running, kernel, linux, macos, pending,
                 cancel, event, result, polling>>

(* stop closes the handle; its CancelIoEx and SetEvent are for an OVERLAPPED that
   no request uses.                                                         *)
CloseDirectory ==
  /\ platform = "windows" /\ main = "stop"
  /\ hDir' = IF hDir = "open" THEN "closed" ELSE hDir
  /\ main' = "join"
  /\ UNCHANGED <<platform, diskVars, row, link, running, pc, kernel, linux, macos, pending, cancel,
                 event, result, polling>>

-----------------------------------------------------------------------------
(* PollingWatcher.  A scan begins with the entries that there are ...        *)
BeginScan ==
  /\ platform = "other" /\ pc = "sleep"
  /\ IF running
       THEN entries' = {f \in File : Exists(f)} /\ seenFiles' = {} /\ pc' = "scan"
       ELSE pc' = "done" /\ UNCHANGED <<entries, seenFiles>>
  /\ UNCHANGED <<platform, diskVars, row, link, main, running, kernel, linux, macos, windows,
                 knownFiles>>

(* Mutant of VisitEntry: a file that has not changed is not noted as seen.    *)
VisitChanged(f) ==
  /\ platform = "other" /\ pc = "scan" /\ f \in entries
  /\ entries' = entries \ {f}
  /\ seenFiles' = IF knownFiles[f] # disk[f] THEN seenFiles \cup {f} ELSE seenFiles
  /\ knownFiles' = [knownFiles EXCEPT ![f] = disk[f]]
  /\ row' = IF knownFiles[f] # disk[f] THEN Reported(row, f, "modified") ELSE row
  /\ UNCHANGED <<platform, diskVars, link, main, running, pc, kernel, linux, macos, windows>>

(* ... visits them one after the other, and ends early with an exception when
   one has been removed in the meantime ...                                 *)
VisitEntry(f) ==
  /\ platform = "other" /\ pc = "scan" /\ f \in entries
  /\ CASE ~running -> pc' = "done" /\ UNCHANGED <<row, entries, seenFiles, knownFiles>>
       [] running /\ ~Exists(f) -> entries' = {} /\ UNCHANGED <<pc, row, seenFiles, knownFiles>>
       [] OTHER ->
            /\ entries' = entries \ {f} /\ seenFiles' = seenFiles \cup {f}
            /\ knownFiles' = [knownFiles EXCEPT ![f] = disk[f]]
            /\ row' = IF knownFiles[f] # disk[f] THEN Reported(row, f, "modified") ELSE row
            /\ UNCHANGED pc
  /\ UNCHANGED <<platform, diskVars, link, main, running, kernel, linux, macos, windows>>

(* Mutant of EndScan: files that are no longer there stay known.             *)
EndWithoutSweep ==
  /\ platform = "other" /\ pc = "scan" /\ entries = {}
  /\ pc' = "sleep"
  /\ UNCHANGED <<platform, diskVars, row, link, main, running, kernel, linux, macos, windows, polling>>

(* ... after which every known file that was not seen counts as deleted.     *)
EndScan ==
  LET lost == {f \in File : knownFiles[f] # Missing} \ seenFiles IN
  /\ platform = "other" /\ pc = "scan" /\ entries = {}
  /\ knownFiles' = [f \in File |-> IF f \in lost THEN Missing ELSE knownFiles[f]]
  /\ row' = [n \in DOMAIN row |-> IF n \in lost /\ online THEN Missing ELSE row[n]]
  /\ gone' = [f \in File |-> IF f \in lost THEN 0 ELSE gone[f]]
  /\ pc' = "sleep"
  /\ UNCHANGED <<platform, disk, subdir, changes, link, main, running, kernel, linux, macos,
                 windows, seenFiles, entries>>

-----------------------------------------------------------------------------
(* What the other three have in common: start sets the flag and starts the
   thread, stop clears the flag, which it must find set, and joins it, except
   that the thread of the polling watcher is on its own.                     *)
StartThread ==
  /\ platform # "linux" /\ main = "start"
  /\ running' = TRUE /\ main' = "up"
  /\ pc' = CASE platform = "macos" -> "create" [] platform = "windows" -> "open" [] OTHER -> "sleep"
  /\ UNCHANGED <<platform, diskVars, row, link, kernel, linux, macos, windows, polling>>
StopBegins ==
  /\ main \in {"up", "failed"}
  /\ running' = FALSE
  /\ main' = IF running /\ platform # "other" THEN "stop"
             ELSE IF running \/ pc = "none" THEN "stopped" ELSE "abandoned"
  /\ UNCHANGED <<platform, diskVars, row, link, pc, kernel, linux, macos, windows, polling>>

Join ==
  /\ main = "join" /\ pc = "done"
  /\ main' = "stopped"
  /\ UNCHANGED <<platform, diskVars, row, link, running, pc, kernel, linux, macos, windows, polling>>

-----------------------------------------------------------------------------
Init ==
  /\ platform \in Platform
  /\ disk = [f \in File |-> IF f \in Top THEN Whole(0) ELSE Missing] /\ subdir \in BOOLEAN
  /\ row = [n \in File \cup {Dir} |-> IF n \in File THEN disk[n] ELSE <<>>]
  /\ gone = [f \in File |-> 0] /\ changes = 0
  /\ online = TRUE /\ drops = 0
  /\ main = "start" /\ running = FALSE /\ pc = "none"
  /\ notes = <<>> /\ taken = <<>>
  /\ watched = {} /\ fd = "none"
  /\ stream = "none" /\ sem = -1
  /\ hDir = "none" /\ pending = 0 /\ cancel = FALSE /\ event = FALSE /\ result = "none"
  /\ knownFiles = [f \in File |-> Missing] /\ seenFiles = {} /\ entries = {}

Adds(f) == Write(f) \/ MoveIn(f)
Takes(f) == Remove(f) \/ MoveOut(f)
Users == (\E f \in File : Adds(f) \/ Takes(f)) \/ MakeDir \/ RemoveDir

Starts == StartInotify \/ StartHandler \/ StartThread
Stops == CloseInotify \/ StopStream \/ CloseDirectory \/ Join
Thread ==
  \/ PollDescriptor \/ ReadEvents \/ handleEvents
  \/ PublishStream \/ StartStream \/ CreateSemaphore \/ WaitForStop
  \/ OpenDirectory \/ ReadDirectoryChanges \/ WaitForEvent \/ CancelIoEx
  \/ GetOverlappedResult \/ HandleNotification \/ EndLoop
  \/ BeginScan \/ EndScan \/ \E f \in File : VisitEntry(f)
Kernel == callback \/ CompleteRequest \/ CancelRequest
Environment == AnotherOpens \/ LoseConnection \/ RegainConnection

Next == Users \/ Starts \/ StopBegins \/ Stops \/ Thread \/ Kernel \/ Environment

(* The main thread, the watcher's thread and the kernel keep going; a connection
   that was lost is regained.  Nothing is assumed of users.                  *)
Fairness ==
  /\ WF_vars(Starts) /\ WF_vars(Stops) /\ WF_vars(Thread)
  /\ WF_vars(callback) /\ WF_vars(CompleteRequest) /\ WF_vars(CancelRequest)
  /\ WF_vars(RegainConnection)
Spec == Init /\ [][Next]_vars /\ Fairness

-----------------------------------------------------------------------------
(* Users that change files at a good moment: once the watcher is up, while there
   is room for a notification, in a directory that is watched already, on macOS
   not twice within the latency and without renaming, on Windows not between a
   timeout and the next request; elsewhere they do not remove files during a
   scan, or before one has found them.                                       *)
Up ==
  CASE platform = "linux" -> main = "up"
    [] platform = "macos" -> stream = "started"
    [] platform = "windows" -> hDir = "open" /\ result # "none"
    [] OTHER -> TRUE
GoodMoment(n) ==
  /\ Up /\ Len(notes) < MaxNotes
  /\ platform = "linux" => DirOf(n) \in watched
  /\ platform = "macos" => \A i \in DOMAIN notes : notes[i].name # n
  /\ platform = "windows" => pc # "cancel" /\ ~cancel
Found(f) == platform = "other" => pc = "sleep" /\ (knownFiles[f] # Missing \/ row[f] = Missing)
CalmUsers ==
  \/ \E f \in File : GoodMoment(f) /\ (Write(f) \/ (Found(f) /\ Remove(f)))
  \/ \E f \in File : GoodMoment(f) /\ platform # "macos" /\ (MoveIn(f) \/ (Found(f) /\ MoveOut(f)))
  \/ GoodMoment(Dir) /\ (MakeDir \/ RemoveDir)

(* The kernel is quick: it cancels and completes before the thread goes on.  *)
CalmThread ==
  /\ pc = "issue" => ~cancel
  /\ pc = "wait" => event \/ notes = <<>> \/ ~running
  /\ Thread
CalmStop == (platform = "macos" => pc \in {"wait", "done"}) /\ StopBegins

NextCalm == CalmUsers \/ Starts \/ CalmStop \/ Stops \/ CalmThread \/ Kernel
FairnessCalm ==
  /\ WF_vars(Starts) /\ WF_vars(Stops) /\ WF_vars(CalmThread)
  /\ WF_vars(callback) /\ WF_vars(CompleteRequest) /\ WF_vars(CancelRequest)
SpecCalm == Init /\ [][NextCalm]_vars /\ FairnessCalm

-----------------------------------------------------------------------------
TypeOK ==
  /\ disk \in [File -> Seq(Int)] /\ gone \in [File -> Nat] /\ changes \in 0 .. MaxChanges
  /\ row \in [File \cup {Dir} -> Seq(Int)]
  /\ {subdir, online, running, cancel, event} \subseteq BOOLEAN /\ drops \in 0 .. MaxDrops
  /\ \A q \in {notes, taken} : \A i \in DOMAIN q : q[i].name \in File \cup {Dir}
  /\ watched \subseteq {"top", "sub"} /\ fd \in {"none", "inotify", "closed", "other"}
  /\ stream \in {"none", "set", "started", "released"} /\ sem \in -1 .. 1
  /\ hDir \in {"none", "open", "closed", "closed twice"} /\ pending \in Nat
  /\ result \in {"none", "pending", "data", "nothing"}
  /\ seenFiles \subseteq File /\ entries \subseteq File

(* "If files change faster than that, they'll be picked up in the next poll
   cycle" (docs/user/user-manual.md): whatever changes, the coordinator is told
   in the end, as long as the watcher's thread lives.                        *)
CatchesUp == <>[](~running \/ pc = "done" \/ \A f \in File : row[f] = disk[f])

(* Once stop has returned, the thread that uses the callback has ended: main
   goes on to destroy what the callback refers to.                           *)
StoppedMeansEnded == main \in {"stopped", "abandoned"} => main = "stopped" /\ pc \in {"none", "done"}

(* The same where the thread is joined, and has not ended by an error before.  *)
StopJoins == main = "stopped" /\ platform # "other" => pc \in {"none", "done"}

(* stop returns (main.cpp waits for it before the daemon can end), and not before
   the thread has ended where it joins it.                                   *)
StopReturns == (main = "stop" ~> main = "stopped") /\ []StopJoins

(* A file is reported as deleted once for every time it was removed, at most; one
   that is found missing, rather than noted as removed, only if it was removed
   since it was last found missing.                                          *)
DeletionsAreReal ==
  [][\A f \in File : row[f] # Missing /\ row'[f] = Missing => gone[f] > 0]_vars

(* Where removals are noted that holds whatever coincides.                   *)
NotedDeletionsAreReal ==
  [][platform # "other" =>
       \A f \in File : row[f] # Missing /\ row'[f] = Missing => gone[f] > 0]_vars

(* Why: there is no more than one note of a removal for each that was not reported
   yet, in the kernel and in the thread's buffer; on macOS there is one note of a
   file at a time, and one that has been removed if that says so.            *)
Kinds == {"create", "modify", "remove", "moveIn", "moveOut"}
ANote == [name : File \cup {Dir}, kinds : SUBSET Kinds]
Notes == Seq(ANote)
Deletions(q, f) == {i \in DOMAIN q : q[i].name = f /\ ActionOf(q[i].kinds) = "deleted"}
Unreported(f) == Cardinality(Deletions(notes, f)) + Cardinality(Deletions(taken, f))
Merged ==
  /\ \A i, j \in DOMAIN notes : notes[i].name = notes[j].name => i = j
  /\ \A i \in DOMAIN notes :
       "remove" \in notes[i].kinds /\ notes[i].name \in File => gone[notes[i].name] > 0
NotesInv ==
  /\ notes \in Notes /\ taken \in Notes
  /\ gone \in [File -> Nat] /\ DOMAIN row = File \cup {Dir}
  /\ platform = "linux" /\ pc = "handle" => taken # <<>>
  /\ platform \in {"linux", "windows"} => \A f \in File : Unreported(f) <= gone[f]
  /\ platform = "macos" => Merged

(* Why, where a file is found missing: a known file that was not removed is there,
   and a scan that is not disturbed has met it or is still to meet it.        *)
ScanInv ==
  platform = "other" =>
    /\ DOMAIN knownFiles = File /\ entries \subseteq File
    /\ \A f \in File : knownFiles[f] # Missing /\ gone[f] = 0 =>
         Exists(f) /\ (pc = "scan" => f \in entries \cup seenFiles)
    /\ pc = "scan" => \A f \in entries : Exists(f)

(* "Skip directory events (only track regular file changes)" (main.cpp:218). *)
OnlyFilesReported == row[Dir] = <<>>

(* "Cancel pending IO before retrying to avoid UB (re-issuing on same OVERLAPPED)"
   (readdirectorychanges_watcher.cpp:124).                                   *)
OneRequest == pending <= 1

(* The handle of the directory is closed once.                               *)
ClosedOnce == hDir # "closed twice"

(* handleEvents reads from its own descriptor only.                          *)
ReadsOwnEvents == pc # "stolen"
=============================================================================
