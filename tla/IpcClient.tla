------------------------------- MODULE IpcClient -------------------------------
(***************************************************************************)
(* The daemon's end of the IPC connection and the three threads that share *)
(* it (cpp/src/ipc_client.cpp, class UnixIpcClient, and cpp/src/main.cpp): *)
(* the IPC thread connects and receives, the watcher's thread sends, and   *)
(* the main thread shuts everything down.  connect and disconnect lock     *)
(* sendMutex_ before recvMutex_; receive holds recvMutex_ when it has to   *)
(* lock sendMutex_ after an error.  stateMutex_ is the innermost lock and  *)
(* is never held while waiting: its critical sections are single steps.    *)
(* Descriptors are numbered in the order in which they are opened.         *)
(***************************************************************************)
EXTENDS Naturals

CONSTANT MaxBreaks   (* bound on the connections that the coordinator ends     *)

ASSUME BreaksAssumption == MaxBreaks \in Nat

VARIABLES
  ipc,           (* where the IPC thread is                                   *)
  watcher,       (* where the watcher's thread is                              *)
  main,          (* where the main thread is                                  *)
  sendMutex,     (* the holder of sendMutex_                                  *)
  recvMutex,     (* the holder of recvMutex_                                  *)
  socketFd,      (* socketFd_, 0 for none                                     *)
  sendFd,        (* the copy that send works with                             *)
  recvFd,        (* the copy that receive works with                          *)
  opened,        (* the number of descriptors opened                          *)
  g_shutdown,    (* the signal handler's flag                                 *)
  running,       (* the watcher's flag                                        *)
  up,            (* the coordinator accepts connections                       *)
  peerOpen,      (* the coordinator's end of socketFd is open                 *)
  breaks         (* how often the coordinator's end was closed                 *)

locks == <<sendMutex, recvMutex>>
fds == <<socketFd, sendFd, recvFd, opened>>
env == <<up, peerOpen, breaks>>
threadVars == <<ipc, watcher, main, locks, fds, g_shutdown, running, env>>

isConnected == socketFd > 0

-----------------------------------------------------------------------------
(* The IPC thread: its outer loop ...                                        *)
IpcTop ==
  /\ ipc = "top"
  /\ ipc' = IF g_shutdown THEN "done" ELSE IF isConnected THEN "inner" ELSE "connect"
  /\ UNCHANGED <<watcher, main, locks, fds, g_shutdown, running, env>>

(* ... connect, which takes the locks one after the other ...                *)
ConnectLockSend ==
  /\ ipc = "connect" /\ sendMutex = "free"
  /\ sendMutex' = "ipc" /\ ipc' = "connecting"
  /\ UNCHANGED <<watcher, main, recvMutex, fds, g_shutdown, running, env>>
connect ==
  /\ ipc = "connecting" /\ recvMutex = "free"
  /\ sendMutex' = "free"
  /\ \/ /\ up
        /\ opened' = opened + 1 /\ socketFd' = opened + 1 /\ peerOpen' = TRUE
        /\ ipc' = "inner"
     \/ /\ ~up
        /\ socketFd' = 0
        /\ ipc' = "top"
        /\ UNCHANGED <<opened, peerOpen>>
  /\ UNCHANGED <<watcher, main, recvMutex, sendFd, recvFd, g_shutdown, running, up, breaks>>

(* ... the inner loop, with the beginning of receive ...                     *)
IpcInner ==
  /\ ipc = "inner"
  /\ ipc' = IF isConnected /\ ~g_shutdown THEN "receive" ELSE "top"
  /\ UNCHANGED <<watcher, main, locks, fds, g_shutdown, running, env>>
ReceiveLock ==
  /\ ipc = "receive" /\ recvMutex = "free"
  /\ IF isConnected
       THEN recvMutex' = "ipc" /\ recvFd' = socketFd /\ ipc' = "reading"
       ELSE ipc' = "inner" /\ UNCHANGED <<recvMutex, recvFd>>
  /\ UNCHANGED <<watcher, main, sendMutex, socketFd, sendFd, opened, g_shutdown, running, env>>

(* ... which returns with a message or without one, or finds the connection
   ended or a message unfinished (the module IpcFrames says when) ...         *)
receive ==
  /\ ipc = "reading"
  /\ recvMutex' = "free" /\ ipc' = "inner" /\ recvFd' = 0
  /\ UNCHANGED <<watcher, main, sendMutex, socketFd, sendFd, opened, g_shutdown, running, env>>
ReceiveError ==
  /\ ipc = "reading"
  /\ ipc' = "error"
  /\ UNCHANGED <<watcher, main, locks, fds, g_shutdown, running, env>>

(* Mutant of disconnectOnError: it does not wait for the sender.             *)
DisconnectUnlocked ==
  /\ ipc = "error"
  /\ socketFd' = 0 /\ recvFd' = 0
  /\ recvMutex' = "free" /\ ipc' = "inner"
  /\ UNCHANGED <<watcher, main, sendMutex, sendFd, opened, g_shutdown, running, env>>

(* ... after which the descriptor is closed, with both locks held.           *)
disconnectOnError ==
  /\ ipc = "error" /\ sendMutex = "free"
  /\ socketFd' = 0 /\ recvFd' = 0
  /\ recvMutex' = "free" /\ ipc' = "inner"
  /\ UNCHANGED <<watcher, main, sendMutex, sendFd, opened, g_shutdown, running, env>>

IpcOutside == IpcTop \/ ConnectLockSend \/ IpcInner
IpcStep == IpcOutside \/ connect \/ ReceiveLock \/ receive \/ ReceiveError \/ disconnectOnError

-----------------------------------------------------------------------------
(* The watcher's thread: a change to report, if the client is connected ...  *)
Change ==
  /\ watcher = "run" /\ running
  /\ isConnected
  /\ watcher' = "send"
  /\ UNCHANGED <<ipc, main, locks, fds, g_shutdown, running, env>>
WatcherEnds ==
  /\ watcher = "run" /\ ~running
  /\ watcher' = "done"
  /\ UNCHANGED <<ipc, main, locks, fds, g_shutdown, running, env>>

(* ... send copies the descriptor under the lock ...                         *)
SendLock ==
  /\ watcher = "send" /\ sendMutex = "free"
  /\ IF isConnected
       THEN sendMutex' = "watcher" /\ sendFd' = socketFd /\ watcher' = "writing"
       ELSE watcher' = "run" /\ UNCHANGED <<sendMutex, sendFd>>
  /\ UNCHANGED <<ipc, main, recvMutex, socketFd, recvFd, opened, g_shutdown, running, env>>

(* ... and writes; a failure is logged and the connection left as it is.     *)
send ==
  /\ watcher = "writing"
  /\ sendMutex' = "free" /\ sendFd' = 0 /\ watcher' = "run"
  /\ UNCHANGED <<ipc, main, recvMutex, socketFd, recvFd, opened, g_shutdown, running, env>>

WatcherStep == WatcherEnds \/ SendLock \/ send

-----------------------------------------------------------------------------
(* The main thread: it waits for the flag, stops the watcher ...             *)
StopWatcher ==
  /\ main = "wait" /\ g_shutdown
  /\ running' = FALSE /\ main' = "joinWatcher"
  /\ UNCHANGED <<ipc, watcher, locks, fds, g_shutdown, env>>
JoinWatcher ==
  /\ main = "joinWatcher" /\ watcher = "done"
  /\ main' = "joinIpc"
  /\ UNCHANGED <<ipc, watcher, locks, fds, g_shutdown, running, env>>

(* Mutant of JoinIpc: the client is disconnected before the thread has ended. *)
JoinNothing ==
  /\ main = "joinIpc"
  /\ main' = "disconnect"
  /\ UNCHANGED <<ipc, watcher, locks, fds, g_shutdown, running, env>>

(* ... waits for the IPC thread ...                                          *)
JoinIpc ==
  /\ main = "joinIpc" /\ ipc = "done"
  /\ main' = "disconnect"
  /\ UNCHANGED <<ipc, watcher, locks, fds, g_shutdown, running, env>>

(* ... and disconnects, taking the locks one after the other.                *)
DisconnectLockSend ==
  /\ main = "disconnect" /\ sendMutex = "free"
  /\ sendMutex' = "main" /\ main' = "disconnecting"
  /\ UNCHANGED <<ipc, watcher, recvMutex, fds, g_shutdown, running, env>>
disconnect ==
  /\ main = "disconnecting" /\ recvMutex = "free"
  /\ sendMutex' = "free" /\ socketFd' = 0 /\ main' = "done"
  /\ UNCHANGED <<ipc, watcher, recvMutex, sendFd, recvFd, opened, g_shutdown, running, env>>

MainStep == StopWatcher \/ JoinWatcher \/ JoinIpc \/ DisconnectLockSend \/ disconnect

signal_handler ==
  /\ ~g_shutdown
  /\ g_shutdown' = TRUE
  /\ UNCHANGED <<ipc, watcher, main, locks, fds, running, env>>

-----------------------------------------------------------------------------
(* External, the coordinator: it closes a connection or writes no more to it,
   goes down or comes up.                                                    *)
CoordinatorCloses ==
  /\ peerOpen /\ breaks < MaxBreaks
  /\ peerOpen' = FALSE /\ breaks' = breaks + 1
  /\ up' \in {TRUE, FALSE}
  /\ UNCHANGED <<ipc, watcher, main, locks, fds, g_shutdown, running>>
CoordinatorStarts ==
  /\ ~up
  /\ up' = TRUE
  /\ UNCHANGED <<ipc, watcher, main, locks, fds, g_shutdown, running, peerOpen, breaks>>

ClientInit ==
  /\ ipc = "top" /\ watcher = "run" /\ main = "wait"
  /\ sendMutex = "free" /\ recvMutex = "free"
  /\ socketFd = 0 /\ sendFd = 0 /\ recvFd = 0 /\ opened = 0
  /\ g_shutdown = FALSE /\ running = TRUE
  /\ up \in BOOLEAN /\ peerOpen = FALSE /\ breaks = 0

ClientNext ==
  \/ IpcStep \/ WatcherStep \/ Change \/ MainStep \/ signal_handler
  \/ CoordinatorCloses \/ CoordinatorStarts

ClientSpec == ClientInit /\ [][ClientNext]_threadVars

-----------------------------------------------------------------------------
(* A thread is where it can be, the locks have the holders that the threads'
   places imply, and descriptors are numbers of connections.                 *)
ClientTypeOK ==
  /\ ipc \in {"top", "connect", "connecting", "inner", "receive", "reading", "error", "done"}
  /\ watcher \in {"run", "send", "writing", "done"}
  /\ main \in {"wait", "joinWatcher", "joinIpc", "disconnect", "disconnecting", "done"}
  /\ sendMutex \in {"free", "ipc", "watcher", "main"} /\ recvMutex \in {"free", "ipc"}
  /\ ipc = "connecting" <=> sendMutex = "ipc"
  /\ watcher = "writing" <=> sendMutex = "watcher"
  /\ main = "disconnecting" <=> sendMutex = "main"
  /\ ipc \in {"reading", "error"} <=> recvMutex = "ipc"
  /\ opened \in Nat
  /\ socketFd \in 0 .. opened /\ sendFd \in 0 .. opened /\ recvFd \in 0 .. opened
  /\ g_shutdown \in BOOLEAN /\ running \in BOOLEAN
  /\ up \in BOOLEAN /\ peerOpen \in BOOLEAN /\ breaks \in 0 .. MaxBreaks

(* send and receive work with a descriptor that no other thread has closed, or
   opened anew, since they copied it: they let stateMutex_ go before they use it. *)
NoStaleDescriptor ==
  /\ watcher = "writing" => sendFd = socketFd
  /\ ipc \in {"reading", "error"} => recvFd = socketFd
=============================================================================
