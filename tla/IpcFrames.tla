-------------------------------- MODULE IpcFrames --------------------------------
(***************************************************************************)
(* How the IPC thread of the daemon reads: UnixIpcClient::receive and      *)
(* WindowsIpcClient::receive (cpp/src/ipc_client.cpp).  A message is       *)
(* framed by a length in a header of two bytes (four in the code), a byte  *)
(* is a digit (Base of them), and MaxLen stands for 1 MiB.  The bytes of a *)
(* text are larger than the first byte of any length in range, as are      *)
(* those of JSON.  The rest of the daemon is IpcClient.                    *)
(***************************************************************************)
EXTENDS IpcClient, Sequences

CONSTANTS
  System,       (* the systems looked at: "unix", "windows"                    *)
  Base,         (* the number of bytes                                        *)
  MaxLen,       (* the longest message that is received                       *)
  Lengths,      (* the lengths of the messages that the coordinator writes     *)
  MaxFrames     (* bound on their number                                      *)

ASSUME FrameAssumption ==
  /\ System \subseteq {"unix", "windows"}
  /\ Base \in Nat \ {0, 1} /\ MaxLen \in 1 .. Base * Base - 1
  /\ Lengths \subseteq 1 .. Base * Base - 1 /\ MaxFrames \in Nat

VARIABLES
  system,
  stream,       (* the bytes on their way to the daemon                       *)
  header,       (* the bytes of netLen that receive has read                   *)
  body,         (* the bytes of message that receive has read                  *)
  lastTimeout,  (* Windows: the last error of this thread is WSAETIMEDOUT       *)
  written,      (* what the coordinator wrote: the connection and the text      *)
  returned      (* the messages that receive returned                         *)

bytes == <<stream, header, body>>
frameVars == <<system, bytes, lastTimeout, written, returned>>
allVars == <<threadVars, frameVars>>

Text(m, n) == [j \in 1 .. n |-> Base - 1 - (m % 2)]
Frame(text) == <<Len(text) \div Base, Len(text) % Base>> \o text
len == Base * header[1] + header[2]

-----------------------------------------------------------------------------
(* External: the coordinator writes a message, or only its header, or all but a
   byte, before the connection ends or it hangs; the header is a write of its own. *)
Writes(text) ==
  /\ peerOpen /\ isConnected /\ Len(written) < MaxFrames
  /\ written' = Append(written, [fd |-> socketFd, text |-> text])
CoordinatorWrites(n) ==
  LET text == Text(Len(written), n) IN
  /\ Writes(text)
  /\ stream' = stream \o Frame(text)
  /\ UNCHANGED <<threadVars, system, header, body, lastTimeout, returned>>
CoordinatorStops(n) ==
  LET text == Text(Len(written), n) IN
  /\ Writes(text)
  /\ CoordinatorCloses
  /\ \E k \in {2, n + 1} : stream' = stream \o SubSeq(Frame(text), 1, k)
  /\ UNCHANGED <<system, header, body, lastTimeout, returned>>

-----------------------------------------------------------------------------
(* A new connection has no bytes in it.                                      *)
ConnectFresh ==
  /\ connect
  /\ stream' = <<>>
  /\ UNCHANGED <<system, header, body, lastTimeout, written, returned>>

(* receive begins with nothing read.                                         *)
BeginReceive ==
  /\ ReceiveLock
  /\ header' = <<>> /\ body' = <<>>
  /\ UNCHANGED <<system, stream, lastTimeout, written, returned>>

(* The header is read ...                                                    *)
InHeader == ipc = "reading" /\ Len(header) < 2
ReadHeader ==
  /\ InHeader /\ stream # <<>>
  /\ header' = Append(header, Head(stream)) /\ stream' = Tail(stream)
  /\ UNCHANGED <<threadVars, system, body, lastTimeout, written, returned>>

(* ... unless nothing comes within three seconds, which is no error ...      *)
HeaderTimeout ==
  /\ InHeader /\ stream = <<>> /\ peerOpen
  /\ receive
  /\ lastTimeout' = TRUE
  /\ UNCHANGED <<system, bytes, written, returned>>

(* Mutant of HeaderEnd: the end of the connection is taken for a timeout.    *)
HeaderEndIgnored ==
  /\ InHeader /\ stream = <<>> /\ ~peerOpen
  /\ receive
  /\ UNCHANGED frameVars

(* ... or the connection has ended.                                          *)
HeaderEnd ==
  /\ system = "unix"
  /\ InHeader /\ stream = <<>> /\ ~peerOpen
  /\ ReceiveError
  /\ UNCHANGED frameVars

(* On Windows the end, which sets no error, is asked for one all the same, and
   the error of an earlier read may be found.                                *)
HeaderEndWindows ==
  /\ system = "windows"
  /\ InHeader /\ stream = <<>> /\ ~peerOpen
  /\ IF lastTimeout THEN receive ELSE ReceiveError
  /\ UNCHANGED frameVars

(* A length out of range ends receive; what follows it stays in the stream.  *)
RefuseLength ==
  /\ ipc = "reading" /\ Len(header) = 2 /\ len \notin 1 .. MaxLen
  /\ receive
  /\ UNCHANGED frameVars

(* Mutant of ReadBody: a text that ends with the bytes at hand counts as cut off. *)
ReadBodyDrops ==
  /\ ipc = "reading" /\ Len(header) = 2 /\ len \in 1 .. MaxLen /\ stream # <<>>
  /\ body' = Append(body, Head(stream)) /\ stream' = Tail(stream)
  /\ CASE Len(body') < len -> UNCHANGED <<threadVars, returned>>
       [] Len(body') = len /\ stream' = <<>> -> receive /\ UNCHANGED returned
       [] OTHER -> receive /\ returned' = Append(returned, body')
  /\ UNCHANGED <<system, header, lastTimeout, written>>

(* The text is read, and with its last byte receive returns ...              *)
InBody == ipc = "reading" /\ Len(header) = 2 /\ len \in 1 .. MaxLen
ReadBody ==
  /\ InBody /\ stream # <<>>
  /\ body' = Append(body, Head(stream)) /\ stream' = Tail(stream)
  /\ IF Len(body') = len
       THEN receive /\ returned' = Append(returned, body')
       ELSE UNCHANGED <<threadVars, returned>>
  /\ UNCHANGED <<system, header, lastTimeout, written>>

(* Mutant of BodyEnd: the connection is closed without sendMutex_.           *)
BodyEndCloses ==
  /\ InBody /\ stream = <<>>
  /\ receive \/ (/\ socketFd' = 0 /\ recvFd' = 0 /\ recvMutex' = "free" /\ ipc' = "inner"
                 /\ UNCHANGED <<watcher, main, sendMutex, sendFd, opened, g_shutdown, running, env>>)
  /\ UNCHANGED frameVars

(* ... unless the connection ends or nothing comes within three seconds, which
   in the middle of a message is an error.                                   *)
BodyEnd ==
  /\ InBody /\ stream = <<>>
  /\ ReceiveError
  /\ lastTimeout' \in (IF peerOpen THEN {TRUE} ELSE {lastTimeout, TRUE})
  /\ UNCHANGED <<system, bytes, written, returned>>

-----------------------------------------------------------------------------
FrameInit ==
  /\ ClientInit
  /\ system \in System
  /\ stream = <<>> /\ header = <<>> /\ body = <<>>
  /\ lastTimeout = FALSE
  /\ written = <<>> /\ returned = <<>>

Besides(step) == step /\ UNCHANGED frameVars
Reading ==
  \/ ReadHeader \/ HeaderTimeout \/ HeaderEnd \/ HeaderEndWindows \/ RefuseLength
  \/ ReadBody \/ BodyEnd
IpcThread == Besides(IpcOutside \/ disconnectOnError) \/ ConnectFresh \/ BeginReceive \/ Reading
Coordinator ==
  \/ \E n \in Lengths : CoordinatorWrites(n) \/ CoordinatorStops(n)
  \/ Besides(CoordinatorCloses \/ CoordinatorStarts)
FrameNext ==
  \/ IpcThread
  \/ Besides(WatcherStep \/ Change \/ MainStep \/ signal_handler)
  \/ Coordinator

(* The threads run; a mutex is passed on in the end, as the C++ runtime does
   when its holder keeps letting it go.  Nothing is assumed of the user, of the
   files or of the coordinator.                                              *)
Fairness ==
  /\ WF_allVars(IpcThread) /\ WF_allVars(Besides(WatcherStep)) /\ WF_allVars(Besides(MainStep))
  /\ SF_allVars(Besides(ConnectLockSend)) /\ SF_allVars(Besides(SendLock))
  /\ SF_allVars(Besides(disconnectOnError))
FrameSpec == FrameInit /\ [][FrameNext]_allVars /\ Fairness

-----------------------------------------------------------------------------
(* However receive reads, the threads behave as IpcClient says.              *)
FollowsClient == ClientSpec

(* The daemon ends when it is asked to, whatever its threads are doing: the
   opposite lock orders of disconnect and disconnectOnError never meet.      *)
ExitsCleanly == g_shutdown ~> main = "done"

(* A daemon finds its coordinator again, however often the connection ends.  *)
ReconnectsAlways == <>[]up => <>[](isConnected /\ peerOpen) \/ <>g_shutdown

(* The same of the client for Unix, which looks at an error only after one.  *)
Reconnects == system = "unix" => ReconnectsAlways

(* receive returns messages as they were sent, in the order they were sent in,
   each once.                                                               *)
ReceivedAsSent ==
  \E f \in [DOMAIN returned -> DOMAIN written] :
    \A i \in DOMAIN returned : /\ returned[i] = written[f[i]].text
                               /\ \A j \in 1 .. i - 1 : f[j] < f[i]

(* A message that is not too long is received unless its connection is lost:
   what came before it on the connection does not matter.                    *)
Due(m) ==
  /\ m \in DOMAIN written /\ Len(written[m].text) <= MaxLen
  /\ written[m].fd = socketFd /\ ~g_shutdown
  /\ \A i \in DOMAIN returned : returned[i] # written[m].text
EachArrives == \A m \in 1 .. MaxFrames : Due(m) ~> ~Due(m)

(* Nothing is lost, repeated, reordered or made up on a connection that lasts. *)
MessagesArrive == []ReceivedAsSent /\ EachArrives
=============================================================================
