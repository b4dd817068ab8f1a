------------------------------- MODULE IpcServer -------------------------------
(***************************************************************************)
(* The messages of the coordinator to its local clients, the daemons and   *)
(* the user interface (pkg/ipc/ipc_server.go).  SendMessage caches what is *)
(* state, and queues the message; a loop starts a goroutine per message    *)
(* and client; a client that connects is sent the cached messages; Stop    *)
(* closes the queue.  Messages are numbered as they are made.              *)
(***************************************************************************)
EXTENDS Naturals, Sequences, Functions, FiniteSets

CONSTANTS
  Client,      (* clients; each connects once                                *)
  Sender,      (* goroutines that call SendMessage                            *)
  StateType,   (* the types of messages that are cached                       *)
  Command,     (* the type of all others                                     *)
  Capacity,    (* of the channel ToC                                         *)
  MaxMessages  (* bound on the messages                                      *)

ASSUME IpcAssumption ==
  /\ Command \notin StateType
  /\ Capacity \in Nat \ {0} /\ MaxMessages \in Nat

VARIABLES
  made,            (* how many messages have been made                        *)
  sending,         (* sending[s]: where s is in SendMessage, and its message   *)
  rlocks,          (* the senders that hold stopMu for reading                *)
  stopped,         (* Stop was called: ToC is closed                          *)
  loop,            (* handleOutgoingMessages runs                             *)
  ToC,             (* the queue of messages                                  *)
  latestMessages,  (* the last message of each state type                     *)
  clients,         (* the clients that are registered                         *)
  joined,          (* the clients that have connected at some time            *)
  replays,         (* the clients that have to be sent the cached messages     *)
  writers,         (* goroutines about to write a message to a client          *)
  received,        (* what each client has received                           *)
  full             (* history: a message was dropped because the queue was full *)

sendVars == <<made, sending, rlocks>>
clientVars == <<clients, joined, replays>>
vars == <<sendVars, stopped, loop, ToC, latestMessages, clientVars, writers, received, full>>

-----------------------------------------------------------------------------
NoMessage == [n |-> 0, type |-> Command]
Idle == [at |-> "idle", msg |-> NoMessage]
At(s, where) == sending[s].at = where
GoTo(s, where) == sending' = [sending EXCEPT ![s].at = where]

(* SendMessage caches a state message ...                                    *)
CacheState(s, type) ==
  LET m == [n |-> made + 1, type |-> type] IN
  /\ At(s, "idle") /\ made < MaxMessages
  /\ made' = made + 1
  /\ sending' = [sending EXCEPT ![s] = [at |-> "cached", msg |-> m]]
  /\ latestMessages' = IF type \in StateType
                         THEN [latestMessages EXCEPT ![type] = m]
                         ELSE latestMessages
  /\ UNCHANGED <<rlocks, stopped, loop, ToC, clientVars, writers, received, full>>

(* Mutant of CheckStopped: the lock is not kept.                             *)
CheckUnlocked(s) ==
  /\ At(s, "cached")
  /\ IF stopped THEN sending' = [sending EXCEPT ![s] = Idle] ELSE GoTo(s, "checked")
  /\ UNCHANGED <<made, rlocks, stopped, loop, ToC, latestMessages, clientVars, writers, received, full>>

(* ... returns if the server was stopped ...                                 *)
CheckStopped(s) ==
  /\ At(s, "cached")
  /\ \/ /\ stopped
        /\ sending' = [sending EXCEPT ![s] = Idle]
        /\ UNCHANGED rlocks
     \/ /\ ~stopped
        /\ GoTo(s, "checked")
        /\ rlocks' = rlocks \cup {s}
  /\ UNCHANGED <<made, stopped, loop, ToC, latestMessages, clientVars, writers, received, full>>

(* ... and queues the message, or drops it when the queue is full.           *)
Enqueue(s) ==
  /\ At(s, "checked")
  /\ sending' = [sending EXCEPT ![s] = Idle]
  /\ rlocks' = rlocks \ {s}
  /\ \/ Len(ToC) < Capacity /\ ToC' = Append(ToC, sending[s].msg) /\ UNCHANGED full
     \/ Len(ToC) = Capacity /\ full' = TRUE /\ UNCHANGED ToC
  /\ UNCHANGED <<made, stopped, loop, latestMessages, clientVars, writers, received>>

-----------------------------------------------------------------------------
(* The outgoing loop: one goroutine for each client that is registered.      *)
handleOutgoingMessages ==
  /\ loop
  /\ \/ /\ stopped
        /\ loop' = FALSE
        /\ UNCHANGED <<ToC, writers>>
     \/ /\ ToC # <<>>
        /\ ToC' = Tail(ToC)
        /\ writers' = writers \cup {[to |-> c, msg |-> Head(ToC), replay |-> FALSE] : c \in clients}
        /\ UNCHANGED loop
  /\ UNCHANGED <<sendVars, stopped, latestMessages, clientVars, received, full>>

(* WriteMessage, under the mutex of the client; the error is ignored.        *)
Write(w) ==
  /\ writers' = writers \ {w}
  /\ received' = IF w.to \in clients
                   THEN [received EXCEPT ![w.to] = Append(@, w.msg)]
                   ELSE received
  /\ UNCHANGED <<sendVars, stopped, loop, ToC, latestMessages, clientVars, full>>

acceptConnections(c) ==
  /\ ~stopped
  /\ c \notin joined
  /\ clients' = clients \cup {c} /\ joined' = joined \cup {c}
  /\ replays' = replays \cup {c}
  /\ UNCHANGED <<sendVars, stopped, loop, ToC, latestMessages, writers, received, full>>

(* Mutant of replayStateMessages: it ends after the first message.           *)
ReplayOne(c) ==
  /\ c \in replays
  /\ replays' = replays \ {c}
  /\ IF c \notin clients \/ \A t \in StateType : latestMessages[t] = NoMessage
       THEN UNCHANGED writers
       ELSE \E t \in {u \in StateType : latestMessages[u] # NoMessage} :
              writers' = writers \cup {[to |-> c, msg |-> latestMessages[t], replay |-> TRUE]}
  /\ UNCHANGED <<sendVars, stopped, loop, ToC, latestMessages, clients, joined, received, full>>

(* The cached messages are read, and written as the others are.              *)
replayStateMessages(c) ==
  /\ c \in replays
  /\ replays' = replays \ {c}
  /\ writers' = IF c \notin clients THEN writers ELSE writers \cup
       {[to |-> c, msg |-> m, replay |-> TRUE] : m \in Range(latestMessages) \ {NoMessage}}
  /\ UNCHANGED <<sendVars, stopped, loop, ToC, latestMessages, clients, joined, received, full>>

(* The end of handleClient: the client has gone.                             *)
handleClient(c) ==
  /\ c \in clients
  /\ clients' = clients \ {c}
  /\ UNCHANGED <<sendVars, stopped, loop, ToC, latestMessages, joined, replays, writers, received, full>>

(* Stop waits for stopMu, closes the queue and the clients' connections.     *)
Stop ==
  /\ ~stopped /\ rlocks = {}
  /\ stopped' = TRUE
  /\ clients' = {}
  /\ UNCHANGED <<sendVars, loop, ToC, latestMessages, joined, replays, writers, received, full>>

-----------------------------------------------------------------------------
Init ==
  /\ made = 0 /\ sending = [s \in Sender |-> Idle] /\ rlocks = {}
  /\ stopped = FALSE /\ loop = TRUE
  /\ ToC = <<>> /\ latestMessages = [t \in StateType |-> NoMessage]
  /\ clients = {} /\ joined = {} /\ replays = {}
  /\ writers = {} /\ received = [c \in Client |-> <<>>]
  /\ full = FALSE

SendMessage(s) ==
  (\E type \in StateType \cup {Command} : CacheState(s, type)) \/ CheckStopped(s) \/ Enqueue(s)

Next ==
  \/ \E s \in Sender : SendMessage(s)
  \/ handleOutgoingMessages \/ Stop
  \/ \E w \in writers : Write(w)
  \/ \E c \in Client : acceptConnections(c) \/ replayStateMessages(c) \/ handleClient(c)
Spec == Init /\ [][Next]_vars

-----------------------------------------------------------------------------
Message == [n : 0 .. MaxMessages, type : StateType \cup {Command}]
TypeOK ==
  /\ made \in 0 .. MaxMessages
  /\ sending \in [Sender -> [at : {"idle", "cached", "checked"}, msg : Message]]
  /\ rlocks \subseteq Sender
  /\ ToC \in Seq(Message) /\ Len(ToC) <= Capacity
  /\ latestMessages \in [StateType -> Message]
  /\ clients \subseteq joined /\ joined \subseteq Client /\ replays \subseteq joined
  /\ writers \subseteq [to : Client, msg : Message, replay : BOOLEAN]
  /\ received \in [Client -> Seq(Message)]

(* "Protects against send-on-closed-channel during shutdown" (ipc_server.go:34):
   nobody sends on the queue after Stop has closed it.                       *)
NoSendOnClosed == stopped => \A s \in Sender : ~At(s, "checked")

(* What a client that is connected has not received yet.                     *)
Delivered ==
  /\ \A s \in Sender : At(s, "idle")
  /\ ToC = <<>> /\ writers = {} /\ replays = {}

(* A client gets the latest state however its connection races with a state
   message: through the queue, or from the cache, unless the queue overflowed.  *)
NothingMissed ==
  Delivered /\ ~full =>
    \A c \in clients : \A m \in Range(latestMessages) \ {NoMessage} : m \in Range(received[c])

(* A command, such as the deletion of a file, reaches a client at most once:
   only state is repeated.                                                  *)
CommandsOnce == \A c \in Client : \A i, j \in DOMAIN received[c] :
  received[c][i] = received[c][j] /\ i # j => received[c][i].type \in StateType

(* Every client gets what it needs, however late it connects, and no command
   twice: replayStateMessages repeats the state and nothing else.           *)
ClientsServed == NothingMissed /\ CommandsOnce

(* Why they hold.  The senders at the queue are those with the lock, so that
   Stop, which waits for the lock, finds none there.                          *)
LockHeld ==
  /\ rlocks = {s \in Sender : At(s, "checked")}
  /\ stopped => rlocks = {} /\ clients = {}

(* The latest state is with every client or on its way there, at the latest when
   the client is sent the cache.                                            *)
ToSend == {sending[s].msg : s \in {u \in Sender : ~At(u, "idle")}}
OnItsWay(m, c) ==
  \/ c \in replays \/ m \in ToSend \cup Range(ToC)
  \/ (\E w \in writers : w.to = c /\ w.msg = m) \/ m \in Range(received[c])
StateOnItsWay ==
  ~full => \A c \in clients, t \in StateType :
    latestMessages[t] # NoMessage => OnItsWay(latestMessages[t], c)

(* A message is in one place at a time: with its sender, in the queue, or with the
   goroutines and clients, where a command has not been received by a client
   that it is still to be written to.                                       *)
Numbered(m) == m.n \in 1 .. made
AllNumbered ==
  /\ \A m \in ToSend \cup Range(ToC) : Numbered(m)
  /\ \A t \in StateType : latestMessages[t] # NoMessage =>
       latestMessages[t].type = t /\ Numbered(latestMessages[t])
  /\ \A w \in writers : Numbered(w.msg)
  /\ \A c \in Client : \A m \in Range(received[c]) : Numbered(m)
OnePlace ==
  /\ \A s, u \in Sender : ~At(s, "idle") /\ ~At(u, "idle") /\ sending[s].msg = sending[u].msg => s = u
  /\ \A i, j \in DOMAIN ToC : ToC[i] = ToC[j] => i = j
  /\ ToSend \cap Range(ToC) = {}
  /\ \A w \in writers : w.msg.type = Command =>
       /\ ~w.replay /\ w.msg \notin ToSend \cup Range(ToC)
       /\ w.msg \notin Range(received[w.to])
  /\ \A c \in Client : \A m \in Range(received[c]) :
       m.type = Command => m \notin ToSend \cup Range(ToC)

ServerInv == TypeOK /\ LockHeld /\ StateOnItsWay /\ AllNumbered /\ OnePlace /\ CommandsOnce

(* What a client was told last is the latest state: "Buffer the latest state
   messages to replay to late-connecting clients" (ipc_server.go:40).        *)
LastIsLatest ==
  Delivered /\ ~full => \A c \in clients, t \in StateType : \A i \in DOMAIN received[c] :
    /\ received[c][i].type = t
    /\ \A j \in DOMAIN received[c] : received[c][j].type = t => j <= i
    => received[c][i] = latestMessages[t]
=============================================================================
