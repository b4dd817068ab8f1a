--------------------------- MODULE ConnectionManager ---------------------------
(***************************************************************************)
(* The TCP connections between peers (pkg/network/connection_manager.go):  *)
(* dialling with a handshake, the registration of a connection at both     *)
(* ends, the read loops, heartbeats, reconnection and Stop.                *)
(*                                                                         *)
(* The two ends of a connection are registered separately, so they may     *)
(* disagree.  Delays (heartbeat, backoff) are left out: a timer may fire   *)
(* whenever what it waits for is the case.                                 *)
(***************************************************************************)
EXTENDS Naturals, FiniteSets

CONSTANTS
  Peer,       (* peers                                                      *)
  MaxConns,   (* bound on the TCP connections, over time or at a time         *)
  Plans       (* what may happen in a behaviour, as records                   *)

(* discovered: pairs of peers of which the first has discovered the other;
   breaks, stops: bounds on the connections that break silently and on the
   peers that stop; reuse: whether the numbers of forgotten connections are
   used again; prompt: whether dialling and closing are quick.               *)
ASSUME ConnectionAssumption ==
  /\ \E p, q \in Peer : p # q
  /\ MaxConns \in Nat
  /\ Plans \subseteq [discovered : SUBSET {e \in Peer \X Peer : e[1] # e[2]},
                      breaks : Nat, stops : Nat, reuse : BOOLEAN, prompt : BOOLEAN]

Conn == 1 .. MaxConns
None == 0

VARIABLES
  plan,         (* the plan of this behaviour                                *)
  running,      (* running[p]: p's server runs                               *)
  stage,        (* stage[c]: how far the dial and handshake of c have come    *)
  ends,         (* ends[c]: the peer that dialled and the one that accepted   *)
  entering,     (* ends of connections shaken hands on but not registered yet *)
  closed,       (* ends of connections that were closed: <<peer, connection>> *)
  broken,       (* connections that no longer carry anything                 *)
  connections,  (* connections[p][q]: p's connection to q                     *)
  lastSeen,     (* lastSeen[p][q]: whether p has an entry for q, and its age   *)
  readers,      (* read loops: peer, connection, whether a message is at hand *)
  dropping,     (* CloseConnection calls decided on and not made yet          *)
  spent         (* how much of each bound is used                            *)

connVars == <<stage, ends, entering, closed, broken>>
mapVars == <<connections, lastSeen, readers>>
vars == <<plan, running, connVars, mapVars, dropping, spent>>

-----------------------------------------------------------------------------
Other(p, c) == IF ends[c][1] = p THEN ends[c][2] ELSE ends[c][1]
ClosedBy(p, c) == <<p, c>> \in closed
Alive(c) == c \notin broken /\ \A p \in Peer : ~ClosedBy(p, c)

(* What p notices of c: its own Close, and the other's when c still works.    *)
Ended(p, c) == ClosedBy(p, c) \/ (c \notin broken /\ ClosedBy(Other(p, c), c))

Reading(p, c) == \E r \in readers : r.at = p /\ r.conn = c
Free(c) ==
  /\ stage[c] \in IF plan.reuse THEN {"none", "done"} ELSE {"none"}
  /\ \A p, q \in Peer : connections[p][q] # c
  /\ \A r \in readers : r.conn # c
  /\ \A e \in entering : e[2] # c

Set(f, p, q, x) == [f EXCEPT ![p][q] = x]
Spend(what) == spent' = [spent EXCEPT ![what] = @ + 1]

(* c becomes p's connection to q, an older one is closed.                    *)
Register(p, q, c) ==
  /\ closed' = closed \cup {<<p, x>> : x \in {connections[p][q]} \ {None}}
  /\ connections' = Set(connections, p, q, c)
  /\ lastSeen' = Set(lastSeen, p, q, "recent")
  /\ readers' = readers \cup {[at |-> p, conn |-> c, got |-> FALSE]}

(* p's connection to q is closed and forgotten.                              *)
Unregister(p, q) ==
  /\ closed' = closed \cup {<<p, connections[p][q]>>}
  /\ connections' = Set(connections, p, q, None)
  /\ lastSeen' = Set(lastSeen, p, q, "none")

-----------------------------------------------------------------------------
(* Dialling.                                                                *)

(* Connect is called for a discovered peer, or by the reconnection loop.      *)
Connect(p, q, c) ==
  /\ running[p] /\ <<p, q>> \in plan.discovered
  /\ connections[p][q] = None
  /\ Free(c)
  /\ stage' = [stage EXCEPT ![c] = "dialing"]
  /\ ends' = [ends EXCEPT ![c] = <<p, q>>]
  /\ closed' = {e \in closed : e[2] # c}
  /\ broken' = broken \ {c}
  /\ UNCHANGED <<running, entering, mapVars, dropping, spent>>

(* The dial succeeds if somebody listens, and the handshake is sent.          *)
Dial(c) ==
  /\ stage[c] = "dialing"
  /\ stage' = [stage EXCEPT ![c] = IF running[ends[c][2]] THEN "asked" ELSE "none"]
  /\ UNCHANGED <<running, ends, entering, closed, broken, mapVars, dropping, spent>>

(* The acceptor answers the handshake; from then on each end registers the
   connection in its own time.                                              *)
handleIncomingConnection(c) ==
  /\ stage[c] = "asked" /\ c \notin broken
  /\ stage' = [stage EXCEPT ![c] = "done"]
  /\ entering' = entering \cup {<<ends[c][1], c>>, <<ends[c][2], c>>}
  /\ UNCHANGED <<running, ends, closed, broken, mapVars, dropping, spent>>

(* Mutant of RegisterEnd: the older connection is not closed.                *)
RegisterOver(p, c) ==
  /\ <<p, c>> \in entering
  /\ entering' = entering \ {<<p, c>>}
  /\ connections' = Set(connections, p, Other(p, c), c)
  /\ lastSeen' = Set(lastSeen, p, Other(p, c), "recent")
  /\ readers' = readers \cup {[at |-> p, conn |-> c, got |-> FALSE]}
  /\ UNCHANGED <<running, stage, ends, closed, broken, dropping, spent>>

(* The end of p is registered.                                               *)
RegisterEnd(p, c) ==
  /\ <<p, c>> \in entering
  /\ entering' = entering \ {<<p, c>>}
  /\ Register(p, Other(p, c), c)
  /\ UNCHANGED <<running, stage, ends, broken, dropping, spent>>

(* A handshake on a broken connection fails: at both ends, or only where the
   answer is awaited.                                                       *)
GiveUp(c) ==
  /\ c \in broken
  /\ \/ /\ stage[c] = "asked"
        /\ stage' = [stage EXCEPT ![c] = "done"]
        /\ closed' = closed \cup {<<ends[c][1], c>>, <<ends[c][2], c>>}
        /\ UNCHANGED entering
     \/ /\ <<ends[c][1], c>> \in entering
        /\ entering' = entering \ {<<ends[c][1], c>>}
        /\ closed' = closed \cup {<<ends[c][1], c>>}
        /\ UNCHANGED stage
  /\ UNCHANGED <<running, ends, broken, mapVars, dropping, spent>>

-----------------------------------------------------------------------------
(* The read loop of p for a connection: a message arrives ...                *)
Receive(r) ==
  /\ ~r.got /\ Alive(r.conn)
  /\ readers' = (readers \ {r}) \cup {[r EXCEPT !.got = TRUE]}
  /\ UNCHANGED <<running, connVars, connections, lastSeen, dropping, spent>>

(* ... and is noted, though the connection may be gone by now.               *)
NoteActivity(r) ==
  /\ r.got
  /\ readers' = (readers \ {r}) \cup {[r EXCEPT !.got = FALSE]}
  /\ lastSeen' = Set(lastSeen, r.at, Other(r.at, r.conn), "recent")
  /\ UNCHANGED <<running, connVars, connections, dropping, spent>>

(* Mutant of closeConnectionIfMatch: it closes whatever is stored.           *)
CloseWithoutMatch(r) ==
  LET q == Other(r.at, r.conn) IN
  /\ ~r.got /\ Ended(r.at, r.conn)
  /\ readers' = readers \ {r}
  /\ IF connections[r.at][q] # None
       THEN Unregister(r.at, q)
       ELSE UNCHANGED <<closed, connections, lastSeen>>
  /\ UNCHANGED <<running, stage, ends, entering, broken, dropping, spent>>

(* The loop ends with its connection, which it forgets unless another one has
   taken its place.                                                         *)
closeConnectionIfMatch(r) ==
  LET q == Other(r.at, r.conn) IN
  /\ ~r.got /\ Ended(r.at, r.conn)
  /\ readers' = readers \ {r}
  /\ IF connections[r.at][q] = r.conn
       THEN Unregister(r.at, q)
       ELSE UNCHANGED <<closed, connections, lastSeen>>
  /\ UNCHANGED <<running, stage, ends, entering, broken, dropping, spent>>

-----------------------------------------------------------------------------
(* Heartbeats and failing writes: both decide to close the connection to q,
   and do so later, whatever the connection to q is by then.                 *)

(* Nothing has been heard of q for a while.                                  *)
Silence(p, q) ==
  /\ lastSeen[p][q] = "recent"
  /\ connections[p][q] \in broken \cup {None}
  /\ lastSeen' = Set(lastSeen, p, q, "old")
  /\ UNCHANGED <<running, connVars, connections, readers, dropping, spent>>

(* Mutant of checkHeartbeats: it only clears peers that are not connected.   *)
HeartbeatSpares(p, q) ==
  /\ running[p] /\ lastSeen[p][q] = "old" /\ connections[p][q] = None
  /\ dropping' = dropping \cup {<<p, q>>}
  /\ UNCHANGED <<running, connVars, mapVars, spent>>

checkHeartbeats(p, q) ==
  /\ running[p] /\ lastSeen[p][q] = "old"
  /\ dropping' = dropping \cup {<<p, q>>}
  /\ UNCHANGED <<running, connVars, mapVars, spent>>

(* A ping or a broadcast cannot be written.                                  *)
SendFails(p, q) ==
  /\ connections[p][q] # None /\ ~Alive(connections[p][q])
  /\ dropping' = dropping \cup {<<p, q>>}
  /\ UNCHANGED <<running, connVars, mapVars, spent>>

CloseConnection(p, q) ==
  /\ <<p, q>> \in dropping
  /\ dropping' = dropping \ {<<p, q>>}
  /\ IF connections[p][q] # None
       THEN Unregister(p, q)
       ELSE UNCHANGED <<closed, connections, lastSeen>>
  /\ UNCHANGED <<running, stage, ends, entering, broken, readers, spent>>

-----------------------------------------------------------------------------
(* A connection breaks: neither end is told.                                 *)
Break(c) ==
  /\ spent.breaks < plan.breaks
  /\ Alive(c) /\ stage[c] \in {"asked", "done"}
  /\ Spend("breaks")
  /\ broken' = broken \cup {c}
  /\ UNCHANGED <<running, stage, ends, entering, closed, mapVars, dropping>>

Stop(p) ==
  /\ running[p]
  /\ spent.stops < plan.stops
  /\ Spend("stops")
  /\ running' = [running EXCEPT ![p] = FALSE]
  /\ closed' = closed \cup {<<p, connections[p][q]>> : q \in {x \in Peer : connections[p][x] # None}}
  /\ connections' = [connections EXCEPT ![p] = [q \in Peer |-> None]]
  /\ UNCHANGED <<stage, ends, entering, broken, lastSeen, readers, dropping>>

-----------------------------------------------------------------------------
Init ==
  /\ plan \in Plans
  /\ running = [p \in Peer |-> TRUE]
  /\ stage = [c \in Conn |-> "none"]
  /\ ends = [c \in Conn |-> CHOOSE e \in Peer \X Peer : e[1] # e[2]]
  /\ entering = {} /\ closed = {} /\ broken = {}
  /\ connections = [p \in Peer |-> [q \in Peer |-> None]]
  /\ lastSeen = [p \in Peer |-> [q \in Peer |-> "none"]]
  /\ readers = {} /\ dropping = {}
  /\ spent = [breaks |-> 0, stops |-> 0]

Dials(p) == \E q \in Peer, c \in Conn : Connect(p, q, c)

Handshake(c) ==
  \/ Dial(c) \/ handleIncomingConnection(c) \/ GiveUp(c)
  \/ \E p \in Peer : RegisterEnd(p, c)

ReadLoop(r) == Receive(r) \/ NoteActivity(r) \/ closeConnectionIfMatch(r)

Decide == \E p, q \in Peer : checkHeartbeats(p, q) \/ SendFails(p, q)

System ==
  \/ \E c \in Conn : Handshake(c)
  \/ \E r \in readers : ReadLoop(r)
  \/ \E p, q \in Peer : Silence(p, q) \/ CloseConnection(p, q)
Faults == (\E c \in Conn : Break(c)) \/ (\E p \in Peer : Stop(p))

(* In a prompt plan dialling and closing take little time: a peer's dial is over
   before the next round of its reconnection loop, two seconds later, no
   heartbeat falls into it, and what is decided to be closed is closed before
   anything else is dialled or decided.                                     *)
DialledBy(p) == \E c \in Conn :
  ends[c][1] = p /\ (stage[c] \in {"dialing", "asked"} \/ \E q \in Peer : <<q, c>> \in entering)
Dialling == \E p \in Peer : DialledBy(p)
MayDial(p) == plan.prompt => ~DialledBy(p) /\ dropping = {}
MayDecide == plan.prompt => ~Dialling /\ dropping = {}

Next ==
  /\ UNCHANGED plan
  /\ \/ \E p \in Peer : MayDial(p) /\ Dials(p)
     \/ MayDecide /\ Decide
     \/ System \/ Faults

(* The loops of the program and the network keep going.                      *)
Fairness ==
  /\ \A p \in Peer : SF_vars(plan.prompt /\ MayDial(p) /\ Dials(p) /\ UNCHANGED plan)
  /\ \A c \in Conn : WF_vars(plan.prompt /\ Handshake(c) /\ UNCHANGED plan)
  /\ \A p \in Peer, c \in Conn :
       WF_vars(plan.prompt /\ UNCHANGED plan /\ \E r \in readers :
                 r.at = p /\ r.conn = c /\ (NoteActivity(r) \/ closeConnectionIfMatch(r)))
  /\ \A p, q \in Peer :
       /\ WF_vars(plan.prompt /\ Silence(p, q) /\ UNCHANGED plan)
       /\ SF_vars(plan.prompt /\ MayDecide /\ checkHeartbeats(p, q) /\ UNCHANGED plan)
       /\ WF_vars(plan.prompt /\ CloseConnection(p, q) /\ UNCHANGED plan)
Spec == Init /\ [][Next]_vars /\ Fairness

-----------------------------------------------------------------------------
TypeOK ==
  /\ plan \in Plans
  /\ running \in [Peer -> BOOLEAN]
  /\ stage \in [Conn -> {"none", "dialing", "asked", "done"}]
  /\ ends \in [Conn -> {e \in Peer \X Peer : e[1] # e[2]}]
  /\ entering \subseteq Peer \X Conn
  /\ closed \subseteq Peer \X Conn
  /\ broken \subseteq Conn
  /\ connections \in [Peer -> [Peer -> Conn \cup {None}]]
  /\ lastSeen \in [Peer -> [Peer -> {"none", "recent", "old"}]]
  /\ readers \subseteq [at : Peer, conn : Conn, got : BOOLEAN]
  /\ dropping \subseteq Peer \X Peer

(* Why the ends match.  What is stored, or about to be, is an end of a connection
   that was shaken hands on, stored under the other end and once only ...      *)
EndsOf(c) == {ends[c][1], ends[c][2]}
Linked ==
  /\ \A e \in entering : stage[e[2]] = "done" /\ e[1] \in EndsOf(e[2])
  /\ \A p, q \in Peer : LET c == connections[p][q] IN c # None =>
       stage[c] = "done" /\ ends[c] \in {<<p, q>>, <<q, p>>} /\ <<p, c>> \notin entering

(* ... and an end that is no longer stored has been closed: Connect,
   handleIncomingConnection, CloseConnection, closeConnectionIfMatch and Stop
   close what they take out of the map.                                     *)
StoredOrClosed ==
  \A c \in Conn : stage[c] = "done" => \A p \in EndsOf(c) :
    <<p, c>> \in entering \/ ClosedBy(p, c) \/ connections[p][Other(p, c)] = c

Established(c) ==
  LET p == ends[c][1]
      q == ends[c][2]
  IN Alive(c) /\ connections[p][q] = c /\ connections[q][p] = c

(* Nothing is under way that would change a connection.                      *)
Settled ==
  /\ ~Dialling /\ dropping = {}
  /\ \A r \in readers : ~r.got /\ ~Ended(r.at, r.conn)
  /\ \A p, q \in Peer : lastSeen[p][q] # "old"

(* Once nothing is under way no peer is left with half a connection: what one
   end has registered the other end has registered too.                      *)
EndsMatch ==
  Settled /\ broken = {} =>
    \A p, q \in Peer : connections[p][q] = connections[q][p]

(* A connection registered at both ends is not lost to what is left of an
   earlier one: it ends because it breaks, is replaced, is closed by a failed
   write or heartbeat, or because a peer stops.                              *)
LiveOnesStay ==
  [][\A c \in Conn : LET p == ends[c][1]
                         q == ends[c][2]
     IN Established(c) /\ ~Established(c)' =>
          \/ c \in broken'
          \/ connections'[p][q] \notin {None, c} \/ connections'[q][p] \notin {None, c}
          \/ dropping' # dropping
          \/ running' # running]_vars

(* Every connection that is stored has a read loop, which alone notices when
   the other end closes it.                                                 *)
EveryConnectionIsRead ==
  \A p, q \in Peer : connections[p][q] # None => Reading(p, connections[p][q])

(* No half connections: the two ends of a connection are registered together
   and read from the moment they are registered (handleIncomingConnection and
   Connect decide each on their own).                                       *)
ConnectionsWhole == EndsMatch /\ EveryConnectionIsRead

(* The inductive invariant of ConnectionManagerProofs.                      *)
ConnectionInv == TypeOK /\ Linked /\ StoredOrClosed /\ EveryConnectionIsRead

(* Peers that are discovered get connected in the end, and stay so, when only
   one of the two dials.                                                     *)
Connected(p, q) == \E c \in Conn : Established(c) /\ {p, q} = {ends[c][1], ends[c][2]}
OneWay == \A e \in plan.discovered : <<e[2], e[1]>> \notin plan.discovered
EventuallyConnected == \A p, q \in Peer :
  plan.prompt /\ OneWay /\ <<p, q>> \in plan.discovered => <>[]Connected(p, q)

(* Dials that all went through leave a connection.                           *)
DialsSucceed ==
  Settled /\ (\E c \in Conn : stage[c] = "done") => \E c \in Conn : Established(c)

(* "Stop stops the server and closes all peer connections"
   (connection_manager.go:471).                                              *)
StoppedMeansClosed == \A p, q \in Peer : ~running[p] => connections[p][q] = None
=============================================================================
