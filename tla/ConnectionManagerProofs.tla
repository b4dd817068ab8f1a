------------------------ MODULE ConnectionManagerProofs ------------------------
(***************************************************************************)
(* Proofs about the connections, for any number of peers and connections   *)
(* and any plan of dials, breaks and stops.                                 *)
(***************************************************************************)
EXTENDS ConnectionManager, TLAPS

USE ZenonT(30)

-----------------------------------------------------------------------------
(* The operators of the model.                                              *)

LEMMA NoneIsNoConn == None \notin Conn
BY ConnectionAssumption, SMTT(30) DEF None, Conn

LEMMA SetFacts ==
  ASSUME NEW S, NEW f \in [Peer -> [Peer -> S]], NEW p \in Peer, NEW q \in Peer, NEW x \in S
  PROVE  /\ Set(f, p, q, x) \in [Peer -> [Peer -> S]]
         /\ \A a, b \in Peer : Set(f, p, q, x)[a][b] = IF a = p /\ b = q THEN x ELSE f[a][b]
BY DEF Set

(* The two ends of a connection are each other's Other.                      *)
LEMMA OtherFacts ==
  ASSUME TypeOK, NEW c \in Conn, NEW p \in EndsOf(c)
  PROVE  /\ Other(p, c) \in EndsOf(c) /\ Other(p, c) # p
         /\ Other(p, c) \in Peer /\ p \in Peer
         /\ ends[c] \in {<<p, Other(p, c)>>, <<Other(p, c), p>>}
<1>1. ends[c] \in {e \in Peer \X Peer : e[1] # e[2]} BY DEF TypeOK
<1>2. PICK a \in Peer, b \in Peer : ends[c] = <<a, b>> /\ a # b BY <1>1, SMTT(30)
<1>3. ends[c][1] = a /\ ends[c][2] = b BY <1>2, SMTT(30)
<1> QED BY <1>2, <1>3, SMTT(30) DEF EndsOf, Other

LEMMA OtherIsPeer ==
  ASSUME TypeOK, NEW c \in Conn, NEW p
  PROVE  Other(p, c) \in Peer
BY DEF TypeOK, Other

LEMMA EndsAre ==
  ASSUME TypeOK, NEW c \in Conn, NEW p \in Peer, NEW q \in Peer, ends[c] \in {<<p, q>>, <<q, p>>}
  PROVE  /\ p \in EndsOf(c) /\ q \in EndsOf(c) /\ p # q
         /\ Other(p, c) = q /\ Other(q, c) = p
<1>1. ends[c] \in {e \in Peer \X Peer : e[1] # e[2]} BY DEF TypeOK
<1>2. \/ ends[c][1] = p /\ ends[c][2] = q
      \/ ends[c][1] = q /\ ends[c][2] = p
  BY SMTT(30)
<1>3. p # q BY <1>1, <1>2
<1> QED BY <1>2, <1>3 DEF EndsOf, Other

(* What is stored is an end of a connection, and stored under the other one.  *)
LEMMA StoredIs ==
  ASSUME TypeOK, Linked, NEW p \in Peer, NEW q \in Peer, connections[p][q] # None
  PROVE  /\ connections[p][q] \in Conn
         /\ stage[connections[p][q]] = "done"
         /\ ends[connections[p][q]] \in {<<p, q>>, <<q, p>>}
         /\ <<p, connections[p][q]>> \notin entering
         /\ Other(p, connections[p][q]) = q
<1>1. connections[p][q] \in Conn BY SMTT(30) DEF TypeOK
<1>2. /\ stage[connections[p][q]] = "done"
      /\ ends[connections[p][q]] \in {<<p, q>>, <<q, p>>}
      /\ <<p, connections[p][q]>> \notin entering
  BY DEF Linked
<1> QED BY <1>1, <1>2, EndsAre

-----------------------------------------------------------------------------
(* Types.                                                                   *)

LEMMA InitTypes == Init => TypeOK
<1> SUFFICES ASSUME Init PROVE TypeOK OBVIOUS
<1>1. (CHOOSE e \in Peer \X Peer : e[1] # e[2]) \in {e \in Peer \X Peer : e[1] # e[2]}
  <2>1. PICK p \in Peer, q \in Peer : p # q BY ConnectionAssumption
  <2>2. <<p, q>> \in Peer \X Peer /\ <<p, q>>[1] # <<p, q>>[2] BY <2>1
  <2>3. \E e \in Peer \X Peer : e[1] # e[2] BY <2>2
  <2> QED BY <2>3
<1>2. ends \in [Conn -> {e \in Peer \X Peer : e[1] # e[2]}] BY <1>1 DEF Init
<1>3. running \in [Peer -> BOOLEAN] BY DEF Init
<1> QED BY <1>2, <1>3 DEF Init, TypeOK

LEMMA TypeStep ==
  ASSUME TypeOK, [Next]_vars
  PROVE  TypeOK'
<1> USE DEF TypeOK
<1>0. plan' = plan BY DEF Next, vars
<1>n. None \in Conn \cup {None} OBVIOUS
<1>1. ASSUME NEW p \in Peer, NEW q \in Peer, NEW c \in Conn, Connect(p, q, c) PROVE TypeOK'
  <2>1. <<p, q>> \in {e \in Peer \X Peer : e[1] # e[2]}
    <3>1. plan.discovered \subseteq {e \in Peer \X Peer : e[1] # e[2]} BY ConnectionAssumption
    <3> QED BY <1>1, <3>1 DEF Connect
  <2>2. ends' \in [Conn -> {e \in Peer \X Peer : e[1] # e[2]}] BY <1>1, <2>1 DEF Connect
  <2>3. stage' \in [Conn -> {"none", "dialing", "asked", "done"}] BY <1>1 DEF Connect
  <2> QED BY <1>0, <1>1, <2>2, <2>3 DEF Connect, mapVars
<1>2. ASSUME NEW c \in Conn, Dial(c) PROVE TypeOK'
  BY <1>0, <1>2 DEF Dial, mapVars
<1>3. ASSUME NEW c \in Conn, handleIncomingConnection(c) PROVE TypeOK'
  <2>1. ends[c][1] \in Peer /\ ends[c][2] \in Peer OBVIOUS
  <2>2. entering' \subseteq Peer \X Conn BY <1>3, <2>1, SMTT(30) DEF handleIncomingConnection
  <2>3. stage' \in [Conn -> {"none", "dialing", "asked", "done"}] BY <1>3 DEF handleIncomingConnection
  <2> QED BY <1>0, <1>3, <2>2, <2>3 DEF handleIncomingConnection, mapVars
<1>4. ASSUME NEW c \in Conn, NEW p \in Peer, RegisterEnd(p, c) PROVE TypeOK'
  <2>2. PICK q \in Peer : q = Other(p, c) BY OtherIsPeer
  <2>3. connections' = Set(connections, p, q, c) /\ lastSeen' = Set(lastSeen, p, q, "recent")
    BY <1>4, <2>2 DEF RegisterEnd, Register
  <2>4. connections' \in [Peer -> [Peer -> Conn \cup {None}]] BY <2>3, SetFacts
  <2>5. lastSeen' \in [Peer -> [Peer -> {"none", "recent", "old"}]] BY <2>3, SetFacts
  <2>6. readers' \subseteq [at : Peer, conn : Conn, got : BOOLEAN]
    <3>1. [at |-> p, conn |-> c, got |-> FALSE] \in [at : Peer, conn : Conn, got : BOOLEAN] OBVIOUS
    <3> QED BY <1>4, <3>1 DEF RegisterEnd, Register
  <2>7. closed' \subseteq Peer \X Conn
    <3>1. closed' = closed \cup {<<p, x>> : x \in {connections[p][q]} \ {None}}
      BY <1>4, <2>2 DEF RegisterEnd, Register
    <3>2. \A x \in {connections[p][q]} \ {None} : <<p, x>> \in Peer \X Conn BY SMTT(30)
    <3> QED BY <3>1, <3>2, SMTT(30)
  <2> QED BY <1>0, <1>4, <2>4, <2>5, <2>6, <2>7 DEF RegisterEnd
<1>5. ASSUME NEW c \in Conn, GiveUp(c) PROVE TypeOK'
  <2>1. ends[c][1] \in Peer /\ ends[c][2] \in Peer OBVIOUS
  <2>2. entering' \subseteq Peer \X Conn BY <1>5 DEF GiveUp
  <2>3. stage' \in [Conn -> {"none", "dialing", "asked", "done"}] BY <1>5 DEF GiveUp
  <2>4. closed' \subseteq Peer \X Conn BY <1>5, <2>1, SMTT(30) DEF GiveUp
  <2> QED BY <1>0, <1>5, <2>2, <2>3, <2>4 DEF GiveUp, mapVars
<1>6. ASSUME NEW r \in readers, Receive(r) PROVE TypeOK'
  <2>1. [r EXCEPT !.got = TRUE] \in [at : Peer, conn : Conn, got : BOOLEAN] OBVIOUS
  <2>2. readers' \subseteq [at : Peer, conn : Conn, got : BOOLEAN] BY <1>6, <2>1 DEF Receive
  <2> QED BY <1>0, <1>6, <2>2 DEF Receive, connVars
<1>7. ASSUME NEW r \in readers, NoteActivity(r) PROVE TypeOK'
  <2>1. [r EXCEPT !.got = FALSE] \in [at : Peer, conn : Conn, got : BOOLEAN] OBVIOUS
  <2>2. readers' \subseteq [at : Peer, conn : Conn, got : BOOLEAN] BY <1>7, <2>1 DEF NoteActivity
  <2>3. r.at \in Peer /\ Other(r.at, r.conn) \in Peer
    <3>1. r.at \in Peer /\ r.conn \in Conn OBVIOUS
    <3> QED BY <3>1, OtherIsPeer
  <2>4. PICK p \in Peer, q \in Peer : lastSeen' = Set(lastSeen, p, q, "recent")
    BY <1>7, <2>3 DEF NoteActivity
  <2>5. lastSeen' \in [Peer -> [Peer -> {"none", "recent", "old"}]] BY <2>4, SetFacts
  <2> QED BY <1>0, <1>7, <2>2, <2>5 DEF NoteActivity, connVars
<1>8. ASSUME NEW p \in Peer, NEW q \in Peer, connections[p][q] # None, Unregister(p, q)
      PROVE /\ closed' \subseteq Peer \X Conn
            /\ connections' \in [Peer -> [Peer -> Conn \cup {None}]]
            /\ lastSeen' \in [Peer -> [Peer -> {"none", "recent", "old"}]]
  <2>1. <<p, connections[p][q]>> \in Peer \X Conn BY <1>8, SMTT(30)
  <2>2. closed' \subseteq Peer \X Conn BY <1>8, <2>1 DEF Unregister
  <2>3. connections' \in [Peer -> [Peer -> Conn \cup {None}]]
    BY <1>8, <1>n, SetFacts DEF Unregister
  <2>4. lastSeen' \in [Peer -> [Peer -> {"none", "recent", "old"}]]
    BY <1>8, SetFacts DEF Unregister
  <2> QED BY <2>2, <2>3, <2>4
<1>9. ASSUME NEW r \in readers, closeConnectionIfMatch(r) PROVE TypeOK'
  <2>1. r.at \in Peer /\ r.conn \in Conn OBVIOUS
  <2>2. PICK p \in Peer : p = r.at BY <2>1
  <2>3. PICK q \in Peer : q = Other(r.at, r.conn) BY <2>1, OtherIsPeer
  <2>4. r.conn # None BY <2>1, NoneIsNoConn
  <2>5. /\ closed' \subseteq Peer \X Conn
        /\ connections' \in [Peer -> [Peer -> Conn \cup {None}]]
        /\ lastSeen' \in [Peer -> [Peer -> {"none", "recent", "old"}]]
    <3>1. CASE connections[p][q] = r.conn
      <4>1. Unregister(p, q) BY <1>9, <2>2, <2>3, <3>1 DEF closeConnectionIfMatch
      <4> QED BY <1>8, <2>4, <3>1, <4>1
    <3>2. CASE connections[p][q] # r.conn
      <4>1. UNCHANGED <<closed, connections, lastSeen>>
        BY <1>9, <2>2, <2>3, <3>2 DEF closeConnectionIfMatch
      <4> QED BY <4>1
    <3> QED BY <3>1, <3>2
  <2> QED BY <1>0, <1>9, <2>5 DEF closeConnectionIfMatch
<1>10. ASSUME NEW p \in Peer, NEW q \in Peer, Silence(p, q) PROVE TypeOK'
  <2>1. lastSeen' \in [Peer -> [Peer -> {"none", "recent", "old"}]] BY <1>10, SetFacts DEF Silence
  <2> QED BY <1>0, <1>10, <2>1 DEF Silence, connVars
<1>11. ASSUME NEW p \in Peer, NEW q \in Peer, checkHeartbeats(p, q) \/ SendFails(p, q) PROVE TypeOK'
  BY <1>0, <1>11, SMTT(30) DEF checkHeartbeats, SendFails, connVars, mapVars
<1>12. ASSUME NEW p \in Peer, NEW q \in Peer, CloseConnection(p, q) PROVE TypeOK'
  <2>1. /\ closed' \subseteq Peer \X Conn
        /\ connections' \in [Peer -> [Peer -> Conn \cup {None}]]
        /\ lastSeen' \in [Peer -> [Peer -> {"none", "recent", "old"}]]
    <3>1. CASE connections[p][q] # None BY <1>8, <1>12, <3>1 DEF CloseConnection
    <3>2. CASE connections[p][q] = None BY <1>12, <3>2 DEF CloseConnection
    <3> QED BY <3>1, <3>2
  <2> QED BY <1>0, <1>12, <2>1 DEF CloseConnection
<1>13. ASSUME NEW c \in Conn, Break(c) PROVE TypeOK'
  BY <1>0, <1>13 DEF Break, mapVars
<1>14. ASSUME NEW p \in Peer, Stop(p) PROVE TypeOK'
  <2>1. closed' \subseteq Peer \X Conn BY <1>14, SMTT(30) DEF Stop
  <2>2. connections' \in [Peer -> [Peer -> Conn \cup {None}]] BY <1>14 DEF Stop
  <2>3. running' \in [Peer -> BOOLEAN] BY <1>14 DEF Stop
  <2> QED BY <1>0, <1>14, <2>1, <2>2, <2>3 DEF Stop
<1>15. CASE UNCHANGED vars BY <1>15 DEF vars, connVars, mapVars
<1> QED
  BY <1>1, <1>2, <1>3, <1>4, <1>5, <1>6, <1>7, <1>9, <1>10, <1>11, <1>12, <1>13, <1>14, <1>15
     DEF Next, Dials, Decide, System, Handshake, ReadLoop, Faults

-----------------------------------------------------------------------------
(* The invariant, action by action.                                         *)

Rest == Linked /\ StoredOrClosed /\ EveryConnectionIsRead

(* What is stored and what is closed stays: so does the rest.                *)
LEMMA RestKept ==
  ASSUME TypeOK, Rest, UNCHANGED <<stage, ends, entering, connections>>, closed \subseteq closed',
         \A p \in Peer, c \in Conn : Reading(p, c) => Reading(p, c)'
  PROVE  Rest'
<1>1. Linked' BY DEF Rest, Linked, EndsOf
<1>2. StoredOrClosed' BY DEF Rest, StoredOrClosed, EndsOf, Other, ClosedBy
<1>3. EveryConnectionIsRead' BY SMTT(30) DEF Rest, EveryConnectionIsRead, TypeOK
<1> QED BY <1>1, <1>2, <1>3 DEF Rest

(* A number is given to a new connection when nothing of the old one is left. *)
LEMMA ConnectRest ==
  ASSUME TypeOK, Rest, NEW p \in Peer, NEW q \in Peer, NEW c \in Conn, Connect(p, q, c)
  PROVE  Rest'
<1>1. /\ \A x \in Conn : x # c => stage'[x] = stage[x] /\ ends'[x] = ends[x]
      /\ stage'[c] = "dialing"
  BY DEF TypeOK, Connect
<1>2. /\ closed' = {e \in closed : e[2] # c}
      /\ UNCHANGED <<entering, connections, readers>>
  BY DEF Connect, mapVars
<1>3. /\ \A a, b \in Peer : connections[a][b] # c
      /\ \A e \in entering : e[2] \in Conn /\ e[2] # c
  BY DEF TypeOK, Connect, Free
<1>4. Linked'
  <2>1. \A e \in entering' : stage'[e[2]] = "done" /\ e[1] \in EndsOf(e[2])'
    BY <1>1, <1>2, <1>3 DEF Rest, Linked, EndsOf
  <2>2. ASSUME NEW a \in Peer, NEW b \in Peer, connections'[a][b] # None
        PROVE  /\ stage'[connections'[a][b]] = "done"
               /\ ends'[connections'[a][b]] \in {<<a, b>>, <<b, a>>}
               /\ <<a, connections'[a][b]>> \notin entering'
    BY <1>1, <1>2, <1>3, <2>2, StoredIs DEF Rest
  <2> QED BY <2>1, <2>2 DEF Linked
<1>5. StoredOrClosed'
  <2> SUFFICES ASSUME NEW x \in Conn, stage'[x] = "done", NEW a \in EndsOf(x)'
               PROVE  <<a, x>> \in entering' \/ <<a, x>> \in closed' \/ connections'[a][Other(a, x)'] = x
    BY DEF StoredOrClosed, ClosedBy
  <2>1. x # c /\ stage[x] = "done" BY <1>1
  <2>2. a \in EndsOf(x) /\ Other(a, x)' = Other(a, x) BY <1>1, <2>1 DEF EndsOf, Other
  <2>3. <<a, x>> \in entering \/ <<a, x>> \in closed \/ connections[a][Other(a, x)] = x
    BY <2>1, <2>2 DEF Rest, StoredOrClosed, ClosedBy
  <2> QED BY <1>2, <2>1, <2>2, <2>3
<1>6. EveryConnectionIsRead' BY <1>2 DEF Rest, EveryConnectionIsRead, Reading
<1> QED BY <1>4, <1>5, <1>6 DEF Rest

(* Neither a dial nor a handshake that fails stores anything.                *)
LEMMA DialRest ==
  ASSUME TypeOK, Rest, NEW c \in Conn, Dial(c)
  PROVE  Rest'
<1>1. \A x \in Conn : stage'[x] = "done" <=> stage[x] = "done" BY DEF TypeOK, Dial
<1>2. UNCHANGED <<ends, entering, closed, connections, readers>> BY DEF Dial, mapVars
<1>3. Linked'
  <2>1. \A e \in entering : e[2] \in Conn BY DEF TypeOK
  <2>2. \A e \in entering' : stage'[e[2]] = "done" /\ e[1] \in EndsOf(e[2])'
    BY <1>1, <1>2, <2>1 DEF Rest, Linked, EndsOf
  <2>3. ASSUME NEW a \in Peer, NEW b \in Peer, connections'[a][b] # None
        PROVE  /\ stage'[connections'[a][b]] = "done"
               /\ ends'[connections'[a][b]] \in {<<a, b>>, <<b, a>>}
               /\ <<a, connections'[a][b]>> \notin entering'
    BY <1>1, <1>2, <2>3, StoredIs DEF Rest
  <2> QED BY <2>2, <2>3 DEF Linked
<1>4. StoredOrClosed' BY <1>1, <1>2 DEF Rest, StoredOrClosed, EndsOf, Other, ClosedBy
<1>5. EveryConnectionIsRead' BY <1>2 DEF Rest, EveryConnectionIsRead, Reading
<1> QED BY <1>3, <1>4, <1>5 DEF Rest

LEMMA HandshakeRest ==
  ASSUME TypeOK, Rest, NEW c \in Conn, handleIncomingConnection(c)
  PROVE  Rest'
<1>1. /\ stage[c] = "asked" /\ stage'[c] = "done"
      /\ \A x \in Conn : x # c => stage'[x] = stage[x]
  BY DEF TypeOK, handleIncomingConnection
<1>2. /\ entering' = entering \cup {<<ends[c][1], c>>, <<ends[c][2], c>>}
      /\ UNCHANGED <<ends, closed, connections, readers>>
  BY DEF handleIncomingConnection, mapVars
<1>3. Linked'
  <2>1. \A e \in entering : e[2] \in Conn BY DEF TypeOK
  <2>2. ASSUME NEW e \in entering' PROVE stage'[e[2]] = "done" /\ e[1] \in EndsOf(e[2])'
    <3>1. CASE e \in entering BY <1>1, <1>2, <2>1, <3>1 DEF Rest, Linked, EndsOf
    <3>2. CASE e \in {<<ends[c][1], c>>, <<ends[c][2], c>>}
      <4>1. e[2] = c /\ e[1] \in {ends[c][1], ends[c][2]} BY <3>2, SMTT(30)
      <4> QED BY <1>1, <1>2, <4>1 DEF EndsOf
    <3> QED BY <1>2, <3>1, <3>2
  <2>3. ASSUME NEW a \in Peer, NEW b \in Peer, connections'[a][b] # None
        PROVE  /\ stage'[connections'[a][b]] = "done"
               /\ ends'[connections'[a][b]] \in {<<a, b>>, <<b, a>>}
               /\ <<a, connections'[a][b]>> \notin entering'
    <3>1. PICK x \in Conn : /\ x = connections[a][b] /\ stage[x] = "done"
                            /\ ends[x] \in {<<a, b>>, <<b, a>>} /\ <<a, x>> \notin entering
      BY <1>2, <2>3, StoredIs DEF Rest
    <3>2. x # c BY <1>1, <3>1
    <3> QED BY <1>1, <1>2, <3>1, <3>2
  <2> QED BY <2>2, <2>3 DEF Linked
<1>4. StoredOrClosed'
  <2> SUFFICES ASSUME NEW x \in Conn, stage'[x] = "done", NEW a \in EndsOf(x)'
               PROVE  <<a, x>> \in entering' \/ <<a, x>> \in closed' \/ connections'[a][Other(a, x)'] = x
    BY DEF StoredOrClosed, ClosedBy
  <2>1. a \in EndsOf(x) /\ Other(a, x)' = Other(a, x) BY <1>2 DEF EndsOf, Other
  <2>2. CASE x = c BY <1>2, <2>1, <2>2 DEF EndsOf
  <2>3. CASE x # c
    <3>1. <<a, x>> \in entering \/ <<a, x>> \in closed \/ connections[a][Other(a, x)] = x
      BY <1>1, <2>1, <2>3 DEF Rest, StoredOrClosed, ClosedBy
    <3> QED BY <1>2, <2>1, <3>1
  <2> QED BY <2>2, <2>3
<1>5. EveryConnectionIsRead' BY <1>2 DEF Rest, EveryConnectionIsRead, Reading
<1> QED BY <1>3, <1>4, <1>5 DEF Rest

(* A connection that is registered is read, and the one it replaces closed.   *)
LEMMA RegisterRest ==
  ASSUME TypeOK, Rest, NEW c \in Conn, NEW p \in Peer, RegisterEnd(p, c)
  PROVE  Rest'
<1>1. <<p, c>> \in entering /\ entering' = entering \ {<<p, c>>} /\ UNCHANGED <<stage, ends>>
  BY DEF RegisterEnd
<1>2. stage[c] = "done" /\ p \in EndsOf(c)
  <2>1. \A e \in entering : stage[e[2]] = "done" /\ e[1] \in EndsOf(e[2]) BY DEF Rest, Linked
  <2>2. stage[<<p, c>>[2]] = "done" /\ <<p, c>>[1] \in EndsOf(<<p, c>>[2]) BY <1>1, <2>1
  <2> QED BY <2>2
<1>3. PICK q \in Peer : q = Other(p, c) /\ ends[c] \in {<<p, q>>, <<q, p>>} BY <1>2, OtherFacts
<1>4. /\ closed' = closed \cup {<<p, x>> : x \in {connections[p][q]} \ {None}}
      /\ connections' = Set(connections, p, q, c)
      /\ readers' = readers \cup {[at |-> p, conn |-> c, got |-> FALSE]}
  BY <1>3 DEF RegisterEnd, Register
<1>5. \A a, b \in Peer : connections'[a][b] = IF a = p /\ b = q THEN c ELSE connections[a][b]
  <2>1. connections \in [Peer -> [Peer -> Conn \cup {None}]] /\ c \in Conn \cup {None} BY DEF TypeOK
  <2>2. \A a, b \in Peer :
          Set(connections, p, q, c)[a][b] = IF a = p /\ b = q THEN c ELSE connections[a][b]
    BY <2>1 DEF Set
  <2> QED BY <1>4, <2>2
<1>6. Linked'
  <2>1. \A e \in entering' : stage'[e[2]] = "done" /\ e[1] \in EndsOf(e[2])'
    BY <1>1 DEF Rest, Linked, EndsOf
  <2>2. ASSUME NEW a \in Peer, NEW b \in Peer, connections'[a][b] # None
        PROVE  /\ stage'[connections'[a][b]] = "done"
               /\ ends'[connections'[a][b]] \in {<<a, b>>, <<b, a>>}
               /\ <<a, connections'[a][b]>> \notin entering'
    <3>1. CASE a = p /\ b = q BY <1>1, <1>2, <1>3, <1>5, <3>1
    <3>2. CASE ~(a = p /\ b = q)
      <4>1. connections'[a][b] = connections[a][b] BY <1>5, <3>2
      <4> QED BY <1>1, <2>2, <4>1, StoredIs, SMTT(30) DEF Rest
    <3> QED BY <3>1, <3>2
  <2> QED BY <2>1, <2>2 DEF Linked
<1>7. StoredOrClosed'
  <2> SUFFICES ASSUME NEW x \in Conn, stage'[x] = "done", NEW a \in EndsOf(x)'
               PROVE  <<a, x>> \in entering' \/ <<a, x>> \in closed' \/ connections'[a][Other(a, x)'] = x
    BY DEF StoredOrClosed, ClosedBy
  <2>1. a \in EndsOf(x) /\ Other(a, x)' = Other(a, x) BY <1>1 DEF EndsOf, Other
  <2>2. a \in Peer /\ Other(a, x) \in Peer BY <2>1, OtherFacts
  <2>3. <<a, x>> \in entering \/ <<a, x>> \in closed \/ connections[a][Other(a, x)] = x
    BY <1>1, <2>1 DEF Rest, StoredOrClosed, ClosedBy
  <2>4. CASE a = p /\ x = c BY <1>3, <1>5, <2>1, <2>2, <2>4
  <2>5. CASE ~(a = p /\ x = c)
    <3>1. CASE connections[a][Other(a, x)] = x
      <4>1. CASE a = p /\ Other(a, x) = q
        <5>1. x \in {connections[p][q]} \ {None} BY <3>1, <4>1, NoneIsNoConn
        <5> QED BY <1>4, <4>1, <5>1
      <4>2. CASE ~(a = p /\ Other(a, x) = q) BY <1>5, <2>1, <2>2, <3>1, <4>2
      <4> QED BY <4>1, <4>2
    <3>2. CASE <<a, x>> \in entering BY <1>1, <2>5, <3>2
    <3>3. CASE <<a, x>> \in closed BY <1>4, <3>3
    <3> QED BY <2>3, <3>1, <3>2, <3>3
  <2> QED BY <2>4, <2>5
<1>8. EveryConnectionIsRead'
  <2> SUFFICES ASSUME NEW a \in Peer, NEW b \in Peer, connections'[a][b] # None
               PROVE  \E r \in readers' : r.at = a /\ r.conn = connections'[a][b]
    BY DEF EveryConnectionIsRead, Reading
  <2>1. CASE a = p /\ b = q
    <3>1. PICK r : r = [at |-> p, conn |-> c, got |-> FALSE] OBVIOUS
    <3>2. r \in readers' /\ r.at = a /\ r.conn = connections'[a][b] BY <1>4, <1>5, <2>1, <3>1
    <3> QED BY <3>2
  <2>2. CASE ~(a = p /\ b = q)
    BY <1>4, <1>5, <2>2, SMTT(30) DEF Rest, EveryConnectionIsRead, Reading
  <2> QED BY <2>1, <2>2
<1> QED BY <1>6, <1>7, <1>8 DEF Rest

LEMMA GiveUpRest ==
  ASSUME TypeOK, Rest, NEW c \in Conn, GiveUp(c)
  PROVE  Rest'
<1>1. UNCHANGED <<ends, connections, readers>> BY DEF GiveUp, mapVars
<1>2. EveryConnectionIsRead' BY <1>1 DEF Rest, EveryConnectionIsRead, Reading
<1>3. ASSUME NEW x \in Conn, stage'[x] = "done", NEW a \in EndsOf(x)'
      PROVE  a \in EndsOf(x) /\ Other(a, x)' = Other(a, x)
  BY <1>1, <1>3 DEF EndsOf, Other
<1>4. CASE /\ stage[c] = "asked"
           /\ stage' = [stage EXCEPT ![c] = "done"]
           /\ closed' = closed \cup {<<ends[c][1], c>>, <<ends[c][2], c>>}
           /\ UNCHANGED entering
  <2>1. /\ stage'[c] = "done"
        /\ \A x \in Conn : x # c => stage'[x] = stage[x]
    BY <1>4 DEF TypeOK
  <2>2. Linked'
    <3>1. \A e \in entering : e[2] \in Conn BY DEF TypeOK
    <3>2. \A e \in entering' : stage'[e[2]] = "done" /\ e[1] \in EndsOf(e[2])'
      BY <1>1, <1>4, <2>1, <3>1 DEF Rest, Linked, EndsOf
    <3>3. ASSUME NEW a \in Peer, NEW b \in Peer, connections'[a][b] # None
          PROVE  /\ stage'[connections'[a][b]] = "done"
                 /\ ends'[connections'[a][b]] \in {<<a, b>>, <<b, a>>}
                 /\ <<a, connections'[a][b]>> \notin entering'
      BY <1>1, <1>4, <2>1, <3>3, StoredIs, SMTT(30) DEF Rest
    <3> QED BY <3>2, <3>3 DEF Linked
  <2>3. StoredOrClosed'
    <3> SUFFICES ASSUME NEW x \in Conn, stage'[x] = "done", NEW a \in EndsOf(x)'
                 PROVE  <<a, x>> \in entering' \/ <<a, x>> \in closed' \/ connections'[a][Other(a, x)'] = x
      BY DEF StoredOrClosed, ClosedBy
    <3>1. a \in EndsOf(x) /\ Other(a, x)' = Other(a, x) BY <1>3
    <3>2. CASE x = c BY <1>4, <3>1, <3>2 DEF EndsOf
    <3>3. CASE x # c
      <4>1. <<a, x>> \in entering \/ <<a, x>> \in closed \/ connections[a][Other(a, x)] = x
        BY <2>1, <3>1, <3>3 DEF Rest, StoredOrClosed, ClosedBy
      <4> QED BY <1>1, <1>4, <3>1, <4>1
    <3> QED BY <3>2, <3>3
  <2> QED BY <1>2, <2>2, <2>3 DEF Rest
<1>5. CASE /\ <<ends[c][1], c>> \in entering
           /\ entering' = entering \ {<<ends[c][1], c>>}
           /\ closed' = closed \cup {<<ends[c][1], c>>}
           /\ UNCHANGED stage
  <2>1. Linked'
    <3>1. \A e \in entering' : stage'[e[2]] = "done" /\ e[1] \in EndsOf(e[2])'
      BY <1>1, <1>5 DEF Rest, Linked, EndsOf
    <3>2. ASSUME NEW a \in Peer, NEW b \in Peer, connections'[a][b] # None
          PROVE  /\ stage'[connections'[a][b]] = "done"
                 /\ ends'[connections'[a][b]] \in {<<a, b>>, <<b, a>>}
                 /\ <<a, connections'[a][b]>> \notin entering'
      BY <1>1, <1>5, <3>2, StoredIs DEF Rest
    <3> QED BY <3>1, <3>2 DEF Linked
  <2>2. StoredOrClosed'
    <3> SUFFICES ASSUME NEW x \in Conn, stage'[x] = "done", NEW a \in EndsOf(x)'
                 PROVE  <<a, x>> \in entering' \/ <<a, x>> \in closed' \/ connections'[a][Other(a, x)'] = x
      BY DEF StoredOrClosed, ClosedBy
    <3>1. a \in EndsOf(x) /\ Other(a, x)' = Other(a, x) BY <1>3
    <3>2. <<a, x>> \in entering \/ <<a, x>> \in closed \/ connections[a][Other(a, x)] = x
      BY <1>5, <3>1 DEF Rest, StoredOrClosed, ClosedBy
    <3> QED BY <1>1, <1>5, <3>1, <3>2
  <2> QED BY <1>2, <2>1, <2>2 DEF Rest
<1> QED BY <1>4, <1>5 DEF GiveUp

(* Whatever is taken out of the map of peer p is closed by p.                 *)
LEMMA TakenOut ==
  ASSUME TypeOK, Rest, UNCHANGED <<stage, ends, entering>>, NEW p \in Peer,
         closed \subseteq closed',
         \A a, b \in Peer : \/ connections'[a][b] = connections[a][b]
                            \/ a = p /\ connections'[a][b] = None /\ <<p, connections[a][b]>> \in closed',
         \A a, b \in Peer : connections'[a][b] # None => \E y \in readers' : y.at = a /\ y.conn = connections'[a][b]
  PROVE  Rest'
<1>1. \A a, b \in Peer : connections'[a][b] # None => connections'[a][b] = connections[a][b]
  OBVIOUS
<1>2. Linked'
  <2>1. \A e \in entering' : stage'[e[2]] = "done" /\ e[1] \in EndsOf(e[2])'
    BY DEF Rest, Linked, EndsOf
  <2>2. ASSUME NEW a \in Peer, NEW b \in Peer, connections'[a][b] # None
        PROVE  /\ stage'[connections'[a][b]] = "done"
               /\ ends'[connections'[a][b]] \in {<<a, b>>, <<b, a>>}
               /\ <<a, connections'[a][b]>> \notin entering'
    BY <1>1, <2>2, StoredIs, SMTT(30) DEF Rest
  <2> QED BY <2>1, <2>2 DEF Linked
<1>3. StoredOrClosed'
  <2> SUFFICES ASSUME NEW x \in Conn, stage'[x] = "done", NEW a \in EndsOf(x)'
               PROVE  <<a, x>> \in entering' \/ <<a, x>> \in closed' \/ connections'[a][Other(a, x)'] = x
    BY DEF StoredOrClosed, ClosedBy
  <2>1. a \in EndsOf(x) /\ Other(a, x)' = Other(a, x) BY DEF EndsOf, Other
  <2>2. a \in Peer /\ Other(a, x) \in Peer BY <2>1, OtherFacts
  <2>3. <<a, x>> \in entering \/ <<a, x>> \in closed \/ connections[a][Other(a, x)] = x
    BY <2>1 DEF Rest, StoredOrClosed, ClosedBy
  <2>4. \/ connections'[a][Other(a, x)] = connections[a][Other(a, x)]
        \/ a = p /\ <<p, connections[a][Other(a, x)]>> \in closed'
    BY <2>2
  <2> QED BY <2>1, <2>3, <2>4
<1>4. EveryConnectionIsRead' BY DEF EveryConnectionIsRead, Reading
<1> QED BY <1>2, <1>3, <1>4 DEF Rest

LEMMA UnregisterFacts ==
  ASSUME TypeOK, NEW p \in Peer, NEW q \in Peer, Unregister(p, q)
  PROVE  /\ \A a, b \in Peer : connections'[a][b] = IF a = p /\ b = q THEN None ELSE connections[a][b]
         /\ closed' = closed \cup {<<p, connections[p][q]>>}
<1>1. connections \in [Peer -> [Peer -> Conn \cup {None}]] /\ None \in Conn \cup {None}
  BY DEF TypeOK
<1>2. \A a, b \in Peer :
        Set(connections, p, q, None)[a][b] = IF a = p /\ b = q THEN None ELSE connections[a][b]
  BY <1>1 DEF Set
<1> QED BY <1>2 DEF Unregister

(* A read loop that ends takes its own connection out, if it is still there.  *)
LEMMA ReaderEndsRest ==
  ASSUME TypeOK, Rest, NEW r \in readers, closeConnectionIfMatch(r)
  PROVE  Rest'
<1>1. PICK p \in Peer : p = r.at BY DEF TypeOK
<1>2. PICK d \in Conn : d = r.conn BY DEF TypeOK
<1>3. PICK q \in Peer : q = Other(p, d) BY OtherIsPeer
<1>4. /\ UNCHANGED <<stage, ends, entering>> /\ readers' = readers \ {r}
      /\ IF connections[p][q] = d THEN Unregister(p, q)
                                  ELSE UNCHANGED <<closed, connections, lastSeen>>
  BY <1>1, <1>2, <1>3 DEF closeConnectionIfMatch
<1>5. \A a, b \in Peer : connections'[a][b] =
        IF a = p /\ b = q /\ connections[p][q] = d THEN None ELSE connections[a][b]
  BY <1>4, UnregisterFacts, SMTT(30)
<1>6. closed \subseteq closed' /\ (connections[p][q] = d => <<p, d>> \in closed')
  BY <1>4, UnregisterFacts, SMTT(30)
<1>7. ASSUME NEW a \in Peer, NEW b \in Peer, connections'[a][b] # None
      PROVE  \E y \in readers' : y.at = a /\ y.conn = connections'[a][b]
  <2>0. connections'[a][b] = connections[a][b] BY <1>5, <1>7
  <2>1. PICK x \in Conn : x = connections[a][b] /\ connections'[a][b] = x /\ Other(a, x) = b
    BY <1>7, <2>0, StoredIs DEF Rest
  <2>2. PICK y \in readers : y.at = a /\ y.conn = x
    BY <1>5, <1>7, <2>1, SMTT(30) DEF Rest, EveryConnectionIsRead, Reading
  <2>3. y # r
    <3>1. SUFFICES ASSUME y = r PROVE FALSE OBVIOUS
    <3>2. a = p /\ x = d /\ b = q BY <1>1, <1>2, <1>3, <2>1, <2>2, <3>1
    <3> QED BY <1>5, <1>7, <2>1, <3>2
  <2> QED BY <1>4, <2>1, <2>2, <2>3
<1> QED BY <1>4, <1>5, <1>6, <1>7, TakenOut, SMTT(30)

LEMMA CloseRest ==
  ASSUME TypeOK, Rest, NEW p \in Peer, NEW q \in Peer, CloseConnection(p, q)
  PROVE  Rest'
<1>1. UNCHANGED <<stage, ends, entering, readers>> BY DEF CloseConnection
<1>2. CASE connections[p][q] # None
  <2>1. Unregister(p, q) BY <1>2 DEF CloseConnection
  <2>2. \A a, b \in Peer : connections'[a][b] = IF a = p /\ b = q THEN None ELSE connections[a][b]
    BY <2>1, UnregisterFacts
  <2>3. closed' = closed \cup {<<p, connections[p][q]>>} BY <2>1, UnregisterFacts
  <2>4. \A a, b \in Peer : connections'[a][b] # None => \E y \in readers' : y.at = a /\ y.conn = connections'[a][b]
    BY <1>1, <2>2, SMTT(30) DEF Rest, EveryConnectionIsRead, Reading
  <2> QED BY <1>1, <2>2, <2>3, <2>4, TakenOut, SMTT(30)
<1>3. CASE connections[p][q] = None
  BY <1>1, <1>3, RestKept DEF CloseConnection, Reading
<1> QED BY <1>2, <1>3

LEMMA StopRest ==
  ASSUME TypeOK, Rest, NEW p \in Peer, Stop(p)
  PROVE  Rest'
<1>1. UNCHANGED <<stage, ends, entering, readers>> BY DEF Stop
<1>2. \A a, b \in Peer : connections'[a][b] = IF a = p THEN None ELSE connections[a][b]
  BY DEF Stop, TypeOK
<1>3. closed \subseteq closed' /\ \A b \in Peer : connections[p][b] # None => <<p, connections[p][b]>> \in closed'
  BY DEF Stop
<1>4. \A a, b \in Peer : connections'[a][b] # None => \E y \in readers' : y.at = a /\ y.conn = connections'[a][b]
  BY <1>1, <1>2, SMTT(30) DEF Rest, EveryConnectionIsRead, Reading
<1> QED BY <1>1, <1>2, <1>3, <1>4, TakenOut, SMTT(30)

LEMMA RestStep ==
  ASSUME TypeOK, Rest, [Next]_vars
  PROVE  Rest'
<1>1. ASSUME NEW r \in readers, Receive(r) \/ NoteActivity(r) PROVE Rest'
  <2>1. PICK g \in BOOLEAN : readers' = (readers \ {r}) \cup {[r EXCEPT !.got = g]}
    BY <1>1 DEF Receive, NoteActivity
  <2>2. [r EXCEPT !.got = g].at = r.at /\ [r EXCEPT !.got = g].conn = r.conn
    BY DEF TypeOK
  <2>3. \A p \in Peer, c \in Conn : Reading(p, c) => Reading(p, c)' BY <2>1, <2>2 DEF Reading
  <2>4. UNCHANGED <<stage, ends, entering, connections, closed>>
    BY <1>1 DEF Receive, NoteActivity, connVars
  <2> QED BY <2>3, <2>4, RestKept
<1>2. ASSUME UNCHANGED <<stage, ends, entering, closed, connections, readers>> PROVE Rest'
  BY <1>2, RestKept DEF Reading
<1>3. ASSUME NEW p \in Peer, NEW q \in Peer,
             Silence(p, q) \/ checkHeartbeats(p, q) \/ SendFails(p, q)
      PROVE Rest'
  BY <1>2, <1>3 DEF Silence, checkHeartbeats, SendFails, connVars, mapVars
<1>4. ASSUME NEW c \in Conn, Break(c) PROVE Rest' BY <1>2, <1>4 DEF Break, mapVars
<1>5. CASE UNCHANGED vars BY <1>2, <1>5 DEF vars, connVars, mapVars
<1> QED
  BY <1>1, <1>3, <1>4, <1>5, ConnectRest, DialRest, HandshakeRest, RegisterRest, GiveUpRest,
     ReaderEndsRest, CloseRest, StopRest
     DEF Next, Dials, Decide, System, Handshake, ReadLoop, Faults

LEMMA ConnectionsInvariant == Spec => []ConnectionInv
<1>1. Init => ConnectionInv
  <2> SUFFICES ASSUME Init PROVE Linked /\ StoredOrClosed /\ EveryConnectionIsRead
    BY InitTypes DEF ConnectionInv
  <2>1. Linked BY DEF Init, Linked
  <2>2. StoredOrClosed BY DEF Init, StoredOrClosed
  <2>3. EveryConnectionIsRead BY DEF Init, EveryConnectionIsRead
  <2> QED BY <2>1, <2>2, <2>3
<1>2. ConnectionInv /\ [Next]_vars => ConnectionInv'
  BY TypeStep, RestStep DEF ConnectionInv, Rest
<1> QED BY <1>1, <1>2, PTL DEF Spec

-----------------------------------------------------------------------------
(* Every connection in a peer's map has its read loop, and once nothing is under
   way two peers have the same connection to each other (handleIncomingConnection
   and Connect register the two ends each on their own).                     *)
THEOREM NoHalfConnections == Spec => []ConnectionsWhole
<1>1. ConnectionInv => ConnectionsWhole
  <2> SUFFICES ASSUME ConnectionInv, Settled, broken = {} PROVE
               \A p, q \in Peer : connections[p][q] = connections[q][p]
    BY DEF ConnectionsWhole, EndsMatch, ConnectionInv
  <2>a. TypeOK /\ Rest BY DEF ConnectionInv, Rest
  <2>1. ASSUME NEW p \in Peer, NEW q \in Peer, connections[p][q] # None
        PROVE  connections[q][p] = connections[p][q]
    <3>1. PICK c \in Conn : /\ c = connections[p][q] /\ stage[c] = "done"
                            /\ ends[c] \in {<<p, q>>, <<q, p>>}
      BY <2>a, <2>1, StoredIs DEF Rest
    <3>2. q \in EndsOf(c) /\ Other(q, c) = p /\ Other(p, c) = q BY <2>a, <3>1, EndsAre
    <3>3. PICK r \in readers : r.at = p /\ r.conn = c
      BY <2>a, <2>1, <3>1 DEF Rest, EveryConnectionIsRead, Reading
    <3>4. ~Ended(p, c) BY <3>3 DEF Settled
    <3>5. ~ClosedBy(q, c) BY <3>2, <3>4 DEF Ended
    <3>6. <<q, c>> \notin entering
      <4>1. ends[c][1] \in Peer BY <2>a DEF TypeOK
      <4> QED BY <4>1 DEF Settled, Dialling, DialledBy
    <3> QED BY <2>a, <3>1, <3>2, <3>5, <3>6 DEF Rest, StoredOrClosed
  <2> QED BY <2>1
<1> QED BY <1>1, ConnectionsInvariant, PTL

(* A connection in use at both ends is not taken down by what is left of an
   earlier one: only a break, a replacement, a decision to close or a Stop ends
   it (closeConnectionIfMatch compares before it closes).                     *)
THEOREM LiveConnectionsStay == Spec => LiveOnesStay
<1> DEFINE Kept == \A c \in Conn : LET p == ends[c][1]
                                       q == ends[c][2]
     IN Established(c) /\ ~Established(c)' =>
          \/ c \in broken'
          \/ connections'[p][q] \notin {None, c} \/ connections'[q][p] \notin {None, c}
          \/ dropping' # dropping
          \/ running' # running
<1>1. ConnectionInv /\ [Next]_vars => [Kept]_vars
  <2> SUFFICES ASSUME ConnectionInv, Next, NEW c \in Conn, NEW p, NEW q,
                      p = ends[c][1], q = ends[c][2], Established(c),
                      c \notin broken', dropping' = dropping, running' = running,
                      connections'[p][q] \in {None, c}, connections'[q][p] \in {None, c}
               PROVE  Established(c)'
    OBVIOUS
  <2>a. TypeOK /\ Linked BY DEF ConnectionInv
  <2>b. p \in Peer /\ q \in Peer /\ p # q /\ ends[c] = <<p, q>>
    <3>1. ends[c] \in {e \in Peer \X Peer : e[1] # e[2]} BY <2>a DEF TypeOK
    <3> QED BY <3>1, SMTT(30)
  <2>c. connections[p][q] = c /\ connections[q][p] = c /\ Alive(c) BY DEF Established
  <2>d. c # None BY NoneIsNoConn
  <2>e. ASSUME NEW a \in Peer, NEW b \in Peer, connections[a][b] = c
        PROVE  (a = p /\ b = q) \/ (a = q /\ b = p)
    <3>1. ends[c] \in {<<a, b>>, <<b, a>>} BY <2>a, <2>d, <2>e, StoredIs
    <3> QED BY <2>b, <3>1, SMTT(30)
  <2>f. ASSUME ends'[c] = ends[c], connections'[p][q] = c, connections'[q][p] = c,
               \A a \in Peer : <<a, c>> \notin closed'
        PROVE  Established(c)'
    BY <2>b, <2>f DEF Established, Alive, ClosedBy
  <2>g. \A a \in Peer : <<a, c>> \notin closed BY <2>c DEF Alive, ClosedBy
  <2>h. ASSUME ends' = ends, connections' = connections, closed' = closed PROVE Established(c)'
    BY <2>c, <2>f, <2>g, <2>h
  <2>1. ASSUME NEW a \in Peer, NEW b \in Peer, NEW x \in Conn, Connect(a, b, x)
        PROVE  Established(c)'
    <3>1. x # c BY <2>1, <2>b, <2>c DEF Connect, Free
    <3>2. ends'[c] = ends[c] BY <2>1, <3>1, SMTT(30) DEF Connect
    <3>3. connections' = connections /\ closed' \subseteq closed BY <2>1 DEF Connect, mapVars
    <3> QED BY <2>c, <2>f, <2>g, <3>2, <3>3
  <2>2. ASSUME NEW x \in Conn, Dial(x) \/ handleIncomingConnection(x) PROVE Established(c)'
    BY <2>2, <2>h DEF Dial, handleIncomingConnection, mapVars
  <2>3. ASSUME NEW x \in Conn, GiveUp(x) PROVE Established(c)'
    <3>1. x # c BY <2>3, <2>c DEF GiveUp, Alive
    <3>2. \A a \in Peer : <<a, c>> \notin closed' BY <2>3, <2>g, <3>1, SMTT(30) DEF GiveUp
    <3> QED BY <2>3, <2>c, <2>f, <3>2 DEF GiveUp, mapVars
  <2>4. ASSUME NEW x \in Conn, NEW a \in Peer, RegisterEnd(a, x) PROVE Established(c)'
    <3>1. PICK b \in Peer : b = Other(a, x) BY <2>a, OtherIsPeer
    <3>2. /\ closed' = closed \cup {<<a, y>> : y \in {connections[a][b]} \ {None}}
          /\ connections' = Set(connections, a, b, x)
          /\ ends' = ends /\ <<a, x>> \in entering
      BY <2>4, <3>1 DEF RegisterEnd, Register
    <3>3. \A u, v \in Peer : connections'[u][v] = IF u = a /\ v = b THEN x ELSE connections[u][v]
      <4>1. connections \in [Peer -> [Peer -> Conn \cup {None}]] /\ x \in Conn \cup {None}
        BY <2>a DEF TypeOK
      <4>2. \A u, v \in Peer :
              Set(connections, a, b, x)[u][v] = IF u = a /\ v = b THEN x ELSE connections[u][v]
        BY <4>1 DEF Set
      <4> QED BY <3>2, <4>2
    <3>4. <<p, c>> \notin entering /\ <<q, c>> \notin entering
      BY <2>a, <2>b, <2>c, <2>d, StoredIs
    <3>5. connections[a][b] # c
      <4>1. SUFFICES ASSUME connections[a][b] = c PROVE FALSE OBVIOUS
      <4>2. (a = p /\ b = q) \/ (a = q /\ b = p) BY <2>e, <4>1
      <4>3. x # c BY <3>2, <3>4, <4>2
      <4>4. x # None BY NoneIsNoConn
      <4>5. connections'[p][q] = x \/ connections'[q][p] = x BY <2>b, <3>3, <4>2
      <4> QED BY <4>3, <4>4, <4>5
    <3>6. \A u \in Peer : <<u, c>> \notin closed' BY <2>g, <3>2, <3>5
    <3>7. connections'[p][q] = c /\ connections'[q][p] = c BY <2>b, <2>c, <3>3, <3>5
    <3> QED BY <2>f, <3>2, <3>6, <3>7
  <2>5. ASSUME NEW r \in readers, Receive(r) \/ NoteActivity(r) PROVE Established(c)'
    BY <2>5, <2>h DEF Receive, NoteActivity, connVars
  <2>6. ASSUME NEW r \in readers, closeConnectionIfMatch(r) PROVE Established(c)'
    <3>1. PICK a \in Peer : a = r.at BY <2>a DEF TypeOK
    <3>2. PICK d \in Conn : d = r.conn BY <2>a DEF TypeOK
    <3>3. PICK b \in Peer : b = Other(a, d) BY <2>a, OtherIsPeer
    <3>4. /\ ends' = ends /\ Ended(a, d)
          /\ IF connections[a][b] = d THEN Unregister(a, b)
                                      ELSE UNCHANGED <<closed, connections, lastSeen>>
      BY <2>6, <3>1, <3>2, <3>3 DEF closeConnectionIfMatch
    <3>5. d # c
      <4>1. Ended(a, d) => \E u \in Peer : <<u, d>> \in closed BY <3>3 DEF Ended, ClosedBy
      <4> QED BY <2>g, <3>4, <4>1
    <3>6. CASE connections[a][b] = d
      <4>1. /\ \A u, v \in Peer : connections'[u][v] = IF u = a /\ v = b THEN None ELSE connections[u][v]
            /\ closed' = closed \cup {<<a, connections[a][b]>>}
        BY <2>a, <3>4, <3>6, UnregisterFacts
      <4>2. connections'[p][q] = c /\ connections'[q][p] = c BY <2>b, <2>c, <3>5, <3>6, <4>1
      <4>3. \A u \in Peer : <<u, c>> \notin closed' BY <2>g, <3>5, <3>6, <4>1
      <4> QED BY <2>f, <3>4, <4>2, <4>3
    <3>7. CASE connections[a][b] # d BY <2>h, <3>4, <3>7
    <3> QED BY <3>6, <3>7
  <2>7. ASSUME NEW a \in Peer, NEW b \in Peer,
               Silence(a, b) \/ checkHeartbeats(a, b) \/ SendFails(a, b)
        PROVE  Established(c)'
    BY <2>7, <2>h DEF Silence, checkHeartbeats, SendFails, connVars, mapVars
  <2>8. ASSUME NEW a \in Peer, NEW b \in Peer, CloseConnection(a, b) PROVE FALSE
    BY <2>8 DEF CloseConnection
  <2>9. ASSUME NEW x \in Conn, Break(x) PROVE Established(c)'
    BY <2>9, <2>h DEF Break, mapVars
  <2>10. ASSUME NEW a \in Peer, Stop(a) PROVE FALSE
    <3>1. running[a] = TRUE /\ running' = [running EXCEPT ![a] = FALSE] BY <2>10, <2>a DEF Stop, TypeOK
    <3>2. running'[a] = FALSE BY <2>a, <3>1 DEF TypeOK
    <3> QED BY <3>1, <3>2
  <2> QED
    BY <2>1, <2>2, <2>3, <2>4, <2>5, <2>6, <2>7, <2>8, <2>9, <2>10
       DEF Next, Dials, Decide, System, Handshake, ReadLoop, Faults
<1>2. [][Kept]_vars => LiveOnesStay BY DEF LiveOnesStay
<1> QED BY <1>1, <1>2, ConnectionsInvariant, PTL DEF Spec
=============================================================================
