------------------------------- MODULE IpcProofs -------------------------------
(***************************************************************************)
(* Proofs about both ends of the IPC connection: the coordinator's server, *)
(* for any number of clients, senders and messages and any capacity of the *)
(* queue, and the daemon's client, for any number of connections.          *)
(***************************************************************************)
EXTENDS IpcServer, IpcFrames, SequenceTheorems, TLAPS

USE ZenonT(30)

-----------------------------------------------------------------------------
(* The server.                                                               *)

(* What is in an empty sequence, in one after an element was appended ...       *)
LEMMA NoneInEmpty == Range(<<>>) = {}
  BY SMTT(30) DEF Range

LEMMA AppendRange ==
  ASSUME NEW S, NEW q \in Seq(S), NEW x \in S
  PROVE  Range(Append(q, x)) = Range(q) \cup {x}
<1>1. /\ Append(q, x) \in Seq(S) /\ Len(Append(q, x)) = Len(q) + 1 /\ Len(q) \in Nat
      /\ \A i \in 1 .. Len(q) : Append(q, x)[i] = q[i]
      /\ Append(q, x)[Len(q) + 1] = x
  BY AppendProperties, LenProperties, SMTT(30)
<1>2. DOMAIN Append(q, x) = 1 .. (Len(q) + 1) /\ DOMAIN q = 1 .. Len(q) BY <1>1, LenProperties
<1>3. 1 .. (Len(q) + 1) = (1 .. Len(q)) \cup {Len(q) + 1} BY <1>1, SMTT(30)
<1> QED BY <1>1, <1>2, <1>3, SMTT(30) DEF Range

(* ... and in what its first element is taken from.                          *)
LEMMA TailRange ==
  ASSUME NEW S, NEW q \in Seq(S), q # <<>>
  PROVE  /\ Head(q) \in S /\ Tail(q) \in Seq(S) /\ Len(Tail(q)) = Len(q) - 1
         /\ Range(q) = {Head(q)} \cup Range(Tail(q))
         /\ (\A i, j \in DOMAIN q : q[i] = q[j] => i = j) =>
              /\ \A i, j \in DOMAIN Tail(q) : Tail(q)[i] = Tail(q)[j] => i = j
              /\ Head(q) \notin Range(Tail(q))
<1>1. /\ Head(q) \in S /\ Tail(q) \in Seq(S) /\ Len(Tail(q)) = Len(q) - 1
      /\ \A i \in 1 .. Len(Tail(q)) : Tail(q)[i] = q[i + 1]
  BY HeadTailProperties
<1>2. Len(q) \in Nat \ {0} /\ Head(q) = q[1] BY EmptySeq, LenProperties, SMTT(30)
<1>3. DOMAIN q = 1 .. Len(q) /\ DOMAIN Tail(q) = 1 .. (Len(q) - 1) BY <1>1, LenProperties
<1>4. \A i \in 1 .. (Len(q) - 1) : Tail(q)[i] = q[i + 1] /\ i + 1 \in 1 .. Len(q) /\ i + 1 # 1
  BY <1>1, <1>2, SMTT(30)
<1>5. \A i \in 1 .. Len(q) : i = 1 \/ (i - 1 \in 1 .. (Len(q) - 1) /\ (i - 1) + 1 = i) BY <1>2, SMTT(30)
<1>6. Range(q) = {Head(q)} \cup Range(Tail(q))
  <2>1. ASSUME NEW i \in 1 .. Len(q) PROVE q[i] \in {Head(q)} \cup Range(Tail(q))
    <3>1. CASE i = 1 BY <3>1, <1>2
    <3>2. CASE i # 1
      <4>1. i - 1 \in DOMAIN Tail(q) /\ q[i] = Tail(q)[i - 1] BY <3>2, <1>3, <1>4, <1>5
      <4> QED BY <4>1 DEF Range
    <3> QED BY <3>1, <3>2
  <2>2. Head(q) \in Range(q) BY <1>2, <1>3, SMTT(30) DEF Range
  <2>3. Range(Tail(q)) \subseteq Range(q) BY <1>3, <1>4 DEF Range
  <2> QED BY <2>1, <2>2, <2>3, <1>3 DEF Range
<1>7. ASSUME \A i, j \in DOMAIN q : q[i] = q[j] => i = j
      PROVE  /\ \A i, j \in DOMAIN Tail(q) : Tail(q)[i] = Tail(q)[j] => i = j
             /\ Head(q) \notin Range(Tail(q))
  BY <1>2, <1>3, <1>4, <1>7, SMTT(30) DEF Range
<1> QED BY <1>1, <1>6, <1>7

LEMMA NoMessageType == NoMessage \in Message
BY IpcAssumption, SMTT(30) DEF NoMessage, Message

(* Type correctness.                                                         *)
LEMMA TypeStep == TypeOK /\ [Next]_vars => TypeOK'
<1> SUFFICES ASSUME TypeOK, [Next]_vars PROVE TypeOK' OBVIOUS
<1> USE DEF TypeOK, At, GoTo, sendVars, clientVars
<1>1. ASSUME NEW s \in Sender, NEW type \in StateType \cup {Command}, CacheState(s, type) PROVE TypeOK'
  <2> DEFINE m == [n |-> made + 1, type |-> type]
  <2>1. m \in Message /\ made' \in 0 .. MaxMessages BY <1>1, IpcAssumption, SMTT(30) DEF CacheState, Message
  <2> HIDE DEF m
  <2>2. /\ sending' = [sending EXCEPT ![s] = [at |-> "cached", msg |-> m]]
        /\ latestMessages' = IF type \in StateType THEN [latestMessages EXCEPT ![type] = m]
                                                   ELSE latestMessages
    BY <1>1 DEF CacheState, m
  <2>3. UNCHANGED <<rlocks, stopped, loop, ToC, clientVars, writers, received, full>>
    BY <1>1 DEF CacheState
  <2> QED BY <2>1, <2>2, <2>3
<1>2. ASSUME NEW s \in Sender, CheckStopped(s) PROVE TypeOK'
  <2>1. sending' \in [Sender -> [at : {"idle", "cached", "checked"}, msg : Message]]
    <3>1. sending' = [sending EXCEPT ![s] = Idle] \/ sending' = [sending EXCEPT ![s].at = "checked"]
      BY <1>2 DEF CheckStopped
    <3>2. CASE sending' = [sending EXCEPT ![s] = Idle] BY <3>2, NoMessageType DEF Idle
    <3>3. CASE sending' = [sending EXCEPT ![s].at = "checked"] BY <3>3
    <3> QED BY <3>1, <3>2, <3>3
  <2>2. rlocks' \subseteq Sender BY <1>2 DEF CheckStopped
  <2>3. UNCHANGED <<made, stopped, loop, ToC, latestMessages, clientVars, writers, received, full>>
    BY <1>2 DEF CheckStopped
  <2> QED BY <2>1, <2>2, <2>3
<1>3. ASSUME NEW s \in Sender, Enqueue(s) PROVE TypeOK'
  <2>1. sending' \in [Sender -> [at : {"idle", "cached", "checked"}, msg : Message]]
    BY <1>3, NoMessageType DEF Enqueue, Idle
  <2>2. rlocks' \subseteq Sender BY <1>3 DEF Enqueue
  <2>3. ToC' \in Seq(Message) /\ Len(ToC') <= Capacity
    <3>1. sending[s].msg \in Message /\ Len(ToC) \in Nat BY LenProperties
    <3>2. Append(ToC, sending[s].msg) \in Seq(Message)
          /\ Len(Append(ToC, sending[s].msg)) = Len(ToC) + 1 BY <3>1, AppendProperties
    <3>3. CASE ToC' = Append(ToC, sending[s].msg) /\ Len(ToC) < Capacity
      BY <3>1, <3>2, <3>3, IpcAssumption, SMTT(30)
    <3> QED BY <1>3, <3>3 DEF Enqueue
  <2>4. UNCHANGED <<made, stopped, loop, latestMessages, clientVars, writers, received>>
    BY <1>3 DEF Enqueue
  <2> QED BY <2>1, <2>2, <2>3, <2>4
<1>4. ASSUME handleOutgoingMessages PROVE TypeOK'
  <2>1. UNCHANGED <<sendVars, stopped, latestMessages, clientVars, received, full>>
    BY <1>4 DEF handleOutgoingMessages
  <2>2. CASE UNCHANGED <<ToC, writers>> BY <2>1, <2>2
  <2>3. CASE /\ ToC # <<>> /\ ToC' = Tail(ToC)
             /\ writers' = writers \cup {[to |-> c, msg |-> Head(ToC), replay |-> FALSE] : c \in clients}
    <3>1. Head(ToC) \in Message /\ ToC' \in Seq(Message) /\ Len(ToC') = Len(ToC) - 1 /\ Len(ToC) \in Nat
      BY <2>3, TailRange, LenProperties
    <3>2. Len(ToC') <= Capacity BY <3>1, IpcAssumption, SMTT(30)
    <3>3. ASSUME NEW c \in clients
          PROVE  [to |-> c, msg |-> Head(ToC), replay |-> FALSE]
                   \in [to : Client, msg : Message, replay : BOOLEAN]
      BY <3>1
    <3>4. writers' \subseteq [to : Client, msg : Message, replay : BOOLEAN] BY <2>3, <3>3
    <3> QED BY <2>1, <3>1, <3>2, <3>4
  <2> QED BY <1>4, <2>2, <2>3 DEF handleOutgoingMessages
<1>5. ASSUME NEW w \in writers, Write(w) PROVE TypeOK'
  <2>1. received' \in [Client -> Seq(Message)] BY <1>5, AppendProperties DEF Write
  <2> QED BY <1>5, <2>1 DEF Write
<1>6. ASSUME NEW c \in Client, acceptConnections(c) PROVE TypeOK' BY <1>6 DEF acceptConnections
<1>7. ASSUME NEW c \in Client, replayStateMessages(c) PROVE TypeOK'
  <2>1. Range(latestMessages) \subseteq Message BY DEF Range
  <2>2. ASSUME NEW m \in Range(latestMessages)
        PROVE  [to |-> c, msg |-> m, replay |-> TRUE] \in [to : Client, msg : Message, replay : BOOLEAN]
    BY <2>1
  <2>3. writers' \subseteq writers \cup
          {[to |-> c, msg |-> m, replay |-> TRUE] : m \in Range(latestMessages) \ {NoMessage}}
    BY <1>7 DEF replayStateMessages
  <2>4. writers' \subseteq [to : Client, msg : Message, replay : BOOLEAN]
    <3>1. \A w \in writers' : w \in writers \/ \E m \in Range(latestMessages) :
            w = [to |-> c, msg |-> m, replay |-> TRUE]
      BY <2>3
    <3> QED BY <2>2, <3>1
  <2> QED BY <1>7, <2>4 DEF replayStateMessages
<1>8. ASSUME NEW c \in Client, handleClient(c) PROVE TypeOK' BY <1>8 DEF handleClient
<1>9. CASE Stop BY <1>9 DEF Stop
<1>10. CASE UNCHANGED vars BY <1>10 DEF vars
<1> HIDE DEF TypeOK, At, GoTo, sendVars, clientVars
<1> QED BY <1>1, <1>2, <1>3, <1>4, <1>5, <1>6, <1>7, <1>8, <1>9, <1>10 DEF Next, SendMessage

(* The read lock.                                                            *)
LEMMA LockStep == TypeOK /\ LockHeld /\ [Next]_vars => LockHeld'
<1> SUFFICES ASSUME TypeOK, LockHeld, [Next]_vars PROVE LockHeld' OBVIOUS
<1> USE DEF TypeOK, LockHeld, At, GoTo, sendVars, clientVars
<1>1. ASSUME NEW s \in Sender, NEW type \in StateType \cup {Command}, CacheState(s, type) PROVE LockHeld'
  BY <1>1 DEF CacheState
<1>2. ASSUME NEW s \in Sender, CheckStopped(s) PROVE LockHeld'
  <2>1. CASE stopped
    <3>1. sending' = [sending EXCEPT ![s] = Idle] /\ rlocks' = rlocks /\ clients' = clients
      BY <1>2, <2>1 DEF CheckStopped
    <3>2. rlocks = {} /\ clients = {} BY <2>1
    <3>3. \A u \in Sender : sending'[u].at # "checked" BY <3>1, <3>2 DEF Idle
    <3> QED BY <3>1, <3>2, <3>3
  <2>2. CASE ~stopped
    <3>1. sending' = [sending EXCEPT ![s].at = "checked"] /\ rlocks' = rlocks \cup {s}
          /\ UNCHANGED <<stopped, clients>>
      BY <1>2, <2>2 DEF CheckStopped
    <3>2. \A u \in Sender : sending'[u].at = IF u = s THEN "checked" ELSE sending[u].at BY <3>1
    <3>3. rlocks' = {u \in Sender : sending'[u].at = "checked"} BY <3>1, <3>2
    <3>4. ~stopped' BY <1>2, <2>2 DEF CheckStopped
    <3> QED BY <3>3, <3>4
  <2> QED BY <2>1, <2>2
<1>3. ASSUME NEW s \in Sender, Enqueue(s) PROVE LockHeld' BY <1>3 DEF Enqueue, Idle
<1>4. CASE handleOutgoingMessages BY <1>4 DEF handleOutgoingMessages
<1>5. ASSUME NEW w \in writers, Write(w) PROVE LockHeld' BY <1>5 DEF Write
<1>6. ASSUME NEW c \in Client, acceptConnections(c) PROVE LockHeld' BY <1>6 DEF acceptConnections
<1>7. ASSUME NEW c \in Client, replayStateMessages(c) PROVE LockHeld' BY <1>7 DEF replayStateMessages
<1>8. ASSUME NEW c \in Client, handleClient(c) PROVE LockHeld' BY <1>8 DEF handleClient
<1>9. CASE Stop BY <1>9 DEF Stop
<1>10. CASE UNCHANGED vars BY <1>10 DEF vars
<1> HIDE DEF TypeOK, LockHeld, At, GoTo, sendVars, clientVars
<1> QED BY <1>1, <1>2, <1>3, <1>4, <1>5, <1>6, <1>7, <1>8, <1>9, <1>10 DEF Next, SendMessage

-----------------------------------------------------------------------------
(* What is left to send after a step of a sender.                            *)
LEMMA ToSendFacts ==
  ASSUME TypeOK, NEW s \in Sender
  PROVE  /\ \A type \in StateType \cup {Command} : CacheState(s, type) =>
              ToSend' = ToSend \cup {[n |-> made + 1, type |-> type]}
         /\ CheckStopped(s) => ToSend' \subseteq ToSend /\ (~stopped => ToSend' = ToSend)
         /\ Enqueue(s) => /\ ToSend' \subseteq ToSend
                          /\ ToSend \subseteq ToSend' \cup {sending[s].msg}
                          /\ sending[s].msg \in ToSend
<1> USE DEF TypeOK, At, GoTo, ToSend
<1>1. ASSUME NEW type \in StateType \cup {Command}, CacheState(s, type)
      PROVE  ToSend' = ToSend \cup {[n |-> made + 1, type |-> type]}
  <2> DEFINE m == [n |-> made + 1, type |-> type]
  <2>1. sending' = [sending EXCEPT ![s] = [at |-> "cached", msg |-> m]] /\ sending[s].at = "idle"
    BY <1>1 DEF CacheState
  <2> HIDE DEF m
  <2>2. ToSend' = ToSend \cup {m}
    <3>1. /\ sending'[s].at = "cached" /\ sending'[s].msg = m
          /\ \A u \in Sender \ {s} : sending'[u] = sending[u]
      BY <2>1
    <3> QED BY <2>1, <3>1
  <2> QED BY <2>2 DEF m
<1>2. ASSUME CheckStopped(s)
      PROVE  ToSend' \subseteq ToSend /\ (~stopped => ToSend' = ToSend)
  <2>1. CASE sending' = [sending EXCEPT ![s] = Idle] /\ stopped BY <2>1 DEF Idle
  <2>2. CASE sending' = [sending EXCEPT ![s].at = "checked"]
    <3>1. \A u \in Sender : sending'[u].msg = sending[u].msg
                           /\ (sending'[u].at = "idle" <=> sending[u].at = "idle")
      BY <1>2, <2>2 DEF CheckStopped
    <3> QED BY <3>1, SMTT(30)
  <2> QED BY <1>2, <2>1, <2>2 DEF CheckStopped
<1>3. ASSUME Enqueue(s)
      PROVE  /\ ToSend' \subseteq ToSend /\ ToSend \subseteq ToSend' \cup {sending[s].msg}
             /\ sending[s].msg \in ToSend
  <2>1. sending' = [sending EXCEPT ![s] = Idle] /\ sending[s].at = "checked" BY <1>3 DEF Enqueue
  <2>2. sending'[s].at = "idle" /\ \A u \in Sender \ {s} : sending'[u] = sending[u]
    BY <2>1 DEF Idle
  <2> QED BY <2>1, <2>2
<1> QED BY <1>1, <1>2, <1>3

-----------------------------------------------------------------------------
(* The places of messages in a step that moves none.                         *)
LEMMA SamePlaces ==
  ASSUME AllNumbered, OnePlace, UNCHANGED <<made, sending, ToC, latestMessages, writers, received>>
  PROVE  AllNumbered' /\ OnePlace' /\ ToSend' = ToSend
<1>1. ToSend' = ToSend BY DEF ToSend, At
<1>2. AllNumbered' BY <1>1 DEF AllNumbered, Numbered
<1>3. OnePlace' BY <1>1 DEF OnePlace, At
<1> QED BY <1>1, <1>2, <1>3

(* CacheState makes a message with a number of its own.                      *)
LEMMA CacheStep ==
  ASSUME ServerInv, NEW s \in Sender, NEW type \in StateType \cup {Command}, CacheState(s, type)
  PROVE  AllNumbered' /\ OnePlace' /\ StateOnItsWay'
<1> PICK m : m = [n |-> made + 1, type |-> type] OBVIOUS
<1>1. /\ UNCHANGED <<ToC, clients, replays, writers, received, full>>
      /\ made' = made + 1 /\ made \in Nat
      /\ sending' = [sending EXCEPT ![s] = [at |-> "cached", msg |-> m]] /\ sending[s].at = "idle"
      /\ latestMessages' = IF type \in StateType THEN [latestMessages EXCEPT ![type] = m]
                                                 ELSE latestMessages
  BY IpcAssumption, SMTT(30) DEF CacheState, At, clientVars, ServerInv, TypeOK
<1>2. ToSend' = ToSend \cup {m} BY ToSendFacts DEF ServerInv
<1>3. m.n = made + 1 /\ m.type = type OBVIOUS
<1>4. \A x : Numbered(x) => Numbered(x)' BY <1>1, SMTT(30) DEF Numbered
<1>5. Numbered(m)' /\ ~Numbered(m) BY <1>1, <1>3, SMTT(30) DEF Numbered
<1>6. \A t \in StateType : latestMessages'[t] = IF t = type THEN m ELSE latestMessages[t]
  BY <1>1, IpcAssumption DEF ServerInv, TypeOK
<1>7. AllNumbered'
  <2>1. \A x \in ToSend' \cup Range(ToC') : Numbered(x)'
    BY <1>1, <1>2, <1>4, <1>5 DEF ServerInv, AllNumbered
  <2>2. \A t \in StateType : latestMessages'[t] # NoMessage =>
          latestMessages'[t].type = t /\ Numbered(latestMessages[t])'
    BY <1>3, <1>4, <1>5, <1>6 DEF ServerInv, AllNumbered
  <2>3. \A w \in writers' : Numbered(w.msg)' BY <1>1, <1>4 DEF ServerInv, AllNumbered
  <2>4. \A c \in Client : \A x \in Range(received'[c]) : Numbered(x)'
    BY <1>1, <1>4 DEF ServerInv, AllNumbered
  <2> QED BY <2>1, <2>2, <2>3, <2>4 DEF AllNumbered
<1>8. m \notin ToSend \cup Range(ToC) /\ (\A w \in writers : w.msg # m)
      /\ \A c \in Client : m \notin Range(received[c])
  BY <1>5 DEF ServerInv, AllNumbered
<1>9. OnePlace'
  <2>1. \A u, v \in Sender : sending'[u].at # "idle" /\ sending'[v].at # "idle"
          /\ sending'[u].msg = sending'[v].msg => u = v
    <3>1. \A u \in Sender : sending'[u] = IF u = s THEN [at |-> "cached", msg |-> m] ELSE sending[u]
      BY <1>1 DEF ServerInv, TypeOK
    <3>2. \A u \in Sender : sending[u].at # "idle" => sending[u].msg # m BY <1>8 DEF ToSend, At
    <3>3. \A u, v \in Sender : sending[u].at # "idle" /\ sending[v].at # "idle"
            /\ sending[u].msg = sending[v].msg => u = v
      BY DEF ServerInv, OnePlace, At
    <3> QED BY <3>1, <3>2, <3>3, SMTT(30)
  <2>2. \A i, j \in DOMAIN ToC' : ToC'[i] = ToC'[j] => i = j BY <1>1 DEF ServerInv, OnePlace
  <2>3. ToSend' \cap Range(ToC') = {} BY <1>1, <1>2, <1>8 DEF ServerInv, OnePlace
  <2>4. \A w \in writers' : w.msg.type = Command =>
          ~w.replay /\ w.msg \notin ToSend' \cup Range(ToC') /\ w.msg \notin Range(received'[w.to])
    BY <1>1, <1>2, <1>8 DEF ServerInv, OnePlace
  <2>5. \A c \in Client : \A x \in Range(received'[c]) :
          x.type = Command => x \notin ToSend' \cup Range(ToC')
    BY <1>1, <1>2, <1>8 DEF ServerInv, OnePlace
  <2> QED BY <2>1, <2>2, <2>3, <2>4, <2>5 DEF OnePlace, At
<1>10. StateOnItsWay'
  BY <1>1, <1>2, <1>6, SMTT(30) DEF ServerInv, StateOnItsWay, OnItsWay
<1> QED BY <1>7, <1>9, <1>10

(* CheckStopped drops a message only when there are no clients any more.     *)
LEMMA CheckStep ==
  ASSUME ServerInv, NEW s \in Sender, CheckStopped(s)
  PROVE  AllNumbered' /\ OnePlace' /\ StateOnItsWay'
<1>1. UNCHANGED <<made, stopped, ToC, latestMessages, clients, replays, writers, received, full>>
  BY DEF CheckStopped, clientVars
<1>2. ToSend' \subseteq ToSend /\ (~stopped => ToSend' = ToSend) BY ToSendFacts DEF ServerInv
<1>3. AllNumbered' BY <1>1, <1>2 DEF ServerInv, AllNumbered, Numbered
<1>4. \A u \in Sender : sending'[u].at # "idle" =>
        sending[u].at # "idle" /\ sending'[u].msg = sending[u].msg
  <2>1. CASE sending' = [sending EXCEPT ![s] = Idle] BY <2>1 DEF Idle, ServerInv, TypeOK
  <2>2. CASE sending' = [sending EXCEPT ![s].at = "checked"]
    BY <2>2 DEF ServerInv, TypeOK, CheckStopped, At
  <2> QED BY <2>1, <2>2 DEF CheckStopped, GoTo
<1>5. OnePlace' BY <1>1, <1>2, <1>4 DEF ServerInv, OnePlace, At
<1>6. StateOnItsWay'
  <2>1. CASE stopped BY <1>1, <2>1 DEF ServerInv, LockHeld, StateOnItsWay
  <2>2. CASE ~stopped BY <1>1, <1>2, <2>2 DEF ServerInv, StateOnItsWay, OnItsWay
  <2> QED BY <2>1, <2>2
<1> QED BY <1>3, <1>5, <1>6

(* Enqueue moves the message from its sender to the queue, or drops it.      *)
LEMMA EnqueueStep ==
  ASSUME ServerInv, NEW s \in Sender, Enqueue(s)
  PROVE  AllNumbered' /\ OnePlace' /\ StateOnItsWay'
<1> DEFINE m == sending[s].msg
<1>1. UNCHANGED <<made, stopped, latestMessages, clients, replays, writers, received>>
  BY DEF Enqueue, clientVars
<1>2. /\ ToSend' \subseteq ToSend /\ ToSend \subseteq ToSend' \cup {m} /\ m \in ToSend
  BY ToSendFacts DEF ServerInv
<1>3. /\ sending[s].at = "checked" /\ sending'[s].at = "idle"
      /\ \A u \in Sender \ {s} : sending'[u] = sending[u]
  BY DEF Enqueue, At, Idle, ServerInv, TypeOK
<1>4. m \notin ToSend'
  BY <1>3 DEF ToSend, At, ServerInv, OnePlace
<1>5. m \in Message /\ ToC \in Seq(Message) BY DEF ServerInv, TypeOK
<1>6. CASE ToC' = Append(ToC, m) /\ full' = full
  <2>1. Range(ToC') = Range(ToC) \cup {m} BY <1>5, <1>6, AppendRange, SMTT(30)
  <2>2. AllNumbered' BY <1>1, <1>2, <2>1 DEF ServerInv, AllNumbered, Numbered
  <2>3. OnePlace'
    <3>1. \A i, j \in DOMAIN ToC' : ToC'[i] = ToC'[j] => i = j
      <4>1. /\ Len(ToC) \in Nat /\ DOMAIN ToC = 1 .. Len(ToC) /\ DOMAIN ToC' = 1 .. (Len(ToC) + 1)
            /\ \A i \in 1 .. Len(ToC) : ToC'[i] = ToC[i]
            /\ ToC'[Len(ToC) + 1] = m
        BY <1>5, <1>6, AppendProperties, LenProperties, SMTT(30)
      <4>2. \A i \in 1 .. Len(ToC) : ToC[i] # m BY <1>2, <4>1, SMTT(30) DEF ServerInv, OnePlace, Range
      <4>3. \A i, j \in 1 .. Len(ToC) : ToC[i] = ToC[j] => i = j BY <4>1 DEF ServerInv, OnePlace
      <4>4. \A i \in 1 .. (Len(ToC) + 1) : i \in 1 .. Len(ToC) \/ i = Len(ToC) + 1 BY <4>1, SMTT(30)
      <4> QED BY <4>1, <4>2, <4>3, <4>4
    <3>2. ToSend' \cap Range(ToC') = {} BY <1>2, <1>4, <2>1 DEF ServerInv, OnePlace
    <3>3. ToSend' \cup Range(ToC') \subseteq ToSend \cup Range(ToC) BY <1>2, <2>1
    <3> QED BY <1>1, <1>3, <3>1, <3>2, <3>3, SMTT(30) DEF ServerInv, OnePlace, At
  <2>4. StateOnItsWay'
    <3>1. ToSend \cup Range(ToC) \subseteq ToSend' \cup Range(ToC') BY <1>2, <2>1
    <3> QED BY <1>1, <1>6, <3>1 DEF ServerInv, StateOnItsWay, OnItsWay
  <2> QED BY <2>2, <2>3, <2>4
<1>7. CASE ToC' = ToC /\ full'
  <2>1. AllNumbered' BY <1>1, <1>2, <1>7 DEF ServerInv, AllNumbered, Numbered
  <2>2. OnePlace' BY <1>1, <1>2, <1>3, <1>7, SMTT(30) DEF ServerInv, OnePlace, At
  <2>3. StateOnItsWay' BY <1>7 DEF StateOnItsWay
  <2> QED BY <2>1, <2>2, <2>3
<1> QED BY <1>6, <1>7 DEF Enqueue

-----------------------------------------------------------------------------
(* The outgoing loop hands the first message to every client.                *)
LEMMA OutgoingStep ==
  ASSUME ServerInv, handleOutgoingMessages
  PROVE  AllNumbered' /\ OnePlace' /\ StateOnItsWay'
<1>1. /\ UNCHANGED <<made, sending, latestMessages, clients, replays, received, full>>
      /\ ToSend' = ToSend
  BY DEF handleOutgoingMessages, sendVars, clientVars, ToSend, At
<1>2. CASE UNCHANGED <<ToC, writers>>
  <2>1. AllNumbered' /\ OnePlace' BY <1>1, <1>2, SamePlaces DEF ServerInv
  <2>2. StateOnItsWay' BY <1>1, <1>2 DEF ServerInv, StateOnItsWay, OnItsWay
  <2> QED BY <2>1, <2>2
<1>3. CASE /\ ToC # <<>> /\ ToC' = Tail(ToC)
           /\ writers' = writers \cup {[to |-> c, msg |-> Head(ToC), replay |-> FALSE] : c \in clients}
  <2> PICK m : m = Head(ToC) OBVIOUS
  <2>1. /\ Range(ToC) = {m} \cup Range(ToC')
        /\ m \notin Range(ToC') /\ \A i, j \in DOMAIN ToC' : ToC'[i] = ToC'[j] => i = j
    BY <1>3, TailRange DEF ServerInv, TypeOK, OnePlace
  <2>2. m \in Range(ToC) /\ Numbered(m) BY <2>1 DEF ServerInv, AllNumbered
  <2>3. \A w \in writers' : w \in writers \/
          \E c \in clients : w = [to |-> c, msg |-> m, replay |-> FALSE]
    BY <1>3
  <2>4. ASSUME NEW c \in clients PROVE \E w \in writers' : w.to = c /\ w.msg = m
    <3>1. [to |-> c, msg |-> m, replay |-> FALSE] \in writers' BY <1>3
    <3> QED BY <3>1
  <2>5. clients \subseteq Client BY DEF ServerInv, TypeOK
  <2>6. AllNumbered'
    <3>1. \A w \in writers' : w.msg.n \in 1 .. made
      BY <2>2, <2>3, SMTT(30) DEF ServerInv, AllNumbered, Numbered
    <3> QED BY <1>1, <2>1, <3>1 DEF ServerInv, AllNumbered, Numbered
  <2>7. OnePlace'
    <3>1. ToSend' \cap Range(ToC') = {} BY <1>1, <2>1 DEF ServerInv, OnePlace
    <3>2. \A w \in writers' : w.msg.type = Command =>
            ~w.replay /\ w.msg \notin ToSend' \cup Range(ToC') /\ w.msg \notin Range(received'[w.to])
      <4> SUFFICES ASSUME NEW w \in writers', w.msg.type = Command
                   PROVE  ~w.replay /\ w.msg \notin ToSend' \cup Range(ToC')
                          /\ w.msg \notin Range(received'[w.to])
        OBVIOUS
      <4>1. CASE w \in writers BY <1>1, <2>1, <4>1 DEF ServerInv, OnePlace
      <4>2. ASSUME NEW c \in clients, w = [to |-> c, msg |-> m, replay |-> FALSE]
            PROVE  ~w.replay /\ w.msg \notin ToSend' \cup Range(ToC')
                   /\ w.msg \notin Range(received'[w.to])
        <5>1. w.to = c /\ w.msg = m /\ w.replay = FALSE BY <4>2
        <5>2. m \notin ToSend BY <2>2 DEF ServerInv, OnePlace
        <5>3. m \notin Range(received[c]) BY <2>2, <2>5, <5>1 DEF ServerInv, OnePlace
        <5> QED BY <1>1, <2>1, <5>1, <5>2, <5>3
      <4> QED BY <2>3, <4>1, <4>2
    <3>3. ToSend' \cup Range(ToC') \subseteq ToSend \cup Range(ToC) BY <1>1, <2>1
    <3>4. \A c \in Client : \A x \in Range(received'[c]) :
            x.type = Command => x \notin ToSend' \cup Range(ToC')
      BY <1>1, <3>3 DEF ServerInv, OnePlace
    <3>5. \A u, v \in Sender : sending'[u].at # "idle" /\ sending'[v].at # "idle"
            /\ sending'[u].msg = sending'[v].msg => u = v
      BY <1>1 DEF ServerInv, OnePlace, At
    <3> QED BY <2>1, <3>1, <3>2, <3>4, <3>5 DEF OnePlace, At
  <2>8. StateOnItsWay'
    <3> SUFFICES ASSUME ~full', NEW c \in clients', NEW t \in StateType,
                        latestMessages'[t] # NoMessage
                 PROVE  OnItsWay(latestMessages[t], c)'
      BY DEF StateOnItsWay
    <3>1. OnItsWay(latestMessages[t], c) BY <1>1 DEF ServerInv, StateOnItsWay
    <3>2. CASE latestMessages[t] = m BY <1>1, <2>4, <3>2 DEF OnItsWay
    <3>3. CASE latestMessages[t] # m
      <4>1. writers \subseteq writers' BY <1>3
      <4> QED BY <1>1, <2>1, <3>1, <3>3, <4>1 DEF OnItsWay
    <3> QED BY <3>2, <3>3
  <2> QED BY <2>6, <2>7, <2>8
<1> QED BY <1>2, <1>3 DEF handleOutgoingMessages

(* A write hands a message to its client, or nobody needs it any more.       *)
LEMMA WriteStep ==
  ASSUME ServerInv, NEW w \in writers, Write(w)
  PROVE  AllNumbered' /\ OnePlace' /\ StateOnItsWay' /\ CommandsOnce'
<1>1. /\ UNCHANGED <<made, sending, ToC, latestMessages, clients, replays, full>>
      /\ ToSend' = ToSend /\ writers' = writers \ {w}
  BY DEF Write, sendVars, clientVars, ToSend, At
<1>2. w.to \in Client /\ w.msg \in Message /\ received \in [Client -> Seq(Message)]
  BY DEF ServerInv, TypeOK
<1>3. CASE received' = received /\ w.to \notin clients
  <2>1. AllNumbered' BY <1>1, <1>3 DEF ServerInv, AllNumbered, Numbered
  <2>2. OnePlace' BY <1>1, <1>3 DEF ServerInv, OnePlace, At
  <2>3. StateOnItsWay' BY <1>1, <1>3, SMTT(30) DEF ServerInv, StateOnItsWay, OnItsWay
  <2>4. CommandsOnce' BY <1>3 DEF ServerInv, CommandsOnce
  <2> QED BY <2>1, <2>2, <2>3, <2>4
<1>4. CASE received' = [received EXCEPT ![w.to] = Append(@, w.msg)]
  <2>1. \A c \in Client : received'[c] = IF c = w.to THEN Append(received[c], w.msg) ELSE received[c]
    BY <1>2, <1>4
  <2>2. \A c \in Client : Range(received'[c]) =
          Range(received[c]) \cup (IF c = w.to THEN {w.msg} ELSE {})
    BY <1>2, <2>1, AppendRange, SMTT(30)
  <2>3. Numbered(w.msg) BY DEF ServerInv, AllNumbered
  <2>4. AllNumbered' BY <1>1, <2>2, <2>3, SMTT(30) DEF ServerInv, AllNumbered, Numbered
  <2>5. OnePlace'
    <3>1. \A x \in writers' : x.msg.type = Command =>
            ~x.replay /\ x.msg \notin ToSend' \cup Range(ToC') /\ x.msg \notin Range(received'[x.to])
      <4> SUFFICES ASSUME NEW x \in writers', x.msg.type = Command
                   PROVE  ~x.replay /\ x.msg \notin ToSend' \cup Range(ToC')
                          /\ x.msg \notin Range(received'[x.to])
        OBVIOUS
      <4>1. /\ ~x.replay /\ x.msg \notin ToSend \cup Range(ToC) /\ x.msg \notin Range(received[x.to])
            /\ x \in writers /\ x # w
        BY <1>1 DEF ServerInv, OnePlace
      <4>2. x.to = w.to => x.msg # w.msg
        <5> SUFFICES ASSUME x.to = w.to, x.msg = w.msg PROVE FALSE OBVIOUS
        <5>1. ~w.replay BY DEF ServerInv, OnePlace
        <5>2. /\ x \in [to : Client, msg : Message, replay : BOOLEAN]
              /\ w \in [to : Client, msg : Message, replay : BOOLEAN]
          BY <4>1 DEF ServerInv, TypeOK
        <5>3. x = w BY <4>1, <5>1, <5>2, SMTT(30)
        <5> QED BY <4>1, <5>3
      <4>3. x.to \in Client BY <4>1 DEF ServerInv, TypeOK
      <4> QED BY <1>1, <2>2, <4>1, <4>2, <4>3
    <3>2. \A c \in Client : \A x \in Range(received'[c]) :
            x.type = Command => x \notin ToSend' \cup Range(ToC')
      BY <1>1, <2>2, SMTT(30) DEF ServerInv, OnePlace
    <3> QED BY <1>1, <3>1, <3>2 DEF ServerInv, OnePlace, At
  <2>6. StateOnItsWay'
    <3> SUFFICES ASSUME ~full', NEW c \in clients', NEW t \in StateType,
                        latestMessages'[t] # NoMessage
                 PROVE  OnItsWay(latestMessages[t], c)'
      BY DEF StateOnItsWay
    <3>1. OnItsWay(latestMessages[t], c) /\ c \in Client
      BY <1>1 DEF ServerInv, StateOnItsWay, TypeOK
    <3> QED BY <1>1, <2>2, <3>1 DEF OnItsWay
  <2>7. CommandsOnce'
    <3> SUFFICES ASSUME NEW c \in Client, NEW i \in DOMAIN received'[c], NEW j \in DOMAIN received'[c],
                        received'[c][i] = received'[c][j], i # j
                 PROVE  received'[c][i].type \in StateType
      BY DEF CommandsOnce
    <3>1. CASE c # w.to BY <2>1, <3>1 DEF ServerInv, CommandsOnce
    <3>2. CASE c = w.to
      <4> DEFINE n == Len(received[c])
      <4>1. /\ n \in Nat /\ DOMAIN received[c] = 1 .. n
            /\ DOMAIN received'[c] = 1 .. (n + 1)
            /\ \A k \in 1 .. n : received'[c][k] = received[c][k]
            /\ received'[c][n + 1] = w.msg
        <5>1. received[c] \in Seq(Message) /\ received'[c] = Append(received[c], w.msg)
          BY <1>2, <2>1, <3>2
        <5>2. received'[c] \in Seq(Message) BY <1>2, <5>1, AppendProperties, SMTT(30)
        <5> QED BY <1>2, <5>1, <5>2, AppendProperties, LenProperties, SMTT(30)
      <4> HIDE DEF n
      <4>2. CASE i \in 1 .. n /\ j \in 1 .. n
        BY <4>1, <4>2 DEF ServerInv, CommandsOnce
      <4>3. CASE ~(i \in 1 .. n /\ j \in 1 .. n)
        <5>1. received'[c][i] = w.msg /\ w.msg \in Range(received[c])
          BY <4>1, <4>3, SMTT(30) DEF Range
        <5>2. w.msg.type # Command BY <3>2, <5>1 DEF ServerInv, OnePlace
        <5> QED BY <1>2, <5>1, <5>2 DEF Message
      <4> QED BY <4>2, <4>3
    <3> QED BY <3>1, <3>2
  <2> QED BY <2>4, <2>5, <2>6, <2>7
<1> QED BY <1>3, <1>4 DEF Write

(* The steps of the clients.                                                 *)
LEMMA ClientStep ==
  ASSUME ServerInv, NEW c \in Client,
         acceptConnections(c) \/ replayStateMessages(c) \/ handleClient(c)
  PROVE  AllNumbered' /\ OnePlace' /\ StateOnItsWay'
<1>1. /\ UNCHANGED <<made, sending, ToC, latestMessages, received, full>>
      /\ ToSend' = ToSend
  BY DEF acceptConnections, replayStateMessages, handleClient, sendVars, ToSend, At
<1>2. CASE acceptConnections(c)
  <2>1. writers' = writers /\ clients' = clients \cup {c} /\ replays' = replays \cup {c}
    BY <1>2 DEF acceptConnections
  <2>2. AllNumbered' /\ OnePlace' BY <1>1, <2>1, SamePlaces DEF ServerInv
  <2>3. StateOnItsWay'
    <3> SUFFICES ASSUME ~full', NEW d \in clients', NEW t \in StateType,
                        latestMessages'[t] # NoMessage
                 PROVE  OnItsWay(latestMessages[t], d)'
      BY DEF StateOnItsWay
    <3>1. CASE d = c BY <2>1, <3>1 DEF OnItsWay
    <3>2. CASE d \in clients
      <4>1. OnItsWay(latestMessages[t], d) BY <1>1, <3>2 DEF ServerInv, StateOnItsWay
      <4> QED BY <1>1, <2>1, <4>1 DEF OnItsWay
    <3> QED BY <2>1, <3>1, <3>2
  <2> QED BY <2>2, <2>3
<1>3. CASE handleClient(c)
  <2>1. writers' = writers /\ clients' \subseteq clients /\ replays' = replays BY <1>3 DEF handleClient
  <2>2. AllNumbered' /\ OnePlace' BY <1>1, <2>1, SamePlaces DEF ServerInv
  <2>3. StateOnItsWay' BY <1>1, <2>1 DEF ServerInv, StateOnItsWay, OnItsWay
  <2> QED BY <2>2, <2>3
<1>4. CASE replayStateMessages(c)
  <2>1. clients' = clients /\ replays' = replays \ {c} /\ writers \subseteq writers'
    BY <1>4 DEF replayStateMessages
  <2>2. ASSUME NEW w \in writers', w \notin writers
        PROVE  \E t \in StateType : /\ w = [to |-> c, msg |-> latestMessages[t], replay |-> TRUE]
                                    /\ latestMessages[t] # NoMessage
    <3>1. \E m \in Range(latestMessages) \ {NoMessage} : w = [to |-> c, msg |-> m, replay |-> TRUE]
      BY <1>4, <2>2 DEF replayStateMessages
    <3> QED BY <3>1 DEF Range, ServerInv, TypeOK
  <2>3. ASSUME NEW w \in writers', w \notin writers
        PROVE  w.msg.n \in 1 .. made /\ w.msg.type # Command
    <3>1. PICK t \in StateType : /\ w = [to |-> c, msg |-> latestMessages[t], replay |-> TRUE]
                                /\ latestMessages[t] # NoMessage
      BY <2>2, <2>3
    <3>2. w.msg = latestMessages[t] BY <3>1
    <3>3. Numbered(latestMessages[t]) /\ latestMessages[t].type = t
      BY <3>1 DEF ServerInv, AllNumbered
    <3> QED BY <3>2, <3>3, IpcAssumption DEF Numbered
  <2>4. AllNumbered' BY <1>1, <2>3 DEF ServerInv, AllNumbered, Numbered
  <2>5. OnePlace'
    <3>1. \A w \in writers' : w.msg.type = Command =>
            ~w.replay /\ w.msg \notin ToSend' \cup Range(ToC') /\ w.msg \notin Range(received'[w.to])
      BY <1>1, <2>3 DEF ServerInv, OnePlace
    <3> QED BY <1>1, <3>1 DEF ServerInv, OnePlace, At
  <2>6. StateOnItsWay'
    <3> SUFFICES ASSUME ~full', NEW d \in clients', NEW t \in StateType,
                        latestMessages'[t] # NoMessage
                 PROVE  OnItsWay(latestMessages[t], d)'
      BY DEF StateOnItsWay
    <3>1. OnItsWay(latestMessages[t], d) BY <1>1, <2>1 DEF ServerInv, StateOnItsWay
    <3>2. CASE d # c BY <1>1, <2>1, <3>1, <3>2 DEF OnItsWay
    <3>3. CASE d = c
      <4>1. latestMessages[t] \in Range(latestMessages) \ {NoMessage}
        BY <1>1 DEF Range, ServerInv, TypeOK
      <4>2. [to |-> c, msg |-> latestMessages[t], replay |-> TRUE] \in writers'
        BY <1>4, <2>1, <3>3, <4>1 DEF replayStateMessages
      <4> QED BY <1>1, <3>3, <4>2 DEF OnItsWay
    <3> QED BY <3>2, <3>3
  <2> QED BY <2>4, <2>5, <2>6
<1> QED BY <1>2, <1>3, <1>4

(* ServerInv is inductive.                                                   *)
LEMMA ServerStep == ServerInv /\ [Next]_vars => ServerInv'
<1> SUFFICES ASSUME ServerInv, [Next]_vars PROVE ServerInv' OBVIOUS
<1>1. TypeOK' /\ LockHeld' BY TypeStep, LockStep DEF ServerInv
<1>2. CASE UNCHANGED received
  <2>1. CommandsOnce' BY <1>2 DEF ServerInv, CommandsOnce
  <2>2. ASSUME NEW s \in Sender, SendMessage(s) PROVE AllNumbered' /\ OnePlace' /\ StateOnItsWay'
    BY <2>2, CacheStep, CheckStep, EnqueueStep DEF SendMessage
  <2>3. ASSUME Stop PROVE AllNumbered' /\ OnePlace' /\ StateOnItsWay'
    <3>1. /\ UNCHANGED <<made, sending, ToC, latestMessages, replays, writers, received, full>>
          /\ clients' = {}
      BY <2>3 DEF Stop, sendVars
    <3>2. AllNumbered' /\ OnePlace' BY <3>1, SamePlaces DEF ServerInv
    <3>3. StateOnItsWay' BY <3>1 DEF StateOnItsWay
    <3> QED BY <3>2, <3>3
  <2>4. ASSUME UNCHANGED vars PROVE AllNumbered' /\ OnePlace' /\ StateOnItsWay'
    <3>1. UNCHANGED <<made, sending, ToC, latestMessages, clients, replays, writers, received, full>>
      BY <2>4 DEF vars, sendVars, clientVars
    <3>2. AllNumbered' /\ OnePlace' /\ ToSend' = ToSend BY <3>1, SamePlaces DEF ServerInv
    <3>3. StateOnItsWay' BY <3>1, <3>2 DEF ServerInv, StateOnItsWay, OnItsWay
    <3> QED BY <3>2, <3>3
  <2>5. ASSUME NEW c \in Client, acceptConnections(c) \/ replayStateMessages(c) \/ handleClient(c)
        PROVE  AllNumbered' /\ OnePlace' /\ StateOnItsWay'
    BY <2>5, ClientStep
  <2>6. AllNumbered' /\ OnePlace' /\ StateOnItsWay'
    BY <2>2, <2>3, <2>4, <2>5, OutgoingStep, WriteStep DEF Next
  <2> QED BY <1>1, <2>1, <2>6 DEF ServerInv
<1>3. CASE \E w \in writers : Write(w) BY <1>1, <1>3, WriteStep DEF ServerInv
<1>4. UNCHANGED received \/ \E w \in writers : Write(w)
  BY DEF Next, SendMessage, CacheState, CheckStopped, Enqueue, handleOutgoingMessages, Stop,
         acceptConnections, replayStateMessages, handleClient, vars
<1> QED BY <1>2, <1>3, <1>4

LEMMA ServerInit == Init => ServerInv
<1> SUFFICES ASSUME Init PROVE ServerInv OBVIOUS
<1>1. TypeOK
  <2>1. made \in 0 .. MaxMessages BY IpcAssumption, SMTT(30) DEF Init
  <2>2. sending \in [Sender -> [at : {"idle", "cached", "checked"}, msg : Message]]
    BY NoMessageType DEF Init, Idle
  <2>3. ToC \in Seq(Message) /\ Len(ToC) <= Capacity BY EmptySeq, IpcAssumption, SMTT(30) DEF Init
  <2>4. received \in [Client -> Seq(Message)] BY EmptySeq DEF Init
  <2>5. latestMessages \in [StateType -> Message] BY NoMessageType DEF Init
  <2> QED BY <2>1, <2>2, <2>3, <2>4, <2>5 DEF Init, TypeOK
<1>2. LockHeld BY DEF Init, LockHeld, At, Idle
<1>3. ToSend = {} BY DEF Init, ToSend, At, Idle
<1>4. Range(ToC) = {} /\ \A c \in Client : DOMAIN received[c] = {} /\ Range(received[c]) = {}
  BY SMTT(30) DEF Init, Range
<1>5. StateOnItsWay BY DEF Init, StateOnItsWay
<1>6. AllNumbered BY <1>3, <1>4 DEF Init, AllNumbered
<1>7. OnePlace BY <1>3, <1>4, SMTT(30) DEF Init, OnePlace, At, Idle
<1>8. CommandsOnce BY <1>4 DEF CommandsOnce
<1> QED BY <1>1, <1>2, <1>5, <1>6, <1>7, <1>8 DEF ServerInv

LEMMA ServerInvariant == Spec => []ServerInv
BY ServerInit, ServerStep, PTL DEF Spec

(* However many goroutines call SendMessage, and whenever Stop is called, none of
   them sends on the closed queue (ipc_server.go:34).                        *)
THEOREM NobodySendsOnClosed == Spec => []NoSendOnClosed
<1>1. ServerInv => NoSendOnClosed BY DEF ServerInv, LockHeld, NoSendOnClosed
<1> QED BY <1>1, ServerInvariant, PTL

(* Every client gets the latest state unless the queue overflowed, and no command
   twice, whenever it connects: what replayStateMessages and the outgoing loop
   of ipc_server.go achieve together.                                       *)
THEOREM EveryClientServed == Spec => []ClientsServed
<1>1. ServerInv => NothingMissed
  <2> SUFFICES ASSUME ServerInv, Delivered, ~full, NEW c \in clients,
                      NEW m \in Range(latestMessages) \ {NoMessage}
               PROVE  m \in Range(received[c])
    BY DEF NothingMissed
  <2>1. PICK t \in StateType : m = latestMessages[t] BY DEF Range, ServerInv, TypeOK
  <2>2. OnItsWay(m, c) BY <2>1 DEF ServerInv, StateOnItsWay
  <2>3. ToSend = {} BY DEF Delivered, ToSend
  <2>4. Range(ToC) = {} BY NoneInEmpty DEF Delivered
  <2> QED BY <2>2, <2>3, <2>4 DEF OnItsWay, Delivered
<1>2. ServerInv => CommandsOnce BY DEF ServerInv
<1> QED BY <1>1, <1>2, ServerInvariant, PTL DEF ClientsServed

-----------------------------------------------------------------------------
(* The client.                                                               *)

(* Type correctness, with the holders of the locks, is inductive.            *)
LEMMA ClientTypeStep == ClientTypeOK /\ [ClientNext]_threadVars => ClientTypeOK'
<1> SUFFICES ASSUME ClientTypeOK, [ClientNext]_threadVars PROVE ClientTypeOK' OBVIOUS
<1> USE DEF ClientTypeOK, locks, fds, env, isConnected
<1>1. CASE IpcTop BY <1>1 DEF IpcTop
<1>2. CASE ConnectLockSend BY <1>2 DEF ConnectLockSend
<1>3. CASE connect
  <2>1. CASE up BY <1>3, <2>1, SMTT(30) DEF connect
  <2>2. CASE ~up BY <1>3, <2>2, SMTT(30) DEF connect
  <2> QED BY <2>1, <2>2
<1>4. CASE IpcInner BY <1>4 DEF IpcInner
<1>5. CASE ReceiveLock BY <1>5 DEF ReceiveLock
<1>6. CASE receive BY <1>6, SMTT(30) DEF receive
<1>21. CASE ReceiveError BY <1>21 DEF ReceiveError
<1>7. CASE disconnectOnError BY <1>7, SMTT(30) DEF disconnectOnError
<1>8. CASE Change BY <1>8 DEF Change
<1>9. CASE WatcherEnds BY <1>9 DEF WatcherEnds
<1>10. CASE SendLock BY <1>10 DEF SendLock
<1>11. CASE send BY <1>11, SMTT(30) DEF send
<1>12. CASE StopWatcher BY <1>12 DEF StopWatcher
<1>13. CASE JoinWatcher BY <1>13 DEF JoinWatcher
<1>14. CASE JoinIpc BY <1>14 DEF JoinIpc
<1>15. CASE DisconnectLockSend BY <1>15 DEF DisconnectLockSend
<1>16. CASE disconnect BY <1>16, SMTT(30) DEF disconnect
<1>17. CASE signal_handler BY <1>17 DEF signal_handler
<1>18. CASE CoordinatorCloses
  <2>1. up' \in BOOLEAN BY <1>18 DEF CoordinatorCloses
  <2>2. breaks' \in 0 .. MaxBreaks BY <1>18, BreaksAssumption, SMTT(30) DEF CoordinatorCloses
  <2>3. peerOpen' = FALSE /\ UNCHANGED <<ipc, watcher, main, locks, fds, g_shutdown, running>>
    BY <1>18 DEF CoordinatorCloses
  <2>4. (peerOpen \in BOOLEAN)' /\ (g_shutdown \in BOOLEAN)' /\ (running \in BOOLEAN)' BY <2>3
  <2> QED BY <2>1, <2>2, <2>3, <2>4
<1>19. CASE CoordinatorStarts BY <1>19 DEF CoordinatorStarts
<1>20. CASE UNCHANGED threadVars BY <1>20 DEF threadVars
<1> HIDE DEF ClientTypeOK, locks, fds, env, isConnected
<1> QED BY <1>1, <1>2, <1>3, <1>4, <1>5, <1>6, <1>7, <1>8, <1>9, <1>10, <1>11, <1>12, <1>13,
          <1>14, <1>15, <1>16, <1>17, <1>18, <1>19, <1>20, <1>21
       DEF ClientNext, IpcStep, IpcOutside, WatcherStep, MainStep

(* The step of the proof that descriptors are not stale: whoever changes
   socketFd holds sendMutex and recvMutex, or is the receiver with sendMutex.  *)
LEMMA DescriptorStep == ClientTypeOK /\ NoStaleDescriptor /\ [ClientNext]_threadVars => NoStaleDescriptor'
<1> SUFFICES ASSUME ClientTypeOK, NoStaleDescriptor, [ClientNext]_threadVars PROVE NoStaleDescriptor' OBVIOUS
<1> USE DEF ClientTypeOK, NoStaleDescriptor, locks, fds, env
<1>1. CASE connect \/ disconnect \/ disconnectOnError BY <1>1 DEF connect, disconnect, disconnectOnError
<1>2. CASE ReceiveLock \/ receive \/ ReceiveError \/ IpcTop \/ IpcInner \/ ConnectLockSend
  BY <1>2 DEF ReceiveLock, receive, ReceiveError, IpcTop, IpcInner, ConnectLockSend
<1>3. CASE SendLock \/ send \/ Change \/ WatcherEnds BY <1>3 DEF SendLock, send, Change, WatcherEnds
<1>4. CASE StopWatcher \/ JoinWatcher \/ JoinIpc \/ DisconnectLockSend \/ signal_handler
  BY <1>4 DEF StopWatcher, JoinWatcher, JoinIpc, DisconnectLockSend, signal_handler
<1>5. CASE CoordinatorCloses \/ CoordinatorStarts BY <1>5 DEF CoordinatorCloses, CoordinatorStarts
<1>6. CASE UNCHANGED threadVars BY <1>6 DEF threadVars
<1> HIDE DEF ClientTypeOK, NoStaleDescriptor, locks, fds, env
<1> QED BY <1>1, <1>2, <1>3, <1>4, <1>5, <1>6 DEF ClientNext, IpcStep, IpcOutside, WatcherStep, MainStep

(* send and receive (ipc_client.cpp) never use a descriptor that was closed or
   opened anew under them, after any number of connections lost and regained.  *)
THEOREM DescriptorsFresh == ClientSpec => []NoStaleDescriptor
<1>1. ClientInit => ClientTypeOK
  <2> SUFFICES ASSUME ClientInit PROVE ClientTypeOK OBVIOUS
  <2>1. breaks \in 0 .. MaxBreaks BY BreaksAssumption, SMTT(30) DEF ClientInit
  <2>2. /\ g_shutdown \in BOOLEAN /\ running \in BOOLEAN
        /\ up \in BOOLEAN /\ peerOpen \in BOOLEAN
    BY DEF ClientInit
  <2>3. /\ ipc = "top" /\ watcher = "run" /\ main = "wait"
        /\ sendMutex = "free" /\ recvMutex = "free"
        /\ socketFd = 0 /\ sendFd = 0 /\ recvFd = 0 /\ opened = 0
    BY DEF ClientInit
  <2> QED BY <2>1, <2>2, <2>3, SMT DEF ClientTypeOK
<1>2. ClientInit => NoStaleDescriptor BY DEF ClientInit, NoStaleDescriptor
<1> QED BY <1>1, <1>2, ClientTypeStep, DescriptorStep, PTL DEF ClientSpec

(* Every step of the reading loops of receive (ipc_client.cpp) is a step of
   IpcClient or leaves it alone, for every header, length and system.        *)
LEMMA FrameStep == [FrameNext]_allVars => [ClientNext]_threadVars
<1> SUFFICES ASSUME [FrameNext]_allVars PROVE [ClientNext]_threadVars OBVIOUS
<1>1. CASE IpcThread
  <2>1. CASE Besides(IpcOutside \/ disconnectOnError) BY <2>1 DEF Besides, ClientNext, IpcStep
  <2>2. CASE ConnectFresh \/ BeginReceive BY <2>2 DEF ConnectFresh, BeginReceive, ClientNext, IpcStep
  <2>3. CASE Reading
    <3>1. UNCHANGED threadVars \/ receive \/ ReceiveError
      BY <2>3 DEF Reading, ReadHeader, HeaderTimeout, HeaderEnd, HeaderEndWindows, RefuseLength,
                  ReadBody, BodyEnd
    <3> QED BY <3>1 DEF ClientNext, IpcStep
  <2> QED BY <1>1, <2>1, <2>2, <2>3 DEF IpcThread
<1>2. CASE Besides(WatcherStep \/ Change \/ MainStep \/ signal_handler) BY <1>2 DEF Besides, ClientNext
<1>3. CASE Coordinator
  BY <1>3 DEF Coordinator, CoordinatorWrites, CoordinatorStops, Besides, ClientNext
<1>4. CASE UNCHANGED allVars BY <1>4 DEF allVars
<1> QED BY <1>1, <1>2, <1>3, <1>4 DEF FrameNext

(* The client that reads byte by byte implements IpcClient.                   *)
THEOREM FramesFollowClient == FrameSpec => FollowsClient
<1>1. FrameInit => ClientInit BY DEF FrameInit
<1> QED BY <1>1, FrameStep, PTL DEF FrameSpec, FollowsClient, ClientSpec

(* So its descriptors are fresh too, however the bytes of messages arrive.    *)
THEOREM FrameDescriptorsFresh == FrameSpec => []NoStaleDescriptor
BY FramesFollowClient, DescriptorsFresh, PTL DEF FollowsClient
=============================================================================
