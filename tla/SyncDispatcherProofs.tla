-------------------------- MODULE SyncDispatcherProofs --------------------------
(***************************************************************************)
(* Proofs about the download queue and the processor loop of the           *)
(* coordinator, for any number of repositories, files, peers and slots.    *)
(* The loop is a client of the queue, so that what is proved of the queue  *)
(* holds for it too.                                                       *)
(***************************************************************************)
EXTENDS SyncDispatcher, SequenceTheorems, TLAPS

USE ZenonT(30)

-----------------------------------------------------------------------------
(* Facts about the sequence operators.                                      *)

(* RemoveAt drops one position and keeps the others in order.               *)
LEMMA RemoveAtFacts ==
  ASSUME NEW S, NEW s \in Seq(S), NEW i \in DOMAIN s
  PROVE  /\ RemoveAt(s, i) \in Seq(S)
         /\ Len(RemoveAt(s, i)) = Len(s) - 1
         /\ \A j \in 1 .. (Len(s) - 1) :
              RemoveAt(s, i)[j] = IF j < i THEN s[j] ELSE s[j + 1]
  <1> DEFINE front == SubSeq(s, 1, i - 1)
             back  == SubSeq(s, i + 1, Len(s))
  <1>1. /\ s \in [1 .. Len(s) -> S]
        /\ Len(s) \in Nat
        /\ i \in 1 .. Len(s)
    BY LenProperties
  <1>2. /\ front \in Seq(S)
        /\ Len(front) = i - 1
        /\ \A j \in 1 .. (i - 1) : front[j] = s[j]
    <2>1. \A j \in 1 .. (i - 1) : s[j] \in S
      BY <1>1, SMTT(30)
    <2>2. /\ SubSeq(s, 1, i - 1) \in Seq(S)
          /\ Len(SubSeq(s, 1, i - 1)) = IF 1 <= i - 1 THEN (i - 1) - 1 + 1 ELSE 0
          /\ \A j \in 1 .. ((i - 1) - 1 + 1) : SubSeq(s, 1, i - 1)[j] = s[1 + j - 1]
      BY <1>1, <2>1, SubSeqProperties, SMTT(30)
    <2> QED
      BY <1>1, <2>2, SMTT(30)
  <1>3. /\ back \in Seq(S)
        /\ Len(back) = Len(s) - i
        /\ \A j \in 1 .. (Len(s) - i) : back[j] = s[i + j]
    <2>1. \A j \in (i + 1) .. Len(s) : s[j] \in S
      BY <1>1, SMTT(30)
    <2>2. /\ SubSeq(s, i + 1, Len(s)) \in Seq(S)
          /\ Len(SubSeq(s, i + 1, Len(s))) =
               IF i + 1 <= Len(s) THEN Len(s) - (i + 1) + 1 ELSE 0
          /\ \A j \in 1 .. (Len(s) - (i + 1) + 1) :
               SubSeq(s, i + 1, Len(s))[j] = s[i + 1 + j - 1]
      BY <1>1, <2>1, SubSeqProperties, SMTT(30)
    <2> QED
      BY <1>1, <2>2, SMTT(30)
  <1>4. /\ front \o back \in Seq(S)
        /\ Len(front \o back) = Len(front) + Len(back)
        /\ \A j \in 1 .. (Len(front) + Len(back)) :
             (front \o back)[j] =
               IF j <= Len(front) THEN front[j] ELSE back[j - Len(front)]
    BY <1>2, <1>3, ConcatProperties
  <1>5. RemoveAt(s, i) = front \o back
    BY DEF RemoveAt
  <1>6. ASSUME NEW j \in 1 .. (Len(s) - 1)
        PROVE  RemoveAt(s, i)[j] = IF j < i THEN s[j] ELSE s[j + 1]
    <2> HIDE DEF front, back
    <2>1. CASE j < i
      BY <1>1, <1>2, <1>3, <1>4, <1>5, <2>1, SMTT(30)
    <2>2. CASE ~(j < i)
      <3> DEFINE k == j - (i - 1)
      <3>1. k \in 1 .. (Len(s) - i) /\ i + k = j + 1
        BY <1>1, <2>2, SMTT(30)
      <3>2. RemoveAt(s, i)[j] = back[k]
        <4>1. /\ j \in 1 .. (Len(front) + Len(back))
              /\ ~(j <= Len(front)) /\ j - Len(front) = k
          BY <1>1, <1>2, <1>3, <2>2, SMTT(30)
        <4> HIDE DEF k
        <4> QED BY <1>4, <1>5, <4>1
      <3> HIDE DEF k
      <3> QED
        BY <1>3, <2>2, <3>1, <3>2
    <2> QED
      BY <2>1, <2>2
  <1>7. Len(RemoveAt(s, i)) = Len(s) - 1
    <2> HIDE DEF front, back
    <2>1. Len(front) + Len(back) = Len(s) - 1
      BY <1>1, <1>2, <1>3, SMTT(30)
    <2> QED
      BY <1>4, <1>5, <2>1
  <1> QED
    BY <1>4, <1>5, <1>6, <1>7

(* Cons puts an element in front.                                           *)
LEMMA ConsFacts ==
  ASSUME NEW S, NEW s \in Seq(S), NEW e \in S
  PROVE  /\ Cons(e, s) \in Seq(S)
         /\ Len(Cons(e, s)) = Len(s) + 1
         /\ Cons(e, s)[1] = e
         /\ \A j \in 1 .. Len(s) : Cons(e, s)[j + 1] = s[j]
  BY SMTT(30) DEF Cons

(* The arithmetic of Pop's ring index.                                      *)
LEMMA ModRange ==
  ASSUME NEW a \in Nat, NEW n \in Nat \ {0}
  PROVE  a % n \in 0 .. (n - 1)
  BY SMTT(30)

LEMMA ModOnce ==
  ASSUME NEW a \in Nat, NEW n \in Nat \ {0}, a < n + n
  PROVE  a % n = IF a < n THEN a ELSE a - n
  <1>1. CASE a < n
    BY <1>1, SMTT(30)
  <1>2. CASE n <= a
    BY <1>2, SMTT(30)
  <1> QED
    BY <1>1, <1>2, SMTT(30)

(* Sorting rearranges: every element of the result is one of the input.     *)
LEMMA SortedFacts ==
  ASSUME NEW S, NEW s \in Seq(S), NEW t \in Sorted(s)
  PROVE  /\ t \in Seq(S)
         /\ Len(t) = Len(s)
         /\ Range(t) \subseteq Range(s)
  <1>1. PICK f \in Injection(DOMAIN s, DOMAIN s) : t = [i \in DOMAIN s |-> s[f[i]]]
    BY DEF Sorted
  <1>2. f \in [DOMAIN s -> DOMAIN s]
    BY <1>1 DEF Injection
  <1>3. DOMAIN s = 1 .. Len(s)
    BY SMTT(30)
  <1>4. /\ t \in Seq(S)
        /\ Len(t) = Len(s)
    BY <1>1, <1>2, <1>3, SMTT(30)
  <1>5. Range(t) \subseteq Range(s)
    BY <1>1, <1>2 DEF Range
  <1> QED
    BY <1>4, <1>5

-----------------------------------------------------------------------------
(* What a Pop that stops at the i-th turn of its loop does.                  *)
PopAt(i, task) ==
  LET r == repos[Slot(i)] IN
  /\ Slot(i) \in 1 .. Len(repos)
  /\ r \in Repo
  /\ \A j \in 0 .. (i - 1) : queues[repos[Slot(j)]] = <<>>
  /\ queues[r] # <<>>
  /\ task = Head(queues[r])
  /\ Tail(queues[r]) \in Seq(Task)
  /\ queues' = [queues EXCEPT ![r] = Tail(queues[r])]
  /\ nextRepo' = Slot(i) % Len(repos)
  /\ nextRepo' \in 0 .. (Len(repos) - 1)
  /\ UNCHANGED <<keys, repos>>

(* The slot Pop looks at is always an index of the rotation.                *)
LEMMA SlotRange ==
  ASSUME TypeOK, NEW i \in 0 .. (Len(repos) - 1)
  PROVE  /\ Slot(i) \in 1 .. Len(repos)
         /\ repos[Slot(i)] \in Repo
         /\ Slot(i) % Len(repos) \in 0 .. (Len(repos) - 1)
  <1>1. Len(repos) \in Nat \ {0} /\ nextRepo + i \in Nat
    BY SMTT(30) DEF TypeOK
  <1>2. (nextRepo + i) % Len(repos) \in 0 .. (Len(repos) - 1)
    BY <1>1, ModRange
  <1>3. Slot(i) \in 1 .. Len(repos)
    BY <1>1, <1>2, SMTT(30) DEF Slot
  <1>4. Slot(i) % Len(repos) \in 0 .. (Len(repos) - 1)
    <2>1. Slot(i) \in Nat
      BY <1>1, <1>3, SMTT(30)
    <2> QED
      BY <1>1, <2>1, ModRange
  <1> QED
    BY <1>3, <1>4, SMTT(30) DEF TypeOK

LEMMA PopFacts ==
  ASSUME TypeOK, NEW task, Pop(task)
  PROVE  \E i \in 0 .. (Len(repos) - 1) : PopAt(i, task)
  <1>1. PICK i \in 0 .. (Len(repos) - 1) :
           LET r == repos[Slot(i)] IN
           /\ \A j \in 0 .. (i - 1) : queues[repos[Slot(j)]] = <<>>
           /\ queues[r] # <<>>
           /\ task = Head(queues[r])
           /\ queues' = [queues EXCEPT ![r] = Tail(@)]
           /\ nextRepo' = Slot(i) % Len(repos)
           /\ UNCHANGED <<keys, repos>>
    BY DEF Pop
  <1>2. /\ Slot(i) \in 1 .. Len(repos)
        /\ repos[Slot(i)] \in Repo
        /\ Slot(i) % Len(repos) \in 0 .. (Len(repos) - 1)
    BY SlotRange
  <1>3. Tail(queues[repos[Slot(i)]]) \in Seq(Task)
    <2>1. queues[repos[Slot(i)]] \in Seq(Task) /\ queues[repos[Slot(i)]] # <<>>
      BY <1>1, <1>2 DEF TypeOK
    <2> QED
      BY <2>1, HeadTailProperties
  <1> QED
    BY <1>1, <1>2, <1>3 DEF PopAt

-----------------------------------------------------------------------------
(* Every reachable state of the queue is well typed.                        *)
LEMMA TypeStep == TypeOK /\ [Next]_vars => TypeOK'
  <1> SUFFICES ASSUME TypeOK, [Next]_vars
               PROVE  TypeOK'
    OBVIOUS
  <1> USE DEF TypeOK
  <1>1. ASSUME NEW task \in Task, ClientPush(task)
        PROVE  TypeOK'
    <2>1. task.repo \in Repo
      BY DEF Task
    <2>2. Append(queues[task.repo], task) \in Seq(Task)
      BY <2>1, SMTT(30)
    <2>3. \A s \in Sorted(Append(queues[task.repo], task)) : s \in Seq(Task)
      BY <2>2, SortedFacts
    <2>4. <<task>> \in Seq(Task) /\ Append(repos, task.repo) \in Seq(Repo)
      BY <2>1, SMTT(30)
    <2>5. queues' \in [Repo -> Seq(Task)]
      BY <1>1, <2>1, <2>3, <2>4 DEF ClientPush, Push
    <2>6. keys' \subseteq Repo /\ repos' \in Seq(Repo)
      BY <1>1, <2>1, <2>4 DEF ClientPush, Push
    <2> QED
      BY <1>1, <2>5, <2>6 DEF ClientPush, Push
  <1>2. ASSUME NEW task \in Task, ClientPop(task)
        PROVE  TypeOK'
    <2>1. PICK i \in 0 .. (Len(repos) - 1) : PopAt(i, task)
      BY <1>2, PopFacts DEF ClientPop
    <2>2. held' \in Seq(Task)
      BY <1>2, SMTT(30) DEF ClientPop
    <2>3. bypassed' \in [Repo -> SUBSET Repo]
      <3>1. task.repo \in Repo
        BY DEF Task
      <3> QED
        BY <1>2, <3>1 DEF ClientPop, Served
    <2>4. queues' \in [Repo -> Seq(Task)]
      BY <2>1 DEF PopAt
    <2>5. nextRepo' \in Nat
      BY <2>1, SMTT(30) DEF PopAt
    <2>6. UNCHANGED <<keys, repos, retried>>
      BY <1>2, <2>1 DEF ClientPop, PopAt
    <2> QED
      BY <2>2, <2>3, <2>4, <2>5, <2>6
  <1>3. ASSUME NEW i \in DOMAIN held, ClientRequeue(i)
        PROVE  TypeOK'
    <2>1. held[i] \in Task /\ held[i].repo \in Repo
      <3>1. held[i] \in Task
        BY SMTT(30)
      <3> QED
        BY <3>1 DEF Task
    <2>2. Cons(held[i], queues[held[i].repo]) \in Seq(Task)
      BY <2>1, ConsFacts
    <2>3. RemoveAt(held, i) \in Seq(Task)
      BY RemoveAtFacts
    <2> QED
      BY <1>3, <2>1, <2>2, <2>3 DEF ClientRequeue, Requeue
  <1>4. ASSUME NEW i \in DOMAIN held, ClientFinish(i)
        PROVE  TypeOK'
    <2>1. RemoveAt(held, i) \in Seq(Task)
      BY RemoveAtFacts
    <2> QED
      BY <1>4, <2>1 DEF ClientFinish
  <1>5. ASSUME NEW r \in Repo, ClientRemove(r)
        PROVE  TypeOK'
    <2>1. \A i \in DOMAIN repos : RemoveAt(repos, i) \in Seq(Repo)
      BY RemoveAtFacts
    <2>2. repos' \in Seq(Repo)
      BY <1>5, <2>1 DEF ClientRemove, RemoveRepository, DropFromRotation
    <2>3. nextRepo' \in Nat
      BY <1>5 DEF ClientRemove, RemoveRepository
    <2> QED
      BY <1>5, <2>2, <2>3, SMTT(30) DEF ClientRemove, RemoveRepository
  <1>6. CASE UNCHANGED vars
    BY <1>6 DEF vars
  <1> QED
    BY <1>1, <1>2, <1>3, <1>4, <1>5, <1>6 DEF Next

(* Every reachable state of the queue is well typed.                        *)
THEOREM TypeCorrect == Spec => []TypeOK
  <1>1. Init => TypeOK
    BY SMTT(30) DEF Init, NewSyncQueue, TypeOK
  <1> QED
    BY <1>1, TypeStep, PTL DEF Spec

-----------------------------------------------------------------------------
(* The map of slices and the rotation stay in step.                         *)
LEMMA RotationStep == TypeOK /\ RotationConsistent /\ [Next]_vars => RotationConsistent'
  <1> SUFFICES ASSUME TypeOK, RotationConsistent, [Next]_vars
               PROVE  RotationConsistent'
    OBVIOUS
  <1> USE DEF RotationConsistent
  <1>a. repos \in Seq(Repo) /\ queues \in [Repo -> Seq(Task)]
    BY DEF TypeOK
  <1>1. ASSUME NEW task \in Task, ClientPush(task)
        PROVE  RotationConsistent'
    <2> DEFINE r == task.repo
    <2>1. r \in Repo
      BY DEF Task
    <2>2. CASE r \notin keys /\ queues' = [queues EXCEPT ![r] = <<task>>]
               /\ keys' = keys \cup {r} /\ repos' = Append(repos, r)
      <3>1. \A i \in DOMAIN repos : repos[i] # r
        BY <2>2 DEF Range
      <3>2. /\ DOMAIN repos' = 1 .. (Len(repos) + 1)
            /\ DOMAIN repos = 1 .. Len(repos)
            /\ Len(repos) \in Nat
            /\ \A i \in 1 .. Len(repos) : repos'[i] = repos[i]
            /\ repos'[Len(repos) + 1] = r
        BY <1>a, <2>1, <2>2, SMTT(30)
      <3>3. IsInjective(repos')
        BY <3>1, <3>2, SMTT(30) DEF IsInjective
      <3>4. Range(repos') \subseteq keys'
        BY <2>2, <3>2, SMTT(30) DEF Range
      <3>5. Range(<<task>>) = {task}
        BY SMTT(30) DEF Range
      <3>6. \A q \in Repo : \A t \in Range(queues'[q]) : t.repo = q /\ q \in keys'
        BY <1>a, <2>1, <2>2, <3>5
      <3> QED
        BY <3>3, <3>4, <3>6
    <2>3. ASSUME r \in keys, UNCHANGED <<keys, repos>>,
                 NEW s \in Sorted(Append(queues[r], task)),
                 queues' = [queues EXCEPT ![r] = s]
          PROVE  RotationConsistent'
      <3>1. Range(s) \subseteq Range(Append(queues[r], task))
        <4>1. Append(queues[r], task) \in Seq(Task)
          BY <1>a, <2>1, SMTT(30)
        <4> QED
          BY <2>3, <4>1, SortedFacts
      <3>2. Range(Append(queues[r], task)) \subseteq Range(queues[r]) \cup {task}
        <4>1. queues[r] \in Seq(Task)
          BY <1>a, <2>1
        <4> HIDE DEF r
        <4> QED
          BY <4>1, SMTT(30) DEF Range
      <3>3. \A q \in Repo : \A t \in Range(queues'[q]) : t.repo = q /\ q \in keys'
        BY <1>a, <2>1, <2>3, <3>1, <3>2
      <3> QED
        BY <2>3, <3>3
    <2>4. CASE UNCHANGED <<queues, keys, repos>>
      BY <2>4
    <2> QED
      BY <1>1, <2>2, <2>3, <2>4 DEF ClientPush, Push
  <1>2. ASSUME NEW task \in Task, ClientPop(task)
        PROVE  RotationConsistent'
    <2>1. PICK i \in 0 .. (Len(repos) - 1) : PopAt(i, task)
      BY <1>2, PopFacts DEF ClientPop
    <2> DEFINE r == repos[Slot(i)]
    <2>2. r \in Repo /\ queues[r] \in Seq(Task) /\ queues[r] # <<>>
      BY <1>a, <2>1 DEF PopAt
    <2>3. Range(Tail(queues[r])) \subseteq Range(queues[r])
      <3> HIDE DEF r
      <3>1. /\ Len(Tail(queues[r])) = Len(queues[r]) - 1
            /\ \A k \in 1 .. Len(Tail(queues[r])) : Tail(queues[r])[k] = queues[r][k + 1]
            /\ Tail(queues[r]) \in Seq(Task)
        BY <2>2, HeadTailProperties
      <3> QED
        BY <2>2, <3>1, SMTT(30) DEF Range
    <2>4. \A q \in Repo : \A t \in Range(queues'[q]) : t.repo = q /\ q \in keys'
      BY <1>a, <2>1, <2>2, <2>3 DEF PopAt
    <2> QED
      BY <2>1, <2>4 DEF PopAt
  <1>3. ASSUME NEW i \in DOMAIN held, ClientRequeue(i)
        PROVE  RotationConsistent'
    <2> DEFINE t0 == held[i]
    <2>1. t0 \in Task /\ t0.repo \in Repo
      <3>1. t0 \in Task
        BY SMTT(30) DEF TypeOK
      <3> QED
        BY <3>1 DEF Task
    <2>2. Range(Cons(t0, queues[t0.repo])) \subseteq Range(queues[t0.repo]) \cup {t0}
      <3>1. queues[t0.repo] \in Seq(Task)
        BY <1>a, <2>1
      <3> HIDE DEF t0
      <3> QED
        BY <2>1, <3>1, SMTT(30) DEF Range, Cons
    <2>3. /\ queues' = [queues EXCEPT ![t0.repo] = Cons(t0, queues[t0.repo])]
          /\ keys' = keys \cup {t0.repo}
          /\ UNCHANGED repos
      BY <1>3 DEF ClientRequeue, Requeue
    <2> HIDE DEF t0
    <2>4. \A q \in Repo : \A t \in Range(queues'[q]) : t.repo = q /\ q \in keys'
      BY <1>a, <2>1, <2>2, <2>3
    <2> QED
      BY <2>3, <2>4
  <1>4. ASSUME NEW i \in DOMAIN held, ClientFinish(i)
        PROVE  RotationConsistent'
    BY <1>4 DEF ClientFinish
  <1>5. ASSUME NEW r \in Repo, ClientRemove(r)
        PROVE  RotationConsistent'
    <2>1. /\ queues' = [queues EXCEPT ![r] = <<>>]
          /\ keys' = keys \ {r}
          /\ DropFromRotation(r)
      BY <1>5 DEF ClientRemove, RemoveRepository
    <2>2. \A q \in Repo : \A t \in Range(queues'[q]) : t.repo = q /\ q \in keys'
      <3>1. Range(<<>>) = {}
        BY SMTT(30) DEF Range
      <3> QED
        BY <1>a, <2>1, <3>1
    <2>3. ASSUME NEW i \in DOMAIN repos, repos[i] = r, repos' = RemoveAt(repos, i)
          PROVE  IsInjective(repos') /\ Range(repos') \subseteq keys'
      <3>1. /\ repos' \in Seq(Repo)
            /\ Len(repos') = Len(repos) - 1
            /\ \A j \in 1 .. (Len(repos) - 1) :
                 repos'[j] = IF j < i THEN repos[j] ELSE repos[j + 1]
        BY <1>a, <2>3, RemoveAtFacts
      <3>2. /\ DOMAIN repos' = 1 .. (Len(repos) - 1)
            /\ DOMAIN repos = 1 .. Len(repos)
            /\ Len(repos) \in Nat
        BY <1>a, <3>1, SMTT(30)
      <3>3. ASSUME NEW a \in DOMAIN repos', NEW b \in DOMAIN repos', repos'[a] = repos'[b]
            PROVE  a = b
        <4> DEFINE up(k) == IF k < i THEN k ELSE k + 1
        <4>1. \A k \in DOMAIN repos' : up(k) \in DOMAIN repos /\ repos'[k] = repos[up(k)]
          BY <3>1, <3>2, SMTT(30)
        <4>2. up(a) = up(b)
          BY <3>3, <4>1 DEF IsInjective
        <4> QED
          BY <3>2, <4>2, SMTT(30)
      <3>4. ASSUME NEW a \in DOMAIN repos'
            PROVE  repos'[a] \in Range(repos) /\ repos'[a] # r
        <4>1. PICK b \in DOMAIN repos : repos'[a] = repos[b] /\ b # i
          <5>1. CASE a < i
            BY <3>1, <3>2, <5>1, SMTT(30)
          <5>2. CASE ~(a < i)
            BY <3>1, <3>2, <5>2, SMTT(30)
          <5> QED
            BY <5>1, <5>2
        <4> QED
          BY <2>3, <4>1 DEF IsInjective, Range
      <3>5. IsInjective(repos')
        BY <3>3 DEF IsInjective
      <3>6. Range(repos') \subseteq Range(repos) \ {r}
        BY <3>4 DEF Range
      <3> QED
        BY <2>1, <3>5, <3>6
    <2>4. ASSUME r \notin Range(repos), UNCHANGED repos
          PROVE  IsInjective(repos') /\ Range(repos') \subseteq keys'
      BY <2>1, <2>4
    <2>5. IsInjective(repos') /\ Range(repos') \subseteq keys'
      BY <2>1, <2>3, <2>4 DEF DropFromRotation
    <2> QED
      BY <2>2, <2>5
  <1>6. CASE UNCHANGED vars
    BY <1>6 DEF vars
  <1> QED
    BY <1>1, <1>2, <1>3, <1>4, <1>5, <1>6 DEF Next

(* The map q.queues and the rotation q.repos stay in step, whatever the
   clients push, pop, requeue and remove.                                   *)
THEOREM RotationCorrect == Spec => []RotationConsistent
  <1>1. Init => RotationConsistent
    BY SMTT(30) DEF Init, NewSyncQueue, RotationConsistent, IsInjective, Range
  <1> QED
    BY <1>1, TypeCorrect, RotationStep, PTL DEF Spec

-----------------------------------------------------------------------------
(* Small files first, and no file twice, apart from the tasks of R.           *)
InLine(q, R) ==
  \A i, j \in DOMAIN q : i < j =>
    /\ Before(q[j], q[i]) => q[i] \in R
    /\ q[i].key = q[j].key => q[i] \in R \/ q[j] \in R

LEMMA InLineTail ==
  ASSUME NEW R, NEW q \in Seq(Task), q # <<>>, InLine(q, R)
  PROVE  InLine(Tail(q), R)
  <1>1. /\ Tail(q) \in Seq(Task) /\ Len(Tail(q)) = Len(q) - 1 /\ Len(q) \in Nat
        /\ \A i \in 1 .. Len(Tail(q)) : Tail(q)[i] = q[i + 1]
    BY HeadTailProperties, LenProperties
  <1>2. DOMAIN Tail(q) = 1 .. (Len(q) - 1) /\ DOMAIN q = 1 .. Len(q)
    BY <1>1, LenProperties
  <1> SUFFICES ASSUME NEW i \in DOMAIN Tail(q), NEW j \in DOMAIN Tail(q), i < j
               PROVE  /\ Before(Tail(q)[j], Tail(q)[i]) => Tail(q)[i] \in R
                      /\ Tail(q)[i].key = Tail(q)[j].key => Tail(q)[i] \in R \/ Tail(q)[j] \in R
    BY DEF InLine
  <1>3. Tail(q)[i] = q[i + 1] /\ Tail(q)[j] = q[j + 1]
    BY <1>1, <1>2
  <1>4. i + 1 \in DOMAIN q /\ j + 1 \in DOMAIN q /\ i + 1 < j + 1
    BY <1>1, <1>2, SMTT(30)
  <1>5. /\ Before(q[j + 1], q[i + 1]) => q[i + 1] \in R
        /\ q[i + 1].key = q[j + 1].key => q[i + 1] \in R \/ q[j + 1] \in R
    BY <1>4 DEF InLine
  <1> QED
    BY <1>3, <1>5

(* Requeue neither sorts nor compares, so the task it puts in front is of R.  *)
LEMMA InLineCons ==
  ASSUME NEW R, NEW q \in Seq(Task), NEW e \in Task, e \in R, InLine(q, R)
  PROVE  InLine(Cons(e, q), R)
  <1> DEFINE s == Cons(e, q)
  <1>1. /\ s \in Seq(Task) /\ Len(s) = Len(q) + 1 /\ s[1] = e
        /\ \A m \in 1 .. Len(q) : s[m + 1] = q[m]
    BY ConsFacts, SMTT(30)
  <1>2. DOMAIN s = 1 .. (Len(q) + 1) /\ DOMAIN q = 1 .. Len(q) /\ Len(q) \in Nat
    BY <1>1, LenProperties
  <1> HIDE DEF s
  <1> SUFFICES ASSUME NEW i \in DOMAIN s, NEW j \in DOMAIN s, i < j
               PROVE  /\ Before(s[j], s[i]) => s[i] \in R
                      /\ s[i].key = s[j].key => s[i] \in R \/ s[j] \in R
    BY DEF InLine, s
  <1>3. CASE i = 1
    BY <1>1, <1>3
  <1>4. CASE i # 1
    <2>1. /\ i - 1 \in 1 .. Len(q) /\ (i - 1) + 1 = i
          /\ j - 1 \in 1 .. Len(q) /\ (j - 1) + 1 = j /\ i - 1 < j - 1
      BY <1>2, <1>4, SMTT(30)
    <2>2. s[i] = q[i - 1] /\ s[j] = q[j - 1]
      BY <1>1, <2>1
    <2>3. /\ Before(q[j - 1], q[i - 1]) => q[i - 1] \in R
          /\ q[i - 1].key = q[j - 1].key => q[i - 1] \in R \/ q[j - 1] \in R
      BY <1>2, <2>1 DEF InLine
    <2> QED
      BY <2>2, <2>3
  <1> QED
    BY <1>3, <1>4

(* Push compares first and sorts after.                                     *)
LEMMA InLineSorted ==
  ASSUME NEW R, NEW q \in Seq(Task), NEW e \in Task, InLine(q, R),
         \A t \in Range(q) : t.key # e.key,
         NEW s \in Sorted(Append(q, e))
  PROVE  InLine(s, R)
  <1> DEFINE a == Append(q, e)
             D == 1 .. (Len(q) + 1)
  <1>1. /\ DOMAIN a = D /\ Len(q) \in Nat /\ DOMAIN q = 1 .. Len(q)
        /\ a[Len(q) + 1] = e /\ \A m \in 1 .. Len(q) : a[m] = q[m]
    BY SMTT(30)
  <1> HIDE DEF a
  <1>2. PICK f \in Injection(D, D) : s = [i \in D |-> a[f[i]]]
    BY <1>1 DEF Sorted, a
  <1>3. f \in [D -> D] /\ \A i, j \in D : f[i] = f[j] => i = j
    BY <1>2 DEF Injection, IsInjective
  <1>4. InSizeOrder(s) /\ DOMAIN s = D
    BY <1>2 DEF Sorted, a
  <1> SUFFICES ASSUME NEW i \in D, NEW j \in D, i < j
               PROVE  /\ Before(s[j], s[i]) => s[i] \in R
                      /\ s[i].key = s[j].key => s[i] \in R \/ s[j] \in R
    BY <1>4 DEF InLine
  <1>5. ~Before(s[j], s[i])
    BY <1>4 DEF InSizeOrder
  <1>6. ASSUME s[i].key = s[j].key
        PROVE  s[i] \in R \/ s[j] \in R
    <2>1. PICK x \in D, y \in D : x # y /\ s[i] = a[x] /\ s[j] = a[y]
      <3>1. f[i] \in D /\ f[j] \in D /\ f[i] # f[j]
        BY <1>3, SMTT(30)
      <3> QED
        BY <1>2, <3>1
    <2>2. \A m \in 1 .. Len(q) : a[m].key # e.key
      BY <1>1 DEF Range
    <2>3. x # Len(q) + 1 /\ y # Len(q) + 1
      <3>1. x = Len(q) + 1 => y \in 1 .. Len(q) /\ a[x] = e
        BY <1>1, <2>1, SMTT(30)
      <3>2. y = Len(q) + 1 => x \in 1 .. Len(q) /\ a[y] = e
        BY <1>1, <2>1, SMTT(30)
      <3> QED
        BY <1>6, <2>1, <2>2, <3>1, <3>2
    <2>4. x \in DOMAIN q /\ y \in DOMAIN q /\ a[x] = q[x] /\ a[y] = q[y]
      BY <1>1, <2>3, SMTT(30)
    <2>5. x < y \/ y < x
      BY <1>1, <2>1, SMTT(30)
    <2> QED
      BY <1>6, <2>1, <2>4, <2>5 DEF InLine
  <1> QED
    BY <1>5, <1>6

LEMMA InLineStep == TypeOK /\ OnlyRetriesOutOfLine /\ [Next]_vars => OnlyRetriesOutOfLine'
  <1> SUFFICES ASSUME TypeOK, OnlyRetriesOutOfLine, [Next]_vars, NEW r \in Repo
               PROVE  InLine(queues'[r], retried')
    BY DEF OnlyRetriesOutOfLine, InLine
  <1>a. queues \in [Repo -> Seq(Task)]
    BY DEF TypeOK
  <1>b. InLine(queues[r], retried)
    BY DEF OnlyRetriesOutOfLine, InLine
  <1>c. \A R : InLine(<<>>, R) /\ \A t : InLine(<<t>>, R)
    BY SMTT(30) DEF InLine
  <1>d. ASSUME queues'[r] = queues[r], retried \subseteq retried'
        PROVE  InLine(queues'[r], retried')
    BY <1>b, <1>d DEF InLine
  <1>1. ASSUME NEW task \in Task, ClientPush(task)
        PROVE  InLine(queues'[r], retried')
    <2>1. Push(task) /\ retried' = retried
      BY <1>1 DEF ClientPush
    <2>2. task.repo \in Repo
      BY DEF Task
    <2>3. CASE queues' = [queues EXCEPT ![task.repo] = <<task>>]
      BY <1>a, <1>c, <1>d, <2>1, <2>3
    <2>4. CASE queues' = queues
      BY <1>d, <2>1, <2>4
    <2>5. CASE /\ ~HasTask(task)
               /\ \E s \in Sorted(Append(queues[task.repo], task)) :
                    queues' = [queues EXCEPT ![task.repo] = s]
      <3>1. PICK s \in Sorted(Append(queues[task.repo], task)) :
              queues' = [queues EXCEPT ![task.repo] = s]
        BY <2>5
      <3>2. CASE task.repo # r
        BY <1>d, <2>1, <3>1, <3>2, SMTT(30)
      <3>3. CASE task.repo = r
        <4>1. PICK q \in Seq(Task) : q = queues[r]
          BY <1>a
        <4>2. \A t \in Range(q) : t.key # task.key
          BY <2>5, <3>3, <4>1 DEF HasTask
        <4>3. s \in Sorted(Append(q, task)) /\ InLine(q, retried)
          BY <1>b, <3>1, <3>3, <4>1
        <4>4. InLine(s, retried)
          BY <4>2, <4>3, InLineSorted
        <4>5. queues'[r] = s
          BY <1>a, <3>1, <3>3
        <4> QED
          BY <2>1, <4>4, <4>5
      <3> QED
        BY <3>2, <3>3
    <2> QED
      BY <2>1, <2>3, <2>4, <2>5 DEF Push
  <1>2. ASSUME NEW task \in Task, ClientPop(task)
        PROVE  InLine(queues'[r], retried')
    <2>1. Pop(task) /\ retried' = retried
      BY <1>2 DEF ClientPop
    <2>2. PICK i \in 0 .. (Len(repos) - 1) : PopAt(i, task)
      BY <2>1, PopFacts
    <2>3. PICK x \in Repo : queues[x] # <<>> /\ queues' = [queues EXCEPT ![x] = Tail(queues[x])]
      BY <2>2 DEF PopAt
    <2>4. CASE x = r
      <3>1. InLine(Tail(queues[r]), retried)
        BY <1>a, <1>b, <2>3, <2>4, InLineTail
      <3> QED
        BY <1>a, <2>1, <2>3, <2>4, <3>1
    <2>5. CASE x # r
      BY <1>a, <1>d, <2>1, <2>3, <2>5
    <2> QED
      BY <2>4, <2>5
  <1>3. ASSUME NEW i \in DOMAIN held, ClientRequeue(i)
        PROVE  InLine(queues'[r], retried')
    <2>1. PICK e \in Task : e = held[i]
      BY SMTT(30) DEF TypeOK
    <2>2. queues' = [queues EXCEPT ![e.repo] = Cons(e, queues[e.repo])] /\ retried' = retried \cup {e}
      BY <1>3, <2>1 DEF ClientRequeue, Requeue
    <2>3. CASE e.repo = r
      <3>1. PICK q \in Seq(Task) : q = queues[r]
        BY <1>a
      <3>2. InLine(q, retried')
        BY <1>b, <2>2, <3>1 DEF InLine
      <3>3. InLine(Cons(e, q), retried')
        BY <2>2, <3>2, InLineCons
      <3> QED
        BY <1>a, <2>2, <2>3, <3>1, <3>3
    <2>4. CASE e.repo # r
      BY <1>a, <1>d, <2>2, <2>4
    <2> QED
      BY <2>3, <2>4
  <1>4. ASSUME NEW i \in DOMAIN held, ClientFinish(i)
        PROVE  InLine(queues'[r], retried')
    BY <1>4, <1>d DEF ClientFinish
  <1>5. ASSUME NEW x \in Repo, ClientRemove(x)
        PROVE  InLine(queues'[r], retried')
    <2>1. queues' = [queues EXCEPT ![x] = <<>>] /\ retried' = retried
      BY <1>5 DEF ClientRemove, RemoveRepository
    <2> QED
      BY <1>a, <1>c, <1>d, <2>1
  <1>6. CASE UNCHANGED vars
    BY <1>6, <1>d DEF vars
  <1> QED
    BY <1>1, <1>2, <1>3, <1>4, <1>5, <1>6 DEF Next

(* Of two tasks of one repository the smaller waits in front, and they are of
   different files, unless Requeue (queue.go:120) put one of them back.       *)
THEOREM InLineHolds == Spec => []OnlyRetriesOutOfLine
  <1>1. Init => OnlyRetriesOutOfLine
    BY SMTT(30) DEF Init, NewSyncQueue, OnlyRetriesOutOfLine
  <1> QED
    BY <1>1, TypeCorrect, InLineStep, PTL DEF Spec

-----------------------------------------------------------------------------
(* Round robin, while no repository is removed.                             *)

(* The turn of a slot, counted from nextRepo, and the slot of a turn.       *)
LEMMA TurnsFacts ==
  ASSUME NEW n \in Nat \ {0}, NEW m \in 0 .. (n - 1)
  PROVE  /\ \A a \in 1 .. n : Turns(n, m, a) \in 0 .. (n - 1)
         /\ \A a \in 1 .. n : ((m + Turns(n, m, a)) % n) + 1 = a
         /\ \A i \in 0 .. (n - 1) : /\ ((m + i) % n) + 1 \in 1 .. n
                                    /\ Turns(n, m, ((m + i) % n) + 1) = i
  <1>1. \A a \in 1 .. n : Turns(n, m, a) \in 0 .. (n - 1)
    BY SMTT(30) DEF Turns
  <1>2. ASSUME NEW a \in 1 .. n
        PROVE  ((m + Turns(n, m, a)) % n) + 1 = a
    <2> DEFINE y == m + Turns(n, m, a)
               x == y % n
    <2>1. y \in Nat /\ y < n + n
      BY <1>1, SMTT(30)
    <2>2. x = IF y < n THEN y ELSE y - n
      <3> HIDE DEF y
      <3> QED
        BY <2>1, ModOnce
    <2> HIDE DEF x
    <2>3. x + 1 = a
      BY <2>1, <2>2, SMTT(30) DEF Turns
    <2> QED
      BY <2>3 DEF x
  <1>3. ASSUME NEW i \in 0 .. (n - 1)
        PROVE  /\ ((m + i) % n) + 1 \in 1 .. n
               /\ Turns(n, m, ((m + i) % n) + 1) = i
    <2> DEFINE y == m + i
               x == y % n
    <2>1. y \in Nat /\ y < n + n
      BY SMTT(30)
    <2>2. x = IF y < n THEN y ELSE y - n
      <3> HIDE DEF y
      <3> QED
        BY <2>1, ModOnce
    <2> HIDE DEF x
    <2>3. x + 1 \in 1 .. n /\ Turns(n, m, x + 1) = i
      BY <2>1, <2>2, SMTT(30) DEF Turns
    <2> QED
      BY <2>3 DEF x
  <1> QED
    BY <1>1, <1>2, <1>3

(* Serving slot s moves it to the last turn and brings the slots after it
   forward, in the same order.                                              *)
LEMMA TurnsAfterPop ==
  ASSUME NEW n \in Nat \ {0}, NEW m \in 0 .. (n - 1), NEW s \in 1 .. n, NEW a \in 1 .. n
  PROVE  Turns(n, s % n, a) =
           IF Turns(n, m, a) > Turns(n, m, s)
             THEN Turns(n, m, a) - Turns(n, m, s) - 1
             ELSE Turns(n, m, a) - Turns(n, m, s) - 1 + n
  <1> DEFINE x == s % n
  <1>1. x = IF s < n THEN s ELSE s - n
    <2>1. s \in Nat /\ s < n + n
      BY SMTT(30)
    <2> QED
      BY <2>1, ModOnce
  <1> HIDE DEF x
  <1>2. Turns(n, x, a) =
          IF Turns(n, m, a) > Turns(n, m, s)
            THEN Turns(n, m, a) - Turns(n, m, s) - 1
            ELSE Turns(n, m, a) - Turns(n, m, s) - 1 + n
    BY <1>1, SMTT(30) DEF Turns
  <1> QED
    BY <1>2 DEF x

(* A repository joining at the end of the rotation changes no order.        *)
LEMMA TurnsAfterAppend ==
  ASSUME NEW n \in Nat \ {0}, NEW m \in 0 .. (n - 1), NEW a \in 1 .. n, NEW b \in 1 .. n,
         Turns(n, m, a) < Turns(n, m, b)
  PROVE  Turns(n + 1, m, a) < Turns(n + 1, m, b)
  BY SMTT(30) DEF Turns

(* The loop of Pop passes over every waiting slot before the one it serves. *)
LEMMA ServedFirst ==
  ASSUME TypeOK, TurnOrder, NEW i \in 0 .. (Len(repos) - 1), NEW task, PopAt(i, task),
         NEW a \in DOMAIN repos, Waiting(repos[a])
  PROVE  /\ Turns(Len(repos), nextRepo, Slot(i)) = i
         /\ i <= Turns(Len(repos), nextRepo, a)
         /\ a # Slot(i) => i < Turns(Len(repos), nextRepo, a)
  <1> DEFINE n == Len(repos)
             d == Turns(n, nextRepo, a)
  <1>1. n \in Nat \ {0} /\ nextRepo \in 0 .. (n - 1) /\ a \in 1 .. n
    BY SMTT(30) DEF TypeOK, TurnOrder
  <1>2. Turns(n, nextRepo, Slot(i)) = i
    BY <1>1, TurnsFacts DEF Slot
  <1>3. d \in 0 .. (n - 1) /\ Slot(d) = a
    BY <1>1, TurnsFacts DEF Slot
  <1>4. ~(d < i)
    BY <1>1, <1>3, SMTT(30) DEF PopAt, Waiting
  <1>5. d = i => a = Slot(i)
    BY <1>3
  <1> QED
    BY <1>1, <1>2, <1>3, <1>4, <1>5, SMTT(30)

(* The invariant behind round robin.                                        *)
FairInv == TypeOK /\ RotationConsistent /\ EveryQueueScheduled /\ TurnOrder

LEMMA NoRemovalIsNext == NextNoRemoval => Next
  BY DEF NextNoRemoval, Next

LEMMA ScheduledStep == FairInv /\ [NextNoRemoval]_vars => EveryQueueScheduled'
  <1> SUFFICES ASSUME FairInv, [NextNoRemoval]_vars
               PROVE  EveryQueueScheduled'
    OBVIOUS
  <1> USE DEF FairInv, EveryQueueScheduled
  <1>1. ASSUME NEW task \in Task, ClientPush(task)
        PROVE  EveryQueueScheduled'
    <2>1. task.repo \in Repo /\ repos \in Seq(Repo)
      BY DEF Task, TypeOK
    <2>2. Range(Append(repos, task.repo)) = Range(repos) \cup {task.repo}
      BY <2>1, SMTT(30) DEF Range
    <2> QED
      BY <1>1, <2>2 DEF ClientPush, Push
  <1>2. ASSUME NEW task \in Task, ClientPop(task)
        PROVE  EveryQueueScheduled'
    <2>1. PICK i \in 0 .. (Len(repos) - 1) : PopAt(i, task)
      BY <1>2, PopFacts DEF ClientPop
    <2> QED
      BY <2>1 DEF PopAt
  <1>3. ASSUME NEW i \in DOMAIN held, ClientRequeue(i)
        PROVE  EveryQueueScheduled'
    BY <1>3 DEF ClientRequeue, Requeue, TurnOrder
  <1>4. ASSUME NEW i \in DOMAIN held, ClientFinish(i)
        PROVE  EveryQueueScheduled'
    BY <1>4 DEF ClientFinish
  <1>5. CASE UNCHANGED vars
    BY <1>5 DEF vars
  <1> QED
    BY <1>1, <1>2, <1>3, <1>4, <1>5 DEF NextNoRemoval

(* A push keeps the turns in order: a new repository joins last and nobody
   was served while it waited.                                              *)
LEMMA PushKeepsTurnOrder ==
  ASSUME FairInv, NEW task \in Task, ClientPush(task)
  PROVE  TurnOrder'
  <1> DEFINE r == task.repo
             n == Len(repos)
  <1>a. /\ repos \in Seq(Repo) /\ queues \in [Repo -> Seq(Task)]
        /\ bypassed \in [Repo -> SUBSET Repo]
        /\ n \in Nat /\ DOMAIN repos = 1 .. n /\ nextRepo \in Nat
        /\ r \in Repo
    <2>1. r \in Repo
      BY DEF Task
    <2> QED
      BY <2>1, SMTT(30) DEF FairInv, TypeOK
  <1>b. UNCHANGED <<held, bypassed, nextRepo>>
    BY DEF ClientPush, Push
  <1>1. ASSUME UNCHANGED <<keys, repos>>, \A q \in Repo : Waiting(q) => Waiting(q)'
        PROVE  TurnOrder'
    <2>1. \A q \in Repo : ~Waiting(q)' => bypassed'[q] = {}
      BY <1>b, <1>1 DEF FairInv, TurnOrder
    <2>2. UNCHANGED <<held, bypassed, nextRepo, keys, repos>>
      BY <1>b, <1>1
    <2> QED
      BY <2>1, <2>2 DEF FairInv, TurnOrder
  <1>2. ASSUME r \notin keys, queues' = [queues EXCEPT ![r] = <<task>>],
               keys' = keys \cup {r}, repos' = Append(repos, r)
        PROVE  TurnOrder'
    <2>1. /\ Len(repos') = n + 1
          /\ DOMAIN repos' = 1 .. (n + 1)
          /\ \A i \in 1 .. n : repos'[i] = repos[i]
          /\ repos'[n + 1] = r
      BY <1>a, <1>2, SMTT(30)
    <2>2. r \notin Range(repos)
      BY <1>2 DEF FairInv, EveryQueueScheduled
    <2>3. ~Waiting(r)
      <3>1. ASSUME Waiting(r)
            PROVE  FALSE
        <4>1. queues[r] \in Seq(Task) /\ queues[r] # <<>>
          BY <1>a, <3>1 DEF Waiting
        <4>2. 1 \in DOMAIN queues[r]
          BY <4>1, SMTT(30)
        <4>3. queues[r][1] \in Range(queues[r])
          BY <4>2 DEF Range
        <4> QED
          BY <1>a, <1>2, <4>3 DEF FairInv, RotationConsistent
      <3> QED
        BY <3>1
    <2>4. bypassed[r] = {}
      BY <1>a, <2>3 DEF FairInv, TurnOrder
    <2>5. nextRepo' < Len(repos')
      BY <1>a, <1>b, <2>1, SMTT(30) DEF FairInv, TurnOrder
    <2>6. \A q \in Repo : bypassed'[q] \subseteq Range(repos')
      BY <1>a, <1>b, <2>1, SMTT(30) DEF FairInv, TurnOrder, Range
    <2>7. \A q \in Repo : ~Waiting(q)' => bypassed'[q] = {}
      BY <1>a, <1>b, <1>2, <2>4 DEF FairInv, TurnOrder, Waiting
    <2>8. \A i \in DOMAIN held' : held'[i].repo \in keys'
      BY <1>b, <1>2 DEF FairInv, TurnOrder
    <2>9. ASSUME NEW a \in DOMAIN repos', NEW b \in DOMAIN repos',
                 repos'[b] \in bypassed'[repos'[a]]
          PROVE  Turns(n + 1, nextRepo, a) < Turns(n + 1, nextRepo, b)
      <3>1. a # n + 1
        BY <1>b, <2>1, <2>4, <2>9
      <3>2. a \in 1 .. n
        BY <1>a, <2>1, <3>1, SMTT(30)
      <3>3. repos[a] \in Repo /\ repos'[a] = repos[a]
        BY <1>a, <2>1, <3>2, SMTT(30)
      <3>4. b # n + 1
        BY <1>b, <2>1, <2>2, <2>9, <3>3 DEF FairInv, TurnOrder
      <3>5. b \in 1 .. n /\ repos'[b] = repos[b]
        BY <1>a, <2>1, <3>4, SMTT(30)
      <3>6. Turns(n, nextRepo, a) < Turns(n, nextRepo, b)
        BY <1>a, <1>b, <2>9, <3>2, <3>3, <3>5 DEF FairInv, TurnOrder
      <3>7. n \in Nat \ {0} /\ nextRepo \in 0 .. (n - 1)
        BY <1>a, <3>2, SMTT(30) DEF FairInv, TurnOrder
      <3> QED
        BY <3>2, <3>5, <3>6, <3>7, TurnsAfterAppend
    <2> QED
      BY <1>b, <2>1, <2>5, <2>6, <2>7, <2>8, <2>9 DEF TurnOrder
  <1>3. ASSUME NEW s \in Sorted(Append(queues[r], task)),
               queues' = [queues EXCEPT ![r] = s]
        PROVE  \A q \in Repo : Waiting(q) => Waiting(q)'
    <2>1. Append(queues[r], task) \in Seq(Task) /\ Len(Append(queues[r], task)) > 0
      BY <1>a, SMTT(30)
    <2>2. s \in Seq(Task) /\ Len(s) > 0
      BY <1>3, <2>1, SortedFacts
    <2>3. s # <<>>
      BY <2>2, SMTT(30)
    <2> QED
      BY <1>a, <1>3, <2>3 DEF Waiting
  <1>4. ASSUME UNCHANGED queues
        PROVE  \A q \in Repo : Waiting(q) => Waiting(q)'
    BY <1>4 DEF Waiting
  <1> QED
    BY <1>1, <1>2, <1>3, <1>4 DEF ClientPush, Push

(* A pop keeps the turns in order: the served slot gets the last turn, the
   waiting slots come forward together.                                     *)
LEMMA PopKeepsTurnOrder ==
  ASSUME FairInv, NEW task \in Task, ClientPop(task)
  PROVE  TurnOrder'
  <1> DEFINE n == Len(repos)
  <1>a. /\ repos \in Seq(Repo) /\ queues \in [Repo -> Seq(Task)]
        /\ bypassed \in [Repo -> SUBSET Repo]
        /\ held \in Seq(Task) /\ n \in Nat /\ DOMAIN repos = 1 .. n
    BY SMTT(30) DEF FairInv, TypeOK
  <1>1. PICK i \in 0 .. (n - 1) : PopAt(i, task)
    BY PopFacts DEF ClientPop, FairInv
  <1> DEFINE r == repos[Slot(i)]
  <1>2. /\ n \in Nat \ {0} /\ nextRepo \in 0 .. (n - 1)
        /\ Slot(i) \in 1 .. n
        /\ Turns(n, nextRepo, Slot(i)) = i
    <2>1. n \in Nat \ {0} /\ nextRepo \in 0 .. (n - 1)
      BY <1>a, SMTT(30) DEF FairInv, TurnOrder, TypeOK
    <2>2. Turns(n, nextRepo, Slot(i)) = i
      BY <2>1, TurnsFacts DEF Slot
    <2> QED
      BY <1>1, <2>1, <2>2 DEF PopAt
  <1>3. task.repo = r /\ r \in Repo
    <2>1. r \in Repo /\ queues[r] \in Seq(Task) /\ queues[r] # <<>> /\ task = Head(queues[r])
      BY <1>1, <1>a DEF PopAt
    <2>2. task = queues[r][1] /\ 1 \in DOMAIN queues[r]
      BY <2>1, SMTT(30)
    <2>3. task \in Range(queues[r])
      BY <2>2 DEF Range
    <2> QED
      BY <2>1, <2>3 DEF FairInv, RotationConsistent
  <1>4. /\ UNCHANGED <<keys, repos>>
        /\ queues' = [queues EXCEPT ![r] = Tail(queues[r])]
        /\ nextRepo' = Slot(i) % n
        /\ nextRepo' \in 0 .. (n - 1)
    BY <1>1 DEF PopAt
  <1>5. /\ bypassed'[r] = {}
        /\ \A q \in Repo \ {r} : Waiting(q) => bypassed'[q] = bypassed[q] \cup {r}
        /\ \A q \in Repo : ~Waiting(q) => bypassed'[q] = {}
    BY <1>3 DEF ClientPop, Served
  <1>6. \A q \in Repo \ {r} : Waiting(q)' <=> Waiting(q)
    BY <1>a, <1>3, <1>4 DEF Waiting
  <1> HIDE DEF r
  <1>7. \A q \in Repo : bypassed'[q] \subseteq Range(repos)
    <2>1. r \in Range(repos)
      BY <1>a, <1>2 DEF r, Range
    <2> QED
      BY <1>5, <2>1 DEF FairInv, TurnOrder
  <1>8. \A q \in Repo : ~Waiting(q)' => bypassed'[q] = {}
    BY <1>5, <1>6
  <1>9. \A k \in DOMAIN held' : held'[k].repo \in keys'
    <2>1. r \in keys
      <3>1. r \in Range(repos)
        BY <1>a, <1>2 DEF r, Range
      <3> QED
        BY <3>1 DEF FairInv, EveryQueueScheduled
    <2>2. held' = Append(held, task)
      BY DEF ClientPop
    <2>3. /\ DOMAIN held' = 1 .. (Len(held) + 1)
          /\ DOMAIN held = 1 .. Len(held)
          /\ Len(held) \in Nat
          /\ \A k \in 1 .. Len(held) : held'[k] = held[k]
          /\ held'[Len(held) + 1] = task
      BY <1>a, <2>2, SMTT(30)
    <2> QED
      BY <1>3, <1>4, <2>1, <2>3, SMTT(30) DEF FairInv, TurnOrder
  <1>10. ASSUME NEW a \in 1 .. n, NEW b \in 1 .. n, repos[b] \in bypassed'[repos[a]]
         PROVE  Turns(n, nextRepo', a) < Turns(n, nextRepo', b)
    <2> DEFINE da == Turns(n, nextRepo, a)
               db == Turns(n, nextRepo, b)
    <2>1. da \in 0 .. (n - 1) /\ db \in 0 .. (n - 1)
      BY <1>2, TurnsFacts
    <2>2. repos[a] \in Repo \ {r} /\ Waiting(repos[a])
      BY <1>a, <1>5, <1>10, SMTT(30)
    <2>3. i < da
      <3>1. a # Slot(i) /\ a \in DOMAIN repos
        BY <1>a, <2>2 DEF r
      <3>2. TypeOK /\ TurnOrder
        BY DEF FairInv
      <3> QED
        BY <1>1, <2>2, <3>1, <3>2, ServedFirst
    <2>4. /\ Turns(n, nextRepo', a) = IF da > i THEN da - i - 1 ELSE da - i - 1 + n
          /\ Turns(n, nextRepo', b) = IF db > i THEN db - i - 1 ELSE db - i - 1 + n
      <3> DEFINE After(x) ==
            IF Turns(n, nextRepo, x) > i THEN Turns(n, nextRepo, x) - i - 1
                                         ELSE Turns(n, nextRepo, x) - i - 1 + n
      <3> HIDE DEF n
      <3>1. \A x \in 1 .. n : Turns(n, Slot(i) % n, x) = After(x)
        BY <1>2, TurnsAfterPop, SMTT(30)
      <3> HIDE DEF After
      <3>2. Turns(n, nextRepo', a) = After(a) /\ Turns(n, nextRepo', b) = After(b)
        BY <1>4, <3>1
      <3> QED BY <3>2 DEF After
    <2>5. da < db \/ db = i
      <3>1. repos[b] \in bypassed[repos[a]] \/ repos[b] = r
        BY <1>5, <1>10, <2>2, SMTT(30)
      <3>2. repos[b] \in bypassed[repos[a]] => da < db
        BY <1>a DEF FairInv, TurnOrder
      <3>3. repos[b] = r => b = Slot(i)
        BY <1>a, <1>2 DEF r, FairInv, RotationConsistent, IsInjective
      <3> QED
        BY <1>2, <3>1, <3>2, <3>3
    <2> HIDE DEF da, db
    <2> QED
      BY <1>2, <2>1, <2>3, <2>4, <2>5, SMTT(30)
  <1> QED
    BY <1>4, <1>7, <1>8, <1>9, <1>10, <1>a, SMTT(30) DEF TurnOrder

LEMMA TurnOrderStep == FairInv /\ [NextNoRemoval]_vars => TurnOrder'
  <1> SUFFICES ASSUME FairInv, [NextNoRemoval]_vars
               PROVE  TurnOrder'
    OBVIOUS
  <1>a. held \in Seq(Task) /\ queues \in [Repo -> Seq(Task)]
    BY DEF FairInv, TypeOK
  <1>b. ASSUME NEW i \in DOMAIN held, held' = RemoveAt(held, i), keys \subseteq keys'
        PROVE  \A k \in DOMAIN held' : held'[k].repo \in keys'
    <2>1. /\ held' \in Seq(Task)
          /\ Len(held') = Len(held) - 1
          /\ \A j \in 1 .. (Len(held) - 1) :
               held'[j] = IF j < i THEN held[j] ELSE held[j + 1]
      BY <1>a, <1>b, RemoveAtFacts
    <2>2. DOMAIN held' = 1 .. (Len(held) - 1) /\ DOMAIN held = 1 .. Len(held) /\ Len(held) \in Nat
      BY <1>a, <2>1, SMTT(30)
    <2>3. ASSUME NEW k \in DOMAIN held'
          PROVE  \E j \in DOMAIN held : held'[k] = held[j]
      BY <2>1, <2>2, SMTT(30)
    <2> QED
      BY <1>b, <2>3 DEF FairInv, TurnOrder
  <1>1. ASSUME NEW task \in Task, ClientPush(task)
        PROVE  TurnOrder'
    BY <1>1, PushKeepsTurnOrder
  <1>2. ASSUME NEW task \in Task, ClientPop(task)
        PROVE  TurnOrder'
    BY <1>2, PopKeepsTurnOrder
  <1>3. ASSUME NEW i \in DOMAIN held, ClientRequeue(i)
        PROVE  TurnOrder'
    <2>1. /\ UNCHANGED <<repos, nextRepo, bypassed>>
          /\ queues' = [queues EXCEPT ![held[i].repo] = Cons(held[i], @)]
          /\ held' = RemoveAt(held, i)
          /\ keys \subseteq keys'
      BY <1>3 DEF ClientRequeue, Requeue
    <2>2. \A q \in Repo : ~Waiting(q)' => ~Waiting(q)
      <3>1. \A e, s : s \in Seq(Task) /\ e \in Task => Cons(e, s) # <<>>
        BY SMTT(30) DEF Cons
      <3>2. held[i] \in Task
        BY <1>a, SMTT(30)
      <3> QED
        BY <1>a, <2>1, <3>1, <3>2 DEF Waiting
    <2>3. \A k \in DOMAIN held' : held'[k].repo \in keys'
      BY <1>b, <2>1
    <2>4. \A q \in Repo : ~Waiting(q)' => bypassed'[q] = {}
      BY <2>1, <2>2 DEF FairInv, TurnOrder
    <2> QED
      BY <2>1, <2>3, <2>4 DEF FairInv, TurnOrder
  <1>4. ASSUME NEW i \in DOMAIN held, ClientFinish(i)
        PROVE  TurnOrder'
    <2>1. /\ UNCHANGED <<queues, keys, repos, nextRepo, bypassed>>
          /\ held' = RemoveAt(held, i)
      BY <1>4 DEF ClientFinish
    <2>2. \A k \in DOMAIN held' : held'[k].repo \in keys'
      BY <1>b, <2>1
    <2> QED
      BY <2>1, <2>2 DEF FairInv, TurnOrder, Waiting
  <1>5. CASE UNCHANGED vars
    BY <1>5 DEF vars, FairInv, TurnOrder, Waiting
  <1> QED
    BY <1>1, <1>2, <1>3, <1>4, <1>5 DEF NextNoRemoval

LEMMA FairInvariant == SpecNoRemoval => []FairInv
  <1>1. Init => FairInv
    BY SMTT(30) DEF Init, NewSyncQueue, FairInv, TypeOK, RotationConsistent, EveryQueueScheduled,
           TurnOrder, IsInjective, Range, Waiting
  <1>2. FairInv /\ [NextNoRemoval]_vars => FairInv'
    BY TypeStep, RotationStep, ScheduledStep, TurnOrderStep, NoRemovalIsNext DEF FairInv
  <1> QED
    BY <1>1, <1>2, PTL DEF SpecNoRemoval

(* While no repository is removed, no slice is ever out of Pop's reach.     *)
THEOREM Scheduled == SpecNoRemoval => []EveryQueueScheduled
  <1>1. FairInv => EveryQueueScheduled
    BY DEF FairInv
  <1> QED
    BY <1>1, FairInvariant, PTL

(* While no repository is removed, Pop serves no repository twice while
   another one of the rotation has a task waiting.                          *)
THEOREM RoundRobinHolds == SpecNoRemoval => RoundRobin
  <1> DEFINE Fair(s) == \A r \in Range(repos) \ {s} : Waiting(r) => s \notin bypassed[r]
             Step == Len(held') > Len(held) => Fair(Last(held').repo)
  <1>1. FairInv /\ [NextNoRemoval]_vars => [Step]_vars
    <2> SUFFICES ASSUME FairInv, NextNoRemoval, Len(held') > Len(held)
                 PROVE  Fair(Last(held').repo)
      BY DEF vars
    <2>a. held \in Seq(Task) /\ Len(held) \in Nat /\ repos \in Seq(Repo)
      BY SMTT(30) DEF FairInv, TypeOK
    <2>1. \A i \in DOMAIN held : ~ClientRequeue(i) /\ ~ClientFinish(i)
      <3>1. \A i \in DOMAIN held : Len(RemoveAt(held, i)) = Len(held) - 1
        BY <2>a, RemoveAtFacts
      <3> QED
        BY <2>a, <3>1, SMTT(30) DEF ClientRequeue, ClientFinish
    <2>2. \A task \in Task : ~ClientPush(task)
      BY <2>a, SMTT(30) DEF ClientPush
    <2>3. PICK task \in Task : ClientPop(task)
      BY <2>1, <2>2 DEF NextNoRemoval
    <2>4. Last(held') = task
      BY <2>a, <2>3, SMTT(30) DEF ClientPop, Last
    <2>5. PICK i \in 0 .. (Len(repos) - 1) : PopAt(i, task)
      BY <2>3, PopFacts DEF ClientPop, FairInv
    <2>6. task.repo = repos[Slot(i)] /\ Slot(i) \in DOMAIN repos
      <3> DEFINE r == repos[Slot(i)]
      <3>1. r \in Repo /\ queues[r] \in Seq(Task) /\ queues[r] # <<>> /\ task = Head(queues[r])
        BY <2>5 DEF PopAt, FairInv, TypeOK
      <3>2. task = queues[r][1] /\ 1 \in DOMAIN queues[r]
        BY <3>1, SMTT(30)
      <3>3. task \in Range(queues[r])
        BY <3>2 DEF Range
      <3> QED
        BY <2>a, <2>5, <3>1, <3>3, SMTT(30) DEF FairInv, RotationConsistent, PopAt
    <2>7. ASSUME NEW a \in DOMAIN repos, repos[a] # task.repo, Waiting(repos[a])
          PROVE  task.repo \notin bypassed[repos[a]]
      <3>1. TypeOK /\ TurnOrder
        BY DEF FairInv
      <3>2. /\ Turns(Len(repos), nextRepo, Slot(i)) = i
            /\ i <= Turns(Len(repos), nextRepo, a)
        BY <2>5, <2>7, <3>1, ServedFirst
      <3>3. repos[Slot(i)] \in bypassed[repos[a]] =>
              Turns(Len(repos), nextRepo, a) < Turns(Len(repos), nextRepo, Slot(i))
        BY <2>6 DEF FairInv, TurnOrder
      <3>4. Turns(Len(repos), nextRepo, a) \in Int
        BY <2>a, <3>1, SMTT(30) DEF TypeOK, Turns
      <3> QED
        BY <2>6, <3>2, <3>3, <3>4, SMTT(30)
    <2> QED
      BY <2>4, <2>7 DEF Range
  <1>2. RoundRobin <=> [][Step]_vars
    BY DEF RoundRobin
  <1> HIDE DEF Step
  <1> QED
    BY <1>1, <1>2, FairInvariant, PTL DEF SpecNoRemoval

-----------------------------------------------------------------------------
(* The processor loop.                                                       *)
INSTANCE FiniteSetTheorems

-----------------------------------------------------------------------------
(* Counting the tasks of a repository.                                       *)

Of(q, r, m) == {i \in 1 .. m : q[i].repo = r}

LEMMA OfFinite ==
  ASSUME NEW q, NEW r, NEW m \in Nat
  PROVE  IsFiniteSet(Of(q, r, m)) /\ Cardinality(Of(q, r, m)) \in Nat
<1>1. IsFiniteSet(1 .. m) BY FS_Interval, SMTT(30)
<1>2. Of(q, r, m) \in SUBSET (1 .. m) BY DEF Of
<1> QED BY <1>1, <1>2, FS_Subset, FS_CardinalityType

(* One more position is looked at ...                                        *)
LEMMA CountNext ==
  ASSUME NEW q, NEW r, NEW m \in Nat
  PROVE  Cardinality(Of(q, r, m + 1)) =
           IF q[m + 1].repo = r THEN Cardinality(Of(q, r, m)) + 1 ELSE Cardinality(Of(q, r, m))
<1>1. 1 .. (m + 1) = (1 .. m) \cup {m + 1} /\ m + 1 \notin 1 .. m BY SMTT(30)
<1>2. CASE q[m + 1].repo = r
  <2>1. Of(q, r, m + 1) = Of(q, r, m) \cup {m + 1} BY <1>1, <1>2 DEF Of
  <2>2. m + 1 \notin Of(q, r, m) BY <1>1 DEF Of
  <2> QED BY <1>2, <2>1, <2>2, OfFinite, FS_AddElement, SMTT(30)
<1>3. CASE q[m + 1].repo # r
  <2>1. Of(q, r, m + 1) = Of(q, r, m) BY <1>1, <1>3 DEF Of
  <2> QED BY <1>3, <2>1
<1> QED BY <1>2, <1>3

(* ... and one is removed: the later ones move down by one.                  *)
LEMMA CountRemoved ==
  ASSUME NEW q \in Seq(Task), NEW m \in 1 .. Len(q), NEW i \in 1 .. m, NEW r
  PROVE  Cardinality(Of(RemoveAt(q, i), r, m - 1)) =
           IF q[i].repo = r THEN Cardinality(Of(q, r, m)) - 1 ELSE Cardinality(Of(q, r, m))
<1> DEFINE p == RemoveAt(q, i)
           A == Of(p, r, m - 1)
           B == Of(q, r, m) \ {i}
           f == [j \in A |-> IF j < i THEN j ELSE j + 1]
<1>1. Len(q) \in Nat /\ DOMAIN q = 1 .. Len(q) /\ i \in DOMAIN q BY LenProperties, SMTT(30)
<1>2. \A j \in 1 .. (m - 1) : p[j] = IF j < i THEN q[j] ELSE q[j + 1]
  <2>1. \A j \in 1 .. (Len(q) - 1) : p[j] = IF j < i THEN q[j] ELSE q[j + 1] BY <1>1, RemoveAtFacts
  <2> QED BY <1>1, <2>1, SMTT(30)
<1> HIDE DEF p
<1>3. \A j \in A : j \in 1 .. (m - 1) /\ p[j].repo = r BY DEF Of
<1>4. \A j \in B : j \in 1 .. m /\ j # i /\ q[j].repo = r BY DEF Of
<1>5. ASSUME NEW j \in 1 .. m, j # i, q[j].repo = r PROVE j \in B BY <1>5 DEF Of
<1>6. ASSUME NEW j \in 1 .. (m - 1), p[j].repo = r PROVE j \in A BY <1>6 DEF Of
<1>7. f \in [A -> B]
  <2>1. ASSUME NEW j \in A PROVE (IF j < i THEN j ELSE j + 1) \in B
    <3>1. j \in 1 .. (m - 1) /\ p[j].repo = r BY <1>3
    <3>2. CASE j < i BY <1>1, <1>2, <1>5, <3>1, <3>2, SMTT(30)
    <3>3. CASE ~(j < i)
      <4>1. j + 1 \in 1 .. m /\ j + 1 # i BY <1>1, <3>1, <3>3, SMTT(30)
      <4>2. q[j + 1].repo = r BY <1>2, <3>1, <3>3
      <4> QED BY <1>5, <3>3, <4>1, <4>2
    <3> QED BY <3>2, <3>3
  <2> QED BY <2>1
<1>8. ASSUME NEW a \in A, NEW b \in A, f[a] = f[b] PROVE a = b
  <2>1. a \in 1 .. (m - 1) /\ b \in 1 .. (m - 1) BY <1>3
  <2>2. (IF a < i THEN a ELSE a + 1) = (IF b < i THEN b ELSE b + 1) BY <1>8
  <2> QED BY <1>1, <2>1, <2>2, SMTT(30)
<1>9. ASSUME NEW b \in B PROVE \E a \in A : f[a] = b
  <2>1. b \in 1 .. m /\ b # i /\ q[b].repo = r BY <1>4
  <2>2. CASE b < i
    <3>1. b \in 1 .. (m - 1) BY <1>1, <2>1, <2>2, SMTT(30)
    <3>2. b \in A BY <1>2, <1>6, <2>1, <2>2, <3>1
    <3> QED BY <2>2, <3>2
  <2>3. CASE ~(b < i)
    <3>1. b - 1 \in 1 .. (m - 1) /\ ~(b - 1 < i) /\ (b - 1) + 1 = b BY <1>1, <2>1, <2>3, SMTT(30)
    <3>2. b - 1 \in A BY <1>2, <1>6, <2>1, <3>1
    <3>3. f[b - 1] = b BY <3>1, <3>2
    <3> QED BY <3>2, <3>3
  <2> QED BY <2>2, <2>3
<1>10. Cardinality(A) = Cardinality(B)
  <2> HIDE DEF A, B, f
  <2>1. f \in Bijection(A, B)
    BY <1>7, <1>8, <1>9 DEF Bijection, Injection, Surjection, IsInjective
  <2>2. ExistsBijection(A, B) BY <2>1 DEF ExistsBijection
  <2>3. IsFiniteSet(A) BY OfFinite, SMTT(30) DEF A
  <2> QED BY <2>2, <2>3, FS_Bijection
<1>11. Cardinality(B) = IF i \in Of(q, r, m) THEN Cardinality(Of(q, r, m)) - 1 ELSE Cardinality(Of(q, r, m))
  <2>1. m \in Nat BY <1>1, SMTT(30)
  <2>2. IsFiniteSet(Of(q, r, m)) BY <2>1, OfFinite
  <2> QED BY <2>2, FS_RemoveElement
<1>12. i \in Of(q, r, m) <=> q[i].repo = r BY DEF Of
<1> QED BY <1>10, <1>11, <1>12 DEF p

-----------------------------------------------------------------------------
(* Every step of the coordinator is a step of the queue's arbitrary clients.  *)

LEMMA QueueStep ==
  ASSUME DTypeOK, [DNext]_dvars
  PROVE  [Next]_vars
<1>1. InHand => Len(held) \in DOMAIN held BY SMTT(30) DEF DTypeOK, TypeOK
<1>2. Running \subseteq DOMAIN held BY SMTT(30) DEF Running, DTypeOK, TypeOK
<1>3. CASE Loop
  <2>1. CASE LoopTop BY <2>1 DEF LoopTop
  <2>2. CASE PopTask BY <2>2 DEF PopTask, Next
  <2>3. CASE FindSemaphore BY <1>1, <2>3 DEF FindSemaphore, InHand, Next
  <2>4. CASE TakeGlobalSlot BY <1>1, <2>4 DEF TakeGlobalSlot, InHand, Next
  <2>5. CASE TakeRepoSlot BY <1>1, <2>5 DEF TakeRepoSlot, InHand, Next
  <2> QED BY <1>3, <2>1, <2>2, <2>3, <2>4, <2>5 DEF Loop
<1>4. CASE Execute
  <2>1. PICK i \in Running : executeSyncTask(i) BY <1>4 DEF Execute
  <2>2. i \in DOMAIN held BY <1>2
  <2> QED BY <2>1, <2>2 DEF executeSyncTask, Next
<1>5. CASE Peers BY <1>5 DEF Peers, PushTask, ConnectionChanges, Next
<1>6. CASE Repositories BY <1>6 DEF Repositories, AddRepository, Untrack, Next
<1>7. CASE Stop BY <1>7 DEF Stop
<1>8. CASE UNCHANGED dvars BY <1>8 DEF dvars
<1> QED BY <1>3, <1>4, <1>5, <1>6, <1>7, <1>8 DEF DNext

-----------------------------------------------------------------------------
(* The slots.                                                               *)

(* How many goroutines are under way.                                       *)
K == IF InHand THEN Len(held) - 1 ELSE Len(held)
Waits == IF pc = "repo" THEN 1 ELSE 0

LEMMA RunningIs ==
  ASSUME DTypeOK
  PROVE  /\ K \in 0 .. Len(held) /\ Len(held) \in Nat /\ held \in Seq(Task)
         /\ DOMAIN held = 1 .. Len(held)
         /\ Running = 1 .. K
         /\ InHand => Len(held) = K + 1
         /\ ~InHand => Len(held) = K
         /\ SlotsMatch => /\ globalSem = K + Waits
                          /\ \A r \in Repo : repoSemaphores[r] = Cardinality(Of(held, r, K))
<1>1. /\ held \in Seq(Task) /\ Len(held) \in Nat /\ DOMAIN held = 1 .. Len(held)
      /\ InHand => Len(held) # 0
  BY SMTT(30) DEF DTypeOK, TypeOK
<1>2. K \in 0 .. Len(held) /\ Running = 1 .. K BY <1>1, SMTT(30) DEF K, Running
<1>3. Cardinality(1 .. K) = K BY <1>1, <1>2, FS_Interval, SMTT(30)
<1>4. SlotsMatch => /\ globalSem = K + Waits
                    /\ \A r \in Repo : repoSemaphores[r] = Cardinality(Of(held, r, K))
  BY <1>2, <1>3 DEF SlotsMatch, Of, Waits
<1>5. ASSUME InHand PROVE Len(held) = K + 1
  <2>1. K = Len(held) - 1 BY <1>5 DEF K
  <2> QED BY <1>1, <2>1, SMTT(30)
<1>6. ASSUME ~InHand PROVE Len(held) = K BY <1>6 DEF K
<1> QED BY <1>1, <1>2, <1>4, <1>5, <1>6

LEMMA SlotsAfter ==
  ASSUME held' \in Seq(Task), NEW k \in Nat,
         Len(held') = IF InHand' THEN k + 1 ELSE k,
         globalSem' = k + Waits',
         \A r \in Repo : repoSemaphores'[r] = Cardinality(Of(held', r, k))
  PROVE  SlotsMatch'
<1>1. Running' = 1 .. k
  <2>1. DOMAIN held' = 1 .. Len(held') /\ Len(held') \in Nat BY LenProperties
  <2> QED BY <2>1, SMTT(30) DEF Running
<1>2. Cardinality(1 .. k) = k BY FS_Interval, SMTT(30)
<1> QED BY <1>1, <1>2 DEF SlotsMatch, Of, Waits

(* The positions that stay where they are count the same.                    *)
LEMMA OfSame ==
  ASSUME NEW p, NEW q, NEW m \in Nat, \A j \in 1 .. m : p[j] = q[j]
  PROVE  \A r : Of(p, r, m) = Of(q, r, m)
BY DEF Of

(* What a step may do to the loop's own state: no slot, nor what they are
   counted by, changes.                                                     *)
LEMMA SlotsKept ==
  ASSUME DTypeOK, SlotsMatch, UNCHANGED <<held, globalSem, repoSemaphores>>,
         InHand' <=> InHand, Waits' = Waits
  PROVE  SlotsMatch'
<1>1. K \in Nat /\ held' \in Seq(Task) /\ Len(held') = IF InHand' THEN K + 1 ELSE K
  BY RunningIs, SMTT(30)
<1>2. PICK k \in Nat : k = K BY <1>1
<1>3. globalSem' = k + Waits' /\ \A r \in Repo : repoSemaphores'[r] = Cardinality(Of(held', r, k))
  BY <1>2, RunningIs
<1> QED BY <1>1, <1>2, <1>3, SlotsAfter

(* The task in the loop's hands is given up: no goroutine is concerned.       *)
LEMMA HandGiven ==
  ASSUME DTypeOK, SlotsMatch, InHand, ~InHand',
         held' = RemoveAt(held, Len(held)), UNCHANGED repoSemaphores,
         globalSem' = globalSem - Waits
  PROVE  SlotsMatch'
<1>1. PICK k \in Nat : k = K BY RunningIs, SMTT(30)
<1>2. Len(held) = k + 1 /\ held \in Seq(Task) /\ Len(held) \in DOMAIN held
  <2>1. Len(held) = k + 1 /\ held \in Seq(Task) /\ DOMAIN held = 1 .. Len(held)
    BY <1>1, RunningIs
  <2> QED BY <2>1, SMTT(30)
<1>3. /\ held' \in Seq(Task) /\ Len(held') = k
      /\ \A j \in 1 .. k : held'[j] = held[j]
  <2>1. /\ RemoveAt(held, Len(held)) \in Seq(Task)
        /\ Len(RemoveAt(held, Len(held))) = Len(held) - 1
        /\ \A j \in 1 .. (Len(held) - 1) :
             RemoveAt(held, Len(held))[j] = IF j < Len(held) THEN held[j] ELSE held[j + 1]
    BY <1>2, RemoveAtFacts
  <2> QED BY <1>2, <2>1, SMTT(30)
<1>4. Waits' = 0 /\ Waits \in Nat BY DEF Waits, InHand
<1>5. globalSem' = k + Waits' BY <1>1, <1>4, RunningIs, SMTT(30)
<1>6. \A r \in Repo : repoSemaphores'[r] = Cardinality(Of(held', r, k))
  <2>1. \A r : Of(held', r, k) = Of(held, r, k) BY <1>3, OfSame, SMTT(30)
  <2> QED BY <1>1, <2>1, RunningIs
<1> QED BY <1>3, <1>5, <1>6, SlotsAfter

LEMMA SlotsStep ==
  ASSUME DTypeOK, SlotsMatch, [DNext]_dvars
  PROVE  SlotsMatch'
<1>1. CASE LoopTop BY <1>1, SlotsKept DEF LoopTop, vars, slotVars, InHand, Waits
<1>2. CASE PopTask
  <2>1. CASE \E task \in Task : ClientPop(task) /\ pc' = "sem"
    <3>1. PICK task \in Task : ClientPop(task) /\ pc' = "sem" BY <2>1
    <3>2. PICK k \in Nat : k = K BY RunningIs, SMTT(30)
    <3>3. pc = "pop" /\ UNCHANGED <<globalSem, repoSemaphores>> BY <1>2 DEF PopTask, slotVars
    <3>4. held' = Append(held, task) BY <3>1 DEF ClientPop
    <3>5. Len(held) = k /\ held \in Seq(Task) BY <3>2, <3>3, RunningIs DEF InHand
    <3>6. held' \in Seq(Task) /\ Len(held') = k + 1 /\ \A j \in 1 .. k : held'[j] = held[j]
      BY <3>4, <3>5, SMTT(30)
    <3>7. InHand' /\ Waits' = 0 /\ Waits = 0 BY <3>1, <3>3 DEF InHand, Waits
    <3>8. globalSem' = k + Waits' BY <3>2, <3>3, <3>7, RunningIs
    <3>9. \A r \in Repo : repoSemaphores'[r] = Cardinality(Of(held', r, k))
      <4>1. \A r : Of(held', r, k) = Of(held, r, k) BY <3>6, OfSame
      <4> QED BY <3>2, <3>3, <4>1, RunningIs
    <3> QED BY <3>6, <3>7, <3>8, <3>9, SlotsAfter
  <2>2. CASE pc' = "top" /\ UNCHANGED vars
    BY <1>2, <2>2, SlotsKept DEF PopTask, vars, slotVars, InHand, Waits
  <2> QED BY <1>2, <2>1, <2>2 DEF PopTask
<1>3. CASE FindSemaphore
  <2>1. CASE pc' = "global" /\ UNCHANGED vars
    BY <1>3, <2>1, SlotsKept DEF FindSemaphore, vars, slotVars, InHand, Waits
  <2>2. CASE ClientRequeue(Len(held)) /\ pc' = "top"
    <3>1. InHand /\ ~InHand' /\ Waits = 0 BY <1>3, <2>2 DEF FindSemaphore, InHand, Waits
    <3>2. held' = RemoveAt(held, Len(held)) BY <2>2 DEF ClientRequeue
    <3>3. UNCHANGED <<globalSem, repoSemaphores>> BY <1>3 DEF FindSemaphore, slotVars
    <3>4. globalSem' = globalSem - Waits BY <3>1, <3>3, SMTT(30) DEF DTypeOK
    <3> QED BY <3>1, <3>2, <3>3, <3>4, HandGiven
  <2> QED BY <1>3, <2>1, <2>2 DEF FindSemaphore
<1>4. CASE TakeGlobalSlot
  <2>1. CASE ClientFinish(Len(held)) /\ pc' = "exit" /\ UNCHANGED globalSem
    <3>1. InHand /\ ~InHand' /\ Waits = 0 BY <1>4, <2>1 DEF TakeGlobalSlot, InHand, Waits
    <3>2. held' = RemoveAt(held, Len(held)) BY <2>1 DEF ClientFinish
    <3>3. UNCHANGED repoSemaphores BY <1>4 DEF TakeGlobalSlot
    <3>4. globalSem' = globalSem - Waits BY <2>1, <3>1, SMTT(30) DEF DTypeOK
    <3> QED BY <3>1, <3>2, <3>3, <3>4, HandGiven
  <2>2. CASE globalSem' = globalSem + 1 /\ pc' = "repo" /\ UNCHANGED vars
    <3>1. InHand /\ InHand' /\ Waits = 0 /\ Waits' = 1
      BY <1>4, <2>2 DEF TakeGlobalSlot, InHand, Waits
    <3>2. held' = held /\ repoSemaphores' = repoSemaphores BY <1>4, <2>2 DEF TakeGlobalSlot, vars
    <3>3. PICK k \in Nat : k = K BY RunningIs, SMTT(30)
    <3>4. held' \in Seq(Task) /\ Len(held') = k + 1 BY <3>1, <3>2, <3>3, RunningIs
    <3>5. globalSem' = k + Waits' BY <2>2, <3>1, <3>3, RunningIs, SMTT(30)
    <3>6. \A r \in Repo : repoSemaphores'[r] = Cardinality(Of(held', r, k))
      BY <3>2, <3>3, RunningIs
    <3> QED BY <3>1, <3>4, <3>5, <3>6, SlotsAfter
  <2> QED BY <1>4, <2>1, <2>2 DEF TakeGlobalSlot
<1>5. CASE TakeRepoSlot
  <2>a. pc = "repo" /\ InHand /\ Waits = 1 BY <1>5 DEF TakeRepoSlot, InHand, Waits
  <2>1. CASE ClientFinish(Len(held)) /\ globalSem' = globalSem - 1 /\ pc' = "exit"
             /\ UNCHANGED repoSemaphores
    <3>1. ~InHand' BY <2>1 DEF InHand
    <3>2. held' = RemoveAt(held, Len(held)) BY <2>1 DEF ClientFinish
    <3> QED BY <2>a, <2>1, <3>1, <3>2, HandGiven
  <2>2. CASE /\ repoSemaphores' = [repoSemaphores EXCEPT ![Hand.repo] = @ + 1]
             /\ pc' = "top" /\ UNCHANGED <<vars, globalSem>>
    <3>1. ~InHand' /\ Waits' = 0 BY <2>2 DEF InHand, Waits
    <3>2. PICK k \in Nat : k = K BY RunningIs, SMTT(30)
    <3>3. held' = held /\ held \in Seq(Task) /\ Len(held) = k + 1
      BY <2>a, <2>2, <3>2, RunningIs DEF vars
    <3>4. globalSem' = (k + 1) + Waits' BY <2>a, <2>2, <3>1, <3>2, RunningIs, SMTT(30)
    <3>5. ASSUME NEW r \in Repo PROVE repoSemaphores'[r] = Cardinality(Of(held', r, k + 1))
      <4>1. repoSemaphores[r] = Cardinality(Of(held, r, k)) BY <3>2, RunningIs
      <4>2. Cardinality(Of(held, r, k + 1)) =
              IF held[k + 1].repo = r THEN repoSemaphores[r] + 1 ELSE repoSemaphores[r]
        BY <4>1, CountNext, SMTT(30)
      <4>3. repoSemaphores'[r] =
              IF Hand.repo = r THEN repoSemaphores[r] + 1 ELSE repoSemaphores[r]
        BY <2>2 DEF DTypeOK
      <4> QED BY <3>3, <4>2, <4>3 DEF Hand
    <3> QED BY <3>1, <3>3, <3>4, <3>5, SlotsAfter, SMTT(30)
  <2> QED BY <1>5, <2>1, <2>2 DEF TakeRepoSlot
<1>6. CASE Execute
  <2>1. PICK i \in Running : executeSyncTask(i) BY <1>6 DEF Execute
  <2>2. PICK k \in Nat : k = K BY RunningIs, SMTT(30)
  <2>3. i \in 1 .. k /\ k \in 1 .. Len(held) /\ held \in Seq(Task) /\ i \in DOMAIN held
    <3>1. /\ i \in 1 .. k /\ k \in 0 .. Len(held) /\ Len(held) \in Nat
          /\ held \in Seq(Task) /\ DOMAIN held = 1 .. Len(held)
      BY <2>2, RunningIs
    <3> QED BY <3>1, SMTT(30)
  <2>4. held' = RemoveAt(held, i)
    BY <2>1 DEF executeSyncTask, ClientFinish, ClientRequeue
  <2>5. pc' = pc /\ globalSem' = globalSem - 1
        /\ repoSemaphores' = [repoSemaphores EXCEPT ![held[i].repo] = @ - 1]
    BY <2>1 DEF executeSyncTask, ReleaseSlots
  <2>6. held' \in Seq(Task) /\ Len(held') = Len(held) - 1 BY <2>3, <2>4, RemoveAtFacts
  <2>7. k - 1 \in Nat BY <2>3, SMTT(30)
  <2>8. Len(held') = IF InHand' THEN (k - 1) + 1 ELSE k - 1
    <3>1. InHand' <=> InHand BY <2>5 DEF InHand
    <3> QED BY <2>2, <2>6, <3>1, RunningIs, SMTT(30)
  <2>9. globalSem' = (k - 1) + Waits'
    <3>1. Waits' = Waits /\ Waits \in Nat BY <2>5 DEF Waits
    <3>2. globalSem = k + Waits BY <2>2, RunningIs
    <3> QED BY <2>5, <3>1, <3>2, SMTT(30)
  <2>10. ASSUME NEW r \in Repo PROVE repoSemaphores'[r] = Cardinality(Of(held', r, k - 1))
    <3>1. repoSemaphores[r] = Cardinality(Of(held, r, k)) BY <2>2, RunningIs
    <3>2. Cardinality(Of(held', r, k - 1)) =
            IF held[i].repo = r THEN repoSemaphores[r] - 1 ELSE repoSemaphores[r]
      BY <2>3, <2>4, <3>1, CountRemoved, SMTT(30)
    <3>3. repoSemaphores'[r] =
            IF held[i].repo = r THEN repoSemaphores[r] - 1 ELSE repoSemaphores[r]
      BY <2>5 DEF DTypeOK
    <3> QED BY <3>2, <3>3, SMTT(30)
  <2> QED BY <2>6, <2>7, <2>8, <2>9, <2>10, SlotsAfter
<1>7. CASE Peers \/ Repositories \/ Stop \/ UNCHANGED dvars
  <2>1. UNCHANGED <<held, pc, globalSem, repoSemaphores>>
    BY <1>7 DEF Peers, PushTask, ConnectionChanges, Repositories, AddRepository, Untrack, Stop,
                ClientPush, ClientRemove, dvars, vars, slotVars
  <2> QED BY <2>1, SlotsKept DEF InHand, Waits
<1> QED BY <1>1, <1>2, <1>3, <1>4, <1>5, <1>6, <1>7 DEF DNext, Loop

-----------------------------------------------------------------------------
(* Types.                                                                   *)

LEMMA DTypeStep ==
  ASSUME DTypeOK, SlotsMatch, [DNext]_dvars
  PROVE  DTypeOK'
<1>1. TypeOK' BY QueueStep, TypeStep DEF DTypeOK
<1>2. /\ pc' \in {"top", "pop", "sem", "global", "repo", "exit"}
      /\ workers' \subseteq Repo /\ created' \subseteq Repo
      /\ online' \subseteq Source
      /\ stopping' \in BOOLEAN
  <2> USE DEF DTypeOK, dvars, repoVars
  <2>1. CASE Loop
    BY <2>1 DEF Loop, LoopTop, PopTask, FindSemaphore, TakeGlobalSlot, TakeRepoSlot
  <2>2. CASE Execute BY <2>2 DEF Execute, executeSyncTask
  <2>3. CASE Peers BY <2>3 DEF Peers, PushTask, ConnectionChanges
  <2>4. CASE Repositories BY <2>4 DEF Repositories, AddRepository, Untrack
  <2>5. CASE Stop BY <2>5 DEF Stop
  <2>6. CASE UNCHANGED dvars BY <2>6
  <2> QED BY <2>1, <2>2, <2>3, <2>4, <2>5, <2>6 DEF DNext
<1>3. requested' \subseteq Task
  <2>1. CASE Execute
    <3>1. PICK i \in Running : executeSyncTask(i) BY <2>1 DEF Execute
    <3>2. held[i] \in Task
      <4>1. i \in 1 .. Len(held) /\ held \in Seq(Task) BY RunningIs, SMTT(30)
      <4> QED BY <4>1, SMTT(30)
    <3> QED BY <3>1, <3>2 DEF executeSyncTask, DTypeOK
  <2>2. CASE ~Execute
    <3>1. requested' = requested
      BY <2>2 DEF DNext, Loop, LoopTop, PopTask, FindSemaphore, TakeGlobalSlot, TakeRepoSlot,
           Peers, PushTask, ConnectionChanges, Repositories, AddRepository, Untrack, Stop, dvars
    <3> QED BY <3>1 DEF DTypeOK
  <2> QED BY <2>1, <2>2
<1>4. InHand' => held' # <<>>
  <2>1. CASE InHand /\ held' = held BY <2>1 DEF DTypeOK
  <2>2. CASE PopTask
    <3>1. CASE \E task \in Task : ClientPop(task)
      <4>1. PICK task \in Task : held' = Append(held, task) BY <3>1 DEF ClientPop
      <4>2. held \in Seq(Task) BY DEF DTypeOK, TypeOK
      <4> QED BY <4>1, <4>2, SMTT(30)
    <3>2. CASE pc' = "top" BY <3>2 DEF InHand
    <3> QED BY <2>2, <3>1, <3>2 DEF PopTask
  <2>3. CASE Execute
    <3>1. PICK i \in Running : executeSyncTask(i) BY <2>3 DEF Execute
    <3>2. i \in 1 .. K /\ i \in DOMAIN held /\ held \in Seq(Task) /\ K \in Nat
      <4>1. /\ i \in 1 .. K /\ K \in 0 .. Len(held) /\ Len(held) \in Nat
            /\ held \in Seq(Task) /\ DOMAIN held = 1 .. Len(held)
        BY RunningIs
      <4> QED BY <4>1, SMTT(30)
    <3>3. held' = RemoveAt(held, i) /\ pc' = pc
      BY <3>1 DEF executeSyncTask, ClientFinish, ClientRequeue
    <3>4. Len(held') = Len(held) - 1 BY <3>2, <3>3, RemoveAtFacts
    <3>5. InHand' <=> InHand BY <3>3 DEF InHand
    <3>6. ASSUME InHand PROVE held' # <<>>
      <4>1. Len(held) = K + 1 BY <3>6, RunningIs
      <4>2. Len(held') # 0 BY <3>2, <3>4, <4>1, SMTT(30)
      <4> QED BY <4>2, SMTT(30)
    <3> QED BY <3>5, <3>6
  <2>4. CASE LoopTop BY <2>4 DEF LoopTop, InHand
  <2>5. CASE FindSemaphore BY <2>5 DEF FindSemaphore, DTypeOK, InHand, vars
  <2>6. CASE TakeGlobalSlot BY <2>6 DEF TakeGlobalSlot, DTypeOK, InHand, vars
  <2>7. CASE TakeRepoSlot BY <2>7 DEF TakeRepoSlot, InHand
  <2>8. CASE Peers \/ Repositories \/ Stop \/ UNCHANGED dvars
    <3>1. UNCHANGED <<held, pc>>
      BY <2>8 DEF Peers, PushTask, ConnectionChanges, Repositories, AddRepository, Untrack, Stop,
                  ClientPush, ClientRemove, dvars, vars
    <3> QED BY <3>1 DEF InHand, DTypeOK
  <2> QED BY <2>2, <2>3, <2>4, <2>5, <2>6, <2>7, <2>8 DEF DNext, Loop
<1>5. globalSem' \in 0 .. GlobalSlots
  <2>1. CASE UNCHANGED globalSem BY <2>1 DEF DTypeOK
  <2>2. CASE globalSem < GlobalSlots /\ globalSem' = globalSem + 1
    BY <2>2, DispatcherAssumption, SMTT(30) DEF DTypeOK
  <2>3. CASE globalSem' = globalSem - 1
    <3>1. globalSem # 0
      <4>1. CASE pc = "repo"
        <5>1. K \in Nat /\ globalSem = K + 1 BY <4>1, RunningIs, SMTT(30) DEF Waits
        <5> QED BY <5>1, SMTT(30)
      <4>2. CASE Execute
        <5>1. PICK i \in Running : TRUE BY <4>2 DEF Execute
        <5>2. i \in 1 .. K /\ globalSem = K + Waits /\ K \in Nat /\ Waits \in Nat
          BY RunningIs, SMTT(30) DEF Waits
        <5> QED BY <5>2, SMTT(30)
      <4>3. CASE UNCHANGED globalSem BY <2>3, <4>3, SMTT(30) DEF DTypeOK
      <4>4. CASE globalSem' = globalSem + 1 BY <2>3, <4>4, SMTT(30) DEF DTypeOK
      <4> QED
        BY <4>1, <4>2, <4>3, <4>4
           DEF DNext, Loop, LoopTop, PopTask, FindSemaphore, TakeGlobalSlot, TakeRepoSlot,
               Peers, PushTask, ConnectionChanges, Repositories, AddRepository, Untrack, Stop,
               dvars, slotVars
    <3> QED BY <2>3, <3>1, DispatcherAssumption, SMTT(30) DEF DTypeOK
  <2> QED
    BY <2>1, <2>2, <2>3
       DEF DNext, Loop, LoopTop, PopTask, FindSemaphore, TakeGlobalSlot, TakeRepoSlot,
           Execute, executeSyncTask, ReleaseSlots,
           Peers, PushTask, ConnectionChanges, Repositories, AddRepository, Untrack, Stop,
           dvars, slotVars
<1>6. repoSemaphores' \in [Repo -> 0 .. RepoSlots]
  <2>1. CASE UNCHANGED repoSemaphores BY <2>1 DEF DTypeOK
  <2>2. CASE TakeRepoSlot /\ ~UNCHANGED repoSemaphores
    <3>1. /\ repoSemaphores[Hand.repo] < RepoSlots
          /\ repoSemaphores' = [repoSemaphores EXCEPT ![Hand.repo] = @ + 1]
      BY <2>2 DEF TakeRepoSlot
    <3>2. PICK r : r = Hand.repo OBVIOUS
    <3>3. /\ repoSemaphores[r] < RepoSlots
          /\ repoSemaphores' = [repoSemaphores EXCEPT ![r] = @ + 1]
      BY <3>1, <3>2
    <3>4. CASE r \in Repo BY <3>3, <3>4, DispatcherAssumption, SMTT(30) DEF DTypeOK
    <3>5. CASE r \notin Repo BY <3>3, <3>5 DEF DTypeOK
    <3> QED BY <3>4, <3>5
  <2>3. CASE Execute
    <3>1. PICK i \in Running : executeSyncTask(i) BY <2>3 DEF Execute
    <3>2. PICK r : r = held[i].repo OBVIOUS
    <3>3. repoSemaphores' = [repoSemaphores EXCEPT ![r] = @ - 1]
      BY <3>1, <3>2 DEF executeSyncTask, ReleaseSlots
    <3>4. r \in Repo
      <4>1. i \in 1 .. Len(held) /\ held \in Seq(Task) BY RunningIs, SMTT(30)
      <4>2. held[i] \in Task BY <4>1, SMTT(30)
      <4> QED BY <3>2, <4>2 DEF Task
    <3>5. repoSemaphores[r] # 0
      <4>1. i \in 1 .. K /\ K \in Nat /\ repoSemaphores[r] = Cardinality(Of(held, r, K))
        BY <3>4, RunningIs, SMTT(30)
      <4>2. i \in Of(held, r, K) BY <3>2, <4>1 DEF Of
      <4>3. IsFiniteSet(Of(held, r, K)) BY <4>1, OfFinite
      <4> QED BY <4>1, <4>2, <4>3, FS_EmptySet
    <3> QED BY <3>3, <3>4, <3>5, DispatcherAssumption, SMTT(30) DEF DTypeOK
  <2> QED
    BY <2>1, <2>2, <2>3
       DEF DNext, Loop, LoopTop, PopTask, FindSemaphore, TakeGlobalSlot,
           Peers, PushTask, ConnectionChanges, Repositories, AddRepository, Untrack, Stop,
           dvars, slotVars
<1> QED BY <1>1, <1>2, <1>3, <1>4, <1>5, <1>6 DEF DTypeOK

LEMMA DInitial == DInit => DTypeOK /\ SlotsMatch
<1> SUFFICES ASSUME DInit PROVE DTypeOK /\ SlotsMatch OBVIOUS
<1>1. TypeOK BY SMTT(30) DEF DInit, Init, NewSyncQueue, TypeOK
<1>2. DTypeOK
  <2>1. repoSemaphores \in [Repo -> 0 .. RepoSlots] /\ globalSem \in 0 .. GlobalSlots
    BY DispatcherAssumption, SMTT(30) DEF DInit
  <2>2. ~InHand BY DEF DInit, InHand
  <2>3. stopping \in BOOLEAN BY DEF DInit
  <2> QED BY <1>1, <2>1, <2>2, <2>3 DEF DInit, DTypeOK
<1>3. Running = {} BY SMTT(30) DEF DInit, Init, Running, InHand
<1>4. Cardinality({}) = 0 BY FS_EmptySet
<1>5. \A r : {i \in Running : held[i].repo = r} = {} BY <1>3
<1>6. SlotsMatch BY <1>3, <1>4, <1>5, SMTT(30) DEF DInit, SlotsMatch
<1> QED BY <1>2, <1>6

LEMMA DispatcherInvariant == DSpec => [](DTypeOK /\ SlotsMatch)
<1>1. (DTypeOK /\ SlotsMatch) /\ [DNext]_dvars => (DTypeOK /\ SlotsMatch)'
  BY DTypeStep, SlotsStep
<1> QED BY <1>1, DInitial, PTL DEF DSpec

(* On whatever path a task ends (coordinator.go:730-748), the semaphores count the
   goroutines under way and the slot the loop waits with: none leaks, none is
   given back twice.                                                        *)
THEOREM SlotsNeverLeak == DSpec => []SlotsMatch
BY DispatcherInvariant, PTL

(* The coordinator uses the queue as its clients may: what is proved of the queue
   with arbitrary clients holds of it ...                                   *)
THEOREM DispatcherUsesQueue == DSpec => Spec
<1>1. DInit => Init BY DEF DInit
<1>2. (DTypeOK /\ SlotsMatch) /\ [DNext]_dvars => [Next]_vars BY QueueStep
<1> QED BY <1>1, <1>2, DispatcherInvariant, PTL DEF DSpec, Spec

(* ... such as that the rotation and the map of slices stay in step.          *)
THEOREM DispatcherRotation == DSpec => []RotationConsistent
BY DispatcherUsesQueue, RotationCorrect, PTL

-----------------------------------------------------------------------------
(* No task is dropped.                                                      *)

LEMMA OnlyOneLeaves ==
  ASSUME NEW q \in Seq(Task), NEW i \in DOMAIN q, NEW t \in Range(q) \ Range(RemoveAt(q, i))
  PROVE  t = q[i]
<1>1. PICK j \in DOMAIN q : t = q[j] BY DEF Range
<1>2. /\ RemoveAt(q, i) \in Seq(Task) /\ Len(RemoveAt(q, i)) = Len(q) - 1
      /\ \A m \in 1 .. (Len(q) - 1) : RemoveAt(q, i)[m] = IF m < i THEN q[m] ELSE q[m + 1]
  BY RemoveAtFacts
<1>3. Len(q) \in Nat /\ DOMAIN q = 1 .. Len(q) BY LenProperties
<1>4. DOMAIN RemoveAt(q, i) = 1 .. (Len(q) - 1) BY <1>2, LenProperties
<1>5. \A m \in 1 .. (Len(q) - 1) : t # RemoveAt(q, i)[m] BY <1>4 DEF Range
<1>6. ~(j < i)
  <2>1. j < i => j \in 1 .. (Len(q) - 1) BY <1>3, SMTT(30)
  <2> QED BY <1>1, <1>2, <1>5, <2>1
<1>7. ~(j > i)
  <2>1. j > i => (j - 1 \in 1 .. (Len(q) - 1) /\ ~(j - 1 < i) /\ (j - 1) + 1 = j) BY <1>3, SMTT(30)
  <2> QED BY <1>1, <1>2, <1>5, <2>1
<1> QED BY <1>1, <1>3, <1>6, <1>7, SMTT(30)

LEMMA RequeuedIsThere ==
  ASSUME TypeOK, NEW i \in DOMAIN held, ClientRequeue(i)
  PROVE  held[i] \in Range(queues'[held[i].repo])
<1>1. held[i] \in Task /\ held[i].repo \in Repo
  <2>1. held[i] \in Task BY SMTT(30) DEF TypeOK
  <2> QED BY <2>1 DEF Task
<1>2. queues[held[i].repo] \in Seq(Task) BY <1>1 DEF TypeOK
<1>3. queues'[held[i].repo] = Cons(held[i], queues[held[i].repo])
  BY <1>1 DEF TypeOK, ClientRequeue, Requeue
<1>4. PICK s : s = queues'[held[i].repo] OBVIOUS
<1>5. s \in Seq(Task) /\ Len(s) = Len(queues[held[i].repo]) + 1 /\ s[1] = held[i]
  <2>1. PICK e \in Task : e = held[i] BY <1>1
  <2>2. PICK q \in Seq(Task) : q = queues[held[i].repo] BY <1>2
  <2>3. s = Cons(e, q) BY <1>3, <1>4, <2>1, <2>2
  <2>4. Cons(e, q) \in Seq(Task) /\ Len(Cons(e, q)) = Len(q) + 1 /\ Cons(e, q)[1] = e
    BY ConsFacts
  <2> QED BY <2>1, <2>2, <2>3, <2>4
<1>6. Len(queues[held[i].repo]) \in Nat BY <1>2, SMTT(30)
<1>7. 1 \in DOMAIN s BY <1>5, <1>6, LenProperties, SMTT(30)
<1> QED BY <1>4, <1>5, <1>7 DEF Range

(* "Never drop queue tasks" (audit-report.md:90): a task leaves the coordinator's
   hands when its file has been requested, or for the queue, or at the end
   (FindSemaphore, the two waits for a slot and executeSyncTask).             *)
THEOREM NothingDropped == DSpec => NeverDropped
<1> DEFINE Kept == \A task \in Range(held) \ Range(held') :
                     task \in requested' \/ task \in Range(queues'[task.repo]) \/ stopping
<1>1. (DTypeOK /\ SlotsMatch) /\ [DNext]_dvars => [Kept]_dvars
  <2> SUFFICES ASSUME DTypeOK, DNext, NEW task \in Range(held) \ Range(held')
               PROVE  task \in requested' \/ task \in Range(queues'[task.repo]) \/ stopping
    OBVIOUS
  <2>1. held' # held OBVIOUS
  <2>2. TypeOK /\ held \in Seq(Task) BY DEF DTypeOK, TypeOK
  <2>3. InHand => Len(held) \in DOMAIN held BY SMTT(30) DEF DTypeOK, TypeOK
  <2>4. ASSUME NEW i \in DOMAIN held, ClientRequeue(i) PROVE task \in Range(queues'[task.repo])
    <3>1. held' = RemoveAt(held, i) BY <2>4 DEF ClientRequeue
    <3>2. task = held[i] BY <2>2, <3>1, OnlyOneLeaves
    <3> QED BY <2>2, <2>4, <3>2, RequeuedIsThere
  <2>5. CASE Loop
    <3>1. CASE LoopTop BY <2>1, <3>1 DEF LoopTop, vars
    <3>2. CASE PopTask
      <4>1. PICK x \in Task : held' = Append(held, x) BY <2>1, <3>2 DEF PopTask, vars, ClientPop
      <4>2. \A j \in DOMAIN held : j \in DOMAIN held' /\ held'[j] = held[j] BY <2>2, <4>1, SMTT(30)
      <4> QED BY <4>2 DEF Range
    <3>3. CASE FindSemaphore BY <2>1, <2>3, <2>4, <3>3 DEF FindSemaphore, InHand, vars
    <3>4. CASE TakeGlobalSlot BY <2>1, <3>4 DEF TakeGlobalSlot, vars
    <3>5. CASE TakeRepoSlot BY <2>1, <3>5 DEF TakeRepoSlot, vars
    <3> QED BY <2>5, <3>1, <3>2, <3>3, <3>4, <3>5 DEF Loop
  <2>6. CASE Execute
    <3>1. PICK i \in Running : executeSyncTask(i) BY <2>6 DEF Execute
    <3>2. i \in DOMAIN held
      <4>1. Running \subseteq DOMAIN held BY <2>2, SMTT(30) DEF Running
      <4> QED BY <4>1
    <3>3. CASE ClientRequeue(i) BY <2>4, <3>2, <3>3
    <3>4. CASE ClientFinish(i) /\ requested' = requested \cup {held[i]}
      <4>1. held' = RemoveAt(held, i) BY <3>4 DEF ClientFinish
      <4>2. task = held[i] BY <2>2, <3>2, <4>1, OnlyOneLeaves
      <4> QED BY <3>4, <4>2
    <3> QED BY <3>1, <3>3, <3>4 DEF executeSyncTask
  <2>7. CASE Peers \/ Repositories \/ Stop
    BY <2>1, <2>7 DEF Peers, PushTask, ConnectionChanges, Repositories, AddRepository, Untrack, Stop,
                ClientPush, ClientRemove, vars
  <2> QED BY <2>5, <2>6, <2>7 DEF DNext
<1>2. [][Kept]_dvars => NeverDropped BY DEF NeverDropped
<1> QED BY <1>1, <1>2, DispatcherInvariant, PTL DEF DSpec
=============================================================================
