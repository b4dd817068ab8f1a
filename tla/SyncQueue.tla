------------------------------ MODULE SyncQueue ------------------------------
(***************************************************************************)
(* The download queue of the coordinator (pkg/sync/queue.go): one slice of *)
(* tasks per repository, ordered by file size, and a rotation of the       *)
(* repositories for round-robin scheduling.  Every method of the Go type   *)
(* holds q.mu from its first to its last line, so each is one action.      *)
(*                                                                         *)
(* The clients of the queue are left arbitrary: anyone may push a task,    *)
(* and whoever popped one holds it until it is finished or requeued.  The  *)
(* processor loop of the coordinator is one such client (SyncDispatcher).  *)
(***************************************************************************)
EXTENDS Integers, Sequences, Functions

CONSTANTS
  Repo,       (* repository identifiers                                       *)
  Key,        (* what Push compares: the file path, direction and hash        *)
  SizeOf,     (* the size of the file a key names, by its hash                *)
  Stamp,      (* task timestamps                                              *)
  MaxQueued,  (* bound on the tasks waiting in one repository's slice         *)
  MaxHeld     (* bound on the tasks popped and not yet given back or finished *)

ASSUME QueueAssumption ==
  /\ SizeOf \in [Key -> Nat]
  /\ Stamp \subseteq Nat
  /\ MaxQueued \in Nat
  /\ MaxHeld \in Nat

Task == [repo : Repo, key : Key, stamp : Stamp]

VARIABLES
  queues,    (* the slice of each repository; empty where the map has no key  *)
  keys,      (* the keys of the Go map q.queues                               *)
  repos,     (* q.repos, the rotation                                         *)
  nextRepo,  (* q.nextRepo, an index from 0 as in the code                    *)
  held,      (* tasks popped by a client and not yet requeued or finished     *)
  retried,   (* history: the tasks that were requeued at least once           *)
  bypassed   (* history: bypassed[r] is the set of other repositories served  *)
             (* since r last was served or had nothing to do                  *)

queueVars == <<queues, keys, repos, nextRepo>>
vars == <<queues, keys, repos, nextRepo, held, retried, bypassed>>

NewSyncQueue ==
  /\ queues = [r \in Repo |-> <<>>]
  /\ keys = {}
  /\ repos = <<>>
  /\ nextRepo = 0

(* The slices append([]T{e}, s...) and append(s[:i], s[i+1:]...), and the last
   element of a slice.                                                      *)
Cons(e, s) == <<e>> \o s
RemoveAt(s, i) == SubSeq(s, 1, i - 1) \o SubSeq(s, i + 1, Len(s))
Last(s) == s[Len(s)]

-----------------------------------------------------------------------------
(* The order of sort.Slice: smaller files first, then older tasks.          *)

Before(a, b) ==
  \/ SizeOf[a.key] < SizeOf[b.key]
  \/ SizeOf[a.key] = SizeOf[b.key] /\ a.stamp < b.stamp

InSizeOrder(s) == \A i, j \in DOMAIN s : i < j => ~Before(s[j], s[i])

(* sort.Slice is not stable: tasks that tie may end up in either order.     *)
Sorted(s) ==
  {t \in {[i \in DOMAIN s |-> s[f[i]]] : f \in Injection(DOMAIN s, DOMAIN s)} :
     InSizeOrder(t)}

-----------------------------------------------------------------------------
(* The methods, on the queue's own state.                                   *)

(* Mutant of HasTask: a task that differs in its timestamp is another one.  *)
HasEqualTask(task) == task \in Range(queues[task.repo])

HasTask(task) == \E t \in Range(queues[task.repo]) : t.key = task.key

(* Mutant of Push: the slice appears in the map but not in the rotation.     *)
PushUnscheduled(task) ==
  /\ ~HasTask(task)
  /\ \E s \in Sorted(Append(queues[task.repo], task)) :
       queues' = [queues EXCEPT ![task.repo] = s]
  /\ keys' = keys \cup {task.repo}
  /\ UNCHANGED <<repos, nextRepo>>

Push(task) ==
  LET r == task.repo IN
  /\ UNCHANGED nextRepo
  /\ \/ /\ r \notin keys
        /\ queues' = [queues EXCEPT ![r] = <<task>>]
        /\ keys' = keys \cup {r}
        /\ repos' = Append(repos, r)
     \/ /\ r \in keys
        /\ ~HasTask(task)
        /\ \E s \in Sorted(Append(queues[r], task)) :
             queues' = [queues EXCEPT ![r] = s]
        /\ UNCHANGED <<keys, repos>>
     \/ /\ r \in keys
        /\ HasTask(task)
        /\ UNCHANGED <<queues, keys, repos>>

(* The index of q.repos that the i-th turn of Pop's loop looks at (from 1).  *)
Slot(i) == ((nextRepo + i) % Len(repos)) + 1

(* Mutant of Pop: the rotation does not advance.                             *)
PopStaysPut(task) ==
  \E i \in 0 .. (Len(repos) - 1) :
    LET r == repos[Slot(i)] IN
    /\ \A j \in 0 .. (i - 1) : queues[repos[Slot(j)]] = <<>>
    /\ queues[r] # <<>>
    /\ task = Head(queues[r])
    /\ queues' = [queues EXCEPT ![r] = Tail(@)]
    /\ nextRepo' = Slot(i) - 1
    /\ UNCHANGED <<keys, repos>>

(* Mutant of Pop: the search may start anywhere in the rotation.             *)
PopAnywhere(task) ==
  \E i \in 0 .. (Len(repos) - 1) :
    LET r == repos[Slot(i)] IN
    /\ queues[r] # <<>>
    /\ task = Head(queues[r])
    /\ queues' = [queues EXCEPT ![r] = Tail(@)]
    /\ nextRepo' = Slot(i) % Len(repos)
    /\ UNCHANGED <<keys, repos>>

(* The loop of Pop stops at the first slot, from nextRepo, with a task.      *)
Pop(task) ==
  \E i \in 0 .. (Len(repos) - 1) :
    LET r == repos[Slot(i)] IN
    /\ \A j \in 0 .. (i - 1) : queues[repos[Slot(j)]] = <<>>
    /\ queues[r] # <<>>
    /\ task = Head(queues[r])
    /\ queues' = [queues EXCEPT ![r] = Tail(@)]
    /\ nextRepo' = Slot(i) % Len(repos)
    /\ UNCHANGED <<keys, repos>>

(* Front insertion; the map key appears if it was missing, the rotation is
   not touched.                                                             *)
Requeue(task) ==
  /\ queues' = [queues EXCEPT ![task.repo] = Cons(task, @)]
  /\ keys' = keys \cup {task.repo}
  /\ UNCHANGED <<repos, nextRepo>>

(* Mutant of DropFromRotation: the removed repository stays in the rotation. *)
KeepInRotation(r) == UNCHANGED repos

DropFromRotation(r) ==
  \/ \E i \in DOMAIN repos :
       /\ repos[i] = r
       /\ \A j \in 1 .. (i - 1) : repos[j] # r
       /\ repos' = RemoveAt(repos, i)
  \/ r \notin Range(repos) /\ UNCHANGED repos

RemoveRepository(r) ==
  /\ queues' = [queues EXCEPT ![r] = <<>>]
  /\ keys' = keys \ {r}
  /\ DropFromRotation(r)
  /\ nextRepo' = IF Len(repos') > 0 /\ nextRepo >= Len(repos')
                 THEN 0
                 ELSE nextRepo

-----------------------------------------------------------------------------
(* The clients.                                                             *)

Waiting(r) == queues[r] # <<>>

Served(r) ==
  bypassed' = [s \in Repo |->
                IF s = r \/ ~Waiting(s) THEN {} ELSE bypassed[s] \cup {r}]

Init ==
  /\ NewSyncQueue
  /\ held = <<>>
  /\ retried = {}
  /\ bypassed = [r \in Repo |-> {}]

ClientPush(task) ==
  /\ Len(queues[task.repo]) < MaxQueued
  /\ Push(task)
  /\ UNCHANGED <<held, retried, bypassed>>

ClientPop(task) ==
  /\ Len(held) < MaxHeld
  /\ Pop(task)
  /\ held' = Append(held, task)
  /\ Served(task.repo)
  /\ UNCHANGED retried

ClientRequeue(i) ==
  /\ Len(queues[held[i].repo]) < MaxQueued
  /\ Requeue(held[i])
  /\ held' = RemoveAt(held, i)
  /\ retried' = retried \cup {held[i]}
  /\ UNCHANGED bypassed

ClientFinish(i) ==
  /\ held' = RemoveAt(held, i)
  /\ UNCHANGED <<queues, keys, repos, nextRepo, retried, bypassed>>

ClientRemove(r) ==
  /\ RemoveRepository(r)
  /\ bypassed' = [s \in Repo |-> IF s = r THEN {} ELSE bypassed[s] \ {r}]
  /\ UNCHANGED <<held, retried>>

Next ==
  \/ \E task \in Task : ClientPush(task) \/ ClientPop(task)
  \/ \E i \in DOMAIN held : ClientRequeue(i) \/ ClientFinish(i)
  \/ \E r \in Repo : ClientRemove(r)

(* The same queue when no repository is removed while the program runs.     *)
NextNoRemoval ==
  \/ \E task \in Task : ClientPush(task) \/ ClientPop(task)
  \/ \E i \in DOMAIN held : ClientRequeue(i) \/ ClientFinish(i)

Spec == Init /\ [][Next]_vars
SpecNoRemoval == Init /\ [][NextNoRemoval]_vars

-----------------------------------------------------------------------------
(* Properties.                                                              *)

TypeOK ==
  /\ queues \in [Repo -> Seq(Task)]
  /\ keys \subseteq Repo
  /\ repos \in Seq(Repo)
  /\ nextRepo \in Nat
  /\ held \in Seq(Task)
  /\ retried \subseteq Task
  /\ bypassed \in [Repo -> SUBSET Repo]

(* The rotation names no repository twice (it would get a double share of
   the pops), names only repositories that have a slice, and no slice holds a
   task of another repository: what Push, Pop, Requeue and RemoveRepository
   must keep in step between the map q.queues and the slice q.repos.         *)
RotationConsistent ==
  /\ IsInjective(repos)
  /\ Range(repos) \subseteq keys
  /\ \A r \in Repo : \A t \in Range(queues[r]) : t.repo = r /\ r \in keys

(* Every repository that has a slice is in the rotation, so that Pop can
   reach its tasks ("schedules tasks fairly across multiple repositories",
   queue.go:42).                                                            *)
EveryQueueScheduled == keys = Range(repos)

(* Round robin: while a repository of the rotation has a task waiting, no
   other repository is served twice (queue.go:42-43, the loop of Pop at queue.go:101-114).
   The task a Pop hands out is the one that appears at the end of held.     *)
RoundRobin ==
  [][Len(held') > Len(held) =>
       LET s == Last(held').repo IN
       \A r \in Range(repos) \ {s} : Waiting(r) => s \notin bypassed[r]]_vars

(* How many turns of Pop's loop come before the one that looks at slot a of a
   rotation of n repositories, starting from index m.                       *)
Turns(n, m, a) == IF a > m THEN a - 1 - m ELSE a - 1 - m + n

(* Why round robin holds: nextRepo is an index of the rotation, and a
   repository served while another one waits has its next turn after the
   waiting one's (the assignment to q.nextRepo at queue.go:112).            *)
TurnOrder ==
  /\ nextRepo < Len(repos) \/ (repos = <<>> /\ nextRepo = 0)
  /\ \A r \in Repo : bypassed[r] \subseteq Range(repos)
  /\ \A r \in Repo : ~Waiting(r) => bypassed[r] = {}
  /\ \A i \in DOMAIN held : held[i].repo \in keys
  /\ \A a, b \in DOMAIN repos :
       repos[b] \in bypassed[repos[a]] =>
         Turns(Len(repos), nextRepo, a) < Turns(Len(repos), nextRepo, b)

(* Small files first, and no file twice: of two tasks of one repository the
   smaller one waits in front, and they are of different files, unless Requeue,
   which neither sorts nor compares, put one of the two back (queue.go:42-43
   and 120).                                                                *)
OnlyRetriesOutOfLine ==
  \A r \in Repo : \A i, j \in DOMAIN queues[r] : i < j =>
    /\ Before(queues[r][j], queues[r][i]) => queues[r][i] \in retried
    /\ queues[r][i].key = queues[r][j].key =>
         queues[r][i] \in retried \/ queues[r][j] \in retried
=============================================================================
