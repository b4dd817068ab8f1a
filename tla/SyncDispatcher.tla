---------------------------- MODULE SyncDispatcher ----------------------------
(***************************************************************************)
(* The coordinator as the client of its download queue                     *)
(* (pkg/sync/coordinator.go): announcements push tasks, one loop pops them *)
(* and starts a goroutine for each once it has a slot of the global and of *)
(* the repository's semaphore, repositories come and go, and Stop ends it. *)
(*                                                                         *)
(* The tasks that left the queue are SyncQueue's held; the one in the      *)
(* hands of the loop is the last of them.                                  *)
(***************************************************************************)
EXTENDS SyncQueue, FiniteSets

CONSTANTS
  Source,      (* the peers that files are downloaded from                    *)
  PeerOf,      (* the peer that announced the file of a key                   *)
  GlobalSlots, (* P2P_GLOBAL_CONCURRENCY                                      *)
  RepoSlots,   (* P2P_REPO_CONCURRENCY                                        *)
  MaxRemovals  (* bound on the repositories that are removed                  *)

ASSUME DispatcherAssumption ==
  /\ PeerOf \in [Key -> Source]
  /\ GlobalSlots \in Nat \ {0} /\ RepoSlots \in Nat \ {0}
  /\ MaxRemovals \in Nat
  /\ MaxHeld > GlobalSlots

VARIABLES
  pc,              (* where queueProcessorLoop is                             *)
  globalSem,       (* the slots taken of the global semaphore                 *)
  repoSemaphores,  (* the slots taken of each repository's semaphore ...      *)
  created,         (* ... and the repositories that have one                  *)
  workers,         (* the repositories that have a worker                     *)
  online,          (* the peers that are connected                            *)
  stopping,        (* stopChan is closed                                      *)
  requested,       (* history: the tasks whose file_request was sent          *)
  removals         (* how many repositories have been removed                 *)

slotVars == <<globalSem, repoSemaphores>>
repoVars == <<created, workers, removals>>
dvars == <<vars, pc, slotVars, repoVars, online, stopping, requested>>

-----------------------------------------------------------------------------
InHand == pc \in {"sem", "global", "repo"}
Hand == held[Len(held)]
Running == IF InHand THEN 1 .. (Len(held) - 1) ELSE DOMAIN held

(* An announcement of a file, of a repository known here or not, is accepted.  *)
PushTask(task) ==
  /\ PeerOf[task.key] \in online
  /\ ClientPush(task)
  /\ UNCHANGED <<pc, slotVars, repoVars, online, stopping, requested>>

(* One turn of the loop: it ends, or looks into the queue ...                *)
LoopTop ==
  /\ pc = "top"
  /\ pc' = IF stopping THEN "exit" ELSE "pop"
  /\ UNCHANGED <<vars, slotVars, repoVars, online, stopping, requested>>

PopTask ==
  /\ pc = "pop"
  /\ \/ /\ \E task \in Task : ClientPop(task)
        /\ pc' = "sem"
     \/ /\ \A r \in Range(repos) : ~Waiting(r)
        /\ pc' = "top"
        /\ UNCHANGED vars
  /\ UNCHANGED <<slotVars, repoVars, online, stopping, requested>>

(* Mutant of FindSemaphore: a task without a semaphore is dropped.           *)
FindSemaphoreOrDrop ==
  /\ pc = "sem"
  /\ \/ /\ Hand.repo \in created
        /\ pc' = "global"
        /\ UNCHANGED vars
     \/ /\ Hand.repo \notin created
        /\ ClientFinish(Len(held))
        /\ pc' = "top"
  /\ UNCHANGED <<slotVars, repoVars, online, stopping, requested>>

(* ... looks up the semaphore of the repository, without which the task goes
   back into the queue ...                                                  *)
FindSemaphore ==
  /\ pc = "sem"
  /\ \/ /\ Hand.repo \in created
        /\ pc' = "global"
        /\ UNCHANGED vars
     \/ /\ Hand.repo \notin created
        /\ ClientRequeue(Len(held))
        /\ pc' = "top"
  /\ UNCHANGED <<slotVars, repoVars, online, stopping, requested>>

(* ... and waits for a slot of the global semaphore or the end ...            *)
TakeGlobalSlot ==
  /\ pc = "global"
  /\ \/ /\ stopping
        /\ ClientFinish(Len(held))
        /\ pc' = "exit"
        /\ UNCHANGED globalSem
     \/ /\ globalSem < GlobalSlots
        /\ globalSem' = globalSem + 1
        /\ pc' = "repo"
        /\ UNCHANGED vars
  /\ UNCHANGED <<repoSemaphores, repoVars, online, stopping, requested>>

(* Mutants of TakeRepoSlot: the global slot is kept at the end, or the end is
   not noticed while a slot is awaited.                                     *)
TakeRepoSlotLeaking ==
  /\ pc = "repo"
  /\ \/ /\ stopping
        /\ ClientFinish(Len(held))
        /\ pc' = "exit"
        /\ UNCHANGED slotVars
     \/ /\ repoSemaphores[Hand.repo] < RepoSlots
        /\ repoSemaphores' = [repoSemaphores EXCEPT ![Hand.repo] = @ + 1]
        /\ pc' = "top"
        /\ UNCHANGED <<vars, globalSem>>
  /\ UNCHANGED <<repoVars, online, stopping, requested>>
TakeRepoSlotDeaf ==
  /\ pc = "repo"
  /\ repoSemaphores[Hand.repo] < RepoSlots
  /\ repoSemaphores' = [repoSemaphores EXCEPT ![Hand.repo] = @ + 1]
  /\ pc' = "top"
  /\ UNCHANGED <<vars, globalSem, repoVars, online, stopping, requested>>

(* ... and of the repository's, and leaves the task to a goroutine.           *)
TakeRepoSlot ==
  /\ pc = "repo"
  /\ \/ /\ stopping
        /\ ClientFinish(Len(held))
        /\ globalSem' = globalSem - 1
        /\ pc' = "exit"
        /\ UNCHANGED repoSemaphores
     \/ /\ repoSemaphores[Hand.repo] < RepoSlots
        /\ repoSemaphores' = [repoSemaphores EXCEPT ![Hand.repo] = @ + 1]
        /\ pc' = "top"
        /\ UNCHANGED <<vars, globalSem>>
  /\ UNCHANGED <<repoVars, online, stopping, requested>>

ReleaseSlots(r) ==
  /\ globalSem' = globalSem - 1
  /\ repoSemaphores' = [repoSemaphores EXCEPT ![r] = @ - 1]

(* The goroutine of a task: the file is requested, or the task goes back into
   the queue when the peer is away; then the slots are given back.           *)
executeSyncTask(i) ==
  /\ \/ /\ PeerOf[held[i].key] \in online
        /\ ClientFinish(i)
        /\ requested' = requested \cup {held[i]}
     \/ /\ PeerOf[held[i].key] \notin online
        /\ ClientRequeue(i)
        /\ UNCHANGED requested
  /\ ReleaseSlots(held[i].repo)
  /\ UNCHANGED <<pc, repoVars, online, stopping>>

-----------------------------------------------------------------------------
(* AddRepository starts a worker, which has a semaphore made.                *)
AddRepository(r) ==
  /\ r \notin workers /\ ~stopping
  /\ workers' = workers \cup {r}
  /\ created' = created \cup {r}
  /\ UNCHANGED <<vars, pc, slotVars, removals, online, stopping, requested>>

(* The coordinator's RemoveRepository: the worker ends and the tasks of the
   queue go, the semaphore stays.                                           *)
Untrack(r) ==
  /\ r \in workers /\ ~stopping
  /\ removals < MaxRemovals
  /\ removals' = removals + 1
  /\ workers' = workers \ {r}
  /\ ClientRemove(r)
  /\ UNCHANGED <<pc, slotVars, created, online, stopping, requested>>

Stop ==
  /\ ~stopping
  /\ stopping' = TRUE
  /\ workers' = {}
  /\ UNCHANGED <<vars, pc, slotVars, created, removals, online, requested>>

(* A peer comes or goes.                                                    *)
ConnectionChanges(q) ==
  /\ online' = IF q \in online THEN online \ {q} ELSE online \cup {q}
  /\ UNCHANGED <<vars, pc, slotVars, repoVars, stopping, requested>>

-----------------------------------------------------------------------------
DInit ==
  /\ Init
  /\ pc = "top"
  /\ globalSem = 0 /\ repoSemaphores = [r \in Repo |-> 0]
  /\ created = {} /\ workers = {}
  /\ online = Source
  /\ stopping = FALSE
  /\ requested = {}
  /\ removals = 0

Loop == LoopTop \/ PopTask \/ FindSemaphore \/ TakeGlobalSlot \/ TakeRepoSlot
Execute == \E i \in Running : executeSyncTask(i)
Peers == (\E task \in Task : PushTask(task)) \/ \E q \in Source : ConnectionChanges(q)
Repositories == \E r \in Repo : AddRepository(r) \/ Untrack(r)

DNext == Loop \/ Execute \/ Peers \/ Repositories \/ Stop

(* The loop runs; a send ends at the latest when the heartbeat closes the
   connection it hangs on, so goroutines end too.                           *)
LoopRuns == WF_dvars(Loop)
GoroutinesEnd == \A task \in Task :
  WF_dvars(\E i \in Running : held[i] = task /\ executeSyncTask(i))

DSpec == DInit /\ [][DNext]_dvars /\ LoopRuns

(* Announcements are only accepted for repositories that are tracked.        *)
DNextTracked ==
  \/ Loop \/ Execute \/ Repositories \/ Stop
  \/ \E task \in Task : task.repo \in workers /\ PushTask(task)
  \/ \E q \in Source : ConnectionChanges(q)
DSpecTracked == DInit /\ [][DNextTracked]_dvars

-----------------------------------------------------------------------------
DTypeOK ==
  /\ TypeOK
  /\ pc \in {"top", "pop", "sem", "global", "repo", "exit"}
  /\ globalSem \in 0 .. GlobalSlots
  /\ repoSemaphores \in [Repo -> 0 .. RepoSlots]
  /\ workers \subseteq Repo /\ created \subseteq Repo
  /\ online \subseteq Source
  /\ stopping \in BOOLEAN
  /\ requested \subseteq Task
  /\ InHand => held # <<>>

(* The semaphores count the goroutines under way, and the global slot that the
   loop holds while it waits for one of the repository: nothing else keeps a
   slot, on whatever path a task ended (coordinator.go:730-748).             *)
SlotsMatch ==
  /\ globalSem = Cardinality(Running) + (IF pc = "repo" THEN 1 ELSE 0)
  /\ \A r \in Repo :
       repoSemaphores[r] = Cardinality({i \in Running : held[i].repo = r})

(* "Never drop queue tasks" (audit-report.md:90): a task that leaves the hands
   of the coordinator has been requested or is back in its queue, unless the
   coordinator stops.                                                       *)
NeverDropped ==
  [][\A task \in Range(held) \ Range(held') :
       task \in requested' \/ task \in Range(queues'[task.repo]) \/ stopping]_dvars

(* Every repository gets its turn if goroutines end and none is removed: while it
   has tasks, the loop takes one in the end, whatever peers are away and whatever
   other repositories do, as "schedules tasks fairly across multiple
   repositories" (queue.go:42) says.                                         *)
Taken(r) == \E i \in DOMAIN held : held[i].repo = r
RepoServed ==
  GoroutinesEnd => \A r \in Repo : Waiting(r) ~> (Taken(r) \/ stopping \/ removals > 0)

(* Stop ends the loop even if no goroutine ever gives its slots back.        *)
StopEnds == stopping ~> pc = "exit"

(* "RemoveRepository untracks a repository and cleans up its tasks"
   (coordinator.go:300).                                                    *)
RemovedIsCleanedUp == \A r \in Repo : r \notin workers /\ ~stopping => ~Waiting(r)
=============================================================================
