-------------------------- MODULE EpisodeOwnership --------------------------
(***************************************************************************)
(* The ownership registry as the code runs it (episode-ownership.ts):      *)
(* Conversations in different processes read ownership.json without a      *)
(* lock, decide, and then change it inside withOwnershipLock, a directory  *)
(* that mkdir creates and rmSync removes.  The directory names no holder:  *)
(* a process that dies inside leaves it behind, and one that waits too     *)
(* long gives up.  Inside the lock an operation reads the file, checks,    *)
(* and publishes a new file with one rename.                               *)
(*                                                                         *)
(* A Conversation runs one tool at a time, so a process is a Conversation. *)
(* Any of them may also run the provider migration.                        *)
(***************************************************************************)
EXTENDS OwnershipRecords

CONSTANT Migrators  \* the Conversations that may run the provider migration

ASSUME MigratorsAssumption == Migrators \subseteq Owners

VARIABLES
  registry,  \* the content of ownership.json
  lockDir,   \* ownership.json.lock exists
  pc,        \* where each Conversation's process is
  op,        \* the operation it performs, decided before it waits for the lock
  next,      \* the registry it computed inside the lock
  undo       \* the provider switch it performed and has not settled

vars == <<registry, lockDir, pc, op, next, undo>>

(* migrateTaskProvider refuses every direction but this one. *)
SourceProvider == "beads"
TargetProvider == "backlog"

NoOp == [kind |-> "none"]

Op ==
       [kind : {"none", "retire", "restore"}]
  \cup [kind : {"put"}, record : Record]
  \cup [kind : {"remove"}, expected : Record]
  \cup [kind : {"advance"}, expected : Record, record : Record]
  \cup [kind : {"switch"}, expected : Registry, keys : [Tasks -> Tasks],
        paths : [Tasks -> Paths], content : Contents]

NoSwitch == [phase |-> "none"]

Undo ==
       {NoSwitch}
  \cup [phase : {"switched", "failed"}, before : Registry, after : Registry]

Critical == {"locked", "computed", "published", "destroying"}

Vacant == [c \in Owners |-> NoRecord]

Init ==
  /\ registry = Vacant
  /\ lockDir = FALSE
  /\ pc = [c \in Owners |-> "idle"]
  /\ op = [c \in Owners |-> NoOp]
  /\ next = [c \in Owners |-> Vacant]
  /\ undo = [c \in Owners |-> NoSwitch]

-----------------------------------------------------------------------------
(* What callers decide from the entry they read, outside the lock.          *)

(* A provisioning entry, when the Conversation owns no live Episode. *)
Reservation(current, r) ==
  /\ ~Live(current)
  /\ r.status = "provisioning"
  /\ r.episode = None

(* Allocation, reopening and evidence writes: the same binding with other   *)
(* content, an Episode no other entry names, never back from active.        *)
Progress(c, current, r) ==
  /\ Live(current) /\ Live(r)
  /\ r.version = current.version
  /\ SameBinding(current, r)
  /\ current.status = "active" => r.status = "active"
  /\ current.status = "uncertain" => r.status # "provisioning"
  /\ IF current.episode # None
     THEN r.episode = current.episode
     ELSE \A d \in Owners : registry[d] # NoRecord /\ r.episode # None
                              => registry[d].episode # r.episode

(* closeEpisodeOwnership: final bookkeeping of a folder Episode. *)
Closing(current, r) ==
  /\ current # NoRecord
  /\ current.version = 1 /\ current.status = "active"
  /\ r = [current EXCEPT !.status = "inactive", !.content = r.content]

(* transitionLegacyEpisodeOwnershipToTask: the folder Episode becomes the   *)
(* Episode of a task.                                                       *)
Bridging(current, r) ==
  /\ current # NoRecord
  /\ current.version = 1 /\ current.status = "active"
  /\ r.version = 2 /\ r.status = "active"
  /\ r.episode = current.episode

Start(c, operation) ==
  /\ pc[c] = "idle"
  /\ pc' = [pc EXCEPT ![c] = "waiting"]
  /\ op' = [op EXCEPT ![c] = operation]
  /\ UNCHANGED <<registry, lockDir, next>>

(* writeEpisodeOwnership *)
BeginPut(c) ==
  /\ undo[c] = NoSwitch
  /\ \E r \in Record :
       /\ \/ Reservation(registry[c], r)
          \/ Progress(c, registry[c], r)
          \/ Closing(registry[c], r)
          \/ Bridging(registry[c], r)
       /\ Start(c, [kind |-> "put", record |-> r])
  /\ UNCHANGED undo

(* removeTaskEpisodeOwnership, of the active entry as it was read *)
BeginRemove(c) ==
  /\ undo[c] = NoSwitch
  /\ LiveTask(registry[c])
  /\ registry[c].status = "active"
  /\ Start(c, [kind |-> "remove", expected |-> registry[c]])
  /\ UNCHANGED undo

(* advancePublishedBeadsTaskEpisodeEvidence: new evidence for the entry as  *)
(* it was selected, before the Beads synchronisation.                       *)
BeginAdvance(c) ==
  /\ undo[c] = NoSwitch
  /\ LiveTask(registry[c])
  /\ registry[c].status = "active"
  /\ registry[c].provider = "beads"
  /\ \E content \in Contents :
       Start(c, [kind |-> "advance", expected |-> registry[c],
                 record |-> [registry[c] EXCEPT !.content = content]])
  /\ UNCHANGED undo

(* migrateTaskProvider up to the switch: activeOwnership accepts only       *)
(* active entries of the source provider; the mapping comes from the        *)
(* destination candidate, the new content from the runtime proofs.          *)
BeginSwitch(c) ==
  /\ c \in Migrators
  /\ undo[c] = NoSwitch
  /\ \A d \in Owners :
       LiveTask(registry[d]) => /\ registry[d].status = "active"
                                /\ registry[d].provider = SourceProvider
  /\ \E keys \in [Tasks -> Tasks], paths \in [Tasks -> Paths],
        content \in Contents :
       Start(c, [kind |-> "switch", expected |-> registry,
                 keys |-> keys, paths |-> paths, content |-> content])
  /\ UNCHANGED undo

(* After the switch: the guarded source deletion, or, when a proof or the   *)
(* deletion failed and the source is intact, the rollback.                  *)
BeginRetire(c) ==
  /\ undo[c].phase = "switched"
  /\ Start(c, [kind |-> "retire"])
  /\ UNCHANGED undo

BeginRestore(c) ==
  /\ undo[c].phase \in {"switched", "failed"}
  /\ Start(c, [kind |-> "restore"])
  /\ UNCHANGED undo

(* The source is not intact after a failure: ownership stays switched. *)
AbandonRollback(c) ==
  /\ pc[c] = "idle"
  /\ undo[c].phase = "failed"
  /\ undo' = [undo EXCEPT ![c] = NoSwitch]
  /\ UNCHANGED <<registry, lockDir, pc, op, next>>

-----------------------------------------------------------------------------
(* withDirectoryLock                                                        *)

Acquire(c) ==
  /\ pc[c] = "waiting"
  /\ ~lockDir
  /\ lockDir' = TRUE
  /\ pc' = [pc EXCEPT ![c] = "locked"]
  /\ UNCHANGED <<registry, op, next, undo>>

(* What a failed operation leaves of an unsettled switch: a failed deletion *)
(* is followed by the rollback, a failed rollback by nothing.               *)
UndoAfterFailure(c) ==
  CASE op[c].kind = "retire"  -> [undo[c] EXCEPT !.phase = "failed"]
    [] op[c].kind = "restore" -> NoSwitch
    [] OTHER -> undo[c]

Finish(c) ==
  /\ pc' = [pc EXCEPT ![c] = "idle"]
  /\ op' = [op EXCEPT ![c] = NoOp]
  /\ next' = [next EXCEPT ![c] = Vacant]

(* Mutant: no deadline. *)
PollAgain(c) ==
  /\ pc[c] = "waiting"
  /\ lockDir
  /\ UNCHANGED vars

(* Mutant: the waiter takes the lock for stale and removes it. *)
TimeOutStealing(c) ==
  /\ pc[c] = "waiting"
  /\ lockDir
  /\ lockDir' = FALSE
  /\ Finish(c)
  /\ undo' = [undo EXCEPT ![c] = UndoAfterFailure(c)]
  /\ UNCHANGED registry

(* The deadline passes while another process, or a dead one, has the lock. *)
TimeOut(c) ==
  /\ pc[c] = "waiting"
  /\ lockDir
  /\ Finish(c)
  /\ undo' = [undo EXCEPT ![c] = UndoAfterFailure(c)]
  /\ UNCHANGED <<registry, lockDir>>

-----------------------------------------------------------------------------
(* Inside the lock.                                                         *)

(* activeForeignBeadsEvidenceCollision *)
ForeignCollision(c, r) ==
  \E d \in Owners \ {c} :
    /\ Live(registry[d])
    /\ \/ registry[d].version = 2 /\ registry[d].key = r.key
       \/ r.episode # None /\ registry[d].episode = r.episode

(* Mutant: only the entries the migration read are compared. *)
SwitchIsStale(expected) ==
  \A d \in Owners : LiveTask(expected[d]) => registry[d] = expected[d]

(* The entries the switch proved are the live task entries there are now. *)
SwitchIsCurrent(expected) ==
  \A d \in Owners :
    LiveTask(registry[d]) \/ LiveTask(expected[d])
      => /\ registry[d] = expected[d]
         /\ registry[d].provider = SourceProvider

Accepts(c) ==
  CASE op[c].kind = "put"     -> Replaceable(registry[c], op[c].record)
    [] op[c].kind = "remove"  -> registry[c] = op[c].expected
    [] op[c].kind = "advance" -> /\ registry[c] = op[c].expected
                                 /\ ~ForeignCollision(c, op[c].expected)
    [] op[c].kind = "switch"  -> SwitchIsCurrent(op[c].expected)
    [] OTHER                  -> registry = undo[c].after

(* Mutant: the Backlog path is not set. *)
MovedWithoutPath(r, key, path, content) ==
  [r EXCEPT !.provider = TargetProvider, !.key = key, !.content = content]

(* The entry keeps its Episode and its status under the other provider.     *)
MovedTo(r, key, path, content) ==
  [r EXCEPT !.provider = TargetProvider, !.key = key, !.path = path,
            !.content = content]

Switched(o) ==
  [d \in Owners |->
     IF LiveTask(registry[d])
     THEN MovedTo(registry[d], o.keys[registry[d].key],
                  o.paths[registry[d].key], o.content)
     ELSE registry[d]]

Result(c) ==
  CASE op[c].kind \in {"put", "advance"} ->
         [registry EXCEPT ![c] = op[c].record]
    [] op[c].kind = "remove" -> [registry EXCEPT ![c] = NoRecord]
    [] op[c].kind = "switch" -> Switched(op[c])
    [] OTHER -> undo[c].before

(* Mutant: the file is written without validateActiveBindingUniqueness. *)
ComputeUnvalidated(c) ==
  /\ pc[c] = "locked"
  /\ op[c].kind # "retire"
  /\ Accepts(c)
  /\ next' = [next EXCEPT ![c] = Result(c)]
  /\ pc' = [pc EXCEPT ![c] = "computed"]
  /\ UNCHANGED <<registry, lockDir, op, undo>>

(* The operation reads the file, checks it and computes the next file;      *)
(* persistOwnershipRegistry validates that before it writes anything.       *)
Compute(c) ==
  /\ pc[c] = "locked"
  /\ op[c].kind # "retire"
  /\ Accepts(c)
  /\ Unique(Result(c))
  /\ next' = [next EXCEPT ![c] = Result(c)]
  /\ pc' = [pc EXCEPT ![c] = "computed"]
  /\ UNCHANGED <<registry, lockDir, op, undo>>

(* It throws, and the finally clause removes the lock. *)
Refuse(c) ==
  /\ pc[c] = "locked"
  /\ ~Accepts(c) \/ (op[c].kind # "retire" /\ ~Unique(Result(c)))
  /\ lockDir' = FALSE
  /\ Finish(c)
  /\ undo' = [undo EXCEPT ![c] = UndoAfterFailure(c)]
  /\ UNCHANGED registry

(* renameSync of the temporary file *)
Publish(c) ==
  /\ pc[c] = "computed"
  /\ registry' = next[c]
  /\ pc' = [pc EXCEPT ![c] = "published"]
  /\ undo' = [undo EXCEPT ![c] =
                CASE op[c].kind = "switch"  -> [phase  |-> "switched",
                                                before |-> registry,
                                                after  |-> next[c]]
                  [] op[c].kind = "restore" -> NoSwitch
                  [] OTHER -> undo[c]]
  /\ UNCHANGED <<lockDir, op, next>>

Release(c) ==
  /\ pc[c] = "published"
  /\ lockDir' = FALSE
  /\ Finish(c)
  /\ UNCHANGED <<registry, undo>>

(* Mutant: the source is deleted under the lock, the registry not compared. *)
RetireUnchecked(c) ==
  /\ pc[c] = "locked"
  /\ op[c].kind = "retire"
  /\ pc' = [pc EXCEPT ![c] = "destroying"]
  /\ UNCHANGED <<registry, lockDir, op, next, undo>>

(* withCurrentTaskProviderOwnershipSwitch runs the destructive operation in *)
(* the lock, on the registry the switch produced.                           *)
Retire(c) ==
  /\ pc[c] = "locked"
  /\ op[c].kind = "retire"
  /\ Accepts(c)
  /\ pc' = [pc EXCEPT ![c] = "destroying"]
  /\ UNCHANGED <<registry, lockDir, op, next, undo>>

RetireEnds(c) ==
  /\ pc[c] = "destroying"
  /\ lockDir' = FALSE
  /\ Finish(c)
  /\ undo' \in {[undo EXCEPT ![c] = NoSwitch],
                [undo EXCEPT ![c] = UndoAfterFailure(c)]}
  /\ UNCHANGED registry

(* The process dies: its locals are gone, a lock it held stays. *)
Crash(c) ==
  /\ pc[c] # "idle" \/ undo[c] # NoSwitch
  /\ Finish(c)
  /\ undo' = [undo EXCEPT ![c] = NoSwitch]
  /\ UNCHANGED <<registry, lockDir>>

-----------------------------------------------------------------------------
InsideLock(c) ==
  Compute(c) \/ Refuse(c) \/ Publish(c) \/ Release(c) \/ Retire(c) \/ RetireEnds(c)

Next ==
  \E c \in Owners :
    \/ BeginPut(c) \/ BeginRemove(c) \/ BeginAdvance(c) \/ BeginSwitch(c)
    \/ BeginRetire(c) \/ BeginRestore(c) \/ AbandonRollback(c)
    \/ Acquire(c) \/ TimeOut(c)
    \/ Compute(c) \/ Refuse(c) \/ Publish(c) \/ Release(c)
    \/ Retire(c) \/ RetireEnds(c)
    \/ Crash(c)

Spec == Init /\ [][Next]_vars

(* Code inside the lock is synchronous: a live process runs it to its end.  *)
(* A live waiter polls until its deadline.                                  *)
FairSpec ==
  /\ Spec
  /\ \A c \in Owners : WF_vars(InsideLock(c)) /\ WF_vars(Acquire(c) \/ TimeOut(c))

-----------------------------------------------------------------------------
(* Every variable has its type. *)
TypeOK ==
  /\ registry \in Registry
  /\ lockDir \in BOOLEAN
  /\ pc \in [Owners -> {"idle", "waiting"} \cup Critical]
  /\ op \in [Owners -> Op]
  /\ next \in [Owners -> Registry]
  /\ undo \in [Owners -> Undo]

(* At most one process is between mkdir and rmSync of the lock directory,   *)
(* which names no holder, and it is there: withDirectoryLock.               *)
LockExclusion ==
  /\ \A c \in Owners : pc[c] \in Critical => lockDir
  /\ \A c, d \in Owners : pc[c] \in Critical /\ pc[d] \in Critical => c = d

(* No two Conversations own live Episodes of the same task, Backlog path or *)
(* retained folder in the published file, whatever they decided from the    *)
(* files they read before they had the lock: persistOwnershipRegistry.      *)
ActiveBindingsUnique == Unique(registry)

(* While the source store is being destroyed no live entry still names it,  *)
(* and the registry is the one the switch produced: no reservation or       *)
(* handoff slipped in (withCurrentTaskProviderOwnershipSwitch).             *)
RetiredProviderUnowned ==
  \A c \in Owners :
    pc[c] = "destroying" =>
      /\ registry = undo[c].after
      /\ \A d \in Owners :
           LiveTask(registry[d]) => registry[d].provider = TargetProvider

(* The whole protocol is the atomic registry: a stale read outside the lock *)
(* or a crash inside it never loses another Conversation's entry, replaces  *)
(* a live Episode, or splits a provider switch.                             *)
Atomic == INSTANCE OwnershipRegistry WITH owners <- registry
ImplementsRegistry == Atomic!Spec

(* No operation hangs, not even when the lock is never removed again: every *)
(* waiter gets in or gives up at the deadline of withDirectoryLock.         *)
OperationsEnd == \A c \in Owners : pc[c] = "waiting" ~> pc[c] = "idle"
=============================================================================
