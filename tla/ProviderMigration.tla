--------------------------- MODULE ProviderMigration ---------------------------
(***************************************************************************)
(* migrateTaskProvider (task-provider-migration.ts): the one-way move of a *)
(* project's tasks from a Beads store to a published Backlog destination,  *)
(* with the switch of the ownership registry (episode-ownership.ts) and    *)
(* the removal of the source.                                              *)
(*                                                                         *)
(* Migrations run in several processes, one native command at a time; any  *)
(* command fails, any process dies, and the operator confirms again.       *)
(* Meanwhile agents edit source tasks, Conversations create and close      *)
(* Episodes, and the operator discards or publishes what an interrupted    *)
(* migration has left in the destination clone.                            *)
(*                                                                         *)
(* A source revision is the version of every task.  A destination is a set *)
(* of native records; its clone has a working tree and a HEAD, and the     *)
(* remote has the published task history.                                  *)
(***************************************************************************)
EXTENDS Integers, FiniteSets

CONSTANTS
  Procs,      \* processes that run a migration
  Tasks,      \* tasks of the source
  Owners,     \* Conversations
  Original,   \* marks a record that was in the destination before
  Receipt,    \* marks the migration receipt
  NoOwner,    \* the Conversation has no ownership entry
  MaxEdits,   \* bound: edits of source tasks
  MaxCalls,   \* bound: invocations
  MaxTrouble  \* bound: failures, crashes and steps of the operator

ASSUME MigrationAssumption ==
  /\ Original \notin Tasks /\ Receipt \notin Tasks /\ Original # Receipt
  /\ IsFiniteSet(Tasks) /\ Owners # {}
  /\ MaxEdits \in Nat /\ MaxCalls \in Nat /\ MaxTrouble \in Nat

VARIABLES
  store,      \* the Beads store: "whole", "part" of it is left, or "gone"
  task,       \* the version of each of its tasks
  unseen,     \* the tasks edited after the last look of a migration at the
              \*   source it removes
  layout,     \* the Backlog configuration of the code checkout: "none",
              \*   "pending" in the working tree, or "committed"
  work, head, remote,   \* the destination: working tree, HEAD, published
  owner,      \* the ownership entry of each Conversation
  lock,       \* the ownership lock directory exists
  creating,   \* the Episode creation each Conversation is in, before it has
              \*   reserved: "no", "edit", or "reserve"
  confirmed,  \* the source revision the operator confirmed last
  pc,         \* the next step of each process
  call,       \* what its invocation knows, and how it ended
  edits, calls, trouble   \* how often the bounded events have happened

source == <<store, task, unseen>>
target == <<layout, work, head, remote>>
people == <<owner, lock, creating>>
counts == <<edits, calls, trouble>>
vars   == <<source, target, people, confirmed, pc, call, counts>>

Nobody == [c \in Owners |-> NoOwner]
Never  == [t \in Tasks |-> 0]

Binding(t) == [task |-> t, provider |-> "beads", status |-> "active", copy |-> 0, by |-> 0]

(* No registry is remembered: this invocation has not switched it.          *)
NoSwitch == <<>>

NoCall ==
  [n |-> 0, saw |-> Never, rows |-> Nobody, base |-> {}, map |-> Never, made |-> {},
   receipt |-> 0, head |-> {}, before |-> NoSwitch, after |-> NoSwitch, result |-> "none"]

Init ==
  /\ store = "whole" /\ task = [t \in Tasks |-> 1] /\ unseen = {}
  /\ layout \in {"none", "committed"}
  /\ remote = IF layout = "none" THEN {}
              ELSE {[id |-> 1, of |-> Original, rev |-> Never, stage |-> "placed"]}
  /\ head = remote /\ work = remote
  /\ owner \in [Owners -> {NoOwner} \cup {Binding(t) : t \in Tasks}]
  /\ lock = FALSE
  /\ creating = [c \in Owners |-> "no"]
  /\ confirmed = Never
  /\ pc = [p \in Procs |-> "idle"]
  /\ call = [p \in Procs |-> NoCall]
  /\ edits = 0 /\ calls = 0 /\ trouble = 0

-----------------------------------------------------------------------------
(* Records of the destination.  A created record is "bare" until its        *)
(* mapping comment, or the receipt marker, is appended; it is "marked", or  *)
(* a "pending" receipt, until all that belongs to it is in place.  One that *)
(* has got the comments of two migrations is "mixed", and never complete.   *)

Unmarked(r)   == r.stage = "bare" \/ r.of = Original
Marked(S, x)  == {r \in S : r.of = x /\ ~Unmarked(r)}
Placed(S, t, rev) == {r \in Marked(S, t) : r.stage = "placed" /\ r.rev = rev}
IdIn(S)       == (CHOOSE r \in S : TRUE).id
NextId        == Cardinality(work) + 1
Changed(i, F(_)) == {IF r.id = i THEN F(r) ELSE r : r \in work}

(* existingBacklogMigrationMappings and backlogReceiptId: no record of      *)
(* another revision, no second copy of a task and no second receipt.        *)
Reusable(S, rev) ==
  /\ \A r \in S : ~Unmarked(r) => r.rev = rev
  /\ \A x \in Tasks \cup {Receipt} : Cardinality(Marked(S, x)) <= 1

(* Every task has its complete copy, and besides the records in base there  *)
(* is one receipt.                                                          *)
CopyOf(S, t, i, rev) == \E r \in Placed(S, t, rev) : r.id = i

Counted(S, base) == Cardinality(S) = Cardinality(base) + Cardinality(Tasks) + 1

(* freshBacklogMigrationReplay: the layout of an earlier attempt is still   *)
(* pending in the code, so its destination has to be complete.              *)
Replayed(rev) ==
  /\ work = head /\ head = remote
  /\ Counted(work, {})
  /\ \A t \in Tasks : Placed(work, t, rev) # {}
  /\ \E r \in Marked(work, Receipt) : r.stage = "done"

-----------------------------------------------------------------------------
Live(c) == owner[c] # NoOwner

(* activeOwnership: live entries are active, and of the source provider.    *)
AllOnSource ==
  \A c \in Owners : Live(c) => owner[c].status = "active" /\ owner[c].provider = "beads"

(* inspectTaskProviderMigration, and the operator's confirmation of the     *)
(* revision it reports.                                                     *)
Inspect ==
  /\ store = "whole" /\ layout # "pending" /\ AllOnSource
  /\ confirmed # task /\ confirmed' = task
  /\ UNCHANGED <<source, target, people, pc, call, counts>>

Begin(p) ==
  /\ pc[p] = "idle" /\ confirmed # Never
  /\ calls < MaxCalls /\ calls' = calls + 1
  /\ pc' = [pc EXCEPT ![p] = "capture"]
  /\ call' = [call EXCEPT ![p] = [NoCall EXCEPT !.n = calls + 1, !.saw = confirmed]]
  /\ UNCHANGED <<source, target, people, confirmed, edits, trouble>>

-----------------------------------------------------------------------------
(* How an invocation goes on and how it ends.                               *)
Goto(p, l) == pc' = [pc EXCEPT ![p] = l]
Know(p, c) == call' = [call EXCEPT ![p] = c]

End(p, r) ==
  /\ Goto(p, "idle")
  /\ Know(p, [NoCall EXCEPT !.result = r])

(* Mutant: a switch whose restoration fails is reported as not made.        *)
SwitchedForgotten(p) == call[p].after # NoSwitch /\ pc[p] # "restore"

Switched(p) == call[p].after # NoSwitch

(* The catch clauses: an exception around the guarded deletion has the      *)
(* source looked at again; any other one ends the invocation, with a report *)
(* that depends on the switch only.                                         *)
Throw(p) ==
  IF pc[p] \in {"guard", "delete"}
  THEN Goto(p, "recover") /\ UNCHANGED call
  ELSE End(p, IF Switched(p) THEN "cutover-incomplete" ELSE "pre-cutover-failed")

SourceSame(p) == store = "whole" /\ task = call[p].saw
TargetSame(p) == work = head /\ head = remote /\ head = call[p].head
BaseKept(p)   == call[p].base \subseteq work

(* captureConfirmedSource and the checks after it.  With a part of the      *)
(* store left, the provider is found to be malformed, or to be Backlog.     *)
Capture(p) ==
  /\ pc[p] = "capture"
  /\ \/ /\ SourceSame(p)
        /\ layout # "none" => Reusable(work, call[p].saw)
        /\ layout = "pending" => Replayed(call[p].saw)
        /\ Goto(p, "rows") /\ UNCHANGED call
     \/ /\ store # "whole" /\ End(p, "same-provider")
     \/ /\ store = "whole" /\ layout = "none" /\ ~SourceSame(p)
        /\ End(p, "source-revision-changed")
     \/ /\ \/ store = "part"
           \/ /\ store = "whole" /\ layout # "none"
              /\ ~ (/\ SourceSame(p) /\ Reusable(work, call[p].saw)
                    /\ layout = "pending" => Replayed(call[p].saw))
        /\ Throw(p)
  /\ UNCHANGED <<source, target, people, confirmed, counts>>

(* activeOwnership *)
ReadRows(p) ==
  /\ pc[p] = "rows"
  /\ \/ /\ AllOnSource
        /\ Goto(p, "prepare") /\ Know(p, [call[p] EXCEPT !.rows = owner])
     \/ ~AllOnSource /\ Throw(p)
  /\ UNCHANGED <<source, target, people, confirmed, counts>>

(* prepareExplicitBacklogMigrationWorkspace: a fresh clone with a pending   *)
(* layout, or the clean published clone there is.                           *)
Prepare(p) ==
  /\ pc[p] = "prepare"
  /\ \/ /\ layout = "none"
        /\ layout' = "pending" /\ work' = remote /\ head' = remote
        /\ Goto(p, "baseline") /\ UNCHANGED call
     \/ /\ layout # "none" /\ work = head /\ head = remote
        /\ Goto(p, "baseline") /\ UNCHANGED <<layout, work, head, call>>
     \/ /\ layout # "none" /\ ~(work = head /\ head = remote)
        /\ Throw(p) /\ UNCHANGED <<layout, work, head>>
  /\ UNCHANGED <<source, remote, people, confirmed, counts>>

(* The mapping of an earlier attempt is reused, and every other record is   *)
(* to be preserved: it has to be in the published history.                  *)
Baseline(p) ==
  /\ pc[p] = "baseline"
  /\ LET base == {r \in work : Unmarked(r)}
         ok   == Reusable(work, call[p].saw) /\ base \subseteq head
     IN \/ /\ ok
           /\ Goto(p, "import")
           /\ Know(p, [call[p] EXCEPT
                !.base = base,
                !.map = [t \in Tasks |-> IF Marked(work, t) = {} THEN 0 ELSE IdIn(Marked(work, t))],
                !.receipt = IF Marked(work, Receipt) = {} THEN 0 ELSE IdIn(Marked(work, Receipt))])
        \/ ~ok /\ Throw(p)
  /\ UNCHANGED <<source, target, people, confirmed, counts>>

-----------------------------------------------------------------------------
(* migrateBeadsToBacklog *)

Described(rev, r, s) ==
  IF r.stage = "bare" THEN [r EXCEPT !.stage = s, !.rev = rev] ELSE [r EXCEPT !.stage = "mixed"]
InPlace(r) == IF r.stage = "marked" THEN [r EXCEPT !.stage = "placed"] ELSE r

NewRecord(x) == work' = work \cup {[id |-> NextId, of |-> x, rev |-> Never, stage |-> "bare"]}

Missing(p) == {t \in Tasks : call[p].map[t] = 0}

(* createBacklogTaskFromBeads: first the record, then its mapping comment.  *)
Create(p) ==
  /\ pc[p] = "import"
  /\ \E t \in Missing(p) :
       /\ NewRecord(t)
       /\ Know(p, [call[p] EXCEPT !.map[t] = NextId, !.made = @ \cup {t}])
  /\ Goto(p, "mark")
  /\ UNCHANGED <<source, layout, head, remote, people, confirmed, counts>>

NewId(p) == CHOOSE i \in {call[p].map[t] : t \in call[p].made} :
              \A t \in call[p].made : call[p].map[t] <= i

Mark(p) ==
  /\ pc[p] = "mark"
  /\ IF \E r \in work : r.id = NewId(p)
     THEN /\ work' = Changed(NewId(p), LAMBDA r : Described(call[p].saw, r, "marked"))
          /\ Goto(p, "import") /\ UNCHANGED call
     ELSE Throw(p) /\ UNCHANGED work
  /\ UNCHANGED <<source, layout, head, remote, people, confirmed, counts>>

(* ensureBacklogReceiptPlaceholder *)
ReserveReceipt(p) ==
  /\ pc[p] = "import" /\ Missing(p) = {}
  /\ IF call[p].receipt # 0
     THEN Goto(p, "place") /\ UNCHANGED <<work, call>>
     ELSE /\ NewRecord(Receipt)
          /\ Goto(p, "pending") /\ Know(p, [call[p] EXCEPT !.receipt = NextId])
  /\ UNCHANGED <<source, layout, head, remote, people, confirmed, counts>>

MarkReceipt(p) ==
  /\ pc[p] = "pending"
  /\ IF \E r \in work : r.id = call[p].receipt
     THEN /\ work' = Changed(call[p].receipt, LAMBDA r : Described(call[p].saw, r, "pending"))
          /\ Goto(p, "place") /\ UNCHANGED call
     ELSE Throw(p) /\ UNCHANGED work
  /\ UNCHANGED <<source, layout, head, remote, people, confirmed, counts>>

(* Dependencies, status and folder of the records this invocation created;  *)
(* a reused record is left as it is.                                        *)
Place(p) ==
  /\ pc[p] = "place"
  /\ \E t \in call[p].made :
       IF \E r \in work : r.id = call[p].map[t]
       THEN /\ work' = Changed(call[p].map[t], InPlace)
            /\ Know(p, [call[p] EXCEPT !.made = @ \ {t}]) /\ UNCHANGED pc
       ELSE Throw(p) /\ UNCHANGED work
  /\ UNCHANGED <<source, layout, head, remote, people, confirmed, counts>>

(* commitBacklogDestination: all that is in the working tree, then a push.  *)
Commit(p) ==
  /\ \/ pc[p] = "place" /\ call[p].made = {}
     \/ pc[p] = "recommit"
  /\ IF BaseKept(p)
     THEN /\ head' = work /\ Know(p, [call[p] EXCEPT !.head = work])
          /\ Goto(p, IF pc[p] = "place" THEN "push" ELSE "repush")
     ELSE Throw(p) /\ UNCHANGED head
  /\ UNCHANGED <<source, layout, work, remote, people, confirmed, counts>>

Push(p) ==
  /\ pc[p] \in {"push", "repush"}
  /\ remote' = head
  /\ IF head = call[p].head
     THEN Goto(p, IF pc[p] = "push" THEN "verify" ELSE "target") /\ UNCHANGED call
     ELSE Throw(p)
  /\ UNCHANGED <<source, layout, work, head, people, confirmed, counts>>

(* Mutant: only the number of the records is verified.                      *)
ImportedByCount(p) == Counted(work, call[p].base) /\ BaseKept(p)

(* The count of the records, and the complete copy of each task.            *)
Imported(p) ==
  /\ Counted(work, call[p].base) /\ BaseKept(p)
  /\ \A t \in Tasks : CopyOf(work, t, call[p].map[t], call[p].saw)

Verify(p) ==
  /\ pc[p] = "verify"
  /\ IF Imported(p) THEN Goto(p, "receipt") /\ UNCHANGED call ELSE Throw(p)
  /\ UNCHANGED <<source, target, people, confirmed, counts>>

(* createOrUpdateBacklogReceipt *)
WriteReceipt(p) ==
  /\ pc[p] = "receipt"
  /\ IF \E r \in Marked(work, Receipt) : r.id = call[p].receipt
     THEN /\ work' = Changed(call[p].receipt, LAMBDA r : [r EXCEPT !.stage = "done", !.rev = call[p].saw])
          /\ Goto(p, "recommit") /\ UNCHANGED call
     ELSE Throw(p) /\ UNCHANGED work
  /\ UNCHANGED <<source, layout, head, remote, people, confirmed, counts>>

(* The refresh: the revision of the receipt is still checked out and        *)
(* published, with the expected records in it.                              *)
Refreshed(p) == TargetSame(p) /\ Imported(p)

-----------------------------------------------------------------------------
(* The cutover.                                                             *)
CheckTarget(p) ==
  /\ pc[p] = "target"
  /\ IF Refreshed(p) THEN Goto(p, "source") /\ UNCHANGED call ELSE Throw(p)
  /\ UNCHANGED <<source, target, people, confirmed, counts>>

CheckSource(p) ==
  /\ pc[p] = "source"
  /\ IF SourceSame(p) THEN Goto(p, "switch") /\ UNCHANGED call ELSE Throw(p)
  /\ UNCHANGED <<source, target, people, confirmed, counts>>

Rebound(p) ==
  [c \in Owners |->
    IF Live(c)
    THEN [owner[c] EXCEPT !.provider = "backlog", !.by = call[p].n,
                          !.copy = call[p].map[owner[c].task]]
    ELSE NoOwner]

(* switchActiveTaskProviderOwnership: every live entry is of the source     *)
(* and as it was read, and none that was read is missing.                   *)
Expected(p) == \A c \in Owners : Live(c) => owner[c].provider = "beads"

Switchable(p) == Expected(p) /\ owner = call[p].rows

Switch(p) ==
  /\ pc[p] = "switch"
  /\ \/ /\ ~lock /\ Switchable(p)
        /\ owner' = Rebound(p)
        /\ Know(p, [call[p] EXCEPT !.before = owner, !.after = Rebound(p)])
        /\ Goto(p, "guard")
     \/ (lock \/ ~Switchable(p)) /\ Throw(p) /\ UNCHANGED owner
  /\ UNCHANGED <<source, target, lock, creating, confirmed, counts>>

(* Mutants: the last look leaves out the source, or the registry.           *)
GuardedUnread(p) == owner = call[p].after /\ Refreshed(p)
GuardedBlind(p)  == Refreshed(p) /\ SourceSame(p)

(* withCurrentTaskProviderOwnershipSwitch: the last look at the registry,   *)
(* the destination and the source, under the ownership lock.                *)
Guarded(p) == owner = call[p].after /\ Refreshed(p) /\ SourceSame(p)

Guard(p) ==
  /\ pc[p] = "guard"
  /\ \/ /\ ~lock /\ Guarded(p)
        /\ lock' = TRUE /\ unseen' = {}
        /\ Goto(p, "delete") /\ UNCHANGED call
     \/ (lock \/ ~Guarded(p)) /\ Throw(p) /\ UNCHANGED <<lock, unseen>>
  /\ UNCHANGED <<store, task, target, owner, creating, confirmed, counts>>

(* deleteBeadsSource: the files of the store, one after the other.          *)
Delete(p) ==
  /\ pc[p] = "delete"
  /\ \/ store = "whole" /\ store' = "part" /\ UNCHANGED <<lock, pc>>
     \/ store = "part" /\ store' = "gone" /\ lock' = FALSE /\ Goto(p, "selected")
     \/ store = "gone" /\ lock' = FALSE /\ Throw(p) /\ UNCHANGED store
  /\ UNCHANGED <<task, unseen, target, owner, creating, confirmed, call, counts>>

(* After a failure around the deletion: the ownership goes back only when   *)
(* the source is intact.                                                    *)
Recover(p) ==
  /\ pc[p] = "recover"
  /\ IF SourceSame(p) THEN Goto(p, "restore") /\ UNCHANGED call ELSE Throw(p)
  /\ UNCHANGED <<source, target, people, confirmed, counts>>

(* restoreTaskProviderOwnershipSwitch *)
Restore(p) ==
  /\ pc[p] = "restore"
  /\ \/ /\ ~lock /\ owner = call[p].after
        /\ owner' = call[p].before /\ End(p, "pre-cutover-failed")
     \/ (lock \/ owner # call[p].after) /\ Throw(p) /\ UNCHANGED owner
  /\ UNCHANGED <<source, target, lock, creating, confirmed, counts>>

(* exactSelectedTarget and the last refresh *)
Select(p) ==
  /\ pc[p] = "selected"
  /\ IF store = "gone" /\ Refreshed(p) THEN Goto(p, "publish") /\ UNCHANGED call ELSE Throw(p)
  /\ UNCHANGED <<source, target, people, confirmed, counts>>

(* publishProviderCutoverCodeState *)
PublishLayout(p) ==
  /\ pc[p] = "publish"
  /\ layout' = "committed" /\ Goto(p, "final")
  /\ UNCHANGED <<source, work, head, remote, people, confirmed, call, counts>>

(* The registry still has the entries that were switched.                   *)
Retained(p) ==
  \A c \in Owners : call[p].rows[c] # NoOwner =>
    Live(c) /\ owner[c].provider = "backlog" /\ owner[c].copy = call[p].after[c].copy

Finish(p) ==
  /\ pc[p] = "final"
  /\ IF Retained(p) THEN End(p, "completed") ELSE Throw(p)
  /\ UNCHANGED <<source, target, people, confirmed, counts>>

-----------------------------------------------------------------------------
(* Failures and everybody else.                                             *)
Trouble == trouble < MaxTrouble /\ trouble' = trouble + 1

(* A command of the invocation fails, or a proof that is left out here      *)
(* (code identity, published code head, running sessions).                  *)
Fail(p) ==
  /\ pc[p] # "idle" /\ Trouble
  /\ Throw(p)
  /\ lock' = IF pc[p] = "delete" THEN FALSE ELSE lock
  /\ UNCHANGED <<source, target, owner, creating, confirmed, edits, calls>>

(* The process dies; an ownership lock it holds stays.                      *)
Crash(p) ==
  /\ pc[p] # "idle" /\ Trouble
  /\ End(p, "none")
  /\ UNCHANGED <<source, target, people, confirmed, edits, calls>>

(* The operator acts on a report, when no invocation runs: what is not      *)
(* published in the destination is discarded, or published.                 *)
Quiet == \A p \in Procs : pc[p] = "idle"

Discard ==
  /\ Quiet /\ remote # work /\ Trouble
  /\ work' = remote /\ head' = remote
  /\ UNCHANGED <<source, layout, remote, people, confirmed, pc, call, edits, calls>>

PublishWork ==
  /\ Quiet /\ remote # work /\ Trouble
  /\ head' = work /\ remote' = work
  /\ UNCHANGED <<source, layout, work, people, confirmed, pc, call, edits, calls>>

(* A task of the source changes, as long as there is a store.               *)
EditTask(t) ==
  /\ store = "whole"
  /\ edits < MaxEdits /\ edits' = edits + 1
  /\ task' = [task EXCEPT ![t] = @ + 1] /\ unseen' = unseen \cup {t}

(* An agent edits a task with native commands.                              *)
Edit(t) ==
  /\ EditTask(t)
  /\ UNCHANGED <<store, target, people, confirmed, pc, call, calls, trouble>>

(* createBeadsTaskEpisode: the provider is detected, the status edited, the *)
(* Episode reserved and, some time later, active.                           *)
Detect(c) ==
  /\ owner[c] = NoOwner /\ creating[c] = "no"
  /\ store = "whole" /\ layout = "none"
  /\ creating' = [creating EXCEPT ![c] = "edit"]
  /\ UNCHANGED <<source, target, owner, lock, confirmed, pc, call, counts>>

Admit(c) ==
  /\ creating[c] = "edit"
  /\ \/ /\ \E t \in Tasks : EditTask(t)
        /\ creating' = [creating EXCEPT ![c] = "reserve"]
     \/ /\ store # "whole"
        /\ creating' = [creating EXCEPT ![c] = "no"] /\ UNCHANGED <<task, unseen, edits>>
  /\ UNCHANGED <<store, target, owner, lock, confirmed, pc, call, calls, trouble>>

Reserve(c) ==
  /\ creating[c] = "reserve" /\ ~lock
  /\ \E t \in Tasks :
       owner' = [owner EXCEPT ![c] = [Binding(t) EXCEPT !.status = "provisioning"]]
  /\ creating' = [creating EXCEPT ![c] = "no"]
  /\ UNCHANGED <<source, target, lock, confirmed, pc, call, counts>>

Activate(c) ==
  /\ Live(c) /\ owner[c].status = "provisioning" /\ ~lock
  /\ owner' = [owner EXCEPT ![c].status = "active"]
  /\ UNCHANGED <<source, target, lock, creating, confirmed, pc, call, counts>>

(* removeTaskEpisodeOwnership, after the Episode's resources are gone.      *)
Close(c) ==
  /\ Live(c) /\ owner[c].status = "active" /\ ~lock
  /\ owner' = [owner EXCEPT ![c] = NoOwner]
  /\ UNCHANGED <<source, target, lock, creating, confirmed, pc, call, counts>>

Next ==
  \/ Inspect \/ Discard \/ PublishWork
  \/ \E t \in Tasks : Edit(t)
  \/ \E c \in Owners : Detect(c) \/ Admit(c) \/ Reserve(c) \/ Activate(c) \/ Close(c)
  \/ \E p \in Procs :
       \/ Begin(p) \/ Capture(p) \/ ReadRows(p) \/ Prepare(p) \/ Baseline(p)
       \/ Create(p) \/ Mark(p) \/ ReserveReceipt(p) \/ MarkReceipt(p) \/ Place(p)
       \/ Commit(p) \/ Push(p) \/ Verify(p) \/ WriteReceipt(p)
       \/ CheckTarget(p) \/ CheckSource(p) \/ Switch(p) \/ Guard(p) \/ Delete(p)
       \/ Recover(p) \/ Restore(p) \/ Select(p) \/ PublishLayout(p) \/ Finish(p)
       \/ Fail(p) \/ Crash(p)

Spec == Init /\ [][Next]_vars

-----------------------------------------------------------------------------
Versions == [Tasks -> Nat]

Record ==
  [id : Nat, of : Tasks \cup {Original, Receipt}, rev : Versions,
   stage : {"bare", "marked", "pending", "placed", "done", "mixed"}]

Entry ==
  [task : Tasks, provider : {"beads", "backlog"}, status : {"provisioning", "active"},
   copy : Nat, by : Nat]

(* The state is well formed. *)
TypeOK ==
  /\ store \in {"whole", "part", "gone"} /\ task \in Versions /\ unseen \subseteq Tasks
  /\ layout \in {"none", "pending", "committed"}
  /\ work \subseteq Record /\ head \subseteq Record /\ remote \subseteq Record
  /\ owner \in [Owners -> Entry \cup {NoOwner}] /\ lock \in BOOLEAN
  /\ creating \in [Owners -> {"no", "edit", "reserve"}]
  /\ confirmed \in Versions
  /\ edits \in 0..MaxEdits /\ calls \in 0..MaxCalls /\ trouble \in 0..MaxTrouble

(* Once any file of the source is removed, every task has a complete copy   *)
(* in the published destination, of the version the task had at the last    *)
(* look before the removal: only an edit made after that look can be lost.  *)
(* (Snapshot, retry, count and refresh checks of the migration, whatever    *)
(* earlier attempts and another running one have left.)                     *)
NothingLost ==
  store # "whole" =>
    \A t \in Tasks : \E r \in Marked(remote, t) :
      r.stage = "placed" /\ (t \notin unseen => r.rev[t] = task[t])

(* An ownership entry on the destination names a record that is there, and  *)
(* published, as the complete copy of the entry's task.                     *)
OwnersFollow ==
  \A c \in Owners : Live(c) /\ owner[c].provider = "backlog" =>
    \E r \in remote : /\ r.id = owner[c].copy /\ r.of = owner[c].task
                      /\ r.stage = "placed"

(* When the source is removed no live Episode is bound to it: not one that  *)
(* was reserved or activated during the migration either.  A reservation    *)
(* made after that moment is another matter.                                *)
NobodyStranded ==
  [][store = "whole" /\ store' # "whole" =>
       \A c \in Owners : Live(c) => owner[c].provider = "backlog"]_vars

(* What an invocation reports is so: "pre-cutover-failed" when no entry is  *)
(* left as it switched it, and "completed" when the source is gone and each *)
(* Episode it found is on the destination.                                  *)
Reports(p, r) == pc[p] # "idle" /\ pc'[p] = "idle" /\ call'[p].result = r

ReportTruthful ==
  [][\A p \in Procs :
       /\ Reports(p, "pre-cutover-failed") =>
            \A c \in Owners : owner'[c] # NoOwner => owner'[c].by # call[p].n
       /\ Reports(p, "completed") =>
            /\ store' = "gone" /\ layout' # "none"
            /\ \A c \in Owners : call[p].rows[c] # NoOwner =>
                 owner'[c] # NoOwner /\ owner'[c].provider = "backlog"]_vars
=============================================================================
