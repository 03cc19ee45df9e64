--------------------------- MODULE EpisodeCreation ----------------------------
(***************************************************************************)
(* create_task_episode: admission of a task under the admission lock, its  *)
(* durable reservation, and the allocation of a worktree, a session and    *)
(* one execute assignment (createTaskEpisode, createBeadsTaskEpisode,      *)
(* allocateReservedTaskEpisode, startTaskEpisodeInOrcaWorktree and         *)
(* waitForOrcaBinding in spec-episode.ts; the reservations in              *)
(* task-episode-ownership.ts).                                             *)
(*                                                                         *)
(* Every external operation may fail before it has an effect or lose its   *)
(* response after it; every ownership write may fail; the process may die  *)
(* between any two steps.  Orca starts the session of an automation run    *)
(* some time after the run was accepted, and shows its tab later still.    *)
(* Somebody else may open a session in the new worktree meanwhile.         *)
(***************************************************************************)
EXTENDS Integers, FiniteSets

CONSTANTS
  Owners,      \* Conversations
  Tasks,
  Agents,      \* Prime Agent sessions that can run in an Episode's worktree
  Visitors,    \* those of them that somebody else opens
  None,        \* no session
  NoEntry,     \* the Conversation has no ownership entry
  MaxTrouble   \* bound: failures, crashes, visits and closed sessions

(* What an entry can name besides its session: the worktree's name and      *)
(* identity, the automation's name and id, the run, the session's route.    *)
Marks == {"name", "worktree", "launch", "automation", "run", "route"}

Entry ==
  [task : Tasks, engine : {"local", "orca"},
   status : {"provisioning", "active", "uncertain"},
   marks : SUBSET Marks, session : Agents \cup {None}]

ASSUME CreationAssumption ==
  /\ Visitors \subseteq Agents
  /\ None \notin Agents /\ Agents \cap {"create", "resume"} = {}
  /\ NoEntry \notin Entry
  /\ MaxTrouble \in Nat

VARIABLES
  independent,  \* the Backlog task history is a repository of its own
  status,       \* the native status of each task
  entry,        \* the ownership entry of each Conversation
  admission,    \* the admission lock directory exists
  pc,           \* the next step of each Conversation's invocation
  job,          \* "create", "resume" (start in the allocated worktree), or the
                \*   session to bind
  record,       \* the entry as the invocation has it in memory
  seen,         \* the sessions that are not candidates for the binding
  found,        \* the sessions the invocation found or created
  made,         \* what exists because of each Conversation's Episode
  trouble       \* how many of the bounded events have happened

memory == <<job, record, seen, found>>
vars   == <<independent, status, entry, admission, pc, memory, made, trouble>>

NothingMade ==
  [trees |-> 0, automations |-> 0, runs |-> 0, orders |-> 0,
   agents |-> [a \in Agents |-> "none"], tabs |-> {}, told |-> {}]

Init ==
  /\ independent \in BOOLEAN
  /\ status = [t \in Tasks |-> "In Planning"]
  /\ entry = [c \in Owners |-> NoEntry]
  /\ admission = FALSE
  /\ pc = [c \in Owners |-> "idle"]
  /\ job = [c \in Owners |-> "create"]
  /\ record = [c \in Owners |-> NoEntry]
  /\ seen = [c \in Owners |-> {}] /\ found = [c \in Owners |-> {}]
  /\ made = [c \in Owners |-> NothingMade]
  /\ trouble = 0

Trouble == trouble < MaxTrouble /\ trouble' = trouble + 1

Goto(c, label) == pc' = [pc EXCEPT ![c] = label]

(* The invocation ends and its memory is gone.                              *)
End(c) ==
  /\ Goto(c, "idle")
  /\ job' = [job EXCEPT ![c] = "create"]
  /\ record' = [record EXCEPT ![c] = NoEntry]
  /\ seen' = [seen EXCEPT ![c] = {}] /\ found' = [found EXCEPT ![c] = {}]

-----------------------------------------------------------------------------
(* Admission.                                                               *)

(* No live entry; the lock is taken next. *)
Begin(c) ==
  /\ pc[c] = "idle" /\ entry[c] = NoEntry
  /\ \E t \in Tasks, engine \in {"local", "orca"} :
       record' = [record EXCEPT ![c] =
                   [task |-> t, engine |-> engine, status |-> "provisioning",
                    marks |-> {}, session |-> None]]
  /\ Goto(c, "waiting")
  /\ UNCHANGED <<independent, status, entry, admission, job, seen, found, made, trouble>>

(* withEpisodeAdmissionLock *)
Acquire(c) ==
  /\ pc[c] = "waiting" /\ ~admission
  /\ admission' = TRUE
  /\ Goto(c, "admitting")
  /\ UNCHANGED <<independent, status, entry, memory, made, trouble>>

TimeOut(c) ==
  /\ pc[c] = "waiting" /\ admission
  /\ End(c)
  /\ UNCHANGED <<independent, status, entry, admission, made, trouble>>

Leave == admission' = FALSE

(* commitConversationTaskStatus: the native edit and its publication.  When *)
(* it fails, the edit may have been made.                                   *)
Admit(c) ==
  /\ pc[c] = "admitting"
  /\ \/ /\ status' = [status EXCEPT ![record[c].task] = "In Progress"]
        /\ Goto(c, "reserve")
        /\ UNCHANGED <<admission, memory, trouble>>
     \/ /\ status' \in {status, [status EXCEPT ![record[c].task] = "In Progress"]}
        /\ Trouble
        /\ Leave /\ End(c)
  /\ UNCHANGED <<independent, entry, made>>

Held(c, t) == \E d \in Owners \ {c} : entry[d] # NoEntry /\ entry[d].task = t

(* reserveTaskEpisodeOwnership and its two published forms: the ownership   *)
(* write refuses the task of another live entry.                            *)
Reserve(c) ==
  /\ pc[c] = "reserve"
  /\ \/ /\ ~Held(c, record[c].task)
        /\ entry' = [entry EXCEPT ![c] = record[c]]
        /\ Goto(c, "reserved")
        /\ UNCHANGED <<admission, memory, trouble>>
     \/ /\ Held(c, record[c].task)
        /\ Leave /\ End(c)
        /\ UNCHANGED <<entry, trouble>>
     \/ Trouble /\ Leave /\ End(c) /\ UNCHANGED entry
  /\ UNCHANGED <<independent, status, made>>

(* Out of the lock, unless the integration branch has changed;              *)
(* allocateReservedTaskEpisode reads the reservation.                       *)
Reserved(c) ==
  /\ pc[c] = "reserved"
  /\ Leave
  /\ \/ /\ record' = [record EXCEPT ![c] = entry[c]]
        /\ Goto(c, "intent")
        /\ UNCHANGED <<job, seen, found, trouble>>
     \/ Trouble /\ End(c)
  /\ UNCHANGED <<independent, status, entry, made>>

-----------------------------------------------------------------------------
(* Failures of an allocation.                                               *)

(* Mutant: the outer catch marks the record it had before the launch.       *)
UncertainBeforeLaunch(r) ==
  [r EXCEPT !.status = "uncertain", !.marks = @ \ {"launch", "automation", "run"}]

Uncertain(r) == [r EXCEPT !.status = "uncertain"]

(* markUncertain writes the latest record in memory and ignores a failure   *)
(* of that; nothing is marked before the continuation has decided, and      *)
(* never while it binds a session.                                          *)
Fail(c, r) ==
  /\ entry' \in {entry} \cup
       IF job[c] \in Agents \/ pc[c] \in {"look", "decide"}
       THEN {}
       ELSE {[entry EXCEPT ![c] = Uncertain(r)]}
  /\ End(c)

(* A durable write, which may fail. *)
Written(c, r, label) ==
  /\ entry' = [entry EXCEPT ![c] = r]
  /\ record' = [record EXCEPT ![c] = r]
  /\ Goto(c, label)
  /\ UNCHANGED <<job, seen, found, trouble>>

Save(c, r, label) ==
  \/ Written(c, r, label)
  \/ Trouble /\ Fail(c, r)

(* Mutant: the patch replaces what was recorded. *)
NotedOnly(r, marks) == [r EXCEPT !.marks = marks]

Noted(r, marks) == [r EXCEPT !.marks = @ \cup marks]

(* The operation succeeds, or its response is lost.                         *)
Then(c, label) ==
  \/ Goto(c, label) /\ UNCHANGED <<entry, memory, trouble>>
  \/ Trouble /\ Fail(c, record[c])

Outside == {"idle", "waiting", "admitting", "reserve", "reserved"}

(* An operation fails without effect: the integration branch changed, a     *)
(* command or request was refused, or the binding timed out.                *)
Broken(c) ==
  /\ pc[c] \notin Outside
  /\ Trouble
  /\ Fail(c, record[c])
  /\ UNCHANGED <<independent, status, admission, made>>

(* The process dies; a lock it held stays. *)
Crash(c) ==
  /\ pc[c] # "idle"
  /\ Trouble
  /\ End(c)
  /\ UNCHANGED <<independent, status, entry, admission, made>>

-----------------------------------------------------------------------------
(* Allocation: the entry names each resource before it is created.          *)

Allocates(c) == UNCHANGED <<independent, status, admission>>

IsLocal(c) == record[c].engine = "local"

(* The local worktree's path and branch are known beforehand, of Orca's     *)
(* only the name.                                                           *)
NoteIntent(c) ==
  /\ pc[c] = "intent"
  /\ Save(c, Noted(record[c], IF IsLocal(c) THEN {"name", "worktree"} ELSE {"name"}),
          "worktree")
  /\ Allocates(c) /\ UNCHANGED made

CreateWorktree(c) ==
  /\ pc[c] = "worktree"
  /\ made' = [made EXCEPT ![c].trees = @ + 1]
  /\ Then(c, IF IsLocal(c) THEN "prepare" ELSE "noteWorktree")
  /\ Allocates(c)

NoteWorktree(c) ==
  /\ pc[c] = "noteWorktree"
  /\ Save(c, Noted(record[c], {"worktree"}), "prepare")
  /\ Allocates(c) /\ UNCHANGED made

(* prepareTaskEpisodeWorkspace: an independent history is cloned and the    *)
(* entry gets its current evidence.                                         *)
Prepare(c) ==
  /\ pc[c] = "prepare"
  /\ Save(c, record[c], IF IsLocal(c) THEN "create"
                        ELSE IF job[c] = "create" THEN "list" ELSE "noteLaunch")
  /\ Allocates(c) /\ UNCHANGED made

Unused(c) == {a \in Agents \ Visitors : made[c].agents[a] = "none"}

(* createFresh: the session file exists before the entry names it; when the *)
(* entry cannot be written the file is removed.                             *)
CreateSession(c) ==
  /\ pc[c] = "create"
  /\ \E a \in Unused(c) :
       /\ made' = [made EXCEPT ![c].agents[a] = "saved"]
       /\ found' = [found EXCEPT ![c] = {a}]
  /\ Goto(c, "noteSession")
  /\ Allocates(c) /\ UNCHANGED <<entry, job, record, seen, trouble>>

NoteSession(c) ==
  /\ pc[c] = "noteSession"
  /\ \E a \in found[c] :
       LET r == [record[c] EXCEPT !.session = a]
       IN \/ Written(c, r, "open") /\ UNCHANGED made
          \/ /\ Trouble /\ Fail(c, r)
             /\ made' = [made EXCEPT ![c].agents[a] = "none"]
  /\ Allocates(c)

OpenSession(c) ==
  /\ pc[c] = "open"
  /\ made' = [made EXCEPT ![c].agents[record[c].session] = "live"]
  /\ Then(c, "noteRoute")
  /\ Allocates(c)

(* Mutant: the entry becomes active before the assignment is admitted. *)
RouteIsEnough(c) ==
  /\ pc[c] = "noteRoute"
  /\ Save(c, Noted(record[c], {"route"}), "activate")
  /\ Allocates(c) /\ UNCHANGED made

NoteRoute(c) ==
  /\ pc[c] = "noteRoute"
  /\ Save(c, Noted(record[c], {"route"}), "deliver")
  /\ Allocates(c) /\ UNCHANGED made

(* deliverExecute *)
Deliver(c) ==
  /\ pc[c] = "deliver"
  /\ made[c].agents[record[c].session] = "live"
  /\ made' = [made EXCEPT ![c].orders = @ + 1, ![c].told = @ \cup {record[c].session}]
  /\ Then(c, "activate")
  /\ Allocates(c)

-----------------------------------------------------------------------------
(* startTaskEpisodeInOrcaWorktree                                           *)

Listed(c) == {a \in Agents : made[c].agents[a] # "none"}

(* Mutant: the automation is created before its name is recorded. *)
ListThenLaunch(c) ==
  /\ pc[c] = "list"
  /\ seen' = [seen EXCEPT ![c] = Listed(c)]
  /\ Goto(c, "automate")
  /\ Allocates(c) /\ UNCHANGED <<entry, job, record, found, made, trouble>>

ListPrior(c) ==
  /\ pc[c] = "list"
  /\ seen' = [seen EXCEPT ![c] = Listed(c)]
  /\ Goto(c, "noteLaunch")
  /\ Allocates(c) /\ UNCHANGED <<entry, job, record, found, made, trouble>>

NoteLaunch(c) ==
  /\ pc[c] = "noteLaunch"
  /\ Save(c, Noted(record[c], {"launch"}), "automate")
  /\ Allocates(c) /\ UNCHANGED made

CreateAutomation(c) ==
  /\ pc[c] = "automate"
  /\ made' = [made EXCEPT ![c].automations = @ + 1]
  /\ Then(c, "noteAutomation")
  /\ Allocates(c)

NoteAutomation(c) ==
  /\ pc[c] = "noteAutomation"
  /\ Save(c, Noted(record[c], {"automation"}), "run")
  /\ Allocates(c) /\ UNCHANGED made

RunAutomation(c) ==
  /\ pc[c] = "run"
  /\ made' = [made EXCEPT ![c].runs = @ + 1]
  /\ Then(c, "noteRun")
  /\ Allocates(c)

(* Mutant: the prior sessions are listed after the launch. *)
NoteRunThenList(c) ==
  /\ pc[c] = "noteRun"
  /\ record' = [record EXCEPT ![c] = Noted(@, {"run"})]
  /\ entry' = [entry EXCEPT ![c] = Noted(record[c], {"run"})]
  /\ seen' = [seen EXCEPT ![c] = Listed(c)]
  /\ Goto(c, "listing") /\ UNCHANGED <<job, found, trouble>>
  /\ Allocates(c) /\ UNCHANGED made

NoteRun(c) ==
  /\ pc[c] = "noteRun"
  /\ Save(c, Noted(record[c], {"run"}), "listing")
  /\ Allocates(c) /\ UNCHANGED made

(* waitForOrcaBinding: each attempt lists the sessions and then reads the   *)
(* screens of the terminals.                                                *)
ListSessions(c) ==
  /\ pc[c] = "listing"
  /\ found' = [found EXCEPT ![c] = Listed(c) \ seen[c]]
  /\ Goto(c, "terminals")
  /\ Allocates(c) /\ UNCHANGED <<entry, job, record, seen, made, trouble>>

Bindable(c) == Cardinality(found[c]) = 1 /\ Cardinality(made[c].tabs) = 1

ReadTerminals(c) ==
  /\ pc[c] = "terminals"
  /\ \/ /\ Cardinality(found[c]) > 1 \/ Cardinality(made[c].tabs) > 1
        /\ Fail(c, record[c])
        /\ UNCHANGED trouble
     \/ /\ Bindable(c)
        /\ job[c] \in Agents => found[c] = {job[c]}
        /\ Goto(c, IF job[c] \in Agents THEN "activate" ELSE "noteBinding")
        /\ UNCHANGED <<entry, memory, trouble>>
     \/ /\ Bindable(c)
        /\ job[c] \in Agents /\ found[c] # {job[c]}
        /\ Fail(c, record[c])
        /\ UNCHANGED trouble
     \/ /\ Cardinality(found[c]) <= 1 /\ Cardinality(made[c].tabs) <= 1
        /\ \/ ~Bindable(c) /\ UNCHANGED trouble
           \/ Bindable(c) /\ Trouble      \* the screen is not ready
        /\ Goto(c, "listing")
        /\ UNCHANGED <<entry, memory>>
  /\ Allocates(c) /\ UNCHANGED made

NoteBinding(c) ==
  /\ pc[c] = "noteBinding"
  /\ \E a \in found[c] :
       Save(c, [Noted(record[c], {"route"}) EXCEPT !.session = a], "remove")
  /\ Allocates(c) /\ UNCHANGED made

RemoveAutomation(c) ==
  /\ pc[c] = "remove"
  /\ made' = [made EXCEPT ![c].automations = @ - 1]
  /\ Then(c, "retained")
  /\ Allocates(c)

(* The tab is still there after the automation is gone.                     *)
CheckTab(c) ==
  /\ pc[c] = "retained"
  /\ IF made[c].tabs # {}
     THEN Goto(c, "activate") /\ UNCHANGED <<entry, memory>>
     ELSE Fail(c, record[c])
  /\ Allocates(c) /\ UNCHANGED <<made, trouble>>

Bound(r, a) == [Noted(r, {"route"}) EXCEPT !.session = a, !.status = "active"]

(* The last write.  The invocation returns what it wrote. *)
Activate(c) ==
  /\ pc[c] = "activate"
  /\ LET r == record[c]
         active ==
           IF job[c] \in Agents THEN Bound(r, job[c])
           ELSE [r EXCEPT !.status = "active",
                          !.marks = IF IsLocal(c) THEN @ ELSE @ \ {"automation", "run"}]
     IN \/ entry' = [entry EXCEPT ![c] = active] /\ UNCHANGED trouble
           /\ End(c)
        \/ Trouble /\ Fail(c, active)
  /\ Allocates(c) /\ UNCHANGED made

-----------------------------------------------------------------------------
(* The invocation names an existing operation.                              *)

(* An active Episode is reopened and returned: no assignment is sent.       *)
Reopen(c) ==
  /\ pc[c] = "idle" /\ entry[c] # NoEntry /\ entry[c].status = "active"
  /\ made[c].agents[entry[c].session] = "saved"
  /\ made' = [made EXCEPT ![c].agents[entry[c].session] = "live"]
  /\ UNCHANGED <<independent, status, entry, admission, pc, memory, trouble>>

(* Continue after the worktree was allocated, or bind a session in it.      *)
Resume(c) ==
  /\ pc[c] = "idle" /\ entry[c] # NoEntry /\ entry[c].status # "active"
  /\ independent /\ entry[c].engine = "orca"
  /\ "worktree" \in entry[c].marks
  /\ job' \in {[job EXCEPT ![c] = j] : j \in {"resume"} \cup (Agents \ Unused(c))}
  /\ job'[c] \in Agents /\ entry[c].session # None => job'[c] = entry[c].session
  /\ record' = [record EXCEPT ![c] = entry[c]]
  /\ Goto(c, "look")
  /\ UNCHANGED <<independent, status, entry, admission, seen, found, made, trouble>>

Look(c) ==
  /\ pc[c] = "look"
  /\ seen' = [seen EXCEPT ![c] = Listed(c) \ {job[c]}]
  /\ Goto(c, "decide")
  /\ Allocates(c) /\ UNCHANGED <<entry, job, record, found, made, trouble>>

Launched(r) == r.session # None \/ r.marks \cap {"launch", "automation", "run", "route"} # {}

Continues(c) ==
  IF job[c] = "resume"
  THEN seen[c] = {} /\ made[c].tabs = {} /\ ~Launched(record[c])
  ELSE seen[c] = {} /\ made[c].agents[job[c]] = "live"

Decide(c) ==
  /\ pc[c] = "decide"
  /\ IF Continues(c)
     THEN /\ Goto(c, IF job[c] = "resume" THEN "prepare" ELSE "listing")
          /\ UNCHANGED <<entry, memory>>
     ELSE Fail(c, record[c])
  /\ Allocates(c) /\ UNCHANGED <<made, trouble>>

-----------------------------------------------------------------------------
(* Orca, the daemon and the people at the worktree.                         *)

World(c) == UNCHANGED <<independent, status, entry, admission, pc, memory>>

(* The session of a run starts with the assignment in it.                   *)
Starts(c) ==
  /\ made[c].runs > 0
  /\ \E a \in Unused(c) :
       made' = [made EXCEPT ![c].runs = @ - 1, ![c].agents[a] = "live",
                            ![c].orders = @ + 1, ![c].told = @ \cup {a}]
  /\ World(c) /\ UNCHANGED trouble

(* Its tab becomes visible.                                                 *)
Shows(c, a) ==
  /\ entry[c] # NoEntry /\ entry[c].engine = "orca"
  /\ made[c].agents[a] = "live" /\ a \notin made[c].tabs
  /\ made' = [made EXCEPT ![c].tabs = @ \cup {a}]
  /\ World(c) /\ UNCHANGED trouble

Visit(c, a) ==
  /\ a \in Visitors
  /\ made[c].trees > 0 /\ entry[c].engine = "orca" /\ made[c].agents[a] = "none"
  /\ Trouble
  /\ made' = [made EXCEPT ![c].agents[a] = "live"]
  /\ World(c)

Closes(c, a) ==
  /\ made[c].agents[a] = "live"
  /\ Trouble
  /\ made' = [made EXCEPT ![c].agents[a] = "saved", ![c].tabs = @ \ {a}]
  /\ World(c)

(* The owner marks its task blocked.                                        *)
Block(c) ==
  /\ pc[c] = "idle" /\ entry[c] # NoEntry /\ entry[c].status = "active"
  /\ status' = [status EXCEPT ![entry[c].task] = "Blocked"]
  /\ UNCHANGED <<independent, entry, admission, pc, memory, made, trouble>>

-----------------------------------------------------------------------------
Steps(c) ==
  \/ Acquire(c) \/ TimeOut(c) \/ Admit(c) \/ Reserve(c) \/ Reserved(c)
  \/ NoteIntent(c) \/ CreateWorktree(c) \/ NoteWorktree(c) \/ Prepare(c)
  \/ CreateSession(c) \/ NoteSession(c) \/ OpenSession(c) \/ NoteRoute(c) \/ Deliver(c)
  \/ ListPrior(c) \/ NoteLaunch(c) \/ CreateAutomation(c) \/ NoteAutomation(c)
  \/ RunAutomation(c) \/ NoteRun(c) \/ ListSessions(c) \/ ReadTerminals(c)
  \/ NoteBinding(c) \/ RemoveAutomation(c) \/ CheckTab(c) \/ Activate(c)
  \/ Look(c) \/ Decide(c)

Next ==
  \E c \in Owners :
    \/ Begin(c) \/ Resume(c) \/ Reopen(c) \/ Steps(c)
    \/ Broken(c) \/ Crash(c) \/ Block(c)
    \/ Starts(c) \/ \E a \in Agents : Shows(c, a) \/ Visit(c, a) \/ Closes(c, a)

Spec == Init /\ [][Next]_vars

(* A live invocation goes on; Orca starts what it accepted and shows it.    *)
FairSpec ==
  Spec /\ \A c \in Owners :
    /\ WF_vars(Steps(c)) /\ WF_vars(Starts(c))
    /\ \A a \in Agents \ Visitors : WF_vars(Shows(c, a))

-----------------------------------------------------------------------------
(* Every variable has its type. *)
TypeOK ==
  /\ independent \in BOOLEAN /\ admission \in BOOLEAN
  /\ status \in [Tasks -> {"In Planning", "In Progress", "Blocked"}]
  /\ entry \in [Owners -> Entry \cup {NoEntry}]
  /\ record \in [Owners -> Entry \cup {NoEntry}]
  /\ pc \in [Owners ->
       {"idle", "waiting", "admitting", "reserve", "reserved", "intent", "worktree",
        "noteWorktree", "prepare", "create", "noteSession", "open", "noteRoute",
        "deliver", "list", "noteLaunch", "automate", "noteAutomation", "run",
        "noteRun", "listing", "terminals", "noteBinding", "remove", "retained",
        "activate", "look", "decide"}]
  /\ job \in [Owners -> {"create", "resume"} \cup Agents]
  /\ seen \in [Owners -> SUBSET Agents] /\ found \in [Owners -> SUBSET Agents]
  /\ made \in [Owners ->
       [trees : Nat, automations : Nat, runs : Nat, orders : Nat,
        agents : [Agents -> {"none", "saved", "live"}],
        tabs : SUBSET Agents, told : SUBSET Agents]]
  /\ trouble \in 0..MaxTrouble

(* No retry, lost response or crash makes a second worktree, launch or      *)
(* execute assignment for one reservation: "retries cannot create duplicate *)
(* worktrees, sessions, or assignments".                                    *)
NoDuplicates ==
  \A c \in Owners :
    /\ made[c].trees <= 1
    /\ made[c].orders + made[c].runs <= 1
    /\ Cardinality({a \in Agents \ Visitors : made[c].agents[a] # "none"}) <= 1

(* What exists can be found again from the durable entry: each resource is  *)
(* named there before it is created.  Only the file of a local session      *)
(* precedes its entry.                                                      *)
Reconcilable ==
  \A c \in Owners :
    /\ made[c] # NothingMade => entry[c] # NoEntry /\ "name" \in entry[c].marks
    /\ made[c].automations + made[c].runs > 0 => "launch" \in entry[c].marks
    /\ \A a \in made[c].told :
         entry[c].session = a \/ (entry[c].engine = "orca" /\ "launch" \in entry[c].marks)

(* A session that Prime Claw made and an active entry names has the         *)
(* execute assignment.                                                      *)
ActiveIsAssigned ==
  \A c \in Owners :
    entry[c] # NoEntry /\ entry[c].status = "active" =>
      /\ made[c].trees = 1
      /\ entry[c].session \in Visitors \cup made[c].told

(* No later write, not even of an invocation that read the entry long ago,  *)
(* forgets evidence that an earlier one recorded.  Only the ids of an       *)
(* automation that is gone are dropped, and an active entry stays active.   *)
EvidenceKept ==
  [][\A c \in Owners : entry[c] # NoEntry =>
       /\ entry'[c] # NoEntry
       /\ entry[c].marks \ {"automation", "run"} \subseteq entry'[c].marks
       /\ entry[c].marks \subseteq entry'[c].marks \/ made[c].automations = 0
       /\ entry[c].session # None => entry'[c].session = entry[c].session
       /\ entry[c].status = "active" => entry'[c].status = "active"]_vars

(* An invocation that has its reservation, and that nothing disturbs, makes *)
(* the Episode active.                                                      *)
CreationCompletes ==
  \A c \in Owners :
    pc[c] = "reserved" ~> (entry[c] # NoEntry /\ entry[c].status = "active") \/ trouble > 0

(* The In Progress transition is published "only when that Conversation has *)
(* no non-terminal ownership and no other owner holds the same task         *)
(* binding".                                                                *)
AdmittedOnlyUnowned ==
  [][\A t \in Tasks : status[t] # "In Progress" /\ status'[t] = "In Progress"
       => \A c \in Owners : entry[c] # NoEntry => entry[c].task # t]_vars
=============================================================================
