--------------------------- MODULE EpisodeCleanup ---------------------------
(***************************************************************************)
(* finalize_task_episode: removal of everything a task Episode owns, and   *)
(* of its ownership entry last (finalizeTaskEpisodeCleanup in              *)
(* spec-episode.ts, CliTaskEpisodeCleanupAdapter in                        *)
(* task-episode-cleanup.ts).                                               *)
(*                                                                         *)
(* The Conversation inspects, deletes the nested task-history clone, and   *)
(* then, with an inspection before and after each, the session tree, the   *)
(* remote branch, the worktree and the local branch.  Every throw ends the *)
(* invocation and its locals; the Conversation may invoke the tool again.  *)
(* Meanwhile the Episode's own sessions can wake up and work, sessions can *)
(* be opened and closed, and the host may delete the merged remote branch. *)
(***************************************************************************)
EXTENDS Integers, FiniteSets, FiniteSetsExt

CONSTANTS
  Sessions,    \* the Episode's session and its possible descendants
  Root,        \* the Episode's own session
  Ancestors,   \* the ancestors of each session
  Elsewhere,   \* descendants whose working directory is not the worktree
  Heads,       \* commits the Episode's branch can be at
  Expected,    \* the terminal Episode head the tool was given
  Absent,      \* there is no such ref
  MaxTrouble   \* bound: wake-ups, reopenings and interruptions

ASSUME CleanupAssumption ==
  /\ Root \in Sessions
  /\ Ancestors \in [Sessions -> SUBSET Sessions]
  /\ Ancestors[Root] = {}
  /\ \A s \in Sessions \ {Root} : Root \in Ancestors[s] /\ s \notin Ancestors[s]
  /\ Elsewhere \subseteq Sessions \ {Root}
  /\ Expected \in Heads /\ Absent \notin Heads
  /\ MaxTrouble \in Nat

VARIABLES
  engine,    \* "local" or "orca"
  session,   \* "none", "saved" (a file, no runtime), "idle" or "busy"
  worktree,  \* "absent", "clean" or "dirty"
  clone,     \* the nested task-history clone, likewise
  branch,    \* the local Episode branch; the worktree has it checked out
  upstream,  \* the branch's ref on the remote
  config,    \* branch.<name>.remote and .merge are in the Git configuration
  owned,     \* the active ownership entry exists
  pc,        \* the next step of the invocation
  why,       \* what the current inspection or tree reading is for
  stage,     \* the resource being removed, an index of Order
  memo,      \* resolvedUpstream is set in this invocation
  snap,      \* the latest inspection: the resources present, and their state
  tree,      \* the latest session list: "none", "saved" or "live"
  todo,      \* the descendants planned for removal
  target,    \* the session being removed
  trouble    \* how many of the bounded events have happened

resources == <<session, worktree, clone, branch, upstream, config, owned>>
work      == <<stage, memo, snap, tree, todo, target>>
locals    == <<pc, why, work>>
vars      == <<engine, resources, locals, trouble>>

Order == <<"runtime", "upstream", "worktree", "branch">>

Inspections == {"first", "before", "nested", "recheck", "verify"}
Readings    == {"plan", "next", "after"}

NoSnap == [present |-> {}, idle |-> TRUE, clean |-> TRUE]
NoTree == [s \in Sessions |-> "none"]

IsLive(s) == session[s] \in {"idle", "busy"}

Init ==
  /\ engine \in {"local", "orca"}
  /\ session \in [Sessions -> {"none", "saved", "idle", "busy"}]
  /\ session[Root] # "none"
  /\ \A s \in Sessions : \A a \in Ancestors[s] :
       session[a] = "none" => session[s] = "none"
  /\ worktree = "clean"
  /\ clone \in {"absent", "clean"}
  /\ branch = Expected
  /\ upstream \in {Expected, Absent}
  /\ config = TRUE /\ owned = TRUE
  /\ pc = "idle" /\ why = "first" /\ stage = 0 /\ memo = FALSE
  /\ snap = NoSnap /\ tree = NoTree /\ todo = {} /\ target = Root
  /\ trouble = 0

(* The events that interfere are bounded together. *)
Trouble == trouble < MaxTrouble /\ trouble' = trouble + 1

-----------------------------------------------------------------------------
(* The invocation ends: by a throw, or when its process dies.               *)
End ==
  /\ pc' = "idle" /\ why' = "first" /\ stage' = 0 /\ memo' = FALSE
  /\ snap' = NoSnap /\ tree' = NoTree /\ todo' = {}
  /\ target' = Root

Throw == End /\ UNCHANGED <<engine, resources, trouble>>

Goto(label) == pc' = label

(* Begin an inspection, or only its reading of the session tree.            *)
Inspect(purpose) == pc' = "git" /\ why' = purpose
ReadTree(purpose) == pc' = "list" /\ why' = purpose

Begin ==
  /\ pc = "idle" /\ owned
  /\ Inspect("first")
  /\ UNCHANGED <<engine, resources, work, trouble>>

(* inspect, up to its first await: the worktree and the branch.             *)
ReadGit ==
  /\ pc = "git"
  /\ IF branch \in {Expected, Absent}
     THEN /\ snap' = [present |-> {r \in {"worktree", "branch"} :
                                    \/ r = "worktree" /\ worktree # "absent"
                                    \/ r = "branch" /\ branch # Absent},
                      idle |-> TRUE, clean |-> TRUE]
          /\ Goto("list")
          /\ UNCHANGED <<engine, resources, why, stage, memo, tree, todo, target, trouble>>
     ELSE Throw

(* sessionTree: the sessions that the root's listed descendants connect.    *)
Connected(list) ==
  {s \in Sessions : list[s] # "none"
                    /\ \A a \in Ancestors[s] : list[a] # "none"}

(* A live session is recognised by its working directory: what runs in the  *)
(* worktree and is not connected to the root.                               *)
Unconnected(list) ==
  \E s \in Sessions \ (Connected(list) \cup Elsewhere) : list[s] = "live"

(* Mutant: no root, no Episode sessions. *)
ForeignToRoot(list) == list[Root] # "none" /\ Unconnected(list)

(* Without the root no session is connected, and its listed children are    *)
(* refused wherever they run.  A descendant of a removed session that runs  *)
(* elsewhere is not found.                                                  *)
Foreign(list) ==
  \/ Unconnected(list)
  \/ list[Root] = "none" /\ \E s \in Sessions : list[s] # "none" /\ Ancestors[s] = {Root}

ListSessions ==
  /\ pc = "list"
  /\ LET list == [s \in Sessions |-> IF IsLive(s) THEN "live" ELSE session[s]]
     IN IF Foreign(list)
        THEN Throw
        ELSE /\ tree' = list
             /\ Goto("states")
             /\ UNCHANGED <<engine, resources, why, stage, memo, snap, todo, target, trouble>>

Nodes == Connected(tree)

(* The state of every listed runtime, one request after the list.           *)
ReadStates ==
  /\ pc = "states"
  /\ IF \E s \in Nodes : tree[s] = "live" /\ ~IsLive(s)
     THEN Throw
     ELSE /\ snap' = [snap EXCEPT
                !.present = IF Nodes = {} THEN @ ELSE @ \cup {"runtime"},
                !.idle = \A s \in Nodes : tree[s] = "live" => session[s] = "idle"]
          /\ Goto(IF why \in Inspections THEN "remote" ELSE why)
          /\ UNCHANGED <<engine, resources, why, stage, memo, tree, todo, target, trouble>>

(* Mutant: no memory of the upstream within the invocation. *)
UpstreamConfigured == config

(* configuredUpstream *)
UpstreamKnown == config \/ ("branch" \notin snap.present /\ memo)

(* Mutant: the remote is not asked. *)
ReadNoRemote ==
  /\ pc = "remote"
  /\ IF UpstreamKnown
     THEN /\ memo' = TRUE
          /\ snap' = [snap EXCEPT !.clean = worktree # "dirty"]
          /\ Goto("inspected")
          /\ UNCHANGED <<engine, resources, why, stage, tree, todo, target, trouble>>
     ELSE Throw

(* inspect, after its last await: the remote ref and the worktree's status. *)
ReadRemote ==
  /\ pc = "remote"
  /\ IF UpstreamKnown /\ upstream \in {Expected, Absent}
     THEN /\ memo' = TRUE
          /\ snap' = [snap EXCEPT
                !.present = IF upstream = Absent THEN @ ELSE @ \cup {"upstream"},
                !.clean = worktree # "dirty"]
          /\ Goto("inspected")
          /\ UNCHANGED <<engine, resources, why, stage, tree, todo, target, trouble>>
     ELSE Throw

-----------------------------------------------------------------------------
(* finalizeTaskEpisodeCleanup between inspections.                          *)

Inspected(purpose) == pc = "inspected" /\ why = purpose

(* verifyTaskCleanupResources, for what inspect has not refused itself      *)
Verified == snap.idle /\ snap.clean

(* Go on with the next resource the latest snapshot has, or to the end.     *)
Proceed(after) ==
  LET rest == {i \in (after + 1)..4 : Order[i] \in snap.present}
  IN \/ /\ rest # {}
        /\ stage' = Min(rest)
        /\ Inspect("before")
        /\ UNCHANGED <<memo, snap, tree, todo, target>>
     \/ /\ rest = {} /\ snap.present = {}
        /\ Goto("release")
        /\ UNCHANGED <<why, work>>
     \/ /\ rest = {} /\ snap.present # {}
        /\ End

(* inspectEpisodeTaskHistoryStore: no clone, or one without uncommitted     *)
(* bytes, may go.                                                           *)
CloneRefused == clone = "dirty"

InspectClone ==
  /\ Inspected("first")
  /\ \/ /\ Verified
        /\ "worktree" \notin snap.present \/ clone = "absent"
        /\ Proceed(0)
     \/ /\ Verified
        /\ "worktree" \in snap.present /\ clone # "absent" /\ ~CloneRefused
        /\ Goto("clone")
        /\ UNCHANGED <<why, work>>
     \/ /\ ~Verified \/ ("worktree" \in snap.present /\ CloneRefused)
        /\ End
  /\ UNCHANGED <<engine, resources, trouble>>

(* rmSync of cleanupEpisodeTaskHistoryStore *)
RemoveClone ==
  /\ pc = "clone"
  /\ clone' = "absent"
  /\ Proceed(0)
  /\ UNCHANGED <<engine, session, worktree, branch, upstream, config, owned, trouble>>

(* What removeRuntime, removeUpstream, removeWorktree and removeBranch ask  *)
(* of their own inspection.                                                 *)
Removable ==
  CASE Order[stage] = "runtime"  -> "runtime" \in snap.present /\ snap.idle
    [] Order[stage] = "upstream" -> "runtime" \notin snap.present /\ snap.clean
    [] Order[stage] = "worktree" -> /\ snap.present \cap {"runtime", "upstream"} = {}
                                    /\ "worktree" \in snap.present /\ snap.clean
    [] Order[stage] = "branch"   -> snap.present \cap {"runtime", "worktree"} = {}

Refuse ==
  /\ Inspected("before") /\ ~Removable
  /\ Throw

(* Each removal is verified by an inspection of its own.                    *)
Removed ==
  CASE Order[stage] = "runtime"  -> "runtime" \notin snap.present
    [] Order[stage] = "upstream" -> snap.present \cap {"runtime", "upstream"} = {}
    [] Order[stage] = "worktree" -> snap.present \cap {"runtime", "worktree"} = {}
    [] Order[stage] = "branch"   -> TRUE

Verify ==
  /\ Inspected("verify")
  /\ IF Verified /\ Removed THEN Proceed(stage) ELSE End
  /\ UNCHANGED <<engine, resources, trouble>>

(* removeTaskEpisodeOwnership, of the unchanged entry *)
Release ==
  /\ pc = "release"
  /\ owned' = FALSE
  /\ End
  /\ UNCHANGED <<engine, session, worktree, clone, branch, upstream, config, trouble>>

-----------------------------------------------------------------------------
(* removeRuntime: descendants first, the deepest before the others.         *)
Depth(s) == Cardinality(Ancestors[s])

BeginRuntime ==
  /\ Inspected("before") /\ Order[stage] = "runtime" /\ Removable
  /\ ReadTree("plan")
  /\ UNCHANGED <<engine, resources, work, trouble>>

Plan ==
  /\ pc = "plan"
  /\ IF Nodes # {} /\ snap.idle
     THEN /\ todo' = Nodes \ {Root}
          /\ ReadTree("next")
          /\ UNCHANGED <<engine, resources, stage, memo, snap, tree, target, trouble>>
     ELSE Throw

Remove(s) ==
  /\ target' = s
  /\ Goto(IF tree[s] = "live" THEN "check" ELSE "delete")
  /\ UNCHANGED <<why, todo>>

NextSession ==
  /\ pc = "next"
  /\ IF Nodes = {} \/ ~snap.idle \/ (todo = {} /\ Nodes # {Root})
     THEN Throw
     ELSE /\ \/ todo = {} /\ Remove(Root)
             \/ \E s \in todo :
                  /\ \A t \in todo : Depth(t) <= Depth(s)
                  /\ IF s \in Nodes
                     THEN Remove(s)
                     ELSE /\ todo' = todo \ {s}
                          /\ ReadTree("next")
                          /\ UNCHANGED target
          /\ UNCHANGED <<engine, resources, stage, memo, snap, tree, trouble>>

(* removeSession: the last look before the kill *)
CheckSession ==
  /\ pc = "check"
  /\ IF session[target] = "idle"
     THEN /\ Goto("kill")
          /\ UNCHANGED <<engine, resources, why, work, trouble>>
     ELSE Throw

KillSession ==
  /\ pc = "kill"
  /\ IF IsLive(target)
     THEN /\ session' = [session EXCEPT ![target] = "saved"]
          /\ Goto("delete")
          /\ UNCHANGED <<engine, worktree, clone, branch, upstream, config, owned,
                         why, work, trouble>>
     ELSE Throw

(* The daemon does not delete the history of a session that runs.           *)
DeleteSession ==
  /\ pc = "delete"
  /\ IF session[target] = "saved"
     THEN /\ session' = [session EXCEPT ![target] = "none"]
          /\ todo' = todo \ {target}
          /\ ReadTree(IF target = Root THEN "after" ELSE "next")
          /\ UNCHANGED <<engine, worktree, clone, branch, upstream, config, owned,
                         stage, memo, snap, tree, target, trouble>>
     ELSE Throw

RuntimeRemoved ==
  /\ pc = "after"
  /\ IF Nodes = {}
     THEN /\ Inspect("verify")
          /\ UNCHANGED <<engine, resources, work, trouble>>
     ELSE Throw

-----------------------------------------------------------------------------
(* The other resources.                                                     *)

Removing(resource) == Inspected("before") /\ Order[stage] = resource /\ Removable

ThenVerify == Inspect("verify") /\ UNCHANGED work

(* removeUpstream: a push that deletes the ref only at the expected head.   *)
(* removeBranch calls it too, when the ref is there again.                  *)
ThenContinue ==
  /\ IF why = "nested" THEN Goto("ref") /\ UNCHANGED why ELSE Inspect("verify")
  /\ UNCHANGED work

UpstreamDue ==
  \/ Removing("upstream")
  \/ Inspected("nested") /\ "runtime" \notin snap.present /\ snap.clean

(* Mutant: a push without a lease. *)
DeleteUpstream ==
  /\ UpstreamDue
  /\ upstream' = Absent
  /\ ThenContinue
  /\ UNCHANGED <<engine, session, worktree, clone, branch, config, owned, trouble>>

RemoveUpstream ==
  /\ UpstreamDue
  /\ \/ /\ "upstream" \in snap.present /\ upstream = Expected
        /\ upstream' = Absent
        /\ ThenContinue
     \/ /\ "upstream" \notin snap.present /\ upstream = Absent
        /\ UNCHANGED upstream
        /\ ThenContinue
     \/ /\ upstream # IF "upstream" \in snap.present THEN Expected ELSE Absent
        /\ UNCHANGED upstream
        /\ End
  /\ UNCHANGED <<engine, session, worktree, clone, branch, config, owned, trouble>>

(* Mutant: git worktree remove --force, without assertCleanWorktree. *)
ForceLocalWorktree ==
  /\ Removing("worktree") /\ engine = "local"
  /\ worktree' = "absent" /\ clone' = "absent"
  /\ ThenVerify
  /\ UNCHANGED <<engine, session, branch, upstream, config, owned, trouble>>

(* removeWorktree without Orca: git refuses a dirty worktree                *)
RemoveWorktree ==
  /\ Removing("worktree") /\ engine = "local"
  /\ IF branch = Expected /\ worktree = "clean"
     THEN /\ worktree' = "absent" /\ clone' = "absent"
          /\ ThenVerify
          /\ UNCHANGED <<engine, session, branch, upstream, config, owned, trouble>>
     ELSE Throw

CheckOrca ==
  /\ Removing("worktree") /\ engine = "orca"
  /\ IF branch = Expected /\ worktree = "clean"
     THEN /\ Goto("force")
          /\ UNCHANGED <<engine, resources, why, work, trouble>>
     ELSE Throw

(* orca worktree rm --force: it may delete the branch and its configuration *)
(* too, and may fail after or before it has done so.                        *)
ForceWorktree ==
  /\ pc = "force"
  /\ \/ /\ worktree' = "absent" /\ clone' = "absent"
        /\ \/ branch' = Absent /\ config' = FALSE
           \/ UNCHANGED <<branch, config>>
        /\ Inspect("verify") \/ Inspect("recheck")
        /\ UNCHANGED trouble
     \/ /\ UNCHANGED <<worktree, clone, branch, config>>
        /\ Inspect("recheck")
        /\ Trouble
  /\ UNCHANGED <<engine, session, upstream, owned, work>>

(* The one look after a failed Orca removal.                                *)
Recheck ==
  /\ Inspected("recheck")
  /\ IF "worktree" \in snap.present
     THEN Throw
     ELSE /\ Inspect("verify")
          /\ UNCHANGED <<engine, resources, work, trouble>>

(* removeBranch: update-ref -d compares the head.  The configuration stays. *)
RemoveUpstreamFirst ==
  /\ Removing("branch") /\ "upstream" \in snap.present
  /\ Inspect("nested")
  /\ UNCHANGED <<engine, resources, work, trouble>>

RemoveBranch ==
  /\ \/ Removing("branch") /\ "upstream" \notin snap.present
     \/ pc = "ref"
  /\ IF branch \in {Expected, Absent}
     THEN /\ branch' = Absent
          /\ ThenVerify
          /\ UNCHANGED <<engine, session, worktree, clone, upstream, config, owned,
                         trouble>>
     ELSE Throw

-----------------------------------------------------------------------------
(* Everybody else.                                                          *)

(* A command fails without effect, or the process dies.                     *)
Interrupted ==
  /\ pc # "idle"
  /\ Trouble
  /\ End
  /\ UNCHANGED <<engine, resources>>

Becomes(s, state) ==
  /\ session' = [session EXCEPT ![s] = state]
  /\ UNCHANGED <<engine, worktree, clone, branch, upstream, config, owned, locals>>

(* A schedule, a goal or a user makes a session work. *)
Wake(s) == session[s] = "idle" /\ Trouble /\ Becomes(s, "busy")

(* A session runs in its working directory.                                 *)
HasDirectory(s) == s \in Elsewhere \/ worktree # "absent"

(* A saved session is opened; a runtime ends.                               *)
Open(s) == session[s] = "saved" /\ HasDirectory(s) /\ Trouble /\ Becomes(s, "idle")
Exit(s) == IsLive(s) /\ Becomes(s, "saved") /\ UNCHANGED trouble

Rest(s) == session[s] = "busy" /\ Becomes(s, "idle") /\ UNCHANGED trouble

(* A busy session starts a child of its own.                                *)
Spawn(s) ==
  /\ session[s] = "none" /\ HasDirectory(s)
  /\ \E p \in Ancestors[s] : session[p] = "busy" /\ Ancestors[s] = Ancestors[p] \cup {p}
  /\ Becomes(s, "busy")
  /\ UNCHANGED trouble

(* A busy session edits, commits and pushes code and task history.          *)
Work ==
  /\ \E s \in Sessions : session[s] = "busy"
  /\ worktree # "absent" /\ branch # Absent
  /\ \/ worktree = "clean" /\ worktree' = "dirty"
        /\ UNCHANGED <<clone, branch, upstream, config>>
     \/ /\ worktree = "dirty" /\ worktree' = "clean"
        /\ branch' \in Heads \ {Expected}
        /\ UNCHANGED <<clone, upstream, config>>
     \/ upstream' = branch /\ config' = TRUE /\ UNCHANGED <<worktree, clone, branch>>
     \/ clone = "clean" /\ clone' = "dirty" /\ UNCHANGED <<worktree, branch, upstream, config>>
     \/ clone = "dirty" /\ clone' = "clean" /\ UNCHANGED <<worktree, branch, upstream, config>>
  /\ UNCHANGED <<engine, session, owned, locals, trouble>>

(* The host deletes the merged branch. *)
HostDeletes ==
  /\ upstream = Expected
  /\ upstream' = Absent
  /\ UNCHANGED <<engine, session, worktree, clone, branch, config, owned, locals, trouble>>

-----------------------------------------------------------------------------
Tool ==
  \/ Begin \/ ReadGit \/ ListSessions \/ ReadStates \/ ReadRemote
  \/ InspectClone \/ RemoveClone \/ Refuse \/ Verify \/ Release
  \/ BeginRuntime \/ Plan \/ NextSession \/ CheckSession \/ KillSession \/ DeleteSession
  \/ RuntimeRemoved
  \/ RemoveUpstream \/ RemoveWorktree \/ CheckOrca \/ ForceWorktree \/ Recheck
  \/ RemoveUpstreamFirst \/ RemoveBranch

Surroundings ==
  \/ Interrupted \/ Work \/ HostDeletes
  \/ \E s \in Sessions : Wake(s) \/ Open(s) \/ Exit(s) \/ Rest(s) \/ Spawn(s)

Next == Tool \/ Surroundings

Spec == Init /\ [][Next]_vars

(* The Conversation invokes the tool again until ownership is gone, and a   *)
(* busy session comes to rest.                                              *)
FairSpec ==
  Spec /\ WF_vars(Tool) /\ \A s \in Sessions : WF_vars(Rest(s))

-----------------------------------------------------------------------------
(* Every variable has its type. *)
TypeOK ==
  /\ engine \in {"local", "orca"}
  /\ session \in [Sessions -> {"none", "saved", "idle", "busy"}]
  /\ worktree \in {"absent", "clean", "dirty"}
  /\ clone \in {"absent", "clean", "dirty"}
  /\ branch \in Heads \cup {Absent} /\ upstream \in Heads \cup {Absent}
  /\ config \in BOOLEAN /\ owned \in BOOLEAN /\ memo \in BOOLEAN
  /\ pc \in {"idle", "git", "list", "states", "remote", "inspected", "clone",
             "plan", "next", "after", "check", "kill", "delete", "force", "ref",
             "release"}
  /\ why \in Inspections \cup Readings
  /\ stage \in 0..4
  /\ snap \in [present : SUBSET {"runtime", "upstream", "worktree", "branch"},
               idle : BOOLEAN, clean : BOOLEAN]
  /\ tree \in [Sessions -> {"none", "saved", "live"}]
  /\ todo \subseteq Sessions /\ target \in Sessions
  /\ trouble \in 0..MaxTrouble

NothingLeft ==
  /\ session[Root] = "none" /\ \A s \in Sessions \ Elsewhere : ~IsLive(s)
  /\ worktree = "absent" /\ branch = Absent /\ upstream = Absent

(* The ownership entry is the last thing to go: nothing that it owns is     *)
(* left when finalizeTaskEpisodeCleanup removes it, whatever happened       *)
(* between the inspections.  A descendant that has changed its directory    *)
(* and lost its parent may run on: the code has no way to find it.          *)
OwnershipRemovedLast == [][owned' # owned => NothingLeft]_vars

(* A descendant outlived its parent: it was started between the last look   *)
(* at the parent and the parent's removal.  Its saved history is left, and  *)
(* it may be opened again just before Orca is told to force.                *)
Escaped ==
  \E s \in Sessions : \E p \in Ancestors[s] :
    session[s] # "none" /\ session[p] = "none"

Forced == engine = "orca" /\ Escaped

(* While the remote branch exists, the local branch and the configuration   *)
(* that identify it do too, so a later invocation can still find it.  Only  *)
(* Orca with an escaped descendant can break this.                          *)
RemoteIdentifiable == upstream # Absent /\ ~Forced => branch # Absent /\ config

(* A ref is deleted only at the head the operator confirmed: a commit that  *)
(* a session made meanwhile is not lost.                                    *)
OnlyTerminalRefsDeleted ==
  [][/\ branch' = Absent /\ ~Forced => branch \in {Expected, Absent}
     /\ upstream' = Absent => upstream \in {Expected, Absent}]_vars

(* The worktree goes only when it is clean, and after the nested clone that *)
(* its status does not show.                                                *)
WorktreeBytesKept ==
  [][worktree' = "absent" /\ worktree # "absent" /\ ~Forced
       => worktree = "clean" /\ clone = "absent"]_vars

(* "cleanup never deletes unpublished or dirty task content"                *)
CloneBytesKept == [][pc = "clone" /\ clone' = "absent" => clone # "dirty"]_vars

(* What stops every later invocation: bytes or commits nobody confirmed, a  *)
(* descendant without the root, and, once an invocation was interrupted, an *)
(* upstream whose configuration Orca has erased.                            *)
Blocked ==
  \/ worktree = "dirty" \/ clone = "dirty"
  \/ branch \notin {Expected, Absent} \/ upstream \notin {Expected, Absent}
  \/ Foreign([s \in Sessions |-> IF IsLive(s) THEN "live" ELSE session[s]])
  \/ ~config /\ branch = Absent /\ trouble > 0

(* Invoked again after every failure, the cleanup ends, from whatever it    *)
(* had removed before.                                                      *)
CleanupCompletes == <>[](~owned \/ Blocked)
=============================================================================
