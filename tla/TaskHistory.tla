---------------------------- MODULE TaskHistory ----------------------------
(***************************************************************************)
(* The published task history and the clones it is edited in               *)
(* (task-history-workspace.ts), with the two other stores a Conversation's *)
(* status edit can go to (commitConversationTaskStatus in spec-episode.ts, *)
(* mutateAndPublishBeadsTaskStatus in task-providers.ts).                  *)
(*                                                                         *)
(* Sessions in several processes prepare, inspect and publish, one native  *)
(* command at a time; agents edit task files in the clones; another host   *)
(* publishes to the same remote; commands fail, before or after they took  *)
(* effect, and processes die.                                              *)
(*                                                                         *)
(* A history is the set of its commits, so that an ancestor is a subset    *)
(* and a ref that does not exist is empty.  A commit has one task and the  *)
(* number of the edit whose bytes it holds.                                *)
(***************************************************************************)
EXTENDS Integers, Sequences

CONSTANTS
  Kinds,      \* the stores to consider: "published", "tracked", "beads"
  Procs,      \* processes that run the operations
  Primary,    \* the canonical primary checkout
  Worktrees,  \* Episode worktrees
  Tasks,      \* tasks of the project
  Selected,   \* the tasks that operations are asked to publish
  Marker,     \* stands for the bootstrap commit, which holds the configuration
  NoClone,    \* there is no clone
  MaxEdits,   \* bound: edits, the initial ones included
  MaxCalls,   \* bound: invocations
  MaxTrouble  \* bound: failures, crashes and commits of the other host

Sites == Worktrees \cup {Primary}

Commits     == [task : Tasks \cup {Marker}, n : Nat]
Histories   == SUBSET Commits
CloneRecord == [own : BOOLEAN, head : Histories, seen : Histories, work : [Tasks -> Nat]]

ASSUME TaskHistoryAssumption ==
  /\ Kinds \subseteq {"published", "tracked", "beads"}
  /\ Primary \notin Worktrees
  /\ Selected \subseteq Tasks /\ Selected # {} /\ Marker \notin Tasks
  /\ NoClone \notin CloneRecord
  /\ MaxEdits \in Nat /\ MaxCalls \in Nat /\ MaxTrouble \in Nat

VARIABLES
  kind,     \* the store: a published task history, files tracked in the code
            \* branch, or a Beads database
  remote,   \* the task branch on the selected remote
  local,    \* refs/heads/prime-claw/tasks in the primary checkout
  cache,    \* its remote-tracking ref there
  repo,     \* the clone of each site: whether it is ours, its HEAD, its
            \* remote-tracking ref, and the edit each task file holds
  root,     \* backlog.config.yml of the primary checkout: "none", a "file",
            \* a "link" into the clone, or "gone" between the two
  edits,    \* who made each edit: "tool", "agent" or "host"
  pc,       \* the next step of each invocation
  call,     \* its arguments, what it has read, and how it ended
  claimed,  \* the commits some operation has reported as published
  calm,     \* the processes that prepare and nothing has interfered with
  calls,    \* how many invocations there were
  trouble   \* how many of the bounded events have happened

refs    == <<remote, local, cache>>
store   == <<kind, refs, repo, root, edits>>
bounds  == <<calls, trouble>>
vars    == <<store, pc, call, claimed, calm, bounds>>

NoRef == {}

Commit(t, n) == [task |-> t, n |-> n]
Fresh == Len(edits) + 1

(* The edit whose bytes the file of task t has at history h.                *)
Latest(c, h, t) == c.task = t /\ \A d \in h : d.task = t => d.n <= c.n

Content(h, t) ==
  IF \E c \in h : Latest(c, h, t) THEN (CHOOSE c \in h : Latest(c, h, t)).n ELSE 0

Bytes(h)   == [t \in Tasks |-> Content(h, t)]
CloneOf(h) == [own |-> TRUE, head |-> h, seen |-> h, work |-> Bytes(h)]

(* At the place of the clone there is one, and it is an independent clone of *)
(* the selected remote with the task branch checked out.                    *)
Here(s)        == repo[s] # NoClone
Independent(s) == repo[s].own

Dirty(s) == {t \in Tasks : repo[s].work[t] # Content(repo[s].head, t)}
Clean(s) == Dirty(s) = {}

Base == {Commit(Marker, 1)}
Past == Base \cup {Commit(CHOOSE t \in Selected : TRUE, 2)}
Fork == Base \cup {Commit(CHOOSE t \in Selected : TRUE, 3)}

(* Another host, or an earlier day, has left the remote, the local branch  *)
(* and the clones at histories that agree, lag, lead or diverge.  To bound  *)
(* the start, a clone of another kind comes alone, and a configuration at   *)
(* the root without a clone in a worktree.                                  *)
Init ==
  /\ kind \in Kinds
  /\ edits \in {<<"tool", "host", "host">>, <<"host", "host", "host">>}
  /\ remote \in IF kind = "published" THEN {NoRef, Base, Past} ELSE {Past}
  /\ local \in IF kind # "published" THEN {NoRef}
               ELSE {NoRef, Base} \cup (IF remote = NoRef THEN {} ELSE {Fork})
  /\ cache = NoRef
  /\ repo \in [Sites -> {NoClone, [CloneOf(Base) EXCEPT !.own = FALSE]}
                      \cup {CloneOf(h) : h \in {Base, Past}}]
  /\ \A s \in Worktrees : Here(s) => kind = "published" /\ repo[s].head = Base
  /\ remote = NoRef => ~ Here(Primary)
  /\ kind # "published" => Here(Primary) /\ Independent(Primary)
  /\ root \in {"none", "file", "link"}
  /\ root = "link" => remote # NoRef /\ edits[1] = "tool"
  /\ kind # "published" => root = "none"
  /\ edits[1] = "host" => root = "file"
  /\ root # "none" => \A s \in Worktrees : ~ Here(s)
  /\ \A s \in Sites : Here(s) /\ ~ Independent(s) =>
       root = "none" /\ local = NoRef
  /\ pc = [p \in Procs |-> "idle"]
  /\ call = [p \in Procs |-> [op |-> "none", site |-> Primary,
                              task |-> CHOOSE t \in Selected : TRUE,
                              seen |-> NoRef, head |-> NoRef, edit |-> 0,
                              result |-> "none"]]
  /\ claimed = {} /\ calm = {} /\ calls = 0 /\ trouble = 0

-----------------------------------------------------------------------------
(* A step of p interferes with everybody else.                              *)
Step(p, l) ==
  /\ pc' = [pc EXCEPT ![p] = l] /\ calm' = calm \cap {p}
  /\ UNCHANGED <<kind, bounds>>

Goto(p, l) == Step(p, l) /\ UNCHANGED call

(* The invocation ends with result r, and what it had read is forgotten.    *)
Ended(p, r) == [call EXCEPT ![p].result = r, ![p].seen = NoRef, ![p].head = NoRef, ![p].edit = 0]

Blocked(p) == Step(p, "idle") /\ call' = Ended(p, "blocked") /\ UNCHANGED claimed

(* It reports the history h as published.                                   *)
Report(p, r, h) == Step(p, "idle") /\ call' = Ended(p, r) /\ claimed' = claimed \cup h

(* A native command fails for reasons of its own: the invocation ends.      *)
Trouble == trouble < MaxTrouble /\ trouble' = trouble + 1

Fails(p, r) ==
  /\ Trouble
  /\ pc' = [pc EXCEPT ![p] = "idle"] /\ calm' = {}
  /\ call' = Ended(p, r)
  /\ UNCHANGED <<kind, claimed, calls>>

Same == UNCHANGED <<refs, repo, root, edits>>

(* Mutant: a clone that has more than the fetched branch is refused.        *)
CanForwardOnlyBehind(s, h) ==
  /\ repo[s].head \subseteq h
  /\ \A t \in Dirty(s) : Content(h, t) = Content(repo[s].head, t)

(* git merge --ff-only of history h in a clone.  A clone that has all of h  *)
(* is "already up to date", whatever is uncommitted in it.  Otherwise Git   *)
(* refuses when the clone has other commits, or changes in a file that h    *)
(* changes too.                                                             *)
CanForward(s, h) ==
  \/ h \subseteq repo[s].head
  \/ /\ repo[s].head \subseteq h
     /\ \A t \in Dirty(s) : Content(h, t) = Content(repo[s].head, t)

(* Mutant: the working tree is reset to the fetched history.                *)
ForwardReset(s, h) ==
  repo' = [repo EXCEPT ![s].head = h, ![s].work = Bytes(h)]

(* The later of the two histories becomes HEAD; changes are kept.           *)
Forward(s, h) ==
  LET head == repo[s].head \cup h
  IN repo' = [repo EXCEPT ![s].head = head,
                ![s].work = [t \in Tasks |->
                               IF t \in Dirty(s) THEN @[t] ELSE Content(head, t)]]

(* An invocation: what it is asked, on which clone.                         *)
Begin(p) ==
  /\ pc[p] = "idle" /\ calls < MaxCalls
  /\ \E op \in IF kind = "published" THEN {"prepare", "episode", "inspect", "publish"}
               ELSE {"publish"},
        s \in Sites, t \in Selected :
       /\ op \in {"prepare", "inspect"} => s = Primary
       /\ op = "episode" => s \in Worktrees
       /\ kind # "published" => s = Primary
       /\ pc' = [pc EXCEPT ![p] = CASE op = "prepare" -> "probe"
                                    [] op = "episode" -> "locate"
                                    [] op = "inspect" -> "clean"
                                    [] OTHER          -> "base"]
       /\ call' = [call EXCEPT ![p] = [op |-> op, site |-> s, task |-> t, seen |-> NoRef,
                                       head |-> NoRef, edit |-> 0, result |-> "none"]]
       /\ calm' = IF op \in {"prepare", "episode"} THEN calm \cup {p} ELSE calm \ {p}
  /\ calls' = calls + 1
  /\ UNCHANGED <<store, claimed, trouble>>

-----------------------------------------------------------------------------
(* prepareTaskHistoryWorkspace.  Of the checks before any command, all but  *)
(* this one are about the shape of the project, which is fixed here: the    *)
(* root configuration is not a link to nothing.                             *)
Startable == root = "link" => Here(Primary)

(* ensureTaskHistoryBranch: the remote is asked directly, then fetched, and *)
(* both answers must agree.                                                 *)
Probe(p) ==
  /\ pc[p] = "probe"
  /\ IF Startable
     THEN /\ Step(p, IF remote = NoRef THEN "absent" ELSE "refresh")
          /\ call' = [call EXCEPT ![p].seen = remote]
          /\ UNCHANGED claimed
     ELSE Blocked(p)
  /\ Same

Absent(p) ==
  /\ pc[p] = "absent"
  /\ cache' = NoRef
  /\ IF local = NoRef THEN Goto(p, "bootstrap") /\ UNCHANGED claimed ELSE Blocked(p)
  /\ UNCHANGED <<remote, local, repo, root, edits>>

Refresh(p) ==
  /\ pc[p] = "refresh"
  /\ cache' = remote
  /\ IF remote = call[p].seen THEN Goto(p, "local") /\ UNCHANGED claimed ELSE Blocked(p)
  /\ UNCHANGED <<remote, local, repo, root, edits>>

Behind(p) == local \subseteq call[p].seen

(* The local branch is created, left alone, or to be advanced.              *)
Local(p) ==
  /\ pc[p] = "local"
  /\ \/ /\ local = NoRef
        /\ local' = cache
        /\ IF cache = call[p].seen THEN Goto(p, "clone") /\ UNCHANGED claimed
           ELSE Blocked(p)
     \/ /\ local = call[p].seen
        /\ Goto(p, "clone") /\ UNCHANGED <<local, claimed>>
     \/ /\ local \notin {NoRef, call[p].seen}
        /\ IF Behind(p)
           THEN Step(p, "advance") /\ call' = [call EXCEPT ![p].head = local] /\ UNCHANGED claimed
           ELSE Blocked(p)
        /\ UNCHANGED local
  /\ UNCHANGED <<remote, cache, repo, root, edits>>

(* git update-ref with the old value: a compare and swap.                   *)
Advance(p) ==
  /\ pc[p] = "advance"
  /\ IF local = call[p].head
     THEN local' = call[p].seen /\ Goto(p, "clone") /\ UNCHANGED claimed
     ELSE UNCHANGED local /\ Blocked(p)
  /\ UNCHANGED <<remote, cache, repo, root, edits>>

(* A disconnected first commit, pushed without force.                       *)
Bootstrap(p) ==
  /\ pc[p] = "bootstrap" /\ Len(edits) < MaxEdits
  /\ IF remote = NoRef
     THEN /\ remote' = {Commit(Marker, Fresh)} /\ edits' = Append(edits, "tool")
          /\ \/ Goto(p, "refetch") /\ UNCHANGED <<claimed, bounds>>
             \/ Fails(p, "blocked")
     ELSE UNCHANGED <<remote, edits>> /\ Blocked(p)
  /\ UNCHANGED <<local, cache, repo, root>>

(* What was pushed is read back; the local branch must still be absent.     *)
Refetch(p) ==
  /\ pc[p] = "refetch"
  /\ cache' = remote
  /\ IF local = NoRef
     THEN /\ local' = remote
          /\ Step(p, "clone") /\ call' = [call EXCEPT ![p].seen = remote]
          /\ UNCHANGED claimed
     ELSE UNCHANGED local /\ Blocked(p)
  /\ UNCHANGED <<remote, repo, root, edits>>

(* The primary clone is made, or refreshed.                                 *)
Clone(p) ==
  /\ pc[p] = "clone"
  /\ \/ /\ Here(Primary) /\ ~ Independent(Primary)
        /\ Blocked(p) /\ UNCHANGED repo
     \/ /\ Here(Primary) /\ Independent(Primary)
        /\ repo' = [repo EXCEPT ![Primary].seen = remote]
        /\ Step(p, "compare") /\ call' = [call EXCEPT ![p].head = remote]
        /\ UNCHANGED claimed
     \/ /\ ~ Here(Primary)
        /\ repo' = [repo EXCEPT ![Primary] = CloneOf(remote)]
        /\ IF remote = call[p].seen THEN Goto(p, "proof") /\ UNCHANGED claimed ELSE Blocked(p)
  /\ UNCHANGED <<refs, root, edits>>

(* Only a clean ancestor of the fetched branch goes on.                     *)
Compare(p) ==
  /\ pc[p] = "compare"
  /\ LET head == repo[Primary].head
     IN IF head = call[p].head
        THEN IF head = call[p].seen THEN Goto(p, "proof") /\ UNCHANGED claimed ELSE Blocked(p)
        ELSE IF Clean(Primary) /\ head \subseteq call[p].head
             THEN Goto(p, "merge") /\ UNCHANGED claimed ELSE Blocked(p)
  /\ Same

(* git merge --ff-only of whatever the tracking ref is by now; HEAD is then *)
(* read and compared.                                                       *)
Merge(p) ==
  /\ pc[p] = "merge"
  /\ LET target == repo[Primary].seen
         head   == repo[Primary].head \cup target
     IN IF CanForward(Primary, target)
        THEN /\ Forward(Primary, target)
             /\ IF head = call[p].head /\ head = call[p].seen
                THEN Goto(p, "proof") /\ UNCHANGED claimed ELSE Blocked(p)
        ELSE UNCHANGED repo /\ Blocked(p)
  /\ UNCHANGED <<refs, root, edits>>

AtPublished(p) == Clean(Primary) /\ repo[Primary].head = call[p].seen

(* Mutant: the published configuration is not compared.                     *)
ConfigUncompared == TRUE

(* The published configuration holds the bytes of the root file.            *)
ConfigKept == \E c \in repo[Primary].head : c.task = Marker /\ edits[c.n] = "tool"

(* The last proofs: configuration, cleanliness and HEAD.  A configuration   *)
(* file at the root is then replaced by a link.                             *)
Proof(p) ==
  /\ pc[p] = "proof"
  /\ IF (root = "file" => ConfigKept) /\ AtPublished(p)
     THEN IF root = "file" THEN Goto(p, "unlink") /\ UNCHANGED claimed
          ELSE Report(p, "prepared", call[p].seen)
     ELSE Blocked(p)
  /\ Same

Unlink(p) ==
  /\ pc[p] = "unlink"
  /\ \/ root = "file" /\ root' = "gone" /\ Goto(p, "link") /\ UNCHANGED claimed
     \/ root = "link" /\ Goto(p, "recheck") /\ UNCHANGED <<root, claimed>>
     \/ root = "gone" /\ Blocked(p) /\ UNCHANGED root
  /\ UNCHANGED <<refs, repo, edits>>

Link(p) ==
  /\ pc[p] = "link"
  /\ IF root = "gone" THEN root' = "link" /\ Goto(p, "reprove") /\ UNCHANGED claimed
     ELSE UNCHANGED root /\ Blocked(p)
  /\ UNCHANGED <<refs, repo, edits>>

(* The proofs again; the one who replaced the file puts it back.            *)
Reprove(p) ==
  /\ pc[p] \in {"reprove", "recheck"}
  /\ IF AtPublished(p) THEN UNCHANGED root /\ Report(p, "prepared", call[p].seen)
     ELSE /\ root' = IF pc[p] = "reprove" THEN "file" ELSE root
          /\ Blocked(p)
  /\ UNCHANGED <<refs, repo, edits>>

-----------------------------------------------------------------------------
(* inspectPrimaryTaskLocation: the root configuration is not a file of its  *)
(* own, nor a link to nothing.                                              *)
LocationKnown == root # "file" /\ Startable

(* prepareEpisodeTaskHistoryWorkspace: a worktree's clone is made, or       *)
(* fetched and fast-forwarded if Git can.                                   *)
Locate(p) ==
  /\ pc[p] = "locate"
  /\ IF LocationKnown THEN Goto(p, "fetch") /\ UNCHANGED claimed ELSE Blocked(p)
  /\ Same

FetchClone(p) ==
  /\ pc[p] = "fetch"
  /\ LET s == call[p].site
     IN IF remote = NoRef \/ (Here(s) /\ ~ Independent(s))
        THEN UNCHANGED repo /\ Blocked(p)
        ELSE IF Here(s)
        THEN repo' = [repo EXCEPT ![s].seen = remote] /\ Goto(p, "forward") /\ UNCHANGED claimed
        ELSE repo' = [repo EXCEPT ![s] = CloneOf(remote)] /\ Goto(p, "read") /\ UNCHANGED claimed
  /\ UNCHANGED <<refs, root, edits>>

ForwardClone(p) ==
  /\ pc[p] = "forward"
  /\ LET s == call[p].site
     IN IF CanForward(s, repo[s].seen)
        THEN Forward(s, repo[s].seen) /\ Goto(p, "read") /\ UNCHANGED claimed
        ELSE UNCHANGED repo /\ Blocked(p)
  /\ UNCHANGED <<refs, root, edits>>

(* It returns the clone's HEAD, and claims nothing about the remote.        *)
ReadHead(p) ==
  /\ pc[p] = "read"
  /\ Step(p, "idle") /\ call' = Ended(p, "head")
  /\ UNCHANGED claimed /\ Same

-----------------------------------------------------------------------------
(* inspectPublishedPrimaryTaskHistory: clean, at the remote's head, twice.  *)
Located(s) == LocationKnown /\ Here(s) /\ Independent(s)

InspectClean(p) ==
  /\ pc[p] = "clean"
  /\ IF Located(Primary) /\ Clean(Primary) THEN Goto(p, "before") /\ UNCHANGED claimed
     ELSE Blocked(p)
  /\ Same

InspectBefore(p) ==
  /\ pc[p] = "before"
  /\ IF remote # NoRef /\ remote = repo[Primary].head
     THEN Step(p, "after") /\ call' = [call EXCEPT ![p].seen = remote] /\ UNCHANGED claimed
     ELSE Blocked(p)
  /\ Same

InspectAfter(p) ==
  /\ pc[p] = "after"
  /\ IF remote = call[p].seen THEN Report(p, "ready", call[p].seen) ELSE Blocked(p)
  /\ Same

-----------------------------------------------------------------------------
(* publishTaskHistoryMutation and the rest of commitConversationTaskStatus: *)
(* the clone, and the task as it is; a Beads database is pulled first.      *)
PublishBase(p) ==
  /\ pc[p] = "base"
  /\ IF kind = "published" => Located(call[p].site)
     THEN /\ Step(p, IF kind = "beads" THEN "pull" ELSE "edit")
          /\ call' = [call EXCEPT ![p].seen = repo[call[p].site].head]
          /\ UNCHANGED claimed
     ELSE Blocked(p)
  /\ Same

(* bd dolt pull: histories that changed one task apart do not merge.        *)
Pull(p) ==
  /\ pc[p] = "pull"
  /\ LET head == repo[Primary].head
         both == {c.task : c \in head \ remote} \cap {c.task : c \in remote \ head}
     IN IF both = {}
        THEN repo' = [repo EXCEPT ![Primary] = CloneOf(head \cup remote)]
             /\ Goto(p, "edit") /\ UNCHANGED claimed
        ELSE UNCHANGED repo /\ Blocked(p)
  /\ UNCHANGED <<refs, root, edits>>

(* The native edit of the selected task, which may find nothing to change   *)
(* and may fail half-way.  The ordinary store is read back at once; a Beads *)
(* update commits by itself.                                                *)
Edit(p) ==
  LET s == call[p].site
      t == call[p].task
  IN
  /\ pc[p] = "edit"
  /\ \/ /\ Len(edits) < MaxEdits /\ edits' = Append(edits, "tool")
        /\ repo' = IF kind = "beads"
                   THEN [repo EXCEPT ![s] = CloneOf(@.head \cup {Commit(t, Fresh)})]
                   ELSE [repo EXCEPT ![s].work[t] = Fresh]
        /\ \/ /\ Step(p, IF kind = "beads" THEN "head" ELSE "commit")
              /\ call' = [call EXCEPT ![p].edit = Fresh]
              /\ UNCHANGED <<claimed, bounds>>
           \/ Fails(p, "blocked")
     \/ /\ Step(p, IF kind = "beads" THEN "head" ELSE "commit")
        /\ call' = [call EXCEPT ![p].edit = repo[s].work[t]]
        /\ UNCHANGED <<repo, edits, claimed>>
  /\ UNCHANGED <<refs, root>>

(* Mutant: everything that was changed is committed.                        *)
CommittedTasks(s, t) == Dirty(s)

(* git commit --only: the working tree's bytes of this task file and of no  *)
(* other.                                                                   *)
OnlyTask(s, t) == {t} \cap Dirty(s)

(* With nothing to commit, only the published store goes on.                *)
CommitOnly(p) ==
  LET s  == call[p].site
      ts == OnlyTask(s, call[p].task)
  IN
  /\ pc[p] = "commit"
  /\ IF ts # {}
     THEN /\ repo' = [repo EXCEPT ![s].head = @ \cup {Commit(t, repo[s].work[t]) : t \in ts}]
          /\ Step(p, "head")
          /\ call' = [call EXCEPT ![p].head = repo'[s].head] /\ UNCHANGED claimed
     ELSE /\ UNCHANGED repo
          /\ IF kind = "published" THEN Goto(p, "head") /\ UNCHANGED claimed ELSE Blocked(p)
  /\ UNCHANGED <<refs, root, edits>>

(* Mutant: the head from before the edit is taken.                          *)
HeadBefore(p) == call[p].seen

HeadAfter(p) == repo[call[p].site].head

(* HEAD as it is now, which may have commits of other sessions on top; the  *)
(* ordinary store refuses those of another task.                            *)
CommittedHead(p) ==
  /\ pc[p] = "head"
  /\ LET head == HeadAfter(p)
     IN IF kind = "tracked" /\ \E c \in head \ call[p].head : c.task # call[p].task
        THEN Blocked(p)
        ELSE /\ Step(p, "push") /\ call' = [call EXCEPT ![p].head = head]
             /\ UNCHANGED claimed
  /\ Same

(* What is pushed: the committed head, or the branch as it is by then.      *)
Pushed(p) == IF kind = "published" THEN call[p].head ELSE repo[Primary].head

(* Mutant: the push is forced.                                              *)
Forced(p) == TRUE

Accepted(p) == remote \subseteq Pushed(p)

(* One push without force.  A rejection ends the published and the Beads    *)
(* edit; for the ordinary store it is only a note in the result.            *)
Push(p) ==
  /\ pc[p] = "push"
  /\ IF Accepted(p)
     THEN /\ remote' = Pushed(p)
          /\ \/ /\ Step(p, "reread") /\ UNCHANGED <<call, bounds>>
                /\ claimed' = claimed \cup call[p].head
             \/ Fails(p, "blocked")
     ELSE UNCHANGED remote /\ Blocked(p)
  /\ UNCHANGED <<local, cache, repo, root, edits>>

(* The Conversation reads its task again: another edit may have changed the *)
(* status once more.                                                        *)
Reread(p) ==
  /\ pc[p] = "reread"
  /\ \/ Step(p, "idle") /\ call' = [call EXCEPT ![p].result = "published"] /\ UNCHANGED claimed
     \/ repo[call[p].site].work[call[p].task] # call[p].edit /\ Blocked(p)
  /\ Same

-----------------------------------------------------------------------------
(* A command fails without an effect, or the process dies.                  *)
Interrupted(p) == pc[p] # "idle" /\ Fails(p, "failed") /\ Same

(* An agent edits a task file and leaves it uncommitted.                    *)
Draft(s, t) ==
  /\ kind # "beads" /\ Here(s) /\ Len(edits) < MaxEdits
  /\ edits' = Append(edits, "agent")
  /\ repo' = [repo EXCEPT ![s].work[t] = Fresh]
  /\ calm' = {}
  /\ UNCHANGED <<kind, refs, root, pc, call, claimed, bounds>>

(* Another host publishes a task, or the first commit with another          *)
(* configuration.                                                           *)
HostPublishes(t) ==
  /\ Len(edits) < MaxEdits /\ Trouble
  /\ edits' = Append(edits, "host")
  /\ remote' = IF remote = NoRef THEN {Commit(Marker, Fresh)}
               ELSE remote \cup {Commit(t, Fresh)}
  /\ calm' = {}
  /\ UNCHANGED <<kind, local, cache, repo, root, pc, call, claimed, calls>>

PrepareStep(p) ==
  \/ Probe(p) \/ Absent(p) \/ Refresh(p) \/ Local(p) \/ Advance(p) \/ Bootstrap(p)
  \/ Refetch(p) \/ Clone(p) \/ Compare(p) \/ Merge(p) \/ Proof(p) \/ Unlink(p)
  \/ Link(p) \/ Reprove(p)

EpisodeStep(p) == Locate(p) \/ FetchClone(p) \/ ForwardClone(p) \/ ReadHead(p)

InspectStep(p) == InspectClean(p) \/ InspectBefore(p) \/ InspectAfter(p)

PublishStep(p) ==
  \/ PublishBase(p) \/ Pull(p) \/ Edit(p) \/ CommitOnly(p) \/ CommittedHead(p)
  \/ Push(p) \/ Reread(p)

Next ==
  \/ \E p \in Procs : \/ Begin(p) \/ PrepareStep(p) \/ EpisodeStep(p)
                      \/ InspectStep(p) \/ PublishStep(p) \/ Interrupted(p)
  \/ \E s \in Sites, t \in Tasks : Draft(s, t)
  \/ \E t \in Tasks : HostPublishes(t)

Spec == Init /\ [][Next]_vars

-----------------------------------------------------------------------------
(* Every variable has its type; the tool's numbers are numbers of edits.    *)
Invocation ==
  [op : {"none", "prepare", "episode", "inspect", "publish"}, site : Sites, task : Tasks,
   seen : Histories, head : Histories, edit : Nat,
   result : {"none", "blocked", "prepared", "ready", "head", "published", "failed"}]

TypeOK ==
  /\ kind \in Kinds
  /\ remote \in Histories /\ local \in Histories /\ cache \in Histories
  /\ repo \in [Sites -> {NoClone} \cup CloneRecord]
  /\ root \in {"none", "file", "link", "gone"}
  /\ edits \in Seq({"tool", "agent", "host"})
  /\ DOMAIN pc = Procs /\ call \in [Procs -> Invocation]
  /\ claimed \in Histories /\ calm \subseteq Procs
  /\ calls \in Nat /\ trouble \in Nat

(* The published history only grows, and everything an operation reports as *)
(* published (prepared, ready, published, pushed) is in it for good,        *)
(* whichever session, host or failure comes between its commands.           *)
TaskLog == INSTANCE TaskLog WITH published <- remote

ImplementsTaskLog == TaskLog!Spec

(* Local work is never lost: no operation takes a commit from a clone or    *)
(* from the local branch, or changes uncommitted bytes of a task file other *)
(* than by a new edit of that file.                                         *)
LocalWorkKept ==
  [][/\ local \subseteq local'
     /\ \A s \in Sites : Here(s) =>
          /\ Here(s)' /\ repo[s].head \subseteq repo'[s].head
          /\ \A t \in Dirty(s) : repo'[s].work[t] \in {repo[s].work[t], Fresh}]_vars

(* What an agent wrote in a task nobody asked to publish stays uncommitted, *)
(* although the clone it is in commits and pushes other tasks.              *)
DraftsStayLocal ==
  \A s \in Sites : Here(s) =>
    \A c \in repo[s].head : edits[c.n] = "agent" => c.task \in Selected

(* An edit reported as published is in the published history, itself or     *)
(* under a later edit of the same task made in the same clone.              *)
EditPublished ==
  \A p \in Procs : call[p].op = "publish" /\ call[p].result = "published" =>
    call[p].head \subseteq remote /\ call[p].edit <= Content(call[p].head, call[p].task)

(* A root configuration that was replaced by a link is on the published     *)
(* branch, also when the process died before the link was made.             *)
RelocatedConfigPublished ==
  root \in {"link", "gone"} =>
    \E c \in remote : c.task = Marker /\ edits[c.n] = "tool"

(* A preparation nobody interfered with succeeds unless local work is in    *)
(* its way: a remote that merely advanced does not block it.  Nor does, in  *)
(* an Episode's clone, an unpublished commit on top of all that was         *)
(* published, as a failed push leaves it, or a change in another task.      *)
Preparable ==
  IF remote = NoRef THEN local = NoRef
  ELSE /\ local \subseteq remote
       /\ Here(Primary) => /\ Independent(Primary) /\ Clean(Primary)
                           /\ repo[Primary].head \subseteq remote
       /\ Startable
       /\ root = "file" => \E c \in remote : c.task = Marker /\ edits[c.n] = "tool"

InTheWay(s) ==
  /\ ~ (remote \subseteq repo[s].head)
  /\ \/ \E c \in repo[s].head : c \notin remote
     \/ \E t \in Tasks : /\ repo[s].work[t] # Content(repo[s].head, t)
                        /\ Content(remote, t) # Content(repo[s].head, t)

CalmPrepared ==
  \A p \in calm : call[p].result = "blocked" =>
    /\ call[p].op = "prepare" => ~ Preparable
    /\ call[p].op = "episode" =>
         \/ remote = NoRef \/ ~ LocationKnown
         \/ /\ Here(call[p].site)
            /\ ~ Independent(call[p].site) \/ InTheWay(call[p].site)

=============================================================================
