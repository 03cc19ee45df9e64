------------------------ MODULE EpisodeCleanupProofs ------------------------
(***************************************************************************)
(* Proofs about the removal of a finished task Episode, for any sessions,  *)
(* any tree of descendants, any commits and any number of interruptions.   *)
(***************************************************************************)
EXTENDS EpisodeCleanup, TLAPS

(* The Episode's own session is removed; it cannot come back.               *)
Rootless == session[Root] = "none"

(* No session runs in the worktree, and none can be opened without it.      *)
Dead    == \A s \in Sessions \ Elsewhere : ~IsLive(s)
Dormant == worktree = "absent" => Dead

(* What a snapshot says is missing is missing for good: nothing recreates a *)
(* worktree or a deleted branch.                                            *)
SnapshotTrue ==
  pc \notin {"idle", "git"} =>
    /\ "worktree" \notin snap.present => worktree = "absent"
    /\ "branch" \notin snap.present => branch = Absent

(* A listed tree without the root means that the root is gone.              *)
TreeTrue ==
  /\ pc \in {"states", "plan", "next"} => (tree[Root] = "none" <=> Rootless)
  /\ pc = "states" /\ tree[Root] = "none" => Dormant
  /\ pc \in {"check", "kill", "delete"} => ~Rootless

RuntimeTrue ==
  pc \in {"remote", "inspected", "clone", "release"} /\ "runtime" \notin snap.present =>
    Rootless /\ Dormant

(* A ref that the snapshot misses can only be pushed again from a worktree, *)
(* and without the root only by a descendant that escaped.                  *)
UpstreamTrue ==
  pc \in {"inspected", "clone", "release"} /\ "upstream" \notin snap.present =>
    /\ "worktree" \notin snap.present => upstream = Absent
    /\ "runtime" \notin snap.present => upstream = Absent \/ Escaped

(* What the steps of a removal have behind them.                            *)
Purposes ==
  /\ why # "first" \/ pc \in {"plan", "next", "after", "check", "kill", "delete",
                             "force", "ref"} => stage \in 1..4
  /\ why = "nested" => worktree = "absent"
  /\ stage > 0 => clone = "absent" \/ worktree = "absent"

Forcing ==
  pc = "force" =>
    /\ engine = "orca" /\ Rootless
    /\ Escaped \/ (branch = Expected /\ worktree = "clean" /\ clone = "absent"
                   /\ upstream = Absent)

Ending ==
  /\ pc = "ref" => Rootless /\ worktree = "absent" /\ upstream = Absent
  /\ pc = "clone" => "worktree" \in snap.present
  /\ pc = "release" => snap.present = {}

(* The local branch and its configuration go last.                          *)
Identified ==
  branch = Absent \/ ~config =>
    Rootless /\ worktree = "absent" /\ (upstream = Absent \/ Forced)

Facts ==
  /\ SnapshotTrue /\ TreeTrue /\ RuntimeTrue /\ UpstreamTrue
  /\ Purposes /\ Forcing /\ Ending /\ Identified

CleanupInv == TypeOK /\ Facts

-----------------------------------------------------------------------------
(* Types.                                                                   *)

Resources ==
  /\ engine \in {"local", "orca"}
  /\ session \in [Sessions -> {"none", "saved", "idle", "busy"}]
  /\ worktree \in {"absent", "clean", "dirty"}
  /\ clone \in {"absent", "clean", "dirty"}
  /\ branch \in Heads \cup {Absent} /\ upstream \in Heads \cup {Absent}
  /\ config \in BOOLEAN /\ owned \in BOOLEAN

Labels ==
  {"idle", "git", "list", "states", "remote", "inspected", "clone", "plan", "next",
   "after", "check", "kill", "delete", "force", "ref", "release"}
Snaps == [present : SUBSET {"runtime", "upstream", "worktree", "branch"},
          idle : BOOLEAN, clean : BOOLEAN]

Invocation ==
  /\ pc \in Labels /\ why \in Inspections \cup Readings
  /\ memo \in BOOLEAN /\ stage \in 0..4
  /\ snap \in Snaps /\ tree \in [Sessions -> {"none", "saved", "live"}]
  /\ todo \subseteq Sessions /\ target \in Sessions

LEMMA Types == TypeOK <=> Resources /\ Invocation /\ trouble \in 0..MaxTrouble
BY DEF TypeOK, Resources, Invocation, Labels, Snaps

LEMMA MinIn ==
  ASSUME NEW S \in SUBSET (1..4), S # {}
  PROVE  Min(S) \in S
<1>1. \E x \in S : \A y \in S : x <= y
  <2>1. CASE 1 \in S
    BY <2>1
  <2>2. CASE 1 \notin S /\ 2 \in S
    BY <2>2
  <2>3. CASE 1 \notin S /\ 2 \notin S /\ 3 \in S
    BY <2>3
  <2>4. CASE 1 \notin S /\ 2 \notin S /\ 3 \notin S
    <3>1. \A x \in S : x = 4
      BY <2>4
    <3>2. PICK x \in S : x = 4
      BY <3>1
    <3> QED BY <3>1, <3>2
  <2> QED BY <2>1, <2>2, <2>3, <2>4
<1> QED BY <1>1 DEF Min

LEMMA EndTypes == End => Invocation'
<1>1. NoSnap \in Snaps /\ NoTree \in [Sessions -> {"none", "saved", "live"}]
  BY DEF NoSnap, NoTree, Snaps
<1> SUFFICES ASSUME End PROVE Invocation'
  OBVIOUS
<1>2. pc' \in Labels /\ why' \in Inspections \cup Readings
  BY DEF End, Labels, Inspections
<1>3. memo' \in BOOLEAN
  BY DEF End
<1>4. stage' \in 0..4 /\ todo' \subseteq Sessions /\ target' \in Sessions
  BY CleanupAssumption DEF End
<1>5. snap' \in Snaps /\ tree' \in [Sessions -> {"none", "saved", "live"}]
  BY <1>1 DEF End
<1> QED BY <1>2, <1>3, <1>4, <1>5 DEF Invocation

LEMMA ProceedTypes ==
  ASSUME Invocation, NEW i \in 0..4, Proceed(i)
  PROVE  Invocation'
<1> DEFINE rest == {n \in (i + 1)..4 : Order[n] \in snap.present}
<1>1. CASE /\ rest # {} /\ stage' = Min(rest) /\ Inspect("before")
           /\ UNCHANGED <<memo, snap, tree, todo, target>>
  <2>1. rest \in SUBSET (1..4)
    OBVIOUS
  <2>2. Min(rest) \in 0..4
    <3> HIDE DEF rest
    <3>1. \A n \in rest : n \in 0..4
      BY <2>1
    <3>2. Min(rest) \in rest
      BY <1>1, <2>1, MinIn
    <3> QED BY <3>1, <3>2, Zenon
  <2> HIDE DEF rest
  <2> QED BY <1>1, <2>2 DEF Inspect, Invocation, Labels, Inspections
<1>2. CASE Goto("release") /\ UNCHANGED <<why, work>>
  BY <1>2 DEF Goto, work, Invocation, Labels
<1>3. CASE End
  BY <1>3, EndTypes
<1> QED BY <1>1, <1>2, <1>3 DEF Proceed

LEMMA TypeInit == Init => TypeOK
<1> SUFFICES ASSUME Init PROVE TypeOK
  OBVIOUS
<1>1. NoSnap \in Snaps /\ NoTree \in [Sessions -> {"none", "saved", "live"}]
  BY DEF NoSnap, NoTree, Snaps
<1>2. Resources
  BY CleanupAssumption DEF Init, Resources
<1>3. Invocation
  <2>1. pc \in Labels /\ why \in Inspections \cup Readings
    BY DEF Init, Labels, Inspections
  <2>2. memo \in BOOLEAN
    BY DEF Init
  <2>3. stage \in 0..4 /\ todo \subseteq Sessions /\ target \in Sessions
    BY CleanupAssumption DEF Init
  <2>4. snap \in Snaps /\ tree \in [Sessions -> {"none", "saved", "live"}]
    BY <1>1 DEF Init
  <2> QED BY <2>1, <2>2, <2>3, <2>4 DEF Invocation
<1>4. trouble \in 0..MaxTrouble
  BY CleanupAssumption DEF Init
<1> QED BY <1>2, <1>3, <1>4, Types

(* The steps of the invocation keep the types of its locals.                *)
LEMMA LookTypes ==
  ASSUME Resources, Invocation
  PROVE  /\ Begin => Invocation'
         /\ ReadGit => Invocation'
         /\ ListSessions => Invocation'
         /\ ReadStates => Invocation'
         /\ ReadRemote => Invocation'
         /\ InspectClone => Invocation'
         /\ Refuse => Invocation'
         /\ Verify => Invocation'
         /\ BeginRuntime => Invocation'
         /\ Plan => Invocation'
         /\ NextSession => Invocation'
         /\ CheckSession => Invocation'
         /\ RuntimeRemoved => Invocation'
         /\ CheckOrca => Invocation'
         /\ Recheck => Invocation'
         /\ RemoveUpstreamFirst => Invocation'
<1>1. ASSUME Begin PROVE Invocation'
  BY <1>1, EndTypes, ProceedTypes DEF Begin, Inspected, Removing, Throw, Goto,
     Inspect, ReadTree, work, Invocation, Labels, Inspections, Readings
<1>2. ASSUME ReadGit PROVE Invocation'
  <2>1. CASE Throw
    BY <2>1, EndTypes DEF Throw
  <2>2. CASE ~Throw
    <3>1. snap' \in Snaps
      <4> DEFINE found == {r \in {"worktree", "branch"} :
                             \/ r = "worktree" /\ worktree # "absent"
                             \/ r = "branch" /\ branch # Absent}
      <4>1. snap' = [present |-> found, idle |-> TRUE, clean |-> TRUE]
        BY <1>2, <2>2 DEF ReadGit
      <4>2. found \in SUBSET {"runtime", "upstream", "worktree", "branch"}
        OBVIOUS
      <4> HIDE DEF found
      <4> QED BY <4>1, <4>2 DEF Snaps
    <3>2. pc' = "list" /\ UNCHANGED <<why, stage, memo, tree, todo, target>>
      BY <1>2, <2>2 DEF ReadGit, Goto
    <3> QED BY <3>1, <3>2 DEF Invocation, Labels
  <2> QED BY <2>1, <2>2
<1>3. ASSUME ListSessions PROVE Invocation'
  <2>1. CASE Throw
    BY <2>1, EndTypes DEF Throw
  <2>2. CASE ~Throw
    <3>1. tree' = [s \in Sessions |-> IF IsLive(s) THEN "live" ELSE session[s]]
      BY <1>3, <2>2 DEF ListSessions
    <3>2. tree' \in [Sessions -> {"none", "saved", "live"}]
      BY <3>1 DEF Resources, IsLive
    <3>3. pc' = "states" /\ UNCHANGED <<why, stage, memo, snap, todo, target>>
      BY <1>3, <2>2 DEF ListSessions, Goto
    <3> QED BY <3>2, <3>3 DEF Invocation, Labels
  <2> QED BY <2>1, <2>2
<1>4. ASSUME ReadStates PROVE Invocation'
  <2>1. CASE Throw
    BY <2>1, EndTypes DEF Throw
  <2>2. CASE ~Throw
    <3> DEFINE calm == \A s \in Nodes : tree[s] = "live" => session[s] = "idle"
               found == IF Nodes = {} THEN snap.present ELSE snap.present \cup {"runtime"}
    <3>1. snap' = [snap EXCEPT !.present = found, !.idle = calm]
      BY <1>4, <2>2 DEF ReadStates
    <3>2. calm \in BOOLEAN /\ found \in SUBSET {"runtime", "upstream", "worktree", "branch"}
      BY DEF Invocation, Snaps
    <3>3. snap' \in Snaps
      <4> HIDE DEF calm, found
      <4> QED BY <3>1, <3>2 DEF Invocation, Snaps
    <3>4. /\ pc' = (IF why \in Inspections THEN "remote" ELSE why)
          /\ UNCHANGED <<why, stage, memo, tree, todo, target>>
      BY <1>4, <2>2 DEF ReadStates, Goto
    <3>5. pc' \in Labels
      BY <3>4 DEF Invocation, Labels, Readings
    <3> QED BY <3>3, <3>4, <3>5 DEF Invocation
  <2> QED BY <2>1, <2>2
<1>5. ASSUME ReadRemote PROVE Invocation'
  <2>1. CASE Throw
    BY <2>1, EndTypes DEF Throw
  <2>2. CASE ~Throw
    <3>1. snap' \in Snaps
      <4> DEFINE found == IF upstream = Absent THEN snap.present
                          ELSE snap.present \cup {"upstream"}
                 clean == worktree # "dirty"
      <4>1. snap' = [snap EXCEPT !.present = found, !.clean = clean]
        BY <1>5, <2>2 DEF ReadRemote
      <4>2. found \in SUBSET {"runtime", "upstream", "worktree", "branch"} /\ clean \in BOOLEAN
        BY DEF Invocation, Snaps
      <4> HIDE DEF found, clean
      <4> QED BY <4>1, <4>2 DEF Invocation, Snaps
    <3>2. pc' = "inspected" /\ memo' = TRUE /\ UNCHANGED <<why, stage, tree, todo, target>>
      BY <1>5, <2>2 DEF ReadRemote, Goto
    <3>3. memo' \in BOOLEAN
      BY <3>2
    <3> QED BY <3>1, <3>2, <3>3 DEF Invocation, Labels
  <2> QED BY <2>1, <2>2
<1>6. ASSUME InspectClone PROVE Invocation'
  BY <1>6, EndTypes, ProceedTypes DEF InspectClone, Inspected, Removing, Throw, Goto,
     Inspect, ReadTree, work, Invocation, Labels, Inspections, Readings
<1>7. ASSUME Refuse PROVE Invocation'
  BY <1>7, EndTypes, ProceedTypes DEF Refuse, Inspected, Removing, Throw, Goto,
     Inspect, ReadTree, work, Invocation, Labels, Inspections, Readings
<1>8. ASSUME Verify PROVE Invocation'
  BY <1>8, EndTypes, ProceedTypes DEF Verify, Inspected, Removing, Throw, Goto,
     Inspect, ReadTree, work, Invocation, Labels, Inspections, Readings
<1>9. ASSUME BeginRuntime PROVE Invocation'
  BY <1>9, EndTypes, ProceedTypes DEF BeginRuntime, Inspected, Removing, Throw, Goto,
     Inspect, ReadTree, work, Invocation, Labels, Inspections, Readings
<1>10. ASSUME Plan PROVE Invocation'
  BY <1>10, EndTypes, ProceedTypes DEF Plan, Nodes, Connected, Inspected, Removing, Throw, Goto,
     Inspect, ReadTree, work, Invocation, Labels, Inspections, Readings
<1>11. ASSUME NextSession PROVE Invocation'
  BY <1>11, EndTypes, ProceedTypes DEF NextSession, Remove, Nodes, Connected, Inspected, Removing, Throw, Goto,
     Inspect, ReadTree, work, Invocation, Labels, Inspections, Readings
<1>12. ASSUME CheckSession PROVE Invocation'
  BY <1>12, EndTypes, ProceedTypes DEF CheckSession, Inspected, Removing, Throw, Goto,
     Inspect, ReadTree, work, Invocation, Labels, Inspections, Readings
<1>13. ASSUME RuntimeRemoved PROVE Invocation'
  BY <1>13, EndTypes, ProceedTypes DEF RuntimeRemoved, Inspected, Removing, Throw, Goto,
     Inspect, ReadTree, work, Invocation, Labels, Inspections, Readings
<1>14. ASSUME CheckOrca PROVE Invocation'
  BY <1>14, EndTypes, ProceedTypes DEF CheckOrca, Inspected, Removing, Throw, Goto,
     Inspect, ReadTree, work, Invocation, Labels, Inspections, Readings
<1>15. ASSUME Recheck PROVE Invocation'
  BY <1>15, EndTypes, ProceedTypes DEF Recheck, Inspected, Removing, Throw, Goto,
     Inspect, ReadTree, work, Invocation, Labels, Inspections, Readings
<1>16. ASSUME RemoveUpstreamFirst PROVE Invocation'
  BY <1>16, EndTypes, ProceedTypes DEF RemoveUpstreamFirst, Inspected, Removing, Throw, Goto,
     Inspect, ReadTree, work, Invocation, Labels, Inspections, Readings
<1> QED BY <1>1, <1>2, <1>3, <1>4, <1>5, <1>6, <1>7, <1>8, <1>9, <1>10, <1>11, <1>12, <1>13, <1>14, <1>15, <1>16

(* They leave the resources alone, and the others change a few.             *)
Looks ==
  \/ Begin \/ ReadGit \/ ListSessions \/ ReadStates \/ ReadRemote \/ InspectClone
  \/ Refuse \/ Verify \/ BeginRuntime \/ Plan \/ NextSession \/ CheckSession
  \/ RuntimeRemoved \/ CheckOrca \/ Recheck \/ RemoveUpstreamFirst

LEMMA LooksOnly == Looks => UNCHANGED <<engine, resources, trouble>>
BY DEF Looks, Begin, ReadGit, ListSessions, ReadStates, ReadRemote, InspectClone, Refuse, Verify, BeginRuntime, Plan, NextSession, CheckSession, RuntimeRemoved, CheckOrca, Recheck, RemoveUpstreamFirst, Throw

LEMMA ChangeTypes ==
  ASSUME Resources, Invocation
  PROVE  /\ RemoveClone => Resources' /\ Invocation' /\ (trouble' = trouble \/ Trouble)
         /\ Release => Resources' /\ Invocation' /\ (trouble' = trouble \/ Trouble)
         /\ KillSession => Resources' /\ Invocation' /\ (trouble' = trouble \/ Trouble)
         /\ DeleteSession => Resources' /\ Invocation' /\ (trouble' = trouble \/ Trouble)
         /\ RemoveUpstream => Resources' /\ Invocation' /\ (trouble' = trouble \/ Trouble)
         /\ RemoveWorktree => Resources' /\ Invocation' /\ (trouble' = trouble \/ Trouble)
         /\ ForceWorktree => Resources' /\ Invocation' /\ (trouble' = trouble \/ Trouble)
         /\ RemoveBranch => Resources' /\ Invocation' /\ (trouble' = trouble \/ Trouble)
<1>1. ASSUME RemoveClone PROVE Resources' /\ Invocation' /\ (trouble' = trouble \/ Trouble)
  <2>1. Resources'
    BY <1>1 DEF RemoveClone, Throw, resources, Resources
  <2>2. Invocation'
    BY <1>1, EndTypes, ProceedTypes DEF RemoveClone, Throw, ThenVerify, ThenContinue, UpstreamDue,
       Inspected, Removing, Goto, Inspect, ReadTree, work, Invocation, Labels, Inspections, Readings
  <2>3. trouble' = trouble \/ Trouble
    BY <1>1 DEF RemoveClone, Throw
  <2> QED BY <2>1, <2>2, <2>3
<1>2. ASSUME Release PROVE Resources' /\ Invocation' /\ (trouble' = trouble \/ Trouble)
  <2>1. Resources'
    BY <1>2 DEF Release, Throw, resources, Resources
  <2>2. Invocation'
    BY <1>2, EndTypes, ProceedTypes DEF Release, Throw, ThenVerify, ThenContinue, UpstreamDue,
       Inspected, Removing, Goto, Inspect, ReadTree, work, Invocation, Labels, Inspections, Readings
  <2>3. trouble' = trouble \/ Trouble
    BY <1>2 DEF Release, Throw
  <2> QED BY <2>1, <2>2, <2>3
<1>3. ASSUME KillSession PROVE Resources' /\ Invocation' /\ (trouble' = trouble \/ Trouble)
  <2>1. Resources'
    BY <1>3 DEF KillSession, Throw, resources, Resources
  <2>2. Invocation'
    BY <1>3, EndTypes, ProceedTypes DEF KillSession, Throw, ThenVerify, ThenContinue, UpstreamDue,
       Inspected, Removing, Goto, Inspect, ReadTree, work, Invocation, Labels, Inspections, Readings
  <2>3. trouble' = trouble \/ Trouble
    BY <1>3 DEF KillSession, Throw
  <2> QED BY <2>1, <2>2, <2>3
<1>4. ASSUME DeleteSession PROVE Resources' /\ Invocation' /\ (trouble' = trouble \/ Trouble)
  <2>1. Resources'
    BY <1>4 DEF DeleteSession, Throw, resources, Resources
  <2>2. Invocation'
    BY <1>4, EndTypes, ProceedTypes DEF DeleteSession, Throw, ThenVerify, ThenContinue, UpstreamDue,
       Inspected, Removing, Goto, Inspect, ReadTree, work, Invocation, Labels, Inspections, Readings
  <2>3. trouble' = trouble \/ Trouble
    BY <1>4 DEF DeleteSession, Throw
  <2> QED BY <2>1, <2>2, <2>3
<1>5. ASSUME RemoveUpstream PROVE Resources' /\ Invocation' /\ (trouble' = trouble \/ Trouble)
  <2>1. Resources'
    BY <1>5 DEF RemoveUpstream, Throw, resources, Resources
  <2>2. Invocation'
    BY <1>5, EndTypes, ProceedTypes DEF RemoveUpstream, Throw, ThenVerify, ThenContinue, UpstreamDue,
       Inspected, Removing, Goto, Inspect, ReadTree, work, Invocation, Labels, Inspections, Readings
  <2>3. trouble' = trouble \/ Trouble
    BY <1>5 DEF RemoveUpstream, Throw
  <2> QED BY <2>1, <2>2, <2>3
<1>6. ASSUME RemoveWorktree PROVE Resources' /\ Invocation' /\ (trouble' = trouble \/ Trouble)
  <2>1. Resources'
    BY <1>6 DEF RemoveWorktree, Throw, resources, Resources
  <2>2. Invocation'
    BY <1>6, EndTypes, ProceedTypes DEF RemoveWorktree, Throw, ThenVerify, ThenContinue, UpstreamDue,
       Inspected, Removing, Goto, Inspect, ReadTree, work, Invocation, Labels, Inspections, Readings
  <2>3. trouble' = trouble \/ Trouble
    BY <1>6 DEF RemoveWorktree, Throw
  <2> QED BY <2>1, <2>2, <2>3
<1>7. ASSUME ForceWorktree PROVE Resources' /\ Invocation' /\ (trouble' = trouble \/ Trouble)
  <2>1. Resources'
    BY <1>7 DEF ForceWorktree, Throw, resources, Resources
  <2>2. Invocation'
    BY <1>7, EndTypes, ProceedTypes DEF ForceWorktree, Throw, ThenVerify, ThenContinue, UpstreamDue,
       Inspected, Removing, Goto, Inspect, ReadTree, work, Invocation, Labels, Inspections, Readings
  <2>3. trouble' = trouble \/ Trouble
    BY <1>7 DEF ForceWorktree, Throw
  <2> QED BY <2>1, <2>2, <2>3
<1>8. ASSUME RemoveBranch PROVE Resources' /\ Invocation' /\ (trouble' = trouble \/ Trouble)
  <2>1. Resources'
    BY <1>8 DEF RemoveBranch, Throw, resources, Resources
  <2>2. Invocation'
    BY <1>8, EndTypes, ProceedTypes DEF RemoveBranch, Throw, ThenVerify, ThenContinue, UpstreamDue,
       Inspected, Removing, Goto, Inspect, ReadTree, work, Invocation, Labels, Inspections, Readings
  <2>3. trouble' = trouble \/ Trouble
    BY <1>8 DEF RemoveBranch, Throw
  <2> QED BY <2>1, <2>2, <2>3
<1> QED BY <1>1, <1>2, <1>3, <1>4, <1>5, <1>6, <1>7, <1>8

(* What sessions do by themselves.                                          *)
Stirs(s) == Wake(s) \/ Open(s) \/ Exit(s) \/ Rest(s) \/ Spawn(s)

LEMMA StirTypes ==
  ASSUME Resources, Invocation, NEW s \in Sessions, Stirs(s)
  PROVE  Resources' /\ Invocation' /\ (trouble' = trouble \/ Trouble)
<1>1. PICK x \in {"saved", "idle", "busy"} : Becomes(s, x)
  BY DEF Stirs, Wake, Open, Exit, Rest, Spawn
<1>2. session' \in [Sessions -> {"none", "saved", "idle", "busy"}]
  BY <1>1 DEF Becomes, Resources
<1>3. Resources' /\ Invocation'
  BY <1>1, <1>2 DEF Becomes, Resources, Invocation, locals, work
<1>4. trouble' = trouble \/ Trouble
  BY DEF Stirs, Wake, Open, Exit, Rest, Spawn
<1> QED BY <1>3, <1>4

LEMMA TypeStep == TypeOK /\ [Next]_vars => TypeOK'
<1> SUFFICES ASSUME Resources, Invocation, trouble \in 0..MaxTrouble, [Next]_vars
             PROVE  Resources' /\ Invocation' /\ trouble' \in 0..MaxTrouble
  BY DEF TypeOK, Resources, Invocation, Labels, Snaps
<1>1. CASE Looks
  BY <1>1, LooksOnly, LookTypes DEF Looks, Resources, resources
<1>2. ASSUME Resources', Invocation', trouble' = trouble \/ Trouble
      PROVE  Resources' /\ Invocation' /\ trouble' \in 0..MaxTrouble
  BY <1>2, CleanupAssumption DEF Trouble
<1>3. CASE Tool /\ ~Looks
  BY <1>2, <1>3, ChangeTypes DEF Tool, Looks
<1>4. CASE Interrupted
  BY <1>2, <1>4, EndTypes DEF Interrupted, Resources, resources
<1>5. CASE Work
  <2>1. Resources'
    BY <1>5, CleanupAssumption DEF Work, Resources
  <2>2. Invocation'
    BY <1>5 DEF Work, Invocation, locals, work
  <2> QED BY <1>2, <1>5, <2>1, <2>2 DEF Work
<1>6. CASE HostDeletes
  BY <1>2, <1>6 DEF HostDeletes, Resources, Invocation, locals, work
<1>7. CASE \E s \in Sessions : Stirs(s)
  BY <1>2, <1>7, StirTypes
<1>8. CASE UNCHANGED vars
  BY <1>8 DEF vars, resources, locals, work, Resources, Invocation
<1> QED BY <1>1, <1>3, <1>4, <1>5, <1>6, <1>7, <1>8 DEF Next, Surroundings, Stirs

(* Every variable keeps its type.                                           *)
THEOREM TypeCorrect == Spec => []TypeOK
BY TypeInit, TypeStep, PTL DEF Spec

-----------------------------------------------------------------------------
(* What the steps keep.                                                     *)

LEMMA Roots ==
  /\ Ancestors[Root] = {}
  /\ \A s \in Sessions : s # Root => Root \in Ancestors[s]
  /\ \A s \in Sessions : Ancestors[s] \subseteq Sessions
BY CleanupAssumption

(* A listed tree is empty exactly when its root is not in it.               *)
LEMMA NoNodes == Nodes = {} <=> tree[Root] = "none"
<1>1. ASSUME tree[Root] # "none" PROVE Root \in Nodes
  BY <1>1, Roots, CleanupAssumption DEF Nodes, Connected
<1>2. ASSUME tree[Root] = "none", NEW s \in Nodes PROVE FALSE
  BY <1>2, Roots DEF Nodes, Connected
<1> QED BY <1>1, <1>2

(* Without the root, a session is one that escaped.                         *)
LEMMA Orphans ==
  ASSUME TypeOK, Rootless, NEW s \in Sessions, session[s] # "none"
  PROVE  Escaped
<1>1. s # Root
  BY DEF Rootless
<1> QED BY <1>1, Roots, CleanupAssumption DEF Rootless, Escaped

LEMMA Same ==
  ASSUME UNCHANGED <<engine, session, worktree>>
  PROVE  /\ Rootless' <=> Rootless
         /\ Dead' <=> Dead
         /\ Dormant' <=> Dormant
         /\ Escaped' <=> Escaped
         /\ Forced' <=> Forced
BY DEF Rootless, Dead, Dormant, IsLive, Escaped, Forced

LEMMA EndStep ==
  ASSUME CleanupInv, End, UNCHANGED <<engine, session, worktree, clone, branch, upstream, config>>
  PROVE  Facts'
<1>1. Identified'
  BY Same DEF CleanupInv, Facts, Identified
<1>2. Purposes'
  BY DEF End, Purposes
<1>3. SnapshotTrue' /\ TreeTrue' /\ RuntimeTrue' /\ UpstreamTrue' /\ Forcing' /\ Ending'
  BY DEF End, SnapshotTrue, TreeTrue, RuntimeTrue, UpstreamTrue, Forcing, Ending
<1> QED BY <1>1, <1>2, <1>3 DEF Facts

(* Going on from an inspection, with the nested clone gone.                 *)
LEMMA ProceedStep ==
  ASSUME CleanupInv, pc \in {"inspected", "clone"}, NEW i \in 0..4, Proceed(i),
         UNCHANGED <<engine, session, worktree, branch, upstream, config>>,
         clone' = "absent" \/ worktree = "absent",
         pc = "clone" => "worktree" \in snap.present
  PROVE  Facts'
<1> DEFINE rest == {n \in (i + 1)..4 : Order[n] \in snap.present}
<1>1. Identified'
  BY Same DEF CleanupInv, Facts, Identified
<1>2. CASE /\ rest # {} /\ stage' = Min(rest) /\ Inspect("before")
           /\ UNCHANGED <<memo, snap, tree, todo, target>>
  <2>1. stage' \in 1..4
    <3>1. rest \in SUBSET (1..4)
      OBVIOUS
    <3> HIDE DEF rest
    <3>2. Min(rest) \in rest
      BY <1>2, <3>1, MinIn
    <3> QED BY <1>2, <3>1, <3>2
  <2>2. pc' = "git" /\ why' = "before"
    BY <1>2 DEF Inspect
  <2>3. Purposes'
    BY <2>1, <2>2 DEF Purposes
  <2>4. SnapshotTrue' /\ TreeTrue' /\ RuntimeTrue' /\ UpstreamTrue' /\ Forcing' /\ Ending'
    BY <2>2 DEF SnapshotTrue, TreeTrue, RuntimeTrue, UpstreamTrue, Forcing, Ending
  <2> QED BY <1>1, <2>3, <2>4 DEF Facts
<1>3. CASE snap.present = {} /\ Goto("release") /\ UNCHANGED <<why, work>>
  <2>1. pc' = "release" /\ pc = "inspected" /\ UNCHANGED <<why, stage, snap, tree>>
    BY <1>3 DEF Goto, work
  <2>2. Purposes'
    BY <2>1 DEF CleanupInv, Facts, Purposes
  <2>3. SnapshotTrue' /\ RuntimeTrue' /\ UpstreamTrue'
    BY <2>1, Same DEF CleanupInv, Facts, SnapshotTrue, RuntimeTrue, UpstreamTrue
  <2>4. TreeTrue' /\ Forcing' /\ Ending'
    BY <1>3, <2>1 DEF TreeTrue, Forcing, Ending
  <2> QED BY <1>1, <2>2, <2>3, <2>4 DEF Facts
<1>4. CASE End
  <2>1. Purposes'
    BY <1>4 DEF End, Purposes
  <2>2. SnapshotTrue' /\ TreeTrue' /\ RuntimeTrue' /\ UpstreamTrue' /\ Forcing' /\ Ending'
    BY <1>4 DEF End, SnapshotTrue, TreeTrue, RuntimeTrue, UpstreamTrue, Forcing, Ending
  <2> QED BY <1>1, <2>1, <2>2 DEF Facts
<1> QED BY <1>2, <1>3, <1>4 DEF Proceed

LEMMA ThrowStep ==
  ASSUME CleanupInv, Throw
  PROVE  Facts'
BY EndStep DEF Throw, resources

(* Going to an inspection or a reading, with its purpose.                   *)
LEMMA TurnStep ==
  ASSUME CleanupInv, UNCHANGED <<engine, session, worktree, clone, branch, upstream, config>>,
         UNCHANGED stage, pc' \in {"git", "list"},
         why' = "first" \/ stage \in 1..4,
         why' = "nested" => worktree = "absent",
         pc' = "list" => pc \notin {"idle", "git"} /\ UNCHANGED snap
  PROVE  Facts'
<1>1. Identified'
  BY Same DEF CleanupInv, Facts, Identified
<1>2. Purposes'
  BY DEF CleanupInv, Facts, Purposes
<1>3. SnapshotTrue'
  BY DEF CleanupInv, Facts, SnapshotTrue
<1>4. TreeTrue' /\ RuntimeTrue' /\ UpstreamTrue' /\ Forcing' /\ Ending'
  BY DEF TreeTrue, RuntimeTrue, UpstreamTrue, Forcing, Ending
<1> QED BY <1>1, <1>2, <1>3, <1>4 DEF Facts

LEMMA ReadGitStep ==
  ASSUME CleanupInv, ReadGit
  PROVE  Facts'
<1>1. CASE Throw
  BY <1>1, ThrowStep
<1>2. CASE ~Throw
  <2>1. /\ pc = "git" /\ pc' = "list"
        /\ UNCHANGED <<engine, session, worktree, clone, branch, upstream, config>>
        /\ UNCHANGED <<why, stage>>
    BY <1>2 DEF ReadGit, Goto, resources
  <2>2. /\ "worktree" \in snap'.present <=> worktree # "absent"
        /\ "branch" \in snap'.present <=> branch # Absent
    <3> DEFINE found == {r \in {"worktree", "branch"} :
                           \/ r = "worktree" /\ worktree # "absent"
                           \/ r = "branch" /\ branch # Absent}
    <3>1. snap' = [present |-> found, idle |-> TRUE, clean |-> TRUE]
      BY <1>2 DEF ReadGit
    <3>2. snap'.present = found
      <4> HIDE DEF found
      <4> QED BY <3>1
    <3> QED BY <3>2
  <2>3. SnapshotTrue'
    BY <2>1, <2>2 DEF SnapshotTrue
  <2>4. Identified'
    BY <2>1, Same DEF CleanupInv, Facts, Identified
  <2>5. Purposes'
    BY <2>1 DEF CleanupInv, Facts, Purposes
  <2>6. TreeTrue' /\ RuntimeTrue' /\ UpstreamTrue' /\ Forcing' /\ Ending'
    BY <2>1 DEF TreeTrue, RuntimeTrue, UpstreamTrue, Forcing, Ending
  <2> QED BY <2>3, <2>4, <2>5, <2>6 DEF Facts
<1> QED BY <1>1, <1>2

LEMMA ListSessionsStep ==
  ASSUME CleanupInv, ListSessions
  PROVE  Facts'
<1> DEFINE list == [s \in Sessions |-> IF IsLive(s) THEN "live" ELSE session[s]]
<1>1. CASE Throw
  BY <1>1, ThrowStep
<1>2. CASE ~Throw
  <2>1. /\ ~Foreign(list) /\ tree' = list
        /\ pc = "list" /\ pc' = "states"
        /\ UNCHANGED <<engine, session, worktree, clone, branch, upstream, config>>
        /\ UNCHANGED <<why, stage, snap>>
    BY <1>2 DEF ListSessions, Goto, resources
  <2>2. tree'[Root] = "none" <=> Rootless
    BY <2>1, CleanupAssumption DEF Rootless, IsLive
  <2>3. tree'[Root] = "none" => Dead
    <3>1. ASSUME list[Root] = "none", NEW s \in Sessions \ Elsewhere PROVE ~IsLive(s)
      <4>1. s \notin Connected(list)
        <5>1. s = Root \/ Root \in Ancestors[s]
          BY CleanupAssumption
        <5> HIDE DEF list
        <5> QED BY <3>1, <5>1 DEF Connected
      <4>2. list[s] # "live"
        <5> HIDE DEF list
        <5> QED BY <2>1, <4>1 DEF Foreign, Unconnected
      <4> QED BY <4>2
    <3> QED BY <2>1, <3>1 DEF Dead
  <2>4. Rootless' <=> Rootless
    BY <2>1, Same
  <2>5. TreeTrue'
    BY <2>1, <2>2, <2>3, <2>4, Same DEF TreeTrue, Dormant
  <2>6. SnapshotTrue'
    BY <2>1 DEF CleanupInv, Facts, SnapshotTrue
  <2>7. Identified'
    BY <2>1, Same DEF CleanupInv, Facts, Identified
  <2>8. Purposes'
    BY <2>1 DEF CleanupInv, Facts, Purposes
  <2>9. RuntimeTrue' /\ UpstreamTrue' /\ Forcing' /\ Ending'
    BY <2>1 DEF RuntimeTrue, UpstreamTrue, Forcing, Ending
  <2> QED BY <2>5, <2>6, <2>7, <2>8, <2>9 DEF Facts
<1> QED BY <1>1, <1>2

LEMMA ReadStatesStep ==
  ASSUME CleanupInv, ReadStates
  PROVE  Facts'
<1>1. CASE Throw
  BY <1>1, ThrowStep
<1>2. CASE ~Throw
  <2>1. /\ pc = "states" /\ pc' = IF why \in Inspections THEN "remote" ELSE why
        /\ UNCHANGED <<engine, session, worktree, clone, branch, upstream, config>>
        /\ UNCHANGED <<why, stage, tree>>
    BY <1>2 DEF ReadStates, Goto, resources
  <2>2. /\ snap.present \subseteq snap'.present
        /\ snap'.present \subseteq snap.present \cup {"runtime"}
        /\ Nodes # {} => "runtime" \in snap'.present
    <3> DEFINE calm == \A s \in Nodes : tree[s] = "live" => session[s] = "idle"
               found == IF Nodes = {} THEN snap.present ELSE snap.present \cup {"runtime"}
    <3>1. snap' = [snap EXCEPT !.present = found, !.idle = calm]
      BY <1>2 DEF ReadStates
    <3>2. snap'.present = found
      <4> HIDE DEF found, calm
      <4> QED BY <3>1, Types DEF CleanupInv, Invocation, Snaps
    <3> QED BY <3>2
  <2>3. pc' \in {"remote", "plan", "next", "after"} /\ (why = "first" => pc' = "remote")
    BY <2>1, Types DEF CleanupInv, Invocation, Inspections, Readings
  <2>4. (Rootless' <=> Rootless) /\ (Dormant' <=> Dormant)
    BY <2>1, Same
  <2>5. tree[Root] = "none" => Rootless /\ Dormant
    BY <2>1 DEF CleanupInv, Facts, TreeTrue
  <2>6. TreeTrue'
    BY <2>1, <2>3, <2>4 DEF CleanupInv, Facts, TreeTrue
  <2>7. RuntimeTrue'
    BY <2>1, <2>2, <2>4, <2>5, NoNodes DEF RuntimeTrue
  <2>8. SnapshotTrue'
    BY <2>1, <2>2 DEF CleanupInv, Facts, SnapshotTrue
  <2>9. Identified'
    BY <2>1, Same DEF CleanupInv, Facts, Identified
  <2>10. Purposes'
    BY <2>1, <2>3 DEF CleanupInv, Facts, Purposes
  <2>11. UpstreamTrue' /\ Forcing' /\ Ending'
    BY <2>3 DEF UpstreamTrue, Forcing, Ending
  <2> QED BY <2>6, <2>7, <2>8, <2>9, <2>10, <2>11 DEF Facts
<1> QED BY <1>1, <1>2

LEMMA ReadRemoteStep ==
  ASSUME CleanupInv, ReadRemote
  PROVE  Facts'
<1>1. CASE Throw
  BY <1>1, ThrowStep
<1>2. CASE ~Throw
  <2>1. /\ pc = "remote" /\ pc' = "inspected"
        /\ UNCHANGED <<engine, session, worktree, clone, branch, upstream, config>>
        /\ UNCHANGED <<why, stage, tree>>
    BY <1>2 DEF ReadRemote, Goto, resources
  <2>2. snap'.present = IF upstream = Absent THEN snap.present
                        ELSE snap.present \cup {"upstream"}
    <3> DEFINE found == IF upstream = Absent THEN snap.present
                        ELSE snap.present \cup {"upstream"}
               clean == worktree # "dirty"
    <3>1. snap' = [snap EXCEPT !.present = found, !.clean = clean]
      BY <1>2 DEF ReadRemote
    <3> HIDE DEF found, clean
    <3>2. snap'.present = found
      BY <3>1, Types DEF CleanupInv, Invocation, Snaps
    <3> QED BY <3>2 DEF found
  <2>3. UpstreamTrue'
    BY <2>1, <2>2 DEF UpstreamTrue
  <2>4. RuntimeTrue'
    BY <2>1, <2>2, Same DEF CleanupInv, Facts, RuntimeTrue
  <2>5. SnapshotTrue'
    BY <2>1, <2>2 DEF CleanupInv, Facts, SnapshotTrue
  <2>6. Identified'
    BY <2>1, Same DEF CleanupInv, Facts, Identified
  <2>7. Purposes'
    BY <2>1 DEF CleanupInv, Facts, Purposes
  <2>8. TreeTrue' /\ Forcing' /\ Ending'
    BY <2>1 DEF TreeTrue, Forcing, Ending
  <2> QED BY <2>3, <2>4, <2>5, <2>6, <2>7, <2>8 DEF Facts
<1> QED BY <1>1, <1>2

LEMMA LooksStep ==
  ASSUME CleanupInv, Looks
  PROVE  Facts'
<1>1. UNCHANGED <<engine, session, worktree, clone, branch, upstream, config>>
  BY LooksOnly DEF resources
<1>2. Invocation
  BY Types DEF CleanupInv
<1>3. CASE Begin
  BY <1>1, <1>3, TurnStep DEF Begin, Inspect, work
<1>4. CASE ReadGit \/ ListSessions \/ ReadStates \/ ReadRemote
  BY <1>4, ReadGitStep, ListSessionsStep, ReadStatesStep, ReadRemoteStep
<1>5. CASE InspectClone
  <2>1. pc = "inspected" /\ why = "first"
    BY <1>5 DEF InspectClone, Inspected
  <2>2. CASE /\ "worktree" \notin snap.present \/ clone = "absent"
             /\ Proceed(0)
    <3>1. clone' = "absent" \/ worktree = "absent"
      BY <1>1, <2>1, <2>2 DEF CleanupInv, Facts, SnapshotTrue
    <3> QED BY <1>1, <2>1, <2>2, <3>1, ProceedStep
  <2>3. CASE /\ "worktree" \in snap.present /\ clone # "absent" /\ ~CloneRefused
             /\ Goto("clone") /\ UNCHANGED <<why, work>>
    <3>1. pc' = "clone" /\ UNCHANGED <<why, stage, snap, tree>>
      BY <2>3 DEF Goto, work
    <3>2. SnapshotTrue' /\ RuntimeTrue' /\ UpstreamTrue'
      BY <1>1, <2>1, <3>1, Same DEF CleanupInv, Facts, SnapshotTrue, RuntimeTrue, UpstreamTrue
    <3>3. Identified'
      BY <1>1, Same DEF CleanupInv, Facts, Identified
    <3>4. Purposes'
      BY <1>1, <3>1 DEF CleanupInv, Facts, Purposes
    <3>5. TreeTrue' /\ Forcing' /\ Ending'
      BY <2>3, <3>1 DEF TreeTrue, Forcing, Ending
    <3> QED BY <3>2, <3>3, <3>4, <3>5 DEF Facts
  <2>4. CASE End
    BY <1>1, <2>4, EndStep
  <2> QED BY <1>5, <2>2, <2>3, <2>4 DEF InspectClone
<1>6. CASE Refuse
  BY <1>6, ThrowStep DEF Refuse
<1>7. CASE Verify
  <2>1. pc = "inspected" /\ why = "verify"
    BY <1>7 DEF Verify, Inspected
  <2>2. stage \in 1..4
    BY <2>1 DEF CleanupInv, Facts, Purposes
  <2>3. CASE Proceed(stage)
    <3>1. clone' = "absent" \/ worktree = "absent"
      BY <1>1, <2>2 DEF CleanupInv, Facts, Purposes
    <3> QED BY <1>1, <2>1, <2>2, <2>3, <3>1, ProceedStep
  <2>4. CASE End
    BY <1>1, <2>4, EndStep
  <2> QED BY <1>7, <2>3, <2>4 DEF Verify
<1>8. ASSUME pc = "inspected", why = "before" PROVE stage \in 1..4
  BY <1>8 DEF CleanupInv, Facts, Purposes
<1>9. CASE BeginRuntime
  BY <1>1, <1>8, <1>9, TurnStep DEF BeginRuntime, Inspected, ReadTree, work
<1>10. CASE Plan
  <2>1. CASE Throw
    BY <2>1, ThrowStep
  <2>2. CASE ~Throw
    <3>1. pc = "plan" /\ pc' = "list" /\ why' = "next" /\ UNCHANGED <<stage, snap>>
      BY <1>10, <2>2 DEF Plan, ReadTree
    <3>2. stage \in 1..4
      BY <3>1 DEF CleanupInv, Facts, Purposes
    <3> QED BY <1>1, <3>1, <3>2, TurnStep
  <2> QED BY <2>1, <2>2
<1>11. CASE NextSession
  <2>1. pc = "next"
    BY <1>11 DEF NextSession
  <2>2. stage \in 1..4
    BY <2>1 DEF CleanupInv, Facts, Purposes
  <2>3. CASE Throw
    BY <2>3, ThrowStep
  <2>4. ASSUME ~Throw, NEW s \in Sessions, Remove(s)
        PROVE  Facts'
    <3>1. pc' \in {"check", "delete"} /\ UNCHANGED <<why, stage, snap, tree>>
      BY <1>11, <2>4 DEF NextSession, Remove, Goto
    <3>2. ~Rootless
      BY <1>11, <2>1, <2>4, NoNodes DEF NextSession, CleanupInv, Facts, TreeTrue
    <3>3. TreeTrue'
      BY <1>1, <3>1, <3>2, Same DEF TreeTrue
    <3>4. SnapshotTrue'
      BY <1>1, <2>1, <3>1 DEF CleanupInv, Facts, SnapshotTrue
    <3>5. Identified'
      BY <1>1, Same DEF CleanupInv, Facts, Identified
    <3>6. Purposes'
      BY <1>1, <2>2, <3>1 DEF CleanupInv, Facts, Purposes
    <3>7. RuntimeTrue' /\ UpstreamTrue' /\ Forcing' /\ Ending'
      BY <3>1 DEF RuntimeTrue, UpstreamTrue, Forcing, Ending
    <3> QED BY <3>3, <3>4, <3>5, <3>6, <3>7 DEF Facts
  <2>5. CASE ~Throw /\ ReadTree("next")
    <3>1. pc' = "list" /\ why' = "next" /\ UNCHANGED <<stage, snap>>
      BY <1>11, <2>5 DEF NextSession, ReadTree
    <3> QED BY <1>1, <2>1, <2>2, <3>1, TurnStep
  <2>6. Throw \/ (\E s \in Sessions : Remove(s)) \/ ReadTree("next")
    BY <1>2, <1>11, CleanupAssumption DEF NextSession, Invocation
  <2> QED BY <2>3, <2>4, <2>5, <2>6
<1>12. CASE CheckSession
  <2>1. CASE Throw
    BY <2>1, ThrowStep
  <2>2. CASE ~Throw
    <3>1. pc = "check" /\ pc' = "kill" /\ UNCHANGED <<why, stage, snap, tree>>
      BY <1>12, <2>2 DEF CheckSession, Goto, work
    <3>2. TreeTrue'
      BY <1>1, <3>1, Same DEF CleanupInv, Facts, TreeTrue
    <3>3. SnapshotTrue'
      BY <1>1, <3>1 DEF CleanupInv, Facts, SnapshotTrue
    <3>4. Identified'
      BY <1>1, Same DEF CleanupInv, Facts, Identified
    <3>5. Purposes'
      BY <1>1, <3>1 DEF CleanupInv, Facts, Purposes
    <3>6. RuntimeTrue' /\ UpstreamTrue' /\ Forcing' /\ Ending'
      BY <3>1 DEF RuntimeTrue, UpstreamTrue, Forcing, Ending
    <3> QED BY <3>2, <3>3, <3>4, <3>5, <3>6 DEF Facts
  <2> QED BY <2>1, <2>2
<1>13. CASE RuntimeRemoved
  <2>1. CASE Throw
    BY <2>1, ThrowStep
  <2>2. CASE ~Throw
    <3>1. pc = "after" /\ pc' = "git" /\ why' = "verify" /\ UNCHANGED stage
      BY <1>13, <2>2 DEF RuntimeRemoved, Inspect, work
    <3>2. stage \in 1..4
      BY <3>1 DEF CleanupInv, Facts, Purposes
    <3> QED BY <1>1, <3>1, <3>2, TurnStep
  <2> QED BY <2>1, <2>2
<1>14. CASE CheckOrca
  <2>1. CASE Throw
    BY <2>1, ThrowStep
  <2>2. CASE ~Throw
    <3>1. /\ pc = "inspected" /\ why = "before" /\ engine = "orca"
          /\ Order[stage] = "worktree" /\ Removable
          /\ branch = Expected /\ worktree = "clean"
          /\ pc' = "force" /\ UNCHANGED <<why, stage, snap, tree>>
      BY <1>14, <2>2 DEF CheckOrca, Removing, Inspected, Goto, work
    <3>2. "runtime" \notin snap.present /\ "upstream" \notin snap.present
      BY <3>1 DEF Removable
    <3>3. Rootless /\ (upstream = Absent \/ Escaped)
      BY <3>1, <3>2 DEF CleanupInv, Facts, RuntimeTrue, UpstreamTrue
    <3>4. clone = "absent"
      BY <1>8, <3>1 DEF CleanupInv, Facts, Purposes
    <3>5. Forcing'
      BY <1>1, <3>1, <3>3, <3>4, Same DEF Forcing
    <3>6. SnapshotTrue'
      BY <1>1, <3>1 DEF CleanupInv, Facts, SnapshotTrue
    <3>7. Identified'
      BY <1>1, Same DEF CleanupInv, Facts, Identified
    <3>8. Purposes'
      BY <1>1, <1>8, <3>1 DEF CleanupInv, Facts, Purposes
    <3>9. TreeTrue' /\ RuntimeTrue' /\ UpstreamTrue' /\ Ending'
      BY <3>1 DEF TreeTrue, RuntimeTrue, UpstreamTrue, Ending
    <3> QED BY <3>5, <3>6, <3>7, <3>8, <3>9 DEF Facts
  <2> QED BY <2>1, <2>2
<1>15. CASE Recheck
  <2>1. CASE Throw
    BY <2>1, ThrowStep
  <2>2. CASE ~Throw
    <3>1. /\ pc = "inspected" /\ why = "recheck"
          /\ pc' = "git" /\ why' = "verify" /\ UNCHANGED stage
      BY <1>15, <2>2 DEF Recheck, Inspected, Inspect, work
    <3>2. stage \in 1..4
      BY <3>1 DEF CleanupInv, Facts, Purposes
    <3> QED BY <1>1, <3>1, <3>2, TurnStep
  <2> QED BY <2>1, <2>2
<1>16. CASE RemoveUpstreamFirst
  <2>1. /\ pc = "inspected" /\ why = "before" /\ Order[stage] = "branch" /\ Removable
        /\ pc' = "git" /\ why' = "nested" /\ UNCHANGED stage
    BY <1>16 DEF RemoveUpstreamFirst, Removing, Inspected, Inspect, work
  <2>2. worktree = "absent"
    BY <2>1 DEF Removable, CleanupInv, Facts, SnapshotTrue
  <2> QED BY <1>1, <1>8, <2>1, <2>2, TurnStep
<1> QED BY <1>3, <1>4, <1>5, <1>6, <1>7, <1>9, <1>10, <1>11, <1>12, <1>13, <1>14, <1>15, <1>16
        DEF Looks

-----------------------------------------------------------------------------
(* The steps that remove something.                                         *)

LEMMA RemoveCloneStep ==
  ASSUME CleanupInv, RemoveClone
  PROVE  Facts'
<1>1. /\ pc = "clone" /\ clone' = "absent" /\ Proceed(0)
      /\ UNCHANGED <<engine, session, worktree, branch, upstream, config>>
  BY DEF RemoveClone
<1>2. "worktree" \in snap.present
  BY <1>1 DEF CleanupInv, Facts, Ending
<1> QED BY <1>1, <1>2, ProceedStep

LEMMA KillStep ==
  ASSUME CleanupInv, KillSession
  PROVE  Facts'
<1>1. CASE Throw
  BY <1>1, ThrowStep
<1>2. CASE ~Throw
  <2>1. /\ pc = "kill" /\ pc' = "delete" /\ session[target] # "none"
        /\ session' = [session EXCEPT ![target] = "saved"]
        /\ UNCHANGED <<engine, worktree, clone, branch, upstream, config>>
        /\ UNCHANGED <<why, stage, snap, tree>>
    BY <1>2 DEF KillSession, IsLive, Goto, work
  <2>2. ~Rootless
    BY <2>1 DEF CleanupInv, Facts, TreeTrue
  <2>3. ~Rootless'
    BY <2>1, <2>2, Types DEF CleanupInv, Resources, Rootless
  <2>4. TreeTrue'
    BY <2>1, <2>3 DEF TreeTrue
  <2>5. Identified'
    BY <2>1, <2>2 DEF CleanupInv, Facts, Identified
  <2>6. SnapshotTrue'
    BY <2>1 DEF CleanupInv, Facts, SnapshotTrue
  <2>7. Purposes'
    BY <2>1 DEF CleanupInv, Facts, Purposes
  <2>8. RuntimeTrue' /\ UpstreamTrue' /\ Forcing' /\ Ending'
    BY <2>1 DEF RuntimeTrue, UpstreamTrue, Forcing, Ending
  <2> QED BY <2>4, <2>5, <2>6, <2>7, <2>8 DEF Facts
<1> QED BY <1>1, <1>2

LEMMA DeleteStep ==
  ASSUME CleanupInv, DeleteSession
  PROVE  Facts'
<1>1. CASE Throw
  BY <1>1, ThrowStep
<1>2. CASE ~Throw
  <2>1. /\ pc = "delete" /\ pc' = "list" /\ why' \in {"after", "next"}
        /\ UNCHANGED <<engine, worktree, clone, branch, upstream, config>>
        /\ UNCHANGED <<stage, snap, tree>>
    BY <1>2 DEF DeleteSession, ReadTree
  <2>2. ~Rootless
    BY <2>1 DEF CleanupInv, Facts, TreeTrue
  <2>3. Identified'
    BY <2>1, <2>2 DEF CleanupInv, Facts, Identified
  <2>4. SnapshotTrue'
    BY <2>1 DEF CleanupInv, Facts, SnapshotTrue
  <2>5. Purposes'
    BY <2>1 DEF CleanupInv, Facts, Purposes
  <2>6. TreeTrue' /\ RuntimeTrue' /\ UpstreamTrue' /\ Forcing' /\ Ending'
    BY <2>1 DEF TreeTrue, RuntimeTrue, UpstreamTrue, Forcing, Ending
  <2> QED BY <2>3, <2>4, <2>5, <2>6 DEF Facts
<1> QED BY <1>1, <1>2

LEMMA UpstreamStep ==
  ASSUME CleanupInv, RemoveUpstream
  PROVE  Facts'
<1>1. /\ pc = "inspected" /\ why \in {"before", "nested"} /\ "runtime" \notin snap.present
      /\ UNCHANGED <<engine, session, worktree, clone, branch, config>>
  BY DEF RemoveUpstream, UpstreamDue, Removing, Inspected, Removable
<1>2. Rootless /\ stage \in 1..4 /\ (why = "nested" => worktree = "absent")
  BY <1>1 DEF CleanupInv, Facts, RuntimeTrue, Purposes
<1>3. CASE upstream' = Absent /\ ThenContinue
  <2>1. /\ UNCHANGED <<stage, snap, tree>>
        /\ \/ pc' = "ref" /\ why' = why /\ why = "nested"
           \/ pc' = "git" /\ why' = "verify"
    BY <1>3 DEF ThenContinue, Goto, Inspect, work
  <2>2. Identified'
    BY <1>1, <1>3, Same DEF CleanupInv, Facts, Identified
  <2>3. Purposes'
    BY <1>1, <1>2, <2>1 DEF CleanupInv, Facts, Purposes
  <2>4. Ending'
    BY <1>1, <1>2, <1>3, <2>1, Same DEF Ending
  <2>5. SnapshotTrue'
    BY <1>1, <2>1 DEF CleanupInv, Facts, SnapshotTrue
  <2>6. TreeTrue' /\ RuntimeTrue' /\ UpstreamTrue' /\ Forcing'
    BY <2>1 DEF TreeTrue, RuntimeTrue, UpstreamTrue, Forcing
  <2> QED BY <2>2, <2>3, <2>4, <2>5, <2>6 DEF Facts
<1>4. CASE UNCHANGED upstream /\ End
  BY <1>1, <1>4, EndStep
<1> QED BY <1>3, <1>4 DEF RemoveUpstream

LEMMA WorktreeStep ==
  ASSUME CleanupInv, RemoveWorktree
  PROVE  Facts'
<1>1. CASE Throw
  BY <1>1, ThrowStep
<1>2. CASE ~Throw
  <2>1. /\ pc = "inspected" /\ why = "before"
        /\ worktree' = "absent" /\ clone' = "absent"
        /\ pc' = "git" /\ why' = "verify"
        /\ UNCHANGED <<engine, session, branch, upstream, config, stage>>
    BY <1>2 DEF RemoveWorktree, Removing, Inspected, ThenVerify, Inspect, work
  <2>2. Identified'
    BY <2>1 DEF CleanupInv, Facts, Identified, Rootless, Forced, Escaped
  <2>3. Purposes'
    BY <2>1 DEF CleanupInv, Facts, Purposes
  <2>4. SnapshotTrue' /\ TreeTrue' /\ RuntimeTrue' /\ UpstreamTrue' /\ Forcing' /\ Ending'
    BY <2>1 DEF SnapshotTrue, TreeTrue, RuntimeTrue, UpstreamTrue, Forcing, Ending
  <2> QED BY <2>2, <2>3, <2>4 DEF Facts
<1> QED BY <1>1, <1>2

LEMMA ForceStep ==
  ASSUME CleanupInv, ForceWorktree
  PROVE  Facts'
<1>1. /\ pc = "force" /\ pc' = "git" /\ why' \in {"verify", "recheck"}
      /\ UNCHANGED <<engine, session, upstream, stage>>
  BY DEF ForceWorktree, Inspect, work
<1>2. /\ Rootless /\ engine = "orca" /\ stage \in 1..4
      /\ Escaped \/ upstream = Absent
  BY <1>1 DEF CleanupInv, Facts, Forcing, Purposes
<1>3. (Rootless' <=> Rootless) /\ (Forced' <=> Forced)
  BY <1>1 DEF Rootless, Forced, Escaped
<1>4. \/ worktree' = "absent" /\ clone' = "absent"
      \/ UNCHANGED <<worktree, clone, branch, config>>
  BY DEF ForceWorktree
<1>5. Identified'
  BY <1>1, <1>2, <1>3, <1>4 DEF Forced, CleanupInv, Facts, Identified
<1>6. Purposes'
  BY <1>1, <1>2, <1>4 DEF CleanupInv, Facts, Purposes
<1>7. SnapshotTrue' /\ TreeTrue' /\ RuntimeTrue' /\ UpstreamTrue' /\ Forcing' /\ Ending'
  BY <1>1 DEF SnapshotTrue, TreeTrue, RuntimeTrue, UpstreamTrue, Forcing, Ending
<1> QED BY <1>5, <1>6, <1>7 DEF Facts

LEMMA BranchStep ==
  ASSUME CleanupInv, RemoveBranch
  PROVE  Facts'
<1>1. CASE Throw
  BY <1>1, ThrowStep
<1>2. CASE ~Throw
  <2>1. /\ \/ /\ pc = "inspected" /\ why = "before" /\ Order[stage] = "branch"
              /\ Removable /\ "upstream" \notin snap.present
           \/ pc = "ref"
        /\ pc' = "git" /\ why' = "verify"
        /\ UNCHANGED <<engine, session, worktree, clone, upstream, config, stage>>
    BY <1>2 DEF RemoveBranch, Removing, Inspected, ThenVerify, Inspect, work
  <2>2. Rootless /\ worktree = "absent" /\ upstream = Absent
    <3>1. CASE pc = "ref"
      BY <3>1 DEF CleanupInv, Facts, Ending
    <3>2. CASE pc # "ref"
      <4>1. pc = "inspected" /\ snap.present \cap {"runtime", "upstream", "worktree"} = {}
        BY <2>1, <3>2 DEF Removable
      <4> QED BY <4>1 DEF CleanupInv, Facts, SnapshotTrue, RuntimeTrue, UpstreamTrue
    <3> QED BY <3>1, <3>2
  <2>3. Identified'
    BY <2>1, <2>2, Same DEF Identified
  <2>4. Purposes'
    BY <2>1 DEF CleanupInv, Facts, Purposes
  <2>5. SnapshotTrue' /\ TreeTrue' /\ RuntimeTrue' /\ UpstreamTrue' /\ Forcing' /\ Ending'
    BY <2>1 DEF SnapshotTrue, TreeTrue, RuntimeTrue, UpstreamTrue, Forcing, Ending
  <2> QED BY <2>3, <2>4, <2>5 DEF Facts
<1> QED BY <1>1, <1>2

LEMMA ReleaseStep ==
  ASSUME CleanupInv, Release
  PROVE  Facts'
BY EndStep DEF Release

-----------------------------------------------------------------------------
(* Everybody else.                                                          *)

(* A session changes by itself: it does not appear without a busy parent,   *)
(* and none becomes live where the worktree is gone and nobody runs.        *)
LEMMA StirStep ==
  ASSUME CleanupInv, NEW s \in Sessions, Stirs(s)
  PROVE  Facts'
<1>1. PICK x \in {"saved", "idle", "busy"} : Becomes(s, x)
  BY DEF Stirs, Wake, Open, Exit, Rest, Spawn
<1>2. /\ session' = [session EXCEPT ![s] = x]
      /\ UNCHANGED <<engine, worktree, clone, branch, upstream, config>>
      /\ UNCHANGED <<pc, why, stage, snap, tree>>
  BY <1>1 DEF Becomes, locals, work
<1>3. session \in [Sessions -> {"none", "saved", "idle", "busy"}]
  BY Types DEF CleanupInv, Resources
<1>4. session[s] = "none" => s # Root
  BY Roots DEF Stirs, Wake, Open, Exit, Rest, Spawn, IsLive
<1>5. Rootless' <=> Rootless
  BY <1>2, <1>3, <1>4, CleanupAssumption DEF Rootless
<1>6. Dormant => Dormant'
  <2> SUFFICES ASSUME worktree = "absent", Dead PROVE s \in Elsewhere
    BY <1>2, <1>3 DEF Dormant, Dead, IsLive
  <2>1. ASSUME s \notin Elsewhere PROVE FALSE
    <3>1. ~Wake(s) /\ ~Exit(s) /\ ~Rest(s)
      BY <2>1 DEF Dead, IsLive, Wake, Exit, Rest
    <3>2. ~Open(s) /\ ~Spawn(s)
      BY <2>1 DEF HasDirectory, Open, Spawn
    <3> QED BY <3>1, <3>2 DEF Stirs
  <2> QED BY <2>1
<1>7. Rootless /\ Escaped => Escaped'
  <2> SUFFICES ASSUME Rootless, NEW t \in Sessions, session[t] # "none" PROVE Escaped'
    BY DEF Escaped
  <2>1. t # Root /\ Root \in Ancestors[t]
    BY Roots DEF Rootless
  <2>2. session'[t] # "none"
    BY <1>2, <1>3
  <2>3. session'[Root] = "none"
    BY <1>5 DEF Rootless
  <2> QED BY <2>1, <2>2, <2>3 DEF Escaped
<1>8. Rootless /\ Forced => Forced'
  BY <1>2, <1>7 DEF Forced
<1>9. SnapshotTrue' /\ Purposes'
  BY <1>2 DEF CleanupInv, Facts, SnapshotTrue, Purposes
<1>10. TreeTrue'
  BY <1>2, <1>5, <1>6 DEF CleanupInv, Facts, TreeTrue
<1>11. RuntimeTrue'
  BY <1>2, <1>5, <1>6 DEF CleanupInv, Facts, RuntimeTrue
<1>12. UpstreamTrue'
  <2>1. ASSUME pc \in {"inspected", "clone", "release"}, "runtime" \notin snap.present
        PROVE  Rootless
    BY <2>1 DEF CleanupInv, Facts, RuntimeTrue
  <2> QED BY <1>2, <1>7, <2>1 DEF CleanupInv, Facts, UpstreamTrue
<1>13. Forcing'
  BY <1>2, <1>5, <1>7 DEF CleanupInv, Facts, Forcing
<1>14. Ending'
  BY <1>2, <1>5 DEF CleanupInv, Facts, Ending
<1>15. Identified'
  BY <1>2, <1>5, <1>8 DEF CleanupInv, Facts, Identified
<1> QED BY <1>9, <1>10, <1>11, <1>12, <1>13, <1>14, <1>15 DEF Facts

(* A session works: it needs the worktree and a branch to push, and without *)
(* the root it is one that escaped.                                         *)
LEMMA WorkStep ==
  ASSUME CleanupInv, Work
  PROVE  Facts'
<1>1. /\ worktree # "absent" /\ worktree' # "absent" /\ branch # Absent
      /\ branch' # Absent
      /\ UNCHANGED <<engine, session, pc, why, stage, snap, tree>>
      /\ config' = config \/ config'
      /\ clone = "absent" => clone' = "absent"
  BY CleanupAssumption DEF Work, locals, work
<1>2. Rootless => Escaped
  <2>1. PICK s \in Sessions : session[s] = "busy"
    BY DEF Work
  <2> QED BY <2>1, Orphans DEF CleanupInv
<1>3. UNCHANGED <<engine, session>> => (Rootless' <=> Rootless) /\ (Escaped' <=> Escaped)
  BY DEF Rootless, Escaped
<1>4. config
  BY <1>1 DEF CleanupInv, Facts, Identified
<1>5. config'
  BY <1>4 DEF Work
<1>6. SnapshotTrue'
  BY <1>1 DEF CleanupInv, Facts, SnapshotTrue
<1>7. TreeTrue' /\ RuntimeTrue'
  BY <1>1, <1>3 DEF CleanupInv, Facts, TreeTrue, RuntimeTrue, Dormant
<1>8. UpstreamTrue'
  BY <1>1, <1>2, <1>3 DEF CleanupInv, Facts, SnapshotTrue, RuntimeTrue, UpstreamTrue
<1>9. Purposes'
  BY <1>1 DEF CleanupInv, Facts, Purposes
<1>10. Forcing' /\ Ending'
  BY <1>1, <1>2, <1>3 DEF CleanupInv, Facts, Forcing, Ending
<1>11. Identified'
  BY <1>1, <1>5 DEF Identified
<1> QED BY <1>6, <1>7, <1>8, <1>9, <1>10, <1>11 DEF Facts

(* A step that changes only the remote branch, by deleting it, or nothing.  *)
LEMMA RestStep ==
  ASSUME CleanupInv, UNCHANGED <<engine, session, worktree, clone, branch, config>>,
         UNCHANGED <<pc, why, stage, snap, tree>>, upstream' \in {upstream, Absent}
  PROVE  Facts'
<1>1. SnapshotTrue' /\ TreeTrue' /\ RuntimeTrue'
  BY Same DEF CleanupInv, Facts, SnapshotTrue, TreeTrue, RuntimeTrue
<1>2. UpstreamTrue'
  BY Same DEF CleanupInv, Facts, UpstreamTrue
<1>3. Purposes' /\ Ending'
  BY Same DEF CleanupInv, Facts, Purposes, Ending
<1>4. Forcing'
  BY Same DEF CleanupInv, Facts, Forcing
<1>5. Identified'
  BY Same DEF CleanupInv, Facts, Identified
<1> QED BY <1>1, <1>2, <1>3, <1>4, <1>5 DEF Facts

LEMMA FactsStep == CleanupInv /\ [Next]_vars => CleanupInv'
<1> SUFFICES ASSUME CleanupInv, [Next]_vars PROVE Facts'
  BY TypeStep DEF CleanupInv
<1>1. CASE Looks
  BY <1>1, LooksStep
<1>2. CASE Tool /\ ~Looks
  BY <1>2, RemoveCloneStep, KillStep, DeleteStep, UpstreamStep, WorktreeStep, ForceStep,
     BranchStep, ReleaseStep DEF Tool, Looks
<1>3. CASE Interrupted
  BY <1>3, EndStep DEF Interrupted, resources
<1>4. CASE Work
  BY <1>4, WorkStep
<1>5. CASE HostDeletes
  BY <1>5, RestStep DEF HostDeletes, locals, work
<1>6. CASE \E s \in Sessions : Stirs(s)
  BY <1>6, StirStep
<1>7. CASE UNCHANGED vars
  BY <1>7, RestStep DEF vars, resources, locals, work
<1> QED BY <1>1, <1>2, <1>3, <1>4, <1>5, <1>6, <1>7 DEF Next, Surroundings, Stirs

LEMMA FactsInit == Init => CleanupInv
<1> SUFFICES ASSUME Init PROVE Facts
  BY TypeInit DEF CleanupInv
<1>1. pc = "idle" /\ why = "first" /\ stage = 0 /\ branch # Absent /\ config
  BY CleanupAssumption DEF Init
<1>2. SnapshotTrue /\ TreeTrue /\ RuntimeTrue /\ UpstreamTrue
  BY <1>1 DEF SnapshotTrue, TreeTrue, RuntimeTrue, UpstreamTrue
<1>3. Purposes /\ Forcing /\ Ending /\ Identified
  BY <1>1 DEF Purposes, Forcing, Ending, Identified
<1> QED BY <1>2, <1>3 DEF Facts

LEMMA Invariance == Spec => []CleanupInv
BY FactsInit, FactsStep, PTL DEF Spec

-----------------------------------------------------------------------------
(* What the cleanup promises.                                               *)

(* While the remote branch exists, the local branch and the configuration   *)
(* that lead to it exist too, unless Orca was told to force the worktree of *)
(* an escaped descendant (configuredUpstream reads them).                   *)
THEOREM Identifiable == Spec => []RemoteIdentifiable
<1>1. CleanupInv => RemoteIdentifiable
  BY DEF CleanupInv, Facts, Identified, RemoteIdentifiable
<1> QED BY <1>1, Invariance, PTL

(* When removeTaskEpisodeOwnership runs, nothing the entry owned is left.   *)
THEOREM OwnershipLast == Spec => OwnershipRemovedLast
<1>1. CleanupInv /\ [Next]_vars => [owned' # owned => NothingLeft]_vars
  <2> SUFFICES ASSUME CleanupInv, [Next]_vars, owned' # owned PROVE NothingLeft
    OBVIOUS
  <2>1. Release
    <3>1. ~Looks
      BY LooksOnly DEF resources
    <3>2. ~(\E s \in Sessions : Stirs(s))
      BY DEF Stirs, Wake, Open, Exit, Rest, Spawn, Becomes
    <3>3. ~Interrupted /\ ~Work /\ ~HostDeletes /\ ~UNCHANGED vars
      BY DEF Interrupted, Work, HostDeletes, vars, resources
    <3>4. /\ ~RemoveClone /\ ~KillSession /\ ~DeleteSession /\ ~RemoveUpstream
          /\ ~RemoveWorktree /\ ~ForceWorktree /\ ~RemoveBranch
      BY DEF RemoveClone, KillSession, DeleteSession, RemoveUpstream, RemoveWorktree,
             ForceWorktree, RemoveBranch, Throw, resources
    <3> QED BY <3>1, <3>2, <3>3, <3>4 DEF Next, Tool, Surroundings, Looks, Stirs
  <2>2. pc = "release" /\ snap.present = {}
    BY <2>1 DEF Release, CleanupInv, Facts, Ending
  <2>3. worktree = "absent" /\ branch = Absent /\ upstream = Absent
    BY <2>2 DEF CleanupInv, Facts, SnapshotTrue, UpstreamTrue
  <2>4. Rootless /\ Dead
    BY <2>2, <2>3 DEF CleanupInv, Facts, RuntimeTrue, Dormant
  <2> QED BY <2>3, <2>4 DEF NothingLeft, Rootless, Dead
<1> QED BY <1>1, Invariance, PTL DEF Spec, OwnershipRemovedLast

(* What a step that is not a removal does to the worktree and the refs.     *)
LEMMA Untouched ==
  ASSUME TypeOK, Looks \/ Interrupted \/ RemoveClone \/ Release \/ KillSession
                 \/ DeleteSession \/ (\E s \in Sessions : Stirs(s)) \/ UNCHANGED vars
  PROVE  UNCHANGED <<worktree, branch, upstream>>
<1>1. CASE Looks
  BY <1>1, LooksOnly DEF resources
<1>2. CASE \E s \in Sessions : Stirs(s)
  BY <1>2 DEF Stirs, Wake, Open, Exit, Rest, Spawn, Becomes
<1>3. CASE Interrupted \/ UNCHANGED vars
  BY <1>3 DEF Interrupted, vars, resources
<1>4. CASE RemoveClone \/ Release \/ KillSession \/ DeleteSession
  BY <1>4 DEF RemoveClone, Release, KillSession, DeleteSession, Throw, resources
<1> QED BY <1>1, <1>2, <1>3, <1>4

LEMMA Touching ==
  ASSUME TypeOK, [Next]_vars
  PROVE  \/ UNCHANGED <<worktree, branch, upstream>>
         \/ RemoveUpstream \/ RemoveWorktree \/ ForceWorktree \/ RemoveBranch
         \/ Work \/ HostDeletes
BY Untouched DEF Next, Tool, Surroundings, Looks, Stirs

(* A ref is deleted only where it was at the confirmed head, whatever the   *)
(* sessions committed and pushed meanwhile (removeUpstream, removeBranch).  *)
THEOREM RefsDeleted == Spec => OnlyTerminalRefsDeleted
<1> DEFINE Step == /\ branch' = Absent /\ ~Forced => branch \in {Expected, Absent}
                   /\ upstream' = Absent => upstream \in {Expected, Absent}
<1>1. CleanupInv /\ [Next]_vars => [Step]_vars
  <2> SUFFICES ASSUME CleanupInv, [Next]_vars PROVE Step
    OBVIOUS
  <2>1. CASE UNCHANGED <<worktree, branch, upstream>>
    BY <2>1
  <2>2. CASE RemoveUpstream
    BY <2>2, CleanupAssumption DEF RemoveUpstream
  <2>3. CASE RemoveWorktree
    BY <2>3 DEF RemoveWorktree, Throw, resources
  <2>4. CASE ForceWorktree
    BY <2>4 DEF ForceWorktree, CleanupInv, Facts, Forcing, Forced
  <2>5. CASE RemoveBranch
    BY <2>5 DEF RemoveBranch, Throw, resources
  <2>6. CASE Work \/ HostDeletes
    BY <2>6, CleanupAssumption DEF Work, HostDeletes
  <2> QED BY <2>1, <2>2, <2>3, <2>4, <2>5, <2>6, Touching DEF CleanupInv
<1> QED BY <1>1, Invariance, PTL DEF Spec, OnlyTerminalRefsDeleted

(* The worktree goes only clean, and after the nested clone whose bytes its *)
(* status does not show (removeWorktree, cleanupEpisodeTaskHistoryStore).   *)
THEOREM WorktreeKept == Spec => WorktreeBytesKept
<1> DEFINE Step == worktree' = "absent" /\ worktree # "absent" /\ ~Forced
                     => worktree = "clean" /\ clone = "absent"
<1>1. CleanupInv /\ [Next]_vars => [Step]_vars
  <2> SUFFICES ASSUME CleanupInv, [Next]_vars,
                      worktree' = "absent", worktree # "absent", ~Forced
               PROVE  worktree = "clean" /\ clone = "absent"
    OBVIOUS
  <2>1. CASE RemoveWorktree
    <3>1. worktree = "clean" /\ why = "before"
      BY <2>1 DEF RemoveWorktree, Removing, Inspected, Throw, resources
    <3> QED BY <3>1 DEF CleanupInv, Facts, Purposes
  <2>2. CASE ForceWorktree
    BY <2>2 DEF ForceWorktree, CleanupInv, Facts, Forcing, Forced
  <2>3. ~RemoveUpstream /\ ~RemoveBranch /\ ~HostDeletes /\ ~Work
    BY DEF RemoveUpstream, RemoveBranch, HostDeletes, Work, Throw, resources
  <2> QED BY <2>1, <2>2, <2>3, Touching DEF CleanupInv
<1> QED BY <1>1, Invariance, PTL DEF Spec, WorktreeBytesKept
=============================================================================
