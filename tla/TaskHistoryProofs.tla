-------------------------- MODULE TaskHistoryProofs --------------------------
(***************************************************************************)
(* Proofs about the task-history operations, for any processes, clones,    *)
(* tasks and bounds: they implement TaskLog, they lose no local work, they *)
(* publish the edit they report and no agent's draft of another task, and  *)
(* only local work blocks a preparation that nothing interferes with.      *)
(***************************************************************************)
EXTENDS TaskHistory, TLAPS, WellFoundedInduction

(* The steps of prepareTaskHistoryWorkspace after the first answer of the   *)
(* remote, and of the operations that only a published history has.         *)
Preparing ==
  {"absent", "refresh", "local", "advance", "bootstrap", "refetch", "clone", "compare",
   "merge", "proof", "unlink", "link", "reprove", "recheck"}

PublishedOnly ==
  Preparing \cup {"probe", "locate", "fetch", "forward", "read", "clean", "before", "after"}

Publishing == {"base", "pull", "edit", "commit", "head", "push", "reread"}

(* What a process knows at its step, and nobody can make false.             *)
Placed(p) ==
  /\ pc[p] \in PublishedOnly => kind = "published"
  /\ pc[p] \in Publishing /\ kind # "published" => call[p].site = Primary
  /\ pc[p] \in {"compare", "merge"} => Here(Primary)
  /\ pc[p] \in {"forward", "pull", "edit", "commit", "head", "push"} => Here(call[p].site)
  /\ pc[p] = "pull" => kind = "beads"
  /\ pc[p] = "commit" => kind # "beads"
  /\ pc[p] \in Preparing => call[p].seen \subseteq remote
  /\ pc[p] = "advance" => call[p].head \subseteq call[p].seen
  /\ pc[p] = "push" /\ kind # "published" => call[p].head \subseteq repo[Primary].head

(* The ordinary and the Beads store are there, and a Beads store has        *)
(* nothing uncommitted.                                                     *)
OwnStore ==
  /\ kind # "published" => Here(Primary)
  /\ kind = "beads" => Clean(Primary)

HistoryInv ==
  /\ TypeOK
  /\ OwnStore
  /\ claimed \subseteq remote
  /\ \A p \in Procs : Placed(p)

-----------------------------------------------------------------------------
(* Types                                                                    *)

LEMMA PrimarySite == Primary \in Sites
BY DEF Sites

LEMMA ContentType ==
  ASSUME NEW h \in Histories, NEW t PROVE Content(h, t) \in Nat
<1>1. CASE \E c \in h : Latest(c, h, t)
  <2>1. (CHOOSE c \in h : Latest(c, h, t)) \in h
    BY <1>1
  <2> QED BY <2>1, <1>1 DEF Content, Histories, Commits
<1>2. CASE ~ \E c \in h : Latest(c, h, t)
  BY <1>2 DEF Content
<1> QED BY <1>1, <1>2

LEMMA BytesType ==
  ASSUME NEW h \in Histories PROVE Bytes(h) \in [Tasks -> Nat]
BY ContentType DEF Bytes

LEMMA CloneType ==
  ASSUME NEW h \in Histories
  PROVE  /\ CloneOf(h) \in CloneRecord /\ CloneOf(h) # NoClone
         /\ CloneOf(h).head = h /\ CloneOf(h).work = Bytes(h)
<1>1. CloneOf(h) \in CloneRecord
  BY BytesType DEF CloneOf, CloneRecord
<1> QED BY <1>1, TaskHistoryAssumption DEF CloneOf

LEMMA CommitType ==
  ASSUME NEW t \in Tasks \cup {Marker}, NEW n \in Nat
  PROVE  Commit(t, n) \in Commits
BY DEF Commit, Commits

LEMMA FreshType == edits \in Seq({"tool", "agent", "host"}) => Fresh \in Nat
BY DEF Fresh

(* A clone in the working tree of which only dirty files were changed, or   *)
(* that was given a larger history.                                         *)
KeptFrom(r, s) ==
  Here(s) =>
    /\ r # NoClone /\ repo[s].head \subseteq r.head
    /\ \A t \in Dirty(s) : r.work[t] \in {repo[s].work[t], Fresh}

WorkKept == \A s \in Sites : KeptFrom(repo'[s], s)

LEMMA OneClone ==
  ASSUME TypeOK, NEW s \in Sites, NEW r \in CloneRecord, KeptFrom(r, s),
         repo' = [repo EXCEPT ![s] = r]
  PROVE  /\ repo' \in [Sites -> {NoClone} \cup CloneRecord]
         /\ WorkKept /\ Here(s)' /\ repo'[s] = r
<1>1. \A q \in Sites \ {s} : repo'[q] = repo[q]
  BY DEF TypeOK
<1>2. repo'[s] = r /\ r # NoClone
  BY TaskHistoryAssumption DEF TypeOK
<1> QED BY <1>1, <1>2 DEF TypeOK, WorkKept, KeptFrom, Here

LEMMA SameClones ==
  ASSUME TypeOK, UNCHANGED repo PROVE WorkKept
BY DEF WorkKept, KeptFrom, Here

-----------------------------------------------------------------------------
(* How a process goes on.  Only p moves, and c is what it knows then.       *)
Moves(p, l, c) ==
  /\ kind' = kind /\ calm' \subseteq Procs /\ calls' \in Nat /\ trouble' \in Nat
  /\ DOMAIN pc' = Procs /\ pc'[p] = l
  /\ call' \in [Procs -> Invocation] /\ call'[p] = c
  /\ \A q \in Procs : q # p => pc'[q] = pc[q] /\ call'[q] = call[q]

LEMMA Going ==
  ASSUME TypeOK, NEW p \in Procs, NEW l, Step(p, l), NEW c \in Invocation,
         call' = [call EXCEPT ![p] = c]
  PROVE  Moves(p, l, c)
BY DEF TypeOK, Step, Moves, bounds

LEMMA Staying ==
  ASSUME TypeOK, NEW p \in Procs, NEW l, Goto(p, l) PROVE Moves(p, l, call[p])
BY DEF TypeOK, Goto, Step, Moves, bounds

Results == {"none", "blocked", "prepared", "ready", "head", "published", "failed"}

Idle(p) == \E c \in Invocation : Moves(p, "idle", c)

LEMMA EndType ==
  ASSUME TypeOK, NEW p \in Procs, NEW r \in Results
  PROVE  /\ \E c \in Invocation : Ended(p, r) = [call EXCEPT ![p] = c]
<1> DEFINE c == [call[p] EXCEPT !.result = r, !.seen = NoRef, !.head = NoRef, !.edit = 0]
<1>1. c \in Invocation
  BY DEF TypeOK, Invocation, Results, NoRef, Histories
<1>2. Ended(p, r) = [call EXCEPT ![p] = c]
  BY DEF TypeOK, Ended
<1> QED BY <1>1, <1>2

LEMMA Blocking ==
  ASSUME TypeOK, NEW p \in Procs, Blocked(p) PROVE Idle(p) /\ claimed' = claimed
BY EndType, Going DEF Blocked, Idle, Results

LEMMA Reporting ==
  ASSUME TypeOK, NEW p \in Procs, NEW r \in Results, NEW h, Report(p, r, h)
  PROVE  Idle(p) /\ claimed' = claimed \cup h
BY EndType, Going DEF Report, Idle

LEMMA Failing ==
  ASSUME TypeOK, NEW p \in Procs, NEW r \in Results, Fails(p, r)
  PROVE  Idle(p) /\ claimed' = claimed
<1>1. PICK c \in Invocation : Ended(p, r) = [call EXCEPT ![p] = c]
  BY EndType
<1>2. Moves(p, "idle", c)
  BY <1>1 DEF TypeOK, Fails, Trouble, Moves
<1> QED BY <1>2 DEF Idle, Fails

LEMMA Reading ==
  ASSUME TypeOK, NEW p \in Procs, NEW l, NEW h \in Histories, Step(p, l)
  PROVE  /\ call' = [call EXCEPT ![p].seen = h] =>
              Moves(p, l, [call[p] EXCEPT !.seen = h])
         /\ call' = [call EXCEPT ![p].head = h] =>
              Moves(p, l, [call[p] EXCEPT !.head = h])
<1>1. /\ [call[p] EXCEPT !.seen = h] \in Invocation
      /\ [call[p] EXCEPT !.head = h] \in Invocation
  BY DEF TypeOK, Invocation
<1>2. call' = [call EXCEPT ![p].seen = h] => call' = [call EXCEPT ![p] = [call[p] EXCEPT !.seen = h]]
  BY DEF TypeOK
<1>3. call' = [call EXCEPT ![p].head = h] => call' = [call EXCEPT ![p] = [call[p] EXCEPT !.head = h]]
  BY DEF TypeOK
<1> QED BY <1>1, <1>2, <1>3, Going

-----------------------------------------------------------------------------
(* What every step of a process does.                                       *)
StoreOK ==
  /\ remote \in Histories /\ local \in Histories /\ cache \in Histories
  /\ repo \in [Sites -> {NoClone} \cup CloneRecord]
  /\ root \in {"none", "file", "link", "gone"}
  /\ edits \in Seq({"tool", "agent", "host"})

Growing ==
  /\ remote \subseteq remote' /\ local \subseteq local'
  /\ claimed \subseteq claimed' /\ claimed' \subseteq remote'
  /\ WorkKept

Good(p) ==
  /\ \E l : \E c \in Invocation : Moves(p, l, c)
  /\ StoreOK' /\ Growing
  /\ Placed(p)' /\ (kind = "beads" => Clean(Primary))'

LEMMA OthersStay ==
  ASSUME HistoryInv, NEW q \in Procs, Growing, kind' = kind,
         pc'[q] = pc[q], call'[q] = call[q]
  PROVE  Placed(q)'
<1>1. Placed(q) /\ call[q].site \in Sites
  BY DEF HistoryInv, TypeOK, Invocation
<1>2. \A s \in Sites : Here(s) => Here(s)' /\ repo[s].head \subseteq repo'[s].head
  BY DEF Growing, WorkKept, KeptFrom, Here
<1>3. kind # "published" => Here(Primary)
  BY DEF HistoryInv, OwnStore
<1> QED BY <1>1, <1>2, <1>3, PrimarySite DEF Placed, Growing, Here

LEMMA GoodKeeps ==
  ASSUME HistoryInv, NEW p \in Procs, Good(p) PROVE HistoryInv'
<1> PICK l : \E c \in Invocation : Moves(p, l, c)
  BY DEF Good
<1> PICK c \in Invocation : Moves(p, l, c)
  OBVIOUS
<1>1. TypeOK'
  <2>1. kind' \in Kinds
    BY DEF HistoryInv, TypeOK, Moves
  <2>2. claimed' \in Histories
    BY DEF Good, Growing, StoreOK, Histories
  <2> QED BY <2>1, <2>2 DEF Good, StoreOK, TypeOK, Moves
<1>2. OwnStore'
  <2>1. kind' # "published" => Here(Primary)'
    BY PrimarySite DEF HistoryInv, OwnStore, Moves, Good, Growing, WorkKept, KeptFrom, Here
  <2> QED BY <2>1 DEF OwnStore, Good
<1>3. \A q \in Procs : Placed(q)'
  BY OthersStay DEF Moves, Good
<1> QED BY <1>1, <1>2, <1>3 DEF HistoryInv, Good, Growing

LEMMA IdlePlaced ==
  ASSUME NEW p \in Procs, Idle(p) PROVE Placed(p)'
BY DEF Idle, Moves, Placed, PublishedOnly, Preparing, Publishing

LEMMA SameClean ==
  ASSUME HistoryInv, UNCHANGED <<kind, repo>> PROVE (kind = "beads" => Clean(Primary))'
BY DEF HistoryInv, OwnStore, Clean, Dirty, Content, Latest

(* The steps that change neither a history nor a clone.                     *)
LEMMA Unmoved ==
  ASSUME HistoryInv, NEW p \in Procs, NEW l, NEW c \in Invocation, Moves(p, l, c),
         UNCHANGED <<remote, local, repo, edits>>, cache' \in Histories,
         root' \in {"none", "file", "link", "gone"},
         claimed' = claimed \/ (\E h \in SUBSET remote : claimed' = claimed \cup h),
         Placed(p)'
  PROVE  Good(p)
<1>1. kind' = kind
  BY DEF Moves
<1>2. (kind = "beads" => Clean(Primary))'
  BY <1>1, SameClean
<1>3. WorkKept
  BY SameClones DEF HistoryInv
<1>4. StoreOK'
  BY DEF HistoryInv, TypeOK, StoreOK
<1>5. Growing
  BY <1>3 DEF Growing, HistoryInv
<1> QED BY <1>2, <1>4, <1>5 DEF Good

LEMMA UnmovedEnd ==
  ASSUME HistoryInv, NEW p \in Procs, Idle(p),
         UNCHANGED <<remote, local, repo, edits>>, cache' \in Histories,
         root' \in {"none", "file", "link", "gone"},
         claimed' = claimed \/ (\E h \in SUBSET remote : claimed' = claimed \cup h)
  PROVE  Good(p)
BY IdlePlaced, Unmoved DEF Idle

-----------------------------------------------------------------------------
(* The steps of prepareTaskHistoryWorkspace that leave the histories alone. *)
LEMMA PrepareReads ==
  ASSUME HistoryInv, NEW p \in Procs,
         Probe(p) \/ Absent(p) \/ Refresh(p) \/ Compare(p)
  PROVE  Good(p)
<1>1. /\ TypeOK /\ Placed(p) /\ call[p] \in Invocation
      /\ remote \in Histories /\ NoRef \in Histories
  BY DEF HistoryInv, TypeOK, NoRef, Histories
<1>2. /\ UNCHANGED <<remote, local, repo, edits, root>> /\ cache' \in Histories
      /\ root' \in {"none", "file", "link", "gone"}
  BY <1>1 DEF Probe, Absent, Refresh, Compare, Same, refs, TypeOK
<1>3. CASE Probe(p)
  <2>1. kind = "published"
    BY <1>1, <1>3 DEF Probe, Placed, PublishedOnly
  <2>2. CASE Startable
    <3> DEFINE c == [call[p] EXCEPT !.seen = remote]
               l == IF remote = NoRef THEN "absent" ELSE "refresh"
    <3>1. c \in Invocation /\ c.seen = remote
      BY <1>1 DEF Invocation
    <3>2. Moves(p, l, c) /\ claimed' = claimed
      BY <1>1, <1>3, <2>2, Reading DEF Probe
    <3>3. Placed(p)'
      BY <1>2, <2>1, <3>1, <3>2 DEF Moves, Placed, PublishedOnly, Preparing, Publishing
    <3> QED BY <1>2, <3>1, <3>2, <3>3, Unmoved
  <2>3. CASE ~Startable
    BY <1>1, <1>2, <1>3, <2>3, Blocking, UnmovedEnd DEF Probe
  <2> QED BY <2>2, <2>3
<1>4. CASE Absent(p) \/ Refresh(p) \/ Compare(p)
  <2>1. CASE Blocked(p)
    BY <1>1, <1>2, <2>1, Blocking, UnmovedEnd
  <2>2. ASSUME NEW l \in {"bootstrap", "local", "proof", "merge"}, Goto(p, l), claimed' = claimed,
               l = "merge" => Here(Primary)
        PROVE  Good(p)
    <3>1. Moves(p, l, call[p])
      BY <1>1, <2>2, Staying
    <3>2. pc[p] \in {"absent", "refresh", "compare"}
      BY <1>4 DEF Absent, Refresh, Compare
    <3>3. Placed(p)'
      BY <1>1, <1>2, <2>2, <3>1, <3>2 DEF Moves, Placed, PublishedOnly, Preparing, Publishing, Here
    <3> QED BY <1>1, <1>2, <2>2, <3>1, <3>3, Unmoved
  <2>3. Compare(p) => Here(Primary)
    BY <1>1 DEF Compare, Placed
  <2> QED BY <1>4, <2>1, <2>2, <2>3 DEF Absent, Refresh, Compare
<1> QED BY <1>3, <1>4

(* The proofs, and the root configuration: what is reported as published is *)
(* the history the remote had when it was asked.                            *)
LEMMA PrepareEnds ==
  ASSUME HistoryInv, NEW p \in Procs,
         Proof(p) \/ Unlink(p) \/ Link(p) \/ Reprove(p)
  PROVE  Good(p)
<1>1. /\ TypeOK /\ Placed(p) /\ call[p] \in Invocation
      /\ pc[p] \in {"proof", "unlink", "link", "reprove", "recheck"}
      /\ kind = "published" /\ call[p].seen \in SUBSET remote
  BY DEF HistoryInv, TypeOK, Placed, Proof, Unlink, Link, Reprove, PublishedOnly, Preparing
<1>2. /\ UNCHANGED <<remote, local, repo, edits>> /\ cache' \in Histories
      /\ root' \in {"none", "file", "link", "gone"}
  BY <1>1 DEF Proof, Unlink, Link, Reprove, Same, refs, TypeOK
<1>3. CASE Blocked(p)
  BY <1>1, <1>2, <1>3, Blocking, UnmovedEnd
<1>4. CASE Report(p, "prepared", call[p].seen)
  <2>1. Idle(p) /\ claimed' = claimed \cup call[p].seen
    BY <1>1, <1>4, Reporting DEF Results
  <2> QED BY <1>1, <1>2, <2>1, UnmovedEnd
<1>5. ASSUME NEW l \in {"unlink", "link", "recheck", "reprove"}, Goto(p, l), claimed' = claimed
      PROVE  Good(p)
  <2>1. Moves(p, l, call[p])
    BY <1>1, <1>5, Staying
  <2>2. Placed(p)'
    BY <1>1, <1>2, <2>1 DEF Moves, Placed, PublishedOnly, Preparing, Publishing
  <2> QED BY <1>1, <1>2, <1>5, <2>1, <2>2, Unmoved
<1> QED BY <1>3, <1>4, <1>5 DEF Proof, Unlink, Link, Reprove

(* The steps that move a branch: it is created or gets a larger history.    *)
LEMMA PrepareRefs ==
  ASSUME HistoryInv, NEW p \in Procs,
         Local(p) \/ Advance(p) \/ Bootstrap(p) \/ Refetch(p)
  PROVE  Good(p)
<1>1. /\ TypeOK /\ Placed(p) /\ call[p] \in Invocation
      /\ pc[p] \in {"local", "advance", "bootstrap", "refetch"}
      /\ kind = "published" /\ call[p].seen \in SUBSET remote
      /\ remote \in Histories /\ local \in Histories /\ call[p].seen \in Histories
  BY DEF HistoryInv, TypeOK, Placed, Local, Advance, Bootstrap, Refetch, PublishedOnly,
         Preparing, Invocation
<1>2. repo' = repo /\ root' = root
  BY DEF Local, Advance, Bootstrap, Refetch
<1> DEFINE
      Moved == /\ remote' \in Histories /\ local' \in Histories /\ cache' \in Histories
               /\ edits' \in Seq({"tool", "agent", "host"})
               /\ remote \subseteq remote' /\ local \subseteq local'
<1>3. Local(p) => Moved
  BY <1>1 DEF Local, TypeOK, NoRef
<1>4. Advance(p) => Moved
  BY <1>1 DEF Advance, TypeOK, Placed
<1>5. Bootstrap(p) => Moved
  <2> SUFFICES ASSUME Bootstrap(p) PROVE Moved
    OBVIOUS
  <2>0. edits \in Seq({"tool", "agent", "host"}) /\ cache \in Histories
    BY <1>1 DEF TypeOK
  <2>1. Fresh \in Nat
    BY ONLY <2>0, FreshType
  <2>2. {Commit(Marker, Fresh)} \in Histories
    <3>1. ASSUME NEW n \in Nat PROVE Commit(Marker, n) \in Commits
      BY CommitType
    <3>2. Commit(Marker, Fresh) \in Commits
      BY ONLY <2>1, <3>1
    <3> QED BY ONLY <3>2 DEF Histories
  <2>3. Append(edits, "tool") \in Seq({"tool", "agent", "host"})
    BY <2>0
  <2>4. local' = local /\ cache' = cache
    BY DEF Bootstrap
  <2>5. CASE remote = NoRef
    <3>1. remote' = {Commit(Marker, Fresh)} /\ edits' = Append(edits, "tool")
      BY <2>5 DEF Bootstrap
    <3> QED BY <1>1, <2>0, <2>2, <2>3, <2>4, <2>5, <3>1 DEF NoRef
  <2>6. CASE remote # NoRef
    BY <1>1, <2>0, <2>4, <2>6 DEF Bootstrap
  <2> QED BY <2>5, <2>6
<1>6. Refetch(p) => Moved
  BY <1>1 DEF Refetch, TypeOK, NoRef
<1>7. Moved
  BY <1>3, <1>4, <1>5, <1>6
<1>8. ASSUME NEW l, NEW c \in Invocation, Moves(p, l, c), claimed' = claimed, Placed(p)'
      PROVE  Good(p)
  <2>1. StoreOK' /\ Growing
    BY <1>1, <1>2, <1>7, <1>8, SameClones DEF TypeOK, StoreOK, Growing, HistoryInv
  <2>2. (kind = "beads" => Clean(Primary))'
    BY <1>1, <1>8 DEF Moves
  <2> QED BY <1>8, <2>1, <2>2 DEF Good
<1>9. ASSUME Idle(p), claimed' = claimed PROVE Good(p)
  BY <1>8, <1>9, IdlePlaced DEF Idle
<1>10. ASSUME NEW l \in {"clone", "advance", "refetch"}, NEW c \in Invocation, Moves(p, l, c),
              claimed' = claimed, c.seen \subseteq remote',
              l = "advance" => c.head \subseteq c.seen
       PROVE  Good(p)
  <2>1. Placed(p)'
    BY <1>1, <1>10 DEF Moves, Placed, PublishedOnly, Preparing, Publishing
  <2> QED BY <1>8, <1>10, <2>1
<1>11. ASSUME NEW l \in {"clone", "refetch"}, Goto(p, l), claimed' = claimed
       PROVE  Good(p)
  BY <1>1, <1>7, <1>10, <1>11, Staying
<1>12. CASE Local(p)
  <2>1. CASE Behind(p) /\ Step(p, "advance") /\ call' = [call EXCEPT ![p].head = local]
             /\ claimed' = claimed
    <3> DEFINE c == [call[p] EXCEPT !.head = local]
    <3>1. c \in Invocation /\ c.seen = call[p].seen /\ c.head = local
      BY <1>1 DEF Invocation
    <3>2. Moves(p, "advance", c)
      BY <1>1, <2>1, Reading
    <3> QED BY <1>1, <1>7, <1>10, <2>1, <3>1, <3>2 DEF Behind
  <2> QED BY <1>1, <1>9, <1>11, <1>12, <2>1, Blocking DEF Local
<1>13. CASE Advance(p)
  BY <1>1, <1>9, <1>11, <1>13, Blocking DEF Advance
<1>14. CASE Bootstrap(p)
  BY <1>1, <1>9, <1>11, <1>14, Blocking, Failing DEF Bootstrap, Results
<1>15. CASE Refetch(p)
  <2>1. CASE Step(p, "clone") /\ call' = [call EXCEPT ![p].seen = remote] /\ claimed' = claimed
    <3> DEFINE c == [call[p] EXCEPT !.seen = remote]
    <3>1. c \in Invocation /\ c.seen = remote
      BY <1>1 DEF Invocation
    <3>2. Moves(p, "clone", c)
      BY <1>1, <2>1, Reading
    <3> QED BY <1>7, <1>10, <2>1, <3>1, <3>2
  <2> QED BY <1>1, <1>9, <1>15, <2>1, Blocking DEF Refetch
<1> QED BY <1>12, <1>13, <1>14, <1>15

-----------------------------------------------------------------------------
(* The steps that change one clone.                                         *)
LEMMA OneCloneGood ==
  ASSUME HistoryInv, NEW p \in Procs, NEW l, NEW c \in Invocation, Moves(p, l, c),
         NEW s \in Sites, NEW r \in CloneRecord, KeptFrom(r, s),
         repo' = [repo EXCEPT ![s] = r],
         UNCHANGED <<remote, local, cache, root, claimed>>,
         edits' \in Seq({"tool", "agent", "host"}),
         kind = "beads" /\ s = Primary => r.work = Bytes(r.head),
         Here(s)' => Placed(p)'
  PROVE  Good(p)
<1>1. TypeOK
  BY DEF HistoryInv
<1>2. /\ repo' \in [Sites -> {NoClone} \cup CloneRecord]
      /\ WorkKept /\ Here(s)' /\ repo'[s] = r
  BY <1>1, OneClone
<1>3. StoreOK' /\ Growing
  BY <1>1, <1>2 DEF HistoryInv, TypeOK, StoreOK, Growing
<1>4. (kind = "beads" => Clean(Primary))'
  <2> SUFFICES ASSUME kind = "beads" PROVE Clean(Primary)'
    BY DEF Moves
  <2>1. CASE s = Primary
    <3>1. \A t \in Tasks : repo'[Primary].work[t] = Content(repo'[Primary].head, t)
      BY <1>2, <2>1 DEF Bytes
    <3> QED BY <3>1 DEF Clean, Dirty, Content, Latest
  <2>2. CASE s # Primary
    <3>1. repo'[Primary] = repo[Primary]
      BY <1>1, <2>2, PrimarySite DEF TypeOK
    <3> QED BY <3>1 DEF HistoryInv, OwnStore, Clean, Dirty, Content, Latest
  <2> QED BY <2>1, <2>2
<1> QED BY <1>2, <1>3, <1>4 DEF Good

LEMMA NewClone ==
  ASSUME TypeOK, NEW s \in Sites, NEW h \in Histories, ~Here(s)
  PROVE  CloneOf(h) \in CloneRecord /\ KeptFrom(CloneOf(h), s)
BY CloneType DEF KeptFrom

LEMMA FetchedClone ==
  ASSUME TypeOK, NEW s \in Sites, NEW h \in Histories, Here(s)
  PROVE  /\ [repo[s] EXCEPT !.seen = h] \in CloneRecord
         /\ KeptFrom([repo[s] EXCEPT !.seen = h], s)
         /\ [repo EXCEPT ![s].seen = h] = [repo EXCEPT ![s] = [repo[s] EXCEPT !.seen = h]]
<1>1. repo[s] \in CloneRecord
  BY DEF TypeOK, Here
<1>2. [repo[s] EXCEPT !.seen = h] \in CloneRecord
  BY <1>1 DEF CloneRecord
<1> QED BY <1>1, <1>2, TaskHistoryAssumption DEF KeptFrom, CloneRecord

LEMMA Forwarded ==
  ASSUME TypeOK, NEW s \in Sites, NEW h \in Histories, Here(s), CanForward(s, h), Forward(s, h)
  PROVE  \E r \in CloneRecord : repo' = [repo EXCEPT ![s] = r] /\ KeptFrom(r, s)
<1> DEFINE head == repo[s].head \cup h
           w == [t \in Tasks |-> IF t \in Dirty(s) THEN repo[s].work[t] ELSE Content(head, t)]
           r == [repo[s] EXCEPT !.head = head, !.work = w]
<1>1. repo[s] \in CloneRecord /\ head \in Histories
  BY DEF TypeOK, Here, CloneRecord, Histories
<1>2. w \in [Tasks -> Nat]
  BY <1>1, ContentType DEF CloneRecord
<1>3. r \in CloneRecord /\ r.head = head /\ r.work = w
  BY <1>1, <1>2 DEF CloneRecord
<1>4. repo' = [repo EXCEPT ![s] = r]
  BY <1>1 DEF Forward, TypeOK, CloneRecord
<1>5. KeptFrom(r, s)
  BY <1>3, TaskHistoryAssumption DEF KeptFrom, Dirty
<1> QED BY <1>3, <1>4, <1>5

LEMMA NoCloneChanged ==
  ASSUME HistoryInv, NEW p \in Procs, Idle(p), claimed' = claimed,
         UNCHANGED <<remote, local, cache, repo, root, edits>>
  PROVE  Good(p)
BY UnmovedEnd DEF HistoryInv, TypeOK

LEMMA CloneAndMerge ==
  ASSUME HistoryInv, NEW p \in Procs, Clone(p) \/ Merge(p)
  PROVE  Good(p)
<1>1. /\ TypeOK /\ Placed(p) /\ call[p] \in Invocation /\ remote \in Histories
      /\ pc[p] \in {"clone", "merge"}
      /\ kind = "published" /\ call[p].seen \in SUBSET remote /\ Primary \in Sites
      /\ edits \in Seq({"tool", "agent", "host"})
  BY PrimarySite DEF HistoryInv, TypeOK, Placed, Clone, Merge, PublishedOnly, Preparing
<1>2. UNCHANGED <<remote, local, cache, root, edits>>
  BY DEF Clone, Merge, refs
<1>3. ASSUME NEW l \in {"idle", "compare", "proof"}, NEW c \in Invocation, Moves(p, l, c),
             claimed' = claimed, l # "idle" => c.seen = call[p].seen,
             NEW r \in CloneRecord, KeptFrom(r, Primary), repo' = [repo EXCEPT ![Primary] = r]
      PROVE  Good(p)
  <2>1. Here(Primary)' => Placed(p)'
    BY <1>1, <1>2, <1>3 DEF Moves, Placed, PublishedOnly, Preparing, Publishing, Here
  <2> QED BY <1>1, <1>2, <1>3, <2>1, OneCloneGood
<1>4. ASSUME Blocked(p) \/ (Goto(p, "proof") /\ UNCHANGED claimed)
      PROVE  /\ claimed' = claimed
             /\ \E l \in {"idle", "proof"}, c \in Invocation :
                  Moves(p, l, c) /\ (l # "idle" => c.seen = call[p].seen)
  BY <1>1, <1>4, Blocking, Staying DEF Idle
<1>5. CASE Clone(p)
  <2>1. CASE Here(Primary) /\ ~Independent(Primary) /\ Blocked(p) /\ UNCHANGED repo
    BY <1>1, <1>2, <2>1, Blocking, NoCloneChanged
  <2>2. CASE /\ Here(Primary)
             /\ repo' = [repo EXCEPT ![Primary].seen = remote]
             /\ Step(p, "compare") /\ call' = [call EXCEPT ![p].head = remote]
             /\ UNCHANGED claimed
    <3> DEFINE c == [call[p] EXCEPT !.head = remote]
    <3>1. c \in Invocation /\ c.seen = call[p].seen
      BY <1>1 DEF Invocation
    <3>2. Moves(p, "compare", c)
      BY <1>1, <2>2, Reading
    <3> QED BY <1>1, <1>3, <2>2, <3>1, <3>2, FetchedClone
  <2>3. CASE ~Here(Primary)
    <3>1. repo' = [repo EXCEPT ![Primary] = CloneOf(remote)]
      BY <1>5, <2>3 DEF Clone
    <3>2. Blocked(p) \/ (Goto(p, "proof") /\ UNCHANGED claimed)
      BY <1>5, <2>3 DEF Clone
    <3> QED BY <1>1, <1>3, <1>4, <2>3, <3>1, <3>2, NewClone
  <2> QED BY <1>5, <2>1, <2>2, <2>3 DEF Clone
<1>6. CASE Merge(p)
  <2> DEFINE target == repo[Primary].seen
  <2>1. Here(Primary) /\ target \in Histories
    BY <1>1, <1>6 DEF Merge, Placed, Here, TypeOK, CloneRecord
  <2>2. CASE CanForward(Primary, target)
    <3>1. Forward(Primary, target)
      BY <1>6, <2>2 DEF Merge
    <3>2. Blocked(p) \/ (Goto(p, "proof") /\ UNCHANGED claimed)
      BY <1>6, <2>2 DEF Merge
    <3> QED BY <1>1, <1>3, <1>4, <2>1, <2>2, <3>1, <3>2, Forwarded
  <2>3. CASE ~CanForward(Primary, target)
    BY <1>1, <1>2, <1>6, <2>3, Blocking, NoCloneChanged DEF Merge
  <2> QED BY <2>2, <2>3
<1> QED BY <1>5, <1>6

(* prepareEpisodeTaskHistoryWorkspace                                       *)
LEMMA EpisodeGood ==
  ASSUME HistoryInv, NEW p \in Procs, EpisodeStep(p)
  PROVE  Good(p)
<1>1. /\ TypeOK /\ Placed(p) /\ call[p] \in Invocation /\ remote \in Histories
      /\ pc[p] \in {"locate", "fetch", "forward", "read"}
      /\ kind = "published" /\ call[p].site \in Sites
      /\ edits \in Seq({"tool", "agent", "host"})
  BY DEF HistoryInv, TypeOK, Placed, EpisodeStep, Locate, FetchClone, ForwardClone, ReadHead,
         PublishedOnly, Invocation
<1>2. UNCHANGED <<remote, local, cache, root, edits>>
  BY DEF EpisodeStep, Locate, FetchClone, ForwardClone, ReadHead, refs, Same
<1>3. ASSUME Blocked(p), UNCHANGED repo PROVE Good(p)
  BY <1>1, <1>2, <1>3, Blocking, NoCloneChanged
<1>4. ASSUME NEW l \in {"forward", "read"}, Goto(p, l), claimed' = claimed,
             NEW s \in Sites, s = call[p].site,
             NEW r \in CloneRecord, KeptFrom(r, s), repo' = [repo EXCEPT ![s] = r]
      PROVE  Good(p)
  <2>1. Moves(p, l, call[p])
    BY <1>1, <1>4, Staying
  <2>2. Here(s)' => Placed(p)'
    BY <1>1, <1>4, <2>1 DEF Moves, Placed, PublishedOnly, Preparing, Publishing, Here
  <2> QED BY <1>1, <1>2, <1>4, <2>1, <2>2, OneCloneGood
<1>5. CASE Locate(p)
  <2>1. CASE Goto(p, "fetch") /\ claimed' = claimed
    <3>1. Moves(p, "fetch", call[p])
      BY <1>1, <2>1, Staying
    <3>2. Placed(p)'
      BY <1>1, <3>1 DEF Moves, Placed, PublishedOnly, Preparing, Publishing
    <3> QED BY <1>1, <1>2, <1>5, <2>1, <3>1, <3>2, Unmoved DEF Locate, Same, TypeOK
  <2> QED BY <1>3, <1>5, <2>1 DEF Locate, Same
<1>6. CASE FetchClone(p)
  BY <1>1, <1>3, <1>4, <1>6, FetchedClone, NewClone DEF FetchClone
<1>7. CASE ForwardClone(p)
  <2> DEFINE s == call[p].site
  <2>1. Here(s) /\ repo[s].seen \in Histories
    BY <1>1, <1>7 DEF ForwardClone, Placed, Here, TypeOK, CloneRecord
  <2>2. CASE CanForward(s, repo[s].seen)
    BY <1>1, <1>4, <1>7, <2>1, <2>2, Forwarded DEF ForwardClone
  <2>3. CASE ~CanForward(s, repo[s].seen)
    BY <1>3, <1>7, <2>3 DEF ForwardClone
  <2> QED BY <2>2, <2>3
<1>8. CASE ReadHead(p)
  <2>1. Idle(p)
    BY <1>1, <1>8, EndType, Going DEF ReadHead, Idle, Results
  <2> QED BY <1>1, <1>2, <1>8, <2>1, NoCloneChanged DEF ReadHead, Same
<1> QED BY <1>5, <1>6, <1>7, <1>8 DEF EpisodeStep

(* inspectPublishedPrimaryTaskHistory                                       *)
LEMMA InspectGood ==
  ASSUME HistoryInv, NEW p \in Procs, InspectStep(p)
  PROVE  Good(p)
<1>1. /\ TypeOK /\ Placed(p) /\ call[p] \in Invocation /\ remote \in Histories
      /\ pc[p] \in {"clean", "before", "after"} /\ kind = "published"
  BY DEF HistoryInv, TypeOK, Placed, InspectStep, InspectClean, InspectBefore, InspectAfter,
         PublishedOnly
<1>2. /\ UNCHANGED <<remote, local, cache, repo, root, edits>> /\ cache' \in Histories
      /\ root' \in {"none", "file", "link", "gone"}
  BY <1>1 DEF InspectStep, InspectClean, InspectBefore, InspectAfter, Same, refs, TypeOK
<1>3. CASE Blocked(p)
  BY <1>1, <1>2, <1>3, Blocking, NoCloneChanged
<1>4. CASE Goto(p, "before") /\ UNCHANGED claimed
  <2>1. Moves(p, "before", call[p])
    BY <1>1, <1>4, Staying
  <2>2. Placed(p)'
    BY <1>1, <2>1 DEF Moves, Placed, PublishedOnly, Preparing, Publishing
  <2> QED BY <1>1, <1>2, <1>4, <2>1, <2>2, Unmoved
<1>5. CASE /\ Step(p, "after") /\ call' = [call EXCEPT ![p].seen = remote]
           /\ UNCHANGED claimed
  <2> DEFINE c == [call[p] EXCEPT !.seen = remote]
  <2>1. c \in Invocation
    BY <1>1 DEF Invocation
  <2>2. Moves(p, "after", c)
    BY <1>1, <1>5, Reading
  <2>3. Placed(p)'
    BY <1>1, <2>2 DEF Moves, Placed, PublishedOnly, Preparing, Publishing
  <2> QED BY <1>1, <1>2, <1>5, <2>1, <2>2, <2>3, Unmoved
<1>6. CASE Report(p, "ready", call[p].seen) /\ remote = call[p].seen
  <2>1. Idle(p) /\ claimed' = claimed \cup remote
    BY <1>1, <1>6, Reporting DEF Results
  <2> QED BY <1>1, <1>2, <2>1, UnmovedEnd
<1> QED BY <1>3, <1>4, <1>5, <1>6 DEF InspectStep, InspectClean, InspectBefore, InspectAfter

-----------------------------------------------------------------------------
(* publishTaskHistoryMutation, and the two other stores                     *)

(* The clone that a publication works in.                                   *)
LEMMA PublishedClone ==
  ASSUME HistoryInv, NEW p \in Procs, pc[p] \in Publishing,
         Here(call[p].site) \/ kind # "published"
  PROVE  /\ call[p].site \in Sites /\ call[p].task \in Tasks
         /\ Here(call[p].site) /\ repo[call[p].site] \in CloneRecord
         /\ kind # "published" =>
              call[p].site = Primary /\ Here(Primary) /\ repo[Primary] \in CloneRecord
<1>1. /\ call[p].site \in Sites /\ call[p].task \in Tasks
      /\ kind # "published" => call[p].site = Primary
  BY DEF HistoryInv, TypeOK, Invocation, Placed
<1>2. Here(call[p].site)
  BY <1>1 DEF HistoryInv, OwnStore
<1> QED BY <1>1, <1>2 DEF HistoryInv, TypeOK, Here

LEMMA PublishReads ==
  ASSUME HistoryInv, NEW p \in Procs,
         PublishBase(p) \/ CommittedHead(p) \/ Reread(p)
  PROVE  Good(p)
<1>1. /\ TypeOK /\ Placed(p) /\ call[p] \in Invocation
      /\ pc[p] \in {"base", "head", "reread"}
      /\ cache \in Histories /\ root \in {"none", "file", "link", "gone"}
  BY DEF HistoryInv, TypeOK, PublishBase, CommittedHead, Reread
<1>2. UNCHANGED <<remote, local, cache, repo, root, edits>>
  BY DEF PublishBase, CommittedHead, Reread, Same, refs
<1>3. CASE Blocked(p)
  BY <1>1, <1>2, <1>3, Blocking, NoCloneChanged
<1>4. CASE PublishBase(p) /\ ~Blocked(p)
  <2> DEFINE h == repo[call[p].site].head
             l == IF kind = "beads" THEN "pull" ELSE "edit"
             c == [call[p] EXCEPT !.seen = h]
  <2>1. kind = "published" => Here(call[p].site)
    BY <1>4 DEF PublishBase, Located
  <2>2. /\ Here(call[p].site) /\ h \in Histories
        /\ kind # "published" => call[p].site = Primary
    BY <1>4, <2>1, PublishedClone DEF PublishBase, Publishing, CloneRecord
  <2>3. c \in Invocation /\ c.site = call[p].site
    BY <1>1, <2>2 DEF Invocation
  <2>4. Moves(p, l, c) /\ claimed' = claimed
    BY <1>1, <1>4, <2>2, Reading DEF PublishBase
  <2>5. Placed(p)'
    BY <1>2, <2>2, <2>3, <2>4 DEF Moves, Placed, PublishedOnly, Preparing, Publishing, Here
  <2> QED BY <1>1, <1>2, <2>3, <2>4, <2>5, Unmoved
<1>5. CASE CommittedHead(p) /\ ~Blocked(p)
  <2> DEFINE h == repo[call[p].site].head
             c == [call[p] EXCEPT !.head = h]
  <2>1. /\ Here(call[p].site) /\ h \in Histories
        /\ kind # "published" => call[p].site = Primary
    BY <1>1, <1>5, PublishedClone DEF CommittedHead, Placed, Publishing, CloneRecord
  <2>2. c \in Invocation /\ c.site = call[p].site /\ c.head = h
    BY <1>1, <2>1 DEF Invocation
  <2>3. Moves(p, "push", c) /\ claimed' = claimed
    BY <1>1, <1>5, <2>1, Reading DEF CommittedHead, HeadAfter
  <2>4. Placed(p)'
    BY <1>2, <2>1, <2>2, <2>3 DEF Moves, Placed, PublishedOnly, Preparing, Publishing, Here
  <2> QED BY <1>1, <1>2, <2>2, <2>3, <2>4, Unmoved
<1>6. CASE Reread(p) /\ ~Blocked(p)
  <2> DEFINE c == [call[p] EXCEPT !.result = "published"]
  <2>1. c \in Invocation /\ call' = [call EXCEPT ![p] = c] /\ claimed' = claimed
    BY <1>1, <1>6 DEF Reread, TypeOK, Invocation
  <2>2. Idle(p)
    BY <1>1, <1>6, <2>1, Going DEF Reread, Idle
  <2> QED BY <1>2, <2>1, <2>2, NoCloneChanged
<1> QED BY <1>3, <1>4, <1>5, <1>6

LEMMA PushGood ==
  ASSUME HistoryInv, NEW p \in Procs, Push(p)
  PROVE  Good(p)
<1>1. /\ TypeOK /\ Placed(p) /\ call[p] \in Invocation /\ pc[p] = "push"
  BY DEF HistoryInv, TypeOK, Push
<1>2. UNCHANGED <<local, cache, repo, root, edits>>
  BY DEF Push
<1>3. CASE ~Accepted(p)
  BY <1>1, <1>2, <1>3, Blocking, NoCloneChanged DEF Push
<1>4. CASE Accepted(p)
  <2>1. call[p].head \in Histories /\ Pushed(p) \in Histories /\ call[p].head \subseteq Pushed(p)
    <3>1. call[p].head \in Histories
      BY <1>1 DEF Invocation
    <3>2. kind # "published" => repo[Primary].head \in Histories
      BY <1>1, PublishedClone DEF Publishing, CloneRecord
    <3> QED BY <1>1, <3>1, <3>2 DEF Pushed, Placed
  <2>2. remote' = Pushed(p) /\ remote \subseteq remote'
    BY <1>3, <1>4 DEF Push, Accepted
  <2>3. /\ \E l \in {"idle", "reread"}, c \in Invocation :
             Moves(p, l, c) /\ (l = "reread" => c = call[p])
        /\ claimed' \in {claimed, claimed \cup call[p].head}
    <3>1. CASE Fails(p, "blocked")
      BY <1>1, <3>1, Failing DEF Idle, Results
    <3>2. CASE /\ Step(p, "reread") /\ UNCHANGED <<call, bounds>>
               /\ claimed' = claimed \cup call[p].head
      <4>1. Goto(p, "reread")
        BY <3>2 DEF Goto
      <4> QED BY <1>1, <3>2, <4>1, Staying
    <3> QED BY <1>4, <3>1, <3>2 DEF Push
  <2>4. Placed(p)'
    BY <1>1, <1>2, <2>3 DEF Moves, Placed, PublishedOnly, Preparing, Publishing
  <2>5. StoreOK' /\ Growing
    BY <1>1, <1>2, <2>1, <2>2, <2>3, SameClones DEF HistoryInv, TypeOK, StoreOK, Growing
  <2>6. (kind = "beads" => Clean(Primary))'
    BY <1>2, <2>3, SameClean DEF Moves
  <2> QED BY <2>3, <2>4, <2>5, <2>6 DEF Good
<1> QED BY <1>3, <1>4

(* A clone with nothing uncommitted may be replaced by that of a larger     *)
(* history.                                                                 *)
LEMMA LargerClone ==
  ASSUME TypeOK, NEW s \in Sites, NEW h \in Histories, Clean(s), repo[s].head \subseteq h
  PROVE  CloneOf(h) \in CloneRecord /\ KeptFrom(CloneOf(h), s) /\ CloneOf(h).work = Bytes(h)
BY CloneType DEF KeptFrom, Clean

LEMMA EditedClone ==
  ASSUME TypeOK, NEW s \in Sites, NEW t \in Tasks, Here(s)
  PROVE  /\ [repo[s] EXCEPT !.work[t] = Fresh] \in CloneRecord
         /\ KeptFrom([repo[s] EXCEPT !.work[t] = Fresh], s)
         /\ [repo EXCEPT ![s].work[t] = Fresh] =
              [repo EXCEPT ![s] = [repo[s] EXCEPT !.work[t] = Fresh]]
<1> DEFINE w == [repo[s].work EXCEPT ![t] = Fresh]
           r == [repo[s] EXCEPT !.work = w]
<1>1. repo[s] \in CloneRecord /\ Fresh \in Nat
  BY FreshType DEF TypeOK, Here
<1>2. w \in [Tasks -> Nat] /\ \A u \in Tasks : w[u] \in {repo[s].work[u], Fresh}
  BY <1>1 DEF CloneRecord
<1>3. r \in CloneRecord /\ r.head = repo[s].head /\ r.work = w
  BY <1>1, <1>2 DEF CloneRecord
<1>4. KeptFrom(r, s)
  BY <1>2, <1>3, TaskHistoryAssumption DEF KeptFrom, Dirty
<1>5. [repo[s] EXCEPT !.work[t] = Fresh] = r
  BY <1>1 DEF CloneRecord
<1>6. [repo EXCEPT ![s].work[t] = Fresh] = [repo EXCEPT ![s] = r]
  BY <1>1 DEF TypeOK, CloneRecord
<1> QED BY <1>3, <1>4, <1>5, <1>6

LEMMA CommittedClone ==
  ASSUME TypeOK, NEW s \in Sites, NEW ts \in SUBSET Tasks, Here(s),
         repo' = [repo EXCEPT ![s].head = @ \cup {Commit(t, repo[s].work[t]) : t \in ts}]
  PROVE  \E r \in CloneRecord : repo' = [repo EXCEPT ![s] = r] /\ KeptFrom(r, s)
<1> DEFINE h == repo[s].head \cup {Commit(t, repo[s].work[t]) : t \in ts}
           r == [repo[s] EXCEPT !.head = h]
<1>1. repo[s] \in CloneRecord
  BY DEF TypeOK, Here
<1>2. \A t \in ts : Commit(t, repo[s].work[t]) \in Commits
  BY <1>1, CommitType DEF CloneRecord
<1>3. h \in Histories
  BY <1>1, <1>2 DEF CloneRecord, Histories
<1>4. r \in CloneRecord /\ r.head = h /\ r.work = repo[s].work
  BY <1>1, <1>3 DEF CloneRecord
<1>5. repo' = [repo EXCEPT ![s] = r]
  BY <1>1 DEF TypeOK, CloneRecord
<1>6. KeptFrom(r, s)
  BY <1>4, TaskHistoryAssumption DEF KeptFrom
<1> QED BY <1>4, <1>5, <1>6

LEMMA PullGood ==
  ASSUME HistoryInv, NEW p \in Procs, Pull(p)
  PROVE  Good(p)
<1>1. /\ TypeOK /\ Placed(p) /\ call[p] \in Invocation /\ pc[p] = "pull"
      /\ kind = "beads" /\ Clean(Primary) /\ remote \in Histories /\ Primary \in Sites
      /\ edits \in Seq({"tool", "agent", "host"})
  BY PrimarySite DEF HistoryInv, OwnStore, TypeOK, Placed, Pull
<1>2. UNCHANGED <<remote, local, cache, root, edits>>
  BY DEF Pull, refs
<1>3. call[p].site = Primary /\ repo[Primary] \in CloneRecord
  BY <1>1, PublishedClone DEF Publishing
<1>4. CASE UNCHANGED repo /\ Blocked(p)
  BY <1>1, <1>2, <1>4, Blocking, NoCloneChanged
<1>5. CASE /\ repo' = [repo EXCEPT ![Primary] = CloneOf(repo[Primary].head \cup remote)]
           /\ Goto(p, "edit") /\ UNCHANGED claimed
  <2> DEFINE h == repo[Primary].head \cup remote
             r == CloneOf(h)
  <2>1. h \in Histories
    BY <1>1, <1>3 DEF CloneRecord, Histories
  <2>2. r \in CloneRecord /\ KeptFrom(r, Primary) /\ r.work = Bytes(r.head)
    BY <1>1, <2>1, LargerClone, CloneType
  <2>3. Moves(p, "edit", call[p])
    BY <1>1, <1>5, Staying
  <2>4. Here(Primary)' => Placed(p)'
    BY <1>1, <1>3, <2>3 DEF Moves, Placed, PublishedOnly, Preparing, Publishing, Here
  <2> HIDE DEF r
  <2> QED BY <1>1, <1>2, <1>5, <2>2, <2>3, <2>4, OneCloneGood DEF r
<1> QED BY <1>4, <1>5 DEF Pull

LEMMA EditGood ==
  ASSUME HistoryInv, NEW p \in Procs, Edit(p)
  PROVE  Good(p)
<1> DEFINE s == call[p].site
           t == call[p].task
           l == IF kind = "beads" THEN "head" ELSE "commit"
<1>1. /\ TypeOK /\ Placed(p) /\ call[p] \in Invocation /\ pc[p] = "edit"
      /\ edits \in Seq({"tool", "agent", "host"})
  BY DEF HistoryInv, TypeOK, Edit
<1>2. UNCHANGED <<remote, local, cache, root>>
  BY DEF Edit, refs
<1>3. /\ s \in Sites /\ t \in Tasks /\ Here(s) /\ repo[s] \in CloneRecord
      /\ kind # "published" => s = Primary
  BY <1>1, PublishedClone DEF Placed, Publishing
<1>4. ASSUME NEW n \in Nat, Step(p, l), call' = [call EXCEPT ![p].edit = n]
      PROVE  \E c \in Invocation : Moves(p, l, c) /\ c.site = s
  <2> DEFINE c == [call[p] EXCEPT !.edit = n]
  <2>1. c \in Invocation /\ c.site = s /\ call' = [call EXCEPT ![p] = c]
    BY <1>1, <1>4 DEF Invocation, TypeOK
  <2> QED BY <1>1, <1>4, <2>1, Going
<1>5. ASSUME NEW c \in Invocation, Moves(p, l, c), c.site = s, Here(s), repo'[s] # NoClone
      PROVE  Placed(p)'
  BY <1>3, <1>5 DEF Moves, Placed, PublishedOnly, Preparing, Publishing, Here
<1>6. CASE UNCHANGED <<repo, edits, claimed>> /\ Step(p, l)
           /\ call' = [call EXCEPT ![p].edit = repo[s].work[t]]
  <2>1. repo[s].work[t] \in Nat
    BY <1>3 DEF CloneRecord
  <2>2. PICK c \in Invocation : Moves(p, l, c) /\ c.site = s
    BY <1>4, <1>6, <2>1
  <2>3. Placed(p)'
    BY <1>3, <1>5, <1>6, <2>2 DEF Here
  <2> QED BY <1>1, <1>2, <1>6, <2>2, <2>3, Unmoved DEF TypeOK
<1>7. CASE /\ edits' = Append(edits, "tool")
           /\ repo' = IF kind = "beads"
                      THEN [repo EXCEPT ![s] = CloneOf(@.head \cup {Commit(t, Fresh)})]
                      ELSE [repo EXCEPT ![s].work[t] = Fresh]
           /\ \/ /\ Step(p, l) /\ call' = [call EXCEPT ![p].edit = Fresh]
                 /\ UNCHANGED <<claimed, bounds>>
              \/ Fails(p, "blocked")
  <2>1. Fresh \in Nat /\ edits' \in Seq({"tool", "agent", "host"})
    BY <1>1, <1>7, FreshType
  <2>2. PICK r \in CloneRecord :
          /\ repo' = [repo EXCEPT ![s] = r] /\ KeptFrom(r, s)
          /\ kind = "beads" => r.work = Bytes(r.head)
    <3>1. CASE kind = "beads"
      <4> DEFINE h == repo[s].head \cup {Commit(t, Fresh)}
      <4>1. h \in Histories
        BY <1>3, <2>1, CommitType DEF CloneRecord, Histories
      <4>2. repo' = [repo EXCEPT ![s] = CloneOf(h)]
        BY <1>1, <1>3, <1>7, <3>1 DEF TypeOK
      <4>3. Clean(s)
        BY <1>3, <3>1 DEF HistoryInv, OwnStore
      <4>4. /\ CloneOf(h) \in CloneRecord /\ KeptFrom(CloneOf(h), s)
            /\ CloneOf(h).work = Bytes(CloneOf(h).head)
        BY <1>1, <1>3, <4>1, <4>3, LargerClone, CloneType
      <4> QED BY <4>2, <4>4
    <3>2. CASE kind # "beads"
      BY <1>1, <1>3, <1>7, <3>2, EditedClone
    <3> QED BY <3>1, <3>2
  <2>3. repo'[s] # NoClone
    BY <1>1, <1>3, <2>2, OneClone DEF Here
  <2>4. ASSUME NEW m, NEW c \in Invocation, Moves(p, m, c), claimed' = claimed, Placed(p)'
        PROVE  Good(p)
    <3>1. s \in Sites
      BY <1>3
    <3> HIDE DEF s
    <3> QED BY <1>1, <1>2, <2>1, <2>2, <2>4, <3>1, OneCloneGood
  <2>5. CASE /\ Step(p, l) /\ call' = [call EXCEPT ![p].edit = Fresh]
             /\ UNCHANGED <<claimed, bounds>>
    <3>1. PICK c \in Invocation : Moves(p, l, c) /\ c.site = s
      BY <1>4, <2>1, <2>5
    <3>2. Placed(p)'
      BY <1>3, <1>5, <2>3, <3>1
    <3> QED BY <2>4, <2>5, <3>1, <3>2
  <2>6. CASE Fails(p, "blocked")
    <3>1. Idle(p) /\ claimed' = claimed
      BY <1>1, <2>6, Failing DEF Results
    <3> QED BY <2>4, <3>1, IdlePlaced DEF Idle
  <2> QED BY <1>7, <2>5, <2>6
<1> QED BY <1>6, <1>7 DEF Edit

LEMMA CommitGood ==
  ASSUME HistoryInv, NEW p \in Procs, CommitOnly(p)
  PROVE  Good(p)
<1> DEFINE s == call[p].site
           ts == OnlyTask(s, call[p].task)
<1>1. /\ TypeOK /\ Placed(p) /\ call[p] \in Invocation /\ pc[p] = "commit"
      /\ edits \in Seq({"tool", "agent", "host"}) /\ kind # "beads"
  BY DEF HistoryInv, TypeOK, CommitOnly, Placed
<1>2. UNCHANGED <<remote, local, cache, root, edits>>
  BY DEF CommitOnly, refs
<1>3. /\ s \in Sites /\ call[p].task \in Tasks /\ Here(s) /\ repo[s] \in CloneRecord
      /\ kind # "published" => s = Primary
  BY <1>1, PublishedClone DEF Placed, Publishing
<1>4. CASE ts # {}
  <2>1. /\ repo' = [repo EXCEPT ![s].head = @ \cup {Commit(t, repo[s].work[t]) : t \in ts}]
        /\ Step(p, "head") /\ UNCHANGED claimed
        /\ call' = [call EXCEPT ![p].head = repo'[s].head]
    BY <1>4 DEF CommitOnly
  <2>2. ts \in SUBSET Tasks
    BY DEF OnlyTask, Dirty
  <2>3. PICK r \in CloneRecord : repo' = [repo EXCEPT ![s] = r] /\ KeptFrom(r, s)
    <3> HIDE DEF s, ts
    <3> QED BY <1>1, <1>3, <2>1, <2>2, CommittedClone
  <2>4. repo'[s] = r /\ r.head \in Histories
    BY <1>1, <1>3, <2>3 DEF TypeOK, CloneRecord
  <2> DEFINE c == [call[p] EXCEPT !.head = r.head]
  <2>5. c \in Invocation /\ c.site = s
    BY <1>1, <2>4 DEF Invocation
  <2>6. Moves(p, "head", c)
    BY <1>1, <2>1, <2>4, Reading
  <2>7. r # NoClone
    BY TaskHistoryAssumption
  <2>8. Placed(p)'
    BY <1>1, <1>3, <2>4, <2>5, <2>6, <2>7
       DEF Moves, Placed, PublishedOnly, Preparing, Publishing, Here
  <2>9. s \in Sites
    BY <1>3
  <2> HIDE DEF s, c
  <2> QED BY <1>1, <1>2, <2>1, <2>3, <2>5, <2>6, <2>8, <2>9, OneCloneGood
<1>5. CASE ts = {} /\ kind = "published"
  <2>1. Goto(p, "head") /\ UNCHANGED <<claimed, repo>>
    BY <1>5 DEF CommitOnly
  <2>2. Moves(p, "head", call[p])
    BY <1>1, <2>1, Staying
  <2>3. Placed(p)'
    BY <1>1, <1>3, <1>5, <2>1, <2>2
       DEF Moves, Placed, PublishedOnly, Preparing, Publishing, Here
  <2> QED BY <1>1, <1>2, <2>1, <2>2, <2>3, Unmoved DEF TypeOK
<1>6. CASE ts = {} /\ kind # "published"
  <2>1. Blocked(p) /\ UNCHANGED repo
    BY <1>6 DEF CommitOnly
  <2> QED BY <1>1, <1>2, <2>1, Blocking, NoCloneChanged
<1> QED BY <1>4, <1>5, <1>6

-----------------------------------------------------------------------------
(* A call starts, or ends for reasons of its own.                           *)
LEMMA BeginGood ==
  ASSUME HistoryInv, NEW p \in Procs, Begin(p)
  PROVE  Good(p)
<1>1. TypeOK /\ UNCHANGED <<store, claimed, trouble>> /\ calls' = calls + 1
  BY DEF HistoryInv, Begin
<1>2. PICK op \in IF kind = "published" THEN {"prepare", "episode", "inspect", "publish"}
                  ELSE {"publish"},
           s \in Sites, t \in Selected :
        /\ op \in {"prepare", "inspect"} => s = Primary
        /\ op = "episode" => s \in Worktrees
        /\ kind # "published" => s = Primary
        /\ pc' = [pc EXCEPT ![p] = CASE op = "prepare" -> "probe"
                                     [] op = "episode" -> "locate"
                                     [] op = "inspect" -> "clean"
                                     [] OTHER          -> "base"]
        /\ call' = [call EXCEPT ![p] = [op |-> op, site |-> s, task |-> t, seen |-> NoRef,
                                        head |-> NoRef, edit |-> 0, result |-> "none"]]
        /\ calm' = IF op \in {"prepare", "episode"} THEN calm \cup {p} ELSE calm \ {p}
  BY Zenon DEF Begin
<1> DEFINE c == [op |-> op, site |-> s, task |-> t, seen |-> NoRef,
                 head |-> NoRef, edit |-> 0, result |-> "none"]
<1>3. c \in Invocation
  BY TaskHistoryAssumption DEF Invocation, NoRef, Histories
<1>4. /\ Moves(p, pc'[p], c)
      /\ pc'[p] \in {"probe", "locate", "clean", "base"}
      /\ pc'[p] # "base" => kind = "published"
  BY <1>1, <1>2, <1>3 DEF TypeOK, Moves, store
<1>5. c.site = s
  OBVIOUS
<1>6. Placed(p)'
  BY <1>2, <1>4, <1>5 DEF Moves, Placed, PublishedOnly, Preparing, Publishing
<1> HIDE DEF c
<1> QED BY <1>1, <1>3, <1>4, <1>6, Unmoved DEF store, refs, TypeOK

LEMMA InterruptedGood ==
  ASSUME HistoryInv, NEW p \in Procs, Interrupted(p)
  PROVE  Good(p)
<1>1. Idle(p) /\ claimed' = claimed
  BY Failing DEF HistoryInv, Interrupted, Results
<1> QED BY <1>1, NoCloneChanged DEF Interrupted, Same, refs

(* The steps of no process.                                                 *)
LEMMA DraftStep ==
  ASSUME HistoryInv, NEW s \in Sites, NEW t \in Tasks, Draft(s, t)
  PROVE  HistoryInv' /\ Growing
<1>1. /\ TypeOK /\ kind # "beads" /\ Here(s)
      /\ UNCHANGED <<kind, remote, local, cache, root, pc, call, claimed, calls, trouble>>
      /\ edits' = Append(edits, "agent") /\ calm' = {}
      /\ repo' = [repo EXCEPT ![s].work[t] = Fresh]
  BY DEF HistoryInv, Draft, refs, bounds
<1>2. repo' \in [Sites -> {NoClone} \cup CloneRecord] /\ WorkKept
  BY <1>1, EditedClone, OneClone
<1>3. Growing
  BY <1>1, <1>2 DEF Growing, HistoryInv
<1>4. TypeOK'
  <2>1. edits' \in Seq({"tool", "agent", "host"})
    BY <1>1 DEF TypeOK
  <2> QED BY <1>1, <1>2, <2>1 DEF TypeOK
<1>5. OwnStore'
  BY <1>1, <1>2, PrimarySite DEF HistoryInv, OwnStore, WorkKept, KeptFrom, Here
<1>6. \A q \in Procs : Placed(q)'
  BY <1>1, <1>3, OthersStay
<1> QED BY <1>3, <1>4, <1>5, <1>6 DEF HistoryInv, Growing

LEMMA HostStep ==
  ASSUME HistoryInv, NEW t \in Tasks, HostPublishes(t)
  PROVE  HistoryInv' /\ Growing
<1>1. /\ TypeOK /\ calm' = {} /\ trouble' = trouble + 1
      /\ UNCHANGED <<kind, local, cache, repo, root, pc, call, claimed, calls>>
      /\ edits' = Append(edits, "host")
      /\ remote' = IF remote = NoRef THEN {Commit(Marker, Fresh)}
                   ELSE remote \cup {Commit(t, Fresh)}
  BY DEF HistoryInv, HostPublishes, Trouble
<1>2. Commit(Marker, Fresh) \in Commits /\ Commit(t, Fresh) \in Commits
  BY <1>1, FreshType, CommitType DEF TypeOK
<1>3. remote' \in Histories /\ remote \subseteq remote'
  BY <1>1, <1>2 DEF TypeOK, Histories, NoRef
<1>4. Growing
  BY <1>1, <1>3, SameClones DEF Growing, HistoryInv
<1>5. TypeOK'
  <2>1. edits' \in Seq({"tool", "agent", "host"})
    BY <1>1 DEF TypeOK
  <2> QED BY <1>1, <1>3, <2>1 DEF TypeOK
<1>6. OwnStore'
  BY <1>1, SameClean DEF HistoryInv, OwnStore, Here
<1>7. \A q \in Procs : Placed(q)'
  BY <1>1, <1>4, OthersStay
<1> QED BY <1>4, <1>5, <1>6, <1>7 DEF HistoryInv, Growing

-----------------------------------------------------------------------------
LEMMA HistoryInit == Init => HistoryInv
<1> SUFFICES ASSUME Init PROVE HistoryInv
  OBVIOUS
<1> DEFINE t0 == CHOOSE t \in Selected : TRUE
<1>1. t0 \in Tasks
  BY TaskHistoryAssumption
<1>2. NoRef \in Histories /\ Base \in Histories /\ Past \in Histories /\ Fork \in Histories
  <2>1. Commit(Marker, 1) \in Commits /\ Commit(t0, 2) \in Commits /\ Commit(t0, 3) \in Commits
    BY <1>1, CommitType
  <2> QED BY <2>1 DEF NoRef, Base, Past, Fork, Histories
<1>3. /\ CloneOf(Base) \in CloneRecord /\ CloneOf(Past) \in CloneRecord
      /\ CloneOf(Base).work = Bytes(Base) /\ CloneOf(Base).head = Base
      /\ CloneOf(Past).work = Bytes(Past) /\ CloneOf(Past).head = Past
  BY <1>2, CloneType
<1>4. [CloneOf(Base) EXCEPT !.own = FALSE] \in CloneRecord
  BY <1>3 DEF CloneRecord
<1>5. repo \in [Sites -> {NoClone} \cup CloneRecord]
  BY <1>3, <1>4 DEF Init
<1>6. remote \in Histories /\ local \in Histories /\ cache \in Histories
  BY <1>2 DEF Init
<1>7. edits \in Seq({"tool", "agent", "host"})
  <2> DEFINE S == {"tool", "agent", "host"}
  <2>1. \A x, y, z \in S : <<x, y, z>> \in Seq(S)
    OBVIOUS
  <2>2. "tool" \in S /\ "host" \in S
    OBVIOUS
  <2>3. edits \in {<<"tool", "host", "host">>, <<"host", "host", "host">>}
    BY DEF Init
  <2> HIDE DEF S
  <2>4. edits \in Seq(S)
    BY <2>1, <2>2, <2>3
  <2> QED BY <2>4 DEF S
<1>8. call \in [Procs -> Invocation] /\ pc = [p \in Procs |-> "idle"]
  BY <1>1, <1>2, PrimarySite DEF Init, Invocation
<1>9. TypeOK
  BY <1>2, <1>5, <1>6, <1>7, <1>8 DEF Init, TypeOK, NoRef
<1>10. OwnStore
  <2>1. kind # "published" => Here(Primary) /\ Independent(Primary)
    BY DEF Init
  <2>2. kind = "beads" => repo[Primary] \in {CloneOf(Base), CloneOf(Past)}
    <3>1. /\ Primary \in Sites
          /\ repo \in [Sites -> {NoClone, [CloneOf(Base) EXCEPT !.own = FALSE]}
                             \cup {CloneOf(h) : h \in {Base, Past}}]
      BY PrimarySite DEF Init
    <3>2. [CloneOf(Base) EXCEPT !.own = FALSE].own = FALSE
      BY <1>3 DEF CloneRecord
    <3> QED BY <2>1, <3>1, <3>2 DEF Here, Independent
  <2>3. kind = "beads" => Clean(Primary)
    BY <1>3, <2>2 DEF Clean, Dirty, Bytes
  <2> QED BY <2>1, <2>3 DEF OwnStore
<1>11. \A p \in Procs : Placed(p)
  BY <1>8 DEF Placed, PublishedOnly, Preparing, Publishing
<1> QED BY <1>9, <1>10, <1>11 DEF HistoryInv, Init

LEMMA HistoryStep ==
  ASSUME HistoryInv, [Next]_vars PROVE HistoryInv' /\ Growing
<1>1. CASE UNCHANGED vars
  <2>1. UNCHANGED <<kind, remote, local, cache, repo, root, edits, pc, call, claimed, calm,
                    calls, trouble>>
    BY <1>1 DEF vars, store, refs, bounds
  <2>2. Growing
    BY <2>1, SameClones DEF HistoryInv, Growing
  <2>3. TypeOK' /\ OwnStore'
    BY <2>1, SameClean DEF HistoryInv, TypeOK, OwnStore, Here
  <2>4. \A q \in Procs : Placed(q)'
    BY <2>1, <2>2, OthersStay
  <2> QED BY <2>1, <2>2, <2>3, <2>4 DEF HistoryInv
<1>2. ASSUME NEW p \in Procs, Good(p) PROVE HistoryInv' /\ Growing
  BY <1>2, GoodKeeps DEF Good
<1>3. ASSUME NEW p \in Procs, PrepareStep(p) PROVE Good(p)
  BY <1>3, PrepareReads, PrepareEnds, PrepareRefs, CloneAndMerge DEF PrepareStep
<1>4. ASSUME NEW p \in Procs, PublishStep(p) PROVE Good(p)
  BY <1>4, PublishReads, PullGood, EditGood, CommitGood, PushGood DEF PublishStep
<1> QED BY <1>1, <1>2, <1>3, <1>4, BeginGood, EpisodeGood, InspectGood, InterruptedGood,
           DraftStep, HostStep DEF Next

(* Every variable keeps its type.                                           *)
THEOREM Typed == Spec => []TypeOK
<1>1. HistoryInv => TypeOK
  BY DEF HistoryInv
<1> QED BY <1>1, HistoryInit, HistoryStep, PTL DEF Spec

(* The published history only grows, and what an operation has reported as  *)
(* published is in it for good, with any number of processes, clones, tasks *)
(* and other hosts.                                                         *)
THEOREM Published == Spec => ImplementsTaskLog
<1>1. Init => TaskLog!Init
  BY DEF Init, TaskLog!Init
<1>2. Growing => [TaskLog!Next]_<<remote, claimed>>
  BY DEF Growing, TaskLog!Next, TaskLog!PublishAndClaim
<1> QED BY <1>1, <1>2, HistoryInit, HistoryStep, PTL DEF Spec, ImplementsTaskLog, TaskLog!Spec

(* No operation takes a commit from a clone or from the local branch, or    *)
(* changes uncommitted bytes but by a new edit.                             *)
THEOREM WorkIsKept == Spec => LocalWorkKept
<1>1. Growing =>
        /\ local \subseteq local'
        /\ \A s \in Sites : Here(s) =>
             /\ Here(s)' /\ repo[s].head \subseteq repo'[s].head
             /\ \A t \in Dirty(s) : repo'[s].work[t] \in {repo[s].work[t], Fresh}
  BY DEF Growing, WorkKept, KeptFrom, Here
<1> QED BY <1>1, HistoryInit, HistoryStep, PTL DEF Spec, LocalWorkKept


-----------------------------------------------------------------------------
(* A bounded set of numbers has a smallest and a largest one.               *)
LEMMA Smallest ==
  ASSUME NEW T, T \subseteq Nat, T # {}
  PROVE  \E x \in T : \A y \in T : x <= y
<1> DEFINE R == {ss \in Nat \X Nat : ss[1] < ss[2]}
<1>1. IsWellFoundedOn(R, Nat)
  BY NatLessThanWellFounded DEF OpToRel
<1> HIDE DEF R
<1>2. \E x \in T : \A y \in T : ~ (<<y, x>> \in R)
  BY <1>1, WFMin
<1>3. ASSUME NEW x \in Nat, NEW y \in Nat, x < y PROVE <<x, y>> \in R
  <2>1. <<x, y>> \in Nat \X Nat
    OBVIOUS
  <2>2. <<x, y>>[1] < <<x, y>>[2]
    BY <1>3
  <2> QED BY <2>1, <2>2 DEF R
<1>4. PICK x \in T : \A y \in T : ~ (<<y, x>> \in R)
  BY <1>2
<1>5. ASSUME NEW y \in T PROVE x <= y
  <2>1. x \in Nat /\ y \in Nat /\ ~(y < x)
    BY <1>3, <1>4
  <2> QED BY <2>1
<1> QED BY <1>4, <1>5

LEMMA Largest ==
  ASSUME NEW T, T \subseteq Nat, T # {}, NEW N \in Nat, \A x \in T : x <= N
  PROVE  \E x \in T : \A y \in T : y <= x
<1> DEFINE D == {N - x : x \in T}
<1>1. D \subseteq Nat /\ D # {}
  <2>1. \A x \in T : N - x \in Nat
    <3>1. ASSUME NEW x \in T PROVE N - x \in Nat
      <4>1. x \in Nat /\ x <= N
        OBVIOUS
      <4> QED BY <4>1
    <3> QED BY <3>1
  <2> QED BY <2>1
<1>2. PICK d \in D : \A e \in D : d <= e
  <2> HIDE DEF D
  <2> QED BY <1>1, Smallest
<1>3. PICK x \in T : d = N - x
  OBVIOUS
<1>4. ASSUME NEW y \in T PROVE y <= x
  <2>1. N - x <= N - y
    BY <1>2, <1>3
  <2>2. x \in Nat /\ y \in Nat
    OBVIOUS
  <2> QED BY <2>1, <2>2
<1> QED BY <1>4
-----------------------------------------------------------------------------
(* What the histories and the clones hold, and what an invocation has made  *)
(* sure of.                                                                 *)

(* With the edits e, a history has their numbers, and none of an agent in a *)
(* task that nobody is asked to publish.                                    *)
Written(e, h) ==
  \A c \in h : c.n \in DOMAIN e /\ (e[c.n] = "agent" => c.task \in Selected)

(* A task file of a clone r is never older than its last commit there.      *)
Ahead(e, r) ==
  /\ Written(e, r.head) /\ Written(e, r.seen)
  /\ \A t \in Tasks : Content(r.head, t) <= r.work[t] /\ r.work[t] <= Len(e)

(* The history has the configuration of this project.                       *)
Configured(e, h) == \E c \in h : c.task = Marker /\ e[c.n] = "tool"

(* What an invocation c at step l has made sure of, with the edits e, its   *)
(* clone r and the remote branch b: the edit it reports is in the working   *)
(* tree, then in the clone, then in what it pushes.                         *)
Fits(l, c, e, r, b) ==
  /\ Written(e, c.seen) /\ Written(e, c.head) /\ c.task \in Selected
  /\ l # "idle" => c.result = "none"
  /\ l \in Preparing \cup {"probe"} => c.op = "prepare"
  /\ l \in {"locate", "fetch", "forward", "read"} => c.op = "episode"
  /\ l = "commit" => c.edit <= r.work[c.task]
  /\ l = "head" => c.edit <= Content(r.head, c.task)
  /\ l \in {"push", "reread"} \/ c.result = "published" => c.edit <= Content(c.head, c.task)
  /\ l = "reread" \/ c.result = "published" => c.head \subseteq b
  /\ l = "unlink" => Configured(e, c.seen)

WrittenInv ==
  /\ Written(edits, remote) /\ Written(edits, local) /\ Written(edits, cache)
  /\ \A s \in Sites : Here(s) => Ahead(edits, repo[s])
  /\ \A p \in Procs : Fits(pc[p], call[p], edits, repo[call[p].site], remote)
  /\ RelocatedConfigPublished

(* Content is the number of the last edit of the task, and grows with the   *)
(* history.                                                                 *)
LEMMA ContentIs ==
  ASSUME NEW h \in Histories, NEW t, NEW N \in Nat, \A c \in h : c.n <= N
  PROVE  /\ \A c \in h : c.task = t => c.n <= Content(h, t)
         /\ Content(h, t) = 0 \/ \E c \in h : c.task = t /\ c.n = Content(h, t)
         /\ Content(h, t) \in Nat /\ Content(h, t) <= N
<1>1. \A c \in h : c.n \in Nat
  BY DEF Histories, Commits
<1>2. CASE \E c \in h : Latest(c, h, t)
  <2> DEFINE d == CHOOSE c \in h : Latest(c, h, t)
  <2>1. d \in h /\ Latest(d, h, t)
    BY <1>2
  <2>2. Content(h, t) = d.n
    BY <1>2 DEF Content
  <2> HIDE DEF d
  <2> QED BY <1>1, <2>1, <2>2 DEF Latest
<1>3. CASE ~ \E c \in h : Latest(c, h, t)
  <2>1. Content(h, t) = 0
    BY <1>3 DEF Content
  <2>2. \A c \in h : c.task # t
    <3> SUFFICES ASSUME NEW b \in h, b.task = t PROVE FALSE
      OBVIOUS
    <3> DEFINE T == {c.n : c \in {e \in h : e.task = t}}
    <3>1. T \subseteq Nat /\ T # {} /\ \A x \in T : x <= N
      BY <1>1
    <3>2. PICK x \in T : \A y \in T : y <= x
      <4> HIDE DEF T
      <4> QED BY <3>1, Largest
    <3>3. PICK c \in h : c.task = t /\ x = c.n
      OBVIOUS
    <3>4. Latest(c, h, t)
      BY <3>2, <3>3 DEF Latest
    <3> QED BY <1>3, <3>4
  <2> QED BY <2>1, <2>2
<1> QED BY <1>2, <1>3

LEMMA ContentGrows ==
  ASSUME NEW h \in Histories, NEW g \in Histories, h \subseteq g, NEW t, NEW N \in Nat,
         \A c \in g : c.n <= N
  PROVE  Content(h, t) <= Content(g, t)
<1>1. \A c \in h : c.n <= N
  OBVIOUS
<1>2. /\ Content(h, t) = 0 \/ \E c \in h : c.task = t /\ c.n = Content(h, t)
      /\ Content(h, t) \in Nat
  BY <1>1, ContentIs
<1>3. /\ \A c \in g : c.task = t => c.n <= Content(g, t)
      /\ Content(g, t) \in Nat
  BY ContentIs
<1> QED BY <1>2, <1>3

(* The record of the edits only grows.                                      *)
EditsGrow ==
  /\ edits \in Seq({"tool", "agent", "host"}) /\ edits' \in Seq({"tool", "agent", "host"})
  /\ Len(edits) \in Nat /\ Len(edits') \in Nat /\ Len(edits) <= Len(edits')
  /\ DOMAIN edits = 1..Len(edits) /\ DOMAIN edits' = 1..Len(edits')
  /\ \A i \in DOMAIN edits : edits'[i] = edits[i]

LEMMA SameEdits == ASSUME TypeOK, UNCHANGED edits PROVE EditsGrow
BY DEF TypeOK, EditsGrow

LEMMA OneEdit ==
  ASSUME TypeOK, NEW who \in {"tool", "agent", "host"}, edits' = Append(edits, who)
  PROVE  EditsGrow /\ Fresh \in DOMAIN edits' /\ edits'[Fresh] = who
         /\ Len(edits') = Fresh /\ Len(edits) <= Fresh /\ Fresh \in Nat
BY DEF TypeOK, EditsGrow, Fresh

LEMMA WrittenStays ==
  ASSUME EditsGrow, NEW h, Written(edits, h)
  PROVE  Written(edits', h) /\ (Configured(edits, h) => Configured(edits', h))
BY DEF EditsGrow, Written, Configured

LEMMA WrittenParts ==
  ASSUME NEW e
  PROVE  /\ \A h, g : Written(e, h) /\ g \subseteq h => Written(e, g)
         /\ \A h, g : Written(e, h) /\ Written(e, g) => Written(e, h \cup g)
         /\ Written(e, NoRef)
BY DEF Written, NoRef

(* A clone's file is never replaced by an older one.                        *)
WorkGrows(s) ==
  Here(s) => \A t \in Tasks :
    /\ repo[s].work[t] \in Nat /\ repo'[s].work[t] \in Nat
    /\ repo[s].work[t] <= repo'[s].work[t]
    /\ Content(repo[s].head, t) \in Nat /\ Content(repo'[s].head, t) \in Nat
    /\ Content(repo[s].head, t) <= Content(repo'[s].head, t)

LEMMA NoOlderWork ==
  ASSUME HistoryInv, HistoryInv', WrittenInv, Growing, EditsGrow, NEW s \in Sites,
         Here(s) => Ahead(edits', repo'[s])
  PROVE  WorkGrows(s)
<1> SUFFICES ASSUME Here(s), NEW t \in Tasks
             PROVE  /\ repo[s].work[t] \in Nat /\ repo'[s].work[t] \in Nat
                    /\ repo[s].work[t] <= repo'[s].work[t]
                    /\ Content(repo[s].head, t) \in Nat /\ Content(repo'[s].head, t) \in Nat
                    /\ Content(repo[s].head, t) <= Content(repo'[s].head, t)
  BY DEF WorkGrows
<1>1. /\ Ahead(edits, repo[s]) /\ Ahead(edits', repo'[s])
      /\ repo[s] \in CloneRecord /\ repo'[s] \in CloneRecord
      /\ repo[s].head \subseteq repo'[s].head
      /\ t \in Dirty(s) => repo'[s].work[t] \in {repo[s].work[t], Fresh}
  BY DEF WrittenInv, HistoryInv, TypeOK, Growing, WorkKept, KeptFrom, Here
<1>2. /\ repo[s].head \in Histories /\ repo'[s].head \in Histories
      /\ repo[s].work[t] \in Nat /\ repo'[s].work[t] \in Nat
      /\ Content(repo[s].head, t) \in Nat /\ Content(repo'[s].head, t) \in Nat
  BY <1>1, ContentType DEF CloneRecord
<1>4. Len(edits') \in Nat /\ \A c \in repo'[s].head : c.n <= Len(edits')
  BY <1>1 DEF EditsGrow, Ahead, Written
<1>5. Content(repo[s].head, t) <= Content(repo'[s].head, t)
  BY <1>1, <1>2, <1>4, ContentGrows
<1>6. CASE t \in Dirty(s)
  <2>1. repo[s].work[t] <= Fresh
    BY <1>1, <1>2 DEF Ahead, Fresh, EditsGrow
  <2> QED BY <1>1, <1>2, <1>5, <1>6, <2>1
<1>7. CASE t \notin Dirty(s)
  <2>1. repo[s].work[t] = Content(repo[s].head, t)
    BY <1>7 DEF Dirty
  <2>2. Content(repo'[s].head, t) <= repo'[s].work[t]
    BY <1>1 DEF Ahead
  <2> QED BY <1>2, <1>5, <2>1, <2>2
<1> QED BY <1>2, <1>5, <1>6, <1>7

LEMMA FitsStays ==
  ASSUME EditsGrow, remote \subseteq remote', NEW l, NEW c \in Invocation,
         l \in {"commit", "head"} => WorkGrows(c.site) /\ Here(c.site),
         Fits(l, c, edits, repo[c.site], remote)
  PROVE  Fits(l, c, edits', repo'[c.site], remote')
<1>1. Written(edits', c.seen) /\ Written(edits', c.head) /\ c.task \in Selected
  BY WrittenStays DEF Fits
<1>2. l = "unlink" => Configured(edits', c.seen)
  BY WrittenStays DEF Fits
<1>3. c.edit \in Nat /\ c.task \in Tasks
  BY DEF Invocation
<1>4. l = "commit" => c.edit <= repo'[c.site].work[c.task]
  BY <1>3 DEF Fits, WorkGrows
<1>5. l = "head" => c.edit <= Content(repo'[c.site].head, c.task)
  BY <1>3 DEF Fits, WorkGrows
<1> QED BY <1>1, <1>2, <1>4, <1>5 DEF Fits

LEMMA WrittenMove ==
  ASSUME HistoryInv, HistoryInv', WrittenInv, Growing, EditsGrow,
         Written(edits', remote') /\ Written(edits', local') /\ Written(edits', cache'),
         \A s \in Sites : Here(s)' => Ahead(edits', repo'[s]),
         RelocatedConfigPublished',
         NEW q \in Procs, pc'[q] = pc[q], call'[q] = call[q]
  PROVE  Fits(pc[q], call[q], edits', repo'[call[q].site], remote')
<1>1. \A s \in Sites : WorkGrows(s)
  BY NoOlderWork DEF Growing, WorkKept, KeptFrom, Here
<1>2. /\ call[q] \in Invocation /\ call[q].site \in Sites
      /\ pc[q] \in {"commit", "head"} => Here(call[q].site)
      /\ Fits(pc[q], call[q], edits, repo[call[q].site], remote)
      /\ remote \subseteq remote'
  BY DEF HistoryInv, TypeOK, Invocation, Placed, WrittenInv, Growing
<1> QED BY <1>1, <1>2, FitsStays

(* What is left to show of a step of p.                                     *)
LEMMA Mover ==
  ASSUME HistoryInv, WrittenInv, NEW p \in Procs, Good(p), EditsGrow,
         Written(edits', remote') /\ Written(edits', local') /\ Written(edits', cache'),
         \A s \in Sites : Here(s)' => Ahead(edits', repo'[s]),
         RelocatedConfigPublished',
         Fits(pc'[p], call'[p], edits', repo'[call'[p].site], remote')
  PROVE  WrittenInv'
<1>1. HistoryInv' /\ Growing
  BY GoodKeeps DEF Good
<1>2. ASSUME NEW q \in Procs PROVE Fits(pc'[q], call'[q], edits', repo'[call'[q].site], remote')
  <2>1. CASE q = p
    BY <2>1
  <2>2. CASE q # p
    <3>1. pc'[q] = pc[q] /\ call'[q] = call[q]
      BY <2>2 DEF Good, Moves
    <3>2. Fits(pc[q], call[q], edits', repo'[call[q].site], remote')
      BY <1>1, <3>1, WrittenMove
    <3> QED BY <3>1, <3>2
  <2> QED BY <2>1, <2>2
<1> QED BY <1>2 DEF WrittenInv

LEMMA CallFits ==
  ASSUME HistoryInv, WrittenInv, NEW p \in Procs
  PROVE  /\ call[p] \in Invocation /\ call[p].site \in Sites
         /\ Fits(pc[p], call[p], edits, repo[call[p].site], remote)
BY DEF HistoryInv, TypeOK, WrittenInv, Invocation

(* An invocation ends with nothing to answer for.                           *)
LEMMA EndFits ==
  ASSUME HistoryInv, WrittenInv, NEW p \in Procs, NEW r, r # "published",
         call' = Ended(p, r), pc'[p] = "idle", NEW e, NEW k, NEW b
  PROVE  Fits(pc'[p], call'[p], e, k, b)
<1>1. call[p] \in Invocation /\ Fits(pc[p], call[p], edits, repo[call[p].site], remote)
  BY CallFits
<1>2. /\ call'[p].seen = NoRef /\ call'[p].head = NoRef /\ call'[p].result = r
      /\ call'[p].task = call[p].task
  BY <1>1 DEF Ended, HistoryInv, TypeOK, Invocation
<1> QED BY <1>1, <1>2 DEF Fits, Written, NoRef, Preparing

Asking   == Preparing \cup {"probe"}
Fetching == {"locate", "fetch", "forward", "read"}

Knowing(p, c, h) ==
  /\ c.op = call[p].op /\ c.task = call[p].task /\ c.result = call[p].result
  /\ c.seen \in {call[p].seen, h} /\ c.head \in {call[p].head, h}

LEMMA KnowingMore ==
  ASSUME TypeOK, NEW p \in Procs, NEW h,
         \/ call' = call
         \/ call' = [call EXCEPT ![p].seen = h]
         \/ call' = [call EXCEPT ![p].head = h]
  PROVE  Knowing(p, call'[p], h)
BY DEF TypeOK, Invocation, Knowing

(* It goes on without an edit to report, knowing a history more.            *)
LEMMA StepFits ==
  ASSUME HistoryInv, WrittenInv, NEW p \in Procs, EditsGrow, pc[p] # "idle",
         NEW h, Written(edits, h),
         NEW c, Knowing(p, c, h),
         NEW l, l \notin {"idle", "commit", "head", "push", "reread"},
         l \in Asking => pc[p] \in Asking,
         l \in Fetching => pc[p] \in Fetching,
         l = "unlink" => Configured(edits, c.seen),
         NEW k, NEW b
  PROVE  Fits(l, c, edits', k, b)
<1>1. call[p] \in Invocation /\ Fits(pc[p], call[p], edits, repo[call[p].site], remote)
  BY CallFits
<1>2. /\ c.op = call[p].op /\ c.task = call[p].task /\ c.result = call[p].result
      /\ c.seen \in {call[p].seen, h} /\ c.head \in {call[p].head, h}
  BY DEF Knowing
<1>3. Written(edits, c.seen) /\ Written(edits, c.head)
  BY <1>1, <1>2 DEF Fits
<1>4. Written(edits', c.seen) /\ Written(edits', c.head)
  BY <1>3, WrittenStays
<1>5. l = "unlink" => Configured(edits', c.seen)
  BY <1>3, WrittenStays
<1> QED BY <1>1, <1>2, <1>4, <1>5 DEF Fits, Asking, Fetching, Preparing

(* A step that changes neither a clone nor the edits.                       *)
Available(p) == {NoRef, remote, local, cache, call[p].seen, call[p].head}

LEMMA AvailableWritten ==
  ASSUME HistoryInv, WrittenInv, NEW p \in Procs PROVE \A h \in Available(p) : Written(edits, h)
BY CallFits, WrittenParts DEF WrittenInv, Available, Fits

LEMMA MoverInPlace ==
  ASSUME HistoryInv, WrittenInv, NEW p \in Procs, Good(p), UNCHANGED <<repo, edits>>,
         Written(edits, remote'), local' \in Available(p), cache' \in Available(p),
         root' \in {"link", "gone"} => root \in {"link", "gone"} \/ Configured(edits, remote'),
         Fits(pc'[p], call'[p], edits', repo'[call'[p].site], remote')
  PROVE  WrittenInv'
<1>1. EditsGrow
  BY SameEdits DEF HistoryInv
<1>2. Written(edits', remote') /\ Written(edits', local') /\ Written(edits', cache')
  BY AvailableWritten
<1>3. \A s \in Sites : Here(s)' => Ahead(edits', repo'[s])
  BY DEF WrittenInv, Here
<1>4. remote \subseteq remote'
  BY DEF Good, Growing
<1>5. RelocatedConfigPublished'
  BY <1>4 DEF WrittenInv, RelocatedConfigPublished, Configured
<1> QED BY <1>1, <1>2, <1>3, <1>5, Mover

LEMMA PrepareInPlace ==
  ASSUME HistoryInv, WrittenInv, NEW p \in Procs, Good(p),
         \/ Probe(p) \/ Absent(p) \/ Refresh(p) \/ Local(p) \/ Advance(p) \/ Refetch(p)
         \/ Compare(p) \/ Proof(p) \/ Unlink(p) \/ Link(p) \/ Reprove(p)
  PROVE  WrittenInv'
<1>0. /\ TypeOK /\ EditsGrow /\ pc[p] \in Asking /\ call[p] \in Invocation
      /\ \A h \in Available(p) : Written(edits, h)
      /\ Fits(pc[p], call[p], edits, repo[call[p].site], remote)
      /\ pc[p] \in Preparing => call[p].seen \subseteq remote
  <2>1. edits' = edits
    BY DEF Probe, Absent, Refresh, Local, Advance, Refetch, Compare, Proof, Unlink, Link, Reprove, Same
  <2>2. TypeOK /\ EditsGrow
    BY <2>1, SameEdits DEF HistoryInv
  <2>3. pc[p] \in Asking
    BY DEF Probe, Absent, Refresh, Local, Advance, Refetch, Compare, Proof, Unlink, Link, Reprove, Asking, Preparing
  <2> QED BY <2>2, <2>3, AvailableWritten, CallFits DEF HistoryInv, Placed
<1>1. UNCHANGED <<repo, edits, remote>> /\ local' \in Available(p) /\ cache' \in Available(p)
  BY DEF Probe, Absent, Refresh, Local, Advance, Refetch, Compare, Proof, Unlink, Link, Reprove, Same,
         refs, Available
<1>2. root' \in {"link", "gone"} => root \in {"link", "gone"} \/ Configured(edits, remote')
  <2>1. CASE Unlink(p)
    <3>0. pc[p] = "unlink"
      BY <2>1 DEF Unlink
    <3>1. Configured(edits, call[p].seen)
      BY <1>0, <3>0 DEF Fits
    <3>2. call[p].seen \subseteq remote
      BY <1>0, <3>0 DEF Preparing
    <3>3. Configured(edits, remote)
      BY <3>1, <3>2 DEF Configured
    <3> QED BY <1>1, <3>3
  <2>2. CASE Link(p)
    BY <2>2 DEF Link
  <2>3. CASE Reprove(p)
    BY <2>3 DEF Reprove
  <2>4. CASE \/ Probe(p) \/ Absent(p) \/ Refresh(p) \/ Local(p) \/ Advance(p) \/ Refetch(p)
             \/ Compare(p) \/ Proof(p)
    BY <2>4 DEF Probe, Absent, Refresh, Local, Advance, Refetch, Compare, Proof, Same
  <2> QED BY <2>1, <2>2, <2>3, <2>4
<1>3. ASSUME pc'[p] = "idle", NEW r \in {"blocked", "prepared"}, call' = Ended(p, r)
      PROVE  WrittenInv'
  <2>1. Fits(pc'[p], call'[p], edits', repo'[call'[p].site], remote')
    BY <1>3, EndFits
  <2> QED BY <1>0, <1>1, <1>2, <2>1, MoverInPlace DEF WrittenInv
<1>4. ASSUME Blocked(p) \/ (\E h : Report(p, "prepared", h)) PROVE WrittenInv'
  <2>1. pc'[p] = "idle" /\ \E r \in {"blocked", "prepared"} : call' = Ended(p, r)
    BY <1>0, <1>4 DEF Blocked, Report, Step, TypeOK
  <2> QED BY <1>3, <2>1
<1>5. ASSUME NEW l \in Preparing, Step(p, l), NEW h \in Available(p),
             \/ call' = call
             \/ call' = [call EXCEPT ![p].seen = h]
             \/ call' = [call EXCEPT ![p].head = h],
             l = "unlink" => call' = call /\ Configured(edits, call[p].seen)
      PROVE  WrittenInv'
  <2>1. Knowing(p, call'[p], h) /\ pc'[p] = l
    BY <1>0, <1>5, KnowingMore DEF Step, TypeOK
  <2>2. pc[p] # "idle" /\ l \in Asking /\ l \notin Fetching
        /\ l \notin {"idle", "commit", "head", "push", "reread"}
    BY <1>0 DEF Asking, Fetching, Preparing
  <2>3. l = "unlink" => Configured(edits, call'[p].seen)
    BY <1>5
  <2>4. Written(edits, h) /\ EditsGrow /\ pc[p] \in Asking
    BY <1>0, <1>5
  <2>5. Fits(l, call'[p], edits', repo'[call'[p].site], remote')
    BY <2>1, <2>2, <2>3, <2>4, StepFits
  <2> QED BY <1>0, <1>1, <1>2, <2>1, <2>5, MoverInPlace DEF WrittenInv
<1>6. ASSUME NEW l \in Preparing, Goto(p, l), l = "unlink" => Configured(edits, call[p].seen)
      PROVE  WrittenInv'
  <2>1. Step(p, l) /\ call' = call /\ NoRef \in Available(p)
    BY <1>6 DEF Goto, Available
  <2> QED BY <1>5, <1>6, <2>1
<1>7. CASE Probe(p)
  BY <1>4, <1>5, <1>7 DEF Probe, Available, Preparing
<1>8. CASE Absent(p) \/ Refresh(p) \/ Compare(p)
  BY <1>4, <1>6, <1>8 DEF Absent, Refresh, Compare, Preparing
<1>9. CASE Local(p) \/ Advance(p) \/ Refetch(p)
  BY <1>4, <1>5, <1>6, <1>9 DEF Local, Advance, Refetch, Available, Preparing
<1>10. CASE Proof(p)
  <2>1. CASE Blocked(p) \/ Report(p, "prepared", call[p].seen)
    BY <1>4, <2>1
  <2>2. CASE Goto(p, "unlink") /\ root = "file" /\ ConfigKept /\ AtPublished(p)
    <3>1. Configured(edits, call[p].seen)
      BY <2>2 DEF Configured, ConfigKept, AtPublished
    <3> QED BY <1>6, <2>2, <3>1 DEF Preparing
  <2> QED BY <1>10, <2>1, <2>2 DEF Proof
<1>11. CASE Unlink(p) \/ Link(p) \/ Reprove(p)
  BY <1>4, <1>6, <1>11 DEF Unlink, Link, Reprove, Preparing
<1> QED BY <1>7, <1>8, <1>9, <1>10, <1>11

LEMMA AheadClone ==
  ASSUME EditsGrow, NEW h \in Histories,
         NEW e, e = edits \/ e = edits', Written(e, h)
  PROVE  Ahead(e, CloneOf(h))
<1>1. Len(e) \in Nat /\ \A c \in h : c.n <= Len(e)
  BY DEF EditsGrow, Written
<1>2. \A t \in Tasks : Content(h, t) \in Nat /\ Content(h, t) <= Len(e)
  BY <1>1, ContentIs
<1>3. CloneOf(h).head = h /\ CloneOf(h).seen = h /\ \A t \in Tasks : CloneOf(h).work[t] = Content(h, t)
  BY DEF CloneOf, Bytes
<1> QED BY <1>2, <1>3 DEF Ahead

LEMMA AheadFetched ==
  ASSUME NEW e, NEW r \in CloneRecord, Ahead(e, r), NEW h, Written(e, h)
  PROVE  Ahead(e, [r EXCEPT !.seen = h])
<1>1. /\ [r EXCEPT !.seen = h].seen = h /\ [r EXCEPT !.seen = h].head = r.head
      /\ [r EXCEPT !.seen = h].work = r.work
  BY DEF CloneRecord
<1> QED BY <1>1 DEF Ahead

LEMMA AheadForward ==
  ASSUME HistoryInv, WrittenInv, NEW s \in Sites, NEW h \in Histories, Here(s), Written(edits, h),
         CanForward(s, h), Forward(s, h)
  PROVE  /\ Ahead(edits, repo'[s])
         /\ \A q \in Sites : q # s => repo'[q] = repo[q]
<1> DEFINE head == repo[s].head \cup h
<1>1. /\ repo'[s].head = head /\ repo'[s].seen = repo[s].seen
      /\ \A t \in Tasks :
           repo'[s].work[t] = IF t \in Dirty(s) THEN repo[s].work[t] ELSE Content(head, t)
      /\ \A q \in Sites : q # s => repo'[q] = repo[q]
  BY DEF Forward, HistoryInv, TypeOK, Here, CloneRecord
<1>2. Ahead(edits, repo[s]) /\ head \in Histories
  BY DEF WrittenInv, HistoryInv, TypeOK, Here, CloneRecord, Histories
<1>3. Written(edits, head)
  BY <1>2 DEF Ahead, Written
<1>4. Len(edits) \in Nat /\ \A c \in head : c.n <= Len(edits)
  BY <1>3 DEF Written, HistoryInv, TypeOK
<1>5. \A t \in Tasks : Content(head, t) \in Nat /\ Content(head, t) <= Len(edits)
  BY <1>2, <1>4, ContentIs
<1>6. \A t \in Dirty(s) : Content(head, t) = Content(repo[s].head, t)
  <2>1. head = repo[s].head \/ head = h
    BY DEF CanForward
  <2> QED BY <2>1 DEF CanForward
<1>7. Written(edits, repo'[s].head) /\ Written(edits, repo'[s].seen)
  BY <1>1, <1>2, <1>3 DEF Ahead
<1>8. \A t \in Tasks : Content(head, t) <= repo'[s].work[t] /\ repo'[s].work[t] <= Len(edits)
  <2>1. ASSUME NEW t \in Dirty(s)
        PROVE  Content(head, t) <= repo'[s].work[t] /\ repo'[s].work[t] <= Len(edits)
    BY <1>1, <1>2, <1>6, <2>1 DEF Ahead, Dirty
  <2>2. ASSUME NEW t \in Tasks, t \notin Dirty(s)
        PROVE  Content(head, t) <= repo'[s].work[t] /\ repo'[s].work[t] <= Len(edits)
    <3>1. repo'[s].work[t] = Content(head, t)
      BY <1>1, <2>2
    <3>2. Content(head, t) \in Nat /\ Content(head, t) <= Len(edits)
      BY <1>5, <2>2
    <3> HIDE DEF head
    <3> QED BY <3>1, <3>2
  <2> QED BY <2>1, <2>2
<1> HIDE DEF head
<1> QED BY <1>1, <1>7, <1>8 DEF Ahead

LEMMA AheadStays ==
  ASSUME EditsGrow, NEW r \in CloneRecord, Ahead(edits, r) PROVE Ahead(edits', r)
<1>1. Written(edits', r.head) /\ Written(edits', r.seen)
  BY WrittenStays DEF Ahead
<1>2. \A t \in Tasks : r.work[t] \in Nat
  BY DEF CloneRecord
<1> QED BY <1>1, <1>2 DEF Ahead, EditsGrow

LEMMA AheadEdited ==
  ASSUME TypeOK, NEW s \in Sites, Here(s), Ahead(edits, repo[s]), NEW t \in Tasks,
         NEW who \in {"tool", "agent", "host"}, edits' = Append(edits, who),
         repo' = [repo EXCEPT ![s].work[t] = Fresh]
  PROVE  /\ Ahead(edits', repo'[s])
         /\ \A q \in Sites : q # s => repo'[q] = repo[q]
<1>1. repo[s] \in CloneRecord
  BY DEF TypeOK, Here
<1>2. EditsGrow /\ Fresh \in Nat /\ Len(edits') = Fresh /\ Len(edits) <= Fresh
  BY OneEdit
<1>3. /\ repo'[s].head = repo[s].head /\ repo'[s].seen = repo[s].seen
      /\ \A u \in Tasks : repo'[s].work[u] = IF u = t THEN Fresh ELSE repo[s].work[u]
      /\ \A q \in Sites : q # s => repo'[q] = repo[q]
  BY <1>1 DEF TypeOK, CloneRecord
<1>4. Ahead(edits', repo[s])
  BY <1>1, <1>2, AheadStays
<1>5. \A u \in Tasks : repo[s].work[u] \in Nat /\ Content(repo[s].head, u) \in Nat
  BY <1>1, ContentType DEF CloneRecord
<1>6. \A u \in Tasks : Content(repo[s].head, u) <= Fresh
  BY <1>2, <1>4, <1>5 DEF Ahead
<1> QED BY <1>2, <1>3, <1>4, <1>6 DEF Ahead

(* Only the bytes of the working tree are committed.                        *)
LEMMA AheadCommitted ==
  ASSUME TypeOK, NEW s \in Sites, Here(s), Ahead(edits, repo[s]), NEW t \in Selected, t \in Tasks,
         NEW h, h = repo[s].head \cup {Commit(u, repo[s].work[u]) : u \in OnlyTask(s, t)},
         NEW r \in CloneRecord, r.head = h, r.seen = repo[s].seen, r.work = repo[s].work
  PROVE  Ahead(edits, r) /\ Written(edits, h) /\ repo[s].work[t] <= Content(h, t)
<1>1. repo[s] \in CloneRecord /\ edits \in Seq({"tool", "agent", "host"})
      /\ h \in Histories
  BY DEF TypeOK, Here, CloneRecord
<1>2. \A u \in Tasks : repo[s].work[u] \in Nat /\ Content(repo[s].head, u) \in Nat
                       /\ Content(repo[s].head, u) <= repo[s].work[u]
                       /\ repo[s].work[u] <= Len(edits)
  BY <1>1, ContentType DEF CloneRecord, Ahead
<1>3. /\ \A c \in h : c \in repo[s].head \/ c = Commit(t, repo[s].work[t])
      /\ t \in Dirty(s) => Commit(t, repo[s].work[t]) \in h
      /\ t \notin Dirty(s) => h = repo[s].head
      /\ Commit(t, repo[s].work[t]).task = t /\ Commit(t, repo[s].work[t]).n = repo[s].work[t]
  BY DEF OnlyTask, Commit
<1>4. Len(edits) \in Nat /\ DOMAIN edits = 1..Len(edits)
  BY <1>1
<1>5. t \in Dirty(s) => repo[s].work[t] \in DOMAIN edits
  BY <1>2, <1>4 DEF Dirty
<1>6. Written(edits, h)
  <2>1. Written(edits, repo[s].head)
    BY DEF Ahead
  <2>2. CASE t \in Dirty(s)
    BY <1>3, <1>5, <2>1, <2>2 DEF Written
  <2>3. CASE t \notin Dirty(s)
    BY <1>3, <2>1, <2>3
  <2> QED BY <2>2, <2>3
<1>7. \A c \in h : c.n <= Len(edits)
  BY <1>4, <1>6 DEF Written
<1>8. ASSUME NEW u \in Tasks PROVE Content(h, u) <= repo[s].work[u]
  <2>1. Content(h, u) = 0 \/ \E c \in h : c.task = u /\ c.n = Content(h, u)
    BY <1>1, <1>4, <1>7, ContentIs
  <2>2. CASE Content(h, u) = 0
    BY <1>2, <2>2
  <2>3. ASSUME NEW c \in h, c.task = u, c.n = Content(h, u) PROVE Content(h, u) <= repo[s].work[u]
    <3>1. CASE c \in repo[s].head
      <4>1. \A d \in repo[s].head : d.n <= Len(edits)
        BY <1>4 DEF Ahead, Written
      <4>2. repo[s].head \in Histories
        BY <1>1 DEF CloneRecord
      <4>3. c.n <= Content(repo[s].head, u)
        BY <1>4, <2>3, <3>1, <4>1, <4>2, ContentIs
      <4>4. c.n \in Nat
        BY <3>1, <4>2 DEF Histories, Commits
      <4> QED BY <1>2, <2>3, <4>3, <4>4
    <3>2. CASE c = Commit(t, repo[s].work[t])
      BY <1>2, <1>3, <2>3, <3>2
    <3> QED BY <1>3, <3>1, <3>2
  <2> QED BY <2>1, <2>2, <2>3
<1>9. repo[s].work[t] <= Content(h, t)
  <2>1. CASE t \in Dirty(s)
    <3>1. \A c \in h : c.task = t => c.n <= Content(h, t)
      BY <1>1, <1>4, <1>7, ContentIs
    <3> QED BY <1>3, <2>1, <3>1
  <2>2. CASE t \notin Dirty(s)
    BY <1>2, <1>3, <2>2 DEF Dirty
  <2> QED BY <2>1, <2>2
<1>10. Ahead(edits, r)
  BY <1>2, <1>6, <1>8 DEF Ahead
<1> QED BY <1>6, <1>9, <1>10

(* A step that changes one clone.                                           *)
LEMMA MoverInClone ==
  ASSUME HistoryInv, WrittenInv, NEW p \in Procs, Good(p), EditsGrow,
         UNCHANGED <<remote, local, cache, root>>,
         NEW s \in Sites, Here(s)' => Ahead(edits', repo'[s]),
         \A q \in Sites : q # s => repo'[q] = repo[q],
         Fits(pc'[p], call'[p], edits', repo'[call'[p].site], remote')
  PROVE  WrittenInv'
<1>1. Written(edits', remote') /\ Written(edits', local') /\ Written(edits', cache')
  BY WrittenStays DEF WrittenInv
<1>2. ASSUME NEW q \in Sites, Here(q)' PROVE Ahead(edits', repo'[q])
  <2>1. CASE q # s
    <3>1. Here(q) /\ repo'[q] = repo[q] /\ repo[q] \in CloneRecord
      BY <1>2, <2>1 DEF Here, HistoryInv, TypeOK
    <3> QED BY <3>1, AheadStays DEF WrittenInv
  <2> QED BY <1>2, <2>1
<1>3. RelocatedConfigPublished'
  <2>1. root \in {"link", "gone"} => Configured(edits, remote)
    BY DEF WrittenInv, RelocatedConfigPublished, Configured
  <2>2. root \in {"link", "gone"} => Configured(edits', remote)
    BY <2>1, WrittenStays DEF WrittenInv
  <2> QED BY <2>2 DEF RelocatedConfigPublished, Configured
<1> QED BY <1>1, <1>2, <1>3, Mover

(* How the steps of p that report nothing go on.                            *)
LEMMA EndsFit ==
  ASSUME HistoryInv, WrittenInv, NEW p \in Procs,
         Blocked(p) \/ Fails(p, "blocked") \/ Fails(p, "failed")
  PROVE  Fits(pc'[p], call'[p], edits', repo'[call'[p].site], remote')
<1>1. pc'[p] = "idle" /\ \E r \in {"blocked", "failed"} : call' = Ended(p, r)
  BY DEF Blocked, Fails, Step, HistoryInv, TypeOK
<1> QED BY <1>1, EndFits

LEMMA GoesFit ==
  ASSUME HistoryInv, WrittenInv, NEW p \in Procs, EditsGrow, pc[p] # "idle",
         NEW h, Written(edits, h),
         \/ call' = call
         \/ call' = [call EXCEPT ![p].seen = h]
         \/ call' = [call EXCEPT ![p].head = h],
         NEW l, l \notin {"idle", "commit", "head", "push", "reread", "unlink"}, pc'[p] = l,
         l \in Asking => pc[p] \in Asking,
         l \in Fetching => pc[p] \in Fetching
  PROVE  Fits(pc'[p], call'[p], edits', repo'[call'[p].site], remote')
<1>1. Knowing(p, call'[p], h)
  BY KnowingMore DEF HistoryInv
<1>2. Fits(l, call'[p], edits', repo'[call'[p].site], remote')
  BY <1>1, StepFits
<1> QED BY <1>2

LEMMA BootstrapWritten ==
  ASSUME HistoryInv, WrittenInv, NEW p \in Procs, Good(p), Bootstrap(p) PROVE WrittenInv'
<1>0. /\ TypeOK /\ pc[p] = "bootstrap" /\ UNCHANGED <<local, cache, repo, root>>
      /\ Written(edits, NoRef)
  BY WrittenParts DEF Bootstrap, HistoryInv
<1>1. CASE remote # NoRef
  <2>1. UNCHANGED <<remote, edits>> /\ Blocked(p)
    BY <1>1 DEF Bootstrap
  <2>2. Fits(pc'[p], call'[p], edits', repo'[call'[p].site], remote')
    BY <2>1, EndsFit
  <2> QED BY <1>0, <2>1, <2>2, MoverInPlace DEF Available, WrittenInv
<1>2. CASE remote = NoRef
  <2>1. /\ remote' = {Commit(Marker, Fresh)} /\ edits' = Append(edits, "tool")
        /\ Goto(p, "refetch") \/ Fails(p, "blocked")
    BY <1>2 DEF Bootstrap
  <2>2. EditsGrow /\ Fresh \in DOMAIN edits' /\ edits'[Fresh] = "tool"
    BY <1>0, <2>1, OneEdit
  <2>3. Written(edits', remote') /\ Written(edits', local') /\ Written(edits', cache')
    <3>1. Written(edits', remote')
      BY <2>1, <2>2 DEF Written, Commit
    <3> QED BY <1>0, <2>2, <3>1, WrittenStays DEF WrittenInv
  <2>4. \A s \in Sites : Here(s)' => Ahead(edits', repo'[s])
    <3>1. \A s \in Sites : Here(s) => repo[s] \in CloneRecord /\ Ahead(edits, repo[s])
      BY DEF WrittenInv, HistoryInv, TypeOK, Here
    <3> QED BY <1>0, <2>2, <3>1, AheadStays DEF Here
  <2>5. RelocatedConfigPublished'
    <3>1. root \notin {"link", "gone"}
      BY <1>2 DEF WrittenInv, RelocatedConfigPublished, NoRef
    <3> QED BY <1>0, <3>1 DEF RelocatedConfigPublished
  <2>6. Fits(pc'[p], call'[p], edits', repo'[call'[p].site], remote')
    <3>1. CASE Goto(p, "refetch")
      <4>1. pc'[p] = "refetch" /\ call' = call
        BY <1>0, <3>1 DEF Goto, Step, TypeOK
      <4> QED BY <1>0, <2>2, <4>1, GoesFit DEF Asking, Fetching, Preparing
    <3> QED BY <2>1, <3>1, EndsFit
  <2> QED BY <2>2, <2>3, <2>4, <2>5, <2>6, Mover
<1> QED BY <1>1, <1>2

(* Reading only.                                                            *)
LEMMA ReadingWritten ==
  ASSUME HistoryInv, WrittenInv, NEW p \in Procs, Good(p),
         Locate(p) \/ ReadHead(p) \/ InspectStep(p) \/ Interrupted(p)
  PROVE  WrittenInv'
<1>0. /\ TypeOK /\ UNCHANGED <<remote, local, cache, repo, root, edits>> /\ pc[p] # "idle"
      /\ EditsGrow /\ Written(edits, remote)
  <2>1. UNCHANGED <<remote, local, cache, repo, root, edits>> /\ pc[p] # "idle"
    BY DEF Locate, ReadHead, InspectStep, InspectClean, InspectBefore, InspectAfter, Interrupted,
           Same, refs
  <2> QED BY <2>1, SameEdits DEF HistoryInv, WrittenInv
<1>1. ASSUME Fits(pc'[p], call'[p], edits', repo'[call'[p].site], remote') PROVE WrittenInv'
  BY <1>0, <1>1, MoverInPlace DEF Available, WrittenInv
<1>2. ASSUME pc'[p] = "idle", NEW r \in {"head", "ready"}, call' = Ended(p, r) PROVE WrittenInv'
  <2>1. Fits(pc'[p], call'[p], edits', repo'[call'[p].site], remote')
    BY <1>2, EndFits
  <2> QED BY <1>1, <2>1
<1>3. CASE Locate(p)
  <2>1. CASE Goto(p, "fetch")
    <3>1. pc'[p] = "fetch" /\ call' = call /\ pc[p] \in Fetching
      BY <1>0, <1>3, <2>1 DEF Goto, Step, TypeOK, Locate, Fetching
    <3> QED BY <1>0, <1>1, <3>1, GoesFit DEF Asking, Fetching, Preparing
  <2> QED BY <1>1, <1>3, <2>1, EndsFit DEF Locate
<1>4. CASE ReadHead(p)
  <2>1. pc'[p] = "idle" /\ call' = Ended(p, "head")
    BY <1>0, <1>4 DEF ReadHead, Step, TypeOK
  <2> QED BY <1>2, <2>1
<1>5. CASE InspectClean(p)
  <2>1. CASE Goto(p, "before")
    <3>1. pc'[p] = "before" /\ call' = call
      BY <1>0, <2>1 DEF Goto, Step, TypeOK
    <3> QED BY <1>0, <1>1, <3>1, GoesFit DEF Asking, Fetching, Preparing
  <2> QED BY <1>1, <1>5, <2>1, EndsFit DEF InspectClean
<1>6. CASE InspectBefore(p)
  <2>1. CASE Step(p, "after") /\ call' = [call EXCEPT ![p].seen = remote]
    <3>1. pc'[p] = "after"
      BY <1>0, <2>1 DEF Step, TypeOK
    <3> QED BY <1>0, <1>1, <2>1, <3>1, GoesFit DEF Asking, Fetching, Preparing
  <2> QED BY <1>1, <1>6, <2>1, EndsFit DEF InspectBefore
<1>7. CASE InspectAfter(p)
  <2>1. CASE Report(p, "ready", call[p].seen)
    <3>1. pc'[p] = "idle" /\ call' = Ended(p, "ready")
      BY <1>0, <2>1 DEF Report, Step, TypeOK
    <3> QED BY <1>2, <3>1
  <2> QED BY <1>1, <1>7, <2>1, EndsFit DEF InspectAfter
<1>8. CASE Interrupted(p)
  BY <1>1, <1>8, EndsFit DEF Interrupted
<1> QED BY <1>3, <1>4, <1>5, <1>6, <1>7, <1>8 DEF InspectStep

(* The steps that make, fetch or forward a clone.                           *)
LEMMA ClonesWritten ==
  ASSUME HistoryInv, WrittenInv, NEW p \in Procs, Good(p),
         Clone(p) \/ Merge(p) \/ FetchClone(p) \/ ForwardClone(p)
  PROVE  WrittenInv'
<1>s. PICK s \in Sites : s = IF pc[p] \in {"clone", "merge"} THEN Primary ELSE call[p].site
  BY CallFits, PrimarySite
<1>0. /\ TypeOK /\ UNCHANGED <<remote, local, cache, root, edits>> /\ s \in Sites
      /\ EditsGrow /\ Written(edits, remote) /\ remote \in Histories
      /\ pc[p] \in {"clone", "merge", "fetch", "forward"}
  <2>1. UNCHANGED <<remote, local, cache, root, edits>> /\ pc[p] \in {"clone", "merge", "fetch", "forward"}
    BY DEF Clone, Merge, FetchClone, ForwardClone, refs
  <2>2. call[p].site \in Sites
    BY CallFits
  <2> QED BY <2>1, <2>2, PrimarySite, SameEdits DEF HistoryInv, WrittenInv, TypeOK
<1>1. pc[p] = "merge" => Here(Primary)
  BY DEF HistoryInv, Placed
<1>2. pc[p] = "forward" => Here(call[p].site)
  BY DEF HistoryInv, Placed
<1>3. Fits(pc'[p], call'[p], edits', repo'[call'[p].site], remote')
  <2>1. CASE Blocked(p)
    BY <2>1, EndsFit
  <2>2. ASSUME NEW l, Goto(p, l), l \in {"proof", "forward", "read"},
               l = "proof" <=> pc[p] \in {"clone", "merge"}
        PROVE  Fits(pc'[p], call'[p], edits', repo'[call'[p].site], remote')
    <3>1. pc'[p] = l /\ call' = call /\ pc[p] # "idle"
      BY <1>0, <2>2 DEF Goto, Step, TypeOK
    <3>2. /\ l \in Asking => pc[p] \in Asking
          /\ l \in Fetching => pc[p] \in Fetching
      BY <1>0, <2>2 DEF Asking, Fetching, Preparing
    <3> QED BY <1>0, <2>2, <3>1, <3>2, GoesFit
  <2>3. CASE Clone(p) /\ Step(p, "compare") /\ call' = [call EXCEPT ![p].head = remote]
    <3>1. pc'[p] = "compare" /\ pc[p] = "clone"
      BY <1>0, <2>3 DEF Step, TypeOK, Clone
    <3> QED BY <1>0, <2>3, <3>1, GoesFit DEF Asking, Fetching, Preparing
  <2>4. CASE Clone(p)
    BY <2>1, <2>2, <2>3, <2>4 DEF Clone
  <2>5. CASE Merge(p)
    BY <2>1, <2>2, <2>5 DEF Merge
  <2>6. CASE FetchClone(p)
    BY <2>1, <2>2, <2>6 DEF FetchClone
  <2>7. CASE ForwardClone(p)
    BY <2>1, <2>2, <2>7 DEF ForwardClone
  <2> QED BY <2>4, <2>5, <2>6, <2>7
<1>4. ASSUME Here(s)' => Ahead(edits', repo'[s]), \A q \in Sites : q # s => repo'[q] = repo[q]
      PROVE  WrittenInv'
  BY <1>0, <1>3, <1>4, MoverInClone
<1>5. ASSUME UNCHANGED repo PROVE WrittenInv'
  BY <1>0, <1>4, <1>5 DEF WrittenInv, Here
<1>6. ASSUME repo' = [repo EXCEPT ![s] = CloneOf(remote)] PROVE WrittenInv'
  <2>1. Ahead(edits, CloneOf(remote))
    BY <1>0, AheadClone
  <2>2. repo'[s] = CloneOf(remote) /\ \A q \in Sites : q # s => repo'[q] = repo[q]
    BY <1>0, <1>6 DEF TypeOK
  <2> QED BY <1>0, <1>4, <2>1, <2>2
<1>7. ASSUME Here(s), repo' = [repo EXCEPT ![s].seen = remote] PROVE WrittenInv'
  <2>1. repo[s] \in CloneRecord /\ Ahead(edits, repo[s])
    BY <1>0, <1>7 DEF TypeOK, Here, WrittenInv
  <2>2. Ahead(edits, [repo[s] EXCEPT !.seen = remote])
    BY <1>0, <2>1, AheadFetched
  <2>3. /\ repo'[s] = [repo[s] EXCEPT !.seen = remote]
        /\ \A q \in Sites : q # s => repo'[q] = repo[q]
    BY <1>0, <1>7 DEF TypeOK
  <2> QED BY <1>0, <1>4, <2>2, <2>3
<1>8. ASSUME Here(s), CanForward(s, repo[s].seen), Forward(s, repo[s].seen) PROVE WrittenInv'
  <2>1. repo[s] \in CloneRecord /\ Ahead(edits, repo[s])
    BY <1>0, <1>8 DEF TypeOK, Here, WrittenInv
  <2>2. repo[s].seen \in Histories /\ Written(edits, repo[s].seen)
    BY <2>1 DEF CloneRecord, Ahead
  <2>3. Ahead(edits, repo'[s]) /\ \A q \in Sites : q # s => repo'[q] = repo[q]
    BY <1>0, <1>8, <2>2, AheadForward
  <2> QED BY <1>0, <1>4, <2>3
<1>9. CASE Clone(p)
  <2>1. s = Primary
    BY <1>s, <1>9 DEF Clone
  <2> QED BY <1>5, <1>6, <1>7, <1>9, <2>1 DEF Clone
<1>10. CASE Merge(p)
  <2>1. s = Primary
    BY <1>s, <1>10 DEF Merge
  <2> QED BY <1>1, <1>5, <1>8, <1>10, <2>1 DEF Merge
<1>11. CASE FetchClone(p)
  <2>1. s = call[p].site
    BY <1>s, <1>11 DEF FetchClone
  <2> QED BY <1>5, <1>6, <1>7, <1>11, <2>1 DEF FetchClone
<1>12. CASE ForwardClone(p)
  <2>1. s = call[p].site
    BY <1>s, <1>12 DEF ForwardClone
  <2> QED BY <1>2, <1>5, <1>8, <1>12, <2>1 DEF ForwardClone
<1> QED BY <1>9, <1>10, <1>11, <1>12

LEMMA SiteClone ==
  ASSUME HistoryInv, WrittenInv, NEW p \in Procs, Here(call[p].site)
  PROVE  /\ repo[call[p].site] \in CloneRecord /\ Ahead(edits, repo[call[p].site])
         /\ repo[call[p].site].head \in Histories /\ Written(edits, repo[call[p].site].head)
<1>1. call[p].site \in Sites
  BY CallFits
<1>2. repo[call[p].site] \in CloneRecord /\ Ahead(edits, repo[call[p].site])
  BY <1>1 DEF HistoryInv, TypeOK, Here, WrittenInv
<1> QED BY <1>2 DEF CloneRecord, Ahead

(* Of the steps of a publication, those that change no clone.               *)
LEMMA PublishWritten ==
  ASSUME HistoryInv, WrittenInv, NEW p \in Procs, Good(p),
         PublishBase(p) \/ CommittedHead(p) \/ Push(p) \/ Reread(p)
  PROVE  WrittenInv'
<1>0. /\ TypeOK /\ UNCHANGED <<local, cache, repo, root, edits>> /\ Placed(p)
      /\ EditsGrow /\ Written(edits, remote) /\ call[p] \in Invocation
      /\ Fits(pc[p], call[p], edits, repo[call[p].site], remote)
      /\ pc[p] \in {"base", "head", "push", "reread"}
  <2>1. UNCHANGED <<local, cache, repo, root, edits>> /\ pc[p] \in {"base", "head", "push", "reread"}
    BY DEF PublishBase, CommittedHead, Push, Reread, Same, refs
  <2> QED BY <2>1, CallFits, SameEdits DEF HistoryInv, WrittenInv
<1>1. ASSUME Fits(pc'[p], call'[p], edits', repo'[call'[p].site], remote'), Written(edits, remote')
      PROVE  WrittenInv'
  BY <1>0, <1>1, MoverInPlace DEF Available, WrittenInv, RelocatedConfigPublished
<1>2. ASSUME Blocked(p) \/ Fails(p, "blocked"), Written(edits, remote') PROVE WrittenInv'
  BY <1>1, <1>2, EndsFit
<1>3. CASE PublishBase(p)
  <2>0. Written(edits, remote')
    BY <1>0, <1>3 DEF PublishBase, Same, refs
  <2>1. CASE kind = "published" => Located(call[p].site)
    <3> DEFINE h == repo[call[p].site].head
    <3>1. Here(call[p].site)
      BY <1>0, <1>3, <2>1 DEF PublishBase, Located, HistoryInv, OwnStore, Placed, Publishing
    <3>2. Written(edits, h)
      BY <3>1, SiteClone
    <3>3. PICK l \in {"pull", "edit"} : pc'[p] = l
      BY <1>0, <1>3, <2>1 DEF PublishBase, Step, TypeOK
    <3>4. call' = [call EXCEPT ![p].seen = h] /\ pc[p] # "idle"
      BY <1>3, <2>1 DEF PublishBase
    <3> HIDE DEF h
    <3>5. Fits(pc'[p], call'[p], edits', repo'[call'[p].site], remote')
      BY <1>0, <3>2, <3>3, <3>4, GoesFit DEF Asking, Fetching, Preparing
    <3> QED BY <1>1, <2>0, <3>5
  <2> QED BY <1>2, <1>3, <2>0, <2>1 DEF PublishBase
<1>4. CASE CommittedHead(p)
  <2>0. Written(edits, remote')
    BY <1>0, <1>4 DEF CommittedHead, Same, refs
  <2>1. CASE Step(p, "push") /\ call' = [call EXCEPT ![p].head = repo[call[p].site].head]
    <3>1. Here(call[p].site) /\ pc[p] = "head"
      BY <1>0, <1>4 DEF CommittedHead, Placed
    <3>2. Written(edits, repo[call[p].site].head)
      BY <3>1, SiteClone
    <3>3. pc'[p] = "push" /\ call'[p] = [call[p] EXCEPT !.head = repo[call[p].site].head]
      BY <1>0, <2>1 DEF Step, TypeOK
    <3>4. /\ call'[p].head = repo[call[p].site].head /\ call'[p].seen = call[p].seen
          /\ call'[p].task = call[p].task /\ call'[p].edit = call[p].edit
          /\ call'[p].result = call[p].result /\ call'[p].op = call[p].op
      BY <1>0, <3>3 DEF Invocation
    <3>5. /\ call[p].edit <= Content(repo[call[p].site].head, call[p].task)
          /\ Written(edits, call[p].seen) /\ call[p].task \in Selected /\ call[p].result = "none"
      BY <1>0, <3>1 DEF Fits
    <3>6. Fits("push", call'[p], edits', repo'[call'[p].site], remote')
      BY <1>0, <3>2, <3>4, <3>5 DEF Fits, Preparing
    <3> QED BY <1>1, <2>0, <3>3, <3>6
  <2> QED BY <1>2, <1>4, <2>0, <2>1 DEF CommittedHead, HeadAfter
<1>5. CASE Push(p)
  <2>1. CASE ~Accepted(p)
    BY <1>0, <1>2, <1>5, <2>1 DEF Push
  <2>2. CASE Accepted(p)
    <3>1. remote' = Pushed(p) /\ pc[p] = "push"
      BY <1>5, <2>2 DEF Push
    <3>2. Written(edits, Pushed(p)) /\ call[p].head \subseteq Pushed(p)
      <4>1. CASE kind = "published"
        BY <1>0, <4>1 DEF Fits, Pushed
      <4>2. CASE kind # "published"
        <5>1. Here(Primary) /\ Primary \in Sites
          BY <4>2, PrimarySite DEF HistoryInv, OwnStore
        <5>2. Written(edits, repo[Primary].head)
          BY <5>1 DEF WrittenInv, Ahead
        <5> QED BY <1>0, <3>1, <4>2, <5>2 DEF Pushed, Placed
      <4> QED BY <4>1, <4>2
    <3>3. CASE Step(p, "reread") /\ call' = call
      <4>1. pc'[p] = "reread"
        BY <1>0, <3>3 DEF Step, TypeOK
      <4>2. Fits("reread", call[p], edits', repo'[call[p].site], remote')
        BY <1>0, <3>1, <3>2 DEF Fits, Preparing
      <4> QED BY <1>1, <3>1, <3>2, <3>3, <4>1, <4>2
    <3> QED BY <1>2, <1>5, <2>2, <3>1, <3>2, <3>3 DEF Push
  <2> QED BY <2>1, <2>2
<1>6. CASE Reread(p)
  <2>0. Written(edits, remote') /\ remote' = remote /\ pc[p] = "reread"
    BY <1>0, <1>6 DEF Reread, Same, refs
  <2>1. CASE Step(p, "idle") /\ call' = [call EXCEPT ![p].result = "published"]
    <3>1. pc'[p] = "idle" /\ call'[p] = [call[p] EXCEPT !.result = "published"]
      BY <1>0, <2>1 DEF Step, TypeOK
    <3>2. /\ call'[p].head = call[p].head /\ call'[p].seen = call[p].seen
          /\ call'[p].task = call[p].task /\ call'[p].edit = call[p].edit
      BY <1>0, <3>1 DEF Invocation
    <3>3. Fits("idle", call'[p], edits', repo'[call'[p].site], remote')
      BY <1>0, <2>0, <3>2 DEF Fits, Preparing
    <3> QED BY <1>1, <2>0, <3>1, <3>3
  <2> QED BY <1>2, <1>6, <2>0, <2>1 DEF Reread
<1> QED BY <1>3, <1>4, <1>5, <1>6

LEMMA PullWritten ==
  ASSUME HistoryInv, WrittenInv, NEW p \in Procs, Good(p), Pull(p) PROVE WrittenInv'
<1>0. /\ TypeOK /\ UNCHANGED <<remote, local, cache, root, edits>> /\ pc[p] = "pull"
      /\ EditsGrow /\ Written(edits, remote) /\ remote \in Histories
      /\ Primary \in Sites /\ Here(Primary)
  <2>1. UNCHANGED <<remote, local, cache, root, edits>> /\ pc[p] = "pull"
    BY DEF Pull, refs
  <2>2. kind = "beads"
    BY <2>1 DEF HistoryInv, Placed
  <2> QED BY <2>1, <2>2, SameEdits, PrimarySite DEF HistoryInv, OwnStore, WrittenInv, TypeOK
<1>1. repo[Primary].head \in Histories /\ Written(edits, repo[Primary].head)
      /\ Ahead(edits, repo[Primary])
  BY <1>0 DEF TypeOK, Here, CloneRecord, WrittenInv, Ahead
<1>2. Fits(pc'[p], call'[p], edits', repo'[call'[p].site], remote')
  <2>1. CASE Goto(p, "edit")
    <3>1. pc'[p] = "edit" /\ call' = call
      BY <1>0, <2>1 DEF Goto, Step, TypeOK
    <3> QED BY <1>0, <3>1, GoesFit DEF Asking, Fetching, Preparing
  <2> QED BY <2>1, EndsFit DEF Pull
<1>3. CASE UNCHANGED repo
  BY <1>0, <1>1, <1>2, <1>3, MoverInClone
<1>4. CASE repo' = [repo EXCEPT ![Primary] = CloneOf(repo[Primary].head \cup remote)]
  <2> DEFINE h == repo[Primary].head \cup remote
  <2>1. h \in Histories /\ Written(edits, h)
    BY <1>0, <1>1, WrittenParts DEF Histories
  <2>2. Ahead(edits, CloneOf(h))
    <3> HIDE DEF h
    <3> QED BY <1>0, <2>1, AheadClone
  <2>3. repo'[Primary] = CloneOf(h) /\ \A q \in Sites : q # Primary => repo'[q] = repo[q]
    BY <1>0, <1>4 DEF TypeOK
  <2> QED BY <1>0, <1>2, <2>2, <2>3, MoverInClone
<1> QED BY <1>3, <1>4 DEF Pull

LEMMA EditWritten ==
  ASSUME HistoryInv, WrittenInv, NEW p \in Procs, Good(p), Edit(p) PROVE WrittenInv'
<1>s. PICK s \in Sites : s = call[p].site
  BY CallFits
<1>t. PICK t \in Tasks : t = call[p].task
  BY CallFits DEF Invocation
<1>0. /\ TypeOK /\ UNCHANGED <<remote, local, cache, root>> /\ pc[p] = "edit"
      /\ Here(s) /\ t \in Selected /\ call[p] \in Invocation
      /\ repo[s] \in CloneRecord /\ Ahead(edits, repo[s])
      /\ Fits(pc[p], call[p], edits, repo[call[p].site], remote)
  <2>1. UNCHANGED <<remote, local, cache, root>> /\ pc[p] = "edit"
    BY DEF Edit, refs
  <2>2. Here(s)
    BY <1>s, <2>1 DEF HistoryInv, Placed
  <2> QED BY <1>s, <1>t, <2>1, <2>2, SiteClone, CallFits DEF HistoryInv, Fits
<1>1. ASSUME EditsGrow, Ahead(edits', repo'[s]), \A q \in Sites : q # s => repo'[q] = repo[q],
             Fails(p, "blocked")
      PROVE  WrittenInv'
  <2>1. Fits(pc'[p], call'[p], edits', repo'[call'[p].site], remote')
    BY <1>1, EndsFit
  <2> QED BY <1>0, <1>1, <2>1, MoverInClone
<1>2. ASSUME EditsGrow, Ahead(edits', repo'[s]), \A q \in Sites : q # s => repo'[q] = repo[q],
             NEW l \in {"head", "commit"}, Step(p, l), NEW n, call' = [call EXCEPT ![p].edit = n],
             l = "commit" => n <= repo'[s].work[t],
             l = "head" => n <= Content(repo'[s].head, t)
      PROVE  WrittenInv'
  <2>1. pc'[p] = l /\ call'[p] = [call[p] EXCEPT !.edit = n]
    BY <1>0, <1>2 DEF Step, TypeOK
  <2>2. /\ call'[p].head = call[p].head /\ call'[p].seen = call[p].seen
        /\ call'[p].task = t /\ call'[p].edit = n /\ call'[p].result = call[p].result
        /\ call'[p].site = s
    BY <1>0, <1>s, <1>t, <2>1 DEF Invocation
  <2>3. Written(edits, call[p].seen) /\ Written(edits, call[p].head) /\ call[p].result = "none"
    BY <1>0 DEF Fits
  <2>4. Written(edits', call[p].seen) /\ Written(edits', call[p].head)
    BY <1>2, <2>3, WrittenStays
  <2>5. Fits(l, call'[p], edits', repo'[s], remote')
    BY <1>0, <1>2, <2>2, <2>3, <2>4 DEF Fits, Preparing
  <2> QED BY <1>0, <1>2, <2>1, <2>2, <2>5, MoverInClone
<1>3. CASE UNCHANGED <<repo, edits>> /\ Step(p, IF kind = "beads" THEN "head" ELSE "commit")
           /\ call' = [call EXCEPT ![p].edit = repo[s].work[t]]
  <2>1. EditsGrow /\ Ahead(edits', repo'[s])
    BY <1>0, <1>3, SameEdits
  <2>2. kind = "beads" => repo[s].work[t] = Content(repo[s].head, t)
    <3>1. kind = "beads" => s = Primary /\ Clean(s)
      BY <1>0, <1>s DEF HistoryInv, OwnStore, Placed, Publishing
    <3> QED BY <3>1 DEF Clean, Dirty
  <2>3. repo[s].work[t] \in Nat
    BY <1>0 DEF CloneRecord
  <2> DEFINE n == repo[s].work[t]
             l == IF kind = "beads" THEN "head" ELSE "commit"
  <2>4. /\ l \in {"head", "commit"}
        /\ l = "commit" => n <= repo'[s].work[t]
        /\ l = "head" => n <= Content(repo'[s].head, t)
    BY <1>3, <2>2, <2>3
  <2>5. Step(p, l) /\ call' = [call EXCEPT ![p].edit = n] /\ \A q \in Sites : q # s => repo'[q] = repo[q]
    BY <1>3
  <2> HIDE DEF n, l
  <2> QED BY <1>2, <2>1, <2>4, <2>5
<1>4. CASE /\ edits' = Append(edits, "tool")
           /\ repo' = IF kind = "beads"
                      THEN [repo EXCEPT ![s] = CloneOf(@.head \cup {Commit(t, Fresh)})]
                      ELSE [repo EXCEPT ![s].work[t] = Fresh]
           /\ \/ /\ Step(p, IF kind = "beads" THEN "head" ELSE "commit")
                 /\ call' = [call EXCEPT ![p].edit = Fresh]
              \/ Fails(p, "blocked")
  <2>1. /\ EditsGrow /\ Fresh \in DOMAIN edits' /\ edits'[Fresh] = "tool" /\ Fresh \in Nat
        /\ Len(edits') = Fresh
    BY <1>0, <1>4, OneEdit
  <2>2. CASE kind = "beads"
    <3> DEFINE h == repo[s].head \cup {Commit(t, Fresh)}
    <3>1. h \in Histories /\ Written(edits', h)
      <4>1. Written(edits', repo[s].head) /\ repo[s].head \in Histories
        BY <1>0, <2>1, WrittenStays DEF Ahead, CloneRecord
      <4>2. Written(edits', {Commit(t, Fresh)})
        BY <2>1 DEF Written, Commit
      <4>3. Commit(t, Fresh) \in Commits
        BY <2>1, CommitType
      <4> QED BY <4>1, <4>2, <4>3, WrittenParts DEF Histories
    <3>2. Fresh <= Content(h, t)
      <4>1. \A c \in h : c.n <= Len(edits')
        BY <2>1, <3>1 DEF Written, EditsGrow
      <4>2. Commit(t, Fresh) \in h /\ Commit(t, Fresh).task = t /\ Commit(t, Fresh).n = Fresh
        BY DEF Commit
      <4>3. \A c \in h : c.task = t => c.n <= Content(h, t)
        <5> HIDE DEF h
        <5> QED BY <2>1, <3>1, <4>1, ContentIs DEF EditsGrow
      <4> QED BY <4>2, <4>3
    <3>3. Ahead(edits', CloneOf(h)) /\ CloneOf(h).head = h
      <4> HIDE DEF h
      <4> QED BY <2>1, <3>1, AheadClone, CloneType
    <3>4. repo'[s] = CloneOf(h) /\ \A q \in Sites : q # s => repo'[q] = repo[q]
      BY <1>0, <1>4, <2>2 DEF TypeOK
    <3>5. Fresh <= Content(repo'[s].head, t) /\ Ahead(edits', repo'[s])
      BY <3>2, <3>3, <3>4
    <3>6. \/ Step(p, "head") /\ call' = [call EXCEPT ![p].edit = Fresh]
          \/ Fails(p, "blocked")
      BY <1>4, <2>2
    <3> QED BY <1>1, <1>2, <2>1, <3>4, <3>5, <3>6
  <2>3. CASE kind # "beads"
    <3>1. repo' = [repo EXCEPT ![s].work[t] = Fresh]
      BY <1>4, <2>3
    <3>2. Ahead(edits', repo'[s]) /\ \A q \in Sites : q # s => repo'[q] = repo[q]
      BY <1>0, <1>4, <3>1, AheadEdited
    <3>3. repo'[s].work[t] = Fresh
      BY <1>0, <3>1 DEF TypeOK, CloneRecord
    <3>4. Fresh <= repo'[s].work[t]
      BY <2>1, <3>3
    <3>5. \/ Step(p, "commit") /\ call' = [call EXCEPT ![p].edit = Fresh]
          \/ Fails(p, "blocked")
      BY <1>4, <2>3
    <3> QED BY <1>1, <1>2, <2>1, <3>2, <3>4, <3>5
  <2> QED BY <2>2, <2>3
<1> QED BY <1>s, <1>t, <1>3, <1>4 DEF Edit

LEMMA CommitWritten ==
  ASSUME HistoryInv, WrittenInv, NEW p \in Procs, Good(p), CommitOnly(p) PROVE WrittenInv'
<1>s. PICK s \in Sites : s = call[p].site
  BY CallFits
<1>t. PICK t \in Tasks : t = call[p].task
  BY CallFits DEF Invocation
<1>0. /\ TypeOK /\ UNCHANGED <<remote, local, cache, root, edits>> /\ pc[p] = "commit"
      /\ Here(s) /\ t \in Selected /\ call[p] \in Invocation /\ EditsGrow
      /\ repo[s] \in CloneRecord /\ Ahead(edits, repo[s])
      /\ Fits(pc[p], call[p], edits, repo[call[p].site], remote)
  <2>1. UNCHANGED <<remote, local, cache, root, edits>> /\ pc[p] = "commit"
    BY DEF CommitOnly, refs
  <2>2. Here(s)
    BY <1>s, <2>1 DEF HistoryInv, Placed
  <2> QED BY <1>s, <1>t, <2>1, <2>2, SiteClone, CallFits, SameEdits DEF HistoryInv, Fits
<1> DEFINE h == repo[s].head \cup {Commit(u, repo[s].work[u]) : u \in OnlyTask(s, t)}
           r == [repo[s] EXCEPT !.head = h]
<1>1. h \in Histories
  <2>1. \A u \in OnlyTask(s, t) : u \in Tasks
    BY DEF OnlyTask
  <2>2. \A u \in OnlyTask(s, t) : Commit(u, repo[s].work[u]) \in Commits
    BY <1>0, <2>1, CommitType DEF CloneRecord
  <2> QED BY <1>0, <2>2 DEF CloneRecord, Histories
<1>2. r \in CloneRecord /\ r.head = h /\ r.seen = repo[s].seen /\ r.work = repo[s].work
  <2> HIDE DEF h
  <2> QED BY <1>0, <1>1 DEF CloneRecord
<1>3. Ahead(edits, r) /\ Written(edits, h) /\ repo[s].work[t] <= Content(h, t)
  <2> HIDE DEF r
  <2>1. \A g : g = h => Ahead(edits, r) /\ Written(edits, g) /\ repo[s].work[t] <= Content(g, t)
    BY <1>0, <1>2, AheadCommitted
  <2> QED BY <2>1
<1>4. call[p].edit <= Content(h, t)
  <2>1. h = repo[s].head \cup {Commit(u, repo[s].work[u]) : u \in OnlyTask(s, t)}
    OBVIOUS
  <2> HIDE DEF h
  <2>2. repo[s].work[t] \in Nat /\ Content(h, t) \in Nat /\ call[p].edit \in Nat
    BY <1>0, <1>1, ContentType DEF CloneRecord, Invocation
  <2>3. call[p].edit <= repo[s].work[t]
    BY <1>0, <1>s, <1>t DEF Fits
  <2> QED BY <1>3, <2>2, <2>3
<1>5. CASE OnlyTask(s, t) # {}
  <2>1. /\ repo' = [repo EXCEPT ![s].head = h] /\ Step(p, "head")
        /\ call' = [call EXCEPT ![p].head = repo'[s].head]
    BY <1>s, <1>t, <1>0, <1>5 DEF CommitOnly, TypeOK, CloneRecord
  <2> HIDE DEF h
  <2>2. /\ repo'[s] = r /\ repo'[s].head = h
        /\ \A q \in Sites : q # s => repo'[q] = repo[q]
    BY <1>0, <1>2, <2>1 DEF TypeOK
  <2>3. pc'[p] = "head" /\ call'[p] = [call[p] EXCEPT !.head = h]
    BY <1>0, <2>1, <2>2 DEF Step, TypeOK
  <2>4. /\ call'[p].head = h /\ call'[p].seen = call[p].seen
        /\ call'[p].task = t /\ call'[p].edit = call[p].edit /\ call'[p].result = call[p].result
        /\ call'[p].site = s
    BY <1>0, <1>s, <1>t, <2>3 DEF Invocation
  <2>5. Written(edits, call[p].seen) /\ call[p].result = "none"
    BY <1>0 DEF Fits
  <2>6. Fits("head", call'[p], edits', repo'[s], remote')
    BY <1>0, <1>3, <1>4, <2>2, <2>4, <2>5 DEF Fits, Preparing
  <2>7. /\ Ahead(edits', repo'[s]) /\ EditsGrow
        /\ UNCHANGED <<remote, local, cache, root>>
    BY <1>0, <1>3, <2>2
  <2>8. Fits(pc'[p], call'[p], edits', repo'[call'[p].site], remote')
    BY <2>3, <2>4, <2>6
  <2> HIDE DEF r
  <2> QED BY <2>2, <2>7, <2>8, MoverInClone
<1>6. CASE OnlyTask(s, t) = {}
  <2>1. UNCHANGED repo /\ (Goto(p, "head") \/ Blocked(p)) /\ h = repo[s].head
    BY <1>s, <1>t, <1>6 DEF CommitOnly
  <2> HIDE DEF h
  <2>2. CASE Goto(p, "head")
    <3>1. pc'[p] = "head" /\ call' = call
      BY <1>0, <2>2 DEF Goto, Step, TypeOK
    <3>2. Fits("head", call[p], edits', repo'[s], remote')
      BY <1>0, <1>s, <1>t, <1>4, <2>1 DEF Fits, Preparing
    <3> QED BY <1>0, <1>s, <2>1, <3>1, <3>2, MoverInClone
  <2>3. CASE Blocked(p)
    <3>1. Fits(pc'[p], call'[p], edits', repo'[call'[p].site], remote')
      BY <2>3, EndsFit
    <3> QED BY <1>0, <2>1, <3>1, MoverInClone
  <2> QED BY <2>1, <2>2, <2>3
<1> QED BY <1>5, <1>6

LEMMA BeginWritten ==
  ASSUME HistoryInv, WrittenInv, NEW p \in Procs, Good(p), Begin(p) PROVE WrittenInv'
<1>1. PICK op \in IF kind = "published" THEN {"prepare", "episode", "inspect", "publish"}
                  ELSE {"publish"},
           s \in Sites, t \in Selected :
        /\ op \in {"prepare", "inspect"} => s = Primary
        /\ op = "episode" => s \in Worktrees
        /\ kind # "published" => s = Primary
        /\ pc' = [pc EXCEPT ![p] = CASE op = "prepare" -> "probe"
                                     [] op = "episode" -> "locate"
                                     [] op = "inspect" -> "clean"
                                     [] OTHER          -> "base"]
        /\ call' = [call EXCEPT ![p] = [op |-> op, site |-> s, task |-> t, seen |-> NoRef,
                                        head |-> NoRef, edit |-> 0, result |-> "none"]]
        /\ calm' = IF op \in {"prepare", "episode"} THEN calm \cup {p} ELSE calm \ {p}
  BY Zenon DEF Begin
<1>2. UNCHANGED <<remote, local, cache, repo, root, edits>>
  BY DEF Begin, store, refs
<1>3. /\ call'[p].seen = NoRef /\ call'[p].head = NoRef /\ call'[p].result = "none"
      /\ call'[p].task \in Selected /\ call'[p].op = op
      /\ pc'[p] = "probe" => op = "prepare"
      /\ pc'[p] = "locate" => op = "episode"
      /\ pc'[p] \in {"probe", "locate", "clean", "base"}
  BY <1>1 DEF HistoryInv, TypeOK
<1>4. Fits(pc'[p], call'[p], edits', repo'[call'[p].site], remote')
  BY <1>3 DEF Fits, Written, NoRef, Preparing
<1> QED BY <1>2, <1>4, MoverInPlace DEF Available, WrittenInv

(* The steps of no process.                                                 *)
LEMMA DraftWritten ==
  ASSUME HistoryInv, WrittenInv, NEW s \in Sites, NEW t \in Tasks, Draft(s, t)
  PROVE  WrittenInv'
<1>1. /\ TypeOK /\ Here(s) /\ UNCHANGED <<remote, local, cache, root, pc, call>>
      /\ edits' = Append(edits, "agent") /\ repo' = [repo EXCEPT ![s].work[t] = Fresh]
      /\ Ahead(edits, repo[s])
  BY DEF HistoryInv, Draft, refs, WrittenInv
<1>2. HistoryInv' /\ Growing
  BY DraftStep
<1>3. EditsGrow
  BY <1>1, OneEdit
<1>4. Ahead(edits', repo'[s]) /\ \A q \in Sites : q # s => repo'[q] = repo[q]
  BY <1>1, AheadEdited
<1>5. Written(edits', remote') /\ Written(edits', local') /\ Written(edits', cache')
  BY <1>1, <1>3, WrittenStays DEF WrittenInv
<1>6. ASSUME NEW q \in Sites, Here(q)' PROVE Ahead(edits', repo'[q])
  <2>1. CASE q # s
    <3>1. Here(q) /\ repo'[q] = repo[q] /\ repo[q] \in CloneRecord
      BY <1>1, <1>4, <1>6, <2>1 DEF Here, TypeOK
    <3> QED BY <1>3, <3>1, AheadStays DEF WrittenInv
  <2> QED BY <1>4, <2>1
<1>7. RelocatedConfigPublished'
  <2>1. root \in {"link", "gone"} => Configured(edits, remote)
    BY DEF WrittenInv, RelocatedConfigPublished, Configured
  <2>2. root \in {"link", "gone"} => Configured(edits', remote)
    BY <1>3, <2>1, WrittenStays DEF WrittenInv
  <2> QED BY <1>1, <2>2 DEF RelocatedConfigPublished, Configured
<1>8. \A q \in Procs : Fits(pc[q], call[q], edits', repo'[call[q].site], remote')
  BY <1>1, <1>2, <1>3, <1>5, <1>6, <1>7, WrittenMove
<1> QED BY <1>1, <1>5, <1>6, <1>7, <1>8 DEF WrittenInv

LEMMA HostWritten ==
  ASSUME HistoryInv, WrittenInv, NEW t \in Tasks, HostPublishes(t) PROVE WrittenInv'
<1>1. /\ TypeOK /\ UNCHANGED <<local, cache, repo, root, pc, call>>
      /\ edits' = Append(edits, "host")
      /\ remote' = IF remote = NoRef THEN {Commit(Marker, Fresh)}
                   ELSE remote \cup {Commit(t, Fresh)}
  BY DEF HistoryInv, HostPublishes
<1>2. HistoryInv' /\ Growing
  BY HostStep
<1>3. EditsGrow /\ Fresh \in DOMAIN edits' /\ edits'[Fresh] = "host"
  BY <1>1, OneEdit
<1>4. Written(edits', remote) /\ Written(edits', local') /\ Written(edits', cache')
      /\ (Configured(edits, remote) => Configured(edits', remote))
  BY <1>1, <1>3, WrittenStays DEF WrittenInv
<1>5. Written(edits', remote')
  <2>1. Written(edits', {Commit(t, Fresh)}) /\ Written(edits', {Commit(Marker, Fresh)})
    BY <1>3 DEF Written, Commit
  <2> QED BY <1>1, <1>4, <2>1, WrittenParts
<1>6. \A q \in Sites : Here(q)' => Ahead(edits', repo'[q])
  <2>1. \A s \in Sites : Here(s) => repo[s] \in CloneRecord /\ Ahead(edits, repo[s])
    BY <1>1 DEF WrittenInv, TypeOK, Here
  <2> QED BY <1>1, <1>3, <2>1, AheadStays DEF Here
<1>7. RelocatedConfigPublished'
  <2>1. root \in {"link", "gone"} => Configured(edits, remote)
    BY DEF WrittenInv, RelocatedConfigPublished, Configured
  <2>2. remote \subseteq remote'
    BY <1>2 DEF Growing
  <2>3. root \in {"link", "gone"} => Configured(edits', remote')
    BY <1>4, <2>1, <2>2 DEF Configured
  <2> QED BY <1>1, <2>3 DEF RelocatedConfigPublished, Configured
<1>8. \A q \in Procs : Fits(pc[q], call[q], edits', repo'[call[q].site], remote')
  BY <1>1, <1>2, <1>3, <1>4, <1>5, <1>6, <1>7, WrittenMove
<1> QED BY <1>1, <1>4, <1>5, <1>6, <1>7, <1>8 DEF WrittenInv

LEMMA WrittenInit == Init => WrittenInv
<1> SUFFICES ASSUME Init PROVE WrittenInv
  OBVIOUS
<1> DEFINE t0 == CHOOSE t \in Selected : TRUE
<1>0. HistoryInv /\ t0 \in Selected
  BY HistoryInit, TaskHistoryAssumption
<1>1. /\ edits \in {<<"tool", "host", "host">>, <<"host", "host", "host">>}
      /\ Len(edits) = 3 /\ 1 \in DOMAIN edits /\ 2 \in DOMAIN edits /\ 3 \in DOMAIN edits
      /\ edits[1] # "agent" /\ edits[2] # "agent" /\ edits[3] # "agent"
  BY DEF Init
<1>2. Written(edits, NoRef) /\ Written(edits, Base) /\ Written(edits, Past) /\ Written(edits, Fork)
  BY <1>0, <1>1 DEF Written, NoRef, Base, Past, Fork, Commit
<1>3. Base \in Histories /\ Past \in Histories
  <2>1. Commit(Marker, 1) \in Commits /\ Commit(t0, 2) \in Commits
    BY <1>0, CommitType, TaskHistoryAssumption
  <2> QED BY <2>1 DEF Base, Past, Histories
<1>4. Written(edits, remote) /\ Written(edits, local) /\ Written(edits, cache)
  BY <1>2 DEF Init
<1>5. Ahead(edits, CloneOf(Base)) /\ Ahead(edits, CloneOf(Past))
  <2>1. edits \in Seq({"tool", "agent", "host"})
    BY <1>0 DEF HistoryInv, TypeOK
  <2>2. ASSUME NEW h \in {Base, Past} PROVE Ahead(edits, CloneOf(h))
    <3>1. Len(edits) \in Nat /\ \A c \in h : c.n <= Len(edits)
      BY <1>2, <2>1 DEF Written
    <3>2. \A t \in Tasks : Content(h, t) \in Nat /\ Content(h, t) <= Len(edits)
      BY <1>3, <3>1, ContentIs
    <3>3. /\ CloneOf(h).head = h /\ CloneOf(h).seen = h
          /\ \A t \in Tasks : CloneOf(h).work[t] = Content(h, t)
      BY DEF CloneOf, Bytes
    <3> QED BY <1>2, <3>2, <3>3 DEF Ahead
  <2> QED BY <2>2
<1>6. Ahead(edits, [CloneOf(Base) EXCEPT !.own = FALSE])
  <2>1. CloneOf(Base) \in CloneRecord
    BY <1>3, CloneType
  <2> DEFINE r == CloneOf(Base)
  <2> HIDE DEF r
  <2>2. r \in CloneRecord /\ Ahead(edits, r)
    BY <1>5, <2>1 DEF r
  <2>3. /\ [r EXCEPT !.own = FALSE].head = r.head /\ [r EXCEPT !.own = FALSE].seen = r.seen
        /\ [r EXCEPT !.own = FALSE].work = r.work
    BY <2>2 DEF CloneRecord
  <2>4. Ahead(edits, [r EXCEPT !.own = FALSE])
    BY <2>2, <2>3 DEF Ahead
  <2> QED BY <2>4 DEF r
<1>7. ASSUME NEW s \in Sites, Here(s) PROVE Ahead(edits, repo[s])
  <2>1. repo[s] \in {[CloneOf(Base) EXCEPT !.own = FALSE]} \cup {CloneOf(h) : h \in {Base, Past}}
    BY <1>7 DEF Init, Here
  <2> QED BY <1>5, <1>6, <2>1
<1>8. ASSUME NEW p \in Procs PROVE Fits(pc[p], call[p], edits, repo[call[p].site], remote)
  <2>1. /\ pc[p] = "idle" /\ call[p].seen = NoRef /\ call[p].head = NoRef
        /\ call[p].task = t0 /\ call[p].result = "none"
    BY DEF Init
  <2> HIDE DEF t0
  <2> QED BY <1>0, <1>2, <2>1 DEF Fits, Preparing
<1>9. RelocatedConfigPublished
  <2> SUFFICES ASSUME root = "link" PROVE \E c \in remote : c.task = Marker /\ edits[c.n] = "tool"
    BY DEF RelocatedConfigPublished, Init
  <2>1. remote \in {Base, Past} /\ edits[1] = "tool"
    BY DEF Init
  <2>2. Commit(Marker, 1) \in remote /\ Commit(Marker, 1).task = Marker /\ Commit(Marker, 1).n = 1
    BY <2>1 DEF Base, Past, Commit
  <2> QED BY <2>1, <2>2
<1> QED BY <1>4, <1>7, <1>8, <1>9 DEF WrittenInv

LEMMA SameWritten ==
  ASSUME WrittenInv, UNCHANGED vars PROVE WrittenInv'
BY DEF WrittenInv, RelocatedConfigPublished, Here, vars, store, refs

LEMMA WrittenStep ==
  ASSUME HistoryInv, WrittenInv, [Next]_vars PROVE WrittenInv'
<1>1. ASSUME NEW p \in Procs, PrepareStep(p) PROVE WrittenInv'
  <2>1. Good(p)
    BY <1>1, PrepareReads, PrepareEnds, PrepareRefs, CloneAndMerge DEF PrepareStep
  <2> QED BY <1>1, <2>1, PrepareInPlace, BootstrapWritten, ClonesWritten DEF PrepareStep
<1>2. ASSUME NEW p \in Procs, PublishStep(p) PROVE WrittenInv'
  <2>1. Good(p)
    BY <1>2, PublishReads, PullGood, EditGood, CommitGood, PushGood DEF PublishStep
  <2> QED BY <1>2, <2>1, PublishWritten, PullWritten, EditWritten, CommitWritten DEF PublishStep
<1>3. ASSUME NEW p \in Procs, EpisodeStep(p) \/ InspectStep(p) \/ Interrupted(p) PROVE WrittenInv'
  <2>1. Good(p)
    BY <1>3, EpisodeGood, InspectGood, InterruptedGood
  <2> QED BY <1>3, <2>1, ReadingWritten, ClonesWritten DEF EpisodeStep
<1>4. ASSUME NEW p \in Procs, Begin(p) PROVE WrittenInv'
  BY <1>4, BeginGood, BeginWritten
<1> QED BY <1>1, <1>2, <1>3, <1>4, DraftWritten, HostWritten, SameWritten DEF Next

LEMMA WrittenAlways == Spec => [](HistoryInv /\ WrittenInv)
BY HistoryInit, HistoryStep, WrittenInit, WrittenStep, PTL DEF Spec

(* commitConversationTaskStatus commits and pushes the task it was asked    *)
(* for: whatever the processes, agents and hosts do, no history has what an *)
(* agent wrote in a task nobody asked to publish.                           *)
THEOREM DraftsKeptLocal == Spec => []DraftsStayLocal
<1>1. WrittenInv => DraftsStayLocal
  BY DEF WrittenInv, Ahead, Written, DraftsStayLocal
<1> QED BY <1>1, WrittenAlways, PTL

(* publishTaskHistoryMutation reports as published a head that is in the    *)
(* remote branch for good and that holds the edit, or a later one of the    *)
(* same task that was made in the same clone.                               *)
THEOREM EditsPublished == Spec => []EditPublished
<1>1. WrittenInv => EditPublished
  BY DEF WrittenInv, Fits, EditPublished
<1> QED BY <1>1, WrittenAlways, PTL

(* prepareTaskHistoryWorkspace takes the root configuration away only when  *)
(* the remote branch has it, whenever the process dies.                     *)
THEOREM ConfigPublished == Spec => []RelocatedConfigPublished
<1>1. WrittenInv => RelocatedConfigPublished
  BY DEF WrittenInv
<1> QED BY <1>1, WrittenAlways, PTL

-----------------------------------------------------------------------------
(* What a preparation knows that nothing has interfered with: what it read  *)
(* still is so, and local work is in its way when it was blocked.           *)
Current == {"refresh", "local", "advance", "clone", "compare", "merge", "proof", "unlink",
            "link", "reprove"}

Refused(p) ==
  /\ call[p].op = "prepare" => ~ Preparable
  /\ call[p].op = "episode" =>
       \/ remote = NoRef \/ ~ LocationKnown
       \/ Here(call[p].site) /\ (~ Independent(call[p].site) \/ InTheWay(call[p].site))

Calmly(p) ==
  /\ pc[p] \in {"idle"} \cup Asking \cup Fetching
  /\ pc[p] = "absent" => remote = NoRef
  /\ pc[p] = "bootstrap" => remote = NoRef /\ local = NoRef
  /\ pc[p] = "refetch" => remote # NoRef /\ local = NoRef
  /\ pc[p] \in Current => remote = call[p].seen /\ remote # NoRef
  /\ pc[p] = "local" => cache = remote
  /\ pc[p] = "advance" => local = call[p].head
  /\ pc[p] \in {"compare", "merge"} =>
       Here(Primary) /\ call[p].head = remote /\ repo[Primary].seen = remote
  /\ pc[p] = "merge" => Clean(Primary) /\ repo[Primary].head \subseteq remote
  /\ pc[p] \in {"proof", "unlink", "link", "reprove"} =>
       Here(Primary) /\ repo[Primary].head = remote
  /\ pc[p] \in {"unlink", "link", "reprove"} => Clean(Primary)
  /\ pc[p] = "unlink" => root = "file"
  /\ pc[p] = "link" => root = "gone"
  /\ pc[p] # "recheck"
  /\ pc[p] = "forward" => Here(call[p].site) /\ repo[call[p].site].seen = remote
  /\ call[p].result = "blocked" => Refused(p)

CalmInv == \A p \in calm : Calmly(p)

(* Only p stays calm, or nobody.                                            *)
LEMMA OnlyMover ==
  ASSUME NEW p \in Procs, calm' = {} \/ (calm' = calm \cap {p} /\ (p \in calm => Calmly(p)'))
  PROVE  CalmInv'
BY DEF CalmInv

(* What is left to show when p is blocked, goes on, or ends otherwise.      *)
LEMMA BlockedCalmly ==
  ASSUME TypeOK, NEW p \in Procs, Blocked(p),
         call[p].op = "prepare" => (~ Preparable)',
         call[p].op = "episode" =>
           \/ (remote = NoRef)' \/ (~ LocationKnown)'
           \/ \E s \in Sites : s = call[p].site /\ Here(s)' /\ (~ Independent(s) \/ InTheWay(s))'
  PROVE  Calmly(p)'
<1>1. /\ pc'[p] = "idle" /\ call'[p].op = call[p].op /\ call'[p].site = call[p].site
  BY DEF TypeOK, Invocation, Blocked, Step, Ended
<1>2. Refused(p)'
  BY <1>1 DEF Refused
<1> QED BY <1>1, <1>2 DEF Calmly, Current

LEMMA EndedCalmly ==
  ASSUME TypeOK, NEW p \in Procs, NEW r, r # "blocked", Step(p, "idle"), call' = Ended(p, r)
  PROVE  Calmly(p)'
<1>1. pc'[p] = "idle" /\ call'[p].result = r
  BY DEF TypeOK, Invocation, Step, Ended
<1> QED BY <1>1 DEF Calmly, Current

(* The steps before the clone is looked at.                                 *)
LEMMA BranchCalmly ==
  ASSUME HistoryInv, WrittenInv, NEW p \in Procs, Calmly(p),
         \/ Probe(p) \/ Absent(p) \/ Refresh(p) \/ Local(p) \/ Advance(p) \/ Refetch(p)
         \/ Bootstrap(p)
  PROVE  calm' = {} \/ Calmly(p)'
<1>0. /\ TypeOK /\ call[p] \in Invocation /\ call[p].op = "prepare" /\ call[p].result = "none"
      /\ pc[p] \in {"probe", "absent", "refresh", "local", "advance", "refetch", "bootstrap"}
      /\ UNCHANGED <<repo, root>>
  <2>1. /\ pc[p] \in {"probe", "absent", "refresh", "local", "advance", "refetch", "bootstrap"}
        /\ UNCHANGED <<repo, root>>
    BY DEF Probe, Absent, Refresh, Local, Advance, Refetch, Bootstrap, Same
  <2> QED BY <2>1, CallFits DEF Fits, Preparing, HistoryInv
<1>1. ASSUME NEW l, Goto(p, l) PROVE pc'[p] = l /\ call' = call
  BY <1>0, <1>1 DEF Goto, Step, TypeOK
<1>2. CASE Probe(p)
  <2>1. UNCHANGED <<remote, local, cache, repo, root, edits>>
    BY <1>2 DEF Probe, Same, refs
  <2>2. CASE Startable
    <3>1. /\ pc'[p] = IF remote = NoRef THEN "absent" ELSE "refresh"
          /\ call'[p].seen = remote /\ call'[p].result = "none"
      BY <1>0, <1>2, <2>2 DEF Probe, Step, TypeOK, Invocation
    <3> QED BY <2>1, <3>1 DEF Calmly, Current, Asking, Preparing
  <2>3. CASE ~ Startable
    <3>1. remote # NoRef
      BY <2>3 DEF WrittenInv, RelocatedConfigPublished, Startable, NoRef
    <3>2. (~ Preparable)'
      BY <2>1, <2>3, <3>1 DEF Preparable, Startable, Here
    <3> QED BY <1>0, <1>2, <2>3, <3>2, BlockedCalmly DEF Probe
  <2> QED BY <2>2, <2>3
<1>3. CASE Absent(p)
  <2>1. UNCHANGED <<remote, local, repo, root, edits>> /\ remote = NoRef
    BY <1>3 DEF Absent, Calmly
  <2>2. CASE local = NoRef
    <3>1. pc'[p] = "bootstrap" /\ call' = call
      BY <1>1, <1>3, <2>2 DEF Absent
    <3> QED BY <1>0, <2>1, <2>2, <3>1 DEF Calmly, Current, Asking, Preparing
  <2>3. CASE local # NoRef
    <3>1. (~ Preparable)'
      BY <2>1, <2>3 DEF Preparable
    <3> QED BY <1>0, <1>3, <2>3, <3>1, BlockedCalmly DEF Absent
  <2> QED BY <2>2, <2>3
<1>4. CASE Refresh(p)
  <2>1. /\ UNCHANGED <<remote, local, repo, root, edits>> /\ cache' = remote
        /\ remote = call[p].seen /\ remote # NoRef
    BY <1>4 DEF Refresh, Calmly, Current
  <2>2. pc'[p] = "local" /\ call' = call
    BY <1>1, <1>4, <2>1 DEF Refresh
  <2> QED BY <1>0, <2>1, <2>2 DEF Calmly, Current, Asking, Preparing
<1>5. CASE Local(p)
  <2>1. /\ UNCHANGED <<remote, cache, repo, root, edits>> /\ cache = remote
        /\ remote = call[p].seen /\ remote # NoRef
    BY <1>5 DEF Local, Calmly, Current
  <2>2. CASE pc'[p] = "clone" /\ call' = call
    BY <1>0, <2>1, <2>2 DEF Calmly, Current, Asking, Preparing
  <2>3. CASE Step(p, "advance") /\ call' = [call EXCEPT ![p].head = local] /\ UNCHANGED local
    <3>1. /\ pc'[p] = "advance" /\ call'[p].head = local /\ call'[p].seen = call[p].seen
          /\ call'[p].result = "none"
      BY <1>0, <2>3 DEF Step, TypeOK, Invocation
    <3> QED BY <1>0, <2>1, <2>3, <3>1 DEF Calmly, Current, Asking, Preparing
  <2>4. CASE Blocked(p) /\ ~ Behind(p) /\ UNCHANGED local
    <3>1. (~ Preparable)'
      BY <2>1, <2>4 DEF Preparable, Behind
    <3> QED BY <1>0, <2>4, <3>1, BlockedCalmly
  <2> QED BY <1>1, <1>5, <2>1, <2>2, <2>3, <2>4 DEF Local
<1>6. CASE Advance(p)
  <2>1. /\ UNCHANGED <<remote, cache, repo, root, edits>>
        /\ remote = call[p].seen /\ remote # NoRef /\ local = call[p].head
    BY <1>6 DEF Advance, Calmly, Current
  <2>2. pc'[p] = "clone" /\ call' = call
    BY <1>1, <1>6, <2>1 DEF Advance
  <2> QED BY <1>0, <2>1, <2>2 DEF Calmly, Current, Asking, Preparing
<1>7. CASE Refetch(p)
  <2>1. UNCHANGED <<remote, repo, root, edits>> /\ remote # NoRef /\ local = NoRef
    BY <1>7 DEF Refetch, Calmly
  <2>2. Step(p, "clone") /\ call' = [call EXCEPT ![p].seen = remote]
    BY <1>7, <2>1 DEF Refetch
  <2>3. pc'[p] = "clone" /\ call'[p].seen = remote /\ call'[p].result = "none"
    BY <1>0, <2>2 DEF Step, TypeOK, Invocation
  <2> QED BY <2>1, <2>3 DEF Calmly, Current, Asking, Preparing
<1>8. CASE Bootstrap(p)
  <2>1. remote = NoRef /\ local = NoRef /\ local' = local
    BY <1>8 DEF Bootstrap, Calmly
  <2>2. remote' # NoRef
    BY <1>8, <2>1 DEF Bootstrap, NoRef
  <2>3. CASE Goto(p, "refetch")
    <3>1. pc'[p] = "refetch" /\ call' = call
      BY <1>1, <2>3
    <3> QED BY <1>0, <2>1, <2>2, <3>1 DEF Calmly, Current, Asking, Preparing
  <2>4. CASE Fails(p, "blocked")
    BY <2>4 DEF Fails
  <2> QED BY <1>8, <2>1, <2>3, <2>4 DEF Bootstrap
<1> QED BY <1>2, <1>3, <1>4, <1>5, <1>6, <1>7, <1>8
(* The primary clone: fetched, compared and forwarded.                      *)
LEMMA CloneCalmly ==
  ASSUME HistoryInv, WrittenInv, NEW p \in Procs, Calmly(p),
         Clone(p) \/ Compare(p) \/ Merge(p)
  PROVE  Calmly(p)'
<1>0. /\ TypeOK /\ call[p] \in Invocation /\ call[p].op = "prepare" /\ call[p].result = "none"
      /\ pc[p] \in {"clone", "compare", "merge"} /\ Primary \in Sites
      /\ UNCHANGED <<remote, local, cache, root, edits>>
      /\ remote = call[p].seen /\ remote # NoRef /\ remote \in Histories
  <2>1. /\ pc[p] \in {"clone", "compare", "merge"}
        /\ UNCHANGED <<remote, local, cache, root, edits>>
    BY DEF Clone, Compare, Merge, Same, refs
  <2>2. remote = call[p].seen /\ remote # NoRef /\ remote \in Histories
    BY <2>1 DEF Calmly, Current, HistoryInv, TypeOK
  <2> QED BY <2>1, <2>2, CallFits, PrimarySite DEF Fits, Preparing, HistoryInv
<1>1. ASSUME NEW l, Goto(p, l) PROVE pc'[p] = l /\ call' = call
  BY <1>0, <1>1 DEF Goto, Step, TypeOK
<1>2. ASSUME Blocked(p), (~ Preparable)' PROVE Calmly(p)'
  BY <1>0, <1>2, BlockedCalmly
<1>3. CASE Clone(p)
  <2>1. CASE Here(Primary) /\ ~ Independent(Primary)
    <3>1. Blocked(p) /\ UNCHANGED repo
      BY <1>3, <2>1 DEF Clone
    <3>2. (~ Preparable)'
      BY <1>0, <2>1, <3>1 DEF Preparable, Here, Independent
    <3> QED BY <1>2, <3>1, <3>2
  <2>2. CASE Here(Primary) /\ Independent(Primary)
    <3>1. /\ repo' = [repo EXCEPT ![Primary].seen = remote]
          /\ Step(p, "compare") /\ call' = [call EXCEPT ![p].head = remote]
      BY <1>3, <2>2 DEF Clone
    <3>2. /\ pc'[p] = "compare" /\ call'[p].head = remote /\ call'[p].seen = call[p].seen
          /\ call'[p].result = "none"
      BY <1>0, <3>1 DEF Step, TypeOK, Invocation
    <3>3. repo[Primary] \in CloneRecord /\ repo[Primary].seen \in Histories
      BY <1>0, <2>2 DEF TypeOK, Here, CloneRecord
    <3>4. repo'[Primary] = [repo[Primary] EXCEPT !.seen = remote]
      BY <1>0, <3>1 DEF TypeOK
    <3>5. repo'[Primary] \in CloneRecord /\ repo'[Primary].seen = remote
      BY <1>0, <3>3, <3>4 DEF CloneRecord
    <3>6. Here(Primary)'
      BY <3>5, TaskHistoryAssumption DEF Here
    <3> QED BY <1>0, <3>2, <3>5, <3>6 DEF Calmly, Current, Asking, Preparing
  <2>3. CASE ~ Here(Primary)
    <3>1. repo' = [repo EXCEPT ![Primary] = CloneOf(remote)] /\ Goto(p, "proof")
      BY <1>0, <1>3, <2>3 DEF Clone
    <3>2. repo'[Primary] = CloneOf(remote)
      BY <1>0, <3>1 DEF TypeOK
    <3>3. Here(Primary)' /\ repo'[Primary].head = remote
      BY <1>0, <3>2, CloneType DEF Here
    <3>4. pc'[p] = "proof" /\ call' = call
      BY <1>1, <3>1
    <3> QED BY <1>0, <3>3, <3>4 DEF Calmly, Current, Asking, Preparing
  <2> QED BY <2>1, <2>2, <2>3
<1>4. CASE Compare(p)
  <2>1. /\ UNCHANGED repo /\ Here(Primary) /\ call[p].head = remote
        /\ repo[Primary].seen = remote
    BY <1>4 DEF Compare, Same, Calmly
  <2>2. CASE repo[Primary].head = remote
    <3>1. pc'[p] = "proof" /\ call' = call
      BY <1>0, <1>1, <1>4, <2>1, <2>2 DEF Compare
    <3> QED BY <1>0, <2>1, <2>2, <3>1 DEF Calmly, Current, Asking, Preparing, Here
  <2>3. CASE repo[Primary].head # remote /\ Clean(Primary) /\ repo[Primary].head \subseteq remote
    <3>1. pc'[p] = "merge" /\ call' = call
      BY <1>1, <1>4, <2>1, <2>3 DEF Compare
    <3>2. Clean(Primary)'
      BY <2>1, <2>3 DEF Clean, Dirty, Content, Latest
    <3> QED BY <1>0, <2>1, <2>3, <3>1, <3>2 DEF Calmly, Current, Asking, Preparing, Here
  <2>4. CASE repo[Primary].head # remote /\ ~ (Clean(Primary) /\ repo[Primary].head \subseteq remote)
    <3>1. Blocked(p)
      BY <1>4, <2>1, <2>4 DEF Compare
    <3>2. (~ (Clean(Primary) /\ repo[Primary].head \subseteq remote))'
      BY <1>0, <2>1, <2>4 DEF Clean, Dirty, Content, Latest
    <3>3. (~ Preparable)'
      BY <1>0, <2>1, <3>2 DEF Preparable, Here
    <3> QED BY <1>2, <3>1, <3>3
  <2> QED BY <2>2, <2>3, <2>4
<1>5. CASE Merge(p)
  <2>1. /\ Here(Primary) /\ call[p].head = remote /\ repo[Primary].seen = remote
        /\ Clean(Primary) /\ repo[Primary].head \subseteq remote
    BY <1>5 DEF Merge, Calmly
  <2>2. CanForward(Primary, remote)
    BY <2>1 DEF CanForward, Clean
  <2>3. Forward(Primary, remote) /\ Goto(p, "proof")
    <3>1. repo[Primary].head \cup remote = remote
      BY <2>1
    <3> QED BY <1>0, <1>5, <2>1, <2>2, <3>1 DEF Merge
  <2>4. repo[Primary] \in CloneRecord
    BY <1>0, <2>1 DEF TypeOK, Here
  <2>5. repo'[Primary].head = remote
    BY <1>0, <2>1, <2>3, <2>4 DEF Forward, TypeOK, CloneRecord
  <2>6. Here(Primary)'
    <3>1. Good(p)
      BY <1>5, CloneAndMerge
    <3> QED BY <1>0, <2>1, <3>1 DEF Good, Growing, WorkKept, KeptFrom, Here
  <2>7. pc'[p] = "proof" /\ call' = call
    BY <1>1, <2>3
  <2> QED BY <1>0, <2>5, <2>6, <2>7 DEF Calmly, Current, Asking, Preparing
<1> QED BY <1>3, <1>4, <1>5

(* The proofs, and the link that takes the configuration's place.           *)
LEMMA EndCalmly ==
  ASSUME HistoryInv, WrittenInv, NEW p \in Procs, Calmly(p),
         Proof(p) \/ Unlink(p) \/ Link(p) \/ Reprove(p)
  PROVE  Calmly(p)'
<1>0. /\ TypeOK /\ call[p] \in Invocation /\ call[p].op = "prepare" /\ call[p].result = "none"
      /\ pc[p] \in {"proof", "unlink", "link", "reprove"}
      /\ UNCHANGED <<remote, local, cache, repo, edits>>
      /\ remote = call[p].seen /\ remote # NoRef /\ Here(Primary)
      /\ repo[Primary].head = remote
  <2>1. /\ pc[p] \in {"proof", "unlink", "link", "reprove"}
        /\ UNCHANGED <<remote, local, cache, repo, edits>>
    BY DEF Proof, Unlink, Link, Reprove, Same, refs, Calmly
  <2>2. /\ remote = call[p].seen /\ remote # NoRef /\ Here(Primary)
        /\ repo[Primary].head = remote
    BY <2>1 DEF Calmly, Current
  <2> QED BY <2>1, <2>2, CallFits DEF Fits, Preparing, HistoryInv
<1>1. ASSUME NEW l \in {"unlink", "link", "reprove"}, Goto(p, l), Clean(Primary),
             l = "unlink" => root' = "file", l = "link" => root' = "gone"
      PROVE  Calmly(p)'
  <2>1. pc'[p] = l /\ call' = call
    BY <1>0, <1>1 DEF Goto, Step, TypeOK
  <2>2. Clean(Primary)'
    BY <1>0, <1>1 DEF Clean, Dirty, Content, Latest
  <2> QED BY <1>0, <1>1, <2>1, <2>2 DEF Calmly, Current, Asking, Preparing, Here
<1>2. ASSUME Report(p, "prepared", call[p].seen) PROVE Calmly(p)'
  BY <1>0, <1>2, EndedCalmly DEF Report
<1>3. CASE Proof(p)
  <2>1. CASE ~ (root = "file" => ConfigKept) \/ ~ Clean(Primary)
    <3>1. Blocked(p) /\ UNCHANGED root
      BY <1>3, <2>1 DEF Proof, AtPublished, Same
    <3>2. (~ Preparable)'
      <4>1. CASE ~ Clean(Primary)
        <5>1. (~ Clean(Primary))'
          BY <1>0, <4>1 DEF Clean, Dirty, Content, Latest
        <5> QED BY <1>0, <5>1 DEF Preparable, Here
      <4>2. CASE root = "file" /\ ~ ConfigKept
        BY <1>0, <3>1, <4>2 DEF Preparable, ConfigKept
      <4> QED BY <2>1, <4>1, <4>2
    <3> QED BY <1>0, <3>1, <3>2, BlockedCalmly
  <2>2. CASE (root = "file" => ConfigKept) /\ Clean(Primary)
    <3>1. (root = "file" /\ Goto(p, "unlink")) \/ Report(p, "prepared", call[p].seen)
      BY <1>0, <1>3, <2>2 DEF Proof, AtPublished
    <3>2. root' = root
      BY <1>3 DEF Proof, Same
    <3> QED BY <1>1, <1>2, <2>2, <3>1, <3>2
  <2> QED BY <2>1, <2>2
<1>4. CASE Unlink(p)
  <2>1. root = "file" /\ Clean(Primary)
    BY <1>4 DEF Unlink, Calmly
  <2>2. root' = "gone" /\ Goto(p, "link")
    BY <1>4, <2>1 DEF Unlink
  <2> QED BY <1>1, <2>1, <2>2
<1>5. CASE Link(p)
  <2>1. root = "gone" /\ Clean(Primary)
    BY <1>5 DEF Link, Calmly
  <2>2. Goto(p, "reprove")
    BY <1>5, <2>1 DEF Link
  <2> QED BY <1>1, <2>1, <2>2
<1>6. CASE Reprove(p)
  <2>1. pc[p] = "reprove" /\ Clean(Primary)
    BY <1>0, <1>6 DEF Reprove, Calmly
  <2>2. Report(p, "prepared", call[p].seen)
    BY <1>0, <1>6, <2>1 DEF Reprove, AtPublished
  <2> QED BY <1>2, <2>2
<1> QED BY <1>3, <1>4, <1>5, <1>6

(* The clone of a worktree.                                                 *)
LEMMA EpisodeCalmly ==
  ASSUME HistoryInv, WrittenInv, NEW p \in Procs, Calmly(p), EpisodeStep(p)
  PROVE  Calmly(p)'
<1>s. PICK s \in Sites : s = call[p].site
  BY CallFits
<1>0. /\ TypeOK /\ call[p] \in Invocation /\ call[p].op = "episode" /\ call[p].result = "none"
      /\ pc[p] \in {"locate", "fetch", "forward", "read"}
      /\ UNCHANGED <<remote, local, cache, root, edits>> /\ remote \in Histories
  <2>1. /\ pc[p] \in {"locate", "fetch", "forward", "read"}
        /\ UNCHANGED <<remote, local, cache, root, edits>>
    BY DEF EpisodeStep, Locate, FetchClone, ForwardClone, ReadHead, Same, refs
  <2> QED BY <2>1, CallFits DEF Fits, HistoryInv, TypeOK
<1>1. ASSUME NEW l \in {"fetch", "forward", "read"}, Goto(p, l),
             l = "forward" => Here(s)' /\ repo'[s].seen = remote
      PROVE  Calmly(p)'
  <2>1. pc'[p] = l /\ call' = call
    BY <1>0, <1>1 DEF Goto, Step, TypeOK
  <2> QED BY <1>0, <1>1, <1>s, <2>1 DEF Calmly, Current, Fetching, Here
<1>2. CASE Locate(p)
  <2>1. CASE LocationKnown
    BY <1>1, <1>2, <2>1 DEF Locate
  <2>2. CASE ~ LocationKnown
    <3>1. Blocked(p) /\ UNCHANGED repo
      BY <1>2, <2>2 DEF Locate, Same
    <3>2. (~ LocationKnown)'
      BY <1>0, <2>2, <3>1 DEF LocationKnown, Startable, Here
    <3> QED BY <1>0, <3>1, <3>2, BlockedCalmly
  <2> QED BY <2>1, <2>2
<1>3. CASE FetchClone(p)
  <2>1. CASE remote = NoRef
    <3>1. Blocked(p)
      BY <1>3, <2>1 DEF FetchClone
    <3> QED BY <1>0, <2>1, <3>1, BlockedCalmly
  <2>2. CASE remote # NoRef /\ Here(s) /\ ~ Independent(s)
    <3>1. Blocked(p) /\ UNCHANGED repo
      BY <1>s, <1>3, <2>2 DEF FetchClone
    <3>2. Here(s)' /\ (~ Independent(s) \/ InTheWay(s))'
      BY <2>2, <3>1 DEF Here, Independent
    <3> QED BY <1>0, <1>s, <3>1, <3>2, BlockedCalmly
  <2>3. CASE remote # NoRef /\ Here(s) /\ Independent(s)
    <3>1. repo' = [repo EXCEPT ![s].seen = remote] /\ Goto(p, "forward")
      BY <1>s, <1>3, <2>3 DEF FetchClone
    <3>2. repo[s] \in CloneRecord
      BY <1>0, <2>3 DEF TypeOK, Here
    <3>3. repo'[s] = [repo[s] EXCEPT !.seen = remote]
      BY <1>0, <3>1 DEF TypeOK
    <3>4. repo'[s] \in CloneRecord /\ repo'[s].seen = remote
      BY <1>0, <3>2, <3>3 DEF CloneRecord
    <3>5. Here(s)'
      BY <3>4, TaskHistoryAssumption DEF Here
    <3> QED BY <1>1, <3>1, <3>4, <3>5
  <2>4. CASE remote # NoRef /\ ~ Here(s)
    <3>1. Goto(p, "read")
      BY <1>s, <1>3, <2>4 DEF FetchClone
    <3> QED BY <1>1, <3>1
  <2> QED BY <2>1, <2>2, <2>3, <2>4
<1>4. CASE ForwardClone(p)
  <2>1. Here(s) /\ repo[s].seen = remote
    BY <1>s, <1>4 DEF ForwardClone, Calmly
  <2>2. CASE CanForward(s, remote)
    BY <1>s, <1>1, <1>4, <2>1, <2>2 DEF ForwardClone
  <2>3. CASE ~ CanForward(s, remote)
    <3>1. Blocked(p) /\ UNCHANGED repo
      BY <1>s, <1>4, <2>1, <2>3 DEF ForwardClone
    <3>2. InTheWay(s)
      BY <2>3 DEF CanForward, InTheWay, Dirty
    <3>3. Here(s)'
      BY <2>1, <3>1 DEF Here
    <3>4. repo' = repo /\ remote' = remote
      BY <1>0, <3>1
    <3>5. InTheWay(s)'
      BY <3>2, <3>4 DEF InTheWay
    <3> QED BY <1>0, <1>s, <3>1, <3>3, <3>5, BlockedCalmly
  <2> QED BY <2>2, <2>3
<1>5. CASE ReadHead(p)
  BY <1>0, <1>5, EndedCalmly DEF ReadHead
<1> QED BY <1>2, <1>3, <1>4, <1>5 DEF EpisodeStep

LEMMA BeginCalm ==
  ASSUME HistoryInv, CalmInv, NEW p \in Procs, Begin(p) PROVE CalmInv'
<1>1. PICK op \in IF kind = "published" THEN {"prepare", "episode", "inspect", "publish"}
                  ELSE {"publish"},
           s \in Sites, t \in Selected :
        /\ op \in {"prepare", "inspect"} => s = Primary
        /\ op = "episode" => s \in Worktrees
        /\ kind # "published" => s = Primary
        /\ pc' = [pc EXCEPT ![p] = CASE op = "prepare" -> "probe"
                                     [] op = "episode" -> "locate"
                                     [] op = "inspect" -> "clean"
                                     [] OTHER          -> "base"]
        /\ call' = [call EXCEPT ![p] = [op |-> op, site |-> s, task |-> t, seen |-> NoRef,
                                        head |-> NoRef, edit |-> 0, result |-> "none"]]
        /\ calm' = IF op \in {"prepare", "episode"} THEN calm \cup {p} ELSE calm \ {p}
  BY Zenon DEF Begin
<1>2. UNCHANGED <<remote, local, cache, repo, root, edits>> /\ TypeOK
  BY DEF Begin, store, refs, HistoryInv
<1>3. ASSUME p \in calm' PROVE Calmly(p)'
  <2>1. call'[p].result = "none" /\ pc'[p] \in {"probe", "locate"}
    BY <1>1, <1>2, <1>3 DEF TypeOK
  <2> QED BY <2>1 DEF Calmly, Current, Asking, Preparing, Fetching
<1>4. ASSUME NEW q \in calm', q # p PROVE Calmly(q)'
  <2>1. q \in calm /\ q \in Procs
    BY <1>1, <1>2, <1>4 DEF TypeOK
  <2>2. pc'[q] = pc[q] /\ call'[q] = call[q]
    BY <1>1, <1>2, <1>4, <2>1 DEF TypeOK
  <2>3. Calmly(q)
    BY <2>1 DEF CalmInv
  <2>4. Clean(Primary) => Clean(Primary)'
    BY <1>2 DEF Clean, Dirty, Content, Latest
  <2>5. Refused(q) => Refused(q)'
    <3>1. PICK r \in Sites : r = call[q].site
      BY <1>2, <2>1 DEF TypeOK, Invocation
    <3>2. /\ Here(r)' <=> Here(r)
          /\ Independent(r)' <=> Independent(r)
          /\ InTheWay(r)' <=> InTheWay(r)
      BY <1>2 DEF Here, Independent, InTheWay, Content, Latest
    <3>3. /\ Preparable' <=> Preparable
          /\ LocationKnown' <=> LocationKnown
      BY <1>2 DEF Preparable, LocationKnown, Startable, Here, Independent, Clean, Dirty, Content, Latest
    <3> QED BY <1>2, <2>2, <3>1, <3>2, <3>3 DEF Refused
  <2> QED BY <1>2, <2>2, <2>3, <2>4, <2>5 DEF Calmly, Here
<1> QED BY <1>3, <1>4 DEF CalmInv

LEMMA CalmStep ==
  ASSUME HistoryInv, WrittenInv, CalmInv, [Next]_vars PROVE CalmInv'
<1>0. calm \subseteq Procs
  BY DEF HistoryInv, TypeOK
<1>1. ASSUME NEW p \in Procs, \/ PrepareStep(p) \/ EpisodeStep(p) \/ InspectStep(p)
                               \/ PublishStep(p) \/ Interrupted(p)
      PROVE  CalmInv'
  <2>1. calm' = {} \/ calm' = calm \cap {p}
    BY <1>1 DEF PrepareStep, Probe, Absent, Refresh, Local, Advance, Bootstrap, Refetch, Clone, Compare,
                Merge, Proof, Unlink, Link, Reprove, EpisodeStep, Locate, FetchClone, ForwardClone,
                ReadHead, InspectStep, InspectClean, InspectBefore, InspectAfter, PublishStep,
                PublishBase, Pull, Edit, CommitOnly, CommittedHead, Push, Reread, Interrupted,
                Goto, Blocked, Report, Step, Fails
  <2>2. ASSUME p \in calm PROVE calm' = {} \/ Calmly(p)'
    <3>1. Calmly(p)
      BY <2>2 DEF CalmInv
    <3>2. CASE PrepareStep(p)
      BY <3>1, <3>2, BranchCalmly, CloneCalmly, EndCalmly DEF PrepareStep
    <3>3. CASE EpisodeStep(p)
      BY <3>1, <3>3, EpisodeCalmly
    <3>4. CASE InspectStep(p) \/ PublishStep(p)
      <4>1. pc[p] \in {"clean", "before", "after"} \cup Publishing
        BY <3>4 DEF InspectStep, InspectClean, InspectBefore, InspectAfter, PublishStep, PublishBase,
                    Pull, Edit, CommitOnly, CommittedHead, Push, Reread, Publishing
      <4> QED BY <3>1, <4>1 DEF Calmly, Asking, Fetching, Preparing, Publishing
    <3>5. CASE Interrupted(p)
      BY <3>5 DEF Interrupted, Fails
    <3> QED BY <1>1, <3>2, <3>3, <3>4, <3>5
  <2> QED BY <2>1, <2>2, OnlyMover
<1>2. ASSUME (\E s \in Sites, t \in Tasks : Draft(s, t)) \/ (\E t \in Tasks : HostPublishes(t))
      PROVE  CalmInv'
  <2>1. calm' = {}
    BY <1>2 DEF Draft, HostPublishes
  <2> QED BY <2>1 DEF CalmInv
<1>3. CASE UNCHANGED vars
  <2>1. UNCHANGED <<remote, local, cache, repo, root, edits, pc, call, calm>>
    BY <1>3 DEF vars, store, refs
  <2>2. ASSUME NEW q \in calm PROVE Calmly(q)'
    <3>1. (Refused(q) => Refused(q)') /\ (Clean(Primary) => Clean(Primary)')
      BY <2>1 DEF Refused, Preparable, LocationKnown, Startable, Here, Independent, InTheWay,
                  Clean, Dirty
    <3> QED BY <2>1, <3>1 DEF CalmInv, Calmly, Here
  <2> QED BY <2>1, <2>2 DEF CalmInv
<1> QED BY <1>1, <1>2, <1>3, BeginCalm DEF Next

(* A prepareTaskHistoryWorkspace or prepareEpisodeTaskHistoryWorkspace that *)
(* nobody interferes with is blocked by local work only, from any state the *)
(* histories and the clones can be in.                                      *)
THEOREM CalmIsPrepared == Spec => []CalmPrepared
<1>1. Init => CalmInv
  BY DEF Init, CalmInv
<1>2. CalmInv => CalmPrepared
  BY DEF CalmInv, Calmly, Refused, CalmPrepared
<1> QED BY <1>1, <1>2, CalmStep, HistoryInit, HistoryStep, WrittenInit, WrittenStep, PTL DEF Spec

=============================================================================
