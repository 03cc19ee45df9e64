----------------------- MODULE ProviderMigrationProofs -----------------------
(***************************************************************************)
(* Proofs about a migration, for any processes, tasks, Conversations and   *)
(* bounds: first the switch of the ownership registry, then the records of *)
(* the destination, then what is published when the source is removed.     *)
(***************************************************************************)
EXTENDS ProviderMigration, FiniteSetTheorems, FunctionTheorems, TLAPS

(* From the switch on, an invocation remembers both registries.             *)
Bound == {"guard", "delete", "recover", "restore"}

(* Registries whose entries are of a provider, and of the source's when no  *)
(* migration has touched them.                                              *)
Registry(f) ==
  /\ DOMAIN f = Owners
  /\ \A c \in Owners : f[c] # NoOwner =>
       /\ "provider" \in DOMAIN f[c] /\ "by" \in DOMAIN f[c]
       /\ f[c].provider \in {"beads", "backlog"}
       /\ f[c].provider = "beads" => f[c].by = 0

OnSource(f)  == \A c \in Owners : f[c] # NoOwner => f[c].provider = "beads"
OnBacklog(f) == \A c \in Owners : f[c] # NoOwner => f[c].provider = "backlog"

Shape ==
  /\ calls \in Nat
  /\ DOMAIN pc = Procs /\ DOMAIN call = Procs
  /\ \A p \in Procs :
       "n" \in DOMAIN call[p] /\ "before" \in DOMAIN call[p] /\ "after" \in DOMAIN call[p]
  /\ Registry(owner)

(* Every invocation has its own number, and numbers are not used again.     *)
Numbered ==
  /\ \A p \in Procs : pc[p] # "idle" => call[p].n \in 1..calls
  /\ \A p, q \in Procs : pc[p] # "idle" /\ pc[q] # "idle" /\ call[p].n = call[q].n => p = q
  /\ \A c \in Owners : Live(c) => owner[c].by \in 0..calls

Remembered ==
  \A p \in Procs : pc[p] \in Bound =>
    /\ Registry(call[p].before) /\ OnSource(call[p].before)
    /\ OnBacklog(call[p].after)

(* An entry that bears the number of an invocation was switched by it, and  *)
(* the invocation knows.                                                    *)
SwitchKnown ==
  \A p \in Procs, c \in Owners :
    pc[p] # "idle" /\ Live(c) /\ owner[c].by = call[p].n => Switched(p)

(* Whoever removes the source holds the ownership lock, alone, and the      *)
(* registry is as it was at the last look.                                  *)
Deleting ==
  \A p \in Procs : pc[p] = "delete" =>
    /\ lock /\ OnBacklog(owner)
    /\ \A q \in Procs : pc[q] = "delete" => q = p

(* The last steps follow the removal and the publication of the layout.     *)
Closing ==
  \A p \in Procs :
    /\ pc[p] \in {"publish", "final"} => store = "gone"
    /\ pc[p] = "final" => layout = "committed"

CutoverInv ==
  Shape /\ Numbered /\ Remembered /\ SwitchKnown /\ Deleting /\ Closing

(* What p knows survives, or p has ended.                                   *)
Kept(p) ==
  /\ DOMAIN pc' = Procs /\ DOMAIN call' = Procs
  /\ \A q \in Procs : q # p => pc'[q] = pc[q] /\ call'[q] = call[q]
  /\ "n" \in DOMAIN call'[p] /\ "before" \in DOMAIN call'[p] /\ "after" \in DOMAIN call'[p]
  /\ pc'[p] # "idle" =>
       /\ pc[p] # "idle" /\ call'[p].n = call[p].n
       /\ call'[p].before = call[p].before /\ call'[p].after = call[p].after

(* A step of p that leaves the registry as it is.                           *)
Plain(p) ==
  /\ Kept(p)
  /\ UNCHANGED <<owner, calls>>
  /\ lock' = lock \/ (pc[p] = "delete" /\ pc'[p] # "delete")
  /\ store = "gone" => store' = "gone"
  /\ layout = "committed" => layout' = "committed"
  /\ pc'[p] \in Bound => pc[p] \in Bound
  /\ pc'[p] = "delete" => pc[p] = "delete"
  /\ pc'[p] \in {"publish", "final"} => store' = "gone"
  /\ pc'[p] = "final" => layout' = "committed"

(* The report of p, if this step ends it, is so.                            *)
Honest(p) ==
  /\ Reports(p, "pre-cutover-failed") =>
       \A c \in Owners : owner'[c] # NoOwner => owner'[c].by # call[p].n
  /\ Reports(p, "completed") =>
       /\ store' = "gone" /\ layout' # "none"
       /\ \A c \in Owners : call[p].rows[c] # NoOwner =>
            owner'[c] # NoOwner /\ owner'[c].provider = "backlog"

Removes == store = "whole" /\ store' # "whole"

LEMMA CutoverInit == Init => CutoverInv
<1> SUFFICES ASSUME Init PROVE CutoverInv
  OBVIOUS
<1>1. /\ \A p \in Procs : pc[p] = "idle"
      /\ DOMAIN pc = Procs /\ DOMAIN call = Procs /\ calls = 0
      /\ \A p \in Procs : call[p] = NoCall
  BY DEF Init
<1>2. "n" \in DOMAIN NoCall /\ "before" \in DOMAIN NoCall /\ "after" \in DOMAIN NoCall
  BY DEF NoCall
<1>3. \A c \in Owners : Live(c) => \E t \in Tasks : owner[c] = Binding(t)
  BY DEF Init, Live
<1>4. Registry(owner) /\ \A c \in Owners : Live(c) => owner[c].by = 0
  BY <1>3 DEF Registry, Live, Binding, Init
<1> QED BY <1>1, <1>2, <1>4
        DEF CutoverInv, Shape, Numbered, Remembered, SwitchKnown, Deleting, Closing, Bound

LEMMA PlainKeeps ==
  ASSUME CutoverInv, NEW p \in Procs, Plain(p)
  PROVE  CutoverInv'
<1>1. Shape'
  BY DEF CutoverInv, Shape, Plain, Kept
<1>2. Numbered'
  BY DEF CutoverInv, Numbered, Plain, Kept, Live
<1>3. Remembered'
  BY DEF CutoverInv, Remembered, Plain, Kept, Bound
<1>4. SwitchKnown'
  BY DEF CutoverInv, SwitchKnown, Plain, Kept, Live, Switched
<1>5. Deleting'
  BY DEF CutoverInv, Deleting, Plain, Kept, Bound
<1>6. Closing'
  BY DEF CutoverInv, Closing, Plain, Kept
<1> QED BY <1>1, <1>2, <1>3, <1>4, <1>5, <1>6 DEF CutoverInv

LEMMA EndKept ==
  ASSUME CutoverInv, NEW p \in Procs, NEW r, End(p, r)
  PROVE  Kept(p) /\ pc'[p] = "idle" /\ call'[p].result = r
<1>1. LET c == [NoCall EXCEPT !.result = r]
      IN  /\ "n" \in DOMAIN c /\ "before" \in DOMAIN c /\ "after" \in DOMAIN c
          /\ c.result = r
  BY DEF NoCall
<1> QED BY <1>1 DEF CutoverInv, Shape, End, Goto, Know, Kept

LEMMA GotoKept ==
  ASSUME CutoverInv, NEW p \in Procs, pc[p] # "idle", NEW l, Goto(p, l)
  PROVE  pc'[p] = l /\ (UNCHANGED call => Kept(p))
BY DEF CutoverInv, Shape, Goto, Kept

(* It learns something, and keeps what it knows of the registry.            *)
Learns(p) ==
  \E c : /\ call' = [call EXCEPT ![p] = c]
         /\ "n" \in DOMAIN c /\ "before" \in DOMAIN c /\ "after" \in DOMAIN c
         /\ c.n = call[p].n /\ c.before = call[p].before /\ c.after = call[p].after

LEMMA LearnsKept ==
  ASSUME CutoverInv, NEW p \in Procs, pc[p] # "idle", Learns(p),
         (\E l : Goto(p, l)) \/ UNCHANGED pc
  PROVE  Kept(p)
BY DEF CutoverInv, Shape, Goto, Kept, Learns

LEMMA Thrown ==
  ASSUME CutoverInv, NEW p \in Procs, pc[p] # "idle", Throw(p), owner' = owner
  PROVE  /\ Kept(p) /\ Honest(p)
         /\ pc'[p] \in {"idle", "recover"}
         /\ pc'[p] = "recover" => pc[p] \in {"guard", "delete"}
<1>1. CASE pc[p] \in {"guard", "delete"}
  <2>1. Goto(p, "recover") /\ UNCHANGED call
    BY <1>1 DEF Throw
  <2> QED BY <1>1, <2>1, GotoKept DEF Honest, Reports
<1>2. CASE pc[p] \notin {"guard", "delete"}
  <2>1. End(p, IF Switched(p) THEN "cutover-incomplete" ELSE "pre-cutover-failed")
    BY <1>2 DEF Throw
  <2>2. /\ Kept(p) /\ pc'[p] = "idle"
        /\ call'[p].result = IF Switched(p) THEN "cutover-incomplete" ELSE "pre-cutover-failed"
    BY <2>1, EndKept
  <2>3. ~Switched(p) => \A c \in Owners : Live(c) => owner[c].by # call[p].n
    BY DEF CutoverInv, SwitchKnown
  <2> QED BY <2>2, <2>3 DEF Honest, Reports, Live
<1> QED BY <1>1, <1>2

LEMMA ThrownPlain ==
  ASSUME CutoverInv, NEW p \in Procs, pc[p] # "idle", Throw(p),
         UNCHANGED <<store, layout, owner, calls>>,
         lock' = lock \/ pc[p] = "delete"
  PROVE  Plain(p) /\ Honest(p)
BY Thrown DEF Plain, Bound

(* The steps before the cutover: whatever they do to the destination.       *)
LEMMA WorkPlain ==
  ASSUME CutoverInv, NEW p \in Procs,
         pc[p] \notin Bound \cup {"idle", "delete"},
         UNCHANGED <<store, owner, lock, calls>>,
         layout' = layout \/ layout = "none",
         \/ Throw(p) /\ layout' = layout
         \/ /\ UNCHANGED call \/ Learns(p)
            /\ \/ UNCHANGED pc /\ pc[p] \notin {"publish", "final"}
               \/ \E l : /\ Goto(p, l)
                         /\ l \notin Bound \cup {"idle", "delete", "publish", "final"}
  PROVE  Plain(p) /\ Honest(p)
<1>1. CASE Throw(p) /\ layout' = layout
  BY <1>1, ThrownPlain
<1>2. CASE UNCHANGED pc /\ pc[p] \notin {"publish", "final"} /\ (UNCHANGED call \/ Learns(p))
  <2>1. Kept(p)
    BY <1>2, LearnsKept DEF CutoverInv, Shape, Kept
  <2> QED BY <1>2, <2>1 DEF Plain, Honest, Reports
<1>3. ASSUME UNCHANGED call \/ Learns(p), NEW l, Goto(p, l),
             l \notin Bound \cup {"idle", "delete", "publish", "final"}
      PROVE  Plain(p) /\ Honest(p)
  <2>1. Kept(p) /\ pc'[p] = l
    BY <1>3, GotoKept, LearnsKept
  <2> QED BY <1>3, <2>1 DEF Plain, Honest, Reports
<1> QED BY <1>1, <1>2, <1>3

LEMMA Importing ==
  ASSUME CutoverInv, NEW p \in Procs,
         \/ ReadRows(p) \/ Prepare(p) \/ Baseline(p) \/ Create(p) \/ Mark(p)
         \/ ReserveReceipt(p) \/ MarkReceipt(p) \/ Place(p) \/ Commit(p) \/ Push(p)
         \/ Verify(p) \/ WriteReceipt(p) \/ CheckTarget(p) \/ CheckSource(p)
  PROVE  Plain(p) /\ Honest(p)
<1>1. "n" \in DOMAIN call[p] /\ "before" \in DOMAIN call[p] /\ "after" \in DOMAIN call[p]
  BY DEF CutoverInv, Shape
<1>2. CASE ReadRows(p)
  <2>1. Know(p, [call[p] EXCEPT !.rows = owner]) => Learns(p)
    BY <1>1 DEF Know, Learns
  <2> QED BY <1>2, <2>1, WorkPlain DEF ReadRows, Bound, source, target, people, counts
<1>3. CASE Prepare(p)
  BY <1>3, WorkPlain DEF Prepare, Bound, source, people, counts
<1>4. CASE Baseline(p)
  <2> DEFINE base == {r \in work : Unmarked(r)}
             m == [t \in Tasks |-> IF Marked(work, t) = {} THEN 0 ELSE IdIn(Marked(work, t))]
             i == IF Marked(work, Receipt) = {} THEN 0 ELSE IdIn(Marked(work, Receipt))
             c == [call[p] EXCEPT !.base = base, !.map = m, !.receipt = i]
  <2>1. Know(p, c) => Learns(p)
    <3> HIDE DEF base, m, i
    <3> QED BY <1>1 DEF Know, Learns
  <2>2. \/ Goto(p, "import") /\ Know(p, c)
        \/ Throw(p)
    BY <1>4 DEF Baseline
  <2> HIDE DEF c
  <2> QED BY <1>4, <2>1, <2>2, WorkPlain DEF Baseline, Bound, source, target, people, counts
<1>5. CASE Create(p)
  <2>1. /\ pc[p] = "import" /\ Goto(p, "mark")
        /\ UNCHANGED <<store, owner, lock, calls, layout>>
    BY <1>5 DEF Create, source, people, counts
  <2>2. PICK t : Know(p, [call[p] EXCEPT !.map[t] = NextId, !.made = @ \cup {t}])
    BY <1>5 DEF Create
  <2> DEFINE c == [call[p] EXCEPT !.map[t] = NextId, !.made = @ \cup {t}]
  <2>3. /\ "n" \in DOMAIN c /\ "before" \in DOMAIN c /\ "after" \in DOMAIN c
        /\ c.n = call[p].n /\ c.before = call[p].before /\ c.after = call[p].after
    BY <1>1
  <2> HIDE DEF c
  <2>4. Learns(p)
    BY <2>2, <2>3 DEF Know, Learns, c
  <2> QED BY <2>1, <2>4, WorkPlain DEF Bound
<1>6. CASE Mark(p)
  BY <1>6, WorkPlain DEF Mark, Bound, source, people, counts
<1>7. CASE ReserveReceipt(p)
  <2>1. Know(p, [call[p] EXCEPT !.receipt = NextId]) => Learns(p)
    BY <1>1 DEF Know, Learns
  <2> QED BY <1>7, <2>1, WorkPlain DEF ReserveReceipt, Bound, source, people, counts
<1>8. CASE MarkReceipt(p)
  BY <1>8, WorkPlain DEF MarkReceipt, Bound, source, people, counts
<1>9. CASE Place(p)
  <2>1. \A t : Know(p, [call[p] EXCEPT !.made = @ \ {t}]) => Learns(p)
    BY <1>1 DEF Know, Learns
  <2>2. Throw(p) \/ (Learns(p) /\ UNCHANGED pc)
    BY <1>9, <2>1 DEF Place
  <2> QED BY <1>9, <2>2, WorkPlain DEF Place, Bound, source, people, counts
<1>10. CASE Commit(p)
  <2>1. Know(p, [call[p] EXCEPT !.head = work]) => Learns(p)
    BY <1>1 DEF Know, Learns
  <2>2. \/ Throw(p)
        \/ Learns(p) /\ (Goto(p, "push") \/ Goto(p, "repush"))
    BY <1>10, <2>1 DEF Commit
  <2> QED BY <1>10, <2>2, WorkPlain DEF Commit, Bound, source, people, counts
<1>11. CASE Push(p)
  BY <1>11, WorkPlain DEF Push, Bound, source, people, counts
<1>12. CASE Verify(p) \/ CheckTarget(p) \/ CheckSource(p)
  BY <1>12, WorkPlain DEF Verify, CheckTarget, CheckSource, Bound, source, target, people, counts
<1>13. CASE WriteReceipt(p)
  BY <1>13, WorkPlain DEF WriteReceipt, Bound, source, people, counts
<1> QED BY <1>2, <1>3, <1>4, <1>5, <1>6, <1>7, <1>8, <1>9, <1>10, <1>11, <1>12, <1>13

-----------------------------------------------------------------------------
(* The other steps that leave the registry as it is.                        *)
LEMMA CapturePlain ==
  ASSUME CutoverInv, NEW p \in Procs, Capture(p)
  PROVE  Plain(p) /\ Honest(p)
<1>1. pc[p] = "capture" /\ UNCHANGED <<store, layout, owner, lock, calls>>
  BY DEF Capture, source, target, people, counts
<1>2. CASE Throw(p)
  BY <1>1, <1>2, ThrownPlain
<1>3. CASE Goto(p, "rows") /\ UNCHANGED call
  BY <1>1, <1>3, WorkPlain DEF Bound
<1>4. ASSUME NEW r \in {"same-provider", "source-revision-changed"}, End(p, r)
      PROVE  Plain(p) /\ Honest(p)
  BY <1>1, <1>4, EndKept DEF Plain, Honest, Reports, Bound
<1> QED BY <1>2, <1>3, <1>4 DEF Capture

LEMMA CutoverPlain ==
  ASSUME CutoverInv, NEW p \in Procs,
         Recover(p) \/ Select(p) \/ PublishLayout(p) \/ Delete(p)
  PROVE  Plain(p) /\ Honest(p)
<1>1. CASE Recover(p)
  <2>1. pc[p] = "recover" /\ UNCHANGED <<store, layout, owner, lock, calls>>
    BY <1>1 DEF Recover, source, target, people, counts
  <2>2. CASE Throw(p)
    BY <2>1, <2>2, ThrownPlain
  <2>3. CASE Goto(p, "restore") /\ UNCHANGED call
    BY <2>1, <2>3, GotoKept DEF Plain, Honest, Reports, Bound
  <2> QED BY <1>1, <2>2, <2>3 DEF Recover
<1>2. CASE Select(p)
  <2>1. pc[p] = "selected" /\ UNCHANGED <<store, layout, owner, lock, calls>>
    BY <1>2 DEF Select, source, target, people, counts
  <2>2. CASE Throw(p)
    BY <2>1, <2>2, ThrownPlain
  <2>3. CASE store = "gone" /\ Goto(p, "publish") /\ UNCHANGED call
    BY <2>1, <2>3, GotoKept DEF Plain, Honest, Reports, Bound
  <2> QED BY <1>2, <2>2, <2>3 DEF Select
<1>3. CASE PublishLayout(p)
  <2>1. /\ pc[p] = "publish" /\ UNCHANGED <<store, owner, lock, calls, call>>
        /\ layout' = "committed" /\ Goto(p, "final") /\ store = "gone"
    BY <1>3 DEF PublishLayout, source, people, counts, CutoverInv, Closing
  <2> QED BY <2>1, GotoKept DEF Plain, Honest, Reports, Bound
<1>4. CASE Delete(p)
  <2>1. pc[p] = "delete" /\ UNCHANGED <<layout, owner, calls>>
    BY <1>4 DEF Delete, target, counts
  <2>2. CASE store = "whole" /\ store' = "part" /\ UNCHANGED <<lock, pc, call>>
    BY <2>1, <2>2 DEF Plain, Kept, Honest, Reports, Bound, CutoverInv, Shape
  <2>3. CASE store = "part" /\ store' = "gone" /\ Goto(p, "selected") /\ UNCHANGED call
    BY <2>1, <2>3, GotoKept DEF Plain, Honest, Reports, Bound
  <2>4. CASE store = "gone" /\ Throw(p) /\ UNCHANGED store
    BY <2>1, <2>4, Thrown DEF Plain, Bound
  <2> QED BY <1>4, <2>2, <2>3, <2>4 DEF Delete
<1> QED BY <1>1, <1>2, <1>3, <1>4

LEMMA FinishPlain ==
  ASSUME CutoverInv, NEW p \in Procs, Finish(p)
  PROVE  Plain(p) /\ Honest(p)
<1>1. /\ pc[p] = "final" /\ UNCHANGED <<store, layout, owner, lock, calls>>
      /\ store = "gone" /\ layout = "committed"
  BY DEF Finish, source, target, people, counts, CutoverInv, Closing
<1>2. CASE Throw(p)
  BY <1>1, <1>2, ThrownPlain
<1>3. CASE Retained(p) /\ End(p, "completed")
  <2>1. Kept(p) /\ pc'[p] = "idle" /\ call'[p].result = "completed"
    BY <1>3, EndKept
  <2>2. \A c \in Owners : call[p].rows[c] # NoOwner =>
          owner'[c] # NoOwner /\ owner'[c].provider = "backlog"
    BY <1>1, <1>3 DEF Retained, Live
  <2> QED BY <1>1, <2>1, <2>2 DEF Plain, Honest, Reports, Bound
<1> QED BY <1>2, <1>3 DEF Finish

LEMMA TroublePlain ==
  ASSUME CutoverInv, NEW p \in Procs, Fail(p) \/ Crash(p)
  PROVE  Plain(p) /\ Honest(p)
<1>1. CASE Fail(p)
  <2>1. /\ pc[p] # "idle" /\ Throw(p) /\ UNCHANGED <<store, layout, owner, calls>>
        /\ lock' = IF pc[p] = "delete" THEN FALSE ELSE lock
    BY <1>1 DEF Fail, source, target
  <2> QED BY <2>1, ThrownPlain
<1>2. CASE Crash(p)
  <2>1. End(p, "none") /\ UNCHANGED <<store, layout, owner, lock, calls>>
    BY <1>2 DEF Crash, source, target, people
  <2> QED BY <2>1, EndKept DEF Plain, Honest, Reports, Bound
<1> QED BY <1>1, <1>2

-----------------------------------------------------------------------------
(* The switch of the registry, and the way back.                            *)
LEMMA SwitchKeeps ==
  ASSUME CutoverInv, NEW p \in Procs, Switch(p)
  PROVE  CutoverInv' /\ Honest(p)
<1>1. pc[p] = "switch" /\ UNCHANGED <<store, layout, lock, calls>>
  BY DEF Switch, source, target, counts
<1>2. CASE Throw(p) /\ UNCHANGED owner
  BY <1>1, <1>2, ThrownPlain, PlainKeeps
<1>3. CASE /\ ~lock /\ Expected(p) /\ owner' = Rebound(p) /\ Goto(p, "guard")
           /\ Know(p, [call[p] EXCEPT !.before = owner, !.after = Rebound(p)])
  <2> DEFINE n == call[p].n
  <2>1. n \in 1..calls /\ calls \in Nat
    BY <1>1 DEF CutoverInv, Numbered, Shape
  <2>2. Registry(owner')
    <3>1. DOMAIN owner' = Owners
      BY <1>3 DEF Rebound
    <3> SUFFICES ASSUME NEW c \in Owners, owner'[c] # NoOwner
                 PROVE  /\ "provider" \in DOMAIN owner'[c] /\ "by" \in DOMAIN owner'[c]
                        /\ owner'[c].provider = "backlog"
      BY <3>1 DEF Registry
    <3>2. Live(c) /\ "provider" \in DOMAIN owner[c] /\ "by" \in DOMAIN owner[c]
      BY <1>3 DEF Rebound, Live, CutoverInv, Shape, Registry
    <3> QED BY <1>3, <3>2 DEF Rebound
  <2>3. \A c \in Owners : owner'[c] # NoOwner =>
          Live(c) /\ owner'[c].provider = "backlog" /\ owner'[c].by = n
    <3> SUFFICES ASSUME NEW c \in Owners, owner'[c] # NoOwner
                 PROVE  Live(c) /\ owner'[c].provider = "backlog" /\ owner'[c].by = n
      OBVIOUS
    <3>1. Live(c) /\ "provider" \in DOMAIN owner[c] /\ "by" \in DOMAIN owner[c]
      BY <1>3 DEF Rebound, Live, CutoverInv, Shape, Registry
    <3> QED BY <1>3, <3>1 DEF Rebound
  <2>4. /\ DOMAIN pc' = Procs /\ DOMAIN call' = Procs /\ pc'[p] = "guard"
        /\ \A q \in Procs : q # p => pc'[q] = pc[q] /\ call'[q] = call[q]
        /\ "n" \in DOMAIN call'[p] /\ "before" \in DOMAIN call'[p] /\ "after" \in DOMAIN call'[p]
        /\ call'[p].n = n /\ call'[p].before = owner /\ call'[p].after = owner'
    BY <1>3 DEF Goto, Know, CutoverInv, Shape
  <2>5. Shape'
    BY <1>1, <2>1, <2>2, <2>4 DEF CutoverInv, Shape
  <2>6. Numbered'
    BY <1>1, <2>1, <2>3, <2>4 DEF CutoverInv, Numbered, Live
  <2>7. Remembered'
    <3>1. Registry(owner) /\ OnSource(owner)
      BY <1>3 DEF CutoverInv, Shape, Expected, OnSource, Live
    <3>2. OnBacklog(owner')
      BY <2>3 DEF OnBacklog
    <3> QED BY <2>4, <3>1, <3>2 DEF CutoverInv, Remembered
  <2>8. SwitchKnown'
    <3> SUFFICES ASSUME NEW q \in Procs, NEW c \in Owners,
                        pc'[q] # "idle", owner'[c] # NoOwner, owner'[c].by = call'[q].n
                 PROVE  call'[q].after # NoSwitch
      BY DEF SwitchKnown, Live, Switched
    <3>1. q = p
      BY <1>1, <2>3, <2>4 DEF CutoverInv, Numbered
    <3>2. DOMAIN owner' = Owners /\ DOMAIN NoSwitch = {}
      BY <2>2 DEF Registry, NoSwitch
    <3> QED BY <2>4, <3>1, <3>2
  <2>9. Deleting' /\ Closing'
    BY <1>1, <1>3, <2>4 DEF CutoverInv, Deleting, Closing
  <2>10. Honest(p)
    BY <2>4 DEF Honest, Reports
  <2> QED BY <2>5, <2>6, <2>7, <2>8, <2>9, <2>10 DEF CutoverInv
<1> QED BY <1>2, <1>3 DEF Switch, Switchable

LEMMA GuardKeeps ==
  ASSUME CutoverInv, NEW p \in Procs, Guard(p)
  PROVE  CutoverInv' /\ Honest(p)
<1>1. pc[p] = "guard" /\ UNCHANGED <<store, layout, owner, calls>>
  BY DEF Guard, target, counts
<1>2. CASE Throw(p) /\ UNCHANGED lock
  BY <1>1, <1>2, ThrownPlain, PlainKeeps
<1>3. CASE ~lock /\ Guarded(p) /\ lock' = TRUE /\ Goto(p, "delete") /\ UNCHANGED call
  <2>1. Kept(p) /\ pc'[p] = "delete"
    BY <1>1, <1>3, GotoKept
  <2>2. OnBacklog(owner)
    BY <1>1, <1>3 DEF Guarded, CutoverInv, Remembered, Bound
  <2>3. \A q \in Procs : pc[q] # "delete"
    BY <1>3 DEF CutoverInv, Deleting
  <2>4. Shape' /\ Numbered'
    BY <1>1, <2>1 DEF CutoverInv, Shape, Numbered, Kept, Live
  <2>5. Remembered'
    BY <1>1, <2>1 DEF CutoverInv, Remembered, Kept, Bound
  <2>6. SwitchKnown'
    BY <1>1, <2>1 DEF CutoverInv, SwitchKnown, Kept, Live, Switched
  <2>7. Deleting'
    BY <1>1, <1>3, <2>1, <2>2, <2>3 DEF Deleting, Kept
  <2>8. Closing'
    BY <1>1, <2>1 DEF CutoverInv, Closing, Kept
  <2> QED BY <2>1, <2>4, <2>5, <2>6, <2>7, <2>8 DEF CutoverInv, Honest, Reports
<1> QED BY <1>2, <1>3 DEF Guard

(* The registry changes while nobody holds its lock: its entries are those  *)
(* there were, with the same number or none, or new ones of the source.     *)
LEMMA RegistryChanges ==
  ASSUME CutoverInv, ~lock, UNCHANGED <<store, layout, lock, calls>>,
         Registry(owner'),
         \A c \in Owners : owner'[c] # NoOwner =>
           owner'[c].by = 0 \/ (Live(c) /\ owner'[c].by = owner[c].by),
         UNCHANGED <<pc, call>> \/ \E p \in Procs : Kept(p) /\ pc'[p] = "idle"
  PROVE  CutoverInv'
<1>1. calls \in Nat
  BY DEF CutoverInv, Shape
<1>2. Shape'
  BY DEF CutoverInv, Shape, Kept
<1>3. Numbered'
  BY <1>1 DEF CutoverInv, Numbered, Kept, Live
<1>4. Remembered'
  BY DEF CutoverInv, Remembered, Kept, Bound
<1>5. SwitchKnown'
  <2> SUFFICES ASSUME NEW q \in Procs, NEW c \in Owners,
                      pc'[q] # "idle", owner'[c] # NoOwner, owner'[c].by = call'[q].n
               PROVE  call'[q].after # NoSwitch
    BY DEF SwitchKnown, Live, Switched
  <2>1. pc[q] # "idle" /\ call'[q].n = call[q].n /\ call'[q].after = call[q].after
    BY DEF Kept
  <2>2. call[q].n # 0
    BY <1>1, <2>1 DEF CutoverInv, Numbered
  <2> QED BY <2>1, <2>2 DEF CutoverInv, SwitchKnown, Switched
<1>6. Deleting' /\ Closing'
  BY DEF CutoverInv, Deleting, Closing, Kept
<1> QED BY <1>2, <1>3, <1>4, <1>5, <1>6 DEF CutoverInv

LEMMA RestoreKeeps ==
  ASSUME CutoverInv, NEW p \in Procs, Restore(p)
  PROVE  CutoverInv' /\ Honest(p)
<1>1. pc[p] = "restore" /\ UNCHANGED <<store, layout, lock, calls>>
  BY DEF Restore, source, target, counts
<1>2. CASE Throw(p) /\ UNCHANGED owner
  BY <1>1, <1>2, ThrownPlain, PlainKeeps
<1>3. CASE ~lock /\ owner' = call[p].before /\ End(p, "pre-cutover-failed")
  <2>1. Kept(p) /\ pc'[p] = "idle" /\ call'[p].result = "pre-cutover-failed"
    BY <1>3, EndKept
  <2>2. Registry(owner') /\ \A c \in Owners : owner'[c] # NoOwner => owner'[c].by = 0
    BY <1>1, <1>3 DEF CutoverInv, Remembered, Bound, Registry, OnSource
  <2>3. call[p].n # 0
    BY <1>1 DEF CutoverInv, Numbered, Shape
  <2>4. CutoverInv'
    BY <1>1, <1>3, <2>1, <2>2, RegistryChanges
  <2> QED BY <2>1, <2>2, <2>3, <2>4 DEF Honest, Reports
<1> QED BY <1>2, <1>3 DEF Restore

LEMMA BeginKeeps ==
  ASSUME CutoverInv, NEW p \in Procs, Begin(p)
  PROVE  CutoverInv' /\ Honest(p)
<1>1. /\ pc[p] = "idle" /\ calls \in Nat /\ calls' = calls + 1
      /\ UNCHANGED <<store, layout, owner, lock>>
  BY DEF Begin, source, target, people, CutoverInv, Shape
<1>2. /\ DOMAIN pc' = Procs /\ DOMAIN call' = Procs /\ pc'[p] = "capture"
      /\ \A q \in Procs : q # p => pc'[q] = pc[q] /\ call'[q] = call[q]
      /\ "n" \in DOMAIN call'[p] /\ "before" \in DOMAIN call'[p] /\ "after" \in DOMAIN call'[p]
      /\ call'[p].n = calls + 1
  BY DEF Begin, CutoverInv, Shape, NoCall
<1>3. Shape'
  BY <1>1, <1>2 DEF CutoverInv, Shape
<1>4. Numbered'
  BY <1>1, <1>2 DEF CutoverInv, Numbered, Live
<1>5. Remembered'
  BY <1>1, <1>2 DEF CutoverInv, Remembered, Bound
<1>6. SwitchKnown'
  BY <1>1, <1>2 DEF CutoverInv, SwitchKnown, Numbered, Live, Switched
<1>7. Deleting' /\ Closing'
  BY <1>1, <1>2 DEF CutoverInv, Deleting, Closing
<1> QED BY <1>1, <1>3, <1>4, <1>5, <1>6, <1>7 DEF CutoverInv, Honest, Reports

(* Creations and closings of Episodes.                                      *)
LEMMA EpisodeKeeps ==
  ASSUME CutoverInv, NEW c \in Owners, Reserve(c) \/ Activate(c) \/ Close(c)
  PROVE  CutoverInv'
<1>1. ~lock /\ UNCHANGED <<store, layout, lock, calls, pc, call>>
  BY DEF Reserve, Activate, Close, source, target, counts
<1>2. /\ DOMAIN owner = Owners
      /\ \A d \in Owners : owner[d] # NoOwner =>
           /\ "provider" \in DOMAIN owner[d] /\ "by" \in DOMAIN owner[d]
           /\ owner[d].provider \in {"beads", "backlog"}
           /\ owner[d].provider = "beads" => owner[d].by = 0
  BY DEF CutoverInv, Shape, Registry
<1>3. PICK e : /\ owner' = [owner EXCEPT ![c] = e]
               /\ e # NoOwner =>
                    /\ "provider" \in DOMAIN e /\ "by" \in DOMAIN e
                    /\ e.provider \in {"beads", "backlog"} /\ (e.provider = "beads" => e.by = 0)
                    /\ e.by = 0 \/ (Live(c) /\ e.by = owner[c].by)
  <2>1. CASE Reserve(c)
    <3> PICK t \in Tasks : owner' = [owner EXCEPT ![c] = [Binding(t) EXCEPT !.status = "provisioning"]]
      BY <2>1 DEF Reserve
    <3> DEFINE e == [Binding(t) EXCEPT !.status = "provisioning"]
    <3>1. /\ "provider" \in DOMAIN e /\ "by" \in DOMAIN e
          /\ e.provider = "beads" /\ e.by = 0
      BY DEF Binding
    <3> HIDE DEF e
    <3> QED BY <3>1 DEF e
  <2>2. CASE Activate(c)
    <3> DEFINE e == [owner[c] EXCEPT !.status = "active"]
    <3>1. Live(c) /\ owner' = [owner EXCEPT ![c] = e]
      BY <1>2, <2>2 DEF Activate
    <3>2. /\ "provider" \in DOMAIN e /\ "by" \in DOMAIN e
          /\ e.provider = owner[c].provider /\ e.by = owner[c].by
      BY <1>2, <3>1 DEF Live
    <3> HIDE DEF e
    <3> QED BY <1>2, <3>1, <3>2 DEF Live
  <2>3. CASE Close(c)
    BY <2>3 DEF Close
  <2> QED BY <2>1, <2>2, <2>3
<1>4. /\ Registry(owner')
      /\ \A d \in Owners : owner'[d] # NoOwner =>
           owner'[d].by = 0 \/ (Live(d) /\ owner'[d].by = owner[d].by)
  BY <1>2, <1>3 DEF Registry, Live
<1> QED BY <1>1, <1>4, RegistryChanges

LEMMA OthersKeep ==
  ASSUME CutoverInv, UNCHANGED <<owner, lock, calls, pc, call, store, layout>>
  PROVE  CutoverInv'
BY DEF CutoverInv, Shape, Numbered, Remembered, SwitchKnown, Deleting, Closing, Live, Switched

-----------------------------------------------------------------------------
Process(p) ==
  \/ Begin(p) \/ Capture(p) \/ ReadRows(p) \/ Prepare(p) \/ Baseline(p)
  \/ Create(p) \/ Mark(p) \/ ReserveReceipt(p) \/ MarkReceipt(p) \/ Place(p)
  \/ Commit(p) \/ Push(p) \/ Verify(p) \/ WriteReceipt(p)
  \/ CheckTarget(p) \/ CheckSource(p) \/ Switch(p) \/ Guard(p) \/ Delete(p)
  \/ Recover(p) \/ Restore(p) \/ Select(p) \/ PublishLayout(p) \/ Finish(p)
  \/ Fail(p) \/ Crash(p)

Alone(p) == \A q \in Procs : q # p => pc'[q] = pc[q]

LEMMA ProcessStep ==
  ASSUME CutoverInv, NEW p \in Procs, Process(p)
  PROVE  CutoverInv' /\ Honest(p) /\ Alone(p)
<1>1. ASSUME Plain(p), Honest(p) PROVE CutoverInv' /\ Honest(p) /\ Alone(p)
  BY <1>1, PlainKeeps DEF Plain, Kept, Alone
<1>2. CASE Begin(p)
  BY <1>2, BeginKeeps DEF Begin, Alone, CutoverInv, Shape
<1>3. CASE Switch(p) \/ Guard(p) \/ Restore(p)
  <2>1. (\E l : Goto(p, l)) => Alone(p)
    BY DEF Goto, Alone, CutoverInv, Shape
  <2>2. Throw(p) => \E l : Goto(p, l)
    BY DEF Throw, End
  <2>3. \E l : Goto(p, l)
    BY <1>3, <2>2 DEF Switch, Guard, Restore, End
  <2> QED BY <1>3, <2>1, <2>3, SwitchKeeps, GuardKeeps, RestoreKeeps
<1> QED BY <1>1, <1>2, <1>3, Importing, CapturePlain, CutoverPlain, FinishPlain, TroublePlain
        DEF Process

(* Only deleteBeadsSource removes anything, and it has the lock.            *)
LEMMA OnlyDeleteRemoves ==
  ASSUME CutoverInv, NEW p \in Procs, Process(p), Removes
  PROVE  OnBacklog(owner)
<1>1. CASE Delete(p)
  BY <1>1 DEF Delete, CutoverInv, Deleting
<1>2. CASE ~Delete(p)
  <2>1. UNCHANGED store
    BY <1>2 DEF Process, Begin, Capture, ReadRows, Prepare, Baseline, Create, Mark,
       ReserveReceipt, MarkReceipt, Place, Commit, Push, Verify, WriteReceipt, CheckTarget,
       CheckSource, Switch, Guard, Recover, Restore, Select, PublishLayout, Finish, Fail, Crash,
       source
  <2> QED BY <2>1 DEF Removes
<1> QED BY <1>1, <1>2

StepHonest == \A p \in Procs : Honest(p)

LEMMA CutoverStep ==
  ASSUME CutoverInv, [Next]_vars
  PROVE  CutoverInv' /\ StepHonest /\ (Removes => OnBacklog(owner))
<1>1. ASSUME NEW p \in Procs, Process(p)
      PROVE  CutoverInv' /\ StepHonest /\ (Removes => OnBacklog(owner))
  <2>1. CutoverInv' /\ Honest(p) /\ Alone(p)
    BY <1>1, ProcessStep
  <2>2. \A q \in Procs : q # p => Honest(q)
    BY <2>1 DEF Alone, Honest, Reports
  <2> QED BY <1>1, <2>1, <2>2, OnlyDeleteRemoves DEF StepHonest
<1>2. ASSUME NEW c \in Owners, Reserve(c) \/ Activate(c) \/ Close(c)
      PROVE  CutoverInv' /\ StepHonest /\ (Removes => OnBacklog(owner))
  <2>1. UNCHANGED <<pc, store>>
    BY <1>2 DEF Reserve, Activate, Close, source
  <2> QED BY <1>2, <2>1, EpisodeKeeps DEF StepHonest, Honest, Reports, Removes
<1>3. ASSUME UNCHANGED <<owner, lock, calls, pc, call, store, layout>>
      PROVE  CutoverInv' /\ StepHonest /\ (Removes => OnBacklog(owner))
  BY <1>3, OthersKeep DEF StepHonest, Honest, Reports, Removes
<1>4. CASE UNCHANGED vars
  BY <1>3, <1>4 DEF vars, source, target, people, counts
<1>5. CASE Inspect \/ Discard \/ PublishWork
  BY <1>3, <1>5 DEF Inspect, Discard, PublishWork, source, target, people, counts
<1>6. ASSUME NEW t \in Tasks, Edit(t)
      PROVE  CutoverInv' /\ StepHonest /\ (Removes => OnBacklog(owner))
  BY <1>3, <1>6 DEF Edit, target, people
<1>7. ASSUME NEW c \in Owners, Detect(c) \/ Admit(c)
      PROVE  CutoverInv' /\ StepHonest /\ (Removes => OnBacklog(owner))
  BY <1>3, <1>7 DEF Detect, Admit, source, target, counts
<1> QED BY <1>1, <1>2, <1>4, <1>5, <1>6, <1>7 DEF Next, Process

(* Whatever migrations run, fail, crash and are confirmed again, and        *)
(* whatever Episodes are created and closed meanwhile, the source is not    *)
(* removed under a live Episode that is bound to it.                        *)
THEOREM Stranded == Spec => NobodyStranded
<1>1. (Removes => OnBacklog(owner)) =>
        (store = "whole" /\ store' # "whole" =>
           \A c \in Owners : Live(c) => owner[c].provider = "backlog")
  BY DEF Removes, OnBacklog, Live
<1> QED BY <1>1, CutoverInit, CutoverStep, PTL DEF Spec, NobodyStranded

(* "pre-cutover-failed" is only reported when no ownership entry is left as *)
(* the invocation switched it, and "completed" when the source is gone and  *)
(* each Episode it found is on the destination.                             *)
THEOREM Truthful == Spec => ReportTruthful
<1>1. StepHonest =>
        \A p \in Procs :
          /\ Reports(p, "pre-cutover-failed") =>
               \A c \in Owners : owner'[c] # NoOwner => owner'[c].by # call[p].n
          /\ Reports(p, "completed") =>
               /\ store' = "gone" /\ layout' # "none"
               /\ \A c \in Owners : call[p].rows[c] # NoOwner =>
                    owner'[c] # NoOwner /\ owner'[c].provider = "backlog"
  BY DEF StepHonest, Honest
<1> QED BY <1>1, CutoverInit, CutoverStep, PTL DEF Spec, ReportTruthful

-----------------------------------------------------------------------------
(* The records of the destination, and what an invocation knows of them.    *)

(* Records are numbered from 1 without a gap.                               *)
Ids(S) ==
  /\ S \subseteq Record /\ IsFiniteSet(S)
  /\ \A r \in S : r.id \in 1..Cardinality(S)
  /\ \A r, s \in S : r.id = s.id => r = s

Complete(r) == r.of \in Tasks /\ r.stage = "placed"

(* Before Prepare has found, or made, the layout.                           *)
Early == {"idle", "capture", "rows", "prepare"}

(* The working tree has the complete copies of HEAD, and HEAD has those of  *)
(* the remote.                                                              *)
Layered ==
  /\ layout = "none" => work = {} /\ head = {} /\ remote = {}
  /\ \A p \in Procs : pc[p] \notin Early => layout # "none"
  /\ \A r \in remote : Complete(r) => r \in head
  /\ \A r \in head : Complete(r) => r \in work

Knows(c) ==
  /\ DOMAIN c = {"n", "saw", "rows", "base", "map", "made", "receipt", "head",
                 "before", "after", "result"}
  /\ c.saw \in Versions /\ c.map \in [Tasks -> Nat] /\ c.made \subseteq Tasks
  /\ c.receipt \in Nat

(* Before Baseline nothing has been created.                                *)
Starting == {"capture", "rows", "prepare", "baseline"}

Knowing ==
  \A p \in Procs : Knows(call[p]) /\ (pc[p] \in Starting => call[p].made = {})

(* The records an invocation takes for its copies and its receipt are so.   *)
Claimed(p) ==
  /\ \A t \in Tasks : call[p].map[t] <= Cardinality(work)
  /\ call[p].receipt <= Cardinality(work)
  /\ \A r \in work : r.id = call[p].receipt => r.of = Receipt
  /\ \A r \in work, t \in Tasks : r.id = call[p].map[t] => r.of = t

Claims == \A p \in Procs : pc[p] # "idle" => Claimed(p)

(* No record was created by two invocations.                                *)
Apart ==
  \A p, q \in Procs : p # q /\ pc[p] # "idle" /\ pc[q] # "idle" =>
    \A t \in call[p].made, u \in call[q].made : call[p].map[t] # call[q].map[u]

(* The record to be marked is the last one created, and still bare.         *)
Newest(p, t) ==
  /\ t \in call[p].made
  /\ \A u \in call[p].made : call[p].map[u] <= call[p].map[t]
  /\ \A r \in work : r.id = call[p].map[t] => r.stage = "bare"

Fresh == \A p \in Procs : pc[p] = "mark" => \E t \in Tasks : Newest(p, t)

RecordsInv ==
  /\ Ids(work) /\ Ids(head) /\ Ids(remote)
  /\ Layered /\ Knowing /\ Claims /\ Apart /\ Fresh

-----------------------------------------------------------------------------
(* Changes of the working tree.                                             *)

(* No record has this number.                                               *)
NoId == -1

(* Records stay and keep their number and what they are of, complete copies *)
(* stay as they are, and a bare record of a task stays bare unless its      *)
(* number is i.                                                             *)
Evolves(i) ==
  /\ Ids(work') /\ Cardinality(work) <= Cardinality(work')
  /\ \A s \in work' :
       \/ s.id > Cardinality(work)
       \/ \E r \in work :
            /\ r.id = s.id /\ r.of = s.of
            /\ r.stage = "bare" /\ r.of # Receipt /\ r.id # i => s.stage = "bare"
  /\ \A r \in work : Complete(r) => r \in work'

LEMMA Counts ==
  ASSUME NEW S, Ids(S)
  PROVE  /\ Cardinality(S) \in Nat /\ S \subseteq Record
         /\ \A r \in S : r.id \in Nat /\ r.id <= Cardinality(S) /\ r.id # 0
BY FS_CardinalityType DEF Ids

LEMMA Unchanged ==
  ASSUME Ids(work), UNCHANGED work
  PROVE  Evolves(NoId)
BY Counts DEF Evolves

LEMMA RecordAdded ==
  ASSUME Ids(work), NEW x \in Tasks \cup {Receipt}, NewRecord(x)
  PROVE  /\ Evolves(NoId) /\ Cardinality(work') = Cardinality(work) + 1
         /\ \A s \in work' :
              s.id = NextId => s = [id |-> NextId, of |-> x, rev |-> Never, stage |-> "bare"]
<1> DEFINE new == [id |-> NextId, of |-> x, rev |-> Never, stage |-> "bare"]
<1>1. Cardinality(work) \in Nat /\ NextId = Cardinality(work) + 1
  BY Counts DEF NextId
<1>2. new \in Record /\ new.id = NextId /\ new.stage = "bare"
  BY <1>1 DEF Record, Never, Versions
<1>3. work' = work \cup {new}
  BY DEF NewRecord
<1> HIDE DEF new
<1>4. new \notin work
  BY <1>1, <1>2, Counts
<1>5. IsFiniteSet(work') /\ Cardinality(work') = Cardinality(work) + 1
  BY <1>3, <1>4, FS_AddElement DEF Ids
<1>6. Ids(work')
  BY <1>1, <1>2, <1>3, <1>5 DEF Ids
<1>7. Evolves(NoId)
  BY <1>1, <1>2, <1>3, <1>5, <1>6 DEF Evolves
<1>8. \A s \in work' : s.id = NextId => s = new
  BY <1>1, <1>3, Counts
<1> QED BY <1>5, <1>7, <1>8 DEF new

(* A change that keeps the numbers keeps their count.                       *)
LEMMA Renewed ==
  ASSUME NEW S, Ids(S), NEW g \in [S -> Record],
         \A r \in S : g[r].id = r.id
  PROVE  LET T == {g[r] : r \in S}
         IN  Ids(T) /\ Cardinality(T) = Cardinality(S)
<1> DEFINE T == {g[r] : r \in S}
<1> SUFFICES Ids(T) /\ Cardinality(T) = Cardinality(S)
  OBVIOUS
<1>1. g \in [S -> T]
  OBVIOUS
<1>2. \A r, s \in S : g[r] = g[s] => r = s
  BY DEF Ids
<1>3. \A u \in T : \E r \in S : g[r] = u
  OBVIOUS
<1>4. \A u \in T : \E r \in S : g[r] = u /\ u \in Record /\ u.id = r.id
  OBVIOUS
<1> HIDE DEF T
<1>5. ExistsBijection(S, T)
  <2>1. g \in Bijection(S, T)
    BY <1>1, <1>2, <1>3, Fun_IsBij
  <2> QED BY <2>1, Fun_ExistsBij
<1>6. IsFiniteSet(T) /\ Cardinality(T) = Cardinality(S)
  BY <1>5, FS_Bijection DEF Ids
<1> QED BY <1>2, <1>4, <1>6 DEF Ids

(* One record is changed in place, and it is no complete copy, or remains   *)
(* as it is.                                                                *)
LEMMA RecordChanged ==
  ASSUME Ids(work), NEW g \in [work -> Record], work' = {g[r] : r \in work},
         NEW i,
         \A r \in work :
           /\ g[r].id = r.id /\ g[r].of = r.of
           /\ Complete(r) => g[r] = r
           /\ r.stage = "bare" /\ r.of # Receipt /\ r.id # i => g[r].stage = "bare"
  PROVE  Evolves(i) /\ Cardinality(work') = Cardinality(work)
<1>1. Ids(work') /\ Cardinality(work') = Cardinality(work)
  BY Renewed
<1>2. Cardinality(work) <= Cardinality(work')
  BY <1>1, Counts
<1>3. \A r \in work : Complete(r) => r \in work'
  <2> TAKE r \in work
  <2>1. g[r] \in work'
    OBVIOUS
  <2> QED BY <2>1
<1>4. \A s \in work' : \E r \in work :
        /\ r.id = s.id /\ r.of = s.of
        /\ r.stage = "bare" /\ r.of # Receipt /\ r.id # i => s.stage = "bare"
  OBVIOUS
<1> QED BY <1>1, <1>2, <1>3, <1>4 DEF Evolves

-----------------------------------------------------------------------------
(* Steps of p, and what they leave of the claims.                           *)
Others(p) ==
  /\ DOMAIN pc' = Procs /\ DOMAIN call' = Procs
  /\ \A q \in Procs : q # p => pc'[q] = pc[q] /\ call'[q] = call[q]
  /\ Knows(call'[p]) /\ (pc'[p] \in Starting => call'[p].made = {})

(* What p claims, if it goes on, and the records it has created: those of   *)
(* before, and new ones.                                                    *)
OwnClaims(p) ==
  pc'[p] # "idle" =>
    /\ Claimed(p)'
    /\ \A t \in call'[p].made :
         \/ pc[p] # "idle" /\ t \in call[p].made /\ call'[p].map[t] = call[p].map[t]
         \/ call'[p].map[t] > Cardinality(work)
    /\ pc'[p] = "mark" => \E t \in Tasks : Newest(p, t)'

(* The usual step: no new claim.                                            *)
Onward(p) ==
  /\ Others(p)
  /\ pc'[p] # "idle" =>
       /\ pc[p] # "idle" /\ pc'[p] # "mark"
       /\ call'[p].map = call[p].map /\ call'[p].receipt = call[p].receipt
       /\ call'[p].made \subseteq call[p].made

LEMMA NewestId ==
  ASSUME NEW p \in Procs, Knows(call[p]), NEW t \in Tasks, Newest(p, t)
  PROVE  NewId(p) = call[p].map[t]
<1> DEFINE M == {call[p].map[u] : u \in call[p].made}
           i == call[p].map[t]
<1>1. \A j \in M : j \in Nat
  BY DEF Knows
<1>2. i \in M /\ \A j \in M : j <= i
  BY DEF Newest
<1>3. \A j \in M : (\A u \in call[p].made : call[p].map[u] <= j) => i <= j
  BY DEF Newest
<1>4. \A u \in call[p].made : call[p].map[u] <= i
  BY DEF Newest
<1>5. /\ NewId(p) \in M
      /\ \A u \in call[p].made : call[p].map[u] <= NewId(p)
  BY <1>2, <1>4 DEF NewId
<1> HIDE DEF M, i
<1>6. NewId(p) <= i /\ i <= NewId(p) /\ i \in Nat /\ NewId(p) \in Nat
  BY <1>1, <1>2, <1>3, <1>5
<1> QED BY <1>6 DEF i

(* The claims of the others do not suffer.                                  *)
LEMMA ClaimKept ==
  ASSUME RecordsInv, NEW i, Evolves(i), NEW q \in Procs, Claimed(q),
         call'[q].map = call[q].map, call'[q].receipt = call[q].receipt
  PROVE  Claimed(q)'
<1>1. /\ Cardinality(work) \in Nat /\ Cardinality(work') \in Nat
      /\ Cardinality(work) <= Cardinality(work')
      /\ \A s \in work' : s.id \in Nat
  BY Counts DEF RecordsInv, Evolves
<1>2. /\ \A t \in Tasks : call[q].map[t] \in Nat
      /\ call[q].receipt \in Nat
  BY DEF RecordsInv, Knowing, Knows
<1>3. \A s \in work' : s.id <= Cardinality(work) => \E r \in work : r.id = s.id /\ r.of = s.of
  BY <1>1 DEF Evolves
<1>4. /\ \A t \in Tasks : call[q].map[t] <= Cardinality(work')
      /\ call[q].receipt <= Cardinality(work')
  BY <1>1, <1>2 DEF Claimed
<1>5. \A s \in work' : s.id = call[q].receipt => s.of = Receipt
  BY <1>3 DEF Claimed
<1>6. \A s \in work', t \in Tasks : s.id = call[q].map[t] => s.of = t
  BY <1>3 DEF Claimed
<1> QED BY <1>4, <1>5, <1>6 DEF Claimed

LEMMA NewestKept ==
  ASSUME RecordsInv, NEW i, Evolves(i), NEW q \in Procs, Claimed(q),
         NEW t \in Tasks, Newest(q, t), i # call[q].map[t], call'[q] = call[q]
  PROVE  Newest(q, t)'
<1>1. \A s \in work' : s.id = call[q].map[t] => s.stage = "bare"
  <2> SUFFICES ASSUME NEW s \in work', s.id = call[q].map[t]
               PROVE  s.stage = "bare"
    OBVIOUS
  <2>1. s.id <= Cardinality(work) /\ Cardinality(work) \in Nat /\ s.id \in Nat
    BY Counts DEF RecordsInv, Knowing, Knows, Claimed
  <2>2. PICK r \in work :
          /\ r.id = s.id /\ r.of = s.of
          /\ r.stage = "bare" /\ r.of # Receipt /\ r.id # i => s.stage = "bare"
    BY <2>1 DEF Evolves
  <2>3. r.of = t /\ r.stage = "bare"
    BY <2>2 DEF Claimed, Newest
  <2> QED BY <2>2, <2>3, MigrationAssumption
<1> QED BY <1>1 DEF Newest

LEMMA ClaimsKept ==
  ASSUME RecordsInv, NEW p \in Procs, NEW i, Evolves(i),
         i = NoId \/ (pc[p] = "mark" /\ i = NewId(p)),
         Others(p), OwnClaims(p)
  PROVE  Knowing' /\ Claims' /\ Apart' /\ Fresh'
<1>1. Knowing'
  BY DEF RecordsInv, Knowing, Others
<1>2. Claims'
  <2> SUFFICES ASSUME NEW q \in Procs, pc'[q] # "idle" PROVE Claimed(q)'
    BY DEF Claims
  <2>1. CASE q = p
    BY <2>1 DEF OwnClaims
  <2>2. CASE q # p
    BY <2>2, ClaimKept DEF RecordsInv, Claims, Others
  <2> QED BY <2>1, <2>2
<1>3. ASSUME NEW q \in Procs, q # p, pc'[p] # "idle", pc'[q] # "idle",
             NEW t \in call'[p].made, NEW u \in call'[q].made
      PROVE  call'[p].map[t] # call'[q].map[u]
  <2>1. pc[q] # "idle" /\ call'[q] = call[q]
    BY <1>3 DEF Others
  <2>2. CASE pc[p] # "idle" /\ t \in call[p].made /\ call'[p].map[t] = call[p].map[t]
    BY <1>3, <2>1, <2>2 DEF RecordsInv, Apart
  <2>3. CASE call'[p].map[t] > Cardinality(work)
    <3>1. u \in Tasks /\ call[q].map[u] \in Nat /\ Cardinality(work) \in Nat
      BY <2>1, Counts DEF RecordsInv, Knowing, Knows
    <3>2. call[q].map[u] <= Cardinality(work)
      BY <2>1, <3>1 DEF RecordsInv, Claims, Claimed
    <3>3. t \in Tasks /\ call'[p].map[t] \in Nat
      BY DEF Others, Knows
    <3> QED BY <2>1, <2>3, <3>1, <3>2, <3>3
  <2> QED BY <1>3, <2>2, <2>3 DEF OwnClaims
<1>4. Apart'
  <2> SUFFICES ASSUME NEW a \in Procs, NEW b \in Procs, a # b, pc'[a] # "idle", pc'[b] # "idle",
                      NEW t \in call'[a].made, NEW u \in call'[b].made
               PROVE  call'[a].map[t] # call'[b].map[u]
    BY DEF Apart
  <2>1. CASE a = p
    BY <1>3, <2>1
  <2>2. CASE b = p
    BY <1>3, <2>2
  <2>3. CASE a # p /\ b # p
    BY <2>3 DEF Others, RecordsInv, Apart
  <2> QED BY <2>1, <2>2, <2>3
<1>5. Fresh'
  <2> SUFFICES ASSUME NEW q \in Procs, pc'[q] = "mark" PROVE \E t \in Tasks : Newest(q, t)'
    BY DEF Fresh
  <2>1. CASE q = p
    BY <2>1 DEF OwnClaims
  <2>2. CASE q # p
    <3>1. pc[q] = "mark" /\ call'[q] = call[q] /\ Claimed(q) /\ Knows(call[q])
      BY <2>2 DEF Others, RecordsInv, Claims, Knowing
    <3>2. PICK t \in Tasks : Newest(q, t)
      BY <3>1 DEF RecordsInv, Fresh
    <3>3. i # call[q].map[t]
      <4>1. CASE i = NoId
        BY <3>1, <4>1 DEF NoId, Knows
      <4>2. CASE pc[p] = "mark" /\ i = NewId(p)
        <5>1. Knows(call[p])
          BY DEF RecordsInv, Knowing
        <5>2. PICK u \in Tasks : Newest(p, u)
          BY <4>2 DEF RecordsInv, Fresh
        <5>3. i = call[p].map[u]
          BY <4>2, <5>1, <5>2, NewestId
        <5> QED BY <2>2, <3>1, <3>2, <4>2, <5>2, <5>3 DEF RecordsInv, Apart, Newest
      <4> QED BY <4>1, <4>2
    <3> QED BY <3>1, <3>2, <3>3, NewestKept
  <2> QED BY <2>1, <2>2
<1> QED BY <1>1, <1>2, <1>4, <1>5

LEMMA OnwardOwn ==
  ASSUME RecordsInv, NEW p \in Procs, NEW i, Evolves(i), Onward(p)
  PROVE  OwnClaims(p)
BY ClaimKept DEF Onward, OwnClaims, RecordsInv, Claims

(* A step of p that neither commits nor publishes anything.                 *)
LEMMA RecordsKept ==
  ASSUME RecordsInv, NEW p \in Procs, NEW i, Evolves(i),
         i = NoId \/ (pc[p] = "mark" /\ i = NewId(p)),
         Onward(p) \/ (Others(p) /\ OwnClaims(p)),
         UNCHANGED <<head, remote>>,
         layout' = layout \/ layout' # "none",
         layout = "none" => UNCHANGED work,
         pc'[p] \notin Early => layout' # "none"
  PROVE  RecordsInv'
<1>1. Others(p) /\ OwnClaims(p)
  BY OnwardOwn DEF Onward
<1>2. Knowing' /\ Claims' /\ Apart' /\ Fresh'
  BY <1>1, ClaimsKept
<1>3. Ids(work)' /\ Ids(head)' /\ Ids(remote)'
  BY DEF RecordsInv, Evolves, Ids
<1>4. \A q \in Procs : pc'[q] \notin Early => layout' # "none"
  BY <1>1 DEF RecordsInv, Layered, Others
<1>5. \A r \in work : Complete(r) => r \in work'
  BY DEF Evolves
<1>6. Layered'
  BY <1>4, <1>5 DEF RecordsInv, Layered, Complete
<1> QED BY <1>2, <1>3, <1>6 DEF RecordsInv

(* How p goes on with what it knows, or with something that is no claim.    *)
Recalls(p) ==
  \E c : /\ Know(p, c) /\ Knows(c)
         /\ c.map = call[p].map /\ c.receipt = call[p].receipt
         /\ c.made \subseteq call[p].made

Proceeds(p) ==
  /\ UNCHANGED call \/ Recalls(p)
  /\ \/ UNCHANGED pc /\ pc[p] # "mark"
     \/ \E l : /\ l \notin {"idle", "mark"} /\ (l \in Early \/ pc[p] \notin Early)
               /\ l \in Starting => pc[p] \in Starting
               /\ Goto(p, l)

Usual(p) == Throw(p) \/ Proceeds(p) \/ \E r : End(p, r)

LEMMA EndKnows ==
  ASSUME NEW r
  PROVE  Knows([NoCall EXCEPT !.result = r])
<1> DEFINE c == [NoCall EXCEPT !.result = r]
<1>1. /\ DOMAIN c = DOMAIN NoCall
      /\ c.map = NoCall.map /\ c.made = NoCall.made /\ c.receipt = NoCall.receipt
      /\ c.saw = NoCall.saw
  BY DEF NoCall
<1> HIDE DEF c
<1> QED BY <1>1 DEF Knows, NoCall, Never, Versions, c

LEMMA UsualOnward ==
  ASSUME CutoverInv, RecordsInv, NEW p \in Procs, pc[p] # "idle", Usual(p)
  PROVE  Onward(p) /\ (pc'[p] \notin Early => pc[p] \notin Early)
<1>1. /\ DOMAIN pc = Procs /\ DOMAIN call = Procs
      /\ Knows(call[p]) /\ (pc[p] \in Starting => call[p].made = {})
  BY DEF CutoverInv, Shape, RecordsInv, Knowing
<1>2. ASSUME NEW r, End(p, r)
      PROVE  Onward(p) /\ (pc'[p] \notin Early => pc[p] \notin Early)
  BY <1>1, <1>2, EndKnows DEF End, Goto, Know, Onward, Others, Early, Starting
<1>3. CASE Throw(p)
  <2>1. CASE pc[p] \in {"guard", "delete"}
    BY <1>1, <1>3, <2>1 DEF Throw, Goto, Onward, Others, Early, Starting
  <2>2. CASE pc[p] \notin {"guard", "delete"}
    BY <1>2, <1>3, <2>2 DEF Throw
  <2> QED BY <2>1, <2>2
<1>4. CASE Proceeds(p)
  <2>1. /\ DOMAIN pc' = Procs
        /\ \A q \in Procs : q # p => pc'[q] = pc[q]
        /\ pc'[p] # "mark" /\ (pc'[p] \notin Early => pc[p] \notin Early)
        /\ pc'[p] \in Starting => pc[p] \in Starting
    BY <1>1, <1>4 DEF Proceeds, Goto
  <2>2. /\ DOMAIN call' = Procs
        /\ \A q \in Procs : q # p => call'[q] = call[q]
        /\ Knows(call'[p])
        /\ call'[p].map = call[p].map /\ call'[p].receipt = call[p].receipt
        /\ call'[p].made \subseteq call[p].made
    BY <1>1, <1>4 DEF Proceeds, Recalls, Know
  <2> QED BY <1>1, <2>1, <2>2 DEF Onward, Others
<1> QED BY <1>2, <1>3, <1>4 DEF Usual

(* The destination stays as it is.                                          *)
LEMMA TargetKept ==
  ASSUME CutoverInv, RecordsInv, NEW p \in Procs, pc[p] # "idle", Usual(p),
         UNCHANGED <<work, head, remote>>,
         layout' = layout \/ layout' # "none"
  PROVE  RecordsInv'
<1>1. Evolves(NoId)
  BY Unchanged DEF RecordsInv
<1>2. Onward(p) /\ (pc'[p] \notin Early => pc[p] \notin Early)
  BY UsualOnward
<1>3. pc'[p] \notin Early => layout' # "none"
  BY <1>2 DEF RecordsInv, Layered
<1> QED BY <1>1, <1>2, <1>3, RecordsKept

(* An invocation changes the working tree.                                  *)
LEMMA WorkKept ==
  ASSUME CutoverInv, RecordsInv, NEW p \in Procs, pc[p] \notin Early,
         NEW i, Evolves(i), i = NoId \/ (pc[p] = "mark" /\ i = NewId(p)),
         Usual(p) \/ (Others(p) /\ OwnClaims(p)),
         UNCHANGED <<layout, head, remote>>
  PROVE  RecordsInv'
<1>1. layout # "none"
  BY DEF RecordsInv, Layered
<1>2. Onward(p) \/ (Others(p) /\ OwnClaims(p))
  BY UsualOnward DEF Early, Starting
<1> QED BY <1>1, <1>2, RecordsKept

-----------------------------------------------------------------------------
(* The actions of an invocation, and the records.                           *)
LEMMA ReadsKeep ==
  ASSUME CutoverInv, RecordsInv, NEW p \in Procs,
         \/ Capture(p) \/ ReadRows(p) \/ Verify(p) \/ CheckTarget(p) \/ CheckSource(p)
         \/ Switch(p) \/ Guard(p) \/ Delete(p) \/ Recover(p) \/ Restore(p) \/ Select(p)
         \/ PublishLayout(p) \/ Finish(p) \/ Fail(p) \/ Crash(p)
  PROVE  RecordsInv' /\ Usual(p) /\ pc[p] # "idle"
<1>1. Knows(call[p])
  BY DEF RecordsInv, Knowing
<1>2. ASSUME pc[p] # "idle", Usual(p), UNCHANGED <<work, head, remote>>,
             layout' = layout \/ layout' = "committed"
      PROVE  RecordsInv' /\ Usual(p) /\ pc[p] # "idle"
  BY <1>2, TargetKept
<1>3. CASE Capture(p)
  BY <1>2, <1>3 DEF Capture, target, Usual, Proceeds, Early, Starting
<1>4. CASE ReadRows(p)
  <2> DEFINE c == [call[p] EXCEPT !.rows = owner]
  <2>1. /\ DOMAIN c = DOMAIN call[p] /\ c.map = call[p].map /\ c.receipt = call[p].receipt
        /\ c.made = call[p].made /\ c.saw = call[p].saw
    BY <1>1 DEF Knows
  <2>2. pc[p] = "rows" /\ (Throw(p) \/ (Goto(p, "prepare") /\ Know(p, c)))
    BY <1>4 DEF ReadRows
  <2> HIDE DEF c
  <2>3. Usual(p)
    BY <1>1, <2>1, <2>2 DEF Usual, Proceeds, Recalls, Knows, Early, Starting
  <2> QED BY <1>2, <1>4, <2>3 DEF ReadRows, target
<1>5. CASE Verify(p) \/ CheckTarget(p) \/ CheckSource(p)
  BY <1>2, <1>5 DEF Verify, CheckTarget, CheckSource, target, Usual, Proceeds, Early, Starting
<1>6. CASE Switch(p)
  <2> DEFINE b == Rebound(p)
             c == [call[p] EXCEPT !.before = owner, !.after = b]
  <2>1. /\ DOMAIN c = DOMAIN call[p] /\ c.map = call[p].map /\ c.receipt = call[p].receipt
        /\ c.made = call[p].made /\ c.saw = call[p].saw
    <3> HIDE DEF b
    <3> QED BY <1>1 DEF Knows
  <2>2. pc[p] = "switch" /\ (Throw(p) \/ (Goto(p, "guard") /\ Know(p, c)))
    BY <1>6 DEF Switch
  <2> HIDE DEF c
  <2>3. Usual(p)
    BY <1>1, <2>1, <2>2 DEF Usual, Proceeds, Recalls, Knows, Early, Starting
  <2> QED BY <1>2, <1>6, <2>2, <2>3 DEF Switch, target
<1>7. CASE Guard(p) \/ Recover(p) \/ Select(p)
  BY <1>2, <1>7 DEF Guard, Recover, Select, target, Usual, Proceeds, Early, Starting
<1>8. CASE Delete(p)
  BY <1>2, <1>8 DEF Delete, target, Usual, Proceeds, Early, Starting
<1>9. CASE Restore(p) \/ Finish(p)
  BY <1>2, <1>9 DEF Restore, Finish, target, Usual
<1>10. CASE PublishLayout(p)
  BY <1>2, <1>10 DEF PublishLayout, Usual, Proceeds, Early, Starting
<1>11. CASE Fail(p) \/ Crash(p)
  BY <1>2, <1>11 DEF Fail, Crash, target, Usual
<1> QED BY <1>3, <1>4, <1>5, <1>6, <1>7, <1>8, <1>9, <1>10, <1>11

LEMMA BeginKeepsRecords ==
  ASSUME CutoverInv, RecordsInv, confirmed \in Versions, NEW p \in Procs, Begin(p)
  PROVE  RecordsInv' /\ Others(p) /\ pc'[p] = "capture"
<1> DEFINE k == calls + 1
           c == [NoCall EXCEPT !.n = k, !.saw = confirmed]
<1>1. /\ DOMAIN c = DOMAIN NoCall
      /\ c.map = NoCall.map /\ c.made = NoCall.made /\ c.receipt = NoCall.receipt
      /\ c.saw = confirmed
  <2> HIDE DEF k
  <2> QED BY DEF NoCall
<1>2. /\ pc' = [pc EXCEPT ![p] = "capture"] /\ call' = [call EXCEPT ![p] = c]
      /\ UNCHANGED <<layout, work, head, remote>>
  BY DEF Begin, target
<1> HIDE DEF c
<1>3. Knows(c) /\ c.map = Never /\ c.made = {} /\ c.receipt = 0
  BY <1>1 DEF Knows, NoCall, Never
<1>4. /\ Others(p) /\ pc'[p] = "capture" /\ call'[p] = c
  BY <1>2, <1>3 DEF Others, CutoverInv, Shape
<1>5. Evolves(NoId) /\ Cardinality(work) \in Nat /\ \A r \in work : r.id # 0
  BY <1>2, Unchanged, Counts DEF RecordsInv
<1>6. OwnClaims(p)
  BY <1>2, <1>3, <1>4, <1>5 DEF OwnClaims, Claimed, Never
<1> QED BY <1>2, <1>4, <1>5, <1>6, RecordsKept DEF Early, Starting

LEMMA PrepareKeeps ==
  ASSUME CutoverInv, RecordsInv, NEW p \in Procs, Prepare(p)
  PROVE  RecordsInv' /\ UNCHANGED remote /\ Onward(p)
<1>1. pc[p] = "prepare" /\ UNCHANGED remote
  BY DEF Prepare
<1>2. UNCHANGED <<work, head>>
  BY DEF Prepare, RecordsInv, Layered
<1>3. Onward(p)
  <2>1. Throw(p) \/ (Goto(p, "baseline") /\ UNCHANGED call)
    BY DEF Prepare
  <2>2. CASE Throw(p)
    BY <1>1, <2>2, UsualOnward DEF Usual
  <2>3. CASE Goto(p, "baseline") /\ UNCHANGED call
    BY <2>3 DEF Goto, Onward, Others, CutoverInv, Shape, RecordsInv, Knowing, Prepare, Starting
  <2> QED BY <2>1, <2>2, <2>3
<1>4. pc'[p] \notin Early => layout' # "none"
  BY DEF Prepare, Throw, End, Goto, Early, Starting, CutoverInv, Shape
<1>5. Evolves(NoId)
  BY <1>2, Unchanged DEF RecordsInv
<1>6. layout' = layout \/ layout' # "none"
  BY DEF Prepare
<1> QED BY <1>1, <1>2, <1>3, <1>4, <1>5, <1>6, RecordsKept

(* What Baseline reuses is so.                                              *)
LEMMA Reused ==
  ASSUME RecordsInv, NEW x \in Tasks \cup {Receipt}, Marked(work, x) # {}
  PROVE  /\ IdIn(Marked(work, x)) \in Nat /\ IdIn(Marked(work, x)) <= Cardinality(work)
         /\ \A r \in work : r.id = IdIn(Marked(work, x)) => r.of = x
<1>1. PICK r \in Marked(work, x) : IdIn(Marked(work, x)) = r.id
  BY DEF IdIn
<1>2. r \in work /\ r.of = x
  BY DEF Marked
<1> QED BY <1>1, <1>2, Counts DEF RecordsInv, Ids

LEMMA BaselineKeeps ==
  ASSUME CutoverInv, RecordsInv, NEW p \in Procs, Baseline(p)
  PROVE  RecordsInv' /\ Others(p) /\ (pc'[p] # "idle" => pc'[p] = "import")
<1> DEFINE base == {r \in work : Unmarked(r)}
           m == [t \in Tasks |-> IF Marked(work, t) = {} THEN 0 ELSE IdIn(Marked(work, t))]
           i == IF Marked(work, Receipt) = {} THEN 0 ELSE IdIn(Marked(work, Receipt))
           c == [call[p] EXCEPT !.base = base, !.map = m, !.receipt = i]
<1>1. /\ pc[p] = "baseline" /\ UNCHANGED <<layout, work, head, remote>>
      /\ Throw(p) \/ (Goto(p, "import") /\ Know(p, c))
  BY DEF Baseline, target
<1>2. CASE Throw(p)
  BY <1>1, <1>2, TargetKept, UsualOnward DEF Usual, Onward, Throw, End, Goto, CutoverInv, Shape
<1>3. CASE Goto(p, "import") /\ Know(p, c)
  <2>1. Knows(call[p]) /\ Claimed(p)
    BY <1>1 DEF RecordsInv, Knowing, Claims
  <2>2. Cardinality(work) \in Nat /\ \A r \in work : r.id # 0
    BY Counts DEF RecordsInv
  <2>3. /\ i \in Nat /\ i <= Cardinality(work)
        /\ \A r \in work : r.id = i => r.of = Receipt
    BY <2>2, Reused
  <2>4. /\ m \in [Tasks -> Nat]
        /\ \A t \in Tasks : m[t] <= Cardinality(work)
        /\ \A r \in work, t \in Tasks : r.id = m[t] => r.of = t
    BY <2>2, Reused
  <2> HIDE DEF m, i, base
  <2>5. /\ DOMAIN c = DOMAIN call[p] /\ c.map = m /\ c.receipt = i
        /\ c.made = call[p].made /\ c.saw = call[p].saw
    BY <2>1 DEF Knows
  <2> HIDE DEF c
  <2>6. Knows(c)
    BY <2>1, <2>3, <2>4, <2>5 DEF Knows
  <2>7. Others(p) /\ pc'[p] = "import" /\ call'[p] = c
    BY <1>3, <2>6 DEF Others, Starting, Goto, Know, CutoverInv, Shape
  <2>8. call[p].made = {}
    BY <1>1 DEF RecordsInv, Knowing, Starting
  <2>9. OwnClaims(p)
    BY <1>1, <2>3, <2>4, <2>5, <2>7, <2>8 DEF OwnClaims, Claimed
  <2> QED BY <1>1, <2>7, <2>9, Unchanged, WorkKept DEF RecordsInv, Early, Starting
<1> QED BY <1>1, <1>2, <1>3

LEMMA CreateKeeps ==
  ASSUME CutoverInv, RecordsInv, NEW p \in Procs, Create(p)
  PROVE  RecordsInv'
<1>1. /\ pc[p] = "import" /\ Goto(p, "mark") /\ UNCHANGED <<layout, head, remote>>
      /\ Knows(call[p]) /\ Claimed(p)
  BY DEF Create, RecordsInv, Knowing, Claims
<1>2. PICK t \in Tasks :
        /\ NewRecord(t)
        /\ Know(p, [call[p] EXCEPT !.map[t] = NextId, !.made = @ \cup {t}])
  BY DEF Create, Missing
<1>3. /\ Evolves(NoId) /\ Cardinality(work') = Cardinality(work) + 1
      /\ \A s \in work' : s.id = NextId => s.of = t /\ s.stage = "bare"
  BY <1>2, RecordAdded DEF RecordsInv
<1>4. NextId = Cardinality(work) + 1 /\ Cardinality(work) \in Nat
  BY Counts DEF NextId, RecordsInv
<1> DEFINE c == [call[p] EXCEPT !.map[t] = NextId, !.made = @ \cup {t}]
<1>5. /\ DOMAIN c = DOMAIN call[p]
      /\ c.map = [call[p].map EXCEPT ![t] = NextId] /\ c.made = call[p].made \cup {t}
      /\ c.receipt = call[p].receipt /\ c.saw = call[p].saw
  BY <1>1 DEF Knows
<1>6. Know(p, c)
  BY <1>2
<1> HIDE DEF c
<1>7. /\ c.map[t] = NextId
      /\ \A u \in Tasks : u # t => c.map[u] = call[p].map[u]
      /\ Knows(c)
  BY <1>1, <1>4, <1>5 DEF Knows
<1>8. /\ Others(p) /\ pc'[p] = "mark" /\ call'[p] = c
  BY <1>1, <1>6, <1>7 DEF Others, Starting, Goto, Know, CutoverInv, Shape
<1>9. /\ \A u \in Tasks : call[p].map[u] \in Nat /\ call[p].map[u] <= Cardinality(work)
      /\ call[p].receipt \in Nat /\ call[p].receipt <= Cardinality(work)
      /\ \A u \in Tasks : c.map[u] \in Nat /\ c.map[u] <= NextId
  BY <1>1, <1>4, <1>7 DEF Knows, Claimed
<1>10. \A s \in work' : s.id # NextId =>
         \E r \in work : r.id = s.id /\ r.of = s.of
  BY <1>3, <1>4, Counts DEF Evolves, Ids
<1>11. Claimed(p)'
  <2>1. \A s \in work' : s.id = c.receipt => s.of = Receipt
    BY <1>1, <1>4, <1>5, <1>9, <1>10 DEF Claimed
  <2>2. ASSUME NEW s \in work', NEW u \in Tasks, s.id = c.map[u]
        PROVE  s.of = u
    <3>1. CASE u = t
      BY <1>3, <1>7, <2>2, <3>1
    <3>2. CASE u # t
      BY <1>1, <1>4, <1>7, <1>9, <1>10, <2>2, <3>2 DEF Claimed
    <3> QED BY <3>1, <3>2
  <2>3. /\ \A u \in Tasks : c.map[u] <= Cardinality(work')
        /\ c.receipt <= Cardinality(work')
    BY <1>3, <1>4, <1>5, <1>9
  <2> QED BY <1>8, <2>1, <2>2, <2>3 DEF Claimed
<1>12. Newest(p, t)'
  BY <1>3, <1>5, <1>7, <1>8, <1>9 DEF Newest, Knows
<1>13. \A u \in c.made : u = t \/ (u # t /\ u \in call[p].made /\ c.map[u] = call[p].map[u])
  BY <1>1, <1>5, <1>7 DEF Knows
<1>14. OwnClaims(p)
  BY <1>1, <1>4, <1>7, <1>8, <1>11, <1>12, <1>13 DEF OwnClaims
<1> QED BY <1>1, <1>3, <1>8, <1>14, WorkKept DEF Early

LEMMA Rewritten ==
  ASSUME NEW r \in Record, NEW v \in Versions,
         NEW s \in {"bare", "marked", "pending", "placed", "done", "mixed"}
  PROVE  LET d == [r EXCEPT !.stage = s, !.rev = v]
         IN  d \in Record /\ d.id = r.id /\ d.of = r.of
<1> DEFINE d == [r EXCEPT !.stage = s, !.rev = v]
<1>1. DOMAIN d = DOMAIN r /\ d.id = r.id /\ d.of = r.of /\ d.rev = v /\ d.stage = s
  BY DEF Record
<1>2. d = [id |-> r.id, of |-> r.of, rev |-> v, stage |-> s]
  <2>1. d = [x \in DOMAIN r |-> d[x]]
    OBVIOUS
  <2>2. DOMAIN r = {"id", "of", "rev", "stage"}
    BY DEF Record
  <2> HIDE DEF d
  <2> QED BY <1>1, <2>1, <2>2
<1> HIDE DEF d
<1>3. d \in Record
  BY <1>2 DEF Record
<1> QED BY <1>1, <1>3 DEF d

LEMMA DescribedRecord ==
  ASSUME NEW r \in Record, NEW rev \in Versions, NEW s \in {"marked", "pending"}
  PROVE  /\ Described(rev, r, s) \in Record
         /\ Described(rev, r, s).id = r.id /\ Described(rev, r, s).of = r.of
<1>1. CASE r.stage = "bare"
  <2> DEFINE d == [r EXCEPT !.stage = s, !.rev = rev]
  <2>1. d \in Record /\ d.id = r.id /\ d.of = r.of
    <3>1. s \in {"bare", "marked", "pending", "placed", "done", "mixed"}
      OBVIOUS
    <3> QED BY <3>1, Rewritten
  <2>2. Described(rev, r, s) = d
    BY <1>1 DEF Described
  <2> HIDE DEF d
  <2> QED BY <2>1, <2>2
<1>2. CASE r.stage # "bare"
  BY <1>2 DEF Described, Record
<1> QED BY <1>1, <1>2

(* createBacklogTaskFromBeads marks the record it has just created.         *)
LEMMA MarkKeeps ==
  ASSUME CutoverInv, RecordsInv, NEW p \in Procs, Mark(p)
  PROVE  RecordsInv'
<1>1. pc[p] = "mark" /\ UNCHANGED <<layout, head, remote>> /\ Knows(call[p]) /\ Claimed(p)
  BY DEF Mark, RecordsInv, Knowing, Claims
<1>2. CASE Throw(p) /\ UNCHANGED work
  BY <1>1, <1>2, TargetKept DEF Usual
<1>3. CASE /\ work' = Changed(NewId(p), LAMBDA r : Described(call[p].saw, r, "marked"))
           /\ Goto(p, "import") /\ UNCHANGED call
  <2> DEFINE g == [r \in work |-> IF r.id = NewId(p) THEN Described(call[p].saw, r, "marked") ELSE r]
  <2>1. work' = {g[r] : r \in work}
    BY <1>3 DEF Changed
  <2>2. PICK t \in Tasks : Newest(p, t)
    BY <1>1 DEF RecordsInv, Fresh
  <2>3. NewId(p) = call[p].map[t]
    BY <1>1, <2>2, NewestId
  <2>4. \A r \in work : r.id = NewId(p) => r.stage = "bare"
    BY <2>2, <2>3 DEF Newest
  <2>5. g \in [work -> Record]
    <3>1. \A r \in work : g[r] \in Record
      BY <1>1, Counts, DescribedRecord DEF RecordsInv, Knows
    <3> QED BY <3>1
  <2>6. \A r \in work :
          /\ g[r].id = r.id /\ g[r].of = r.of
          /\ Complete(r) => g[r] = r
          /\ r.stage = "bare" /\ r.of # Receipt /\ r.id # NewId(p) => g[r].stage = "bare"
    <3> SUFFICES ASSUME NEW r \in work, r.id = NewId(p)
                 PROVE  g[r].id = r.id /\ g[r].of = r.of /\ ~Complete(r)
      OBVIOUS
    <3>1. r \in Record /\ r.stage = "bare"
      BY <2>4, Counts DEF RecordsInv
    <3> QED BY <1>1, <3>1, DescribedRecord DEF Knows, Complete
  <2> HIDE DEF g
  <2>7. Evolves(NewId(p))
    BY <2>1, <2>5, <2>6, RecordChanged DEF RecordsInv
  <2>8. Usual(p)
    BY <1>1, <1>3 DEF Usual, Proceeds, Early, Starting
  <2> QED BY <1>1, <2>7, <2>8, WorkKept DEF Early
<1> QED BY <1>1, <1>2, <1>3 DEF Mark

(* The receipt is no copy of a task.                                        *)
LEMMA ReserveReceiptKeeps ==
  ASSUME CutoverInv, RecordsInv, NEW p \in Procs, ReserveReceipt(p)
  PROVE  RecordsInv'
<1>1. /\ pc[p] = "import" /\ UNCHANGED <<layout, head, remote>>
      /\ Knows(call[p]) /\ Claimed(p)
  BY DEF ReserveReceipt, RecordsInv, Knowing, Claims
<1>2. CASE Goto(p, "place") /\ UNCHANGED <<work, call>>
  BY <1>1, <1>2, TargetKept DEF Usual, Proceeds, Early, Starting
<1>3. CASE /\ NewRecord(Receipt)
           /\ Goto(p, "pending") /\ Know(p, [call[p] EXCEPT !.receipt = NextId])
  <2>1. /\ Evolves(NoId) /\ Cardinality(work') = Cardinality(work) + 1
        /\ \A s \in work' : s.id = NextId => s.of = Receipt
    BY <1>3, RecordAdded DEF RecordsInv
  <2>2. NextId = Cardinality(work) + 1 /\ Cardinality(work) \in Nat
    BY Counts DEF NextId, RecordsInv
  <2> DEFINE c == [call[p] EXCEPT !.receipt = NextId]
  <2>3. /\ DOMAIN c = DOMAIN call[p] /\ c.map = call[p].map /\ c.made = call[p].made
        /\ c.receipt = NextId /\ c.saw = call[p].saw
    BY <1>1 DEF Knows
  <2>4. Know(p, c)
    BY <1>3
  <2> HIDE DEF c
  <2>5. Knows(c)
    BY <1>1, <2>2, <2>3 DEF Knows
  <2>6. Others(p) /\ pc'[p] = "pending" /\ call'[p] = c
    BY <1>3, <2>4, <2>5 DEF Others, Starting, Goto, Know, CutoverInv, Shape
  <2>7. \A t \in Tasks : call[p].map[t] \in Nat /\ call[p].map[t] <= Cardinality(work)
    BY <1>1 DEF Knows, Claimed
  <2>8. \A s \in work' : s.id # NextId => \E r \in work : r.id = s.id /\ r.of = s.of
    BY <2>1, <2>2, Counts DEF Evolves, Ids
  <2>9. \A s \in work', t \in Tasks : s.id = call[p].map[t] => s.of = t
    BY <1>1, <2>2, <2>7, <2>8 DEF Claimed
  <2>10. Claimed(p)'
    BY <2>1, <2>2, <2>3, <2>6, <2>7, <2>9 DEF Claimed
  <2>11. OwnClaims(p)
    BY <1>1, <2>3, <2>6, <2>10 DEF OwnClaims
  <2> QED BY <1>1, <2>1, <2>6, <2>11, WorkKept DEF Early
<1> QED BY <1>2, <1>3 DEF ReserveReceipt

(* A change of the receipt record, or of a record that is no longer bare.   *)
LEMMA PlainChange ==
  ASSUME CutoverInv, RecordsInv, NEW p \in Procs, pc[p] \notin Early, Usual(p),
         UNCHANGED <<layout, head, remote>>,
         NEW g \in [work -> Record], work' = {g[r] : r \in work},
         \A r \in work :
           /\ g[r].id = r.id /\ g[r].of = r.of
           /\ g[r] = r \/ r.of = Receipt \/ (~Complete(r) /\ r.stage # "bare")
  PROVE  RecordsInv'
<1>1. \A r \in work :
        /\ Complete(r) => g[r] = r
        /\ r.stage = "bare" /\ r.of # Receipt /\ r.id # NoId => g[r].stage = "bare"
  BY MigrationAssumption DEF Complete
<1>2. Evolves(NoId)
  BY <1>1, RecordChanged DEF RecordsInv
<1> QED BY <1>2, WorkKept

LEMMA MarkReceiptKeeps ==
  ASSUME CutoverInv, RecordsInv, NEW p \in Procs, MarkReceipt(p)
  PROVE  RecordsInv'
<1>1. pc[p] = "pending" /\ UNCHANGED <<layout, head, remote>> /\ Knows(call[p]) /\ Claimed(p)
  BY DEF MarkReceipt, RecordsInv, Knowing, Claims
<1>2. CASE Throw(p) /\ UNCHANGED work
  BY <1>1, <1>2, TargetKept DEF Usual
<1>3. CASE /\ work' = Changed(call[p].receipt, LAMBDA r : Described(call[p].saw, r, "pending"))
           /\ Goto(p, "place") /\ UNCHANGED call
  <2> DEFINE g == [r \in work |-> IF r.id = call[p].receipt
                                 THEN Described(call[p].saw, r, "pending") ELSE r]
  <2>1. work' = {g[r] : r \in work}
    BY <1>3 DEF Changed
  <2>2. \A r \in work : g[r] \in Record /\ g[r].id = r.id /\ g[r].of = r.of
    BY <1>1, Counts, DescribedRecord DEF RecordsInv, Knows
  <2>3. \A r \in work : g[r] = r \/ r.of = Receipt
    BY <1>1 DEF Claimed
  <2>4. g \in [work -> Record]
    BY <2>2
  <2> HIDE DEF g
  <2>5. Usual(p)
    BY <1>1, <1>3 DEF Usual, Proceeds, Early, Starting
  <2> QED BY <1>1, <2>1, <2>2, <2>3, <2>4, <2>5, PlainChange DEF Early
<1> QED BY <1>1, <1>2, <1>3 DEF MarkReceipt

LEMMA WriteReceiptKeeps ==
  ASSUME CutoverInv, RecordsInv, NEW p \in Procs, WriteReceipt(p)
  PROVE  RecordsInv'
<1>1. pc[p] = "receipt" /\ UNCHANGED <<layout, head, remote>> /\ Knows(call[p]) /\ Claimed(p)
  BY DEF WriteReceipt, RecordsInv, Knowing, Claims
<1>2. CASE Throw(p) /\ UNCHANGED work
  BY <1>1, <1>2, TargetKept DEF Usual
<1>3. CASE /\ work' = Changed(call[p].receipt, LAMBDA r : [r EXCEPT !.stage = "done", !.rev = call[p].saw])
           /\ Goto(p, "recommit") /\ UNCHANGED call
  <2> DEFINE g == [r \in work |-> IF r.id = call[p].receipt
                                 THEN [r EXCEPT !.stage = "done", !.rev = call[p].saw] ELSE r]
  <2>1. work' = {g[r] : r \in work}
    BY <1>3 DEF Changed
  <2>2. \A r \in work : g[r] \in Record /\ g[r].id = r.id /\ g[r].of = r.of
    <3> TAKE r \in work
    <3> DEFINE d == [r EXCEPT !.stage = "done", !.rev = call[p].saw]
    <3>1. r \in Record
      BY Counts DEF RecordsInv
    <3>2. d \in Record /\ d.id = r.id /\ d.of = r.of
      BY <1>1, <3>1, Rewritten DEF Knows
    <3>3. g[r] = d \/ g[r] = r
      OBVIOUS
    <3> HIDE DEF g, d
    <3> QED BY <3>1, <3>2, <3>3
  <2>3. \A r \in work : g[r] = r \/ r.of = Receipt
    BY <1>1 DEF Claimed
  <2>4. g \in [work -> Record]
    BY <2>2
  <2> HIDE DEF g
  <2>5. Usual(p)
    BY <1>1, <1>3 DEF Usual, Proceeds, Early, Starting
  <2> QED BY <1>1, <2>1, <2>2, <2>3, <2>4, <2>5, PlainChange DEF Early
<1> QED BY <1>1, <1>2, <1>3 DEF WriteReceipt

LEMMA PlaceKeeps ==
  ASSUME CutoverInv, RecordsInv, NEW p \in Procs, Place(p)
  PROVE  RecordsInv'
<1>1. pc[p] = "place" /\ UNCHANGED <<layout, head, remote>> /\ Knows(call[p])
  BY DEF Place, RecordsInv, Knowing
<1>2. CASE Throw(p) /\ UNCHANGED work
  BY <1>1, <1>2, TargetKept DEF Usual
<1>3. ASSUME NEW t \in call[p].made,
             /\ work' = Changed(call[p].map[t], InPlace)
             /\ Know(p, [call[p] EXCEPT !.made = @ \ {t}]) /\ UNCHANGED pc
      PROVE  RecordsInv'
  <2> DEFINE g == [r \in work |-> IF r.id = call[p].map[t] THEN InPlace(r) ELSE r]
             c == [call[p] EXCEPT !.made = @ \ {t}]
  <2>1. work' = {g[r] : r \in work}
    BY <1>3 DEF Changed
  <2>2. \A r \in work : g[r] \in Record /\ g[r].id = r.id /\ g[r].of = r.of
    BY Counts DEF RecordsInv, InPlace, Record
  <2>3. \A r \in work : g[r] = r \/ r.stage = "marked"
    BY DEF InPlace
  <2>4. g \in [work -> Record]
    BY <2>2
  <2>5. /\ DOMAIN c = DOMAIN call[p] /\ c.map = call[p].map /\ c.receipt = call[p].receipt
        /\ c.made \subseteq call[p].made /\ c.saw = call[p].saw
    BY <1>1 DEF Knows
  <2>6. Know(p, c) /\ UNCHANGED pc
    BY <1>3
  <2> HIDE DEF g, c
  <2>7. Usual(p)
    BY <1>1, <2>5, <2>6 DEF Usual, Proceeds, Recalls, Knows
  <2>8. \A r \in work : g[r] = r \/ (~Complete(r) /\ r.stage # "bare")
    BY <2>3 DEF Complete
  <2> QED BY <1>1, <2>1, <2>2, <2>4, <2>7, <2>8, PlainChange DEF Early
<1> QED BY <1>1, <1>2, <1>3 DEF Place

(* A commit or a push: only complete copies are added to HEAD or remote.    *)
LEMMA PublicationKeeps ==
  ASSUME CutoverInv, RecordsInv, NEW p \in Procs, pc[p] \notin Early, Usual(p),
         UNCHANGED <<layout, work>>,
         \/ head' \in {head, work} /\ UNCHANGED remote
         \/ remote' = head /\ UNCHANGED head
  PROVE  RecordsInv'
<1>1. Evolves(NoId)
  BY Unchanged DEF RecordsInv
<1>2. Onward(p)
  BY UsualOnward DEF Early
<1>3. Knowing' /\ Claims' /\ Apart' /\ Fresh'
  BY <1>1, <1>2, OnwardOwn, ClaimsKept DEF Onward
<1>4. Ids(work)' /\ Ids(head)' /\ Ids(remote)'
  BY DEF RecordsInv, Ids
<1>5. layout # "none"
  BY DEF RecordsInv, Layered
<1>6. Layered'
  BY <1>5 DEF RecordsInv, Layered, Complete
<1> QED BY <1>3, <1>4, <1>6 DEF RecordsInv

LEMMA CommitKeeps ==
  ASSUME CutoverInv, RecordsInv, NEW p \in Procs, Commit(p)
  PROVE  RecordsInv' /\ Usual(p) /\ pc[p] # "idle"
<1>1. /\ pc[p] \in {"place", "recommit"} /\ UNCHANGED <<layout, work, remote>> /\ Knows(call[p])
      /\ head' \in {head, work}
  BY DEF Commit, RecordsInv, Knowing
<1>2. Usual(p)
  <2>1. CASE Throw(p)
    BY <2>1 DEF Usual
  <2>2. CASE ~Throw(p)
    <3> DEFINE c == [call[p] EXCEPT !.head = work]
    <3>1. /\ DOMAIN c = DOMAIN call[p] /\ c.map = call[p].map /\ c.receipt = call[p].receipt
          /\ c.made = call[p].made /\ c.saw = call[p].saw
      BY <1>1 DEF Knows
    <3>2. Know(p, c) /\ (Goto(p, "push") \/ Goto(p, "repush"))
      BY <2>2 DEF Commit
    <3> HIDE DEF c
    <3> QED BY <1>1, <3>1, <3>2 DEF Usual, Proceeds, Recalls, Knows, Early, Starting
  <2> QED BY <2>1, <2>2
<1> QED BY <1>1, <1>2, PublicationKeeps DEF Early

LEMMA PushKeeps ==
  ASSUME CutoverInv, RecordsInv, NEW p \in Procs, Push(p)
  PROVE  RecordsInv' /\ Usual(p) /\ pc[p] # "idle"
<1>1. pc[p] \in {"push", "repush"} /\ UNCHANGED <<layout, work, head>> /\ remote' = head
  BY DEF Push
<1>2. Usual(p)
  BY <1>1 DEF Push, Usual, Proceeds, Early, Starting
<1> QED BY <1>1, <1>2, PublicationKeeps DEF Early

(* The operator, while no invocation runs.                                  *)
LEMMA OperatorKeeps ==
  ASSUME RecordsInv, Discard \/ PublishWork
  PROVE  RecordsInv'
<1>1. /\ \A p \in Procs : pc[p] = "idle"
      /\ UNCHANGED <<layout, pc, call>>
      /\ \/ work' = remote /\ head' = remote /\ UNCHANGED remote
         \/ UNCHANGED work /\ head' = work /\ remote' = work
  BY DEF Discard, PublishWork, Quiet
<1>2. Knowing' /\ Claims' /\ Apart' /\ Fresh'
  BY <1>1 DEF RecordsInv, Knowing, Claims, Apart, Fresh
<1>3. Ids(work)' /\ Ids(head)' /\ Ids(remote)'
  BY <1>1 DEF RecordsInv, Ids
<1>4. Layered'
  BY <1>1 DEF RecordsInv, Layered, Complete, Early
<1> QED BY <1>2, <1>3, <1>4 DEF RecordsInv

LEMMA RecordsSame ==
  ASSUME RecordsInv, UNCHANGED <<target, pc, call>>
  PROVE  RecordsInv'
<1>1. Ids(work)' /\ Ids(head)' /\ Ids(remote)'
  BY DEF RecordsInv, Ids, target
<1>2. Knowing' /\ Claims' /\ Apart'
  BY DEF RecordsInv, Knowing, Claims, Claimed, Apart, target
<1>3. Fresh'
  BY DEF RecordsInv, Fresh, Newest, target
<1>4. Layered'
  BY DEF RecordsInv, Layered, Complete, target
<1> QED BY <1>1, <1>2, <1>3, <1>4 DEF RecordsInv

LEMMA RecordsInit == Init => RecordsInv
<1> SUFFICES ASSUME Init PROVE RecordsInv
  OBVIOUS
<1>1. /\ \A p \in Procs : pc[p] = "idle" /\ call[p] = NoCall
      /\ head = remote /\ work = remote
      /\ layout = "none" => remote = {}
      /\ remote = {} \/ remote = {[id |-> 1, of |-> Original, rev |-> Never, stage |-> "placed"]}
  BY DEF Init
<1>2. Ids(remote)
  <2>1. Ids({})
    BY FS_EmptySet DEF Ids
  <2> DEFINE r == [id |-> 1, of |-> Original, rev |-> Never, stage |-> "placed"]
  <2>2. r \in Record /\ r.id = 1
    BY DEF Record, Never, Versions
  <2> HIDE DEF r
  <2>3. Ids({r})
    <3>1. IsFiniteSet({r}) /\ Cardinality({r}) = 1
      BY FS_Singleton
    <3> QED BY <2>2, <3>1 DEF Ids
  <2> QED BY <1>1, <2>1, <2>3 DEF r
<1>3. Knows(NoCall) /\ NoCall.made = {}
  BY DEF Knows, NoCall, Never, Versions
<1>4. Knowing /\ Claims /\ Apart /\ Fresh
  BY <1>1, <1>3 DEF Knowing, Claims, Apart, Fresh
<1>5. Layered
  BY <1>1 DEF Layered, Early
<1> QED BY <1>1, <1>2, <1>4, <1>5 DEF RecordsInv

LEMMA ProcessRecords ==
  ASSUME CutoverInv, RecordsInv, confirmed \in Versions, NEW p \in Procs, Process(p)
  PROVE  RecordsInv'
BY BeginKeepsRecords, ReadsKeep, PrepareKeeps, BaselineKeeps, CreateKeeps, MarkKeeps,
   ReserveReceiptKeeps, MarkReceiptKeeps, PlaceKeeps, CommitKeeps, PushKeeps, WriteReceiptKeeps
   DEF Process

LEMMA RecordsStep ==
  ASSUME CutoverInv, RecordsInv, confirmed \in Versions, [Next]_vars
  PROVE  RecordsInv'
<1>1. ASSUME NEW p \in Procs, Process(p) PROVE RecordsInv'
  BY <1>1, ProcessRecords
<1>2. CASE Discard \/ PublishWork
  BY <1>2, OperatorKeeps
<1>3. CASE Inspect \/ \E t \in Tasks : Edit(t)
  BY <1>3, RecordsSame DEF Inspect, Edit
<1>4. ASSUME NEW c \in Owners, Detect(c) \/ Admit(c) \/ Reserve(c) \/ Activate(c) \/ Close(c)
      PROVE  RecordsInv'
  BY <1>4, RecordsSame DEF Detect, Admit, Reserve, Activate, Close
<1>5. CASE UNCHANGED vars
  BY <1>5, RecordsSame DEF vars
<1> QED BY <1>1, <1>2, <1>3, <1>4, <1>5 DEF Next, Process

-----------------------------------------------------------------------------
(* What is published, the source, and the registry.                         *)
Entries(f) == f \in [Owners -> Entry \cup {NoOwner}]

StateOK ==
  /\ store \in {"whole", "part", "gone"} /\ task \in Versions /\ unseen \subseteq Tasks
  /\ layout \in {"none", "pending", "committed"}
  /\ Entries(owner) /\ lock \in BOOLEAN
  /\ creating \in [Owners -> {"no", "edit", "reserve"}]
  /\ confirmed \in Versions
  /\ edits \in 0..MaxEdits /\ calls \in 0..MaxCalls /\ trouble \in 0..MaxTrouble

(* What a switch may be taken back to is well formed too.                   *)
Befores == \A p \in Procs : pc[p] \in Bound => Entries(call[p].before)

(* The source is being removed, or a part of it is.                         *)
Removing == store # "whole" \/ \E p \in Procs : pc[p] = "delete"

HasCopy(t) == \E r \in remote : Complete(r) /\ r.of = t /\ (t \notin unseen => r.rev[t] = task[t])

Saved == Removing => \A t \in Tasks : HasCopy(t)

(* From the refresh before the switch to the switch itself, the remote has  *)
(* the copies the entries are going to name.                                *)
CopyAt(t, i) == \E r \in remote : Complete(r) /\ r.of = t /\ r.id = i

Ready(p) == pc[p] \in {"source", "switch"} => \A t \in Tasks : CopyAt(t, call[p].map[t])

Published == \A p \in Procs : Ready(p)

Followed(c) == Live(c) /\ owner[c].provider = "backlog" => CopyAt(owner[c].task, owner[c].copy)

Following == \A c \in Owners : Followed(c)

CopiesInv == StateOK /\ Befores /\ Saved /\ Published /\ Following

RemoteGrows == \A r \in remote : Complete(r) => r \in remote'

LEMMA CopyStays ==
  ASSUME RemoteGrows, NEW t, NEW i, CopyAt(t, i)
  PROVE  CopyAt(t, i)'
BY DEF RemoteGrows, CopyAt, Complete

(* Nothing is ever taken out of the published history.                      *)
LEMMA Grows ==
  ASSUME RecordsInv, [Next]_vars
  PROVE  RemoteGrows
<1>1. CASE UNCHANGED remote
  BY <1>1 DEF RemoteGrows
<1>2. CASE remote' \in {head, work}
  BY <1>2 DEF RemoteGrows, RecordsInv, Layered
<1>3. ASSUME NEW p \in Procs, Process(p)
      PROVE  UNCHANGED remote \/ remote' = head
  BY <1>3 DEF Process, Begin, Capture, ReadRows, Prepare, Baseline, Create, Mark,
     ReserveReceipt, MarkReceipt, Place, Commit, Push, Verify, WriteReceipt, CheckTarget,
     CheckSource, Switch, Guard, Delete, Recover, Restore, Select, PublishLayout, Finish, Fail,
     Crash, target
<1>4. UNCHANGED remote \/ remote' \in {head, work}
  <2>1. ASSUME NEW p \in Procs, Process(p)
        PROVE  UNCHANGED remote \/ remote' \in {head, work}
    BY <1>3, <2>1
  <2>2. CASE Inspect \/ Discard \/ PublishWork \/ UNCHANGED vars
    BY <2>2 DEF Inspect, Discard, PublishWork, vars, target
  <2>3. ASSUME NEW t \in Tasks, Edit(t) PROVE UNCHANGED remote
    BY <2>3 DEF Edit, target
  <2>4. ASSUME NEW c \in Owners, Detect(c) \/ Admit(c) \/ Reserve(c) \/ Activate(c) \/ Close(c)
        PROVE  UNCHANGED remote
    BY <2>4 DEF Detect, Admit, Reserve, Activate, Close, target
  <2> QED BY <2>1, <2>2, <2>3, <2>4 DEF Next, Process
<1> QED BY <1>1, <1>2, <1>4

(* Only the two checks before the switch lead to it.                        *)
Away(p) == pc'[p] \notin {"source", "switch"}

LEMMA Elsewhere ==
  ASSUME CutoverInv, NEW p \in Procs, Process(p), ~CheckTarget(p), ~CheckSource(p)
  PROVE  Away(p)
<1>1. DOMAIN pc = Procs
  BY DEF CutoverInv, Shape
<1>2. ASSUME NEW l, l \notin {"source", "switch"}, Goto(p, l) PROVE Away(p)
  BY <1>1, <1>2 DEF Goto, Away
<1>3. ASSUME NEW r, End(p, r) PROVE Away(p)
  BY <1>2, <1>3 DEF End
<1>4. Throw(p) => Away(p)
  BY <1>2, <1>3 DEF Throw
<1>5. CASE Begin(p)
  BY <1>1, <1>5 DEF Begin, Away
<1>6. CASE Capture(p) \/ ReadRows(p) \/ Prepare(p)
  BY <1>2, <1>3, <1>4, <1>6 DEF Capture, ReadRows, Prepare
<1>7. CASE Baseline(p)
  BY <1>2, <1>4, <1>7 DEF Baseline
<1>8. CASE Create(p) \/ Mark(p) \/ ReserveReceipt(p) \/ MarkReceipt(p)
  BY <1>2, <1>4, <1>8 DEF Create, Mark, ReserveReceipt, MarkReceipt
<1>9. CASE Place(p)
  BY <1>4, <1>9 DEF Place, Away
<1>10. CASE Commit(p)
  BY <1>2, <1>4, <1>10 DEF Commit
<1>11. CASE Push(p)
  BY <1>2, <1>4, <1>11 DEF Push
<1>12. CASE Verify(p) \/ WriteReceipt(p)
  BY <1>2, <1>4, <1>12 DEF Verify, WriteReceipt
<1>13. CASE Switch(p) \/ Guard(p)
  BY <1>2, <1>4, <1>13 DEF Switch, Guard
<1>14. CASE Delete(p)
  BY <1>2, <1>4, <1>14 DEF Delete, Away
<1>15. CASE Recover(p) \/ Restore(p) \/ Select(p) \/ PublishLayout(p) \/ Finish(p)
  BY <1>2, <1>3, <1>4, <1>15 DEF Recover, Restore, Select, PublishLayout, Finish
<1>16. CASE Fail(p) \/ Crash(p)
  BY <1>3, <1>4, <1>16 DEF Fail, Crash
<1> QED
  BY <1>5, <1>6, <1>7, <1>8, <1>9, <1>10, <1>11, <1>12, <1>13, <1>14, <1>15, <1>16 DEF Process

LEMMA SavedKept ==
  ASSUME Saved, RemoteGrows, Removing' => Removing,
         \A t \in Tasks : t \notin unseen' => t \notin unseen /\ task'[t] = task[t]
  PROVE  Saved'
<1>1. ASSUME NEW t \in Tasks, HasCopy(t) PROVE HasCopy(t)'
  BY <1>1 DEF HasCopy, RemoteGrows, Complete
<1> QED BY <1>1 DEF Saved

LEMMA FollowingKept ==
  ASSUME Following, RemoteGrows, StateOK,
         \A c \in Owners : owner'[c] # NoOwner =>
           \/ owner'[c].provider = "beads"
           \/ /\ Live(c) /\ owner[c].provider = "backlog"
              /\ owner'[c].task = owner[c].task /\ owner'[c].copy = owner[c].copy
  PROVE  Following'
<1> SUFFICES ASSUME NEW c \in Owners, owner'[c] # NoOwner, owner'[c].provider = "backlog"
             PROVE  CopyAt(owner[c].task, owner[c].copy)'
  BY DEF Following, Followed, Live, CopyAt
<1>1. CopyAt(owner[c].task, owner[c].copy)
  BY DEF Following, Followed
<1>2. owner'[c].task = owner[c].task /\ owner'[c].copy = owner[c].copy
  OBVIOUS
<1> QED BY <1>1, <1>2 DEF CopyAt, RemoteGrows, Complete

LEMMA FollowingSame ==
  ASSUME Following, RemoteGrows, StateOK, UNCHANGED owner
  PROVE  Following'
<1>1. \A c \in Owners : Live(c) => owner[c] \in Entry
  BY DEF StateOK, Entries, Live
<1>2. \A c \in Owners : Live(c) => owner[c].provider \in {"beads", "backlog"}
  BY <1>1 DEF Entry
<1> QED BY <1>2, FollowingKept DEF Live

(* The claims of the others are as they were.                               *)
LEMMA ReadyKept ==
  ASSUME RemoteGrows, NEW q \in Procs, Ready(q),
         pc'[q] \in {"source", "switch"} =>
           pc[q] \in {"source", "switch"} /\ call'[q].map = call[q].map
  PROVE  Ready(q)'
BY DEF Ready, RemoteGrows, CopyAt, Complete

LEMMA PlainCopies ==
  ASSUME CutoverInv, CopiesInv, RemoteGrows, NEW p \in Procs, Plain(p),
         UNCHANGED <<task, unseen>>, UNCHANGED store \/ pc[p] = "delete",
         Away(p) \/ Ready(p)'
  PROVE  Befores' /\ Saved' /\ Published' /\ Following'
<1>1. Befores'
  BY DEF CopiesInv, Befores, Plain, Kept, Entries, Bound
<1>2. Removing' => Removing
  BY DEF Removing, Plain, Kept
<1>3. Saved'
  BY <1>2, SavedKept DEF CopiesInv
<1>4. Following'
  BY FollowingSame DEF CopiesInv, Plain
<1>5. Published'
  <2> SUFFICES ASSUME NEW q \in Procs PROVE Ready(q)'
    BY DEF Published
  <2>1. CASE q = p
    BY <2>1 DEF Away, Ready
  <2>2. CASE q # p
    BY <2>2, ReadyKept DEF CopiesInv, Published, Plain, Kept
  <2> QED BY <2>1, <2>2
<1> QED BY <1>1, <1>3, <1>4, <1>5

(* The refresh before the switch.                                           *)
LEMMA TargetReady ==
  ASSUME NEW p \in Procs, Refreshed(p)
  PROVE  \A t \in Tasks :
           \E r \in remote : Complete(r) /\ r.of = t /\ r.id = call[p].map[t] /\ r.rev = call[p].saw
BY DEF Refreshed, TargetSame, Imported, CopyOf, Placed, Marked, Complete

LEMMA ChecksReady ==
  ASSUME CutoverInv, CopiesInv, NEW p \in Procs, CheckTarget(p) \/ CheckSource(p)
  PROVE  Away(p) \/ Ready(p)'
<1>1. DOMAIN pc = Procs /\ UNCHANGED remote
  BY DEF CutoverInv, Shape, CheckTarget, CheckSource, target
<1>2. ASSUME NEW l, l \notin {"source", "switch"}, Goto(p, l) PROVE Away(p)
  BY <1>1, <1>2 DEF Goto, Away
<1>3. Throw(p) => Away(p)
  BY <1>2 DEF Throw, End
<1>4. CASE CheckTarget(p) /\ ~Throw(p)
  <2>1. Refreshed(p) /\ UNCHANGED call
    BY <1>4 DEF CheckTarget
  <2>2. \A t \in Tasks : CopyAt(t, call[p].map[t])
    BY <2>1, TargetReady DEF CopyAt
  <2> QED BY <1>1, <2>1, <2>2 DEF Ready, CopyAt
<1>5. CASE CheckSource(p) /\ ~Throw(p)
  <2>1. pc[p] = "source" /\ UNCHANGED call
    BY <1>5 DEF CheckSource
  <2>2. \A t \in Tasks : CopyAt(t, call[p].map[t])
    BY <2>1 DEF CopiesInv, Published, Ready
  <2> QED BY <1>1, <2>1, <2>2 DEF Ready, CopyAt
<1> QED BY <1>3, <1>4, <1>5

LEMMA SwitchCopies ==
  ASSUME CutoverInv, RecordsInv, CopiesInv, NEW p \in Procs, Switch(p)
  PROVE  Entries(owner)' /\ Befores' /\ Saved' /\ Published' /\ Following'
<1>1. /\ pc[p] = "switch" /\ UNCHANGED <<store, task, unseen, remote>> /\ RemoteGrows
      /\ Entries(owner) /\ Away(p)
  BY Elsewhere DEF Switch, source, target, RemoteGrows, CopiesInv, StateOK, Process, CheckTarget,
     CheckSource
<1>2. CASE Throw(p) /\ UNCHANGED owner
  <2>1. Plain(p)
    BY <1>1, <1>2, ThrownPlain DEF Switch, target, counts
  <2> QED BY <1>1, <1>2, <2>1, PlainCopies
<1>3. CASE /\ owner' = Rebound(p) /\ Goto(p, "guard")
           /\ Know(p, [call[p] EXCEPT !.before = owner, !.after = Rebound(p)])
  <2>1. /\ \A q \in Procs : q # p => pc'[q] = pc[q] /\ call'[q] = call[q]
        /\ pc'[p] = "guard" /\ call'[p].before = owner
    BY <1>3 DEF Goto, Know, CutoverInv, Shape
  <2>2. \A t \in Tasks : CopyAt(t, call[p].map[t]) /\ call[p].map[t] \in Nat
    BY <1>1 DEF CopiesInv, Published, Ready, RecordsInv, Knowing, Knows
  <2>3. call[p].n \in Nat
    BY <1>1 DEF CutoverInv, Numbered, Shape
  <2>4. ASSUME NEW c \in Owners, owner'[c] # NoOwner
        PROVE  /\ owner'[c] \in Entry /\ owner'[c].task = owner[c].task /\ owner[c].task \in Tasks
               /\ owner'[c].copy = call[p].map[owner[c].task]
    <3>1. Live(c) /\ owner[c] \in Entry
      BY <1>1, <1>3, <2>4 DEF Rebound, Entries, Live
    <3> DEFINE m == call[p].map[owner[c].task]
               n == call[p].n
               e == [owner[c] EXCEPT !.provider = "backlog", !.by = n, !.copy = m]
    <3>2. owner'[c] = e
      BY <1>3, <3>1 DEF Rebound
    <3>3. m \in Nat /\ owner[c].task \in Tasks
      BY <2>2, <3>1 DEF Entry
    <3> HIDE DEF m, n
    <3>4. /\ DOMAIN e = {"task", "provider", "status", "copy", "by"}
          /\ e.task = owner[c].task /\ e.status = owner[c].status
          /\ e.provider = "backlog" /\ e.by = n /\ e.copy = m
      BY <3>1 DEF Entry
    <3>5. e = [x \in DOMAIN e |-> e[x]]
      OBVIOUS
    <3> HIDE DEF e
    <3>6. e = [task |-> owner[c].task, provider |-> "backlog", status |-> owner[c].status,
               copy |-> m, by |-> n]
      BY <3>4, <3>5
    <3>7. n \in Nat
      BY <2>3 DEF n
    <3>8. e \in Entry
      BY <3>1, <3>3, <3>6, <3>7 DEF Entry
    <3> QED BY <3>2, <3>3, <3>4, <3>8 DEF m
  <2>5. Entries(owner)'
    <3>1. owner' = [c \in Owners |-> owner'[c]]
      BY <1>3 DEF Rebound
    <3> QED BY <2>4, <3>1 DEF Entries
  <2>6. Befores'
    BY <1>1, <2>1 DEF CopiesInv, Befores, Entries
  <2>7. Saved'
    <3>1. Removing' => Removing
      BY <1>1, <2>1 DEF Removing
    <3> QED BY <1>1, <3>1, SavedKept DEF CopiesInv
  <2>8. Published'
    BY <1>1, <2>1, ReadyKept DEF CopiesInv, Published, Away
  <2>9. Following'
    <3> SUFFICES ASSUME NEW c \in Owners, owner'[c] # NoOwner
                 PROVE  CopyAt(owner[c].task, owner[c].copy)'
      BY DEF Following, Followed, Live
    <3>1. /\ owner'[c].task = owner[c].task /\ owner[c].task \in Tasks
          /\ owner'[c].copy = call[p].map[owner[c].task]
      BY <2>4
    <3> QED BY <1>1, <2>2, <3>1 DEF CopyAt
  <2> QED BY <2>5, <2>6, <2>7, <2>8, <2>9
<1> QED BY <1>2, <1>3 DEF Switch

(* The last look finds the source as it was confirmed, and its copies.      *)
LEMMA GuardCopies ==
  ASSUME CutoverInv, RecordsInv, CopiesInv, NEW p \in Procs, Guard(p)
  PROVE  Befores' /\ Saved' /\ Published' /\ Following'
<1>1. /\ pc[p] = "guard" /\ UNCHANGED <<store, task, owner, remote>> /\ RemoteGrows
      /\ Away(p)
  BY Elsewhere DEF Guard, target, RemoteGrows, Process, CheckTarget, CheckSource
<1>2. CASE Throw(p) /\ UNCHANGED <<lock, unseen>>
  <2>1. Plain(p)
    BY <1>1, <1>2, ThrownPlain DEF Guard, target, counts
  <2> QED BY <1>1, <1>2, <2>1, PlainCopies
<1>3. CASE /\ ~lock /\ Guarded(p) /\ unseen' = {}
           /\ Goto(p, "delete") /\ UNCHANGED call
  <2>1. /\ \A q \in Procs : q # p => pc'[q] = pc[q]
        /\ pc'[p] = "delete" /\ UNCHANGED call
    BY <1>3 DEF Goto, CutoverInv, Shape
  <2>2. Refreshed(p) /\ task = call[p].saw
    BY <1>3 DEF Guarded, SourceSame
  <2>3. Saved'
    <3> SUFFICES ASSUME NEW t \in Tasks PROVE HasCopy(t)'
      BY DEF Saved
    <3>1. \E r \in remote : Complete(r) /\ r.of = t /\ r.rev = task
      BY <2>2, TargetReady
    <3> QED BY <1>1, <3>1 DEF HasCopy, Complete
  <2>4. Befores'
    BY <1>1, <2>1 DEF CopiesInv, Befores, Bound, Entries
  <2>5. Published'
    BY <1>1, <2>1, ReadyKept DEF CopiesInv, Published, Away
  <2>6. Following'
    BY <1>1, FollowingSame DEF CopiesInv
  <2> QED BY <2>3, <2>4, <2>5, <2>6
<1> QED BY <1>2, <1>3 DEF Guard

(* What is restored are entries of the source.                              *)
LEMMA RestoreCopies ==
  ASSUME CutoverInv, RecordsInv, CopiesInv, NEW p \in Procs, Restore(p)
  PROVE  Entries(owner)' /\ Befores' /\ Saved' /\ Published' /\ Following'
<1>1. /\ pc[p] = "restore" /\ UNCHANGED <<store, task, unseen, remote>> /\ RemoteGrows
      /\ Entries(owner) /\ Away(p)
  BY Elsewhere DEF Restore, source, target, RemoteGrows, CopiesInv, StateOK, Process, CheckTarget,
     CheckSource
<1>2. CASE Throw(p) /\ UNCHANGED owner
  <2>1. Plain(p)
    BY <1>1, <1>2, ThrownPlain DEF Restore, target, counts
  <2> QED BY <1>1, <1>2, <2>1, PlainCopies
<1>3. CASE owner' = call[p].before /\ End(p, "pre-cutover-failed")
  <2>1. /\ \A q \in Procs : q # p => pc'[q] = pc[q] /\ call'[q] = call[q]
        /\ pc'[p] = "idle"
    BY <1>3 DEF End, Goto, Know, CutoverInv, Shape
  <2>2. Entries(owner') /\ OnSource(owner')
    BY <1>1, <1>3 DEF CopiesInv, Befores, Bound, CutoverInv, Remembered
  <2>3. Entries(owner)'
    BY <2>2 DEF Entries
  <2>4. Following'
    BY <1>1, <2>2, FollowingKept DEF OnSource, CopiesInv
  <2>5. Befores'
    BY <2>1 DEF CopiesInv, Befores, Bound, Entries
  <2>6. Saved'
    <3>1. Removing' => Removing
      BY <1>1, <2>1 DEF Removing
    <3> QED BY <1>1, <3>1, SavedKept DEF CopiesInv
  <2>7. Published'
    BY <1>1, <2>1, ReadyKept DEF CopiesInv, Published, Away
  <2> QED BY <2>3, <2>4, <2>5, <2>6, <2>7
<1> QED BY <1>2, <1>3 DEF Restore

LEMMA BeginCopies ==
  ASSUME CutoverInv, RecordsInv, CopiesInv, NEW p \in Procs, Begin(p)
  PROVE  Befores' /\ Saved' /\ Published' /\ Following'
<1>1. /\ pc'[p] = "capture" /\ UNCHANGED <<store, task, unseen, owner, remote>>
      /\ \A q \in Procs : q # p => pc'[q] = pc[q] /\ call'[q] = call[q]
      /\ RemoteGrows
  BY DEF Begin, CutoverInv, Shape, source, target, people, RemoteGrows
<1>2. Befores'
  BY <1>1 DEF CopiesInv, Befores, Bound, Entries
<1>3. Removing' => Removing
  BY <1>1 DEF Removing
<1>4. Saved'
  BY <1>1, <1>3, SavedKept DEF CopiesInv
<1>5. Published'
  BY <1>1, ReadyKept DEF CopiesInv, Published, Ready
<1>6. Following'
  BY <1>1, FollowingSame DEF CopiesInv
<1> QED BY <1>2, <1>4, <1>5, <1>6

(* The other steps of an invocation leave the source and the registry.      *)
LEMMA OtherCopies ==
  ASSUME CutoverInv, RecordsInv, CopiesInv, RemoteGrows, NEW p \in Procs, Process(p),
         ~Begin(p), ~Switch(p), ~Guard(p), ~Restore(p)
  PROVE  Befores' /\ Saved' /\ Published' /\ Following' /\ UNCHANGED owner
<1>1. Plain(p)
  BY Importing, CapturePlain, CutoverPlain, FinishPlain, TroublePlain DEF Process
<1>2. UNCHANGED <<task, unseen>> /\ (UNCHANGED store \/ pc[p] = "delete")
  BY DEF Process, Capture, ReadRows, Prepare, Baseline, Create, Mark, ReserveReceipt,
     MarkReceipt, Place, Commit, Push, Verify, WriteReceipt, CheckTarget, CheckSource, Delete,
     Recover, Select, PublishLayout, Finish, Fail, Crash, source
<1>3. Away(p) \/ Ready(p)'
  BY Elsewhere, ChecksReady
<1> QED BY <1>1, <1>2, <1>3, PlainCopies DEF Plain

LEMMA ProcessState ==
  ASSUME StateOK, Entries(owner)', NEW p \in Procs, Process(p)
  PROVE  StateOK'
<1>1. /\ MaxEdits \in Nat /\ MaxCalls \in Nat /\ MaxTrouble \in Nat
      /\ edits \in Nat /\ edits <= MaxEdits /\ calls \in Nat /\ calls <= MaxCalls
      /\ trouble \in Nat /\ trouble <= MaxTrouble
  BY MigrationAssumption DEF StateOK
<1>2. UNCHANGED <<task, creating, confirmed, edits>>
  BY DEF Process, Begin, Capture, ReadRows, Prepare, Baseline, Create, Mark, ReserveReceipt,
     MarkReceipt, Place, Commit, Push, Verify, WriteReceipt, CheckTarget, CheckSource, Switch,
     Guard, Delete, Recover, Restore, Select, PublishLayout, Finish, Fail, Crash, source, people,
     counts
<1>3. /\ store' = store \/ store' \in {"part", "gone"}
      /\ unseen' = unseen \/ unseen' = {}
  BY DEF Process, Begin, Capture, ReadRows, Prepare, Baseline, Create, Mark, ReserveReceipt,
     MarkReceipt, Place, Commit, Push, Verify, WriteReceipt, CheckTarget, CheckSource, Switch,
     Guard, Delete, Recover, Restore, Select, PublishLayout, Finish, Fail, Crash, source
<1>4. layout' = layout \/ layout' \in {"pending", "committed"}
  BY DEF Process, Begin, Capture, ReadRows, Prepare, Baseline, Create, Mark, ReserveReceipt,
     MarkReceipt, Place, Commit, Push, Verify, WriteReceipt, CheckTarget, CheckSource, Switch,
     Guard, Delete, Recover, Restore, Select, PublishLayout, Finish, Fail, Crash, target
<1>5. lock' = lock \/ lock' \in {TRUE, FALSE}
  BY DEF Process, Begin, Capture, ReadRows, Prepare, Baseline, Create, Mark, ReserveReceipt,
     MarkReceipt, Place, Commit, Push, Verify, WriteReceipt, CheckTarget, CheckSource, Switch,
     Guard, Delete, Recover, Restore, Select, PublishLayout, Finish, Fail, Crash, people
<1>6. calls' = calls \/ (calls < MaxCalls /\ calls' = calls + 1)
  BY DEF Process, Begin, Capture, ReadRows, Prepare, Baseline, Create, Mark, ReserveReceipt,
     MarkReceipt, Place, Commit, Push, Verify, WriteReceipt, CheckTarget, CheckSource, Switch,
     Guard, Delete, Recover, Restore, Select, PublishLayout, Finish, Fail, Crash, counts
<1>7. trouble' = trouble \/ (trouble < MaxTrouble /\ trouble' = trouble + 1)
  BY DEF Process, Begin, Capture, ReadRows, Prepare, Baseline, Create, Mark, ReserveReceipt,
     MarkReceipt, Place, Commit, Push, Verify, WriteReceipt, CheckTarget, CheckSource, Switch,
     Guard, Delete, Recover, Restore, Select, PublishLayout, Finish, Fail, Crash, counts, Trouble
<1>8. calls' \in 0..MaxCalls /\ trouble' \in 0..MaxTrouble /\ edits' \in 0..MaxEdits
  BY <1>1, <1>2, <1>6, <1>7
<1>9. lock' \in BOOLEAN
  BY <1>5 DEF StateOK
<1>10. store' \in {"whole", "part", "gone"} /\ unseen' \subseteq Tasks /\ task' \in Versions
       /\ layout' \in {"none", "pending", "committed"}
       /\ creating' \in [Owners -> {"no", "edit", "reserve"}] /\ confirmed' \in Versions
  BY <1>2, <1>3, <1>4 DEF StateOK
<1> QED BY <1>8, <1>9, <1>10 DEF StateOK

LEMMA ProcessCopies ==
  ASSUME CutoverInv, RecordsInv, CopiesInv, RemoteGrows, NEW p \in Procs, Process(p)
  PROVE  CopiesInv'
<1>1. Entries(owner)' /\ Befores' /\ Saved' /\ Published' /\ Following'
  <2>1. Entries(owner)
    BY DEF CopiesInv, StateOK
  <2>2. CASE Begin(p)
    BY <2>1, <2>2, BeginCopies DEF Begin, people, Entries
  <2>3. CASE Guard(p)
    BY <2>1, <2>3, GuardCopies DEF Guard, Entries
  <2>4. CASE Switch(p) \/ Restore(p)
    BY <2>4, SwitchCopies, RestoreCopies
  <2>5. CASE ~Begin(p) /\ ~Switch(p) /\ ~Guard(p) /\ ~Restore(p)
    BY <2>1, <2>5, OtherCopies DEF Entries
  <2> QED BY <2>2, <2>3, <2>4, <2>5
<1> QED BY <1>1, ProcessState DEF CopiesInv

-----------------------------------------------------------------------------
(* Everybody else.                                                          *)

(* No step of an invocation: no one starts to remove, or to switch.         *)
LEMMA StillCopies ==
  ASSUME CopiesInv, RemoteGrows, UNCHANGED <<store, pc, call>>,
         \A t \in Tasks : t \notin unseen' => t \notin unseen /\ task'[t] = task[t],
         \A c \in Owners : owner'[c] # NoOwner =>
           \/ owner'[c].provider = "beads"
           \/ /\ Live(c) /\ owner[c].provider = "backlog"
              /\ owner'[c].task = owner[c].task /\ owner'[c].copy = owner[c].copy
  PROVE  Befores' /\ Saved' /\ Published' /\ Following'
<1>1. Befores'
  BY DEF CopiesInv, Befores, Entries
<1>2. Saved'
  BY SavedKept DEF CopiesInv, Removing
<1>3. Published'
  BY ReadyKept DEF CopiesInv, Published
<1>4. Following'
  BY FollowingKept DEF CopiesInv
<1> QED BY <1>1, <1>2, <1>3, <1>4

LEMMA SameOwners ==
  ASSUME StateOK, UNCHANGED owner
  PROVE  \A c \in Owners : owner'[c] # NoOwner =>
           \/ owner'[c].provider = "beads"
           \/ /\ Live(c) /\ owner[c].provider = "backlog"
              /\ owner'[c].task = owner[c].task /\ owner'[c].copy = owner[c].copy
<1>1. \A c \in Owners : Live(c) => owner[c] \in Entry
  BY DEF StateOK, Entries, Live
<1> QED BY <1>1 DEF Entry, Live

LEMMA Edited ==
  ASSUME StateOK, NEW t \in Tasks, EditTask(t)
  PROVE  /\ task' \in Versions /\ unseen' \subseteq Tasks /\ edits' \in 0..MaxEdits
         /\ \A u \in Tasks : u \notin unseen' => u \notin unseen /\ task'[u] = task[u]
<1>1. MaxEdits \in Nat /\ edits \in Nat /\ edits < MaxEdits
  BY MigrationAssumption DEF StateOK, EditTask
<1>2. task \in [Tasks -> Nat] /\ task' = [task EXCEPT ![t] = task[t] + 1] /\ unseen' = unseen \cup {t}
  BY DEF StateOK, EditTask, Versions
<1>3. task' \in [Tasks -> Nat]
  BY <1>2
<1> QED BY <1>1, <1>2, <1>3 DEF EditTask, StateOK, Versions

LEMMA EditCopies ==
  ASSUME CopiesInv, RemoteGrows, NEW t \in Tasks, Edit(t)
  PROVE  CopiesInv'
<1>1. UNCHANGED <<store, pc, call, owner, layout, lock, creating, confirmed, calls, trouble>>
  BY DEF Edit, target, people
<1>2. /\ task' \in Versions /\ unseen' \subseteq Tasks /\ edits' \in 0..MaxEdits
      /\ \A u \in Tasks : u \notin unseen' => u \notin unseen /\ task'[u] = task[u]
  BY Edited DEF Edit, CopiesInv
<1>3. StateOK'
  BY <1>1, <1>2 DEF CopiesInv, StateOK, Entries
<1> QED BY <1>1, <1>2, <1>3, SameOwners, StillCopies DEF CopiesInv

LEMMA AdmitCopies ==
  ASSUME CopiesInv, RemoteGrows, NEW c \in Owners, Admit(c)
  PROVE  CopiesInv'
<1>1. UNCHANGED <<store, pc, call, owner, layout, lock, confirmed, calls, trouble>>
  BY DEF Admit, target
<1>2. /\ task' \in Versions /\ unseen' \subseteq Tasks /\ edits' \in 0..MaxEdits
      /\ \A u \in Tasks : u \notin unseen' => u \notin unseen /\ task'[u] = task[u]
  <2>1. CASE \E t \in Tasks : EditTask(t)
    BY <2>1, Edited DEF CopiesInv
  <2>2. CASE UNCHANGED <<task, unseen, edits>>
    BY <2>2 DEF CopiesInv, StateOK
  <2> QED BY <2>1, <2>2 DEF Admit
<1>3. creating' \in [Owners -> {"no", "edit", "reserve"}]
  BY DEF Admit, CopiesInv, StateOK
<1>4. StateOK'
  BY <1>1, <1>2, <1>3 DEF CopiesInv, StateOK, Entries
<1> QED BY <1>1, <1>2, <1>4, SameOwners, StillCopies DEF CopiesInv

(* Creations, activations and closings of Episodes.                         *)
LEMMA EpisodeCopies ==
  ASSUME CopiesInv, RemoteGrows, NEW c \in Owners, Reserve(c) \/ Activate(c) \/ Close(c)
  PROVE  CopiesInv'
<1>1. UNCHANGED <<store, task, unseen, pc, call, layout, lock, confirmed, edits, calls, trouble>>
  BY DEF Reserve, Activate, Close, source, target, counts
<1>2. Entries(owner) /\ (Live(c) => owner[c] \in Entry)
  BY DEF CopiesInv, StateOK, Entries, Live
<1>3. PICK e : /\ owner' = [owner EXCEPT ![c] = e]
               /\ e = NoOwner \/ e \in Entry
               /\ e # NoOwner =>
                    \/ e.provider = "beads"
                    \/ /\ Live(c) /\ e.provider = owner[c].provider
                       /\ e.task = owner[c].task /\ e.copy = owner[c].copy
  <2>1. CASE Reserve(c)
    <3> PICK t \in Tasks : owner' = [owner EXCEPT ![c] = [Binding(t) EXCEPT !.status = "provisioning"]]
      BY <2>1 DEF Reserve
    <3> DEFINE e == [Binding(t) EXCEPT !.status = "provisioning"]
    <3>1. e = [task |-> t, provider |-> "beads", status |-> "provisioning", copy |-> 0, by |-> 0]
      BY DEF Binding
    <3> HIDE DEF e
    <3>2. e \in Entry /\ e.provider = "beads"
      BY <3>1 DEF Entry
    <3> QED BY <3>2 DEF e
  <2>2. CASE Activate(c)
    <3> DEFINE e == [owner[c] EXCEPT !.status = "active"]
    <3>1. Live(c) /\ owner' = [owner EXCEPT ![c] = e]
      BY <1>2, <2>2 DEF Activate, Entries
    <3>2. /\ e \in Entry /\ e.provider = owner[c].provider
          /\ e.task = owner[c].task /\ e.copy = owner[c].copy
      BY <1>2, <3>1 DEF Entry
    <3> HIDE DEF e
    <3> QED BY <3>1, <3>2
  <2>3. CASE Close(c)
    BY <2>3 DEF Close
  <2> QED BY <2>1, <2>2, <2>3
<1>4. Entries(owner)'
  BY <1>2, <1>3 DEF Entries
<1>5. \A d \in Owners : owner'[d] # NoOwner =>
        \/ owner'[d].provider = "beads"
        \/ /\ Live(d) /\ owner[d].provider = "backlog"
           /\ owner'[d].task = owner[d].task /\ owner'[d].copy = owner[d].copy
  <2> TAKE d \in Owners
  <2>1. Live(d) => owner[d].provider \in {"beads", "backlog"}
    BY <1>2 DEF Entries, Entry, Live
  <2>2. CASE d # c
    BY <1>2, <1>3, <2>1, <2>2 DEF Entries, Live
  <2>3. CASE d = c
    BY <1>2, <1>3, <2>1, <2>3 DEF Entries, Live
  <2> QED BY <2>2, <2>3
<1>6. creating' \in [Owners -> {"no", "edit", "reserve"}]
  BY DEF Reserve, Activate, Close, CopiesInv, StateOK
<1>7. StateOK'
  BY <1>1, <1>4, <1>6 DEF CopiesInv, StateOK
<1> QED BY <1>1, <1>5, <1>7, StillCopies DEF CopiesInv

LEMMA IdleCopies ==
  ASSUME CopiesInv, RemoteGrows,
         UNCHANGED <<store, task, unseen, pc, call, owner, layout, lock, edits, calls>>,
         confirmed' \in {confirmed, task},
         creating' \in [Owners -> {"no", "edit", "reserve"}],
         trouble' \in 0..MaxTrouble
  PROVE  CopiesInv'
<1>1. StateOK'
  BY DEF CopiesInv, StateOK, Entries
<1> QED BY <1>1, SameOwners, StillCopies DEF CopiesInv

LEMMA CopiesStep ==
  ASSUME CutoverInv, RecordsInv, CopiesInv, [Next]_vars
  PROVE  CopiesInv'
<1>1. RemoteGrows
  BY Grows
<1>2. /\ creating \in [Owners -> {"no", "edit", "reserve"}] /\ trouble \in 0..MaxTrouble
      /\ MaxTrouble \in Nat
  BY MigrationAssumption DEF CopiesInv, StateOK
<1>3. ASSUME NEW p \in Procs, Process(p) PROVE CopiesInv'
  BY <1>1, <1>3, ProcessCopies
<1>4. CASE Inspect \/ UNCHANGED vars
  BY <1>1, <1>2, <1>4, IdleCopies DEF Inspect, vars, source, target, people, counts
<1>5. CASE Discard \/ PublishWork
  BY <1>1, <1>2, <1>5, IdleCopies DEF Discard, PublishWork, Trouble, source, people
<1>6. ASSUME NEW t \in Tasks, Edit(t) PROVE CopiesInv'
  BY <1>1, <1>6, EditCopies
<1>7. ASSUME NEW c \in Owners, Detect(c) PROVE CopiesInv'
  BY <1>1, <1>2, <1>7, IdleCopies DEF Detect, source, target, counts
<1>8. ASSUME NEW c \in Owners, Admit(c) \/ Reserve(c) \/ Activate(c) \/ Close(c) PROVE CopiesInv'
  BY <1>1, <1>8, AdmitCopies, EpisodeCopies
<1> QED BY <1>3, <1>4, <1>5, <1>6, <1>7, <1>8 DEF Next, Process

LEMMA CopiesInit == Init => CopiesInv
<1> SUFFICES ASSUME Init PROVE CopiesInv
  OBVIOUS
<1>1. \A t \in Tasks : Binding(t) \in Entry /\ Binding(t).provider = "beads"
  BY DEF Binding, Entry
<1>2. Entries(owner) /\ \A c \in Owners : Live(c) => owner[c].provider = "beads"
  BY <1>1 DEF Init, Entries, Live
<1>3. StateOK
  <2>1. edits \in 0..MaxEdits /\ calls \in 0..MaxCalls /\ trouble \in 0..MaxTrouble
    BY MigrationAssumption DEF Init
  <2>2. task \in Versions /\ confirmed \in Versions
    BY DEF Init, Versions, Never
  <2>3. creating \in [Owners -> {"no", "edit", "reserve"}] /\ lock \in BOOLEAN
    BY DEF Init
  <2> QED BY <1>2, <2>1, <2>2, <2>3 DEF Init, StateOK
<1>4. Befores /\ Saved /\ Published
  BY DEF Init, Befores, Bound, Saved, Removing, Published, Ready
<1>5. Following
  BY <1>2 DEF Following, Followed
<1> QED BY <1>3, <1>4, <1>5 DEF CopiesInv

-----------------------------------------------------------------------------
MigrationInv == CutoverInv /\ RecordsInv /\ CopiesInv

LEMMA MigrationInvariant == Spec => []MigrationInv
<1>1. Init => MigrationInv
  BY CutoverInit, RecordsInit, CopiesInit DEF MigrationInv
<1>2. MigrationInv /\ [Next]_vars => MigrationInv'
  BY CutoverStep, RecordsStep, CopiesStep DEF MigrationInv, CopiesInv, StateOK
<1> QED BY <1>1, <1>2, PTL DEF Spec

(* The state is well formed, whatever the operator, the agents and any      *)
(* number of runs of migrateTaskProvider do.                                *)
THEOREM MigrationTyped == Spec => []TypeOK
<1>1. MigrationInv => TypeOK
  BY DEF MigrationInv, RecordsInv, Ids, CopiesInv, StateOK, Entries, TypeOK
<1> QED BY <1>1, MigrationInvariant, PTL

(* deleteBeadsSource loses nothing: as soon as a part of the source is      *)
(* gone, every task has a complete copy in the published history, with the  *)
(* version it had at the last look, whatever crashed or failed attempts     *)
(* have left there and whoever runs beside it.                              *)
THEOREM Lossless == Spec => []NothingLost
<1>1. MigrationInv => NothingLost
  <2> SUFFICES ASSUME MigrationInv, store # "whole", NEW t \in Tasks
               PROVE  \E r \in Marked(remote, t) :
                        r.stage = "placed" /\ (t \notin unseen => r.rev[t] = task[t])
    BY DEF NothingLost
  <2>1. HasCopy(t)
    BY DEF MigrationInv, CopiesInv, Saved, Removing
  <2>2. \A r \in remote : Complete(r) /\ r.of = t => r \in Marked(remote, t)
    BY MigrationAssumption DEF Complete, Marked, Unmarked
  <2> QED BY <2>1, <2>2 DEF HasCopy, Complete
<1> QED BY <1>1, MigrationInvariant, PTL

(* After switchActiveTaskProviderOwnership, an entry on the destination     *)
(* names the published and complete copy of its task, and goes on doing so. *)
THEOREM CopiesFollowed == Spec => []OwnersFollow
<1>1. MigrationInv => OwnersFollow
  BY DEF MigrationInv, CopiesInv, Following, Followed, CopyAt, Complete, OwnersFollow
<1> QED BY <1>1, MigrationInvariant, PTL

=============================================================================
