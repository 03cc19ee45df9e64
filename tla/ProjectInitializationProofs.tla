--------------------- MODULE ProjectInitializationProofs ---------------------
(***************************************************************************)
(* Proofs about the lock and the templates of a project, for any           *)
(* processes, assets, versions, edits, runs and failures: first that the   *)
(* lock excludes, then what a run knows of the files it handles, and what  *)
(* follows for the texts people have written and for interrupted resets.   *)
(***************************************************************************)
EXTENDS ProjectInitialization, TLAPS

(* Whoever is at one of these steps owns the lock file, and nobody takes it *)
(* away: it has the number of a run that is not over.                       *)
Holding == Inside \cup {"clear", "stamp", "release"}

Recovering == {"recover", "recheck"}

LockRecord == [token : Nat, stamped : BOOLEAN]

Shape ==
  /\ runs \in Nat
  /\ DOMAIN pc = Procs
  /\ DOMAIN run = Procs
  /\ \A p \in Procs : "n" \in DOMAIN run[p] /\ "stale" \in DOMAIN run[p]
  /\ lock # Nothing => lock \in LockRecord

(* Every run has its own number, and numbers are not used again.            *)
Numbered ==
  /\ \A p \in Procs : pc[p] # "idle" => run[p].n \in Nat /\ run[p].n <= runs
  /\ \A p, q \in Procs : pc[p] # "idle" /\ pc[q] # "idle" /\ run[p].n = run[q].n => p = q

(* The run whose lock file is recovered is over.                            *)
StaleIsDead ==
  \A p \in Procs : pc[p] \in Recovering =>
    run[p].stale \in Nat /\ run[p].stale <= runs /\ ~Alive(run[p].stale)

Held ==
  \A p \in Procs : pc[p] \in Holding => lock # Nothing /\ lock.token = run[p].n

LockInv ==
  /\ Shape
  /\ Numbered
  /\ lock # Nothing => lock.token <= runs
  /\ StaleIsDead
  /\ Held

LEMMA Exclusion == LockInv => LockExclusion
BY DEF LockInv, LockExclusion, Held, Numbered, Holding, Inside

LEMMA LockInit == Init => LockInv
<1> SUFFICES ASSUME Init PROVE LockInv
  OBVIOUS
<1>1. Shape
  <2>1. "n" \in DOMAIN NoRun /\ "stale" \in DOMAIN NoRun
    BY DEF NoRun
  <2>2. /\ runs = 0 /\ lock = Nothing
        /\ pc = [p \in Procs |-> "idle"] /\ run = [p \in Procs |-> NoRun]
    BY DEF Init
  <2> QED BY <2>1, <2>2 DEF Shape
<1>2. \A p \in Procs : pc[p] = "idle"
  BY DEF Init
<1>3. StaleIsDead /\ Held
  BY <1>2 DEF StaleIsDead, Held, Holding, Inside, Recovering
<1> QED BY <1>1, <1>2, <1>3 DEF LockInv, Numbered, Init

(* A step that keeps the lock: the process ends, or it goes on with the     *)
(* same number from one step at which it holds the lock to another.         *)
Quiet(p) ==
  /\ lock' = lock /\ runs' = runs
  /\ DOMAIN pc' = Procs /\ DOMAIN run' = Procs
  /\ \A q \in Procs : q # p => pc'[q] = pc[q] /\ run'[q] = run[q]
  /\ "n" \in DOMAIN run'[p] /\ "stale" \in DOMAIN run'[p]
  /\ pc'[p] # "idle" =>
       pc[p] \in Holding /\ pc'[p] \in Holding /\ run'[p].n = run[p].n

LEMMA QuietStep ==
  ASSUME LockInv, NEW p \in Procs, Quiet(p)
  PROVE  LockInv'
<1>1. "idle" \notin Holding /\ Holding \cap Recovering = {}
  BY DEF Holding, Inside, Recovering
<1>2. Shape'
  BY DEF LockInv, Shape, Quiet
<1>3. Numbered'
  BY <1>1 DEF LockInv, Shape, Numbered, Quiet
<1>4. ASSUME NEW q \in Procs, q # p, ~Alive(run[q].stale)
      PROVE  ~Alive(run[q].stale)'
  BY <1>1, <1>4 DEF LockInv, Shape, Alive, Quiet
<1>5. StaleIsDead'
  <2> SUFFICES ASSUME NEW q \in Procs, pc'[q] \in Recovering
               PROVE  /\ run'[q].stale \in Nat /\ run'[q].stale <= runs'
                      /\ ~Alive(run[q].stale)'
    BY DEF StaleIsDead
  <2>1. q # p
    BY <1>1 DEF Quiet, Recovering
  <2> QED BY <2>1, <1>4 DEF LockInv, StaleIsDead, Quiet
<1>6. Held'
  BY <1>1 DEF LockInv, Shape, Held, Quiet
<1> QED BY <1>2, <1>3, <1>5, <1>6 DEF LockInv, Quiet

(* The actions that neither take nor remove the lock file.                  *)
LEMMA WorkIsQuiet ==
  ASSUME LockInv, NEW p \in Procs,
         \/ Enter(p) \/ Redo(p) \/ Remove(p) \/ Update(p) \/ Move(p) \/ SaveManifest(p)
         \/ Settle(p) \/ LookDecided(p) \/ Accept(p) \/ WriteIntent(p) \/ Replace(p)
         \/ Record(p) \/ Recover(p) \/ Forget(p) \/ Clear(p) \/ Fail(p) \/ Crash(p)
         \/ \E a \in Assets : LookRetired(p, a) \/ Mend(p, a) \/ LookAsset(p, a)
  PROVE  Quiet(p)
<1>1. /\ DOMAIN run = Procs
      /\ "n" \in DOMAIN run[p] /\ "stale" \in DOMAIN run[p]
      /\ \A q \in Procs : "n" \in DOMAIN run[q] /\ "stale" \in DOMAIN run[q]
      /\ DOMAIN pc = Procs
  BY DEF LockInv, Shape
<1>2. "n" \in DOMAIN NoRun /\ "stale" \in DOMAIN NoRun
  BY DEF NoRun
<1>3. CASE Enter(p)
  <2>1. pc[p] = "enter" /\ lock' = lock /\ runs' = runs
    BY <1>3 DEF Enter, locks, counts
  <2>2. CASE Throw(p)
    BY <1>1, <2>1, <2>2 DEF Throw, Goto, Quiet, Holding, Inside
  <2> DEFINE r == [run[p] EXCEPT !.entries = manifest]
  <2>3. CASE Know(p, [r EXCEPT !.left = Todo(r)]) /\ Goto(p, "next")
    BY <1>1, <2>1, <2>3 DEF Know, Goto, Quiet, Holding, Inside
  <2>4. CASE /\ Know(p, [r EXCEPT !.asset = intent.asset])
             /\ Goto(p, IF Rewrite THEN "redo" ELSE "redone")
    BY <1>1, <2>1, <2>4 DEF Know, Goto, Quiet, Holding, Inside
  <2> QED BY <1>3, <2>2, <2>3, <2>4 DEF Enter
<1>4. CASE Redo(p)
  BY <1>1, <1>4 DEF Redo, Quiet, Know, Goto, Throw, Holding, Inside, locks, counts
<1>5. CASE Remove(p)
  BY <1>1, <1>5 DEF Remove, Settled, Quiet, Know, Goto, Throw, Holding, Inside, locks, counts
<1>6. CASE Update(p)
  BY <1>1, <1>6 DEF Update, Settled, Quiet, Know, Goto, Throw, Holding, Inside, locks, counts
<1>7. CASE Move(p)
  BY <1>1, <1>7 DEF Move, Settled, Quiet, Know, Goto, Throw, Holding, Inside, locks, counts
<1>8. CASE SaveManifest(p) \/ Settle(p) \/ Accept(p) \/ WriteIntent(p) \/ Replace(p) \/ Record(p) \/ Clear(p) \/ Forget(p)
  BY <1>1, <1>8 DEF SaveManifest, Settle, Accept, WriteIntent, Replace, Record, Clear, Forget, Quiet, Know, Goto, Throw, Holding, Inside, locks, counts
<1>9. CASE LookDecided(p)
  BY <1>1, <1>9 DEF LookDecided, Fetched, Quiet, Know, Goto, Throw, Holding, Inside, locks, counts
<1>10. CASE Recover(p)
  BY <1>1, <1>10 DEF Recover, Quiet, Know, Goto, Throw, Holding, Inside, locks, counts
<1>11. CASE Fail(p)
  BY <1>1, <1>2, <1>11 DEF Fail, Settled, Quiet, Know, Goto, Throw, End, Trouble, AtAsset, Holding, Inside, locks, counts
<1>12. CASE Crash(p)
  BY <1>1, <1>2, <1>12 DEF Crash, Quiet, Know, Goto, End, Trouble, Holding, Inside, locks, counts
<1>13. CASE \E a \in Assets : LookRetired(p, a)
  <2> PICK a \in Assets : LookRetired(p, a)
    BY <1>13
  <2>1. pc[p] = "next" /\ lock' = lock /\ runs' = runs
    BY DEF LookRetired, locks, counts
  <2>2. CASE Know(p, Fetched(p, a, file[a])) /\ Goto(p, "remove")
    BY <1>1, <2>1, <2>2 DEF Know, Fetched, Goto, Quiet, Holding, Inside
  <2>3. CASE Know(p, Settled(p, a, NoEntry)) /\ UNCHANGED pc
    BY <1>1, <2>1, <2>3 DEF Know, Settled, Quiet, Holding, Inside
  <2> QED BY <2>2, <2>3 DEF LookRetired
<1>14. CASE \E a \in Assets : Mend(p, a)
  BY <1>1, <1>14 DEF Mend, Quiet, Holding, Inside, locks, counts
<1>15. CASE \E a \in Assets : LookAsset(p, a)
  <2> PICK a \in Assets : LookAsset(p, a)
    BY <1>15
  <2>1. pc[p] = "next" /\ lock' = lock /\ runs' = runs
    BY DEF LookAsset, locks, counts
  <2>2. CASE Throw(p)
    BY <1>1, <2>1, <2>2 DEF Throw, Goto, Quiet, Holding, Inside
  <2>3. CASE Know(p, Settled(p, a, Entry(p, a))) /\ UNCHANGED pc
    BY <1>1, <2>1, <2>3 DEF Know, Settled, Quiet, Holding, Inside
  <2>4. ASSUME NEW c, NEW l \in {"backup", "move", "create", "compare"},
               Know(p, Fetched(p, a, c)), Goto(p, l)
        PROVE  Quiet(p)
    <3>1. LET r == Fetched(p, a, c)
          IN  "n" \in DOMAIN r /\ "stale" \in DOMAIN r /\ r.n = run[p].n
      BY <1>1 DEF Fetched
    <3>2. /\ pc' = [pc EXCEPT ![p] = l] /\ run' = [run EXCEPT ![p] = Fetched(p, a, c)]
          /\ pc[p] \in Holding /\ l \in Holding
      BY <2>1, <2>4 DEF Know, Goto, Holding, Inside
    <3> QED BY <1>1, <2>1, <3>1, <3>2 DEF Quiet
  <2>5. CASE Know(p, Fetched(p, a, legacy[a])) /\ Goto(p, "backup")
    BY <2>4, <2>5
  <2>6. CASE /\ Know(p, Fetched(p, a, legacy[a]))
             /\ Goto(p, IF legacy[a] # 0 THEN "move" ELSE "create")
    BY <2>4, <2>6
  <2>7. CASE Know(p, Fetched(p, a, file[a])) /\ Goto(p, "compare")
    BY <2>4, <2>7
  <2> QED BY <2>2, <2>3, <2>5, <2>6, <2>7 DEF LookAsset
<1> QED BY <1>3, <1>4, <1>5, <1>6, <1>7, <1>8, <1>9, <1>10, <1>11, <1>12, <1>13, <1>14,
            <1>15

-----------------------------------------------------------------------------
(* A new run gets a number above all others.                                *)
LEMMA BeginKeepsLock ==
  ASSUME LockInv, NEW p \in Procs, Begin(p)
  PROVE  LockInv'
<1>1. /\ pc[p] = "idle" /\ runs \in Nat /\ runs' = runs + 1 /\ lock' = lock
      /\ DOMAIN pc = Procs /\ DOMAIN run = Procs
      /\ pc' = [pc EXCEPT ![p] = "lock"]
  BY DEF Begin, LockInv, Shape, Goto, locks
<1>2. /\ DOMAIN run' = Procs
      /\ \A q \in Procs : q # p => run'[q] = run[q]
      /\ "n" \in DOMAIN run'[p] /\ "stale" \in DOMAIN run'[p]
      /\ run'[p].n = runs + 1
  BY <1>1 DEF Begin, Know, NoRun
<1>3. Shape'
  BY <1>1, <1>2 DEF LockInv, Shape
<1>4. Numbered'
  BY <1>1, <1>2 DEF LockInv, Numbered
<1>5. (lock # Nothing => lock.token <= runs)'
  BY <1>1 DEF LockInv, Shape, LockRecord
<1>6. StaleIsDead'
  <2> SUFFICES ASSUME NEW q \in Procs, pc'[q] \in Recovering
               PROVE  /\ run'[q].stale \in Nat /\ run'[q].stale <= runs'
                      /\ ~Alive(run[q].stale)'
    BY DEF StaleIsDead
  <2>1. q # p
    BY <1>1 DEF Recovering
  <2>2. /\ run'[q].stale = run[q].stale /\ run[q].stale \in Nat /\ run[q].stale <= runs
        /\ ~Alive(run[q].stale)
    BY <2>1, <1>1, <1>2 DEF LockInv, StaleIsDead
  <2>3. ~Alive(run[q].stale)'
    BY <2>2, <1>1, <1>2 DEF Alive
  <2> QED BY <1>1, <2>2, <2>3
<1>7. Held'
  BY <1>1, <1>2 DEF LockInv, Held, Holding, Inside
<1> QED BY <1>3, <1>4, <1>5, <1>6, <1>7 DEF LockInv

(* When there is no lock file, nobody is at a step that holds it.           *)
LEMMA NobodyHolds ==
  ASSUME LockInv, lock = Nothing, NEW q \in Procs
  PROVE  pc[q] \notin Holding
BY DEF LockInv, Held

(* Whoever creates the lock file owns it.                                   *)
LEMMA TakesLock ==
  ASSUME LockInv, NEW p \in Procs, lock = Nothing, pc[p] # "idle",
         lock' = [token |-> run[p].n, stamped |-> FALSE],
         pc' \in {[pc EXCEPT ![p] = "stamp"], [pc EXCEPT ![p] = "clear"]},
         run' = run, runs' = runs
  PROVE  LockInv'
<1>1. /\ DOMAIN pc = Procs /\ run[p].n \in Nat /\ run[p].n <= runs
      /\ pc'[p] \in {"stamp", "clear"}
      /\ \A q \in Procs : q # p => pc'[q] = pc[q]
  BY DEF LockInv, Shape, Numbered
<1>2. lock' \in LockRecord /\ lock' # Nothing /\ lock'.token = run[p].n
  <2>1. lock' \in LockRecord /\ lock'.token = run[p].n
    BY <1>1 DEF LockRecord
  <2> QED BY <2>1, InitializationAssumption DEF LockRecord
<1>3. Shape' /\ Numbered'
  BY <1>1, <1>2 DEF LockInv, Shape, Numbered
<1>4. StaleIsDead'
  <2> SUFFICES ASSUME NEW q \in Procs, pc'[q] \in Recovering
               PROVE  /\ run[q].stale \in Nat /\ run[q].stale <= runs
                      /\ ~Alive(run[q].stale)'
    BY DEF StaleIsDead
  <2>1. q # p
    BY <1>1 DEF Recovering
  <2> QED BY <2>1, <1>1 DEF LockInv, StaleIsDead, Alive
<1>5. Held'
  <2> SUFFICES ASSUME NEW q \in Procs, q # p, pc'[q] \in Holding PROVE FALSE
    BY <1>2 DEF Held
  <2> QED BY <1>1, NobodyHolds
<1> QED BY <1>1, <1>2, <1>3, <1>4, <1>5 DEF LockInv

LEMMA OpenKeepsLock ==
  ASSUME LockInv, NEW p \in Procs, Open(p)
  PROVE  LockInv'
<1>1. CASE lock = Nothing
  BY <1>1, TakesLock DEF Open, Goto, counts
<1>2. CASE lock # Nothing /\ End(p)
  BY <1>2, QuietStep DEF Open, End, Goto, Know, Quiet, LockInv, Shape, NoRun, counts
<1>3. CASE /\ lock # Nothing /\ lock.stamped /\ ~Alive(lock.token)
           /\ Goto(p, "recover") /\ Know(p, [run[p] EXCEPT !.stale = lock.token])
  <2>1. /\ DOMAIN pc = Procs /\ DOMAIN run = Procs /\ lock' = lock /\ runs' = runs
        /\ "n" \in DOMAIN run[p] /\ "stale" \in DOMAIN run[p]
        /\ pc[p] = "lock" /\ lock.token \in Nat /\ lock.token <= runs
    BY <1>3 DEF Open, LockInv, Shape, LockRecord, counts
  <2>2. /\ DOMAIN pc' = Procs /\ DOMAIN run' = Procs
        /\ "n" \in DOMAIN run'[p] /\ "stale" \in DOMAIN run'[p]
        /\ run'[p].n = run[p].n /\ run'[p].stale = lock.token /\ pc'[p] = "recover"
        /\ \A q \in Procs : q # p => pc'[q] = pc[q] /\ run'[q] = run[q]
    BY <1>3, <2>1 DEF Goto, Know
  <2>3. Shape' /\ Numbered'
    BY <2>1, <2>2 DEF LockInv, Shape, Numbered
  <2>4. \A q \in Procs : (pc'[q] # "idle") = (pc[q] # "idle") /\ run'[q].n = run[q].n
    BY <2>1, <2>2
  <2>5. StaleIsDead'
    <3> SUFFICES ASSUME NEW q \in Procs, pc'[q] \in Recovering
                 PROVE  /\ run'[q].stale \in Nat /\ run'[q].stale <= runs
                        /\ ~Alive(run[q].stale)'
      BY <2>1 DEF StaleIsDead
    <3>1. CASE q = p
      BY <3>1, <1>3, <2>1, <2>2, <2>4 DEF Alive
    <3>2. CASE q # p
      BY <3>2, <2>2, <2>4 DEF LockInv, StaleIsDead, Alive
    <3> QED BY <3>1, <3>2
  <2>6. Held'
    BY <2>1, <2>2 DEF LockInv, Held, Holding, Inside
  <2> QED BY <2>1, <2>3, <2>5, <2>6 DEF LockInv
<1> QED BY <1>1, <1>2, <1>3 DEF Open

(* Only the lock file of a run that is over is taken away by another.       *)
LEMMA RecheckKeepsLock ==
  ASSUME LockInv, NEW p \in Procs, Recheck(p)
  PROVE  LockInv'
<1>1. /\ DOMAIN pc = Procs /\ DOMAIN run = Procs /\ runs' = runs /\ pc[p] = "recheck"
      /\ "n" \in DOMAIN run[p] /\ "stale" \in DOMAIN run[p]
  BY DEF Recheck, LockInv, Shape, counts
<1>2. CASE StaleStill(p)
  <2>1. /\ lock' = Nothing /\ run' = run /\ pc' = [pc EXCEPT ![p] = "reopen"]
        /\ lock # Nothing /\ lock.token = run[p].stale
    BY <1>2 DEF Recheck, StaleStill, Goto
  <2>2. \A q \in Procs : pc[q] \notin Holding
    <3> SUFFICES ASSUME NEW q \in Procs, pc[q] \in Holding PROVE FALSE
      OBVIOUS
    <3>1. lock.token = run[q].n /\ pc[q] # "idle"
      BY DEF LockInv, Held, Holding, Inside
    <3>2. ~Alive(lock.token)
      BY <1>1, <2>1 DEF LockInv, StaleIsDead, Recovering
    <3> QED BY <3>1, <3>2 DEF Alive
  <2>3. Shape' /\ Numbered'
    BY <1>1, <2>1 DEF LockInv, Shape, Numbered
  <2>4. StaleIsDead'
    BY <1>1, <2>1 DEF LockInv, StaleIsDead, Recovering, Alive
  <2>5. Held'
    BY <1>1, <2>1, <2>2 DEF Held, Holding, Inside
  <2> QED BY <2>1, <2>3, <2>4, <2>5 DEF LockInv
<1>3. CASE ~StaleStill(p)
  BY <1>1, <1>3, QuietStep DEF Recheck, End, Goto, Know, Quiet, NoRun
<1> QED BY <1>2, <1>3

LEMMA StampKeepsLock ==
  ASSUME LockInv, NEW p \in Procs, Stamp(p)
  PROVE  LockInv'
<1>1. /\ DOMAIN pc = Procs /\ runs' = runs /\ run' = run /\ pc[p] = "stamp"
      /\ pc' = [pc EXCEPT ![p] = "enter"]
      /\ lock' = [token |-> run[p].n, stamped |-> TRUE]
      /\ run[p].n \in Nat /\ run[p].n <= runs
  BY DEF Stamp, Goto, LockInv, Shape, Numbered, counts
<1>2. lock' \in LockRecord /\ lock' # Nothing /\ lock'.token = run[p].n
  <2>1. lock' \in LockRecord /\ lock'.token = run[p].n
    BY <1>1 DEF LockRecord
  <2> QED BY <2>1, InitializationAssumption DEF LockRecord
<1>3. Shape' /\ Numbered'
  BY <1>1, <1>2 DEF LockInv, Shape, Numbered
<1>4. StaleIsDead'
  BY <1>1 DEF LockInv, StaleIsDead, Recovering, Alive
<1>5. Held'
  <2> SUFFICES ASSUME NEW q \in Procs, pc'[q] \in Holding PROVE run[q].n = run[p].n
    BY <1>1, <1>2 DEF Held
  <2>1. pc[p] \in Holding /\ pc[q] \in Holding
    BY <1>1 DEF Holding, Inside
  <2> QED BY <2>1 DEF LockInv, Held
<1> QED BY <1>1, <1>2, <1>3, <1>4, <1>5 DEF LockInv

LEMMA ReleaseKeepsLock ==
  ASSUME LockInv, NEW p \in Procs, Release(p)
  PROVE  LockInv'
<1>1. /\ DOMAIN pc = Procs /\ DOMAIN run = Procs /\ runs' = runs /\ pc[p] = "release"
      /\ lock' \in {lock, Nothing}
      /\ pc' = [pc EXCEPT ![p] = "idle"] /\ run' = [run EXCEPT ![p] = NoRun]
  BY DEF Release, End, Goto, Know, LockInv, Shape, counts
<1>2. "n" \in DOMAIN NoRun /\ "stale" \in DOMAIN NoRun
  BY DEF NoRun
<1>3. /\ DOMAIN run' = Procs /\ DOMAIN pc' = Procs
      /\ run'[p] = NoRun /\ pc'[p] = "idle"
      /\ \A q \in Procs : q # p => pc'[q] = pc[q] /\ run'[q] = run[q]
  BY <1>1
<1>4. Shape' /\ Numbered' /\ (lock # Nothing => lock.token <= runs)'
  BY <1>1, <1>2, <1>3 DEF LockInv, Shape, Numbered
<1>5. StaleIsDead'
  <2> SUFFICES ASSUME NEW q \in Procs, pc'[q] \in Recovering
               PROVE  /\ run'[q].stale \in Nat /\ run'[q].stale <= runs'
                      /\ ~Alive(run[q].stale)'
    BY DEF StaleIsDead
  <2>1. q # p
    BY <1>3 DEF Recovering
  <2> QED BY <2>1, <1>1, <1>3 DEF LockInv, StaleIsDead, Alive
<1>6. \A q \in Procs : q # p => pc[q] \notin Holding
  <2> SUFFICES ASSUME NEW q \in Procs, q # p, pc[q] \in Holding PROVE FALSE
    OBVIOUS
  <2>1. pc[p] \in Holding /\ pc[p] # "idle" /\ pc[q] # "idle"
    BY <1>1 DEF Holding, Inside
  <2> QED BY <2>1 DEF LockInv, Held, Numbered
<1>7. Held'
  BY <1>3, <1>6 DEF Held, Holding, Inside
<1> QED BY <1>4, <1>5, <1>7 DEF LockInv

LEMMA LockStep == LockInv /\ [Next]_vars => LockInv'
<1> SUFFICES ASSUME LockInv, [Next]_vars PROVE LockInv'
  OBVIOUS
<1>1. CASE UNCHANGED vars
  BY <1>1 DEF vars, locks, counts, LockInv, Shape, Numbered, StaleIsDead, Held, Alive
<1>2. CASE \E a \in Assets : Edit(a) \/ Upgrade(a)
  BY <1>2 DEF Edit, Upgrade, locks, counts, LockInv, Shape, Numbered, StaleIsDead, Held, Alive
<1>3. CASE Episode
  BY <1>3 DEF Episode, locks, counts, LockInv, Shape, Numbered, StaleIsDead, Held, Alive
<1>4. ASSUME NEW p \in Procs,
             \/ Begin(p) \/ Open(p) \/ MakeRecovery(p) \/ Recheck(p) \/ Reopen(p) \/ Stamp(p)
             \/ Release(p)
      PROVE  LockInv'
  <2>1. CASE Begin(p)
    BY <2>1, BeginKeepsLock
  <2>2. CASE Open(p)
    BY <2>2, OpenKeepsLock
  <2>3. CASE MakeRecovery(p)
    <3>1. /\ DOMAIN pc = Procs /\ DOMAIN run = Procs /\ runs' = runs /\ pc[p] = "recover"
          /\ lock' = lock
      BY <2>3 DEF MakeRecovery, LockInv, Shape, counts
    <3>2. CASE End(p)
      BY <3>1, <3>2, QuietStep DEF End, Goto, Know, Quiet, NoRun
    <3>3. CASE pc' = [pc EXCEPT ![p] = "recheck"] /\ run' = run
      <4>1. \A q \in Procs : pc'[q] = pc[q] \/ (q = p /\ pc'[q] = "recheck")
        BY <3>1, <3>3
      <4>2. Shape' /\ Numbered'
        BY <3>1, <3>3, <4>1 DEF LockInv, Shape, Numbered
      <4>3. StaleIsDead' /\ Held'
        BY <3>1, <3>3, <4>1 DEF LockInv, StaleIsDead, Held, Alive, Recovering, Holding, Inside
      <4> QED BY <3>1, <3>3, <4>2, <4>3 DEF LockInv
    <3> QED BY <2>3, <3>2, <3>3 DEF MakeRecovery, Goto
  <2>4. CASE Recheck(p)
    BY <2>4, RecheckKeepsLock
  <2>5. CASE Reopen(p)
    <3>1. CASE lock = Nothing
      BY <2>5, <3>1, TakesLock DEF Reopen, Goto, counts
    <3>2. CASE lock # Nothing
      BY <2>5, <3>2, QuietStep DEF Reopen, End, Goto, Know, Quiet, LockInv, Shape, NoRun, counts
    <3> QED BY <3>1, <3>2
  <2>6. CASE Stamp(p)
    BY <2>6, StampKeepsLock
  <2>7. CASE Release(p)
    BY <2>7, ReleaseKeepsLock
  <2> QED BY <1>4, <2>1, <2>2, <2>3, <2>4, <2>5, <2>6, <2>7
<1>5. ASSUME NEW p \in Procs,
             \/ Enter(p) \/ Redo(p) \/ Remove(p) \/ Update(p) \/ Move(p) \/ SaveManifest(p)
             \/ Settle(p) \/ LookDecided(p) \/ Accept(p) \/ WriteIntent(p) \/ Replace(p)
             \/ Record(p) \/ Recover(p) \/ Forget(p) \/ Clear(p) \/ Fail(p) \/ Crash(p)
             \/ \E a \in Assets : LookRetired(p, a) \/ Mend(p, a) \/ LookAsset(p, a)
      PROVE  LockInv'
  BY <1>5, WorkIsQuiet, QuietStep
<1> QED BY <1>1, <1>2, <1>3, <1>4, <1>5 DEF Next

(* However many processes run, crash and recover stale lock files, no two   *)
(* are past acquireProjectMutationLock at once.                             *)
THEOREM Excluded == Spec => []LockExclusion
<1>1. Spec => []LockInv
  BY LockInit, LockStep, PTL DEF Spec
<1> QED BY <1>1, Exclusion, PTL

-----------------------------------------------------------------------------
(* What the runs know, and what the files, the manifest and the intent have *)
(* to do with it.                                                           *)
Entries == EntryRecord \cup {NoEntry}
Steps == Inside \cup {"idle", "lock", "recover", "recheck", "reopen", "clear", "stamp", "release"}

IntentRecord == [asset : Assets, before : Nat, to : 1..MaxVersion]
ReviewRecord == [asset : Assets, original : Nat]
RunRecord ==
  [n : Nat, kind : {"none", "reconcile", "accept", "reset", "keep", "restore"},
   asset : Assets \cup {Nothing}, inventory : SUBSET Assets, entries : [Assets -> Entries],
   left : SUBSET Assets, looked : Nat, to : 0..MaxVersion, stale : Nat,
   recovered : Assets \cup {Nothing}]

TypeOK ==
  /\ file \in [Assets -> Nat] /\ legacy \in [Assets -> Nat]
  /\ link \in [Assets -> {"none", "link", "moved", "both"}]
  /\ upstream \in [Assets -> 0..MaxVersion]
  /\ manifest \in [Assets -> Entries]
  /\ intent # Nothing => intent \in IntentRecord
  /\ review # Nothing => review \in ReviewRecord
  /\ pc \in [Procs -> Steps]
  /\ run \in [Procs -> RunRecord]
  /\ edits \in Nat

(* Texts are written once: whatever there is, is below the next one.        *)
Top == MaxVersion + 3 + edits

Known ==
  /\ \A a \in Assets : file[a] <= Top /\ legacy[a] <= Top
  /\ intent # Nothing => intent.before <= Top
  /\ review # Nothing => review.original <= Top
  /\ \A p \in Procs : run[p].looked <= Top

(* A destination that is a link, or has been moved away, has no file of its *)
(* own, and the file of an old review is at its destination.                *)
Linked ==
  /\ \A a \in Assets : link[a] \in {"link", "moved"} => file[a] = 0
  /\ review # Nothing => link[review.asset] = "none"

(* What the manifest calls managed is a template: so a file that is as it   *)
(* was installed is not a customization.                                    *)
Template(e) == e # NoEntry /\ e.state = "managed" => e.installed <= MaxVersion

Templates ==
  /\ \A a \in Assets : Template(manifest[a])
  /\ \A p \in Procs : \A a \in Assets : Template(run[p].entries[a])

(* The text of an intent is one that a reset was told to replace.           *)
Told == intent # Nothing => intent.before <= MaxVersion \/ intent.before \in asked

(* A content that a run may lose.                                           *)
MayGo(x) == x <= MaxVersion \/ x \in asked \/ x \in late

(* What a run knows of its asset at each step.  The other runs are kept out *)
(* by the lock; the people who edit the files can only change what it has   *)
(* read into something that may go, and then what it has read may go too.   *)
Knows(p) ==
  LET r == run[p]
      a == run[p].asset
      c == run[p].looked
  IN
  /\ pc[p] \in {"lock", "recover", "recheck", "reopen", "clear", "stamp", "enter"} =>
       (r.kind \in {"accept", "reset"} => a \in Assets) /\ r.recovered = Nothing
  /\ pc[p] \in AtAsset \cup {"accept", "reset", "replace", "record"} => a \in Assets
  /\ pc[p] \in AtAsset \ {"remove"} => a \in r.inventory /\ r.to # 0
  /\ pc[p] \in {"redo", "redone"} => intent # Nothing /\ a = intent.asset
  /\ pc[p] \in {"redo", "remove", "create", "move", "reset", "replace"} => MayGo(file[a])
  /\ pc[p] = "remove" => a \notin r.inventory
  /\ pc[p] \in AtAsset \cup {"next"} =>
       \A b \in r.left \ r.inventory : r.entries[b] # NoEntry
  /\ pc[p] \in {"backup", "move", "moved", "both", "old", "spent"} =>
       legacy[a] = c \/ MayGo(legacy[a])
  /\ pc[p] \in {"compare", "both", "old", "spent"} =>
       file[a] = c \/ (MayGo(c) /\ MayGo(file[a]))
  /\ pc[p] = "create" => c = 0
  /\ pc[p] \in {"compare", "move", "moved", "backup"} => c # 0
  /\ pc[p] \in {"move", "create", "compare"} => link[a] = "none"
  /\ pc[p] \in {"reset", "replace"} => link[a] # "link"
  /\ pc[p] = "backup" => link[a] = "link"
  /\ pc[p] = "moved" => link[a] = "moved"
  /\ pc[p] \in {"reset", "replace", "record"} => r.to # 0
  /\ pc[p] = "reset" => intent = Nothing /\ (c <= MaxVersion \/ c \in asked)
  /\ pc[p] \in {"replace", "record"} =>
       intent = [asset |-> a, before |-> c, to |-> r.to]

(* The text of an intent is not there, or somebody has removed the file.    *)
Gone ==
  intent.before > MaxVersion /\ intent.asset \notin dropped =>
    file[intent.asset] # intent.before

(* A template of the plugin that is not older than that of the intent.      *)
Newer(v) == v = 0 \/ v >= intent.to

(* An entry that neither accepts a text nor manages an older template.      *)
Up(e) ==
  /\ e # NoEntry /\ e.accepted = 0
  /\ e.state = "managed" => e.installed >= intent.to

(* What the asset of a pending intent looks like once it was written again. *)
Redone ==
  /\ Gone
  /\ file[intent.asset] = 0 => intent.asset \in dropped
  /\ link[intent.asset] \in {"none", "both"}

(* What a run knows of a pending intent: from its own write on, the file    *)
(* and the entry of the asset stay as the reset wants them.                 *)
Recoveries(p) ==
  LET r == run[p]
      b == intent.asset
  IN
  /\ pc[p] \in {"redo", "redone"} =>
       b \in r.inventory /\ Newer(upstream[b]) /\ link[b] # "link"
  /\ pc[p] = "redone" => Gone /\ link[b] # "moved" /\ (file[b] = 0 => b \in dropped)
  /\ pc[p] \in AtAsset \cup {"next"} /\ r.recovered # Nothing =>
       /\ intent # Nothing /\ r.recovered = b
       /\ b \in r.inventory /\ Newer(upstream[b])
       /\ Redone /\ Up(r.entries[b])
  /\ pc[p] \in AtAsset /\ r.recovered # Nothing /\ r.asset = b =>
       Newer(r.to) /\ (pc[p] = "move" => b \in dropped)
  /\ pc[p] = "record" => Gone
  /\ pc[p] = "settle" /\ intent # Nothing => Gone /\ Up(manifest[intent.asset])

Fits(p) == pc[p] # "idle" => Knows(p) /\ Recoveries(p)

Sound == Known /\ Linked /\ Templates /\ Told /\ \A p \in Procs : Fits(p)

RunsInv == TypeOK /\ Sound

LEMMA TypeInit == Init => TypeOK
<1> SUFFICES ASSUME Init PROVE TypeOK
  OBVIOUS
<1> USE InitializationAssumption
<1>1. PICK old \in [Assets -> {"new", "here", "there", "linked"}] :
        /\ file = [a \in Assets |-> IF old[a] = "here" THEN MaxVersion + 1 ELSE 0]
        /\ legacy = [a \in Assets |-> IF old[a] \in {"there", "linked"} THEN MaxVersion + 2 ELSE 0]
        /\ link = [a \in Assets |-> IF old[a] = "linked" THEN "link" ELSE "none"]
  BY DEF Init
<1>2. /\ file \in [Assets -> Nat] /\ legacy \in [Assets -> Nat]
      /\ link \in [Assets -> {"none", "link", "moved", "both"}]
  BY <1>1
<1>3. NoRun \in RunRecord
  BY DEF NoRun, RunRecord, Entries
<1>4. review # Nothing => review \in ReviewRecord
  BY DEF Init, ReviewRecord
<1> QED BY <1>2, <1>3, <1>4 DEF Init, TypeOK, Entries, Steps, Inside

(* What a step that is done with an asset leaves in the run, one that has   *)
(* read it, and one that ends the run.                                      *)
LEMMA SettledRun ==
  ASSUME TypeOK, NEW p \in Procs, NEW a \in Assets, NEW e \in Entries,
         Know(p, Settled(p, a, e))
  PROVE  /\ run' \in [Procs -> RunRecord]
         /\ \A q \in Procs : q # p => run'[q] = run[q]
         /\ run'[p].kind = run[p].kind /\ run'[p].inventory = run[p].inventory
         /\ run'[p].entries = [run[p].entries EXCEPT ![a] = e]
         /\ run'[p].left = run[p].left \ {a}
         /\ run'[p].looked = 0 /\ run'[p].recovered = run[p].recovered
<1>1. run[p] \in RunRecord /\ run \in [Procs -> RunRecord]
  BY DEF TypeOK
<1> DEFINE es == [run[p].entries EXCEPT ![a] = e]
           ls == run[p].left \ {a}
<1>2. es \in [Assets -> Entries] /\ ls \in SUBSET Assets
  BY <1>1 DEF RunRecord
<1>3. Settled(p, a, e) =
        [run[p] EXCEPT !.entries = es, !.left = ls, !.asset = Nothing, !.looked = 0, !.to = 0]
  BY <1>1 DEF Settled, RunRecord
<1>4. Settled(p, a, e) \in RunRecord
  <2>1. Settled(p, a, e) =
          [n |-> run[p].n, kind |-> run[p].kind, asset |-> Nothing, inventory |-> run[p].inventory,
           entries |-> es, left |-> ls, looked |-> 0, to |-> 0, stale |-> run[p].stale,
           recovered |-> run[p].recovered]
    <3> HIDE DEF es, ls
    <3> QED BY <1>1, <1>3 DEF RunRecord
  <2> HIDE DEF es, ls
  <2>2. 0 \in 0..MaxVersion
    BY InitializationAssumption
  <2> QED BY <1>1, <1>2, <2>1, <2>2 DEF RunRecord
<1> QED BY <1>1, <1>4 DEF Know, Settled, RunRecord

LEMMA FetchedRun ==
  ASSUME TypeOK, NEW p \in Procs, NEW a \in Assets, NEW c \in Nat,
         Know(p, Fetched(p, a, c))
  PROVE  /\ run' \in [Procs -> RunRecord]
         /\ \A q \in Procs : q # p => run'[q] = run[q]
         /\ run'[p].kind = run[p].kind /\ run'[p].inventory = run[p].inventory
         /\ run'[p].entries = run[p].entries
         /\ run'[p].left = run[p].left /\ run'[p].recovered = run[p].recovered
         /\ run'[p].asset = a /\ run'[p].looked = c /\ run'[p].to = upstream[a]
<1>1. run[p] \in RunRecord /\ run \in [Procs -> RunRecord] /\ upstream[a] \in 0..MaxVersion
  BY DEF TypeOK
<1>2. Fetched(p, a, c) \in RunRecord
  BY <1>1, InitializationAssumption DEF Fetched, RunRecord
<1> QED BY <1>1, <1>2 DEF Know, Fetched, RunRecord

(* Whatever a step writes into a field, the record of the run keeps its shape. *)
LEMMA EndedRun ==
  ASSUME TypeOK, NEW p \in Procs, End(p)
  PROVE  /\ run' \in [Procs -> RunRecord] /\ pc' \in [Procs -> Steps]
         /\ \A q \in Procs : q # p => run'[q] = run[q] /\ pc'[q] = pc[q]
         /\ run'[p] = NoRun /\ pc'[p] = "idle"
<1>1. NoRun \in RunRecord
  BY InitializationAssumption DEF NoRun, RunRecord, Entries
<1> QED BY <1>1 DEF TypeOK, End, Goto, Know, Steps

LEMMA ManagedEntry ==
  ASSUME NEW v \in 0..MaxVersion
  PROVE  /\ Managed(v) \in EntryRecord /\ Managed(v).state = "managed"
         /\ Managed(v).installed = v /\ Managed(v).accepted = 0
         /\ Template(Managed(v)) /\ Managed(v) # NoEntry
BY InitializationAssumption DEF Managed, EntryRecord, Template

LEMMA CustomizedEntry ==
  ASSUME NEW v \in 0..MaxVersion, NEW c \in Nat
  PROVE  /\ Customized(c, v) \in EntryRecord /\ Customized(c, v).state # "managed"
         /\ Customized(c, v).accepted = 0
         /\ Template(Customized(c, v)) /\ Customized(c, v) # NoEntry
BY InitializationAssumption DEF Customized, EntryRecord, Template

(* compareProjectAsset only lets go of a content that is a template.        *)
LEMMA ComparedEntry ==
  ASSUME NEW e \in Entries, NEW c \in Nat, NEW v \in 0..MaxVersion, Template(e)
  PROVE  LET d == Compared(e, c, v)
         IN  /\ d \in EntryRecord /\ d # NoEntry
             /\ d.state = "managed" => d.installed = v /\ (c = v \/ c <= MaxVersion)
             /\ e = NoEntry => d.accepted = 0
             /\ e # NoEntry /\ e.accepted = 0 => d.accepted = 0
             /\ Template(d)
<1> DEFINE d == Compared(e, c, v)
<1>1. CASE e = NoEntry /\ c = v
  BY <1>1, ManagedEntry DEF Compared
<1>2. CASE e = NoEntry /\ c # v
  BY <1>2, CustomizedEntry DEF Compared
<1>3. CASE e # NoEntry /\ Untouched(e, c, v)
  <2>1. d = Managed(v)
    BY <1>3 DEF Compared
  <2>2. c = v \/ c <= MaxVersion
    BY <1>3 DEF Untouched, Template
  <2> QED BY <1>3, <2>1, <2>2, ManagedEntry
<1>4. CASE e # NoEntry /\ ~Untouched(e, c, v)
  <2>1. d = [e EXCEPT !.installed = c, !.available = v,
                      !.state = IF e.state = "accepted" /\ c = e.accepted
                                THEN "accepted" ELSE "customized"]
    BY <1>4 DEF Compared
  <2>2. e \in EntryRecord /\ v \in Nat
    BY <1>4 DEF Entries
  <2> HIDE DEF d
  <2>3. /\ d \in EntryRecord /\ d.state \in {"accepted", "customized"} /\ d.accepted = e.accepted
    BY <2>1, <2>2 DEF EntryRecord
  <2> QED BY <1>4, <2>3, InitializationAssumption DEF Template, d
<1> QED BY <1>1, <1>2, <1>3, <1>4

LEMMA SoundInit == Init => Sound
<1> SUFFICES ASSUME Init PROVE Sound
  OBVIOUS
<1> USE InitializationAssumption
<1>1. PICK old \in [Assets -> {"new", "here", "there", "linked"}] :
        /\ file = [a \in Assets |-> IF old[a] = "here" THEN MaxVersion + 1 ELSE 0]
        /\ legacy = [a \in Assets |-> IF old[a] \in {"there", "linked"} THEN MaxVersion + 2 ELSE 0]
        /\ link = [a \in Assets |-> IF old[a] = "linked" THEN "link" ELSE "none"]
  BY DEF Init
<1>2. Linked
  BY <1>1 DEF Init, Linked
<1>3. run = [p \in Procs |-> NoRun] /\ edits = 0 /\ intent = Nothing
  BY DEF Init
<1>4. review # Nothing => review.original <= Top
  BY <1>3 DEF Init, Top
<1>5. Known
  <2>1. NoRun.looked = 0
    BY DEF NoRun
  <2> QED BY <1>1, <1>3, <1>4, <2>1 DEF Known, Top
<1>6. Templates
  <2>1. NoRun.entries = [a \in Assets |-> NoEntry]
    BY DEF NoRun
  <2> QED BY <1>3, <2>1 DEF Init, Templates, Template
<1>7. \A p \in Procs : Fits(p)
  BY DEF Init, Fits
<1> QED BY <1>2, <1>3, <1>5, <1>6, <1>7 DEF Sound, Told

-----------------------------------------------------------------------------
Others(p) == \A q \in Procs : q # p => pc'[q] = pc[q] /\ run'[q] = run[q]

(* One process is at a step that holds the lock, and the steps of the       *)
(* others know nothing of the files.                                        *)
LEMMA Alone ==
  ASSUME LockInv, NEW p \in Procs, NEW q \in Procs, q # p,
         pc[p] \in Holding
  PROVE  pc[q] \notin Holding
BY DEF LockInv, Held, Numbered, Holding, Inside

Early == {"lock", "recover", "recheck", "reopen", "clear", "stamp", "enter"}

LEMMA Outside ==
  ASSUME LockInv, RunsInv, NEW p \in Procs, NEW q \in Procs, q # p,
         pc[p] \in Holding, Others(p)
  PROVE  Fits(q)'
<1>1. pc[q] \notin Holding /\ pc[q] \in Steps /\ pc'[q] = pc[q] /\ run'[q] = run[q]
  BY Alone DEF RunsInv, TypeOK, Others
<1>2. pc'[q] \notin Inside
  BY <1>1 DEF Holding
<1>3. Fits(q)
  BY DEF RunsInv, Sound
<1>4. pc[q] # "idle" => Knows(q)'
  BY <1>1, <1>2, <1>3 DEF Knows, Fits, Inside, AtAsset
<1>5. Recoveries(q)'
  BY <1>2 DEF Recoveries, Inside, AtAsset
<1> QED BY <1>1, <1>4, <1>5 DEF Fits

(* A step outside the lock, or to its end, that changes nothing but the     *)
(* run and the lock.                                                        *)
World == UNCHANGED <<file, legacy, link, upstream, manifest, intent, review, asked, edits>>

NewRun(p) ==
  /\ pc' \in [Procs -> Steps] /\ run' \in [Procs -> RunRecord]
  /\ Others(p)
  /\ run'[p].looked <= Top'
  /\ \A a \in Assets : Template(run'[p].entries[a])

LEMMA RunsSound ==
  ASSUME LockInv, RunsInv, NEW p \in Procs, World, NewRun(p)
  PROVE  TypeOK' /\ Known' /\ Linked' /\ Templates' /\ Told'
<1>1. TypeOK'
  BY DEF RunsInv, TypeOK, World, NewRun
<1>2. Known'
  BY DEF RunsInv, Sound, Known, Top, World, NewRun, Others
<1>3. Linked' /\ Told'
  BY DEF RunsInv, Sound, Linked, Told, World
<1>4. Templates'
  BY DEF RunsInv, Sound, Templates, World, NewRun, Others
<1> QED BY <1>1, <1>2, <1>3, <1>4

LEMMA Aside ==
  ASSUME LockInv, RunsInv, NEW p \in Procs, World, NewRun(p),
         pc[p] \in Holding \/ (late' = late /\ dropped' = dropped),
         pc'[p] \notin Inside \ {"enter"},
         pc'[p] \in Early =>
           (run'[p].kind \in {"accept", "reset"} => run'[p].asset \in Assets)
           /\ run'[p].recovered = Nothing
  PROVE  RunsInv'
<1>1. TypeOK' /\ Known' /\ Linked' /\ Templates' /\ Told'
  BY RunsSound
<1>2. Fits(p)'
  BY DEF Fits, Knows, Recoveries, Early, Inside, AtAsset
<1>3. ASSUME NEW q \in Procs, q # p PROVE Fits(q)'
  <2>1. CASE pc[p] \in Holding
    BY <1>3, <2>1, Outside DEF NewRun
  <2>2. CASE late' = late /\ dropped' = dropped
    <3>1. Fits(q) /\ pc'[q] = pc[q] /\ run'[q] = run[q]
      BY <1>3 DEF RunsInv, Sound, NewRun, Others
    <3>2. Knows(q) => Knows(q)'
      BY <2>2, <3>1 DEF Knows, MayGo, World
    <3>3. Recoveries(q) => Recoveries(q)'
      BY <2>2, <3>1 DEF Recoveries, Redone, Gone, Newer, Up, World
    <3> QED BY <3>1, <3>2, <3>3 DEF Fits
  <2> QED BY <2>1, <2>2
<1> QED BY <1>1, <1>2, <1>3 DEF RunsInv, Sound

(* Runs end, fail and are locked out without touching anything else.        *)
LEMMA EndAside ==
  ASSUME LockInv, RunsInv, NEW p \in Procs, World, End(p),
         pc[p] \in Holding \/ (late' = late /\ dropped' = dropped)
  PROVE  RunsInv'
<1>1. /\ run' \in [Procs -> RunRecord] /\ pc' \in [Procs -> Steps]
      /\ \A q \in Procs : q # p => run'[q] = run[q] /\ pc'[q] = pc[q]
      /\ run'[p] = NoRun /\ pc'[p] = "idle"
  BY EndedRun DEF RunsInv
<1>2. NoRun.looked = 0 /\ NoRun.entries = [a \in Assets |-> NoEntry]
  BY DEF NoRun
<1>3. 0 <= Top'
  BY InitializationAssumption DEF Top, World, RunsInv, TypeOK
<1>4. NewRun(p)
  BY <1>1, <1>2, <1>3 DEF NewRun, Others, Template
<1> QED BY <1>1, <1>4, Aside DEF Early, Inside

(* The run stays as it is, and the process goes to another step.            *)
LEMMA SameRun ==
  ASSUME RunsInv, NEW p \in Procs, NEW l \in Steps, World, Goto(p, l), run' = run
  PROVE  NewRun(p) /\ pc'[p] = l
<1>1. pc \in [Procs -> Steps] /\ run \in [Procs -> RunRecord]
  BY DEF RunsInv, TypeOK
<1>2. run[p].looked <= Top' /\ \A a \in Assets : Template(run[p].entries[a])
  BY DEF RunsInv, Sound, Known, Templates, Top, World
<1> QED BY <1>1, <1>2 DEF NewRun, Others, Goto

LEMMA ThrowAside ==
  ASSUME LockInv, RunsInv, NEW p \in Procs, World, Throw(p),
         pc[p] \in Holding \/ (late' = late /\ dropped' = dropped)
  PROVE  RunsInv'
<1>1. "release" \in Steps /\ "release" \notin Inside \cup Early
  BY DEF Steps, Inside, Early
<1>2. NewRun(p) /\ pc'[p] = "release"
  BY <1>1, SameRun DEF Throw
<1> QED BY <1>1, <1>2, Aside

LEMMA GoneOn ==
  ASSUME LockInv, RunsInv, NEW p \in Procs, NEW l \in Steps, World, Goto(p, l), run' = run,
         pc[p] \in Early, l \notin Inside \ {"enter"}, late' = late, dropped' = dropped
  PROVE  RunsInv'
<1>1. NewRun(p) /\ pc'[p] = l
  BY SameRun
<1>2. Knows(p)
  BY DEF RunsInv, Sound, Fits, Early
<1>3. /\ run[p].kind \in {"accept", "reset"} => run[p].asset \in Assets
      /\ run[p].recovered = Nothing
  BY <1>2 DEF Knows, Early
<1> QED BY <1>1, <1>3, Aside

(* The steps outside of the lock.                                           *)
LEMMA BeginKeeps ==
  ASSUME LockInv, RunsInv, NEW p \in Procs, Begin(p)
  PROVE  RunsInv'
<1> USE InitializationAssumption
<1>1. World /\ late' = late /\ dropped' = dropped /\ runs \in Nat
  BY DEF Begin, World, files, ghosts, LockInv, Shape
<1>2. PICK k \in {"reconcile", "accept", "reset", "keep", "restore"},
           a \in Assets \cup {Nothing} :
        /\ k \in {"accept", "reset"} => a \in Assets
        /\ Know(p, [NoRun EXCEPT !.n = runs + 1, !.kind = k, !.asset = a,
                                 !.inventory = {b \in Assets : upstream[b] # 0}])
  BY DEF Begin
<1> DEFINE inv == {b \in Assets : upstream[b] # 0}
           r == [NoRun EXCEPT !.n = runs + 1, !.kind = k, !.asset = a, !.inventory = inv]
<1>3. /\ r = [n |-> runs + 1, kind |-> k, asset |-> a, inventory |-> inv, entries |-> NoRun.entries,
                left |-> NoRun.left, looked |-> NoRun.looked, to |-> NoRun.to,
                stale |-> NoRun.stale, recovered |-> NoRun.recovered]
      /\ NoRun \in RunRecord
  <2>1. NoRun \in RunRecord
    BY DEF NoRun, RunRecord, Entries
  <2> DEFINE m == runs + 1
  <2>2. r = [NoRun EXCEPT !.n = m, !.kind = k, !.asset = a, !.inventory = inv]
    OBVIOUS
  <2> HIDE DEF inv, m, r
  <2>3. r = [n |-> m, kind |-> k, asset |-> a, inventory |-> inv, entries |-> NoRun.entries,
                left |-> NoRun.left, looked |-> NoRun.looked, to |-> NoRun.to,
                stale |-> NoRun.stale, recovered |-> NoRun.recovered]
    BY <2>1, <2>2 DEF RunRecord
  <2> QED BY <2>1, <2>3 DEF m
<1>4. r \in RunRecord
  <2>1. inv \in SUBSET Assets
    OBVIOUS
  <2> HIDE DEF inv, r
  <2> QED BY <1>1, <1>3, <2>1 DEF RunRecord
<1>5. /\ r.kind = k /\ r.asset = a /\ r.recovered = Nothing /\ r.looked = 0
      /\ r.entries = [b \in Assets |-> NoEntry]
  <2>1. NoRun.recovered = Nothing /\ NoRun.looked = 0 /\ NoRun.entries = [b \in Assets |-> NoEntry]
    BY DEF NoRun
  <2> HIDE DEF r
  <2> QED BY <1>3, <2>1
<1> HIDE DEF r
<1>6. /\ run' = [run EXCEPT ![p] = r] /\ pc' = [pc EXCEPT ![p] = "lock"]
  BY <1>2 DEF Begin, Know, Goto, r
<1>7. /\ run' \in [Procs -> RunRecord] /\ pc' \in [Procs -> Steps]
      /\ Others(p) /\ run'[p] = r /\ pc'[p] = "lock"
  BY <1>4, <1>6 DEF RunsInv, TypeOK, Steps, Others
<1>8. 0 <= Top'
  BY <1>1 DEF Top, World, RunsInv, TypeOK
<1>9. NewRun(p)
  BY <1>5, <1>7, <1>8 DEF NewRun, Template
<1> QED BY <1>1, <1>2, <1>5, <1>7, <1>9, Aside DEF Inside

LEMMA LockingKeeps ==
  ASSUME LockInv, RunsInv, NEW p \in Procs,
         \/ Open(p) \/ MakeRecovery(p) \/ Recheck(p) \/ Reopen(p) \/ Clear(p) \/ Stamp(p)
  PROVE  RunsInv'
<1>1. World /\ late' = late /\ dropped' = dropped
  BY DEF Open, MakeRecovery, Recheck, Reopen, Clear, Stamp, World, files, ghosts, counts
<1>2. CASE End(p)
  BY <1>1, <1>2, EndAside
<1>3. ASSUME NEW l \in {"stamp", "recheck", "reopen", "clear", "enter"}, Goto(p, l),
             run' = run, pc[p] \in Early
      PROVE  RunsInv'
  <2>1. l \in Steps /\ l \notin Inside \ {"enter"}
    BY DEF Steps, Inside
  <2> QED BY <1>1, <1>3, <2>1, GoneOn
<1>4. ASSUME Goto(p, "recover"), Know(p, [run[p] EXCEPT !.stale = lock.token]),
             lock # Nothing, pc[p] \in Early
      PROVE  RunsInv'
  <2>1. lock.token \in Nat /\ run[p] \in RunRecord
    BY <1>4 DEF LockInv, Shape, LockRecord, RunsInv, TypeOK
  <2>2. [run[p] EXCEPT !.stale = lock.token] \in RunRecord
    BY <2>1 DEF RunRecord
  <2>3. /\ run' \in [Procs -> RunRecord] /\ pc' \in [Procs -> Steps] /\ Others(p)
        /\ run'[p] = [run[p] EXCEPT !.stale = lock.token] /\ pc'[p] = "recover"
    BY <1>4, <2>2 DEF RunsInv, TypeOK, Steps, Others, Know, Goto
  <2>4. /\ run'[p].kind = run[p].kind /\ run'[p].asset = run[p].asset
        /\ run'[p].recovered = run[p].recovered /\ run'[p].looked = run[p].looked
        /\ run'[p].entries = run[p].entries
    BY <2>1, <2>3 DEF RunRecord
  <2>5. run[p].looked <= Top' /\ \A a \in Assets : Template(run[p].entries[a])
    BY <1>1 DEF RunsInv, Sound, Known, Templates, Top, World
  <2>6. NewRun(p)
    BY <2>3, <2>4, <2>5 DEF NewRun
  <2>7. Knows(p)
    BY <1>4 DEF RunsInv, Sound, Fits, Early
  <2>8. /\ run[p].kind \in {"accept", "reset"} => run[p].asset \in Assets
        /\ run[p].recovered = Nothing
    BY <1>4, <2>7 DEF Knows, Early
  <2> QED BY <1>1, <2>3, <2>4, <2>6, <2>8, Aside DEF Inside
<1>5. CASE Open(p)
  BY <1>2, <1>3, <1>4, <1>5 DEF Open, Early
<1>6. CASE MakeRecovery(p)
  BY <1>2, <1>3, <1>6 DEF MakeRecovery, Early
<1>7. CASE Recheck(p)
  BY <1>2, <1>3, <1>7 DEF Recheck, Early
<1>8. CASE Reopen(p)
  BY <1>2, <1>3, <1>8 DEF Reopen, Early
<1>9. CASE Clear(p) \/ Stamp(p)
  BY <1>3, <1>9 DEF Clear, Stamp, Early
<1> QED BY <1>5, <1>6, <1>7, <1>8, <1>9

LEMMA LeavingKeeps ==
  ASSUME LockInv, RunsInv, NEW p \in Procs, Release(p) \/ Crash(p)
  PROVE  RunsInv'
<1>1. World
  BY DEF Release, Crash, World, files, counts
<1>2. End(p)
  BY DEF Release, Crash
<1>3. pc[p] \in Holding \/ (late' = late /\ dropped' = dropped)
  BY DEF Release, Crash, Holding
<1> QED BY <1>1, <1>2, <1>3, EndAside

-----------------------------------------------------------------------------
LEMMA HolderKeeps ==
  ASSUME LockInv, RunsInv, NEW p \in Procs, pc[p] \in Holding, Others(p),
         TypeOK', Known', Linked', Templates', Told', Fits(p)'
  PROVE  RunsInv'
BY Outside DEF RunsInv, Sound

Stored ==
  /\ file \in [Assets -> Nat] /\ legacy \in [Assets -> Nat]
  /\ link \in [Assets -> {"none", "link", "moved", "both"}]
  /\ \A a \in Assets : file[a] <= Top /\ legacy[a] <= Top
  /\ Linked

Kept == UNCHANGED <<upstream, manifest, intent, review, asked, late, dropped, edits>>

(* Only the files and what the process knows change.                        *)
LEMMA WorkSound ==
  ASSUME LockInv, RunsInv, NEW p \in Procs, Kept, NewRun(p), Stored'
  PROVE  TypeOK' /\ Known' /\ Linked' /\ Templates' /\ Told'
<1>1. TypeOK'
  BY DEF RunsInv, TypeOK, Kept, NewRun, Stored
<1>2. Known'
  BY DEF RunsInv, Sound, Known, Top, Kept, NewRun, Others, Stored
<1>3. Linked' /\ Told'
  BY DEF RunsInv, Sound, Told, Kept, Stored
<1>4. Templates'
  BY DEF RunsInv, Sound, Templates, Kept, NewRun, Others
<1> QED BY <1>1, <1>2, <1>3, <1>4

LEMMA NowStored == RunsInv => Stored
BY DEF RunsInv, TypeOK, Sound, Known, Stored

(* A reconciliation is done with an asset.                                  *)
LEMMA NextKeeps ==
  ASSUME LockInv, RunsInv, NEW p \in Procs, pc[p] \in AtAsset \cup {"next"},
         NEW a \in Assets, NEW e \in Entries,
         Know(p, Settled(p, a, e)), Goto(p, "next"), Kept, Stored', Template(e),
         run[p].recovered # Nothing => Redone' /\ (a = intent.asset => Up(e))
  PROVE  RunsInv'
<1>1. /\ run' \in [Procs -> RunRecord]
      /\ \A q \in Procs : q # p => run'[q] = run[q]
      /\ run'[p].kind = run[p].kind /\ run'[p].inventory = run[p].inventory
      /\ run'[p].entries = [run[p].entries EXCEPT ![a] = e]
      /\ run'[p].left = run[p].left \ {a}
      /\ run'[p].looked = 0 /\ run'[p].recovered = run[p].recovered
  BY SettledRun DEF RunsInv
<1>2. /\ pc' \in [Procs -> Steps] /\ pc'[p] = "next"
      /\ \A q \in Procs : q # p => pc'[q] = pc[q]
  BY DEF RunsInv, TypeOK, Goto, Steps, Inside
<1>3. /\ run[p] \in RunRecord /\ run[p].entries \in [Assets -> Entries]
      /\ \A b \in Assets : Template(run[p].entries[b])
  BY DEF RunsInv, TypeOK, RunRecord, Sound, Templates
<1>4. 0 <= Top'
  BY InitializationAssumption DEF Top, Kept, RunsInv, TypeOK
<1>5. NewRun(p)
  BY <1>1, <1>2, <1>3, <1>4 DEF NewRun, Others
<1>6. Knows(p) /\ Recoveries(p)
  BY DEF RunsInv, Sound, Fits, AtAsset
<1>7. \A b \in run[p].left \ run[p].inventory : run[p].entries[b] # NoEntry /\ b \in Assets
  BY <1>3, <1>6 DEF Knows, RunRecord
<1>8. Knows(p)'
  <2>1. \A b \in run'[p].left \ run'[p].inventory : run'[p].entries[b] # NoEntry
    BY <1>1, <1>3, <1>7
  <2> QED BY <1>2, <2>1 DEF Knows, AtAsset
<1>9. Recoveries(p)'
  <2> SUFFICES ASSUME run[p].recovered # Nothing
               PROVE  /\ intent # Nothing /\ run[p].recovered = intent.asset
                      /\ intent.asset \in run[p].inventory /\ Newer(upstream[intent.asset])
                      /\ Redone' /\ Up(run'[p].entries[intent.asset])
    BY <1>1, <1>2 DEF Recoveries, AtAsset, Kept, Newer, Up
  <2>1. /\ intent # Nothing /\ run[p].recovered = intent.asset
        /\ intent.asset \in run[p].inventory /\ Newer(upstream[intent.asset])
        /\ Up(run[p].entries[intent.asset])
    BY <1>6 DEF Recoveries
  <2>2. intent.asset \in Assets
    BY <1>3, <2>1 DEF RunRecord
  <2> QED BY <1>1, <1>3, <2>1, <2>2 DEF Up
<1>10. Fits(p)'
  BY <1>8, <1>9 DEF Fits
<1>11. pc[p] \in Holding
  BY DEF AtAsset, Holding, Inside
<1> QED BY <1>5, <1>10, <1>11, WorkSound, HolderKeeps DEF NewRun

(* Types and bounds of the contents.                                        *)
LEMMA FileTypes ==
  ASSUME RunsInv, NEW a \in Assets
  PROVE  /\ file[a] \in Nat /\ legacy[a] \in Nat /\ upstream[a] \in 0..MaxVersion
         /\ file[a] <= Top /\ legacy[a] <= Top
BY DEF RunsInv, TypeOK, Sound, Known

(* A reconciliation has read an asset, and is about to handle it.           *)
LEMMA FetchKeeps ==
  ASSUME LockInv, RunsInv, NEW p \in Procs, pc[p] = "next", NEW a \in Assets, NEW c \in Nat,
         NEW l \in AtAsset, c <= Top,
         Know(p, Fetched(p, a, c)), Goto(p, l), World, UNCHANGED <<late, dropped>>,
         l # "remove" => a \in run[p].inventory /\ upstream[a] # 0,
         /\ l \in {"remove", "create", "move"} => MayGo(file[a])
         /\ l = "remove" => a \notin run[p].inventory
         /\ l \in {"move", "backup"} => c = legacy[a]
         /\ l = "create" => c = 0
         /\ l = "backup" => link[a] = "link"
         /\ l \in {"move", "create", "compare"} => link[a] = "none"
         /\ l = "compare" => c = file[a]
         /\ l \in {"compare", "move", "backup"} => c # 0
         /\ l \in {"remove", "create", "move", "backup", "compare"}
         /\ l = "move" => file[a] = 0
  PROVE  RunsInv'
<1>1. /\ run' \in [Procs -> RunRecord]
      /\ \A q \in Procs : q # p => run'[q] = run[q]
      /\ run'[p].kind = run[p].kind /\ run'[p].inventory = run[p].inventory
      /\ run'[p].entries = run[p].entries
      /\ run'[p].left = run[p].left /\ run'[p].recovered = run[p].recovered
      /\ run'[p].asset = a /\ run'[p].looked = c /\ run'[p].to = upstream[a]
  BY FetchedRun DEF RunsInv
<1>2. /\ pc' \in [Procs -> Steps] /\ pc'[p] = l
      /\ \A q \in Procs : q # p => pc'[q] = pc[q]
  BY DEF RunsInv, TypeOK, Goto, Steps, Inside, AtAsset
<1>3. \A b \in Assets : Template(run[p].entries[b])
  BY DEF RunsInv, Sound, Templates
<1>4. Top' = Top
  BY DEF Top, World
<1>5. NewRun(p)
  BY <1>1, <1>2, <1>3, <1>4 DEF NewRun, Others
<1>6. Knows(p) /\ Recoveries(p)
  BY DEF RunsInv, Sound, Fits, AtAsset
<1>7. Knows(p)'
  <2>1. \A b \in run'[p].left \ run'[p].inventory : run'[p].entries[b] # NoEntry
    BY <1>1, <1>6 DEF Knows
  <2>2. MayGo(file[a])' = MayGo(file[a])
    BY DEF MayGo, World
  <2> QED BY <1>1, <1>2, <2>1, <2>2 DEF Knows, AtAsset, World
<1>8. Recoveries(p)'
  <2>1. run[p].recovered # Nothing =>
          /\ intent # Nothing /\ run[p].recovered = intent.asset
          /\ intent.asset \in run[p].inventory /\ Newer(upstream[intent.asset])
          /\ Redone /\ Up(run[p].entries[intent.asset])
    BY <1>6 DEF Recoveries
  <2>2. run[p].recovered # Nothing => Redone'
    BY <2>1 DEF Redone, Gone, World
  <2>3. run[p].recovered # Nothing /\ a = intent.asset /\ l = "move" => a \in dropped
    BY <2>1 DEF Redone
  <2> QED BY <1>1, <1>2, <2>1, <2>2, <2>3 DEF Recoveries, AtAsset, World, Newer, Up
<1>9. Fits(p)'
  BY <1>7, <1>8 DEF Fits
<1>10. pc[p] \in Holding
  BY DEF Holding, Inside
<1> QED BY <1>5, <1>9, <1>10, RunsSound, HolderKeeps DEF NewRun

(* NextKeeps when no file changes.                                           *)
LEMMA SkipKeeps ==
  ASSUME LockInv, RunsInv, NEW p \in Procs, pc[p] \in AtAsset \cup {"next"},
         NEW a \in Assets, NEW e \in Entries,
         Know(p, Settled(p, a, e)), Goto(p, "next"), World, UNCHANGED <<late, dropped>>,
         UNCHANGED manifest, Template(e),
         run[p].recovered # Nothing => (a = intent.asset => Up(e))
  PROVE  RunsInv'
<1>1. Kept
  BY DEF Kept, World
<1>2. Stored'
  BY NowStored DEF Stored, Linked, Top, World
<1>3. run[p].recovered # Nothing => Redone
  BY DEF RunsInv, Sound, Fits, AtAsset, Recoveries
<1>4. run[p].recovered # Nothing => Redone'
  BY <1>3 DEF Redone, Gone, World
<1> QED BY <1>1, <1>2, <1>4, NextKeeps

(* The looks at the next asset.                                             *)
LEMMA LookRetiredKeeps ==
  ASSUME LockInv, RunsInv, NEW p \in Procs, NEW a \in Assets, LookRetired(p, a)
  PROVE  RunsInv'
<1>1. /\ pc[p] = "next" /\ a \in run[p].left \ run[p].inventory
      /\ World /\ UNCHANGED <<late, dropped>>
  BY DEF LookRetired, World, files, ghosts, counts
<1>2. Knows(p) /\ Recoveries(p) /\ run[p] \in RunRecord
  BY <1>1 DEF RunsInv, Sound, Fits, TypeOK
<1>3. CASE /\ file[a] # 0 /\ Entry(p, a).state = "managed" /\ file[a] = Entry(p, a).installed
           /\ Know(p, Fetched(p, a, file[a])) /\ Goto(p, "remove")
  <2>1. Entry(p, a) # NoEntry /\ Template(Entry(p, a))
    BY <1>1, <1>2 DEF Knows, Entry, RunsInv, Sound, Templates
  <2>2. MayGo(file[a]) /\ file[a] \in Nat /\ file[a] <= Top
    BY <1>3, <2>1, FileTypes DEF Template, MayGo
  <2> QED BY <1>1, <1>3, <2>2, FetchKeeps DEF AtAsset
<1>4. CASE Know(p, Settled(p, a, NoEntry)) /\ UNCHANGED pc
  <2>1. Goto(p, "next")
    BY <1>1, <1>4 DEF Goto, RunsInv, TypeOK
  <2>2. run[p].recovered # Nothing => a # intent.asset
    BY <1>1, <1>2 DEF Recoveries
  <2>3. NoEntry \in Entries /\ Template(NoEntry)
    BY DEF Entries, Template
  <2> QED BY <1>1, <1>4, <2>1, <2>2, <2>3, SkipKeeps DEF World
<1> QED BY <1>1, <1>3, <1>4 DEF LookRetired

LEMMA LookAssetKeeps ==
  ASSUME LockInv, RunsInv, NEW p \in Procs, NEW a \in Assets, LookAsset(p, a)
  PROVE  RunsInv'
<1>1. /\ pc[p] = "next" /\ a \in run[p].inventory
      /\ World /\ UNCHANGED <<late, dropped>>
  BY DEF LookAsset, World, files, ghosts, counts
<1>2. Knows(p) /\ Recoveries(p) /\ run[p] \in RunRecord
  BY <1>1 DEF RunsInv, Sound, Fits, TypeOK
<1>3. /\ file[a] \in Nat /\ legacy[a] \in Nat /\ file[a] <= Top /\ legacy[a] <= Top
  BY FileTypes
<1>4. CASE Throw(p)
  BY <1>1, <1>4, ThrowAside
<1>5. CASE /\ upstream[a] # 0 /\ link[a] = "link" /\ legacy[a] # 0
           /\ Know(p, Fetched(p, a, legacy[a])) /\ Goto(p, "backup")
  BY <1>1, <1>3, <1>5, FetchKeeps DEF AtAsset
<1>6. CASE Know(p, Settled(p, a, Entry(p, a))) /\ UNCHANGED pc
  <2>1. Goto(p, "next")
    BY <1>1, <1>6 DEF Goto, RunsInv, TypeOK
  <2>2. Entry(p, a) \in Entries /\ Template(Entry(p, a))
    BY <1>2 DEF Entry, RunRecord, RunsInv, Sound, Templates
  <2>3. run[p].recovered # Nothing => (a = intent.asset => Up(Entry(p, a)))
    BY <1>1, <1>2 DEF Recoveries, Entry
  <2> QED BY <1>1, <1>6, <2>1, <2>2, <2>3, SkipKeeps DEF World
<1>7. CASE /\ upstream[a] # 0 /\ link[a] = "none" /\ file[a] = 0
           /\ Know(p, Fetched(p, a, legacy[a]))
           /\ Goto(p, IF legacy[a] # 0 THEN "move" ELSE "create")
  <2>1. MayGo(file[a])
    BY <1>7, InitializationAssumption DEF MayGo
  <2>2. CASE legacy[a] # 0
    BY <1>1, <1>3, <1>7, <2>1, <2>2, FetchKeeps DEF AtAsset
  <2>3. CASE legacy[a] = 0
    BY <1>1, <1>3, <1>7, <2>1, <2>3, FetchKeeps DEF AtAsset
  <2> QED BY <2>2, <2>3
<1>8. CASE /\ upstream[a] # 0 /\ link[a] = "none" /\ file[a] # 0
           /\ Know(p, Fetched(p, a, file[a])) /\ Goto(p, "compare")
  BY <1>1, <1>3, <1>8, FetchKeeps DEF AtAsset
<1> QED BY <1>4, <1>5, <1>6, <1>7, <1>8 DEF LookAsset

(* The files change, and the process keeps what it knows.                   *)
LEMMA MoveKeeps ==
  ASSUME LockInv, RunsInv, NEW p \in Procs, pc[p] \in AtAsset \cup {"next"},
         NEW l \in (AtAsset \ {"move"}) \cup {"next"}, l # "next" => pc[p] \in AtAsset,
         run' = run, Goto(p, l), Kept, Stored', Knows(p)',
         run[p].recovered # Nothing => Redone'
  PROVE  RunsInv'
<1>1. /\ run' \in [Procs -> RunRecord] /\ pc' \in [Procs -> Steps] /\ pc'[p] = l
      /\ Others(p)
  BY DEF RunsInv, TypeOK, Goto, Steps, Inside, AtAsset, Others
<1>2. run[p].looked <= Top' /\ \A a \in Assets : Template(run[p].entries[a])
  BY DEF RunsInv, Sound, Known, Templates, Top, Kept
<1>3. NewRun(p)
  BY <1>1, <1>2 DEF NewRun
<1>4. Recoveries(p)
  BY DEF RunsInv, Sound, Fits, AtAsset
<1>5. Recoveries(p)'
  BY <1>1, <1>4 DEF Recoveries, AtAsset, Kept, Newer, Up
<1>6. Fits(p)'
  BY <1>5 DEF Fits
<1>7. pc[p] \in Holding
  BY DEF AtAsset, Holding, Inside
<1> QED BY <1>1, <1>3, <1>6, <1>7, WorkSound, HolderKeeps

(* A recovery that is going on has its intent and its entry.                *)
LEMMA NowRedone ==
  ASSUME RunsInv, NEW p \in Procs, pc[p] \in AtAsset \cup {"next"}, run[p].recovered # Nothing
  PROVE  /\ Redone /\ intent # Nothing /\ run[p].recovered = intent.asset
         /\ intent.asset \in run[p].inventory /\ intent \in IntentRecord
         /\ Up(run[p].entries[intent.asset])
BY DEF RunsInv, Sound, Fits, Recoveries, AtAsset, TypeOK

(* The backup of an interrupted migration is put back, or removed.          *)
LEMMA MendKeeps ==
  ASSUME LockInv, RunsInv, NEW p \in Procs, NEW a \in Assets, Mend(p, a)
  PROVE  RunsInv'
<1>1. /\ pc[p] = "next" /\ run' = run /\ Kept /\ file' = file /\ legacy' = legacy
      /\ link[a] \in {"moved", "both"}
      /\ link' = [link EXCEPT ![a] = IF link[a] = "moved" THEN "link" ELSE "none"]
  BY DEF Mend, Kept, ghosts, counts
<1>2. Goto(p, "next")
  BY <1>1 DEF Mend, Goto, RunsInv, TypeOK
<1>3. link \in [Assets -> {"none", "link", "moved", "both"}] /\ Stored
  BY NowStored DEF RunsInv, TypeOK
<1>4. Linked'
  <2>1. review # Nothing => review.asset \in Assets
    BY DEF RunsInv, TypeOK, ReviewRecord
  <2> QED BY <1>1, <1>3, <2>1 DEF Stored, Linked, Kept
<1>5. Stored'
  BY <1>1, <1>3, <1>4 DEF Stored, Top, Kept
<1>6. run[p].recovered # Nothing => Redone'
  <2> SUFFICES ASSUME run[p].recovered # Nothing PROVE Redone'
    OBVIOUS
  <2>1. Redone /\ intent.asset \in Assets
    BY <1>1, NowRedone DEF IntentRecord
  <2> QED BY <1>1, <1>3, <2>1 DEF Redone, Gone, Kept
<1>7. Knows(p)'
  <2>1. Knows(p)
    BY <1>1 DEF RunsInv, Sound, Fits
  <2>2. pc'[p] = "next"
    BY <1>1, <1>2 DEF Goto, RunsInv, TypeOK
  <2> QED BY <1>1, <2>1, <2>2 DEF Knows, AtAsset
<1> QED BY <1>1, <1>2, <1>5, <1>6, <1>7, MoveKeeps

(* A retired asset is removed: it is not the one of a pending intent, which *)
(* is in the inventory.                                                     *)
LEMMA RemoveKeeps ==
  ASSUME LockInv, RunsInv, NEW p \in Procs, Remove(p)
  PROVE  RunsInv'
<1> DEFINE a == run[p].asset
<1>1. /\ pc[p] = "remove" /\ Kept /\ legacy' = legacy /\ link' = link
      /\ file' = [file EXCEPT ![a] = 0]
      /\ Know(p, Settled(p, a, NoEntry)) /\ Goto(p, "next")
  BY DEF Remove, Kept, ghosts, counts
<1>2. Knows(p)
  BY <1>1 DEF RunsInv, Sound, Fits
<1>3. a \in Assets /\ a \notin run[p].inventory
  BY <1>1, <1>2 DEF Knows, AtAsset
<1>4. Stored
  BY NowStored
<1>5. Top \in Nat
  BY InitializationAssumption DEF Top, RunsInv, TypeOK
<1>6. file' \in [Assets -> Nat] /\ \A b \in Assets : file'[b] \in {file[b], 0}
  BY <1>1, <1>3, <1>4 DEF Stored
<1>7. Stored'
  <2>1. Linked'
    BY <1>1, <1>4, <1>6 DEF Stored, Linked, Kept
  <2> QED BY <1>1, <1>4, <1>5, <1>6, <2>1 DEF Stored, Top, Kept
<1>8. run[p].recovered # Nothing => Redone' /\ a # intent.asset
  <2> SUFFICES ASSUME run[p].recovered # Nothing PROVE Redone' /\ a # intent.asset
    OBVIOUS
  <2>1. Redone /\ intent.asset \in Assets /\ intent.asset \in run[p].inventory
    BY <1>1, NowRedone DEF IntentRecord, AtAsset
  <2> QED BY <1>1, <1>3, <1>4, <2>1 DEF Redone, Gone, Kept, Stored
<1>9. NoEntry \in Entries /\ Template(NoEntry)
  BY DEF Entries, Template
<1> HIDE DEF a
<1> QED BY <1>1, <1>3, <1>7, <1>8, <1>9, NextKeeps DEF AtAsset

(* compareProjectAsset writes a template, never the text of an intent.      *)
LEMMA UpdateKeeps ==
  ASSUME LockInv, RunsInv, NEW p \in Procs, Update(p)
  PROVE  RunsInv'
<1> DEFINE a == run[p].asset
           c == run[p].looked
           v == run[p].to
           e == IF pc[p] = "create" THEN Managed(v) ELSE Compared(Entry(p, a), c, v)
<1>1. /\ pc[p] \in {"create", "compare"} /\ Kept /\ link' = link
      /\ file' \in {file, [file EXCEPT ![a] = v]}
      /\ legacy' \in {legacy, [legacy EXCEPT ![a] = 0]}
      /\ Know(p, Settled(p, a, e)) /\ Goto(p, "next")
  BY DEF Update, Kept, ghosts, counts
<1>2. Knows(p) /\ Recoveries(p) /\ run[p] \in RunRecord
  BY <1>1 DEF RunsInv, Sound, Fits, TypeOK
<1>3. /\ a \in Assets /\ c \in Nat /\ v \in 1..MaxVersion /\ link[a] = "none"
      /\ Entry(p, a) \in Entries /\ Template(Entry(p, a))
  <2>1. a \in Assets /\ v # 0 /\ link[a] = "none"
    BY <1>1, <1>2 DEF Knows, AtAsset
  <2>2. c \in Nat /\ v \in 0..MaxVersion
    BY <1>2 DEF RunRecord
  <2>3. Entry(p, a) \in Entries /\ Template(Entry(p, a))
    BY <1>2, <2>1 DEF RunRecord, Entry, RunsInv, Sound, Templates
  <2> QED BY <2>1, <2>2, <2>3
<1>4. /\ e \in Entries /\ e # NoEntry /\ Template(e)
      /\ e.state = "managed" => e.installed = v
      /\ pc[p] = "create" \/ (Entry(p, a) # NoEntry /\ Entry(p, a).accepted = 0) => e.accepted = 0
  <2>1. CASE pc[p] = "create"
    BY <1>3, <2>1, ManagedEntry DEF Entries
  <2>2. CASE pc[p] = "compare"
    <3>1. e = Compared(Entry(p, a), c, v) /\ v \in 0..MaxVersion
      BY <1>3, <2>2
    <3> HIDE DEF a, c, v, e
    <3> QED BY <1>3, <2>2, <3>1, ComparedEntry DEF Entries
  <2> QED BY <1>1, <2>1, <2>2
<1> HIDE DEF e
<1>5. Stored
  BY NowStored
<1>6. /\ file' \in [Assets -> Nat] /\ \A b \in Assets : file'[b] = file[b] \/ (b = a /\ file'[b] = v)
      /\ legacy' \in [Assets -> Nat] /\ \A b \in Assets : legacy'[b] \in {legacy[b], 0}
  BY <1>1, <1>3, <1>5 DEF Stored
<1>7. Stored'
  <2>1. v <= Top /\ Top \in Nat
    BY <1>3, InitializationAssumption DEF Top, RunsInv, TypeOK
  <2>2. Linked'
    BY <1>1, <1>3, <1>5, <1>6 DEF Stored, Linked, Kept
  <2> QED BY <1>1, <1>5, <1>6, <2>1, <2>2 DEF Stored, Top, Kept
<1>8. run[p].recovered # Nothing => Redone' /\ (a = intent.asset => Up(e))
  <2> SUFFICES ASSUME run[p].recovered # Nothing
               PROVE  Redone' /\ (a = intent.asset => Up(e))
    OBVIOUS
  <2>1. Redone /\ intent \in IntentRecord /\ Up(run[p].entries[intent.asset])
    BY <1>1, NowRedone DEF AtAsset
  <2>2. Redone'
    BY <1>1, <1>3, <1>6, <2>1, InitializationAssumption DEF Redone, Gone, Kept, IntentRecord
  <2>3. ASSUME a = intent.asset PROVE Up(e)
    <3>1. Newer(v)
      BY <1>1, <1>2, <2>3 DEF Recoveries, AtAsset
    <3>2. Entry(p, a) # NoEntry /\ Entry(p, a).accepted = 0
      BY <2>1, <2>3 DEF Up, Entry
    <3> HIDE DEF a, v
    <3> QED BY <1>3, <1>4, <2>1, <3>1, <3>2 DEF Up, Newer, IntentRecord
  <2> QED BY <2>2, <2>3
<1> HIDE DEF a
<1> QED BY <1>1, <1>3, <1>4, <1>7, <1>8, NextKeeps DEF AtAsset

(* What the first look at an asset is worth afterwards.                     *)
LEMMA FirstEntry ==
  ASSUME NEW v \in 0..MaxVersion, NEW c \in Nat
  PROVE  LET e == First(c, v)
         IN  /\ e \in Entries /\ e # NoEntry /\ Template(e) /\ e.accepted = 0
             /\ e.state = "managed" => e.installed = v
<1>1. CASE c = v
  BY <1>1, ManagedEntry DEF First, Entries
<1>2. CASE c # v
  BY <1>2, CustomizedEntry DEF First, Entries
<1> QED BY <1>1, <1>2

(* What is known at each step of handling an asset.                         *)
LEMMA AtAssetFacts ==
  ASSUME RunsInv, NEW p \in Procs, pc[p] \in AtAsset
  PROVE  /\ Knows(p) /\ Recoveries(p) /\ run[p] \in RunRecord /\ run[p].asset \in Assets
         /\ run[p].looked \in Nat /\ run[p].looked <= Top /\ run[p].to \in 0..MaxVersion
         /\ run[p].entries[run[p].asset] \in Entries /\ Template(run[p].entries[run[p].asset])
         /\ \A b \in run[p].left \ run[p].inventory : run[p].entries[b] # NoEntry
<1>1. Knows(p) /\ Recoveries(p) /\ run[p] \in RunRecord
  BY DEF RunsInv, Sound, Fits, TypeOK, AtAsset
<1>2. /\ run[p].asset \in Assets /\ run[p].looked <= Top
      /\ \A b \in run[p].left \ run[p].inventory : run[p].entries[b] # NoEntry
  BY <1>1 DEF Knows, RunsInv, Sound, Known
<1>3. /\ run[p].looked \in Nat /\ run[p].to \in 0..MaxVersion
      /\ run[p].entries[run[p].asset] \in Entries
  BY <1>1, <1>2 DEF RunRecord
<1>4. Template(run[p].entries[run[p].asset])
  BY <1>2 DEF RunsInv, Sound, Templates
<1> QED BY <1>1, <1>2, <1>3, <1>4

(* A text from the old place only comes back over a file that was not       *)
(* there: after a recovery, one that somebody removed.                      *)
LEMMA MoveFileKeeps ==
  ASSUME LockInv, RunsInv, NEW p \in Procs, Move(p), pc[p] \in {"move", "moved"}
  PROVE  RunsInv'
<1> DEFINE a == run[p].asset
           c == run[p].looked
           l == IF pc[p] = "move" THEN "old" ELSE "both"
<1>1. /\ Kept /\ legacy' = legacy /\ run' = run
      /\ file' = [file EXCEPT ![a] = c]
      /\ link' = IF pc[p] = "moved" THEN [link EXCEPT ![a] = "both"] ELSE link
      /\ Goto(p, l)
  BY DEF Move, Kept, ghosts, counts
<1>2. /\ Knows(p) /\ Recoveries(p) /\ a \in Assets /\ c \in Nat /\ c <= Top
      /\ \A b \in run[p].left \ run[p].inventory : run[p].entries[b] # NoEntry
  BY AtAssetFacts DEF AtAsset
<1>3. /\ a \in run[p].inventory /\ run[p].to # 0 /\ c # 0
      /\ legacy[a] = c \/ MayGo(legacy[a])
      /\ pc[p] = "move" => link[a] = "none"
      /\ pc[p] = "moved" => link[a] = "moved"
  BY <1>2 DEF Knows, AtAsset
<1>4. Stored
  BY NowStored
<1>5. /\ file' \in [Assets -> Nat] /\ file'[a] = c
      /\ \A b \in Assets : b # a => file'[b] = file[b]
  BY <1>1, <1>2, <1>4 DEF Stored
<1>6. /\ link' \in [Assets -> {"none", "link", "moved", "both"}]
      /\ link'[a] \in {"none", "both"} /\ \A b \in Assets : b # a => link'[b] = link[b]
      /\ pc[p] = "move" => link'[a] = "none"
  BY <1>1, <1>2, <1>3, <1>4 DEF Stored
<1>7. Linked'
  <2>1. review # Nothing => review.asset \in Assets
    BY DEF RunsInv, TypeOK, ReviewRecord
  <2> QED BY <1>1, <1>2, <1>3, <1>4, <1>5, <1>6, <2>1 DEF Stored, Linked, Kept
<1>8. Stored'
  BY <1>1, <1>2, <1>4, <1>5, <1>6, <1>7 DEF Stored, Top, Kept
<1>9. run[p].recovered # Nothing => Redone'
  <2> SUFFICES ASSUME run[p].recovered # Nothing PROVE Redone'
    OBVIOUS
  <2>1. Redone /\ intent.asset \in Assets
    BY NowRedone DEF IntentRecord, AtAsset
  <2>2. a = intent.asset => pc[p] = "move" /\ a \in dropped
    BY <1>2, <1>3, <2>1 DEF Redone, Recoveries, AtAsset
  <2> HIDE DEF a, c
  <2> QED BY <1>1, <1>5, <1>6, <2>1, <2>2 DEF Redone, Gone, Kept
<1>10. pc'[p] = l
  BY <1>1 DEF Goto, RunsInv, TypeOK
<1>11. Knows(p)'
  <2>1. MayGo(legacy[a])' = MayGo(legacy[a])
    BY <1>1 DEF MayGo, Kept
  <2> QED BY <1>1, <1>2, <1>3, <1>5, <1>10, <2>1 DEF Knows, AtAsset
<1> HIDE DEF a, c
<1> QED BY <1>1, <1>8, <1>9, <1>11, MoveKeeps DEF AtAsset

(* The link is moved away, and its backup removed.                          *)
LEMMA MoveLinkKeeps ==
  ASSUME LockInv, RunsInv, NEW p \in Procs, Move(p), pc[p] \in {"backup", "both"}
  PROVE  RunsInv'
<1> DEFINE a == run[p].asset
           c == run[p].looked
           l == IF pc[p] = "backup" THEN "moved" ELSE "spent"
<1>1. /\ Kept /\ legacy' = legacy /\ run' = run /\ file' = file
      /\ link' = [link EXCEPT ![a] = IF pc[p] = "backup" THEN "moved" ELSE "none"]
      /\ Goto(p, l)
  BY DEF Move, Kept, ghosts, counts
<1>2. /\ Knows(p) /\ Recoveries(p) /\ a \in Assets /\ c \in Nat /\ c <= Top
      /\ \A b \in run[p].left \ run[p].inventory : run[p].entries[b] # NoEntry
  BY AtAssetFacts DEF AtAsset
<1>3. /\ a \in run[p].inventory /\ run[p].to # 0
      /\ legacy[a] = c \/ MayGo(legacy[a])
      /\ pc[p] = "backup" => link[a] = "link" /\ c # 0
      /\ pc[p] = "both" => file[a] = c \/ (MayGo(c) /\ MayGo(file[a]))
  BY <1>2 DEF Knows, AtAsset
<1>4. Stored
  BY NowStored
<1>5. /\ link' \in [Assets -> {"none", "link", "moved", "both"}]
      /\ link'[a] = (IF pc[p] = "backup" THEN "moved" ELSE "none")
      /\ \A b \in Assets : b # a => link'[b] = link[b]
  BY <1>1, <1>2, <1>4 DEF Stored
<1>6. Linked'
  <2>1. review # Nothing => review.asset \in Assets
    BY DEF RunsInv, TypeOK, ReviewRecord
  <2> QED BY <1>1, <1>2, <1>3, <1>4, <1>5, <2>1 DEF Stored, Linked, Kept
<1>7. Stored'
  BY <1>1, <1>4, <1>5, <1>6 DEF Stored, Top, Kept
<1>8. run[p].recovered # Nothing => Redone'
  <2> SUFFICES ASSUME run[p].recovered # Nothing PROVE Redone'
    OBVIOUS
  <2>1. Redone /\ intent.asset \in Assets
    BY NowRedone DEF IntentRecord, AtAsset
  <2> HIDE DEF a, c
  <2> QED BY <1>1, <1>3, <1>5, <2>1 DEF Redone, Gone, Kept
<1>9. pc'[p] = l
  BY <1>1 DEF Goto, RunsInv, TypeOK
<1>10. Knows(p)'
  <2>1. /\ MayGo(legacy[a])' = MayGo(legacy[a]) /\ MayGo(file[a])' = MayGo(file[a])
        /\ MayGo(c)' = MayGo(c)
    BY <1>1 DEF MayGo, Kept
  <2> QED BY <1>1, <1>2, <1>3, <1>5, <1>9, <2>1 DEF Knows, AtAsset
<1> HIDE DEF a, c
<1> QED BY <1>1, <1>7, <1>8, <1>10, MoveKeeps DEF AtAsset

(* The file at the old place goes after the copy is at its destination.     *)
LEMMA MoveEndKeeps ==
  ASSUME LockInv, RunsInv, NEW p \in Procs, Move(p), pc[p] \in {"old", "spent"}
  PROVE  RunsInv'
<1> DEFINE a == run[p].asset
           c == run[p].looked
           e == First(c, run[p].to)
<1>1. /\ Kept /\ file' = file /\ link' = link /\ legacy' = [legacy EXCEPT ![a] = 0]
      /\ Know(p, Settled(p, a, e)) /\ Goto(p, "next")
  BY DEF Move, Kept, ghosts, counts
<1>2. /\ Knows(p) /\ Recoveries(p) /\ a \in Assets /\ c \in Nat /\ run[p].to \in 0..MaxVersion
      /\ run[p].to # 0
  BY AtAssetFacts DEF AtAsset, Knows
<1>3. /\ e \in Entries /\ e # NoEntry /\ Template(e) /\ e.accepted = 0
      /\ e.state = "managed" => e.installed = run[p].to
  BY <1>2, FirstEntry
<1> HIDE DEF e
<1>4. Stored /\ Top \in Nat
  BY NowStored, InitializationAssumption DEF Top, RunsInv, TypeOK
<1>5. legacy' \in [Assets -> Nat] /\ \A b \in Assets : legacy'[b] \in {legacy[b], 0}
  BY <1>1, <1>4 DEF Stored
<1>6. Stored'
  BY <1>1, <1>4, <1>5 DEF Stored, Linked, Top, Kept
<1>7. run[p].recovered # Nothing => Redone' /\ (a = intent.asset => Up(e))
  <2> SUFFICES ASSUME run[p].recovered # Nothing
               PROVE  Redone' /\ (a = intent.asset => Up(e))
    OBVIOUS
  <2>1. Redone /\ intent \in IntentRecord
    BY NowRedone DEF AtAsset
  <2>2. Redone'
    BY <1>1, <2>1 DEF Redone, Gone, Kept
  <2>3. a = intent.asset => Newer(run[p].to)
    BY <1>2 DEF Recoveries, AtAsset
  <2> QED BY <1>2, <1>3, <2>1, <2>2, <2>3 DEF Up, Newer, IntentRecord
<1> HIDE DEF a
<1> QED BY <1>1, <1>2, <1>3, <1>6, <1>7, NextKeeps DEF AtAsset

(* An asset that cannot be handled is left as it was recorded.              *)
LEMMA AssetFailKeeps ==
  ASSUME LockInv, RunsInv, NEW p \in Procs, Fail(p), pc[p] \in AtAsset
  PROVE  RunsInv'
<1> DEFINE a == run[p].asset
           e == IF pc[p] = "spent" THEN First(run[p].looked, run[p].to) ELSE Entry(p, a)
<1>1. /\ Kept /\ file' = file /\ legacy' = legacy
      /\ link' = IF pc[p] = "moved" THEN [link EXCEPT ![a] = "link"] ELSE link
      /\ Know(p, Settled(p, a, e)) /\ Goto(p, "next")
  BY DEF Fail, Kept, ghosts, AtAsset
<1>2. /\ Knows(p) /\ Recoveries(p) /\ a \in Assets /\ run[p].looked \in Nat
      /\ run[p].to \in 0..MaxVersion /\ Entry(p, a) \in Entries /\ Template(Entry(p, a))
  BY AtAssetFacts DEF Entry
<1>3. /\ pc[p] = "spent" => run[p].to # 0
      /\ pc[p] = "moved" => link[a] = "moved"
  BY <1>2 DEF Knows, AtAsset
<1>4. /\ e \in Entries /\ Template(e)
      /\ pc[p] = "spent" => e # NoEntry /\ e.accepted = 0
                            /\ (e.state = "managed" => e.installed = run[p].to)
      /\ pc[p] # "spent" => e = run[p].entries[a]
  BY <1>2, FirstEntry DEF Entry
<1> HIDE DEF e
<1>5. Stored
  BY NowStored
<1>6. /\ link' \in [Assets -> {"none", "link", "moved", "both"}]
      /\ \A b \in Assets : link'[b] = link[b] \/ (link[b] = "moved" /\ link'[b] = "link")
  BY <1>1, <1>2, <1>3, <1>5 DEF Stored
<1>7. Linked'
  <2>1. review # Nothing => review.asset \in Assets
    BY DEF RunsInv, TypeOK, ReviewRecord
  <2> QED BY <1>1, <1>5, <1>6, <2>1 DEF Stored, Linked, Kept
<1>8. Stored'
  BY <1>1, <1>5, <1>6, <1>7 DEF Stored, Top, Kept
<1>9. run[p].recovered # Nothing => Redone' /\ (a = intent.asset => Up(e))
  <2> SUFFICES ASSUME run[p].recovered # Nothing
               PROVE  Redone' /\ (a = intent.asset => Up(e))
    OBVIOUS
  <2>1. Redone /\ intent \in IntentRecord /\ Up(run[p].entries[intent.asset])
    BY NowRedone DEF AtAsset
  <2>2. Redone'
    BY <1>1, <1>6, <2>1 DEF Redone, Gone, Kept, IntentRecord
  <2>3. a = intent.asset => Newer(run[p].to)
    BY <1>2 DEF Recoveries
  <2> QED BY <1>2, <1>3, <1>4, <2>1, <2>2, <2>3 DEF Up, Newer, IntentRecord
<1> HIDE DEF a
<1> QED BY <1>1, <1>2, <1>4, <1>8, <1>9, NextKeeps

-----------------------------------------------------------------------------
(* One field of what a run knows is replaced.                               *)
LEMMA WithAsset ==
  ASSUME NEW r \in RunRecord, NEW x \in Assets \cup {Nothing}
  PROVE  LET d == [r EXCEPT !.asset = x]
         IN  /\ d \in RunRecord /\ d.asset = x /\ d.entries = r.entries /\ d.left = r.left
             /\ d.recovered = r.recovered /\ d.inventory = r.inventory /\ d.looked = r.looked
BY DEF RunRecord

LEMMA WithEntries ==
  ASSUME NEW r \in RunRecord, NEW x \in [Assets -> Entries]
  PROVE  LET d == [r EXCEPT !.entries = x]
         IN  /\ d \in RunRecord /\ d.asset = r.asset /\ d.entries = x /\ d.left = r.left
             /\ d.recovered = r.recovered /\ d.inventory = r.inventory /\ d.looked = r.looked
BY DEF RunRecord

LEMMA WithLeft ==
  ASSUME NEW r \in RunRecord, NEW x \in SUBSET Assets
  PROVE  LET d == [r EXCEPT !.left = x]
         IN  /\ d \in RunRecord /\ d.asset = r.asset /\ d.entries = r.entries /\ d.left = x
             /\ d.recovered = r.recovered /\ d.inventory = r.inventory /\ d.looked = r.looked
BY DEF RunRecord

LEMMA WithRecovered ==
  ASSUME NEW r \in RunRecord, NEW x \in Assets \cup {Nothing}
  PROVE  LET d == [r EXCEPT !.recovered = x]
         IN  /\ d \in RunRecord /\ d.asset = r.asset /\ d.entries = r.entries /\ d.left = r.left
             /\ d.recovered = x /\ d.inventory = r.inventory /\ d.looked = r.looked
BY DEF RunRecord

(* Know replaces what one process knows.                                    *)
LEMMA KnowRun ==
  ASSUME TypeOK, NEW p \in Procs, NEW d \in RunRecord, Know(p, d)
  PROVE  run' \in [Procs -> RunRecord] /\ run'[p] = d /\ \A q \in Procs : q # p => run'[q] = run[q]
BY DEF TypeOK, Know

(* reconcilePrimeClawProject begins, or finds an intent it can recover.     *)
LEMMA EnterKeeps ==
  ASSUME LockInv, RunsInv, NEW p \in Procs, Enter(p)
  PROVE  RunsInv'
<1> DEFINE r == [run[p] EXCEPT !.entries = manifest]
<1>1. /\ pc[p] = "enter" /\ World /\ UNCHANGED <<late, dropped, manifest>>
  BY DEF Enter, World, files, ghosts, counts
<1>2. Knows(p) /\ run[p] \in RunRecord /\ manifest \in [Assets -> Entries]
  BY <1>1 DEF RunsInv, Sound, Fits, TypeOK
<1>0. /\ r \in RunRecord /\ r.asset = run[p].asset /\ r.entries = manifest /\ r.left = run[p].left
      /\ r.recovered = run[p].recovered /\ r.inventory = run[p].inventory /\ r.looked = run[p].looked
  BY <1>2, WithEntries
<1>3. run[p].recovered = Nothing /\ run[p].looked <= Top
  BY <1>1, <1>2 DEF Knows, RunsInv, Sound, Known
<1>4. \A a \in Assets : Template(manifest[a])
  BY DEF RunsInv, Sound, Templates
<1>5. pc[p] \in Holding /\ Top' = Top
  BY <1>1 DEF Holding, Inside, Top, World
<1>6. CASE Throw(p)
  BY <1>1, <1>6, ThrowAside
<1>7. CASE Know(p, [r EXCEPT !.left = Todo(r)]) /\ Goto(p, "next")
  <2> DEFINE ls == Todo(r)
  <2>1. run[p].inventory \in SUBSET Assets
    BY <1>2 DEF RunRecord
  <2>2. ls \in SUBSET Assets /\ \A b \in ls \ run[p].inventory : manifest[b] # NoEntry
    BY <1>0, <2>1 DEF Todo
  <2> DEFINE d == [r EXCEPT !.left = ls]
  <2>4. Know(p, d)
    BY <1>7
  <2> HIDE DEF ls, r
  <2>5. /\ d \in RunRecord /\ d.entries = manifest /\ d.left = ls
        /\ d.recovered = Nothing /\ d.inventory = run[p].inventory /\ d.looked = run[p].looked
    BY <1>0, <1>3, <2>2, WithLeft
  <2> HIDE DEF d
  <2>6. /\ run' \in [Procs -> RunRecord] /\ \A q \in Procs : q # p => run'[q] = run[q]
        /\ run'[p].entries = manifest /\ run'[p].left = ls
        /\ run'[p].recovered = Nothing /\ run'[p].inventory = run[p].inventory
        /\ run'[p].looked = run[p].looked
    BY <2>4, <2>5, KnowRun DEF RunsInv
  <2>7. pc' \in [Procs -> Steps] /\ pc'[p] = "next" /\ \A q \in Procs : q # p => pc'[q] = pc[q]
    BY <1>7 DEF RunsInv, TypeOK, Goto, Steps, Inside
  <2>8. NewRun(p)
    BY <1>3, <1>4, <1>5, <2>6, <2>7 DEF NewRun, Others
  <2>9. Fits(p)'
    BY <2>2, <2>6, <2>7 DEF Fits, Knows, Recoveries, AtAsset
  <2> QED BY <1>1, <1>5, <2>8, <2>9, RunsSound, HolderKeeps DEF NewRun
<1>8. CASE /\ intent # Nothing /\ Recoverable(r)
           /\ Know(p, [r EXCEPT !.asset = intent.asset])
           /\ Goto(p, IF Rewrite THEN "redo" ELSE "redone")
  <2> DEFINE b == intent.asset
             l == IF Rewrite THEN "redo" ELSE "redone"
  <2>1. r.inventory = run[p].inventory /\ intent \in IntentRecord /\ b \in Assets
        /\ intent.to \in 1..MaxVersion
    BY <1>2, <1>8 DEF RunRecord, RunsInv, TypeOK, IntentRecord
  <2>2. /\ b \in run[p].inventory /\ upstream[b] = intent.to /\ link[b] # "link"
        /\ file[b] \in {intent.before, intent.to}
    BY <1>8, <2>1 DEF Recoverable
  <2> DEFINE d == [r EXCEPT !.asset = b]
  <2>4. Know(p, d)
    BY <1>8
  <2> HIDE DEF b, r
  <2>5. /\ d \in RunRecord /\ d.entries = manifest /\ d.asset = b
        /\ d.recovered = Nothing /\ d.inventory = run[p].inventory /\ d.looked = run[p].looked
    BY <1>0, <1>3, <2>1, WithAsset
  <2> HIDE DEF d
  <2>6. /\ run' \in [Procs -> RunRecord] /\ \A q \in Procs : q # p => run'[q] = run[q]
        /\ run'[p].entries = manifest /\ run'[p].asset = b
        /\ run'[p].recovered = Nothing /\ run'[p].inventory = run[p].inventory
        /\ run'[p].looked = run[p].looked
    BY <2>4, <2>5, KnowRun DEF RunsInv
  <2>7. pc' \in [Procs -> Steps] /\ pc'[p] = l /\ \A q \in Procs : q # p => pc'[q] = pc[q]
    BY <1>8 DEF RunsInv, TypeOK, Goto, Steps, Inside
  <2>8. NewRun(p)
    BY <1>3, <1>4, <1>5, <2>6, <2>7 DEF NewRun, Others
  <2>9. Knows(p)'
    <3>1. l = "redo" => MayGo(file[b])
      BY <1>8 DEF Rewrite, RunsInv, Sound, Told, MayGo, b
    <3>2. MayGo(file[b])' = MayGo(file[b]) /\ intent' = intent
      BY <1>1 DEF MayGo, World, b
    <3> QED BY <1>8, <2>6, <2>7, <3>1, <3>2 DEF Knows, AtAsset, b
  <2>10. Recoveries(p)'
    <3>1. Newer(upstream[b])
      BY <2>1, <2>2 DEF Newer
    <3>2. l = "redone" => file[b] = intent.to /\ intent.to # intent.before
      BY <2>2 DEF Rewrite, b
    <3>3. l = "redone" => Gone /\ link[b] # "moved" /\ file[b] # 0
      BY <2>1, <3>2 DEF Gone, b, RunsInv, Sound, Linked
    <3>4. l = "redone" => Gone'
      BY <1>1, <3>3 DEF Gone, World
    <3> QED BY <1>1, <1>8, <2>1, <2>2, <2>6, <2>7, <3>1, <3>3, <3>4
            DEF Recoveries, World, AtAsset, b, Newer
  <2>11. Fits(p)'
    BY <2>9, <2>10 DEF Fits
  <2> QED BY <1>1, <1>5, <2>8, <2>11, RunsSound, HolderKeeps DEF NewRun
<1> QED BY <1>6, <1>7, <1>8 DEF Enter

(* recoverResetIntent: from here on the asset is as the reset wants it.     *)
LEMMA RedoKeeps ==
  ASSUME LockInv, RunsInv, NEW p \in Procs, Redo(p)
  PROVE  RunsInv'
<1> DEFINE b == intent.asset
           r == [run[p] EXCEPT !.entries[b] = Managed(intent.to), !.recovered = b]
<1>1. /\ pc[p] \in {"redo", "redone"} /\ Kept /\ legacy' = legacy
      /\ IF pc[p] = "redo" THEN Write(b, intent.to) ELSE UNCHANGED <<file, link>>
      /\ Know(p, [r EXCEPT !.left = Todo(r), !.asset = Nothing])
      /\ Goto(p, "next")
  BY DEF Redo, Kept, ghosts, counts
<1>2. Knows(p) /\ Recoveries(p) /\ run[p] \in RunRecord
  BY <1>1 DEF RunsInv, Sound, Fits, TypeOK
<1>3. intent # Nothing /\ intent \in IntentRecord /\ b \in Assets /\ intent.to \in 1..MaxVersion
  BY <1>1, <1>2 DEF Knows, RunsInv, TypeOK, IntentRecord
<1>4. /\ b \in run[p].inventory /\ Newer(upstream[b]) /\ link[b] # "link"
      /\ pc[p] = "redone" => Gone /\ link[b] # "moved" /\ (file[b] = 0 => b \in dropped)
  BY <1>1, <1>2 DEF Recoveries
<1>5. Stored /\ run[p].looked <= Top /\ Top' = Top
  BY <1>1, NowStored DEF RunsInv, Sound, Known, Kept, Top
<1>6. /\ file' \in [Assets -> Nat] /\ link' \in [Assets -> {"none", "link", "moved", "both"}]
      /\ file'[b] = (IF pc[p] = "redo" THEN intent.to ELSE file[b])
      /\ link'[b] \in {"none", "both"} /\ (link[b] = "none" => link'[b] = "none")
      /\ \A a \in Assets : a # b => file'[a] = file[a] /\ link'[a] = link[a]
  <2>1. CASE pc[p] = "redo"
    BY <1>1, <1>3, <1>4, <1>5, <2>1 DEF Stored, Write
  <2>2. CASE pc[p] = "redone"
    BY <1>1, <1>3, <1>4, <1>5, <2>2 DEF Stored
  <2> QED BY <1>1, <2>1, <2>2
<1>7. Stored'
  <2>1. review # Nothing => review.asset \in Assets
    BY DEF RunsInv, TypeOK, ReviewRecord
  <2>2. Linked'
    BY <1>1, <1>3, <1>5, <1>6, <2>1 DEF Stored, Linked, Kept
  <2>3. intent.to <= Top
    BY <1>3, InitializationAssumption DEF Top, RunsInv, TypeOK
  <2> HIDE DEF b
  <2> QED BY <1>1, <1>5, <1>6, <2>2, <2>3 DEF Stored
<1>8. Redone'
  <2>1. file'[b] = 0 => b \in dropped
    BY <1>1, <1>3, <1>4, <1>6
  <2>2. intent.before > MaxVersion /\ b \notin dropped => file'[b] # intent.before
    BY <1>1, <1>3, <1>4, <1>6, InitializationAssumption DEF Gone, IntentRecord
  <2> QED BY <1>1, <1>6, <2>1, <2>2 DEF Redone, Gone, Kept
<1> DEFINE es == [run[p].entries EXCEPT ![b] = Managed(intent.to)]
           r0 == [run[p] EXCEPT !.entries = es]
           ls == Todo(r)
           r2 == [r EXCEPT !.left = ls]
           d == [r2 EXCEPT !.asset = Nothing]
<1>9. /\ es \in [Assets -> Entries] /\ es[b] = Managed(intent.to)
      /\ \A a \in Assets : Template(es[a])
  <2>1. /\ Managed(intent.to) \in Entries /\ Template(Managed(intent.to))
        /\ \A a \in Assets : Template(run[p].entries[a])
    BY <1>3, ManagedEntry DEF RunsInv, Sound, Templates, Entries
  <2>2. run[p].entries \in [Assets -> Entries]
    BY <1>2 DEF RunRecord
  <2> QED BY <1>3, <2>1, <2>2
<1>10. r = [r0 EXCEPT !.recovered = b]
  BY <1>2 DEF RunRecord
<1>11. Know(p, d)
  BY <1>1
<1>12. /\ r0 \in RunRecord /\ r0.entries = es /\ r0.inventory = run[p].inventory
       /\ r0.looked = run[p].looked
  <2> HIDE DEF es
  <2> QED BY <1>2, <1>9, WithEntries
<1>13. /\ r \in RunRecord /\ r.entries = es /\ r.inventory = run[p].inventory
       /\ r.looked = run[p].looked /\ r.recovered = b
  <2> HIDE DEF es, r0, r, b
  <2> QED BY <1>3, <1>10, <1>12, WithRecovered
<1> HIDE DEF es, r0, r
<1>14. ls \in SUBSET Assets /\ \A a \in ls \ run[p].inventory : es[a] # NoEntry
  <2>1. run[p].inventory \in SUBSET Assets
    BY <1>2 DEF RunRecord
  <2> QED BY <1>13, <2>1 DEF Todo
<1> HIDE DEF ls
<1>15. /\ r2 \in RunRecord /\ r2.entries = es /\ r2.inventory = run[p].inventory /\ r2.left = ls
       /\ r2.looked = run[p].looked /\ r2.recovered = b
  <2> HIDE DEF b
  <2> QED BY <1>13, <1>14, WithLeft
<1> HIDE DEF r2
<1>16. /\ d \in RunRecord /\ d.entries = es /\ d.inventory = run[p].inventory /\ d.left = ls
       /\ d.looked = run[p].looked /\ d.recovered = b
  <2> HIDE DEF b
  <2> QED BY <1>15, WithAsset
<1> HIDE DEF d
<1>17. /\ run' \in [Procs -> RunRecord] /\ run'[p] = d
       /\ \A q \in Procs : q # p => run'[q] = run[q]
  BY <1>11, <1>16, KnowRun DEF RunsInv
<1>18. pc' \in [Procs -> Steps] /\ pc'[p] = "next" /\ \A q \in Procs : q # p => pc'[q] = pc[q]
  BY <1>1 DEF RunsInv, TypeOK, Goto, Steps, Inside
<1>19. NewRun(p)
  BY <1>5, <1>9, <1>16, <1>17, <1>18 DEF NewRun, Others
<1>20. Up(es[b])
  BY <1>3, <1>9, ManagedEntry DEF Up
<1>21. Knows(p)'
  BY <1>14, <1>16, <1>17, <1>18 DEF Knows, AtAsset
<1>22. Recoveries(p)'
  BY <1>1, <1>3, <1>4, <1>8, <1>16, <1>17, <1>18, <1>20 DEF Recoveries, AtAsset, Kept, Newer, Up
<1>23. Fits(p)'
  BY <1>21, <1>22 DEF Fits
<1>24. pc[p] \in Holding
  BY <1>1 DEF Holding, Inside
<1> QED BY <1>1, <1>7, <1>19, <1>23, <1>24, WorkSound, HolderKeeps DEF NewRun

-----------------------------------------------------------------------------
(* The manifest, the intent or the review changes, and no file.             *)
LEMMA RecordsSound ==
  ASSUME LockInv, RunsInv, NEW p \in Procs, NEW l \in Steps, run' = run, Goto(p, l),
         UNCHANGED <<file, legacy, link, upstream, asked, edits>>,
         manifest' \in [Assets -> Entries], \A a \in Assets : Template(manifest'[a]),
         intent' # Nothing =>
           /\ intent' \in IntentRecord /\ intent'.before <= Top
           /\ intent'.before <= MaxVersion \/ intent'.before \in asked,
         review' \in {review, Nothing}
  PROVE  /\ TypeOK' /\ Known' /\ Linked' /\ Templates' /\ Told'
         /\ Others(p) /\ pc'[p] = l
<1>1. pc' \in [Procs -> Steps] /\ pc'[p] = l /\ Others(p)
  BY DEF RunsInv, TypeOK, Goto, Others
<1>2. TypeOK'
  BY <1>1 DEF RunsInv, TypeOK
<1>3. Known'
  BY DEF RunsInv, Sound, Known, Top
<1>4. Linked' /\ Told'
  BY DEF RunsInv, Sound, Linked, Told
<1>5. Templates'
  BY DEF RunsInv, Sound, Templates
<1> QED BY <1>1, <1>2, <1>3, <1>4, <1>5

(* What is known of a pending intent, and of the manifest.                  *)
LEMMA IntentFacts ==
  RunsInv /\ intent # Nothing =>
    /\ intent \in IntentRecord /\ intent.before <= Top
    /\ intent.before <= MaxVersion \/ intent.before \in asked
BY DEF RunsInv, TypeOK, Sound, Known, Told

LEMMA ManifestFacts == RunsInv => manifest \in [Assets -> Entries] /\ \A a \in Assets : Template(manifest[a])
BY DEF RunsInv, TypeOK, Sound, Templates

(* The manifest is saved with the entry of a recovered asset in it.         *)
LEMMA SaveManifestKeeps ==
  ASSUME LockInv, RunsInv, NEW p \in Procs, SaveManifest(p)
  PROVE  RunsInv'
<1> DEFINE l == IF run[p].recovered # Nothing THEN "settle" ELSE "release"
<1>1. /\ pc[p] = "next" /\ run' = run /\ manifest' = run[p].entries /\ Goto(p, l)
      /\ UNCHANGED <<file, legacy, link, upstream, intent, review, asked, dropped, edits>>
  BY DEF SaveManifest, files, ghosts, counts
<1>2. l \in Steps /\ pc[p] \in Holding
  BY <1>1 DEF Steps, Holding, Inside
<1>3. manifest' \in [Assets -> Entries] /\ \A a \in Assets : Template(manifest'[a])
  <2>1. run[p] \in RunRecord /\ \A a \in Assets : Template(run[p].entries[a])
    BY DEF RunsInv, TypeOK, Sound, Templates
  <2> QED BY <1>1, <2>1 DEF RunRecord
<1> HIDE DEF l
<1>4. /\ TypeOK' /\ Known' /\ Linked' /\ Templates' /\ Told'
      /\ Others(p) /\ pc'[p] = l
  BY <1>1, <1>2, <1>3, IntentFacts, RecordsSound
<1>5. Fits(p)'
  <2>1. CASE run[p].recovered # Nothing
    <3>1. Redone /\ intent # Nothing /\ Up(run[p].entries[intent.asset])
      BY <1>1, <2>1, NowRedone
    <3>2. Gone' /\ Up(manifest[intent.asset])'
      BY <1>1, <3>1 DEF Redone, Gone, Up
    <3> QED BY <1>1, <1>4, <2>1, <3>1, <3>2 DEF Fits, Knows, Recoveries, AtAsset, l
  <2>2. CASE run[p].recovered = Nothing
    BY <1>4, <2>2 DEF Fits, Knows, Recoveries, AtAsset, l
  <2> QED BY <2>1, <2>2
<1> QED BY <1>2, <1>4, <1>5, HolderKeeps

(* The intent is removed.                                                   *)
LEMMA SettleKeeps ==
  ASSUME LockInv, RunsInv, NEW p \in Procs, Settle(p)
  PROVE  RunsInv'
<1>1. /\ pc[p] = "settle" /\ run' = run /\ intent' = Nothing /\ Goto(p, "release")
      /\ UNCHANGED <<file, legacy, link, upstream, manifest, review, asked, edits>>
  BY DEF Settle, files, ghosts, counts
<1>2. "release" \in Steps /\ pc[p] \in Holding
  BY <1>1 DEF Steps, Holding, Inside
<1>3. /\ TypeOK' /\ Known' /\ Linked' /\ Templates' /\ Told'
      /\ Others(p) /\ pc'[p] = "release"
  BY <1>1, <1>2, ManifestFacts, RecordsSound
<1>4. Fits(p)'
  BY <1>3 DEF Fits, Knows, Recoveries, AtAsset
<1> QED BY <1>2, <1>3, <1>4, HolderKeeps

(* What a decision about an asset knows.                                    *)
LEMMA DecisionFacts ==
  ASSUME RunsInv, NEW p \in Procs, pc[p] \in {"accept", "reset", "replace", "record"}
  PROVE  /\ Knows(p) /\ Recoveries(p) /\ run[p] \in RunRecord /\ run[p].asset \in Assets
         /\ run[p].looked \in Nat /\ run[p].looked <= Top /\ run[p].to \in 0..MaxVersion
<1>1. Knows(p) /\ Recoveries(p) /\ run[p] \in RunRecord
  BY DEF RunsInv, Sound, Fits, TypeOK
<1>2. run[p].asset \in Assets /\ run[p].looked <= Top
  BY <1>1 DEF Knows, RunsInv, Sound, Known
<1> QED BY <1>1, <1>2 DEF RunRecord

(* An accepted override is not managed.                                     *)
LEMMA OverrideEntry ==
  ASSUME NEW v \in 0..MaxVersion, NEW c \in Nat
  PROVE  Override(c, v) \in Entries /\ Template(Override(c, v))
BY InitializationAssumption DEF Override, Entries, EntryRecord, Template

(* acceptProjectOverride records the text it has read.                      *)
LEMMA AcceptKeeps ==
  ASSUME LockInv, RunsInv, NEW p \in Procs, Accept(p)
  PROVE  RunsInv'
<1> DEFINE a == run[p].asset
           e == Override(run[p].looked, run[p].to)
<1>1. /\ pc[p] = "accept" /\ run' = run /\ manifest' = [manifest EXCEPT ![a] = e]
      /\ Goto(p, "release")
      /\ UNCHANGED <<file, legacy, link, upstream, intent, review, asked, edits>>
  BY DEF Accept, files, ghosts, counts
<1>2. "release" \in Steps /\ pc[p] \in Holding
  BY <1>1 DEF Steps, Holding, Inside
<1>3. a \in Assets /\ e \in Entries /\ Template(e)
  BY <1>1, DecisionFacts, OverrideEntry
<1> HIDE DEF a, e
<1>4. manifest' \in [Assets -> Entries] /\ \A b \in Assets : Template(manifest'[b])
  BY <1>1, <1>3, ManifestFacts
<1>5. /\ TypeOK' /\ Known' /\ Linked' /\ Templates' /\ Told'
      /\ Others(p) /\ pc'[p] = "release"
  BY <1>1, <1>2, <1>4, IntentFacts, RecordsSound
<1>6. Fits(p)'
  BY <1>5 DEF Fits, Knows, Recoveries, AtAsset
<1> QED BY <1>2, <1>5, <1>6, HolderKeeps

(* resetProjectAsset writes its intent, the template and the manifest.      *)
LEMMA WriteIntentKeeps ==
  ASSUME LockInv, RunsInv, NEW p \in Procs, WriteIntent(p)
  PROVE  RunsInv'
<1> DEFINE a == run[p].asset
           c == run[p].looked
           i == [asset |-> a, before |-> c, to |-> run[p].to]
<1>1. /\ pc[p] = "reset" /\ run' = run /\ intent' = i /\ Goto(p, "replace")
      /\ UNCHANGED <<file, legacy, link, upstream, manifest, review, asked, late, edits>>
  BY DEF WriteIntent, files, ghosts, counts
<1>2. "replace" \in Steps /\ pc[p] \in Holding
  BY <1>1 DEF Steps, Holding, Inside
<1>3. Knows(p) /\ a \in Assets /\ c \in Nat /\ c <= Top /\ run[p].to \in 0..MaxVersion
  BY <1>1, DecisionFacts
<1>4. /\ run[p].to # 0 /\ MayGo(file[a]) /\ link[a] # "link"
      /\ c <= MaxVersion \/ c \in asked
  BY <1>1, <1>3 DEF Knows
<1>5. i \in IntentRecord /\ i.before = c
  BY <1>3, <1>4 DEF IntentRecord
<1> HIDE DEF i
<1>6. /\ TypeOK' /\ Known' /\ Linked' /\ Templates' /\ Told'
      /\ Others(p) /\ pc'[p] = "replace"
  BY <1>1, <1>2, <1>3, <1>4, <1>5, ManifestFacts, RecordsSound
<1>7. Knows(p)'
  <2>1. MayGo(file[a])'
    BY <1>1, <1>4 DEF MayGo
  <2> QED BY <1>1, <1>3, <1>4, <1>6, <2>1 DEF Knows, AtAsset, i
<1>8. Recoveries(p)'
  BY <1>6 DEF Recoveries, AtAsset
<1>9. Fits(p)'
  BY <1>7, <1>8 DEF Fits
<1> QED BY <1>2, <1>6, <1>9, HolderKeeps

LEMMA RecordKeeps ==
  ASSUME LockInv, RunsInv, NEW p \in Procs, Record(p)
  PROVE  RunsInv'
<1> DEFINE a == run[p].asset
           e == Managed(run[p].to)
<1>1. /\ pc[p] = "record" /\ run' = run /\ manifest' = [manifest EXCEPT ![a] = e]
      /\ Goto(p, "settle")
      /\ UNCHANGED <<file, legacy, link, upstream, intent, review, asked, dropped, edits>>
  BY DEF Record, files, ghosts, counts
<1>2. "settle" \in Steps /\ pc[p] \in Holding
  BY <1>1 DEF Steps, Holding, Inside
<1>3. /\ Knows(p) /\ Recoveries(p) /\ a \in Assets /\ run[p].to \in 0..MaxVersion
  BY <1>1, DecisionFacts
<1>4. /\ run[p].to # 0 /\ intent = [asset |-> a, before |-> run[p].looked, to |-> run[p].to]
      /\ Gone
  BY <1>1, <1>3 DEF Knows, Recoveries
<1>5. /\ e \in Entries /\ Template(e) /\ e # NoEntry /\ e.accepted = 0 /\ e.installed = run[p].to
  BY <1>3, ManagedEntry DEF Entries
<1> HIDE DEF e
<1>6. /\ manifest' \in [Assets -> Entries] /\ \A b \in Assets : Template(manifest'[b])
      /\ manifest'[a] = e
  BY <1>1, <1>3, <1>5, ManifestFacts
<1>7. /\ TypeOK' /\ Known' /\ Linked' /\ Templates' /\ Told'
      /\ Others(p) /\ pc'[p] = "settle"
  BY <1>1, <1>2, <1>6, IntentFacts, RecordsSound
<1>8. Fits(p)'
  <2>1. intent.asset = a /\ intent.to = run[p].to
    BY <1>4
  <2>2. Up(manifest[intent.asset])'
    BY <1>1, <1>3, <1>5, <1>6, <2>1 DEF Up
  <2>3. Gone'
    BY <1>1, <1>4 DEF Gone
  <2> QED BY <1>7, <2>2, <2>3 DEF Fits, Knows, Recoveries, AtAsset
<1> QED BY <1>2, <1>7, <1>8, HolderKeeps

(* The evidence of a review is forgotten.                                   *)
LEMMA ForgetKeeps ==
  ASSUME LockInv, RunsInv, NEW p \in Procs, pc[p] \in Holding, Throw(p), review' = Nothing,
         UNCHANGED <<file, legacy, link, upstream, manifest, intent, asked, edits>>
  PROVE  RunsInv'
<1>1. "release" \in Steps
  BY DEF Steps
<1>2. /\ TypeOK' /\ Known' /\ Linked' /\ Templates' /\ Told'
      /\ Others(p) /\ pc'[p] = "release"
  BY <1>1, IntentFacts, ManifestFacts, RecordsSound DEF Throw
<1>3. Fits(p)'
  BY <1>2 DEF Fits, Knows, Recoveries, AtAsset
<1> QED BY <1>2, <1>3, HolderKeeps

LEMMA ReplaceKeeps ==
  ASSUME LockInv, RunsInv, NEW p \in Procs, Replace(p)
  PROVE  RunsInv'
<1> DEFINE a == run[p].asset
           v == run[p].to
<1>1. /\ pc[p] = "replace" /\ run' = run /\ Write(a, v) /\ Goto(p, "record")
      /\ legacy' = legacy /\ Kept
  BY DEF Replace, Kept, ghosts, counts
<1>2. Knows(p) /\ a \in Assets /\ v \in 0..MaxVersion /\ run[p].looked <= Top
  BY <1>1, DecisionFacts
<1>3. /\ v # 0 /\ link[a] # "link" /\ intent = [asset |-> a, before |-> run[p].looked, to |-> v]
  BY <1>1, <1>2 DEF Knows
<1>4. Stored /\ Top' = Top /\ v <= Top
  BY <1>1, <1>2, NowStored, InitializationAssumption DEF Top, Kept, RunsInv, TypeOK
<1>5. /\ file' \in [Assets -> Nat] /\ link' \in [Assets -> {"none", "link", "moved", "both"}]
      /\ file'[a] = v /\ link'[a] \in {"none", "both"} /\ (link[a] = "none" => link'[a] = "none")
      /\ \A b \in Assets : b # a => file'[b] = file[b] /\ link'[b] = link[b]
  BY <1>1, <1>2, <1>3, <1>4 DEF Stored, Write
<1>6. Stored'
  <2>1. review # Nothing => review.asset \in Assets
    BY DEF RunsInv, TypeOK, ReviewRecord
  <2>2. Linked'
    BY <1>1, <1>2, <1>4, <1>5, <2>1 DEF Stored, Linked, Kept
  <2> HIDE DEF a, v
  <2> QED BY <1>1, <1>4, <1>5, <2>2 DEF Stored
<1>7. /\ run' \in [Procs -> RunRecord] /\ pc' \in [Procs -> Steps] /\ pc'[p] = "record"
      /\ Others(p)
  BY <1>1 DEF RunsInv, TypeOK, Goto, Steps, Inside, Others
<1>8. NewRun(p)
  BY <1>1, <1>2, <1>4, <1>7 DEF NewRun, RunsInv, Sound, Templates
<1>9. Gone'
  <2>1. intent.asset = a
    BY <1>3
  <2> QED BY <1>1, <1>2, <1>5, <2>1, InitializationAssumption DEF Gone, Kept
<1>10. Knows(p)'
  BY <1>1, <1>2, <1>3, <1>7 DEF Knows, AtAsset, Kept
<1>11. Fits(p)'
  BY <1>7, <1>9, <1>10 DEF Fits, Recoveries, AtAsset
<1>12. pc[p] \in Holding
  BY <1>1 DEF Holding, Inside
<1> QED BY <1>1, <1>6, <1>7, <1>8, <1>11, <1>12, WorkSound, HolderKeeps

(* acceptProjectOverride and resetProjectAsset read the file; a reset is    *)
(* told to replace what it finds.                                           *)
LEMMA LookDecidedKeeps ==
  ASSUME LockInv, RunsInv, NEW p \in Procs, LookDecided(p)
  PROVE  RunsInv'
<1> DEFINE a == run[p].asset
           l == run[p].kind
<1>1. /\ pc[p] = "enter" /\ l \in {"accept", "reset"}
      /\ UNCHANGED <<file, legacy, link, upstream, manifest, intent, review, late, dropped, edits>>
  BY DEF LookDecided, files, counts
<1>2. Knows(p)
  BY <1>1 DEF RunsInv, Sound, Fits
<1>3. a \in Assets /\ pc[p] \in Holding
  BY <1>1, <1>2 DEF Knows, Holding, Inside
<1>4. CASE Throw(p) /\ UNCHANGED asked
  BY <1>1, <1>3, <1>4, ThrowAside DEF World
<1>5. CASE /\ upstream[a] # 0 /\ link[a] # "link" /\ (l = "reset" => intent = Nothing)
           /\ Know(p, Fetched(p, a, file[a])) /\ Goto(p, l)
           /\ asked' = IF l = "reset" THEN asked \cup Texts({file[a]}) ELSE asked
  <2>1. file[a] \in Nat /\ file[a] <= Top /\ Top' = Top
    BY <1>1, <1>3, FileTypes DEF Top
  <2>2. /\ run' \in [Procs -> RunRecord]
        /\ \A q \in Procs : q # p => run'[q] = run[q]
        /\ run'[p].entries = run[p].entries
        /\ run'[p].asset = a /\ run'[p].looked = file[a] /\ run'[p].to = upstream[a]
    <3> HIDE DEF a, l
    <3> QED BY <1>3, <1>5, <2>1, FetchedRun DEF RunsInv
  <2>3. pc' \in [Procs -> Steps] /\ pc'[p] = l /\ \A q \in Procs : q # p => pc'[q] = pc[q]
    <3> HIDE DEF l, a
    <3> QED BY <1>1, <1>5 DEF RunsInv, TypeOK, Goto, Steps, Inside
  <2>4. NewRun(p)
    BY <2>1, <2>2, <2>3 DEF NewRun, Others, RunsInv, Sound, Templates
  <2>5. TypeOK'
    BY <1>1, <2>2, <2>3 DEF RunsInv, TypeOK
  <2>6. Known' /\ Linked' /\ Templates'
    BY <1>1, <2>1, <2>4 DEF RunsInv, Sound, Known, Linked, Templates, NewRun, Others
  <2>7. Told'
    BY <1>1, <1>5 DEF RunsInv, Sound, Told
  <2>8. l = "reset" => file[a] <= MaxVersion \/ file[a] \in asked'
    BY <1>5, <2>1, InitializationAssumption DEF Texts
  <2>9. Knows(p)'
    <3>1. l = "reset" => MayGo(file[a])'
      BY <1>1, <2>2, <2>8 DEF MayGo
    <3> QED BY <1>1, <1>3, <1>5, <2>2, <2>3, <2>8, <3>1 DEF Knows, AtAsset
  <2>10. Fits(p)'
    BY <1>1, <2>3, <2>9 DEF Fits, Recoveries, AtAsset
  <2> QED BY <1>3, <2>4, <2>5, <2>6, <2>7, <2>10, HolderKeeps DEF NewRun
<1> QED BY <1>4, <1>5 DEF LookDecided

(* recoverTemplateReview puts the original text back.                       *)
LEMMA RecoverKeeps ==
  ASSUME LockInv, RunsInv, NEW p \in Procs, Recover(p)
  PROVE  RunsInv'
<1>1. /\ pc[p] = "enter" /\ pc[p] \in Holding
      /\ UNCHANGED <<legacy, link, upstream, manifest, intent, late, dropped, edits>>
  BY DEF Recover, counts, Holding, Inside
<1>2. CASE review' = Nothing /\ Throw(p) /\ UNCHANGED <<file, asked>>
  BY <1>1, <1>2, ForgetKeeps
<1>3. CASE /\ review # Nothing /\ file' = [file EXCEPT ![review.asset] = review.original]
           /\ asked' = asked \cup Texts({file[review.asset]})
           /\ Goto(p, "restored") /\ UNCHANGED <<review, run>>
  <2>1. /\ review \in ReviewRecord /\ review.asset \in Assets /\ review.original \in Nat
        /\ review.original <= Top /\ link[review.asset] = "none"
    BY <1>3 DEF RunsInv, TypeOK, ReviewRecord, Sound, Known, Linked
  <2>2. /\ file' \in [Assets -> Nat]
        /\ \A a \in Assets : file'[a] = file[a] \/ (a = review.asset /\ file'[a] = review.original)
    BY <1>3, <2>1 DEF RunsInv, TypeOK
  <2>3. pc' \in [Procs -> Steps] /\ pc'[p] = "restored" /\ Others(p)
    BY <1>3 DEF RunsInv, TypeOK, Goto, Steps, Inside, Others
  <2>4. TypeOK'
    BY <1>1, <1>3, <2>2, <2>3 DEF RunsInv, TypeOK
  <2>5. Known'
    BY <1>1, <1>3, <2>1, <2>2 DEF RunsInv, Sound, Known, Top
  <2>6. Linked'
    BY <1>1, <1>3, <2>1, <2>2 DEF RunsInv, Sound, Linked
  <2>7. Templates' /\ Told'
    BY <1>1, <1>3 DEF RunsInv, Sound, Templates, Told
  <2>8. Fits(p)'
    BY <2>3 DEF Fits, Knows, Recoveries, AtAsset
  <2> QED BY <1>1, <2>3, <2>4, <2>5, <2>6, <2>7, <2>8, HolderKeeps
<1> QED BY <1>2, <1>3 DEF Recover

-----------------------------------------------------------------------------
(* What somebody does to a file: the new content is a template or a text    *)
(* that was never there, and what a run had read is not lost without being  *)
(* told.                                                                    *)
LEMMA EditFacts ==
  ASSUME RunsInv, NEW a \in Assets, Edit(a)
  PROVE  /\ edits' = edits + 1 /\ Top' = Top + 1 /\ Top \in Nat
         /\ UNCHANGED <<link, upstream, manifest, intent, review, pc, run, asked>>
         /\ file' \in [Assets -> Nat] /\ legacy' \in [Assets -> Nat]
         /\ \A b \in Assets : b # a => file'[b] = file[b] /\ legacy'[b] = legacy[b]
         /\ file'[a] # file[a] =>
              (file'[a] <= MaxVersion \/ file'[a] = Top') /\ link[a] \in {"none", "both"}
         /\ legacy'[a] # legacy[a] => legacy'[a] <= MaxVersion \/ legacy'[a] = Top'
         /\ late \subseteq late'
         /\ ReadIt(a) /\ file'[a] # file[a] => Texts({file'[a], file[a]}) \subseteq late'
         /\ ReadIt(a) /\ legacy'[a] # legacy[a] => Texts({legacy'[a]}) \subseteq late'
         /\ dropped \subseteq dropped'
         /\ file'[a] = 0 /\ file[a] # 0 /\ UnderWay => a \in dropped'
<1> DEFINE text == MaxVersion + 3 + edits'
<1>1. /\ edits' = edits + 1 /\ edits \in Nat /\ MaxVersion \in Nat
      /\ UNCHANGED <<link, upstream, manifest, intent, review, pc, run, asked>>
      /\ file \in [Assets -> Nat] /\ legacy \in [Assets -> Nat]
  BY InitializationAssumption DEF Edit, RunsInv, TypeOK
<1>2. Top \in Nat /\ Top' = Top + 1 /\ text = Top'
  BY <1>1 DEF Top
<1>3. PICK c \in 0..MaxVersion \cup {text} :
        \/ /\ link[a] \in {"none", "both"}
           /\ file' = [file EXCEPT ![a] = c] /\ UNCHANGED legacy
           /\ dropped' = IF c = 0 /\ UnderWay THEN dropped \cup {a} ELSE dropped
           /\ late' = IF ReadIt(a) THEN late \cup Texts({c, file[a]}) ELSE late
        \/ /\ legacy[a] # 0
           /\ legacy' = [legacy EXCEPT ![a] = c] /\ UNCHANGED <<file, dropped>>
           /\ late' = IF ReadIt(a) THEN late \cup Texts({c, legacy[a]}) ELSE late
  BY DEF Edit
<1>4. c \in Nat /\ (c <= MaxVersion \/ c = Top')
  BY <1>1, <1>2, <1>3
<1> HIDE DEF text
<1>5. CASE /\ link[a] \in {"none", "both"}
           /\ file' = [file EXCEPT ![a] = c] /\ UNCHANGED legacy
           /\ dropped' = IF c = 0 /\ UnderWay THEN dropped \cup {a} ELSE dropped
           /\ late' = IF ReadIt(a) THEN late \cup Texts({c, file[a]}) ELSE late
  BY <1>1, <1>2, <1>4, <1>5
<1>6. CASE /\ legacy[a] # 0
           /\ legacy' = [legacy EXCEPT ![a] = c] /\ UNCHANGED <<file, dropped>>
           /\ late' = IF ReadIt(a) THEN late \cup Texts({c, legacy[a]}) ELSE late
  BY <1>1, <1>2, <1>4, <1>6 DEF Texts
<1> QED BY <1>3, <1>5, <1>6

(* Nobody writes the text of an intent again.                               *)
LEMMA EditGone ==
  ASSUME RunsInv, NEW a \in Assets, Edit(a), Gone, intent.asset \in Assets,
         intent.before \in Nat, intent.before <= Top
  PROVE  Gone'
<1>1. /\ Top' = Top + 1 /\ Top \in Nat /\ intent' = intent
      /\ \A b \in Assets : b # a => file'[b] = file[b]
      /\ file'[a] # file[a] => file'[a] <= MaxVersion \/ file'[a] = Top'
      /\ dropped \subseteq dropped' /\ file' \in [Assets -> Nat]
  BY EditFacts
<1>2. file'[intent.asset] # file[intent.asset] =>
        file'[intent.asset] <= MaxVersion \/ file'[intent.asset] > intent.before
  BY <1>1
<1> QED BY <1>1, <1>2, InitializationAssumption DEF Gone

Later(x) == x <= MaxVersion \/ x \in asked' \/ x \in late'

(* What a run knows survives the edits of others.                           *)
LEMMA EditRuns ==
  ASSUME RunsInv, NEW a \in Assets, Edit(a), NEW p \in Procs, Knows(p)
  PROVE  Knows(p)'
<1> DEFINE b == run[p].asset
<1>1. /\ UNCHANGED <<link, intent, pc, run, asked>> /\ late \subseteq late'
      /\ \A d \in Assets : d # a => file'[d] = file[d] /\ legacy'[d] = legacy[d]
      /\ file'[a] # file[a] => file'[a] <= MaxVersion \/ file'[a] = Top'
      /\ legacy'[a] # legacy[a] => legacy'[a] <= MaxVersion \/ legacy'[a] = Top'
      /\ ReadIt(a) /\ file'[a] # file[a] => Texts({file'[a], file[a]}) \subseteq late'
      /\ ReadIt(a) /\ legacy'[a] # legacy[a] => Texts({legacy'[a]}) \subseteq late'
      /\ file' \in [Assets -> Nat] /\ legacy' \in [Assets -> Nat]
      /\ Top' = Top + 1 /\ Top \in Nat
  BY EditFacts
<1>2. run' = run /\ pc' = pc
  BY <1>1
<1>3. \A x : MayGo(x) => Later(x)
  BY <1>1 DEF MayGo, Later
<1>4. ASSUME pc[p] \in AtAsset \cup {"redo", "reset", "replace"}, b \in Assets
      PROVE  /\ file'[b] = file[b] \/ (Later(file[b]) /\ Later(file'[b]))
             /\ legacy'[b] = legacy[b] \/ Later(legacy'[b])
  <2>1. CASE b # a
    BY <1>1, <1>4, <2>1
  <2>2. CASE b = a
    <3>1. ReadIt(a)
      BY <1>4, <2>2 DEF ReadIt
    <3>2. file'[a] # file[a] => \A x \in {file'[a], file[a]} : x <= MaxVersion \/ x \in late'
      BY <1>1, <3>1, FileTypes, InitializationAssumption DEF Texts
    <3>3. legacy'[a] # legacy[a] => legacy'[a] <= MaxVersion \/ legacy'[a] \in late'
      BY <1>1, <3>1, InitializationAssumption DEF Texts
    <3> QED BY <2>2, <3>2, <3>3 DEF Later
  <2> QED BY <2>1, <2>2
<1>5. /\ MayGo(file[b])' = Later(file'[b]) /\ MayGo(legacy[b])' = Later(legacy'[b])
      /\ MayGo(run[p].looked)' = Later(run[p].looked)
  BY <1>2 DEF MayGo, Later
<1> HIDE DEF b
<1>6. MayGo(file[run[p].asset])' = Later(file'[b]) /\ MayGo(legacy[run[p].asset])' = Later(legacy'[b])
  BY <1>5 DEF b
<1>7. pc[p] \in AtAsset \cup {"redo", "reset", "replace"} => b \in Assets
  BY DEF Knows, b, RunsInv, TypeOK, IntentRecord, AtAsset
<1>8. CASE pc[p] \in AtAsset \cup {"redo", "reset", "replace"}
  <2>1. /\ file'[b] = file[b] \/ (Later(file[b]) /\ Later(file'[b]))
        /\ legacy'[b] = legacy[b] \/ Later(legacy'[b])
    BY <1>4, <1>7, <1>8
  <2>2. /\ pc[p] \in {"redo", "remove", "create", "move", "reset", "replace"} => Later(file'[b])
        /\ pc[p] \in {"backup", "move", "moved", "both", "old", "spent"} =>
             legacy'[b] = run[p].looked \/ Later(legacy'[b])
        /\ pc[p] \in {"compare", "both", "old", "spent"} =>
             file'[b] = run[p].looked \/ (Later(run[p].looked) /\ Later(file'[b]))
    BY <1>3, <2>1 DEF Knows, b
  <2> QED BY <1>1, <1>2, <1>5, <1>6, <1>8, <2>2 DEF Knows, b, AtAsset
<1>9. CASE pc[p] \notin AtAsset \cup {"redo", "reset", "replace"}
  BY <1>1, <1>2, <1>3, <1>9 DEF Knows, AtAsset
<1> QED BY <1>8, <1>9

LEMMA EditRecoveries ==
  ASSUME RunsInv, NEW a \in Assets, Edit(a), NEW p \in Procs, Knows(p), Recoveries(p)
  PROVE  Recoveries(p)'
<1> DEFINE b == intent.asset
<1>1. /\ UNCHANGED <<link, upstream, manifest, intent, pc, run>>
      /\ \A d \in Assets : d # a => file'[d] = file[d]
      /\ dropped \subseteq dropped'
      /\ file'[a] = 0 /\ file[a] # 0 /\ UnderWay => a \in dropped'
  BY EditFacts
<1>2. intent # Nothing => intent \in IntentRecord /\ intent.before <= Top
  BY IntentFacts
<1>3. run[p].looked <= Top /\ run[p] \in RunRecord
  BY DEF RunsInv, TypeOK, Sound, Known
<1>4. pc[p] = "record" => b \in Assets /\ intent.before \in Nat /\ intent.before <= Top
  <2> SUFFICES ASSUME pc[p] = "record"
               PROVE  b \in Assets /\ intent.before \in Nat /\ intent.before <= Top
    OBVIOUS
  <2>1. run[p].asset \in Assets /\ run[p].looked \in Nat
    BY <1>3 DEF Knows, RunRecord
  <2>2. intent = [asset |-> run[p].asset, before |-> run[p].looked, to |-> run[p].to]
    BY DEF Knows
  <2>3. intent.asset = run[p].asset /\ intent.before = run[p].looked
    BY <2>2
  <2> QED BY <1>3, <2>1, <2>3
<1>5. intent # Nothing => b \in Assets /\ intent.before \in Nat /\ intent.before <= Top
  BY <1>2 DEF IntentRecord
<1>6. (pc[p] = "record" \/ intent # Nothing) /\ Gone => Gone'
  BY <1>4, <1>5, EditGone
<1>7. ASSUME intent # Nothing, pc[p] \in Inside, file[b] = 0 => b \in dropped
      PROVE  file'[b] = 0 => b \in dropped'
  <2>1. UnderWay
    BY <1>7 DEF UnderWay
  <2> QED BY <1>1, <1>5, <1>7, <2>1
<1>8. pc[p] \in {"redo", "redone"} => intent # Nothing
  BY DEF Knows
<1>9. CASE pc[p] \in {"redo", "redone"}
  BY <1>1, <1>6, <1>7, <1>8, <1>9 DEF Recoveries, AtAsset, Newer, Inside
<1>10. CASE pc[p] \in AtAsset \cup {"next"}
  <2>1. run[p].recovered # Nothing => Redone'
    BY <1>1, <1>6, <1>7, <1>10 DEF Recoveries, Redone, AtAsset, Inside
  <2> QED BY <1>1, <1>10, <2>1 DEF Recoveries, AtAsset, Newer, Up
<1>11. CASE pc[p] \in {"record", "settle"}
  BY <1>1, <1>6, <1>11 DEF Recoveries, AtAsset, Up
<1>12. CASE pc[p] \notin AtAsset \cup {"redo", "redone", "next", "record", "settle"}
  BY <1>1, <1>12 DEF Recoveries
<1> QED BY <1>9, <1>10, <1>11, <1>12

(* People edit files.                                                       *)
LEMMA EditKeeps ==
  ASSUME RunsInv, NEW a \in Assets, Edit(a)
  PROVE  RunsInv'
<1>0. edits \in Nat /\ MaxVersion \in Nat /\ MaxVersion <= Top
  BY InitializationAssumption DEF Top, RunsInv, TypeOK
<1>1. /\ edits' = edits + 1 /\ Top' = Top + 1 /\ Top \in Nat
      /\ UNCHANGED <<link, upstream, manifest, intent, review, pc, run, asked>>
      /\ file' \in [Assets -> Nat] /\ legacy' \in [Assets -> Nat]
      /\ \A b \in Assets : b # a => file'[b] = file[b] /\ legacy'[b] = legacy[b]
      /\ file'[a] # file[a] =>
           (file'[a] <= MaxVersion \/ file'[a] = Top') /\ link[a] \in {"none", "both"}
      /\ legacy'[a] # legacy[a] => legacy'[a] <= MaxVersion \/ legacy'[a] = Top'
  BY EditFacts
<1>2. TypeOK'
  BY <1>0, <1>1 DEF RunsInv, TypeOK
<1>3. Known'
  <2>1. \A b \in Assets : file'[b] <= Top' /\ legacy'[b] <= Top'
    BY <1>0, <1>1, FileTypes
  <2>2. \A x \in Nat : x <= Top => x <= Top'
    BY <1>1
  <2>3. intent # Nothing => intent.before <= Top'
    BY <1>1, <2>2 DEF RunsInv, TypeOK, IntentRecord, Sound, Known
  <2>4. review # Nothing => review.original <= Top'
    BY <1>1, <2>2 DEF RunsInv, TypeOK, ReviewRecord, Sound, Known
  <2>5. \A p \in Procs : run[p].looked <= Top'
    BY <1>1, <2>2 DEF RunsInv, TypeOK, RunRecord, Sound, Known
  <2> QED BY <1>1, <2>1, <2>3, <2>4, <2>5 DEF Known
<1>4. Linked'
  BY <1>1 DEF RunsInv, Sound, Linked
<1>5. Templates' /\ Told'
  BY <1>1 DEF RunsInv, Sound, Templates, Told
<1>6. \A p \in Procs : Fits(p)'
  BY <1>1, EditRuns, EditRecoveries DEF RunsInv, Sound, Fits
<1> QED BY <1>2, <1>3, <1>4, <1>5, <1>6 DEF RunsInv, Sound

(* The plugin is upgraded.                                                  *)
LEMMA UpgradeKeeps ==
  ASSUME RunsInv, NEW a \in Assets, Upgrade(a)
  PROVE  RunsInv'
<1>1. /\ UNCHANGED <<file, legacy, link, manifest, intent, review, pc, run, asked, late, dropped, edits>>
      /\ upstream \in [Assets -> 0..MaxVersion] /\ upstream[a] # 0
      /\ upstream' = [upstream EXCEPT ![a] = IF upstream[a] < MaxVersion THEN upstream[a] + 1 ELSE 0]
  BY DEF Upgrade, files, ghosts, counts, RunsInv, TypeOK
<1>2. /\ upstream' \in [Assets -> 0..MaxVersion]
      /\ \A b \in Assets : upstream'[b] = upstream[b] \/ upstream'[b] = 0
                            \/ (upstream[b] # 0 /\ upstream'[b] >= upstream[b])
  BY <1>1, InitializationAssumption
<1>3. TypeOK' /\ Known' /\ Linked' /\ Templates' /\ Told'
  BY <1>1, <1>2 DEF RunsInv, TypeOK, Sound, Known, Linked, Templates, Told, Top
<1>4. ASSUME NEW p \in Procs, Knows(p), Recoveries(p) PROVE Knows(p)' /\ Recoveries(p)'
  <2>1. Knows(p)'
    BY <1>1, <1>4 DEF Knows, MayGo
  <2>2. intent # Nothing /\ Newer(upstream[intent.asset]) => Newer(upstream[intent.asset])'
    <3> SUFFICES ASSUME intent # Nothing, Newer(upstream[intent.asset])
                 PROVE  Newer(upstream[intent.asset])'
      OBVIOUS
    <3>1. intent.asset \in Assets /\ intent.to \in 1..MaxVersion
      BY IntentFacts DEF IntentRecord
    <3>2. upstream[intent.asset] \in Nat /\ upstream'[intent.asset] \in Nat
      BY <1>1, <1>2, <3>1, InitializationAssumption
    <3> QED BY <1>1, <1>2, <3>1, <3>2 DEF Newer
  <2>3. pc[p] \in {"redo", "redone"} => intent # Nothing
    BY <1>4 DEF Knows
  <2>4. Recoveries(p)'
    <3>1. Gone' = Gone /\ Redone' = Redone
      BY <1>1 DEF Gone, Redone
    <3> QED BY <1>1, <1>4, <2>2, <2>3, <3>1 DEF Recoveries, Newer, Up
  <2> QED BY <2>1, <2>4
<1>5. \A p \in Procs : Fits(p)'
  BY <1>1, <1>4 DEF RunsInv, Sound, Fits
<1> QED BY <1>3, <1>5 DEF RunsInv, Sound

(* A step that changes neither files nor records nor runs.                  *)
LEMMA SameKeeps ==
  ASSUME RunsInv, World, UNCHANGED <<late, dropped, pc, run>>
  PROVE  RunsInv'
BY DEF RunsInv, TypeOK, Sound, Known, Linked, Templates, Told, Top, Fits, Knows, Recoveries, Redone,
       Gone, MayGo, Newer, Up, World

(* Operations fail.                                                         *)
LEMMA FailKeeps ==
  ASSUME LockInv, RunsInv, NEW p \in Procs, Fail(p)
  PROVE  RunsInv'
<1>1. UNCHANGED <<file, legacy, upstream, manifest, intent, review, asked, late, dropped, edits>>
  BY DEF Fail, ghosts
<1>2. CASE pc[p] \in AtAsset
  BY <1>2, AssetFailKeeps
<1>3. CASE pc[p] \in Inside \ AtAsset /\ Throw(p) /\ link' = link
  BY <1>1, <1>3, ThrowAside DEF World
<1>4. CASE End(p) /\ link' = link
  BY <1>1, <1>4, EndAside DEF World
<1> QED BY <1>2, <1>3, <1>4 DEF Fail

LEMMA RunsStep == LockInv /\ RunsInv /\ [Next]_vars => RunsInv'
<1> SUFFICES ASSUME LockInv, RunsInv, [Next]_vars PROVE RunsInv'
  OBVIOUS
<1>1. CASE UNCHANGED vars
  BY <1>1, SameKeeps DEF vars, files, locks, ghosts, counts, World
<1>2. ASSUME NEW p \in Procs,
             \/ Begin(p) \/ Open(p) \/ MakeRecovery(p) \/ Recheck(p) \/ Reopen(p) \/ Clear(p)
             \/ Stamp(p) \/ Release(p) \/ Crash(p)
      PROVE  RunsInv'
  BY <1>2, BeginKeeps, LockingKeeps, LeavingKeeps
<1>3. ASSUME NEW p \in Procs,
             \/ Enter(p) \/ Redo(p) \/ \E a \in Assets : LookRetired(p, a) \/ Mend(p, a) \/ LookAsset(p, a)
             \/ Remove(p) \/ Update(p) \/ SaveManifest(p) \/ Settle(p)
      PROVE  RunsInv'
  BY <1>3, EnterKeeps, RedoKeeps, LookRetiredKeeps, MendKeeps, LookAssetKeeps, RemoveKeeps, UpdateKeeps,
     SaveManifestKeeps, SettleKeeps
<1>4. ASSUME NEW p \in Procs, Move(p)
      PROVE  RunsInv'
  <2>1. pc[p] \in {"move", "backup", "moved", "both", "old", "spent"}
    BY <1>4 DEF Move
  <2> QED BY <1>4, <2>1, MoveFileKeeps, MoveLinkKeeps, MoveEndKeeps
<1>5. ASSUME NEW p \in Procs, Forget(p)
      PROVE  RunsInv'
  BY <1>5, ForgetKeeps DEF Forget, files, ghosts, counts, Holding, Inside
<1>6. ASSUME NEW p \in Procs,
             \/ LookDecided(p) \/ Accept(p) \/ WriteIntent(p) \/ Replace(p) \/ Record(p) \/ Recover(p)
             \/ Fail(p)
      PROVE  RunsInv'
  BY <1>6, LookDecidedKeeps, AcceptKeeps, WriteIntentKeeps, ReplaceKeeps, RecordKeeps, RecoverKeeps,
     FailKeeps
<1>7. CASE \E a \in Assets : Edit(a) \/ Upgrade(a)
  BY <1>7, EditKeeps, UpgradeKeeps
<1>8. CASE Episode
  BY <1>8, SameKeeps DEF Episode, files, ghosts, counts, World
<1> QED BY <1>1, <1>2, <1>3, <1>4, <1>5, <1>6, <1>7, <1>8 DEF Next

(* All of it together: the records of the lock, and what the runs know.     *)
InitializationInv == LockInv /\ RunsInv

LEMMA InitializationInvariant == Spec => []InitializationInv
<1>1. Init => InitializationInv
  BY LockInit, TypeInit, SoundInit DEF InitializationInv, RunsInv
<1>2. InitializationInv /\ [Next]_vars => InitializationInv'
  BY LockStep, RunsStep DEF InitializationInv
<1> QED BY <1>1, <1>2, PTL DEF Spec

-----------------------------------------------------------------------------
(* The contents, records and steps are of their types in every reachable    *)
(* state: the files and entries, the intent on disk, and what each run      *)
(* knows.                                                                   *)
THEOREM InitializationTyped == Spec => []TypeOK
<1>1. InitializationInv => TypeOK
  BY DEF InitializationInv, RunsInv
<1> QED BY <1>1, InitializationInvariant, PTL

(* The text x is accounted for in a step.                                   *)
Spared(x) == Holds(x)' \/ x \in asked' \cup late

LEMMA Unchanged ==
  ASSUME file' = file, legacy' = legacy, NEW x, Holds(x)
  PROVE  Spared(x)
BY DEF Holds, Spared

(* When the files of one asset change, the text it had there is accounted   *)
(* for, or was not a text.                                                  *)
LEMMA Replaced ==
  ASSUME RunsInv, NEW a \in Assets,
         \A b \in Assets : b # a => file'[b] = file[b] /\ legacy'[b] = legacy[b],
         asked \subseteq asked',
         file'[a] = file[a] \/ legacy'[a] = file[a] \/ MayGo(file[a]) \/ file[a] \in asked',
         legacy'[a] = legacy[a] \/ file'[a] = legacy[a] \/ MayGo(legacy[a]),
         NEW x, Holds(x), x > MaxVersion
  PROVE  Spared(x)
<1>1. PICK b \in Assets : x \in {file[b], legacy[b]}
  BY DEF Holds
<1>2. x \in Nat
  BY <1>1, FileTypes
<1>3. MayGo(x) => x \in asked' \cup late
  BY <1>2, InitializationAssumption DEF MayGo
<1>4. CASE b # a
  BY <1>1, <1>4 DEF Holds, Spared
<1>5. CASE b = a
  BY <1>1, <1>3, <1>5 DEF Holds, Spared
<1> QED BY <1>4, <1>5

(* An update, or the removal of a copy at the old place, only replaces a    *)
(* template, or a text that is kept elsewhere or was written since the run  *)
(* had read the asset.                                                      *)
LEMMA UpdateSpares ==
  ASSUME LockInv, RunsInv, NEW p \in Procs, Update(p), NEW x, Holds(x), x > MaxVersion
  PROVE  Spared(x)
<1> DEFINE a == run[p].asset
           c == run[p].looked
           v == run[p].to
           e == IF pc[p] = "create" THEN Managed(v) ELSE Compared(Entry(p, a), c, v)
<1>1. /\ pc[p] \in {"create", "compare"} /\ asked' = asked
      /\ file' = IF e.state = "managed" /\ c # v THEN [file EXCEPT ![a] = v] ELSE file
      /\ legacy' = IF pc[p] = "compare" /\ legacy[a] = c THEN [legacy EXCEPT ![a] = 0] ELSE legacy
  BY DEF Update, ghosts
<1>2. /\ Knows(p) /\ a \in Assets /\ c \in Nat /\ v \in 0..MaxVersion
      /\ Entry(p, a) \in Entries /\ Template(Entry(p, a))
  BY <1>1, AtAssetFacts DEF AtAsset, Entry
<1>3. /\ pc[p] = "create" => MayGo(file[a])
      /\ pc[p] = "compare" => file[a] = c \/ (MayGo(c) /\ MayGo(file[a]))
  BY <1>2 DEF Knows
<1>4. pc[p] = "compare" /\ e.state = "managed" /\ c # v => c <= MaxVersion
  <2> SUFFICES ASSUME pc[p] = "compare", e.state = "managed", c # v PROVE c <= MaxVersion
    OBVIOUS
  <2>1. e = Compared(Entry(p, a), c, v)
    OBVIOUS
  <2> HIDE DEF a, c, v, e
  <2> QED BY <1>2, <2>1, ComparedEntry
<1> HIDE DEF e
<1>5. file \in [Assets -> Nat] /\ legacy \in [Assets -> Nat]
  BY DEF RunsInv, TypeOK
<1>6. \A b \in Assets : b # a => file'[b] = file[b] /\ legacy'[b] = legacy[b]
  BY <1>1, <1>5
<1>7. file'[a] = file[a] \/ MayGo(file[a])
  <2>1. c <= MaxVersion => MayGo(c)
    BY DEF MayGo
  <2> QED BY <1>1, <1>3, <1>4, <2>1
<1>8. legacy'[a] = legacy[a] \/ file'[a] = legacy[a] \/ MayGo(legacy[a])
  <2> SUFFICES ASSUME pc[p] = "compare", legacy[a] = c, ~MayGo(c)
               PROVE  file'[a] = c
    BY <1>1
  <2>1. file[a] = c /\ file' = file
    BY <1>1, <1>3, <1>4 DEF MayGo
  <2> QED BY <2>1
<1> HIDE DEF a
<1> QED BY <1>1, <1>2, <1>6, <1>7, <1>8, Replaced

(* A migration copies before it removes.                                    *)
LEMMA MoveSpares ==
  ASSUME LockInv, RunsInv, NEW p \in Procs, Move(p), NEW x, Holds(x), x > MaxVersion
  PROVE  Spared(x)
<1> DEFINE a == run[p].asset
           c == run[p].looked
<1>1. /\ pc[p] \in {"move", "backup", "moved", "both", "old", "spent"} /\ asked' = asked
      /\ file' = IF pc[p] \in {"move", "moved"} THEN [file EXCEPT ![a] = c] ELSE file
      /\ legacy' = IF pc[p] \in {"old", "spent"} THEN [legacy EXCEPT ![a] = 0] ELSE legacy
  BY DEF Move, ghosts
<1>2. Knows(p) /\ a \in Assets
  BY <1>1, AtAssetFacts DEF AtAsset
<1>3. file \in [Assets -> Nat] /\ legacy \in [Assets -> Nat]
  BY DEF RunsInv, TypeOK
<1>4. \A b \in Assets : b # a => file'[b] = file[b] /\ legacy'[b] = legacy[b]
  BY <1>1, <1>3
<1>5. pc[p] = "moved" => file[a] = 0 /\ MayGo(file[a])
  <2>1. pc[p] = "moved" => link[a] = "moved"
    BY <1>2 DEF Knows
  <2>2. MayGo(0)
    BY InitializationAssumption DEF MayGo
  <2> QED BY <1>2, <2>1, <2>2 DEF RunsInv, Sound, Linked
<1>6. pc[p] = "move" => MayGo(file[a])
  BY <1>2 DEF Knows
<1>7. pc[p] \in {"old", "spent"} =>
        /\ legacy[a] = c \/ MayGo(legacy[a])
        /\ file[a] = c \/ MayGo(c)
  BY <1>2 DEF Knows
<1> HIDE DEF a, c
<1>8. /\ file'[a] = file[a] \/ MayGo(file[a])
      /\ legacy'[a] = legacy[a] \/ file'[a] = legacy[a] \/ MayGo(legacy[a])
  BY <1>1, <1>5, <1>6, <1>7
<1> QED BY <1>1, <1>2, <1>4, <1>8, Replaced

(* A recovery and a reset replace what they were told to, a retirement what *)
(* was installed.                                                           *)
LEMMA WritesSpare ==
  ASSUME LockInv, RunsInv, NEW p \in Procs, NEW x, Holds(x), x > MaxVersion,
         Redo(p) \/ Remove(p) \/ Replace(p) \/ Recover(p)
  PROVE  Spared(x)
<1>1. file \in [Assets -> Nat] /\ legacy \in [Assets -> Nat]
  BY DEF RunsInv, TypeOK
<1>2. CASE Redo(p)
  <2>1. legacy' = legacy /\ asked' = asked /\ pc[p] \in {"redo", "redone"}
    BY <1>2 DEF Redo, ghosts
  <2>2. CASE pc[p] = "redone"
    BY <1>2, <2>1, <2>2, Unchanged DEF Redo
  <2>3. CASE pc[p] = "redo"
    <3>1. Knows(p) /\ file' = [file EXCEPT ![intent.asset] = intent.to]
      BY <1>2, <2>3 DEF Redo, Write, RunsInv, Sound, Fits
    <3>2. intent.asset \in Assets /\ MayGo(file[intent.asset])
      BY <2>3, <3>1 DEF Knows, RunsInv, TypeOK, IntentRecord
    <3> QED BY <1>1, <2>1, <3>1, <3>2, Replaced
  <2> QED BY <2>1, <2>2, <2>3
<1>3. CASE Remove(p)
  <2>1. /\ legacy' = legacy /\ asked' = asked /\ pc[p] = "remove"
        /\ file' = [file EXCEPT ![run[p].asset] = 0]
    BY <1>3 DEF Remove, ghosts
  <2>2. run[p].asset \in Assets /\ MayGo(file[run[p].asset])
    BY <2>1, AtAssetFacts DEF AtAsset, Knows
  <2> QED BY <1>1, <2>1, <2>2, Replaced
<1>4. CASE Replace(p)
  <2>1. /\ legacy' = legacy /\ asked' = asked /\ pc[p] = "replace"
        /\ file' = [file EXCEPT ![run[p].asset] = run[p].to]
    BY <1>4 DEF Replace, Write, ghosts
  <2>2. run[p].asset \in Assets /\ MayGo(file[run[p].asset])
    BY <2>1, DecisionFacts DEF Knows
  <2> QED BY <1>1, <2>1, <2>2, Replaced
<1>5. CASE Recover(p)
  <2>1. CASE /\ review # Nothing /\ file' = [file EXCEPT ![review.asset] = review.original]
             /\ asked' = asked \cup Texts({file[review.asset]}) /\ legacy' = legacy
    <3>1. review.asset \in Assets /\ file[review.asset] \in Nat
      BY <1>1, <2>1 DEF RunsInv, TypeOK, ReviewRecord
    <3>2. MayGo(file[review.asset]) \/ file[review.asset] \in asked'
      BY <2>1, <3>1, InitializationAssumption DEF MayGo, Texts
    <3> QED BY <1>1, <2>1, <3>1, <3>2, Replaced
  <2>2. CASE file' = file /\ legacy' = legacy
    BY <2>2, Unchanged
  <2> QED BY <1>5, <2>1, <2>2 DEF Recover
<1> QED BY <1>2, <1>3, <1>4, <1>5

(* No step but an edit loses a text.                                        *)
LEMMA StepSpares ==
  ASSUME InitializationInv, Next, edits' = edits, NEW x, Holds(x), x > MaxVersion
  PROVE  Spared(x)
<1> USE DEF InitializationInv
<1>1. CASE \E a \in Assets : Edit(a)
  BY <1>1 DEF Edit, RunsInv, TypeOK
<1>2. CASE \/ \E a \in Assets : Upgrade(a)
           \/ Episode
  BY <1>2, Unchanged DEF Upgrade, Episode, files
<1>3. ASSUME NEW p \in Procs,
             \/ Begin(p) \/ Open(p) \/ MakeRecovery(p) \/ Recheck(p) \/ Reopen(p) \/ Clear(p)
             \/ Stamp(p) \/ Release(p) \/ Enter(p)
             \/ \E a \in Assets : LookRetired(p, a) \/ Mend(p, a) \/ LookAsset(p, a)
             \/ SaveManifest(p) \/ Settle(p)
             \/ LookDecided(p) \/ Accept(p) \/ WriteIntent(p) \/ Record(p)
             \/ Forget(p) \/ Fail(p) \/ Crash(p)
      PROVE  Spared(x)
  <2>1. file' = file /\ legacy' = legacy
    BY <1>3 DEF Begin, Open, MakeRecovery, Recheck, Reopen, Clear, Stamp, Release, Enter,
       LookRetired, Mend, LookAsset, SaveManifest, Settle, LookDecided, Accept, WriteIntent,
       Record, Forget, Fail, Crash, files
  <2> QED BY <2>1, Unchanged
<1>4. ASSUME NEW p \in Procs, Update(p) \/ Move(p)
      PROVE  Spared(x)
  BY <1>4, UpdateSpares, MoveSpares
<1>5. ASSUME NEW p \in Procs, Redo(p) \/ Remove(p) \/ Replace(p) \/ Recover(p)
      PROVE  Spared(x)
  BY <1>5, WritesSpare
<1> QED BY <1>1, <1>2, <1>3, <1>4, <1>5 DEF Next

(* However many processes reconcile, accept, reset and recover, however     *)
(* people edit, and wherever runs fail or die, a text that somebody wrote   *)
(* leaves the project only by an edit, or because a reset or restoration    *)
(* was told to replace it, or because it was written or replaced after the  *)
(* run had read the asset (compareProjectAsset,                             *)
(* migrateExpectedSkillSymlink, recoverResetIntent).                        *)
THEOREM CustomizationsKept == Spec => CustomizationKept
<1>1. InitializationInv /\ [Next]_vars =>
        [edits' = edits =>
           \A x \in Texts({file[a] : a \in Assets} \cup {legacy[a] : a \in Assets}) :
             Holds(x)' \/ x \in asked' \cup late]_vars
  <2> SUFFICES ASSUME InitializationInv, Next, edits' = edits,
                      NEW x \in Texts({file[a] : a \in Assets} \cup {legacy[a] : a \in Assets})
               PROVE  Holds(x)' \/ x \in asked' \cup late
    OBVIOUS
  <2>1. Holds(x) /\ x > MaxVersion
    BY DEF Texts, Holds
  <2> QED BY <2>1, StepSpares DEF Spared
<1> QED BY <1>1, InitializationInvariant, PTL DEF Spec, CustomizationKept

(* The step that settles an intent.                                         *)
LEMMA OnlySettle ==
  ASSUME InitializationInv, Next, intent # Nothing, intent' = Nothing
  PROVE  \E p \in Procs : Settle(p)
<1>1. CASE \E p \in Procs : WriteIntent(p)
  BY <1>1 DEF WriteIntent, InitializationInv, RunsInv, Sound, Fits, Knows
<1>2. ASSUME NEW p \in Procs,
             \/ Begin(p) \/ Open(p) \/ MakeRecovery(p) \/ Recheck(p) \/ Reopen(p) \/ Clear(p)
             \/ Stamp(p) \/ Release(p) \/ Enter(p) \/ Redo(p)
             \/ \E a \in Assets : LookRetired(p, a) \/ Mend(p, a) \/ LookAsset(p, a)
             \/ Remove(p) \/ Update(p) \/ Move(p) \/ SaveManifest(p)
             \/ LookDecided(p) \/ Accept(p) \/ Replace(p) \/ Record(p) \/ Recover(p)
             \/ Forget(p) \/ Fail(p) \/ Crash(p)
      PROVE  intent' = intent
  BY <1>2 DEF Begin, Open, MakeRecovery, Recheck, Reopen, Clear, Stamp, Release, Enter, Redo,
     LookRetired, Mend, LookAsset, Remove, Update, Move, SaveManifest, LookDecided, Accept,
     Replace, Record, Recover, Forget, Fail, Crash
<1>3. CASE Episode \/ \E a \in Assets : Edit(a) \/ Upgrade(a)
  BY <1>3 DEF Edit, Upgrade, Episode
<1> QED BY <1>1, <1>2, <1>3 DEF Next

(* Whoever settles a reset intent (resetProjectAsset itself, or a later     *)
(* recoverResetIntent), the text it was to replace is gone, unless somebody *)
(* has removed the file during the recovery, and the manifest neither       *)
(* accepts a text nor manages an older template.                            *)
THEOREM ResetsSettle == Spec => ResetSettled
<1>1. InitializationInv /\ [Next]_vars =>
        [intent # Nothing /\ intent' = Nothing =>
           /\ intent.before > MaxVersion /\ intent.asset \notin dropped =>
                file[intent.asset] # intent.before
           /\ manifest[intent.asset] # NoEntry
           /\ manifest[intent.asset].accepted = 0
           /\ manifest[intent.asset].state = "managed" =>
                manifest[intent.asset].installed >= intent.to]_vars
  <2> SUFFICES ASSUME InitializationInv, Next, intent # Nothing, intent' = Nothing
               PROVE  /\ intent.before > MaxVersion /\ intent.asset \notin dropped =>
                           file[intent.asset] # intent.before
                      /\ manifest[intent.asset] # NoEntry
                      /\ manifest[intent.asset].accepted = 0
                      /\ manifest[intent.asset].state = "managed" =>
                           manifest[intent.asset].installed >= intent.to
    OBVIOUS
  <2>1. PICK p \in Procs : Settle(p)
    BY OnlySettle
  <2>2. pc[p] = "settle"
    BY <2>1 DEF Settle
  <2>3. Gone /\ Up(manifest[intent.asset])
    BY <2>2 DEF InitializationInv, RunsInv, Sound, Fits, Recoveries
  <2> QED BY <2>3 DEF Gone, Up
<1> QED BY <1>1, InitializationInvariant, PTL DEF Spec, ResetSettled

=============================================================================
