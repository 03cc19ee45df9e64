------------------------- MODULE ProjectInitialization -------------------------
(***************************************************************************)
(* The template assets of a project (project-initialization.ts): skills    *)
(* and workflows copied from the plugin, which the project may customize,  *)
(* and the manifest that tells the two apart.                              *)
(*                                                                         *)
(* Runs of several processes (reconcile, accept an override, reset an      *)
(* asset, keep or restore an old review) exclude each other with a lock    *)
(* file that names a pid.  People edit the files without it, the plugin is *)
(* upgraded, Episodes start and end, operations fail and processes die.    *)
(*                                                                         *)
(* A content is a number: 0 for no file, a version of the plugin's         *)
(* template, or above MaxVersion a text somebody has written.  What a      *)
(* reconciliation does after the manifest (Orca registration, list of old  *)
(* specifications, preparation of the task history) is left out.           *)
(***************************************************************************)
EXTENDS Integers, FiniteSets

CONSTANTS
  Procs,       \* processes
  Assets,      \* template assets
  NoEntry,     \* the manifest has no entry of the asset
  Nothing,     \* no lock, no reset intent, no old review
  MaxVersion,  \* bound: versions of a template
  MaxEdits,    \* bound: edits of files
  MaxRuns,     \* bound: runs
  MaxTrouble   \* bound: failures and crashes

(* An entry of the manifest; accepted is 0 when there is no override.        *)
EntryRecord ==
  [state : {"managed", "customized", "accepted"},
   baseline : Nat, installed : Nat, accepted : Nat, available : Nat]

ASSUME InitializationAssumption ==
  /\ MaxVersion \in Nat \ {0} /\ MaxEdits \in Nat
  /\ MaxRuns \in Nat /\ MaxTrouble \in Nat
  /\ Nothing \notin [token : Nat, stamped : BOOLEAN]
  /\ NoEntry \notin EntryRecord

VARIABLES
  file,      \* the content at the destination of each asset
  legacy,    \* the content at its old place
  link,      \* how they are connected: "none"; the directory of the
             \*   destination is a "link" to the old one; it is "moved" to the
             \*   backup name; "both", a real directory and the backup
  upstream,  \* the template in the plugin, 0 when it is retired
  manifest,  \* the manifest on disk
  intent,    \* the reset intent on disk
  review,    \* the evidence of an interrupted review of the former workflow
  lock, recovery,  \* the lock file and the marker of a stale-lock recovery
  active,    \* the worktree is that of a live Episode
  pc,        \* the next step of each process
  run,       \* what its run knows
  asked,     \* texts that a reset or restoration was told to replace
  late,      \* texts written or replaced by somebody after the run in
             \*   progress had read the asset
  dropped,   \* assets whose file somebody removed during the run in progress
  edits, runs, trouble   \* how often the bounded events have happened

files  == <<file, legacy, link>>
locks  == <<lock, recovery>>
ghosts == <<asked, late, dropped>>
counts == <<edits, runs, trouble>>
vars   == <<files, upstream, manifest, intent, review, locks, active, pc, run, ghosts, counts>>

(* What somebody has written, among contents.                               *)
Texts(C) == {c \in C : c > MaxVersion}

Managed(v) == [state |-> "managed", baseline |-> v, installed |-> v, accepted |-> 0, available |-> v]
Customized(c, v) ==
  [state |-> "customized", baseline |-> 0, installed |-> c, accepted |-> 0, available |-> v]
Override(c, v) ==
  [state |-> "accepted", baseline |-> v, installed |-> c, accepted |-> c, available |-> v]

NoRun ==
  [n |-> 0, kind |-> "none", asset |-> Nothing, inventory |-> {}, entries |-> [a \in Assets |-> NoEntry],
   left |-> {}, looked |-> 0, to |-> 0, stale |-> 0, recovered |-> Nothing]

Init ==
  /\ upstream = [a \in Assets |-> 1]
  /\ \E old \in [Assets -> {"new", "here", "there", "linked"}] :
       /\ file = [a \in Assets |-> IF old[a] = "here" THEN MaxVersion + 1 ELSE 0]
       /\ legacy = [a \in Assets |-> IF old[a] \in {"there", "linked"} THEN MaxVersion + 2 ELSE 0]
       /\ link = [a \in Assets |-> IF old[a] = "linked" THEN "link" ELSE "none"]
  /\ manifest = [a \in Assets |-> NoEntry]
  /\ intent = Nothing
  /\ review \in {Nothing} \cup
       {[asset |-> a, original |-> MaxVersion + 3] : a \in {b \in Assets : file[b] # 0}}
  /\ lock = Nothing /\ recovery = FALSE
  /\ active = FALSE
  /\ pc = [p \in Procs |-> "idle"] /\ run = [p \in Procs |-> NoRun]
  /\ asked = {} /\ late = {} /\ dropped = {}
  /\ edits = 0 /\ runs = 0 /\ trouble = 0

-----------------------------------------------------------------------------
Goto(p, l) == pc' = [pc EXCEPT ![p] = l]
Know(p, r) == run' = [run EXCEPT ![p] = r]
End(p)     == Goto(p, "idle") /\ Know(p, NoRun)
Throw(p)   == Goto(p, "release") /\ UNCHANGED run

Begin(p) ==
  /\ pc[p] = "idle"
  /\ runs < MaxRuns /\ runs' = runs + 1
  /\ \E k \in {"reconcile", "accept", "reset", "keep", "restore"} :
     \E a \in IF k \in {"accept", "reset"} THEN Assets ELSE {Nothing} :
       /\ k \in {"reconcile", "accept", "reset"} => ~active
       /\ a # Nothing => upstream[a] # 0
       /\ k \in {"keep", "restore"} => review # Nothing
       /\ Know(p, [NoRun EXCEPT !.n = runs + 1, !.kind = k, !.asset = a,
                                !.inventory = {b \in Assets : upstream[b] # 0}])
  /\ Goto(p, "lock")
  /\ UNCHANGED <<files, upstream, manifest, intent, review, locks, active, ghosts, edits, trouble>>

-----------------------------------------------------------------------------
(* acquireProjectMutationLock.  The file is there before its record is.     *)
Alive(n) == \E p \in Procs : pc[p] # "idle" /\ run[p].n = n

Open(p) ==
  /\ pc[p] = "lock"
  /\ \/ /\ lock = Nothing
        /\ lock' = [token |-> run[p].n, stamped |-> FALSE]
        /\ Goto(p, "stamp") /\ UNCHANGED run
     \/ /\ lock # Nothing /\ UNCHANGED lock
        /\ IF lock.stamped /\ ~Alive(lock.token)
           THEN Goto(p, "recover") /\ Know(p, [run[p] EXCEPT !.stale = lock.token])
           ELSE End(p)
  /\ UNCHANGED <<files, upstream, manifest, intent, review, recovery, active, ghosts, counts>>

MakeRecovery(p) ==
  /\ pc[p] = "recover"
  /\ recovery' = TRUE
  /\ IF recovery THEN End(p) ELSE Goto(p, "recheck") /\ UNCHANGED run
  /\ UNCHANGED <<files, upstream, manifest, intent, review, lock, active, ghosts, counts>>

(* Mutant: any lock file is taken for the stale one.                        *)
StaleStillAny(p) == lock # Nothing

StaleStill(p) == lock # Nothing /\ lock.stamped /\ lock.token = run[p].stale

Recheck(p) ==
  /\ pc[p] = "recheck"
  /\ IF StaleStill(p)
     THEN lock' = Nothing /\ Goto(p, "reopen") /\ UNCHANGED <<recovery, run>>
     ELSE recovery' = FALSE /\ End(p) /\ UNCHANGED lock
  /\ UNCHANGED <<files, upstream, manifest, intent, review, active, ghosts, counts>>

Reopen(p) ==
  /\ pc[p] = "reopen"
  /\ IF lock = Nothing
     THEN /\ lock' = [token |-> run[p].n, stamped |-> FALSE]
          /\ Goto(p, "clear") /\ UNCHANGED <<recovery, run>>
     ELSE recovery' = FALSE /\ End(p) /\ UNCHANGED lock
  /\ UNCHANGED <<files, upstream, manifest, intent, review, active, ghosts, counts>>

Clear(p) ==
  /\ pc[p] = "clear"
  /\ recovery' = FALSE /\ Goto(p, "stamp")
  /\ UNCHANGED <<files, upstream, manifest, intent, review, lock, active, run, ghosts, counts>>

Stamp(p) ==
  /\ pc[p] = "stamp"
  /\ lock' = [token |-> run[p].n, stamped |-> TRUE]
  /\ Goto(p, "enter")
  /\ UNCHANGED <<files, upstream, manifest, intent, review, recovery, active, run, ghosts, counts>>

(* The closure returned by it removes the lock that has the run's token; if *)
(* that fails the file stays, as it does after a crash.                     *)
Release(p) ==
  /\ pc[p] = "release"
  /\ lock' = IF lock # Nothing /\ lock.stamped /\ lock.token = run[p].n THEN Nothing ELSE lock
  /\ late' = {} /\ dropped' = {}
  /\ End(p)
  /\ UNCHANGED <<files, upstream, manifest, intent, review, recovery, active, asked, counts>>

-----------------------------------------------------------------------------
(* reconcilePrimeClawProject, under the lock.                               *)
Todo(r) == r.inventory \cup {a \in Assets : r.entries[a] # NoEntry}

(* recoverResetIntent: the intent has to be about the present template, and *)
(* the file as it was before the reset, or after.                           *)
Recoverable(r) ==
  /\ intent.asset \in r.inventory /\ upstream[intent.asset] = intent.to
  /\ link[intent.asset] # "link"
  /\ file[intent.asset] \in {intent.before, intent.to}

(* Mutant: only a missing file is written again.                            *)
RewriteMissing == file[intent.asset] = 0

Rewrite == file[intent.asset] = intent.before

Enter(p) ==
  /\ pc[p] = "enter" /\ run[p].kind = "reconcile"
  /\ LET r == [run[p] EXCEPT !.entries = manifest]
     IN \/ review # Nothing /\ Throw(p)
        \/ /\ review = Nothing /\ intent = Nothing
           /\ Know(p, [r EXCEPT !.left = Todo(r)]) /\ Goto(p, "next")
        \/ /\ review = Nothing /\ intent # Nothing
           /\ IF Recoverable(r)
              THEN /\ Know(p, [r EXCEPT !.asset = intent.asset])
                   /\ Goto(p, IF Rewrite THEN "redo" ELSE "redone")
              ELSE Throw(p)
  /\ UNCHANGED <<files, upstream, manifest, intent, review, locks, active, ghosts, counts>>

(* A file at the destination makes a real directory of it.                  *)
Write(a, c) ==
  /\ file' = [file EXCEPT ![a] = c]
  /\ link' = IF link[a] = "moved" THEN [link EXCEPT ![a] = "both"] ELSE link

Redo(p) ==
  /\ pc[p] \in {"redo", "redone"}
  /\ IF pc[p] = "redo" THEN Write(intent.asset, intent.to) ELSE UNCHANGED <<file, link>>
  /\ LET r == [run[p] EXCEPT !.entries[intent.asset] = Managed(intent.to), !.recovered = intent.asset]
     IN Know(p, [r EXCEPT !.left = Todo(r), !.asset = Nothing])
  /\ Goto(p, "next")
  /\ UNCHANGED <<legacy, upstream, manifest, intent, review, locks, active, ghosts, counts>>

(* compareProjectAsset: the entry of an asset whose file is there.          *)
(* Mutant: a managed asset is updated whatever its file has become.         *)
UntouchedAlways(e, c, v) == e.state = "managed"

Untouched(e, c, v) ==
  /\ e.state = "managed"
  /\ c = v \/ (c = e.installed /\ e.baseline \in {e.installed, c})

Compared(e, c, v) ==
  IF e = NoEntry THEN IF c = v THEN Managed(v) ELSE Customized(c, v)
  ELSE IF Untouched(e, c, v) THEN Managed(v)
  ELSE [e EXCEPT !.installed = c, !.available = v,
                 !.state = IF e.state = "accepted" /\ c = e.accepted THEN "accepted" ELSE "customized"]

(* The next asset: what is there is read, and then acted upon.              *)
Entry(p, a) == run[p].entries[a]
Settled(p, a, e) ==
  [run[p] EXCEPT !.entries[a] = e, !.left = @ \ {a}, !.asset = Nothing, !.looked = 0, !.to = 0]
Fetched(p, a, c) == [run[p] EXCEPT !.asset = a, !.looked = c, !.to = upstream[a]]
First(c, v) == IF c = v THEN Managed(v) ELSE Customized(c, v)

(* A retired asset goes when it is as it was installed, and is released.    *)
LookRetired(p, a) ==
  /\ pc[p] = "next" /\ a \in run[p].left \ run[p].inventory
  /\ IF file[a] # 0 /\ Entry(p, a).state = "managed" /\ file[a] = Entry(p, a).installed
     THEN Know(p, Fetched(p, a, file[a])) /\ Goto(p, "remove")
     ELSE Know(p, Settled(p, a, NoEntry)) /\ UNCHANGED pc
  /\ UNCHANGED <<files, upstream, manifest, intent, review, locks, active, ghosts, counts>>

Remove(p) ==
  /\ pc[p] = "remove"
  /\ file' = [file EXCEPT ![run[p].asset] = 0]
  /\ Know(p, Settled(p, run[p].asset, NoEntry)) /\ Goto(p, "next")
  /\ UNCHANGED <<legacy, link, upstream, manifest, intent, review, locks, active, ghosts, counts>>

(* migrateExpectedSkillSymlink, the backup of an interrupted migration.     *)
(* The template is read before it in the code, and here with the file: only *)
(* an upgrade of the plugin lies between, and Mend does not use it.         *)
Mend(p, a) ==
  /\ pc[p] = "next" /\ a \in run[p].left \cap run[p].inventory
  /\ link[a] \in {"moved", "both"}
  /\ link' = [link EXCEPT ![a] = IF @ = "moved" THEN "link" ELSE "none"]
  /\ UNCHANGED <<file, legacy, upstream, manifest, intent, review, locks, active, pc, run, ghosts, counts>>

LookAsset(p, a) ==
  /\ pc[p] = "next" /\ a \in run[p].left \cap run[p].inventory
  /\ link[a] \in {"none", "link"}
  /\ \/ upstream[a] = 0 /\ Throw(p)
     \/ /\ upstream[a] # 0 /\ link[a] = "link" /\ legacy[a] # 0
        /\ Know(p, Fetched(p, a, legacy[a])) /\ Goto(p, "backup")
     \/ /\ upstream[a] # 0 /\ link[a] = "link" /\ legacy[a] = 0
        /\ Know(p, Settled(p, a, Entry(p, a))) /\ UNCHANGED pc
     \/ /\ upstream[a] # 0 /\ link[a] = "none" /\ file[a] = 0
        /\ Know(p, Fetched(p, a, legacy[a]))
        /\ Goto(p, IF legacy[a] # 0 THEN "move" ELSE "create")
     \/ /\ upstream[a] # 0 /\ link[a] = "none" /\ file[a] # 0
        /\ Know(p, Fetched(p, a, file[a])) /\ Goto(p, "compare")
  /\ UNCHANGED <<files, upstream, manifest, intent, review, locks, active, ghosts, counts>>

(* The file is written, or left alone, according to what was read.          *)
Update(p) ==
  /\ pc[p] \in {"create", "compare"}
  /\ LET a == run[p].asset
         c == run[p].looked
         e == IF pc[p] = "create" THEN Managed(run[p].to) ELSE Compared(Entry(p, a), c, run[p].to)
     IN /\ file' = IF e.state = "managed" /\ c # run[p].to THEN [file EXCEPT ![a] = run[p].to] ELSE file
        /\ legacy' = IF pc[p] = "compare" /\ legacy[a] = c THEN [legacy EXCEPT ![a] = 0] ELSE legacy
        /\ Know(p, Settled(p, a, e))
  /\ Goto(p, "next")
  /\ UNCHANGED <<link, upstream, manifest, intent, review, locks, active, ghosts, counts>>

(* A file at the old place is copied, and then removed there; a link is     *)
(* first moved away, and removed after the copy has its name.               *)
Move(p) ==
  /\ pc[p] \in {"move", "backup", "moved", "both", "old", "spent"}
  /\ LET a == run[p].asset
         c == run[p].looked
     IN /\ file' = IF pc[p] \in {"move", "moved"} THEN [file EXCEPT ![a] = c] ELSE file
        /\ link' = CASE pc[p] = "backup" -> [link EXCEPT ![a] = "moved"]
                     [] pc[p] = "moved"  -> [link EXCEPT ![a] = "both"]
                     [] pc[p] = "both"   -> [link EXCEPT ![a] = "none"]
                     [] OTHER            -> link
        /\ legacy' = IF pc[p] \in {"old", "spent"} THEN [legacy EXCEPT ![a] = 0] ELSE legacy
        /\ IF pc[p] \in {"old", "spent"}
           THEN Know(p, Settled(p, a, First(c, run[p].to))) ELSE UNCHANGED run
  /\ Goto(p, CASE pc[p] = "backup" -> "moved" [] pc[p] = "moved" -> "both" [] pc[p] = "both" -> "spent"
               [] pc[p] = "move" -> "old" [] OTHER -> "next")
  /\ UNCHANGED <<upstream, manifest, intent, review, locks, active, ghosts, counts>>

SaveManifest(p) ==
  /\ pc[p] = "next" /\ run[p].left = {}
  /\ manifest' = run[p].entries
  /\ Goto(p, IF run[p].recovered # Nothing THEN "settle" ELSE "release")
  /\ UNCHANGED <<files, upstream, intent, review, locks, active, run, ghosts, counts>>

Settle(p) ==
  /\ pc[p] = "settle"
  /\ intent' = Nothing /\ Goto(p, "release")
  /\ UNCHANGED <<files, upstream, manifest, review, locks, active, run, ghosts, counts>>

-----------------------------------------------------------------------------
(* acceptProjectOverride and resetProjectAsset                              *)
LookDecided(p) ==
  /\ pc[p] = "enter" /\ run[p].kind \in {"accept", "reset"}
  /\ LET a == run[p].asset
         refused == \/ active \/ review # Nothing \/ upstream[a] = 0 \/ link[a] = "link"
                    \/ run[p].kind = "accept" /\ file[a] = 0
                    \/ run[p].kind = "reset" /\ intent # Nothing
     IN \/ refused /\ Throw(p) /\ UNCHANGED asked
        \/ /\ ~refused
           /\ Know(p, Fetched(p, a, file[a]))
           /\ Goto(p, run[p].kind)
           /\ asked' = IF run[p].kind = "reset" THEN asked \cup Texts({file[a]}) ELSE asked
  /\ UNCHANGED <<files, upstream, manifest, intent, review, locks, active, late, dropped, counts>>

Accept(p) ==
  /\ pc[p] = "accept"
  /\ manifest' = [manifest EXCEPT ![run[p].asset] = Override(run[p].looked, run[p].to)]
  /\ Goto(p, "release")
  /\ UNCHANGED <<files, upstream, intent, review, locks, active, run, ghosts, counts>>

WriteIntent(p) ==
  /\ pc[p] = "reset"
  /\ intent' = [asset |-> run[p].asset, before |-> run[p].looked, to |-> run[p].to]
  /\ Goto(p, "replace")
  /\ UNCHANGED <<files, upstream, manifest, review, locks, active, run, ghosts, counts>>

Replace(p) ==
  /\ pc[p] = "replace"
  /\ Write(run[p].asset, run[p].to)
  /\ Goto(p, "record")
  /\ UNCHANGED <<legacy, upstream, manifest, intent, review, locks, active, run, ghosts, counts>>

Record(p) ==
  /\ pc[p] = "record"
  /\ manifest' = [manifest EXCEPT ![run[p].asset] = Managed(run[p].to)]
  /\ Goto(p, "settle")
  /\ UNCHANGED <<files, upstream, intent, review, locks, active, run, ghosts, counts>>

(* recoverTemplateReview (template-review.ts): the evidence is forgotten, in *)
(* a restoration after the original text is back.                           *)
Recover(p) ==
  /\ pc[p] = "enter" /\ run[p].kind \in {"keep", "restore"}
  /\ IF review # Nothing /\ run[p].kind = "restore"
     THEN /\ file' = [file EXCEPT ![review.asset] = review.original]
          /\ asked' = asked \cup Texts({file[review.asset]})
          /\ Goto(p, "restored") /\ UNCHANGED <<review, run>>
     ELSE review' = Nothing /\ Throw(p) /\ UNCHANGED <<file, asked>>
  /\ UNCHANGED <<legacy, link, upstream, manifest, intent, locks, active, late, dropped, counts>>

Forget(p) ==
  /\ pc[p] = "restored"
  /\ review' = Nothing /\ Throw(p)
  /\ UNCHANGED <<files, upstream, manifest, intent, locks, active, ghosts, counts>>

-----------------------------------------------------------------------------
(* Failures and everybody else.                                             *)
Inside == {"enter", "redo", "redone", "next", "remove", "backup", "moved", "both", "old", "spent", "move",
           "create", "compare", "settle", "accept", "reset", "replace", "record", "restored"}
AtAsset == {"remove", "backup", "moved", "both", "old", "spent", "move", "create", "compare"}

Trouble == trouble < MaxTrouble /\ trouble' = trouble + 1

(* A file operation fails.  An asset that cannot be handled is blocked, and *)
(* the others go on; the link goes back to its place, and the last file of  *)
(* a linked directory may stay.                                             *)
Fail(p) ==
  /\ Trouble
  /\ \/ /\ pc[p] \in AtAsset
        /\ LET a == run[p].asset
           IN Know(p, Settled(p, a, IF pc[p] = "spent" THEN First(run[p].looked, run[p].to)
                                    ELSE Entry(p, a)))
        /\ Goto(p, "next")
        /\ link' = IF pc[p] = "moved" THEN [link EXCEPT ![run[p].asset] = "link"] ELSE link
        /\ UNCHANGED recovery
     \/ /\ pc[p] \in Inside \ AtAsset
        /\ Throw(p) /\ UNCHANGED <<link, recovery>>
     \/ /\ pc[p] \in {"recheck", "stamp"}
        /\ recovery' = IF pc[p] = "recheck" THEN FALSE ELSE recovery
        /\ End(p) /\ UNCHANGED link
  /\ UNCHANGED <<file, legacy, upstream, manifest, intent, review, lock, active, ghosts, edits, runs>>

Crash(p) ==
  /\ pc[p] # "idle" /\ Trouble
  /\ late' = IF pc[p] \in Inside THEN {} ELSE late
  /\ dropped' = IF pc[p] \in Inside THEN {} ELSE dropped
  /\ End(p)
  /\ UNCHANGED <<files, upstream, manifest, intent, review, locks, active, asked, edits, runs>>

(* Somebody writes a new text, puts a template back or removes a file.      *)
ReadIt(a) ==
  \E p \in Procs :
    /\ pc[p] \in AtAsset \cup {"redo", "reset", "replace"}
    /\ run[p].asset = a

UnderWay == \E p \in Procs : pc[p] \in Inside

Edit(a) ==
  /\ edits < MaxEdits /\ edits' = edits + 1
  /\ \E c \in 0..MaxVersion \cup {MaxVersion + 3 + edits'} :
       \/ /\ link[a] \in {"none", "both"}
          /\ file' = [file EXCEPT ![a] = c] /\ UNCHANGED legacy
          /\ dropped' = IF c = 0 /\ UnderWay THEN dropped \cup {a} ELSE dropped
          /\ late' = IF ReadIt(a) THEN late \cup Texts({c, file[a]}) ELSE late
       \/ /\ legacy[a] # 0
          /\ legacy' = [legacy EXCEPT ![a] = c] /\ UNCHANGED <<file, dropped>>
          /\ late' = IF ReadIt(a) THEN late \cup Texts({c, legacy[a]}) ELSE late
  /\ UNCHANGED <<link, upstream, manifest, intent, review, locks, active, pc, run, asked, runs, trouble>>

(* The plugin gets a new version of a template, or no longer has it.        *)
Upgrade(a) ==
  /\ upstream[a] # 0
  /\ upstream' = [upstream EXCEPT ![a] = IF @ < MaxVersion THEN @ + 1 ELSE 0]
  /\ UNCHANGED <<files, manifest, intent, review, locks, active, pc, run, ghosts, counts>>

(* An Episode gets the worktree, until the worktree is removed.             *)
Episode ==
  /\ ~active /\ active' = TRUE
  /\ UNCHANGED <<files, upstream, manifest, intent, review, locks, pc, run, ghosts, counts>>

Next ==
  \/ \E p \in Procs :
       \/ Begin(p) \/ Open(p) \/ MakeRecovery(p) \/ Recheck(p) \/ Reopen(p) \/ Clear(p)
       \/ Stamp(p) \/ Release(p) \/ Enter(p) \/ Redo(p)
       \/ \E a \in Assets : LookRetired(p, a) \/ Mend(p, a) \/ LookAsset(p, a)
       \/ Remove(p) \/ Update(p) \/ Move(p) \/ SaveManifest(p) \/ Settle(p)
       \/ LookDecided(p) \/ Accept(p) \/ WriteIntent(p) \/ Replace(p) \/ Record(p) \/ Recover(p)
       \/ Forget(p)
       \/ Fail(p) \/ Crash(p)
  \/ \E a \in Assets : Edit(a) \/ Upgrade(a)
  \/ Episode

Spec == Init /\ [][Next]_vars

-----------------------------------------------------------------------------
(* The lock excludes: no two runs are past it, however a stale lock file    *)
(* was recovered.                                                           *)
LockExclusion ==
  \A p, q \in Procs : pc[p] \in Inside /\ pc[q] \in Inside => p = q

(* A text somebody wrote leaves the project by their own hand, or by a      *)
(* reset or restoration that was told to replace it: never in an update, a  *)
(* migration from the old place or the removal of a retired asset, except a *)
(* text that somebody wrote or replaced after the run had read the asset.   *)
Holds(x) == \E a \in Assets : x \in {file[a], legacy[a]}

CustomizationKept ==
  [][edits' = edits =>
       \A x \in Texts({file[a] : a \in Assets} \cup {legacy[a] : a \in Assets}) :
         Holds(x)' \/ x \in asked' \cup late]_vars

(* A reset intent is settled only when the text it was to replace is gone,  *)
(* and the manifest neither accepts a text nor manages an older template:   *)
(* whoever recovers an interrupted reset, and whatever was accepted, edited *)
(* or upgraded since.  The text can only be back from the old place, after  *)
(* somebody has removed the file again during the recovery.                 *)
ResetSettled ==
  [][intent # Nothing /\ intent' = Nothing =>
       /\ intent.before > MaxVersion /\ intent.asset \notin dropped =>
            file[intent.asset] # intent.before
       /\ manifest[intent.asset] # NoEntry
       /\ manifest[intent.asset].accepted = 0
       /\ manifest[intent.asset].state = "managed" =>
            manifest[intent.asset].installed >= intent.to]_vars
=============================================================================
