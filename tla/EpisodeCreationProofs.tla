------------------------ MODULE EpisodeCreationProofs ------------------------
(***************************************************************************)
(* Proofs about the creation of task Episodes, for any Conversations,      *)
(* tasks, sessions and events that interfere.                              *)
(***************************************************************************)
EXTENDS EpisodeCreation, TLAPS, FiniteSetTheorems

Made ==
  [trees : Nat, automations : Nat, runs : Nat, orders : Nat,
   agents : [Agents -> {"none", "saved", "live"}],
   tabs : SUBSET Agents, told : SUBSET Agents]

LaunchMarks == {"launch", "automation", "run", "route"}

(* The sessions Prime Claw has made, and those that may be bound.           *)
Present(m)  == {a \in Agents \ Visitors : m.agents[a] # "none"}
Candidates(m) == Visitors \cup Present(m)

(* Nothing was assigned, and nothing will be that was not launched yet.     *)
Quiet(m) == m.runs = 0 /\ m.orders = 0 /\ m.told = {} /\ Present(m) = {}

(* What an entry says of the resources there are, whether or not an         *)
(* invocation goes on.                                                      *)
OrcaDurable(e, m) ==
  /\ m.told = Present(m)
  /\ m.orders = 0 => m.told = {}
  /\ "worktree" \in e.marks => m.trees = 1
  /\ "launch" \notin e.marks => m.automations = 0 /\ Quiet(m)

LocalDurable(e, m) ==
  /\ m.automations = 0 /\ m.runs = 0
  /\ \A a \in m.told : a = e.session

Durable(e, m) ==
  /\ "name" \notin e.marks => m = NothingMade
  /\ m.trees <= 1
  /\ m.runs + m.orders <= 1
  /\ \A a, b \in Present(m) : a = b
  /\ e.engine = "orca" => OrcaDurable(e, m)
  /\ e.engine = "local" => LocalDurable(e, m)
  /\ e.status = "active" => m.trees = 1 /\ e.session \in Visitors \cup m.told

(* The steps of an allocation: those of a local and those of an Orca        *)
(* worktree, those before the launch, and those before the binding.         *)
LocalSteps  == {"create", "noteSession", "open", "noteRoute", "deliver"}
OrcaSteps   == {"noteWorktree", "list", "noteLaunch", "automate", "noteAutomation", "run",
                "noteRun", "listing", "terminals", "noteBinding", "remove", "retained",
                "look", "decide"}
NewSteps    == {"intent", "worktree"}
Early       == {"worktree", "noteWorktree", "prepare", "create", "list", "noteLaunch"}
Launching   == {"automate", "noteAutomation", "run"}
Waiting     == {"noteRun", "listing", "terminals", "noteBinding"}
Finishing   == {"remove", "retained", "activate"}
BindSteps   == {"look", "decide", "listing", "terminals", "activate"}
Labels      == Outside \cup LocalSteps \cup OrcaSteps \cup NewSteps \cup {"prepare", "activate"}

(* Before the reservation there is no entry, and the record is new.         *)
Reserving(l, j, e, r) ==
  /\ e = NoEntry /\ r # NoEntry
  /\ r.marks = {} /\ r.session = None /\ r.status = "provisioning"

(* What an invocation knows of a local worktree and its session.            *)
LocalKnown(l, e, f, m) ==
  /\ l = "noteSession" =>
       /\ \E a \in Agents \ Visitors : f = {a} /\ Present(m) = {a}
       /\ e.session = None /\ m.orders = 0 /\ m.told = {}
  /\ l \in {"open", "noteRoute", "deliver"} =>
       e.session \in Present(m) /\ m.orders = 0 /\ m.told = {}
  /\ l = "activate" => e.session \in m.told

(* What it knows of its launch.                                             *)
OrcaKnown(l, e, f, m) ==
  /\ l \in Launching \cup Waiting => e.session = None /\ "launch" \in e.marks
  /\ l = "automate" => m.automations = 0
  /\ l \in Waiting \cup {"noteAutomation", "run", "remove"} => m.automations = 1
  /\ l \in Launching => Quiet(m)
  /\ l \in Finishing => e.session \in Candidates(m)
  /\ l \in {"retained", "activate"} => m.automations = 0

(* The invocation was told the session to bind.                             *)
BindKnown(l, j, e, m) ==
  /\ l \in BindSteps /\ e.engine = "orca"
  /\ j \in Candidates(m) /\ e.session \in {None, j}

Allocating(l, j, e, r, f, m) ==
  /\ e # NoEntry /\ r = e /\ e.status # "active"
  /\ l = "intent" => e.marks = {} /\ e.session = None
  /\ l # "intent" => "name" \in e.marks
  /\ l = "worktree" => m = NothingMade
  /\ l \notin NewSteps => m.trees = 1
  /\ l \in NewSteps => j = "create"
  /\ l \in {"look", "decide"} => j # "create"
  /\ l \in LocalSteps => e.engine = "local"
  /\ l \in OrcaSteps => e.engine = "orca"
  /\ l \in Early =>
       /\ e.session = None /\ e.marks \cap LaunchMarks = {}
       /\ m.automations = 0 /\ Quiet(m)
  /\ l \in {"terminals", "noteBinding"} => f \subseteq Candidates(m)
  /\ e.engine = "local" => LocalKnown(l, e, f, m)
  /\ e.engine = "orca" /\ j \notin Agents => OrcaKnown(l, e, f, m)
  /\ j \in Agents => BindKnown(l, j, e, m)

(* All that holds of one Conversation, in its values.                       *)
Sound(l, j, e, r, f, m) ==
  /\ l \in Labels /\ j \in {"create", "resume"} \cup Agents
  /\ e \in Entry \cup {NoEntry} /\ r \in Entry \cup {NoEntry}
  /\ f \subseteq Agents /\ m \in Made
  /\ e = NoEntry => m = NothingMade /\ l \in Outside \ {"reserved"}
  /\ e # NoEntry => Durable(e, m) /\ l \in Labels \ {"waiting", "admitting", "reserve"}
  /\ l \in Outside => j = "create"
  /\ l \in {"waiting", "admitting", "reserve"} => Reserving(l, j, e, r)
  /\ l = "reserved" =>
       e # NoEntry /\ e.marks = {} /\ e.session = None /\ e.status # "active"
  /\ l \notin Outside => Allocating(l, j, e, r, f, m)

Good(c) == Sound(pc[c], job[c], entry[c], record[c], found[c], made[c])

(* The state is made of functions of the Conversations.                     *)
Mapped ==
  /\ pc = [d \in Owners |-> pc[d]] /\ job = [d \in Owners |-> job[d]]
  /\ entry = [d \in Owners |-> entry[d]] /\ record = [d \in Owners |-> record[d]]
  /\ seen = [d \in Owners |-> seen[d]] /\ found = [d \in Owners |-> found[d]]
  /\ made = [d \in Owners |-> made[d]]

CreationInv == Mapped /\ \A c \in Owners : Good(c)

(* What is not of one Conversation, and what bears on no other fact.        *)
Rest ==
  /\ independent \in BOOLEAN /\ admission \in BOOLEAN
  /\ status \in [Tasks -> {"In Planning", "In Progress", "Blocked"}]
  /\ \A c \in Owners : seen[c] \subseteq Agents
  /\ trouble \in 0..MaxTrouble

(* Nothing of another Conversation changes.                                 *)
Frame(c) ==
  /\ Mapped'
  /\ \A d \in Owners \ {c} :
       /\ pc'[d] = pc[d] /\ job'[d] = job[d] /\ entry'[d] = entry[d]
       /\ record'[d] = record[d] /\ seen'[d] = seen[d] /\ found'[d] = found[d]
       /\ made'[d] = made[d]

(* Entry f keeps the evidence of entry e.                                   *)
Extends(e, f, m) ==
  /\ f \in Entry
  /\ e.marks \ {"automation", "run"} \subseteq f.marks
  /\ e.marks \subseteq f.marks \/ m.automations = 0
  /\ e.session # None => f.session = e.session

Kept(c) ==
  entry[c] # NoEntry =>
    /\ Extends(entry[c], entry'[c], made[c])
    /\ entry[c].status = "active" => entry'[c].status = "active"

Fine(c) == Frame(c) /\ Good(c)' /\ Kept(c)

-----------------------------------------------------------------------------
(* One Conversation at a time.                                              *)

LEMMA FineSteps ==
  ASSUME CreationInv, NEW c \in Owners, Fine(c)
  PROVE  CreationInv'
<1>1. ASSUME NEW d \in Owners, d # c PROVE Good(d)'
  BY <1>1 DEF CreationInv, Fine, Frame, Good
<1> QED BY <1>1 DEF CreationInv, Fine, Frame

LEMMA FineKeeps ==
  ASSUME CreationInv, NEW c \in Owners, Fine(c), NEW d \in Owners
  PROVE  Kept(d)
<1>1. CASE d = c
  BY <1>1 DEF Fine
<1>2. CASE d # c
  <2>1. entry'[d] = entry[d]
    BY <1>2 DEF Fine, Frame
  <2>2. entry[d] \in Entry \cup {NoEntry}
    BY DEF CreationInv, Good, Sound
  <2> QED BY <2>1, <2>2 DEF Kept, Extends
<1> QED BY <1>1, <1>2

(* An entry that says the same, or that is uncertain, is as durable.        *)
LEMMA UncertainDurable ==
  ASSUME NEW r \in Entry, NEW m, Durable(r, m)
  PROVE  Uncertain(r) \in Entry /\ Durable(Uncertain(r), m)
         /\ Uncertain(r).marks = r.marks /\ Uncertain(r).session = r.session
         /\ Uncertain(r).status = "uncertain" /\ Uncertain(r).engine = r.engine
BY DEF Entry, Uncertain, Durable, OrcaDurable, LocalDurable

LEMMA Ending ==
  ASSUME Mapped, NEW c \in Owners, End(c)
  PROVE  /\ pc' = [d \in Owners |-> pc'[d]] /\ job' = [d \in Owners |-> job'[d]]
         /\ record' = [d \in Owners |-> record'[d]]
         /\ seen' = [d \in Owners |-> seen'[d]] /\ found' = [d \in Owners |-> found'[d]]
         /\ \A d \in Owners \ {c} :
              /\ pc'[d] = pc[d] /\ job'[d] = job[d] /\ record'[d] = record[d]
              /\ seen'[d] = seen[d] /\ found'[d] = found[d]
         /\ pc'[c] = "idle" /\ job'[c] = "create" /\ record'[c] = NoEntry
         /\ seen'[c] = {} /\ found'[c] = {}
BY DEF Mapped, End, Goto

(* An invocation that ends leaves a durable entry.                          *)
LEMMA Ended ==
  ASSUME NEW c \in Owners, pc'[c] = "idle", job'[c] = "create",
         record'[c] = NoEntry, found'[c] = {}, made'[c] \in Made,
         \/ entry'[c] = NoEntry /\ made'[c] = NothingMade
         \/ entry'[c] \in Entry /\ Durable(entry'[c], made'[c])
  PROVE  Good(c)'
<1>1. NoEntry \notin Entry
  BY CreationAssumption
<1> QED BY <1>1 DEF Good, Sound, Labels, Outside

(* How the values of c change in made and entry.                            *)
Alone(c) ==
  /\ made' = [d \in Owners |-> made'[d]] /\ entry' = [d \in Owners |-> entry'[d]]
  /\ \A d \in Owners \ {c} : made'[d] = made[d] /\ entry'[d] = entry[d]

(* A failure: the entry stays, or the record r is marked uncertain.         *)
LEMMA FailStep ==
  ASSUME CreationInv, NEW c \in Owners, pc[c] \notin Outside,
         NEW r \in Entry, Fail(c, r), Extends(entry[c], r, made[c]),
         made' = [d \in Owners |-> made'[d]],
         \A d \in Owners \ {c} : made'[d] = made[d],
         made'[c] \in Made, Durable(r, made'[c]), Durable(entry[c], made'[c])
  PROVE  Fine(c)
<1>1. Mapped /\ Good(c) /\ End(c)
  BY DEF CreationInv, Fail
<1>2. entry[c] \in Entry /\ entry[c].status # "active"
  BY <1>1, CreationAssumption DEF Good, Sound, Allocating
<1>3. entry'[c] \in {entry[c], Uncertain(r)} /\ Alone(c)
  <2>1. entry' = entry \/ entry' = [entry EXCEPT ![c] = Uncertain(r)]
    BY DEF Fail
  <2> QED BY <1>1, <2>1 DEF Mapped, Alone
<1>4. Good(c)'
  BY <1>1, <1>2, <1>3, Ending, Ended, UncertainDurable
<1>5. Kept(c)
  BY <1>2, <1>3, UncertainDurable DEF Kept, Extends
<1>6. Frame(c)
  BY <1>1, <1>3, Ending DEF Frame, Mapped, Alone
<1> QED BY <1>4, <1>5, <1>6 DEF Fine

(* A step that goes on with the entry as it is.                             *)
LEMMA GoOn ==
  ASSUME CreationInv, NEW c \in Owners, UNCHANGED entry,
         Mapped', \A d \in Owners \ {c} :
           /\ pc'[d] = pc[d] /\ job'[d] = job[d] /\ record'[d] = record[d]
           /\ seen'[d] = seen[d] /\ found'[d] = found[d] /\ made'[d] = made[d],
         Good(c)'
  PROVE  Fine(c)
<1>1. entry[c] \in Entry \cup {NoEntry}
  BY DEF CreationInv, Good, Sound
<1> QED BY <1>1 DEF Fine, Frame, Kept, Extends

(* A durable write of r, which may fail.                                    *)
LEMMA SaveStep ==
  ASSUME CreationInv, NEW c \in Owners, pc[c] \notin Outside,
         NEW r \in Entry, NEW l, Save(c, r, l), UNCHANGED made,
         Extends(entry[c], r, made[c]), r.status # "active",
         Sound(l, job[c], r, r, found[c], made[c])
  PROVE  Fine(c)
<1>1. Mapped /\ Good(c)
  BY DEF CreationInv
<1>2. made[c] \in Made /\ entry[c] \in Entry /\ entry[c].status # "active"
      /\ Durable(entry[c], made[c])
  BY <1>1, CreationAssumption DEF Good, Sound, Allocating
<1>3. Durable(r, made[c])
  BY CreationAssumption DEF Sound
<1>4. CASE Written(c, r, l)
  <2>1. /\ pc'[c] = l /\ job'[c] = job[c] /\ entry'[c] = r /\ record'[c] = r
        /\ found'[c] = found[c]
    BY <1>1, <1>4 DEF Mapped, Written, Goto
  <2>2. Good(c)'
    BY <2>1 DEF Good
  <2>3. Kept(c)
    BY <1>2, <2>1 DEF Kept
  <2>4. Frame(c)
    BY <1>1, <1>4 DEF Mapped, Written, Goto, Frame
  <2> QED BY <2>2, <2>3, <2>4 DEF Fine
<1>5. CASE Fail(c, r)
  BY <1>1, <1>2, <1>3, <1>5, FailStep DEF Mapped
<1> QED BY <1>4, <1>5 DEF Save

(* An operation that made something, and whose response may be lost.        *)
LEMMA ThenStep ==
  ASSUME CreationInv, NEW c \in Owners, pc[c] \notin Outside,
         NEW l, Then(c, l),
         made' = [d \in Owners |-> made'[d]],
         \A d \in Owners \ {c} : made'[d] = made[d],
         Sound(l, job[c], entry[c], record[c], found[c], made'[c])
  PROVE  Fine(c)
<1>1. Mapped /\ Good(c)
  BY DEF CreationInv
<1>2. entry[c] \in Entry /\ record[c] = entry[c]
  BY <1>1, CreationAssumption DEF Good, Sound, Allocating
<1>3. made'[c] \in Made /\ Durable(entry[c], made'[c])
  BY <1>2, CreationAssumption DEF Sound
<1>4. CASE Goto(c, l) /\ UNCHANGED <<entry, memory>>
  <2>1. /\ pc'[c] = l /\ job' = job /\ entry' = entry /\ record' = record
        /\ found' = found /\ seen' = seen
    BY <1>1, <1>4 DEF Mapped, Goto, memory
  <2>2. Good(c)'
    BY <2>1 DEF Good
  <2>3. Mapped' /\ \A d \in Owners \ {c} : pc'[d] = pc[d]
    BY <1>1, <1>4, <2>1 DEF Mapped, Goto
  <2> QED BY <2>1, <2>2, <2>3, GoOn
<1>5. CASE Fail(c, record[c])
  BY <1>2, <1>3, <1>5, FailStep DEF Extends
<1> QED BY <1>4, <1>5 DEF Then

-----------------------------------------------------------------------------
(* Admission and reservation.                                               *)

LEMMA Values ==
  ASSUME CreationInv, NEW c \in Owners
  PROVE  /\ Mapped /\ Good(c)
         /\ NoEntry \notin Entry /\ Agents \cap {"create", "resume"} = {}
         /\ entry[c] # NoEntry => entry[c] \in Entry
BY CreationAssumption DEF CreationInv, Good, Sound

LEMMA BeginStep ==
  ASSUME CreationInv, NEW c \in Owners, Begin(c)
  PROVE  Fine(c)
<1>1. Mapped /\ Good(c) /\ NoEntry \notin Entry
  BY Values
<1>2. PICK t \in Tasks, engine \in {"local", "orca"} :
        record' = [record EXCEPT ![c] =
                    [task |-> t, engine |-> engine, status |-> "provisioning",
                     marks |-> {}, session |-> None]]
  BY DEF Begin
<1>3. record'[c] \in Entry /\ record'[c].marks = {} /\ record'[c].session = None
      /\ record'[c].status = "provisioning"
  BY <1>1, <1>2 DEF Mapped, Entry
<1>4. /\ pc'[c] = "waiting" /\ entry' = entry /\ job' = job /\ found' = found
      /\ seen' = seen /\ made' = made
  BY <1>1 DEF Begin, Goto, Mapped
<1>5. Good(c)'
  BY <1>1, <1>3, <1>4 DEF Good, Sound, Begin, Labels, Outside, Reserving
<1>6. Mapped' /\ \A d \in Owners \ {c} : pc'[d] = pc[d] /\ record'[d] = record[d]
  BY <1>1, <1>2, <1>4 DEF Mapped, Begin, Goto
<1> QED BY <1>4, <1>5, <1>6, GoOn

LEMMA AcquireStep ==
  ASSUME CreationInv, NEW c \in Owners, Acquire(c)
  PROVE  Fine(c)
<1>1. Mapped /\ Good(c)
  BY Values
<1>2. /\ pc[c] = "waiting" /\ pc'[c] = "admitting"
      /\ entry' = entry /\ job' = job /\ record' = record /\ found' = found
      /\ seen' = seen /\ made' = made
  BY <1>1 DEF Acquire, Goto, Mapped, memory
<1>3. Good(c)'
  BY <1>1, <1>2 DEF Good, Sound, Labels, Outside, Reserving
<1>4. Mapped' /\ \A d \in Owners \ {c} : pc'[d] = pc[d]
  BY <1>1, <1>2 DEF Mapped, Acquire, Goto
<1> QED BY <1>2, <1>3, <1>4, GoOn

(* The invocation ends and leaves the entry and the resources alone.        *)
LEMMA QuitStep ==
  ASSUME CreationInv, NEW c \in Owners, End(c), UNCHANGED <<entry, made>>
  PROVE  Fine(c)
<1>1. Mapped /\ Good(c)
  BY Values
<1>2. Good(c)'
  BY <1>1, Ending, Ended, CreationAssumption DEF Good, Sound
<1>3. Mapped'
  BY <1>1, Ending DEF Mapped
<1> QED BY <1>1, <1>2, <1>3, Ending, GoOn

LEMMA AdmitStep ==
  ASSUME CreationInv, NEW c \in Owners, Admit(c)
  PROVE  Fine(c)
<1>1. Mapped /\ Good(c)
  BY Values
<1>2. CASE Goto(c, "reserve") /\ UNCHANGED memory
  <2>1. /\ pc[c] = "admitting" /\ pc'[c] = "reserve"
        /\ entry' = entry /\ job' = job /\ record' = record /\ found' = found
        /\ seen' = seen /\ made' = made
    BY <1>1, <1>2 DEF Admit, Goto, Mapped, memory
  <2>2. Good(c)'
    BY <1>1, <2>1 DEF Good, Sound, Labels, Outside, Reserving
  <2>3. Mapped' /\ \A d \in Owners \ {c} : pc'[d] = pc[d]
    BY <1>1, <1>2, <2>1 DEF Mapped, Goto
  <2> QED BY <2>1, <2>2, <2>3, GoOn
<1>3. CASE End(c)
  BY <1>3, QuitStep DEF Admit
<1> QED BY <1>2, <1>3 DEF Admit

LEMMA ReserveStep ==
  ASSUME CreationInv, NEW c \in Owners, Reserve(c)
  PROVE  Fine(c)
<1>1. Mapped /\ Good(c) /\ NoEntry \notin Entry
  BY Values
<1>2. CASE /\ entry' = [entry EXCEPT ![c] = record[c]]
           /\ Goto(c, "reserved") /\ UNCHANGED memory
  <2>1. /\ pc[c] = "reserve" /\ pc'[c] = "reserved" /\ entry'[c] = record[c]
        /\ job' = job /\ record' = record /\ found' = found /\ seen' = seen /\ made' = made
    BY <1>1, <1>2 DEF Reserve, Goto, Mapped, memory
  <2>2. /\ entry[c] = NoEntry /\ made[c] = NothingMade /\ record[c] \in Entry
        /\ record[c].marks = {} /\ record[c].session = None
        /\ record[c].status = "provisioning"
    BY <1>1, <2>1 DEF Good, Sound, Outside, Reserving
  <2>3. Durable(record[c], NothingMade)
    BY <2>2 DEF Durable, OrcaDurable, LocalDurable, Quiet, Present, NothingMade
  <2>4. Good(c)'
    BY <1>1, <2>1, <2>2, <2>3 DEF Good, Sound, Labels, Outside
  <2>5. Frame(c)
    BY <1>1, <1>2, <2>1 DEF Mapped, Goto, Frame
  <2> QED BY <2>2, <2>4, <2>5 DEF Fine, Kept
<1>3. CASE End(c) /\ UNCHANGED entry
  BY <1>3, QuitStep DEF Reserve
<1> QED BY <1>2, <1>3 DEF Reserve

LEMMA ReservedStep ==
  ASSUME CreationInv, NEW c \in Owners, Reserved(c)
  PROVE  Fine(c)
<1>1. Mapped /\ Good(c) /\ NoEntry \notin Entry
      /\ Agents \cap {"create", "resume"} = {}
  BY Values
<1>2. CASE /\ record' = [record EXCEPT ![c] = entry[c]]
           /\ Goto(c, "intent") /\ UNCHANGED <<job, seen, found>>
  <2>1. /\ pc[c] = "reserved" /\ pc'[c] = "intent" /\ record'[c] = entry[c]
        /\ job' = job /\ entry' = entry /\ found' = found /\ seen' = seen /\ made' = made
    BY <1>1, <1>2 DEF Reserved, Goto, Mapped
  <2>2. Good(c)'
    BY <1>1, <2>1
       DEF Good, Sound, Labels, Outside, Allocating, NewSteps, LocalSteps, OrcaSteps, Early,
           LocalKnown, OrcaKnown, Launching, Waiting, Finishing
  <2>3. Mapped' /\ \A d \in Owners \ {c} : pc'[d] = pc[d] /\ record'[d] = record[d]
    BY <1>1, <1>2, <2>1 DEF Mapped, Goto
  <2> QED BY <2>1, <2>2, <2>3, GoOn
<1>3. CASE End(c)
  BY <1>3, QuitStep DEF Reserved
<1> QED BY <1>2, <1>3 DEF Reserved

-----------------------------------------------------------------------------
(* Allocation.  What an invocation that has its reservation knows.          *)
LEMMA Allocated ==
  ASSUME CreationInv, NEW c \in Owners, pc[c] \notin Outside
  PROVE  /\ Mapped /\ record[c] = entry[c] /\ entry[c] \in Entry
         /\ entry[c].status # "active" /\ Durable(entry[c], made[c]) /\ made[c] \in Made
         /\ found[c] \subseteq Agents
         /\ job[c] \in {"create", "resume"} \cup Agents
         /\ Allocating(pc[c], job[c], entry[c], record[c], found[c], made[c])
         /\ Agents \cap {"create", "resume"} = {} /\ NoEntry \notin Entry
BY CreationAssumption DEF CreationInv, Good, Sound, Allocating

(* The entry with more marks.                                               *)
LEMMA MoreMarks ==
  ASSUME NEW r \in Entry, NEW M \in SUBSET Marks, NEW m, r.status # "active"
  PROVE  /\ Noted(r, M) \in Entry /\ Noted(r, M).marks = r.marks \cup M
         /\ Noted(r, M).session = r.session /\ Noted(r, M).engine = r.engine
         /\ Noted(r, M).status = r.status /\ Noted(r, M).status # "active"
         /\ Extends(r, Noted(r, M), m)
BY DEF Entry, Noted, Extends

LEMMA NoteIntentStep ==
  ASSUME CreationInv, NEW c \in Owners, NoteIntent(c)
  PROVE  Fine(c)
<1> DEFINE M == IF IsLocal(c) THEN {"name", "worktree"} ELSE {"name"}
           r == Noted(record[c], M)
<1>1. pc[c] = "intent" /\ pc[c] \notin Outside /\ Save(c, r, "worktree") /\ UNCHANGED made
  BY DEF NoteIntent, Outside
<1>2. M \in SUBSET Marks /\ "name" \in M /\ M \cap LaunchMarks = {}
      /\ (entry[c].engine = "orca" => "worktree" \notin M)
  BY <1>1, Allocated DEF Marks, LaunchMarks, IsLocal
<1>3. /\ r \in Entry /\ r.marks = M /\ r.session = None /\ r.engine = entry[c].engine
      /\ r.status # "active" /\ Extends(entry[c], r, made[c])
  <2>1. entry[c] \in Entry /\ record[c] = entry[c] /\ entry[c].status # "active"
        /\ entry[c].marks = {} /\ entry[c].session = None
    BY <1>1, Allocated DEF Allocating
  <2> HIDE DEF M
  <2>2. /\ r \in Entry /\ r.marks = entry[c].marks \cup M /\ r.session = entry[c].session
        /\ r.engine = entry[c].engine /\ r.status # "active"
        /\ Extends(entry[c], r, made[c])
    <3>1. M \in SUBSET Marks
      BY <1>2
    <3>2. r = Noted(entry[c], M)
      BY <2>1
    <3> HIDE DEF r
    <3> QED BY ONLY <3>1, <3>2, <2>1, MoreMarks
  <2> QED BY <2>1, <2>2
<1>4. made[c] = NothingMade /\ made[c] \in Made /\ job[c] = "create"
  BY <1>1, Allocated DEF Durable, Allocating, NewSteps
<1>5. Durable(r, NothingMade) /\ Quiet(NothingMade) /\ NothingMade.automations = 0
  BY <1>2, <1>3 DEF Durable, OrcaDurable, LocalDurable, Quiet, Present, NothingMade, LaunchMarks
<1>6. Sound("worktree", job[c], r, r, found[c], made[c])
  BY <1>1, <1>2, <1>3, <1>4, <1>5, Allocated
     DEF Sound, Labels, Outside, Allocating, NewSteps, LocalSteps, OrcaSteps, Early,
         LocalKnown, OrcaKnown, Launching, Waiting, Finishing
<1> QED BY <1>1, <1>3, <1>6, SaveStep

LEMMA CreateWorktreeStep ==
  ASSUME CreationInv, NEW c \in Owners, CreateWorktree(c)
  PROVE  Fine(c)
<1> DEFINE l == IF IsLocal(c) THEN "prepare" ELSE "noteWorktree"
<1>1. pc[c] = "worktree" /\ pc[c] \notin Outside /\ Then(c, l)
      /\ made' = [made EXCEPT ![c] = [made[c] EXCEPT !.trees = @ + 1]]
  BY DEF CreateWorktree, Outside
<1>2. made[c] = NothingMade /\ made[c] \in Made /\ job[c] = "create" /\ record[c] = entry[c]
  BY <1>1, Allocated DEF Allocating, NewSteps
<1>3. /\ made' = [d \in Owners |-> made'[d]] /\ \A d \in Owners \ {c} : made'[d] = made[d]
      /\ made'[c] = [NothingMade EXCEPT !.trees = 1]
  <2>1. NothingMade.trees + 1 = 1
    BY DEF NothingMade
  <2> QED BY <1>1, <1>2, <2>1, Allocated DEF Mapped
<1>4. /\ made'[c] \in Made /\ made'[c].trees = 1 /\ made'[c].automations = 0
      /\ Quiet(made'[c]) /\ made'[c].told = Present(made'[c]) /\ made'[c].runs = 0
      /\ made'[c].orders = 0
  BY <1>3 DEF NothingMade, Made, Quiet, Present
<1>5. /\ entry[c].session = None /\ entry[c].marks \cap LaunchMarks = {}
      /\ "name" \in entry[c].marks /\ l \in {"prepare", "noteWorktree"}
      /\ (l = "noteWorktree" => entry[c].engine = "orca")
      /\ entry[c].engine \in {"orca", "local"} /\ "launch" \notin entry[c].marks
  BY <1>1, <1>2, Allocated DEF Allocating, Early, IsLocal, Entry, LaunchMarks
<1>6. Durable(entry[c], made'[c])
  <2>1. OrcaDurable(entry[c], made'[c]) /\ LocalDurable(entry[c], made'[c])
    BY <1>4, <1>5 DEF OrcaDurable, LocalDurable, Quiet
  <2>2. entry[c].status # "active" /\ \A x, y \in Present(made'[c]) : x = y
    BY <1>1, <1>4, Allocated DEF Quiet
  <2>3. made'[c].trees <= 1 /\ made'[c].runs + made'[c].orders <= 1
    BY <1>4
  <2> QED BY <1>5, <2>1, <2>2, <2>3 DEF Durable
<1>7. Sound(l, job[c], entry[c], record[c], found[c], made'[c])
  BY <1>1, <1>2, <1>4, <1>5, <1>6, Allocated
     DEF Sound, Labels, Outside, Allocating, NewSteps, LocalSteps, OrcaSteps, Early,
         LocalKnown, OrcaKnown, Launching, Waiting, Finishing
<1> QED BY <1>1, <1>3, <1>7, ThenStep

(* A write that only adds marks, and what goes on with them.                *)
LEMMA MoreDurable ==
  ASSUME NEW e \in Entry, NEW r \in Entry, NEW m, Durable(e, m),
         e.marks \subseteq r.marks, r.engine = e.engine, r.session = e.session,
         r.status = e.status,
         m.trees = 1 \/ e.engine = "local" \/ "worktree" \notin r.marks
  PROVE  Durable(r, m)
BY DEF Durable, OrcaDurable, LocalDurable, Entry

LEMMA NoteStep ==
  ASSUME CreationInv, NEW c \in Owners, pc[c] \notin Outside, NEW M \in SUBSET Marks,
         NEW l, Save(c, Noted(record[c], M), l), UNCHANGED made,
         made[c].trees = 1,
         \A r \in Entry :
           r.marks = entry[c].marks \cup M /\ r.session = entry[c].session
           /\ r.engine = entry[c].engine /\ r.status # "active" /\ Durable(r, made[c])
           => Sound(l, job[c], r, r, found[c], made[c])
  PROVE  Fine(c)
<1>1. entry[c] \in Entry /\ record[c] = entry[c] /\ entry[c].status # "active"
      /\ Durable(entry[c], made[c])
  BY Allocated
<1>2. PICK r : r = Noted(entry[c], M)
  OBVIOUS
<1>3. /\ r \in Entry /\ r.marks = entry[c].marks \cup M /\ r.session = entry[c].session
      /\ r.engine = entry[c].engine /\ r.status # "active" /\ r.status = entry[c].status
      /\ Extends(entry[c], r, made[c])
  BY ONLY <1>1, <1>2, MoreMarks, M \in SUBSET Marks
<1>4. Durable(r, made[c])
  BY <1>1, <1>3, MoreDurable
<1>5. Sound(l, job[c], r, r, found[c], made[c])
  BY <1>3, <1>4
<1>6. Save(c, r, l)
  BY <1>1, <1>2
<1> QED BY <1>3, <1>5, <1>6, SaveStep

LEMMA NoteWorktreeStep ==
  ASSUME CreationInv, NEW c \in Owners, NoteWorktree(c)
  PROVE  Fine(c)
<1>1. /\ pc[c] = "noteWorktree" /\ pc[c] \notin Outside /\ UNCHANGED made
      /\ Save(c, Noted(record[c], {"worktree"}), "prepare") /\ {"worktree"} \in SUBSET Marks
  BY DEF NoteWorktree, Outside, Marks
<1>2. /\ made[c].trees = 1 /\ made[c].automations = 0 /\ Quiet(made[c])
      /\ entry[c].session = None /\ entry[c].marks \cap LaunchMarks = {}
      /\ "name" \in entry[c].marks
  BY <1>1, Allocated DEF Allocating, Early, NewSteps
<1>3. ASSUME NEW r \in Entry, r.marks = entry[c].marks \cup {"worktree"},
             r.session = entry[c].session, r.engine = entry[c].engine,
             r.status # "active", Durable(r, made[c])
      PROVE  Sound("prepare", job[c], r, r, found[c], made[c])
  <2>1. job[c] \notin Agents
    BY <1>1, Allocated DEF Allocating, BindKnown, BindSteps
  <2>2. "name" \in r.marks /\ r.marks \cap LaunchMarks = {} /\ r.session = None
    BY <1>2, <1>3 DEF LaunchMarks
  <2> QED BY <1>1, <1>2, <1>3, <2>1, <2>2, Allocated
       DEF Sound, Labels, Outside, Allocating, NewSteps, LocalSteps, OrcaSteps, Early,
           LocalKnown, OrcaKnown, Launching, Waiting, Finishing
<1> QED BY <1>1, <1>2, <1>3, NoteStep

LEMMA PrepareStep ==
  ASSUME CreationInv, NEW c \in Owners, Prepare(c)
  PROVE  Fine(c)
<1> DEFINE l == IF IsLocal(c) THEN "create"
                ELSE IF job[c] = "create" THEN "list" ELSE "noteLaunch"
<1>1. pc[c] = "prepare" /\ pc[c] \notin Outside /\ UNCHANGED made /\ Save(c, record[c], l)
  BY DEF Prepare, Outside
<1>2. /\ made[c].trees = 1 /\ made[c].automations = 0 /\ Quiet(made[c])
      /\ entry[c].session = None /\ entry[c].marks \cap LaunchMarks = {}
      /\ "name" \in entry[c].marks /\ job[c] \notin Agents
  BY <1>1, Allocated DEF Allocating, Early, NewSteps, BindKnown, BindSteps
<1>3. /\ l \in {"create", "list", "noteLaunch"}
      /\ l = "create" => entry[c].engine = "local"
      /\ l # "create" => entry[c].engine = "orca"
  <2>1. record[c] = entry[c] /\ entry[c].engine \in {"local", "orca"}
    BY <1>1, Allocated DEF Entry
  <2>2. CASE IsLocal(c)
    BY <2>1, <2>2 DEF IsLocal
  <2>3. CASE ~IsLocal(c) /\ job[c] = "create"
    BY <2>1, <2>3 DEF IsLocal
  <2>4. CASE ~IsLocal(c) /\ job[c] # "create"
    BY <2>1, <2>4 DEF IsLocal
  <2> QED BY <2>2, <2>3, <2>4
<1>4. Sound(l, job[c], entry[c], entry[c], found[c], made[c])
  <2> HIDE DEF l
  <2> QED BY <1>1, <1>2, <1>3, Allocated
       DEF Sound, Labels, Outside, Allocating, NewSteps, LocalSteps, OrcaSteps, Early,
           LocalKnown, OrcaKnown, Launching, Waiting, Finishing
<1>5. Extends(entry[c], entry[c], made[c]) /\ record[c] = entry[c] /\ entry[c] \in Entry
      /\ entry[c].status # "active"
  BY <1>1, Allocated DEF Extends
<1> QED BY <1>1, <1>4, <1>5, SaveStep

-----------------------------------------------------------------------------
(* A local worktree.                                                        *)
LEMMA CreateSessionStep ==
  ASSUME CreationInv, NEW c \in Owners, CreateSession(c)
  PROVE  Fine(c)
<1>1. /\ pc[c] = "create" /\ pc[c] \notin Outside /\ Goto(c, "noteSession")
      /\ UNCHANGED <<entry, job, record, seen>>
  BY DEF CreateSession, Outside
<1>2. PICK a \in Unused(c) :
        /\ made' = [made EXCEPT ![c] =
                      [made[c] EXCEPT !.agents = [made[c].agents EXCEPT ![a] = "saved"]]]
        /\ found' = [found EXCEPT ![c] = {a}]
  BY DEF CreateSession
<1>3. a \in Agents \ Visitors /\ a \in Agents
  BY <1>2 DEF Unused
<1>4. /\ made[c].trees = 1 /\ made[c].automations = 0 /\ Quiet(made[c])
      /\ entry[c].session = None /\ "name" \in entry[c].marks /\ job[c] \notin Agents
      /\ entry[c].engine = "local" /\ entry[c].status # "active"
  BY <1>1, Allocated DEF Allocating, Early, NewSteps, BindKnown, BindSteps, LocalSteps
<1>5. /\ pc'[c] = "noteSession" /\ found'[c] = {a} /\ job' = job /\ record' = record
      /\ made'[c] = [made[c] EXCEPT !.agents = [made[c].agents EXCEPT ![a] = "saved"]]
      /\ Mapped'
      /\ \A d \in Owners \ {c} : pc'[d] = pc[d] /\ found'[d] = found[d] /\ made'[d] = made[d]
  BY <1>1, <1>2, Allocated DEF Mapped, Goto
<1>6. /\ made'[c] \in Made /\ Present(made'[c]) = {a}
      /\ made'[c].trees = 1 /\ made'[c].automations = 0 /\ made'[c].runs = 0
      /\ made'[c].orders = 0 /\ made'[c].told = {}
  <2>1. made[c] \in Made /\ made'[c] \in Made
    BY <1>1, <1>3, <1>5, Allocated DEF Made
  <2>2. /\ made'[c].trees = 1 /\ made'[c].automations = 0 /\ made'[c].runs = 0
        /\ made'[c].orders = 0 /\ made'[c].told = {}
    BY <1>4, <1>5, <2>1 DEF Made, Quiet
  <2>3. \A b \in Agents : made'[c].agents[b] = IF b = a THEN "saved" ELSE made[c].agents[b]
    BY <1>3, <1>5, <2>1 DEF Made
  <2>4. \A b \in Agents \ Visitors : made[c].agents[b] = "none"
    BY <1>4 DEF Quiet, Present
  <2>5. Present(made'[c]) = {a}
    BY <1>3, <2>3, <2>4 DEF Present
  <2> QED BY <2>1, <2>2, <2>5
<1>7. Durable(entry[c], made'[c])
  <2>1. LocalDurable(entry[c], made'[c]) /\ \A x, y \in Present(made'[c]) : x = y
    BY <1>6 DEF LocalDurable
  <2>2. made'[c].trees <= 1 /\ made'[c].runs + made'[c].orders <= 1
    BY <1>6
  <2> QED BY <1>4, <2>1, <2>2 DEF Durable
<1>8. Sound("noteSession", job[c], entry[c], record[c], {a}, made'[c])
  BY <1>1, <1>3, <1>4, <1>6, <1>7, Allocated
     DEF Sound, Labels, Outside, Allocating, NewSteps, LocalSteps, OrcaSteps, Early,
         LocalKnown, OrcaKnown, Launching, Waiting, Finishing
<1>9. Good(c)'
  BY <1>1, <1>5, <1>8 DEF Good
<1> QED BY <1>1, <1>5, <1>9, GoOn

LEMMA NoteSessionStep ==
  ASSUME CreationInv, NEW c \in Owners, NoteSession(c)
  PROVE  Fine(c)
<1>1. pc[c] = "noteSession" /\ pc[c] \notin Outside
  BY DEF NoteSession, Outside
<1>2. PICK a \in found[c] :
        LET r == [record[c] EXCEPT !.session = a]
        IN \/ Written(c, r, "open") /\ UNCHANGED made
           \/ /\ Trouble /\ Fail(c, r)
              /\ made' = [made EXCEPT ![c] =
                           [made[c] EXCEPT !.agents = [made[c].agents EXCEPT ![a] = "none"]]]
  BY DEF NoteSession
<1>3. /\ a \in Agents \ Visitors /\ Present(made[c]) = {a}
      /\ entry[c].session = None /\ made[c].orders = 0 /\ made[c].told = {}
      /\ made[c].trees = 1 /\ "name" \in entry[c].marks /\ job[c] \notin Agents
      /\ entry[c].engine = "local" /\ entry[c].status # "active"
      /\ made[c].automations = 0 /\ made[c].runs = 0
  BY <1>1, Allocated
     DEF Allocating, NewSteps, BindKnown, BindSteps, LocalSteps, LocalKnown, Durable,
         LocalDurable
<1>4. PICK r : r = [record[c] EXCEPT !.session = a]
  OBVIOUS
<1>5. /\ r \in Entry /\ r.session = a /\ r.marks = entry[c].marks /\ r.engine = "local"
      /\ r.status # "active"
  BY <1>1, <1>3, <1>4, Allocated DEF Entry
<1>6. Extends(entry[c], r, made[c])
  BY <1>3, <1>5 DEF Extends
<1>7. CASE Written(c, r, "open") /\ UNCHANGED made
  <2>1. Durable(r, made[c])
    BY <1>1, <1>3, <1>5, Allocated DEF Durable, LocalDurable
  <2>2. Sound("open", job[c], r, r, found[c], made[c])
    BY <1>1, <1>3, <1>5, <2>1, Allocated
       DEF Sound, Labels, Outside, Allocating, NewSteps, LocalSteps, OrcaSteps, Early,
           LocalKnown, OrcaKnown, Launching, Waiting, Finishing
  <2>3. Save(c, r, "open")
    BY <1>7 DEF Save
  <2> QED BY <1>1, <1>5, <1>6, <1>7, <2>2, <2>3, SaveStep
<1>8. CASE /\ Fail(c, r)
           /\ made' = [made EXCEPT ![c] =
                        [made[c] EXCEPT !.agents = [made[c].agents EXCEPT ![a] = "none"]]]
  <2>1. /\ made' = [d \in Owners |-> made'[d]] /\ \A d \in Owners \ {c} : made'[d] = made[d]
        /\ made'[c] = [made[c] EXCEPT !.agents = [made[c].agents EXCEPT ![a] = "none"]]
    BY <1>1, <1>8, Allocated DEF Mapped
  <2>2. made[c] \in Made /\ made'[c] \in Made
    BY <1>1, <1>3, <2>1, Allocated DEF Made
  <2>3. /\ made'[c].trees = 1 /\ made'[c].automations = 0 /\ made'[c].runs = 0
        /\ made'[c].orders = 0 /\ made'[c].told = {}
    BY <1>3, <2>1, <2>2 DEF Made
  <2>4. \A b \in Agents : made'[c].agents[b] = IF b = a THEN "none" ELSE made[c].agents[b]
    BY <1>3, <2>1, <2>2 DEF Made
  <2>5. Present(made'[c]) \subseteq Present(made[c])
    BY <2>4 DEF Present
  <2>6. Durable(r, made'[c]) /\ Durable(entry[c], made'[c])
    <3>1. made'[c].trees <= 1 /\ made'[c].runs + made'[c].orders <= 1
      BY <2>3
    <3> QED BY <1>3, <1>5, <2>3, <2>5, <3>1 DEF Durable, LocalDurable
  <2> QED BY <1>1, <1>5, <1>6, <1>8, <2>1, <2>2, <2>6, FailStep
<1> QED BY <1>2, <1>4, <1>7, <1>8

LEMMA OpenSessionStep ==
  ASSUME CreationInv, NEW c \in Owners, OpenSession(c)
  PROVE  Fine(c)
<1> DEFINE s == entry[c].session
<1>1. /\ pc[c] = "open" /\ pc[c] \notin Outside /\ Then(c, "noteRoute")
      /\ made' = [made EXCEPT ![c] =
           [made[c] EXCEPT !.agents = [made[c].agents EXCEPT ![record[c].session] = "live"]]]
  BY DEF OpenSession, Outside
<1>2. /\ s \in Present(made[c]) /\ made[c].orders = 0 /\ made[c].told = {}
      /\ made[c].trees = 1 /\ "name" \in entry[c].marks /\ job[c] \notin Agents
      /\ entry[c].engine = "local" /\ entry[c].status # "active"
      /\ made[c].automations = 0 /\ made[c].runs = 0
      /\ \A x, y \in Present(made[c]) : x = y
  BY <1>1, Allocated
     DEF Allocating, NewSteps, BindKnown, BindSteps, LocalSteps, LocalKnown, Durable,
         LocalDurable
<1>3. s \in Agents /\ record[c] = entry[c]
  BY <1>1, <1>2, Allocated DEF Present
<1>4. /\ made' = [d \in Owners |-> made'[d]] /\ \A d \in Owners \ {c} : made'[d] = made[d]
      /\ made'[c] = [made[c] EXCEPT !.agents = [made[c].agents EXCEPT ![s] = "live"]]
  BY <1>1, <1>3, Allocated DEF Mapped
<1>5. made[c] \in Made /\ made'[c] \in Made
  BY <1>1, <1>3, <1>4, Allocated DEF Made
<1>6. /\ made'[c].trees = 1 /\ made'[c].automations = 0 /\ made'[c].runs = 0
      /\ made'[c].orders = 0 /\ made'[c].told = {}
  BY <1>2, <1>4, <1>5 DEF Made
<1>7. \A b \in Agents : made'[c].agents[b] = IF b = s THEN "live" ELSE made[c].agents[b]
  BY <1>3, <1>4, <1>5 DEF Made
<1>8. Present(made'[c]) = Present(made[c])
  BY <1>2, <1>7 DEF Present
<1>9. Durable(entry[c], made'[c])
  <2>1. made'[c].trees <= 1 /\ made'[c].runs + made'[c].orders <= 1
    BY <1>6
  <2> QED BY <1>2, <1>6, <1>8, <2>1 DEF Durable, LocalDurable
<1>10. Sound("noteRoute", job[c], entry[c], record[c], found[c], made'[c])
  BY <1>1, <1>2, <1>5, <1>6, <1>8, <1>9, Allocated
     DEF Sound, Labels, Outside, Allocating, NewSteps, LocalSteps, OrcaSteps, Early,
         LocalKnown, OrcaKnown, Launching, Waiting, Finishing
<1> QED BY <1>1, <1>4, <1>10, ThenStep

LEMMA NoteRouteStep ==
  ASSUME CreationInv, NEW c \in Owners, NoteRoute(c)
  PROVE  Fine(c)
<1>1. /\ pc[c] = "noteRoute" /\ pc[c] \notin Outside /\ UNCHANGED made
      /\ Save(c, Noted(record[c], {"route"}), "deliver") /\ {"route"} \in SUBSET Marks
  BY DEF NoteRoute, Outside, Marks
<1>2. /\ entry[c].session \in Present(made[c]) /\ made[c].orders = 0 /\ made[c].told = {}
      /\ made[c].trees = 1 /\ "name" \in entry[c].marks /\ job[c] \notin Agents
      /\ entry[c].engine = "local"
  BY <1>1, Allocated DEF Allocating, NewSteps, BindKnown, BindSteps, LocalSteps, LocalKnown
<1>3. ASSUME NEW r \in Entry, r.marks = entry[c].marks \cup {"route"},
             r.session = entry[c].session, r.engine = entry[c].engine,
             r.status # "active", Durable(r, made[c])
      PROVE  Sound("deliver", job[c], r, r, found[c], made[c])
  BY <1>1, <1>2, <1>3, Allocated
     DEF Sound, Labels, Outside, Allocating, NewSteps, LocalSteps, OrcaSteps, Early,
         LocalKnown, OrcaKnown, Launching, Waiting, Finishing
<1> QED BY <1>1, <1>2, <1>3, NoteStep

LEMMA DeliverStep ==
  ASSUME CreationInv, NEW c \in Owners, Deliver(c)
  PROVE  Fine(c)
<1> DEFINE s == entry[c].session
<1>1. /\ pc[c] = "deliver" /\ pc[c] \notin Outside /\ Then(c, "activate")
      /\ made' = [made EXCEPT ![c] =
           [made[c] EXCEPT !.orders = @ + 1, !.told = @ \cup {record[c].session}]]
  BY DEF Deliver, Outside
<1>2. /\ s \in Present(made[c]) /\ made[c].orders = 0 /\ made[c].told = {}
      /\ made[c].trees = 1 /\ "name" \in entry[c].marks /\ job[c] \notin Agents
      /\ entry[c].engine = "local" /\ entry[c].status # "active"
      /\ made[c].automations = 0 /\ made[c].runs = 0
      /\ \A x, y \in Present(made[c]) : x = y
  BY <1>1, Allocated
     DEF Allocating, NewSteps, BindKnown, BindSteps, LocalSteps, LocalKnown, Durable,
         LocalDurable
<1>3. s \in Agents /\ record[c] = entry[c] /\ made[c] \in Made
  BY <1>1, <1>2, Allocated DEF Present
<1>4. /\ made' = [d \in Owners |-> made'[d]] /\ \A d \in Owners \ {c} : made'[d] = made[d]
      /\ made'[c] = [made[c] EXCEPT !.orders = made[c].orders + 1,
                                    !.told = made[c].told \cup {s}]
  BY <1>1, <1>3, Allocated DEF Mapped
<1>5. /\ made'[c] \in Made
      /\ made'[c].trees = 1 /\ made'[c].automations = 0 /\ made'[c].runs = 0
      /\ made'[c].orders = 1 /\ made'[c].told = {s} /\ made'[c].agents = made[c].agents
  <2>1. made[c].orders + 1 = 1 /\ made[c].told \cup {s} = {s}
    BY <1>2
  <2>2. made'[c] = [made[c] EXCEPT !.orders = 1, !.told = {s}]
    BY <1>4, <2>1
  <2> HIDE DEF s
  <2>3. {s} \in SUBSET Agents
    BY <1>3
  <2> QED BY <1>2, <1>3, <2>2, <2>3 DEF Made
<1>6. Present(made'[c]) = Present(made[c])
  BY <1>5 DEF Present
<1>7. Durable(entry[c], made'[c])
  <2>1. made'[c].trees <= 1 /\ made'[c].runs + made'[c].orders <= 1
    BY <1>5
  <2> QED BY <1>2, <1>5, <1>6, <2>1 DEF Durable, LocalDurable
<1>8. Sound("activate", job[c], entry[c], record[c], found[c], made'[c])
  BY <1>1, <1>2, <1>5, <1>6, <1>7, Allocated
     DEF Sound, Labels, Outside, Allocating, NewSteps, LocalSteps, OrcaSteps, Early,
         LocalKnown, OrcaKnown, Launching, Waiting, Finishing
<1> QED BY <1>1, <1>4, <1>8, ThenStep

-----------------------------------------------------------------------------
(* Orca's automation.                                                       *)
LEMMA ListPriorStep ==
  ASSUME CreationInv, NEW c \in Owners, ListPrior(c)
  PROVE  Fine(c)
<1>1. /\ pc[c] = "list" /\ pc[c] \notin Outside /\ Goto(c, "noteLaunch")
      /\ seen' = [seen EXCEPT ![c] = Listed(c)]
      /\ UNCHANGED <<entry, job, record, found, made>>
  BY DEF ListPrior, Outside
<1>2. /\ pc'[c] = "noteLaunch" /\ Mapped'
      /\ \A d \in Owners \ {c} : pc'[d] = pc[d] /\ seen'[d] = seen[d]
  BY <1>1, Allocated DEF Mapped, Goto
<1>3. job[c] \notin Agents
  BY <1>1, Allocated DEF Allocating, BindKnown, BindSteps
<1>4. Sound("noteLaunch", job[c], entry[c], record[c], found[c], made[c])
  BY <1>1, <1>3, Allocated
     DEF Sound, Labels, Outside, Allocating, NewSteps, LocalSteps, OrcaSteps, Early,
         LocalKnown, OrcaKnown, Launching, Waiting, Finishing
<1>5. Good(c)'
  BY <1>1, <1>2, <1>4 DEF Good
<1> QED BY <1>1, <1>2, <1>5, GoOn

LEMMA NoteLaunchStep ==
  ASSUME CreationInv, NEW c \in Owners, NoteLaunch(c)
  PROVE  Fine(c)
<1>1. /\ pc[c] = "noteLaunch" /\ pc[c] \notin Outside /\ UNCHANGED made
      /\ Save(c, Noted(record[c], {"launch"}), "automate") /\ {"launch"} \in SUBSET Marks
  BY DEF NoteLaunch, Outside, Marks
<1>2. /\ made[c].trees = 1 /\ made[c].automations = 0 /\ Quiet(made[c])
      /\ entry[c].session = None /\ "name" \in entry[c].marks /\ entry[c].engine = "orca"
      /\ job[c] \notin Agents
  BY <1>1, Allocated DEF Allocating, Early, NewSteps, OrcaSteps, BindKnown, BindSteps
<1>3. ASSUME NEW r \in Entry, r.marks = entry[c].marks \cup {"launch"},
             r.session = entry[c].session, r.engine = entry[c].engine,
             r.status # "active", Durable(r, made[c])
      PROVE  Sound("automate", job[c], r, r, found[c], made[c])
  BY <1>1, <1>2, <1>3, Allocated
     DEF Sound, Labels, Outside, Allocating, NewSteps, LocalSteps, OrcaSteps, Early,
         LocalKnown, OrcaKnown, Launching, Waiting, Finishing
<1> QED BY <1>1, <1>2, <1>3, NoteStep

LEMMA CreateAutomationStep ==
  ASSUME CreationInv, NEW c \in Owners, CreateAutomation(c)
  PROVE  Fine(c)
<1>1. /\ pc[c] = "automate" /\ pc[c] \notin Outside /\ Then(c, "noteAutomation")
      /\ made' = [made EXCEPT ![c] = [made[c] EXCEPT !.automations = @ + 1]]
  BY DEF CreateAutomation, Outside
<1>2. /\ entry[c].engine = "orca" /\ job[c] \notin Agents /\ entry[c].status # "active"
      /\ made[c] \in Made /\ "launch" \in entry[c].marks
  BY <1>1, Allocated
     DEF Allocating, OrcaSteps, BindKnown, BindSteps, OrcaKnown, Launching
<1>3. /\ made[c].trees = 1 /\ made[c].automations = 0 /\ Quiet(made[c])
      /\ entry[c].session = None /\ "name" \in entry[c].marks
  BY <1>1, <1>2, Allocated DEF Allocating, NewSteps, OrcaKnown, Launching
<1>4. /\ made' = [d \in Owners |-> made'[d]] /\ \A d \in Owners \ {c} : made'[d] = made[d]
      /\ made'[c] = [made[c] EXCEPT !.automations = made[c].automations + 1]
  BY <1>1, Allocated DEF Mapped
<1>5. /\ made'[c] \in Made
      /\ made'[c].trees = made[c].trees /\ made'[c].automations = 1
      /\ made'[c].runs = made[c].runs /\ made'[c].orders = made[c].orders
      /\ made'[c].told = made[c].told /\ made'[c].agents = made[c].agents
  BY <1>2, <1>3, <1>4 DEF Made
<1>6. Present(made'[c]) = Present(made[c]) /\ Quiet(made'[c])
  BY <1>3, <1>5 DEF Present, Quiet
<1>7. Durable(entry[c], made'[c])
  <2>1. /\ made[c].trees <= 1 /\ made[c].runs + made[c].orders <= 1
        /\ OrcaDurable(entry[c], made[c])
    BY <1>1, <1>2, Allocated DEF Durable
  <2>2. OrcaDurable(entry[c], made'[c])
    BY <1>2, <1>5, <1>6, <2>1 DEF OrcaDurable
  <2> QED BY <1>2, <1>3, <1>5, <1>6, <2>1, <2>2 DEF Durable, Quiet
<1>8. Sound("noteAutomation", job[c], entry[c], record[c], found[c], made'[c])
  BY <1>1, <1>2, <1>3, <1>5, <1>6, <1>7, Allocated
     DEF Sound, Labels, Outside, Allocating, NewSteps, LocalSteps, OrcaSteps, Early,
         LocalKnown, OrcaKnown, Launching, Waiting, Finishing
<1> QED BY <1>1, <1>4, <1>8, ThenStep

LEMMA NoteAutomationStep ==
  ASSUME CreationInv, NEW c \in Owners, NoteAutomation(c)
  PROVE  Fine(c)
<1>1. /\ pc[c] = "noteAutomation" /\ pc[c] \notin Outside /\ UNCHANGED made
      /\ Save(c, Noted(record[c], {"automation"}), "run") /\ {"automation"} \in SUBSET Marks
  BY DEF NoteAutomation, Outside, Marks
<1>2. /\ entry[c].engine = "orca" /\ job[c] \notin Agents
      /\ made[c].trees = 1 /\ "name" \in entry[c].marks
  BY <1>1, Allocated DEF Allocating, OrcaSteps, NewSteps, BindKnown, BindSteps
<1>3. /\ made[c].automations = 1 /\ Quiet(made[c])
      /\ entry[c].session = None /\ "launch" \in entry[c].marks
  BY <1>1, <1>2, Allocated DEF Allocating, OrcaKnown, Launching
<1>4. ASSUME NEW r \in Entry, r.marks = entry[c].marks \cup {"automation"},
             r.session = entry[c].session, r.engine = entry[c].engine,
             r.status # "active", Durable(r, made[c])
      PROVE  Sound("run", job[c], r, r, found[c], made[c])
  BY <1>1, <1>2, <1>3, <1>4, Allocated
     DEF Sound, Labels, Outside, Allocating, NewSteps, LocalSteps, OrcaSteps, Early,
         LocalKnown, OrcaKnown, Launching, Waiting, Finishing
<1> QED BY <1>1, <1>2, <1>4, NoteStep

LEMMA RunAutomationStep ==
  ASSUME CreationInv, NEW c \in Owners, RunAutomation(c)
  PROVE  Fine(c)
<1>1. /\ pc[c] = "run" /\ pc[c] \notin Outside /\ Then(c, "noteRun")
      /\ made' = [made EXCEPT ![c] = [made[c] EXCEPT !.runs = @ + 1]]
  BY DEF RunAutomation, Outside
<1>2. /\ entry[c].engine = "orca" /\ job[c] \notin Agents /\ entry[c].status # "active"
      /\ made[c] \in Made /\ made[c].trees = 1 /\ "name" \in entry[c].marks
  BY <1>1, Allocated DEF Allocating, OrcaSteps, NewSteps, BindKnown, BindSteps
<1>3. /\ made[c].automations = 1 /\ Quiet(made[c])
      /\ entry[c].session = None /\ "launch" \in entry[c].marks
  BY <1>1, <1>2, Allocated DEF Allocating, OrcaKnown, Launching
<1>4. /\ made' = [d \in Owners |-> made'[d]] /\ \A d \in Owners \ {c} : made'[d] = made[d]
      /\ made'[c] = [made[c] EXCEPT !.runs = made[c].runs + 1]
  BY <1>1, Allocated DEF Mapped
<1>5. made[c].runs = 0 /\ made[c].orders = 0
  BY <1>3 DEF Quiet
<1>6. /\ made'[c] \in Made
      /\ made'[c].trees = 1 /\ made'[c].automations = 1
      /\ made'[c].runs = 1 /\ made'[c].orders = 0
      /\ made'[c].told = made[c].told /\ made'[c].agents = made[c].agents
  BY <1>2, <1>3, <1>4, <1>5 DEF Made
<1>7. Present(made'[c]) = {} /\ made'[c].told = {}
  BY <1>3, <1>6 DEF Present, Quiet
<1>8. Durable(entry[c], made'[c])
  <2>1. made'[c].trees <= 1 /\ made'[c].runs + made'[c].orders <= 1
    BY <1>6
  <2>2. OrcaDurable(entry[c], made'[c])
    BY <1>3, <1>6, <1>7 DEF OrcaDurable
  <2> QED BY <1>2, <1>7, <2>1, <2>2 DEF Durable
<1>9. Sound("noteRun", job[c], entry[c], record[c], found[c], made'[c])
  BY <1>1, <1>2, <1>3, <1>6, <1>8, Allocated
     DEF Sound, Labels, Outside, Allocating, NewSteps, LocalSteps, OrcaSteps, Early,
         LocalKnown, OrcaKnown, Launching, Waiting, Finishing
<1> QED BY <1>1, <1>4, <1>9, ThenStep

-----------------------------------------------------------------------------
(* The binding of a session.                                                *)
LEMMA NoteRunStep ==
  ASSUME CreationInv, NEW c \in Owners, NoteRun(c)
  PROVE  Fine(c)
<1>1. /\ pc[c] = "noteRun" /\ pc[c] \notin Outside /\ UNCHANGED made
      /\ Save(c, Noted(record[c], {"run"}), "listing") /\ {"run"} \in SUBSET Marks
  BY DEF NoteRun, Outside, Marks
<1>2. /\ entry[c].engine = "orca" /\ job[c] \notin Agents
      /\ made[c].trees = 1 /\ "name" \in entry[c].marks
  BY <1>1, Allocated DEF Allocating, OrcaSteps, NewSteps, BindKnown, BindSteps
<1>3. made[c].automations = 1 /\ entry[c].session = None /\ "launch" \in entry[c].marks
  BY <1>1, <1>2, Allocated DEF Allocating, OrcaKnown, Waiting
<1>4. ASSUME NEW r \in Entry, r.marks = entry[c].marks \cup {"run"},
             r.session = entry[c].session, r.engine = entry[c].engine,
             r.status # "active", Durable(r, made[c])
      PROVE  Sound("listing", job[c], r, r, found[c], made[c])
  BY <1>1, <1>2, <1>3, <1>4, Allocated
     DEF Sound, Labels, Outside, Allocating, NewSteps, LocalSteps, OrcaSteps, Early,
         LocalKnown, OrcaKnown, Launching, Waiting, Finishing
<1> QED BY <1>1, <1>2, <1>4, NoteStep

LEMMA ListSessionsStep ==
  ASSUME CreationInv, NEW c \in Owners, ListSessions(c)
  PROVE  Fine(c)
<1>1. /\ pc[c] = "listing" /\ pc[c] \notin Outside /\ Goto(c, "terminals")
      /\ found' = [found EXCEPT ![c] = Listed(c) \ seen[c]]
      /\ UNCHANGED <<entry, job, record, seen, made>>
  BY DEF ListSessions, Outside
<1>2. /\ pc'[c] = "terminals" /\ Mapped' /\ found'[c] = Listed(c) \ seen[c]
      /\ \A d \in Owners \ {c} : pc'[d] = pc[d] /\ found'[d] = found[d]
  BY <1>1, Allocated DEF Mapped, Goto
<1>3. found'[c] \subseteq Agents /\ found'[c] \subseteq Candidates(made[c])
  BY <1>2 DEF Listed, Candidates, Present
<1>4. /\ entry[c].engine = "orca" /\ made[c].trees = 1 /\ "name" \in entry[c].marks
      /\ entry[c].status # "active"
  BY <1>1, Allocated DEF Allocating, OrcaSteps, NewSteps
<1>5. job[c] \notin Agents => OrcaKnown("terminals", entry[c], found'[c], made[c])
  BY <1>1, <1>4, Allocated DEF Allocating, OrcaKnown, Launching, Waiting, Finishing
<1>6. job[c] \in Agents => BindKnown("terminals", job[c], entry[c], made[c])
  BY <1>1, Allocated DEF Allocating, BindKnown, BindSteps
<1>7. Sound("terminals", job[c], entry[c], record[c], found'[c], made[c])
  BY <1>1, <1>3, <1>4, <1>5, <1>6, Allocated
     DEF Sound, Labels, Outside, Allocating, NewSteps, LocalSteps, OrcaSteps, Early
<1>8. Good(c)'
  BY <1>1, <1>2, <1>7 DEF Good
<1> QED BY <1>1, <1>2, <1>8, GoOn

(* A failure that changes nothing else.                                     *)
LEMMA PlainFail ==
  ASSUME CreationInv, NEW c \in Owners, pc[c] \notin Outside, Fail(c, record[c]),
         UNCHANGED made
  PROVE  Fine(c)
<1>1. made' = [d \in Owners |-> made'[d]] /\ \A d \in Owners : made'[d] = made[d]
  BY Allocated DEF Mapped
<1>2. record[c] = entry[c] /\ entry[c] \in Entry /\ Durable(entry[c], made[c])
      /\ made[c] \in Made
  BY Allocated
<1>3. Extends(entry[c], record[c], made[c])
  BY <1>2 DEF Extends
<1> QED BY <1>1, <1>2, <1>3, FailStep

(* Nothing but the step changes.                                            *)
LEMMA GotoStep ==
  ASSUME CreationInv, NEW c \in Owners, pc[c] \notin Outside, NEW l, Goto(c, l),
         UNCHANGED <<entry, memory, made>>,
         Sound(l, job[c], entry[c], record[c], found[c], made[c])
  PROVE  Fine(c)
<1>1. /\ pc'[c] = l /\ Mapped' /\ \A d \in Owners \ {c} : pc'[d] = pc[d]
      /\ job' = job /\ record' = record /\ found' = found /\ seen' = seen
  BY Allocated DEF Mapped, Goto, memory
<1>2. Good(c)'
  BY <1>1 DEF Good
<1> QED BY <1>1, <1>2, GoOn

LEMMA ReadTerminalsStep ==
  ASSUME CreationInv, NEW c \in Owners, ReadTerminals(c)
  PROVE  Fine(c)
<1>1. pc[c] = "terminals" /\ pc[c] \notin Outside /\ UNCHANGED made
  BY DEF ReadTerminals, Outside
<1>2. /\ entry[c].engine = "orca" /\ made[c].trees = 1 /\ "name" \in entry[c].marks
      /\ entry[c].status # "active" /\ found[c] \subseteq Candidates(made[c])
  BY <1>1, Allocated DEF Allocating, OrcaSteps, NewSteps
<1>3. CASE Fail(c, record[c])
  BY <1>1, <1>3, PlainFail
<1>4. CASE /\ Goto(c, IF job[c] \in Agents THEN "activate" ELSE "noteBinding")
           /\ UNCHANGED <<entry, memory>>
  <2>1. CASE job[c] \in Agents
    <3>1. Goto(c, "activate")
      BY <1>4, <2>1
    <3>2. BindKnown("activate", job[c], entry[c], made[c])
      BY <1>1, <2>1, Allocated DEF Allocating, BindKnown, BindSteps
    <3>3. Sound("activate", job[c], entry[c], record[c], found[c], made[c])
      BY <1>1, <1>2, <2>1, <3>2, Allocated
         DEF Sound, Labels, Outside, Allocating, NewSteps, LocalSteps, OrcaSteps, Early
    <3> QED BY <1>1, <1>4, <3>1, <3>3, GotoStep
  <2>2. CASE job[c] \notin Agents
    <3>1. Goto(c, "noteBinding")
      BY <1>4, <2>2
    <3>2. OrcaKnown("noteBinding", entry[c], found[c], made[c])
      BY <1>1, <1>2, <2>2, Allocated
         DEF Allocating, OrcaKnown, Launching, Waiting, Finishing
    <3>3. Sound("noteBinding", job[c], entry[c], record[c], found[c], made[c])
      BY <1>1, <1>2, <2>2, <3>2, Allocated
         DEF Sound, Labels, Outside, Allocating, NewSteps, LocalSteps, OrcaSteps, Early
    <3> QED BY <1>1, <1>4, <3>1, <3>3, GotoStep
  <2> QED BY <2>1, <2>2
<1>5. CASE Goto(c, "listing") /\ UNCHANGED <<entry, memory>>
  <2>1. job[c] \notin Agents => OrcaKnown("listing", entry[c], found[c], made[c])
    BY <1>1, <1>2, Allocated DEF Allocating, OrcaKnown, Launching, Waiting, Finishing
  <2>2. job[c] \in Agents => BindKnown("listing", job[c], entry[c], made[c])
    BY <1>1, Allocated DEF Allocating, BindKnown, BindSteps
  <2>3. Sound("listing", job[c], entry[c], record[c], found[c], made[c])
    BY <1>1, <1>2, <2>1, <2>2, Allocated
       DEF Sound, Labels, Outside, Allocating, NewSteps, LocalSteps, OrcaSteps, Early
  <2> QED BY <1>1, <1>5, <2>3, GotoStep
<1> QED BY <1>3, <1>4, <1>5 DEF ReadTerminals

LEMMA NoteBindingStep ==
  ASSUME CreationInv, NEW c \in Owners, NoteBinding(c)
  PROVE  Fine(c)
<1>1. pc[c] = "noteBinding" /\ pc[c] \notin Outside /\ UNCHANGED made
  BY DEF NoteBinding, Outside
<1>2. PICK a \in found[c] :
        Save(c, [Noted(record[c], {"route"}) EXCEPT !.session = a], "remove")
  BY DEF NoteBinding
<1>3. /\ entry[c].engine = "orca" /\ made[c].trees = 1 /\ "name" \in entry[c].marks
      /\ entry[c].status # "active" /\ a \in Candidates(made[c]) /\ a \in Agents
      /\ job[c] \notin Agents
  BY <1>1, <1>2, Allocated DEF Allocating, OrcaSteps, NewSteps, BindKnown, BindSteps
<1>4. entry[c].session = None /\ made[c].automations = 1
  BY <1>1, <1>3, Allocated DEF Allocating, OrcaKnown, Waiting
<1>5. PICK r : r = [Noted(record[c], {"route"}) EXCEPT !.session = a]
  OBVIOUS
<1>6. /\ r \in Entry /\ r.marks = entry[c].marks \cup {"route"} /\ r.session = a
      /\ r.engine = entry[c].engine /\ r.status = entry[c].status
  BY <1>1, <1>3, <1>5, Allocated DEF Noted, Entry, Marks
<1>7. Extends(entry[c], r, made[c])
  BY <1>4, <1>6 DEF Extends
<1>8. Durable(r, made[c])
  BY <1>1, <1>3, <1>6, Allocated DEF Durable, OrcaDurable
<1>9. Sound("remove", job[c], r, r, found[c], made[c])
  BY <1>1, <1>3, <1>4, <1>6, <1>8, Allocated
     DEF Sound, Labels, Outside, Allocating, NewSteps, LocalSteps, OrcaSteps, Early,
         LocalKnown, OrcaKnown, Launching, Waiting, Finishing
<1>10. Save(c, r, "remove")
  BY <1>2, <1>5
<1> QED BY <1>1, <1>3, <1>6, <1>7, <1>9, <1>10, SaveStep

LEMMA RemoveAutomationStep ==
  ASSUME CreationInv, NEW c \in Owners, RemoveAutomation(c)
  PROVE  Fine(c)
<1>1. /\ pc[c] = "remove" /\ pc[c] \notin Outside /\ Then(c, "retained")
      /\ made' = [made EXCEPT ![c] = [made[c] EXCEPT !.automations = @ - 1]]
  BY DEF RemoveAutomation, Outside
<1>2. /\ entry[c].engine = "orca" /\ job[c] \notin Agents /\ entry[c].status # "active"
      /\ made[c] \in Made /\ made[c].trees = 1 /\ "name" \in entry[c].marks
  BY <1>1, Allocated DEF Allocating, OrcaSteps, NewSteps, BindKnown, BindSteps
<1>3. made[c].automations = 1 /\ entry[c].session \in Candidates(made[c])
  BY <1>1, <1>2, Allocated DEF Allocating, OrcaKnown, Finishing
<1>4. /\ made' = [d \in Owners |-> made'[d]] /\ \A d \in Owners \ {c} : made'[d] = made[d]
      /\ made'[c] = [made[c] EXCEPT !.automations = 0]
  <2>1. made[c].automations - 1 = 0
    BY <1>3
  <2> QED BY <1>1, <2>1, Allocated DEF Mapped
<1>5. /\ made'[c] \in Made
      /\ made'[c].trees = made[c].trees /\ made'[c].automations = 0
      /\ made'[c].runs = made[c].runs /\ made'[c].orders = made[c].orders
      /\ made'[c].told = made[c].told /\ made'[c].agents = made[c].agents
  BY <1>2, <1>4 DEF Made
<1>6. /\ Present(made'[c]) = Present(made[c]) /\ Candidates(made'[c]) = Candidates(made[c])
      /\ (Quiet(made[c]) => Quiet(made'[c]))
  BY <1>5 DEF Present, Candidates, Quiet
<1>7. Durable(entry[c], made'[c])
  <2>1. /\ made[c].trees <= 1 /\ made[c].runs + made[c].orders <= 1
        /\ OrcaDurable(entry[c], made[c]) /\ \A x, y \in Present(made[c]) : x = y
    BY <1>1, <1>2, Allocated DEF Durable
  <2>2. OrcaDurable(entry[c], made'[c])
    BY <1>5, <1>6, <2>1 DEF OrcaDurable
  <2> QED BY <1>2, <1>5, <1>6, <2>1, <2>2 DEF Durable
<1>8. Sound("retained", job[c], entry[c], record[c], found[c], made'[c])
  BY <1>1, <1>2, <1>3, <1>5, <1>6, <1>7, Allocated
     DEF Sound, Labels, Outside, Allocating, NewSteps, LocalSteps, OrcaSteps, Early,
         LocalKnown, OrcaKnown, Launching, Waiting, Finishing
<1> QED BY <1>1, <1>4, <1>8, ThenStep

LEMMA CheckTabStep ==
  ASSUME CreationInv, NEW c \in Owners, CheckTab(c)
  PROVE  Fine(c)
<1>1. pc[c] = "retained" /\ pc[c] \notin Outside /\ UNCHANGED made
  BY DEF CheckTab, Outside
<1>2. CASE Goto(c, "activate") /\ UNCHANGED <<entry, memory>>
  <2>1. /\ entry[c].engine = "orca" /\ job[c] \notin Agents
        /\ made[c].trees = 1 /\ "name" \in entry[c].marks
    BY <1>1, Allocated DEF Allocating, OrcaSteps, NewSteps, BindKnown, BindSteps
  <2>2. made[c].automations = 0 /\ entry[c].session \in Candidates(made[c])
    BY <1>1, <2>1, Allocated DEF Allocating, OrcaKnown, Finishing
  <2>3. Sound("activate", job[c], entry[c], record[c], found[c], made[c])
    BY <1>1, <2>1, <2>2, Allocated
       DEF Sound, Labels, Outside, Allocating, NewSteps, LocalSteps, OrcaSteps, Early,
           LocalKnown, OrcaKnown, Launching, Waiting, Finishing
  <2> QED BY <1>1, <1>2, <2>3, GotoStep
<1>3. CASE Fail(c, record[c])
  BY <1>1, <1>3, PlainFail
<1> QED BY <1>2, <1>3 DEF CheckTab

(* What the last write records is as durable as the entry, and keeps its    *)
(* evidence.                                                                *)
LEMMA ActiveEntry ==
  ASSUME CreationInv, NEW c \in Owners, pc[c] = "activate", NEW r,
         r = IF job[c] \in Agents THEN Bound(record[c], job[c])
             ELSE [record[c] EXCEPT !.status = "active",
                     !.marks = IF IsLocal(c) THEN @ ELSE @ \ {"automation", "run"}]
  PROVE  r \in Entry /\ Durable(r, made[c]) /\ Extends(entry[c], r, made[c])
<1>1. pc[c] \notin Outside
  BY DEF Outside
<1>2. /\ record[c] = entry[c] /\ entry[c] \in Entry /\ Durable(entry[c], made[c])
      /\ made[c].trees = 1 /\ "name" \in entry[c].marks
      /\ entry[c].engine \in {"local", "orca"}
  BY <1>1, Allocated DEF Allocating, NewSteps, Entry
<1>3. CASE job[c] \in Agents
  <2>1. /\ entry[c].engine = "orca" /\ job[c] \in Candidates(made[c])
        /\ entry[c].session \in {None, job[c]}
    BY <1>1, <1>3, Allocated DEF Allocating, BindKnown
  <2>2. /\ r \in Entry /\ r.marks = entry[c].marks \cup {"route"} /\ r.session = job[c]
        /\ r.engine = "orca" /\ r.status = "active"
    BY <1>2, <1>3, <2>1 DEF Bound, Noted, Entry, Marks
  <2>3. Extends(entry[c], r, made[c])
    BY <2>1, <2>2 DEF Extends
  <2>4. r.session \in Visitors \cup made[c].told /\ OrcaDurable(r, made[c])
    BY <1>2, <2>1, <2>2 DEF Durable, OrcaDurable, Candidates
  <2>5. Durable(r, made[c])
    BY <1>2, <2>2, <2>4 DEF Durable
  <2> QED BY <2>2, <2>3, <2>5
<1>4. CASE job[c] \notin Agents /\ entry[c].engine = "local"
  <2>1. entry[c].session \in made[c].told
    BY <1>1, <1>4, Allocated DEF Allocating, LocalKnown
  <2>2. /\ r \in Entry /\ r.marks = entry[c].marks /\ r.session = entry[c].session
        /\ r.engine = "local" /\ r.status = "active"
    BY <1>2, <1>4 DEF IsLocal, Entry
  <2> QED BY <1>2, <1>4, <2>1, <2>2 DEF Extends, Durable, LocalDurable
<1>5. CASE job[c] \notin Agents /\ entry[c].engine = "orca"
  <2>1. entry[c].session \in Candidates(made[c]) /\ made[c].automations = 0
    BY <1>1, <1>5, Allocated DEF Allocating, OrcaKnown, Finishing
  <2>2. /\ r \in Entry /\ r.marks = entry[c].marks \ {"automation", "run"}
        /\ r.session = entry[c].session /\ r.engine = "orca" /\ r.status = "active"
    BY <1>2, <1>5 DEF IsLocal, Entry
  <2>3. Extends(entry[c], r, made[c])
    BY <2>1, <2>2 DEF Extends
  <2>4. r.session \in Visitors \cup made[c].told /\ OrcaDurable(r, made[c])
    BY <1>2, <1>5, <2>1, <2>2 DEF Durable, OrcaDurable, Candidates
  <2>5. Durable(r, made[c])
    BY <1>2, <1>5, <2>2, <2>4 DEF Durable
  <2> QED BY <2>2, <2>3, <2>5
<1> QED BY <1>2, <1>3, <1>4, <1>5

LEMMA ActivateStep ==
  ASSUME CreationInv, NEW c \in Owners, Activate(c)
  PROVE  Fine(c)
<1>1. pc[c] = "activate" /\ pc[c] \notin Outside /\ UNCHANGED made
  BY DEF Activate, Outside
<1>2. PICK r :
        r = IF job[c] \in Agents THEN Bound(record[c], job[c])
            ELSE [record[c] EXCEPT !.status = "active",
                    !.marks = IF IsLocal(c) THEN @ ELSE @ \ {"automation", "run"}]
  OBVIOUS
<1>3. r \in Entry /\ Durable(r, made[c]) /\ Extends(entry[c], r, made[c])
  BY <1>1, <1>2, ActiveEntry
<1>4. \/ entry' = [entry EXCEPT ![c] = r] /\ End(c)
      \/ Fail(c, r)
  BY <1>2 DEF Activate
<1>5. /\ Mapped /\ made[c] \in Made /\ entry[c] \in Entry /\ entry[c].status # "active"
      /\ Durable(entry[c], made[c])
  BY <1>1, Allocated
<1>6. CASE entry' = [entry EXCEPT ![c] = r] /\ End(c)
  <2>1. entry'[c] = r /\ Alone(c)
    BY <1>1, <1>5, <1>6 DEF Mapped, Alone
  <2>2. Good(c)'
    BY <1>1, <1>3, <1>5, <1>6, <2>1, Ending, Ended
  <2>3. Kept(c)
    BY <1>3, <1>5, <2>1 DEF Kept
  <2>4. Frame(c)
    BY <1>5, <1>6, <2>1, Ending DEF Frame, Mapped, Alone
  <2> QED BY <2>2, <2>3, <2>4 DEF Fine
<1>7. CASE Fail(c, r)
  BY <1>1, <1>3, <1>5, <1>7, FailStep DEF Mapped
<1> QED BY <1>4, <1>6, <1>7

-----------------------------------------------------------------------------
(* The continuation of an operation.                                        *)
LEMMA ResumeStep ==
  ASSUME CreationInv, NEW c \in Owners, Resume(c)
  PROVE  Fine(c)
<1>1. Mapped /\ Good(c) /\ Agents \cap {"create", "resume"} = {} /\ entry[c] \in Entry
  BY Values DEF Resume
<1>2. PICK j \in {"resume"} \cup (Agents \ Unused(c)) : job' = [job EXCEPT ![c] = j]
  BY DEF Resume
<1>3. /\ pc[c] = "idle" /\ entry[c] # NoEntry /\ entry[c].status # "active"
      /\ entry[c].engine = "orca" /\ "worktree" \in entry[c].marks
      /\ pc'[c] = "look" /\ job'[c] = j /\ record'[c] = entry[c]
      /\ entry' = entry /\ made' = made /\ seen' = seen /\ found' = found
      /\ (j \in Agents /\ entry[c].session # None => j = entry[c].session)
      /\ Mapped'
      /\ \A d \in Owners \ {c} : pc'[d] = pc[d] /\ job'[d] = job[d] /\ record'[d] = record[d]
  BY <1>1, <1>2 DEF Resume, Mapped, Goto
<1>4. Durable(entry[c], made[c]) /\ made[c] \in Made /\ found[c] \subseteq Agents
  BY <1>1, <1>3 DEF Good, Sound
<1>5. made[c].trees = 1 /\ "name" \in entry[c].marks
  <2>1. made[c].trees = 1
    BY <1>3, <1>4 DEF Durable, OrcaDurable
  <2>2. made[c] # NothingMade
    BY <2>1 DEF NothingMade
  <2> QED BY <1>4, <2>1, <2>2 DEF Durable
<1>6. ASSUME j \in Agents PROVE BindKnown("look", j, entry[c], made[c])
  <2>1. j \in Candidates(made[c])
    BY <1>1, <1>2, <1>6 DEF Unused, Candidates, Present
  <2> QED BY <1>3, <1>6, <2>1 DEF BindKnown, BindSteps
<1>7. Sound("look", j, entry[c], entry[c], found[c], made[c])
  BY <1>1, <1>2, <1>3, <1>4, <1>5, <1>6
     DEF Sound, Labels, Outside, Allocating, NewSteps, LocalSteps, OrcaSteps, Early,
         OrcaKnown, Launching, Waiting, Finishing
<1>8. Good(c)'
  BY <1>3, <1>7 DEF Good
<1> QED BY <1>3, <1>8, GoOn

LEMMA LookStep ==
  ASSUME CreationInv, NEW c \in Owners, Look(c)
  PROVE  Fine(c)
<1>1. /\ pc[c] = "look" /\ pc[c] \notin Outside /\ Goto(c, "decide")
      /\ seen' = [seen EXCEPT ![c] = Listed(c) \ {job[c]}]
      /\ UNCHANGED <<entry, job, record, found, made>>
  BY DEF Look, Outside
<1>2. /\ pc'[c] = "decide" /\ Mapped'
      /\ \A d \in Owners \ {c} : pc'[d] = pc[d] /\ seen'[d] = seen[d]
  BY <1>1, Allocated DEF Mapped, Goto
<1>3. job[c] \in Agents => BindKnown("decide", job[c], entry[c], made[c])
  BY <1>1, Allocated DEF Allocating, BindKnown, BindSteps
<1>4. Sound("decide", job[c], entry[c], record[c], found[c], made[c])
  BY <1>1, <1>3, Allocated
     DEF Sound, Labels, Outside, Allocating, NewSteps, LocalSteps, OrcaSteps, Early,
         OrcaKnown, Launching, Waiting, Finishing
<1>5. Good(c)'
  BY <1>1, <1>2, <1>4 DEF Good
<1> QED BY <1>1, <1>2, <1>5, GoOn

LEMMA DecideStep ==
  ASSUME CreationInv, NEW c \in Owners, Decide(c)
  PROVE  Fine(c)
<1>1. pc[c] = "decide" /\ pc[c] \notin Outside /\ UNCHANGED made
  BY DEF Decide, Outside
<1>2. /\ entry[c].engine = "orca" /\ made[c].trees = 1 /\ "name" \in entry[c].marks
      /\ entry[c].status # "active" /\ job[c] # "create"
  BY <1>1, Allocated DEF Allocating, OrcaSteps, NewSteps
<1>3. CASE Continues(c) /\ job[c] = "resume"
  <2>1. Goto(c, "prepare") /\ UNCHANGED <<entry, memory>>
    BY <1>3 DEF Decide
  <2>2. entry[c].session = None /\ entry[c].marks \cap LaunchMarks = {}
    BY <1>1, <1>3, Allocated DEF Continues, Launched, LaunchMarks
  <2>3. made[c].automations = 0 /\ Quiet(made[c])
    BY <1>1, <1>2, <2>2, Allocated DEF Durable, OrcaDurable, LaunchMarks
  <2>4. Sound("prepare", job[c], entry[c], record[c], found[c], made[c])
    BY <1>1, <1>2, <1>3, <2>2, <2>3, Allocated
       DEF Sound, Labels, Outside, Allocating, NewSteps, LocalSteps, OrcaSteps, Early,
           OrcaKnown, Launching, Waiting, Finishing
  <2> QED BY <1>1, <2>1, <2>4, GotoStep
<1>4. CASE Continues(c) /\ job[c] # "resume"
  <2>1. Goto(c, "listing") /\ UNCHANGED <<entry, memory>>
    BY <1>4 DEF Decide
  <2>2. job[c] \in Agents
    BY <1>1, <1>2, <1>4, Allocated
  <2>3. BindKnown("listing", job[c], entry[c], made[c])
    BY <1>1, <2>2, Allocated DEF Allocating, BindKnown, BindSteps
  <2>4. Sound("listing", job[c], entry[c], record[c], found[c], made[c])
    BY <1>1, <1>2, <2>2, <2>3, Allocated
       DEF Sound, Labels, Outside, Allocating, NewSteps, LocalSteps, OrcaSteps, Early
  <2> QED BY <1>1, <2>1, <2>4, GotoStep
<1>5. CASE ~Continues(c)
  <2>1. Fail(c, record[c])
    BY <1>5 DEF Decide
  <2> QED BY <1>1, <2>1, PlainFail
<1> QED BY <1>3, <1>4, <1>5

-----------------------------------------------------------------------------
(* Orca, the daemon and the people at the worktree.                         *)

(* Sessions come to life and to rest, and tabs appear and go.               *)
LEMMA WorldStep ==
  ASSUME CreationInv, NEW c \in Owners, UNCHANGED <<entry, pc, memory>>,
         Mapped', \A d \in Owners \ {c} : made'[d] = made[d],
         made'[c] \in Made, made[c] # NothingMade,
         made'[c].trees = made[c].trees, made'[c].automations = made[c].automations,
         made'[c].runs = made[c].runs, made'[c].orders = made[c].orders,
         made'[c].told = made[c].told, Present(made'[c]) = Present(made[c])
  PROVE  Fine(c)
<1>1. Good(c) /\ Mapped
  BY Values
<1>2. entry[c] # NoEntry /\ Durable(entry[c], made[c]) /\ "name" \in entry[c].marks
  BY <1>1 DEF Good, Sound, Durable
<1>3. Quiet(made'[c]) <=> Quiet(made[c])
  BY DEF Quiet
<1>4. Durable(entry[c], made'[c])
  BY <1>2, <1>3 DEF Durable, OrcaDurable, LocalDurable
<1>5. ASSUME pc[c] \notin Outside
      PROVE  Allocating(pc[c], job[c], entry[c], record[c], found[c], made'[c])
  <2>1. Allocating(pc[c], job[c], entry[c], record[c], found[c], made[c])
    BY <1>1, <1>5 DEF Good, Sound
  <2> QED BY <1>3, <2>1
       DEF Allocating, LocalKnown, OrcaKnown, BindKnown, Candidates
<1>6. Sound(pc[c], job[c], entry[c], record[c], found[c], made'[c])
  BY <1>1, <1>2, <1>4, <1>5 DEF Good, Sound
<1>7. Good(c)'
  BY <1>6 DEF Good, memory
<1> QED BY <1>1, <1>7, GoOn DEF memory

LEMMA SameWorld ==
  ASSUME CreationInv, NEW c \in Owners, UNCHANGED <<entry, pc, memory>>,
         NEW a \in Agents, NEW s \in {"none", "saved", "live"}, NEW T \in SUBSET Agents,
         made' = [made EXCEPT ![c] = [made[c] EXCEPT
                    !.agents = [made[c].agents EXCEPT ![a] = s], !.tabs = T]],
         made[c] # NothingMade, s # "none",
         a \in Visitors \/ made[c].agents[a] # "none"
  PROVE  Fine(c)
<1>1. Mapped /\ made[c] \in Made
  BY Values DEF Good, Sound
<1>2. /\ made' = [d \in Owners |-> made'[d]] /\ \A d \in Owners \ {c} : made'[d] = made[d]
      /\ made'[c] \in Made
      /\ made'[c].trees = made[c].trees /\ made'[c].automations = made[c].automations
      /\ made'[c].runs = made[c].runs /\ made'[c].orders = made[c].orders
      /\ made'[c].told = made[c].told
      /\ \A b \in Agents : made'[c].agents[b] = IF b = a THEN s ELSE made[c].agents[b]
  BY <1>1 DEF Mapped, Made
<1>3. Present(made'[c]) = Present(made[c])
  BY <1>2 DEF Present
<1>4. Mapped'
  BY <1>1, <1>2 DEF Mapped, memory
<1> QED BY <1>2, <1>3, <1>4, WorldStep

LEMMA ReopenStep ==
  ASSUME CreationInv, NEW c \in Owners, Reopen(c)
  PROVE  Fine(c)
<1> DEFINE s == entry[c].session
<1>1. Mapped /\ Good(c) /\ entry[c] \in Entry /\ made[c] \in Made
      /\ Durable(entry[c], made[c])
  BY Values DEF Reopen, Good, Sound
<1>2. s \in Agents /\ made[c].agents[s] = "saved"
  BY <1>1, CreationAssumption DEF Reopen, Durable, Made
<1>3. made[c] # NothingMade
  BY <1>2 DEF NothingMade
<1>4. made' = [made EXCEPT ![c] = [made[c] EXCEPT
        !.agents = [made[c].agents EXCEPT ![s] = "live"], !.tabs = made[c].tabs]]
  <2>1. made' = [made EXCEPT ![c] = [made[c] EXCEPT
                   !.agents = [made[c].agents EXCEPT ![s] = "live"]]]
    BY DEF Reopen
  <2>2. [made[c] EXCEPT !.agents = [made[c].agents EXCEPT ![s] = "live"]]
        = [made[c] EXCEPT !.agents = [made[c].agents EXCEPT ![s] = "live"],
                          !.tabs = made[c].tabs]
    BY <1>1 DEF Made
  <2> QED BY <2>1, <2>2
<1>5. made[c].tabs \in SUBSET Agents
  BY <1>1 DEF Made
<1>6. UNCHANGED <<entry, pc, memory>>
  BY DEF Reopen
<1> HIDE DEF s
<1> QED BY <1>2, <1>3, <1>4, <1>5, <1>6, SameWorld

LEMMA ShowsStep ==
  ASSUME CreationInv, NEW c \in Owners, NEW a \in Agents, Shows(c, a)
  PROVE  Fine(c)
<1>1. made[c] \in Made
  BY Values DEF Good, Sound
<1>2. made[c].agents[a] = "live" /\ made[c] # NothingMade
  BY <1>1 DEF Shows, Made, NothingMade
<1>3. made' = [made EXCEPT ![c] = [made[c] EXCEPT
        !.agents = [made[c].agents EXCEPT ![a] = "live"], !.tabs = made[c].tabs \cup {a}]]
  <2>1. made' = [made EXCEPT ![c] = [made[c] EXCEPT !.tabs = made[c].tabs \cup {a}]]
    BY DEF Shows
  <2>2. [made[c].agents EXCEPT ![a] = "live"] = made[c].agents
    BY <1>1, <1>2 DEF Made
  <2>3. [made[c] EXCEPT !.tabs = made[c].tabs \cup {a}]
        = [made[c] EXCEPT !.agents = made[c].agents, !.tabs = made[c].tabs \cup {a}]
    BY <1>1 DEF Made
  <2> QED BY <2>1, <2>2, <2>3
<1>4. made[c].tabs \cup {a} \in SUBSET Agents
  BY <1>1 DEF Made
<1>5. UNCHANGED <<entry, pc, memory>>
  BY DEF Shows, World
<1> QED BY <1>2, <1>3, <1>4, <1>5, SameWorld

LEMMA VisitStep ==
  ASSUME CreationInv, NEW c \in Owners, NEW a \in Agents, Visit(c, a)
  PROVE  Fine(c)
<1>1. made[c] \in Made
  BY Values DEF Good, Sound
<1>2. a \in Visitors /\ made[c] # NothingMade
  BY DEF Visit, NothingMade
<1>3. made' = [made EXCEPT ![c] = [made[c] EXCEPT
        !.agents = [made[c].agents EXCEPT ![a] = "live"], !.tabs = made[c].tabs]]
  <2>1. made' = [made EXCEPT ![c] = [made[c] EXCEPT
                   !.agents = [made[c].agents EXCEPT ![a] = "live"]]]
    BY DEF Visit
  <2>2. [made[c] EXCEPT !.agents = [made[c].agents EXCEPT ![a] = "live"]]
        = [made[c] EXCEPT !.agents = [made[c].agents EXCEPT ![a] = "live"],
                          !.tabs = made[c].tabs]
    BY <1>1 DEF Made
  <2> QED BY <2>1, <2>2
<1>4. made[c].tabs \in SUBSET Agents
  BY <1>1 DEF Made
<1>5. UNCHANGED <<entry, pc, memory>>
  BY DEF Visit, World
<1> QED BY <1>2, <1>3, <1>4, <1>5, SameWorld

LEMMA ClosesStep ==
  ASSUME CreationInv, NEW c \in Owners, NEW a \in Agents, Closes(c, a)
  PROVE  Fine(c)
<1>1. made[c] \in Made
  BY Values DEF Good, Sound
<1>2. made[c].agents[a] = "live" /\ made[c] # NothingMade
  BY <1>1 DEF Closes, Made, NothingMade
<1>3. made' = [made EXCEPT ![c] = [made[c] EXCEPT
        !.agents = [made[c].agents EXCEPT ![a] = "saved"], !.tabs = made[c].tabs \ {a}]]
  BY DEF Closes
<1>4. made[c].tabs \ {a} \in SUBSET Agents
  BY <1>1 DEF Made
<1>5. UNCHANGED <<entry, pc, memory>>
  BY DEF Closes, World
<1> QED BY <1>2, <1>3, <1>4, <1>5, SameWorld

(* A run starts its only session.                                           *)
LEMMA StartsStep ==
  ASSUME CreationInv, NEW c \in Owners, Starts(c)
  PROVE  Fine(c)
<1>1. /\ Mapped /\ Good(c) /\ made[c] \in Made /\ made[c].runs > 0
      /\ UNCHANGED <<entry, pc, memory>>
  BY Values DEF Starts, World, Good, Sound
<1>2. PICK a \in Unused(c) :
        made' = [made EXCEPT ![c].runs = @ - 1, ![c].agents[a] = "live",
                             ![c].orders = @ + 1, ![c].told = @ \cup {a}]
  BY DEF Starts
<1>3. a \in Agents \ Visitors /\ a \in Agents
  BY <1>2 DEF Unused
<1>4. entry[c] # NoEntry /\ entry[c] \in Entry /\ Durable(entry[c], made[c])
      /\ "name" \in entry[c].marks
  BY <1>1, Values DEF Good, Sound, Durable, NothingMade
<1>5. entry[c].engine = "orca" /\ OrcaDurable(entry[c], made[c])
  BY <1>1, <1>4 DEF Entry, Durable, LocalDurable
<1>6. made[c].runs = 1 /\ made[c].orders = 0
  BY <1>1, <1>4 DEF Durable, Made
<1>7. made[c].told = {} /\ Present(made[c]) = {} /\ "launch" \in entry[c].marks
  BY <1>5, <1>6 DEF OrcaDurable, Quiet
<1>8. made'[c] = [trees |-> made[c].trees, automations |-> made[c].automations,
                  runs |-> 0, orders |-> 1,
                  agents |-> [made[c].agents EXCEPT ![a] = "live"],
                  tabs |-> made[c].tabs, told |-> {a}]
  <2>1. made'[c] = [made[c] EXCEPT !.runs = made[c].runs - 1, !.agents[a] = "live",
                      !.orders = made[c].orders + 1, !.told = made[c].told \cup {a}]
    BY <1>1, <1>2 DEF Mapped
  <2>2. made[c].runs - 1 = 0 /\ made[c].orders + 1 = 1 /\ made[c].told \cup {a} = {a}
    BY <1>6, <1>7
  <2>3. made'[c] = [made[c] EXCEPT !.runs = 0, !.agents[a] = "live",
                      !.orders = 1, !.told = {a}]
    BY <2>1, <2>2
  <2> QED BY <1>1, <2>3 DEF Made
<1>9. /\ made'[c] \in Made
      /\ made'[c].trees = made[c].trees /\ made'[c].automations = made[c].automations
      /\ made'[c].runs = 0 /\ made'[c].orders = 1 /\ made'[c].told = {a}
      /\ \A b \in Agents : made'[c].agents[b] = IF b = a THEN "live" ELSE made[c].agents[b]
  <2>1. [made[c].agents EXCEPT ![a] = "live"] \in [Agents -> {"none", "saved", "live"}]
    BY <1>1, <1>3 DEF Made
  <2>2. made'[c] \in Made
    BY <1>1, <1>3, <1>8, <2>1 DEF Made
  <2>3. \A b \in Agents : made'[c].agents[b] = IF b = a THEN "live" ELSE made[c].agents[b]
    BY <1>1, <1>8 DEF Made
  <2> QED BY <1>8, <2>2, <2>3
<1>10. Present(made'[c]) = {a}
  BY <1>3, <1>7, <1>9 DEF Present
<1>11. Durable(entry[c], made'[c])
  <2>1. OrcaDurable(entry[c], made'[c])
    BY <1>5, <1>7, <1>9, <1>10 DEF OrcaDurable
  <2>2. made'[c].trees <= 1 /\ made'[c].runs + made'[c].orders <= 1
    BY <1>4, <1>9 DEF Durable
  <2>3. entry[c].status = "active" =>
          made'[c].trees = 1 /\ entry[c].session \in Visitors \cup made'[c].told
    BY <1>4, <1>7, <1>9 DEF Durable
  <2> QED BY <1>4, <1>5, <1>10, <2>1, <2>2, <2>3 DEF Durable
<1>12. ASSUME pc[c] \notin Outside
       PROVE  Allocating(pc[c], job[c], entry[c], record[c], found[c], made'[c])
  <2>1. Allocating(pc[c], job[c], entry[c], record[c], found[c], made[c])
    BY <1>1, <1>12 DEF Good, Sound
  <2>2. ~Quiet(made[c]) /\ made[c] # NothingMade
    BY <1>6 DEF Quiet, NothingMade
  <2>3. Candidates(made[c]) \subseteq Candidates(made'[c])
    BY <1>7 DEF Candidates
  <2>4. job[c] \notin Agents => OrcaKnown(pc[c], entry[c], found[c], made'[c])
    BY <1>5, <1>9, <2>1, <2>2, <2>3 DEF Allocating, OrcaKnown
  <2>5. job[c] \in Agents => BindKnown(pc[c], job[c], entry[c], made'[c])
    BY <2>1, <2>3 DEF Allocating, BindKnown
  <2> QED BY <1>5, <1>9, <2>1, <2>2, <2>3, <2>4, <2>5 DEF Allocating
<1>13. Sound(pc[c], job[c], entry[c], record[c], found[c], made'[c])
  BY <1>1, <1>4, <1>9, <1>11, <1>12 DEF Good, Sound
<1>14. Good(c)'
  BY <1>1, <1>13 DEF Good, memory
<1>15. Mapped' /\ \A d \in Owners \ {c} : made'[d] = made[d]
  <2>1. \A d \in Owners \ {c} : made'[d] = made[d]
    BY <1>1, <1>2 DEF Mapped
  <2>2. made = [d \in Owners |-> made[d]]
    BY <1>1 DEF Mapped
  <2> DEFINE m1 == [made EXCEPT ![c].runs = @ - 1]
             m2 == [m1 EXCEPT ![c].agents[a] = "live"]
             m3 == [m2 EXCEPT ![c].orders = @ + 1]
             m4 == [m3 EXCEPT ![c].told = @ \cup {a}]
  <2>3. m1 = [d \in Owners |-> m1[d]]
    BY <2>2
  <2>4. m2 = [d \in Owners |-> m2[d]]
    <3> HIDE DEF m1
    <3> QED BY <2>3
  <2>5. m3 = [d \in Owners |-> m3[d]]
    <3> HIDE DEF m2
    <3> QED BY <2>4
  <2>6. m4 = [d \in Owners |-> m4[d]]
    <3> HIDE DEF m3
    <3> QED BY <2>5
  <2>7. made' = m4
    BY <1>2, Zenon
  <2>8. made' = [d \in Owners |-> made'[d]]
    <3> HIDE DEF m4
    <3> QED BY <2>6, <2>7
  <2>9. Mapped'
    BY <1>1, <2>8 DEF Mapped, memory
  <2> QED BY <2>1, <2>9
<1> QED BY <1>1, <1>14, <1>15, GoOn DEF memory

-----------------------------------------------------------------------------
(* Every step.                                                              *)
LEMMA Stepwise ==
  ASSUME CreationInv, [Next]_vars
  PROVE  CreationInv' /\ \A d \in Owners : Kept(d)
<1>1. CASE UNCHANGED vars
  <2>1. CreationInv'
    BY <1>1 DEF vars, memory, CreationInv, Mapped, Good
  <2>2. ASSUME NEW d \in Owners PROVE Kept(d)
    <3>1. entry' = entry /\ entry[d] \in Entry \cup {NoEntry}
      BY <1>1 DEF vars, CreationInv, Good, Sound
    <3> QED BY <3>1 DEF Kept, Extends
  <2> QED BY <2>1, <2>2
<1>2. ASSUME NEW c \in Owners,
             \/ Begin(c) \/ Resume(c) \/ Reopen(c) \/ Steps(c)
             \/ Broken(c) \/ Crash(c) \/ Block(c)
             \/ Starts(c) \/ \E a \in Agents : Shows(c, a) \/ Visit(c, a) \/ Closes(c, a)
      PROVE  Fine(c)
  <2>1. CASE Begin(c)
    BY <2>1, BeginStep
  <2>2. CASE Resume(c)
    BY <2>2, ResumeStep
  <2>3. CASE Reopen(c)
    BY <2>3, ReopenStep
  <2>4. CASE Steps(c)
    <3>1. CASE TimeOut(c)
      BY <3>1, QuitStep DEF TimeOut
    <3> QED BY <2>4, <3>1, AcquireStep, AdmitStep, ReserveStep, ReservedStep,
               NoteIntentStep, CreateWorktreeStep, NoteWorktreeStep, PrepareStep,
               CreateSessionStep, NoteSessionStep, OpenSessionStep, NoteRouteStep,
               DeliverStep, ListPriorStep, NoteLaunchStep, CreateAutomationStep,
               NoteAutomationStep, RunAutomationStep, NoteRunStep, ListSessionsStep,
               ReadTerminalsStep, NoteBindingStep, RemoveAutomationStep, CheckTabStep,
               ActivateStep, LookStep, DecideStep
            DEF Steps
  <2>5. CASE Broken(c)
    BY <2>5, PlainFail DEF Broken
  <2>6. CASE Crash(c)
    BY <2>6, QuitStep DEF Crash
  <2>7. CASE Block(c)
    <3>1. UNCHANGED <<pc, job, entry, record, seen, found, made>>
      BY <2>7 DEF Block, memory
    <3> QED BY <3>1, GoOn, Values DEF Mapped, Good
  <2>8. CASE Starts(c)
    BY <2>8, StartsStep
  <2>9. CASE \E a \in Agents : Shows(c, a) \/ Visit(c, a) \/ Closes(c, a)
    BY <2>9, ShowsStep, VisitStep, ClosesStep
  <2> QED BY <1>2, <2>1, <2>2, <2>3, <2>4, <2>5, <2>6, <2>7, <2>8, <2>9
<1>3. CASE Next
  BY <1>2, <1>3, FineSteps, FineKeeps DEF Next
<1> QED BY <1>1, <1>3

LEMMA CreationInit == Init => CreationInv
<1> SUFFICES ASSUME Init PROVE CreationInv
  OBVIOUS
<1>1. Mapped
  BY DEF Init, Mapped
<1>2. NothingMade \in Made
  BY DEF NothingMade, Made
<1>3. ASSUME NEW c \in Owners PROVE Good(c)
  BY <1>2 DEF Init, Good, Sound, Labels, Outside
<1> QED BY <1>1, <1>3 DEF CreationInv

LEMMA Invariance == Spec => []CreationInv
<1>1. CreationInv /\ [Next]_vars => CreationInv'
  BY Stepwise
<1> QED BY <1>1, CreationInit, PTL DEF Spec

-----------------------------------------------------------------------------
(* The types of what bears on no other fact.                                *)
SeenTyped == \A c \in Owners : seen[c] \subseteq Agents

LEMMA EndsTyped ==
  ASSUME Rest, NEW c \in Owners, Mapped, seen' = [seen EXCEPT ![c] = {}]
  PROVE  SeenTyped'
BY DEF Rest, Mapped, SeenTyped

LEMMA SeenStep ==
  ASSUME CreationInv, Rest, NEW c \in Owners, Steps(c)
  PROVE  SeenTyped'
<1>1. Mapped /\ SeenTyped
  BY DEF CreationInv, Rest, SeenTyped
<1>2. ASSUME seen' = seen PROVE SeenTyped'
  BY <1>1, <1>2 DEF SeenTyped
<1>3. ASSUME seen' = [seen EXCEPT ![c] = {}] PROVE SeenTyped'
  BY <1>1, <1>3, EndsTyped
<1>4. ASSUME End(c) PROVE SeenTyped'
  BY <1>3, <1>4 DEF End
<1>5. ASSUME NEW r, Fail(c, r) PROVE SeenTyped'
  BY <1>4, <1>5 DEF Fail
<1>6. ASSUME NEW r, NEW l, Save(c, r, l) PROVE SeenTyped'
  BY <1>2, <1>5, <1>6 DEF Save, Written
<1>7. ASSUME NEW l, Then(c, l) PROVE SeenTyped'
  BY <1>2, <1>5, <1>7 DEF Then, memory
<1>8. CASE \/ Acquire(c) \/ TimeOut(c) \/ Admit(c) \/ Reserve(c) \/ Reserved(c)
  BY <1>2, <1>4, <1>8 DEF Acquire, TimeOut, Admit, Reserve, Reserved, memory
<1>9. CASE \/ NoteIntent(c) \/ NoteWorktree(c) \/ Prepare(c) \/ NoteRoute(c)
           \/ NoteLaunch(c) \/ NoteAutomation(c) \/ NoteRun(c) \/ NoteBinding(c)
  BY <1>6, <1>9 DEF NoteIntent, NoteWorktree, Prepare, NoteRoute, NoteLaunch,
                    NoteAutomation, NoteRun, NoteBinding
<1>10. CASE \/ CreateWorktree(c) \/ OpenSession(c) \/ Deliver(c) \/ CreateAutomation(c)
            \/ RunAutomation(c) \/ RemoveAutomation(c)
  BY <1>7, <1>10 DEF CreateWorktree, OpenSession, Deliver, CreateAutomation,
                     RunAutomation, RemoveAutomation
<1>11. CASE \/ CreateSession(c) \/ NoteSession(c) \/ ListSessions(c)
            \/ ReadTerminals(c) \/ CheckTab(c) \/ Decide(c)
  BY <1>2, <1>5, <1>11 DEF CreateSession, NoteSession, Written, ListSessions,
                           ReadTerminals, CheckTab, Decide, memory
<1>12. CASE Activate(c)
  BY <1>4, <1>5, <1>12 DEF Activate
<1>13. CASE ListPrior(c) \/ Look(c)
  <2>1. Listed(c) \subseteq Agents
    BY DEF Listed
  <2>2. PICK S \in SUBSET Agents : seen' = [seen EXCEPT ![c] = S]
    BY <1>13, <2>1 DEF ListPrior, Look
  <2> QED BY <1>1, <2>2 DEF Mapped, SeenTyped
<1> QED BY <1>8, <1>9, <1>10, <1>11, <1>12, <1>13 DEF Steps

(* Only the bounded events are counted, and those only while there are any. *)
LEMMA TroubleStep ==
  ASSUME Rest, NEW c \in Owners, Steps(c)
  PROVE  trouble' \in 0..MaxTrouble
<1>1. trouble \in 0..MaxTrouble /\ MaxTrouble \in Nat
  BY CreationAssumption DEF Rest
<1>2. ASSUME trouble' = trouble \/ Trouble PROVE trouble' \in 0..MaxTrouble
  BY <1>1, <1>2 DEF Trouble
<1>3. ASSUME NEW r, NEW l, Save(c, r, l) PROVE trouble' \in 0..MaxTrouble
  BY <1>2, <1>3 DEF Save, Written
<1>4. ASSUME NEW l, Then(c, l) PROVE trouble' \in 0..MaxTrouble
  BY <1>2, <1>4 DEF Then
<1>5. CASE \/ Acquire(c) \/ TimeOut(c) \/ Admit(c) \/ Reserve(c) \/ Reserved(c)
  BY <1>2, <1>5 DEF Acquire, TimeOut, Admit, Reserve, Reserved
<1>6. CASE \/ NoteIntent(c) \/ NoteWorktree(c) \/ Prepare(c) \/ NoteRoute(c)
           \/ NoteLaunch(c) \/ NoteAutomation(c) \/ NoteRun(c) \/ NoteBinding(c)
  BY <1>3, <1>6 DEF NoteIntent, NoteWorktree, Prepare, NoteRoute, NoteLaunch,
                    NoteAutomation, NoteRun, NoteBinding
<1>7. CASE \/ CreateWorktree(c) \/ OpenSession(c) \/ Deliver(c) \/ CreateAutomation(c)
           \/ RunAutomation(c) \/ RemoveAutomation(c)
  BY <1>4, <1>7 DEF CreateWorktree, OpenSession, Deliver, CreateAutomation,
                    RunAutomation, RemoveAutomation
<1>8. CASE \/ CreateSession(c) \/ NoteSession(c) \/ ListSessions(c) \/ ReadTerminals(c)
           \/ CheckTab(c) \/ Activate(c) \/ ListPrior(c) \/ Look(c) \/ Decide(c)
  BY <1>2, <1>8 DEF CreateSession, NoteSession, Written, ListSessions, ReadTerminals,
                    CheckTab, Activate, ListPrior, Look, Decide
<1> QED BY <1>5, <1>6, <1>7, <1>8 DEF Steps

(* The lock, the task statuses and the form of the history.                 *)
Shared ==
  /\ independent \in BOOLEAN /\ admission \in BOOLEAN
  /\ status \in [Tasks -> {"In Planning", "In Progress", "Blocked"}]

LEMMA SharedStep ==
  ASSUME CreationInv, Rest, NEW c \in Owners, Steps(c)
  PROVE  Shared'
<1>1. Shared
  BY DEF Rest, Shared
<1>2. CASE Acquire(c) \/ TimeOut(c) \/ Reserve(c) \/ Reserved(c)
  BY <1>1, <1>2 DEF Acquire, TimeOut, Reserve, Reserved, Leave, Shared
<1>3. CASE Admit(c)
  BY <1>1, <1>3 DEF Admit, Leave, Shared
<1>4. ASSUME UNCHANGED <<independent, status, admission>> PROVE Shared'
  BY <1>1, <1>4 DEF Shared
<1> QED BY <1>2, <1>3, <1>4
        DEF Steps, Allocates, NoteIntent, CreateWorktree, NoteWorktree, Prepare,
            CreateSession, NoteSession, OpenSession, NoteRoute, Deliver, ListPrior,
            NoteLaunch, CreateAutomation, NoteAutomation, RunAutomation, NoteRun,
            ListSessions, ReadTerminals, NoteBinding, RemoveAutomation, CheckTab,
            Activate, Look, Decide

LEMMA RestStep ==
  ASSUME CreationInv, Rest, [Next]_vars
  PROVE  Rest'
<1>1. /\ Mapped /\ SeenTyped /\ Shared
      /\ trouble \in 0..MaxTrouble /\ MaxTrouble \in Nat
  BY CreationAssumption DEF CreationInv, Rest, SeenTyped, Shared
<1>2. SUFFICES Shared' /\ SeenTyped' /\ trouble' \in 0..MaxTrouble
  BY DEF Rest, Shared, SeenTyped
<1>3. CASE UNCHANGED vars
  BY <1>1, <1>3 DEF vars, memory, Shared, SeenTyped
<1>4. ASSUME NEW c \in Owners, Steps(c)
      PROVE  Shared' /\ SeenTyped' /\ trouble' \in 0..MaxTrouble
  BY <1>4, SharedStep, SeenStep, TroubleStep
<1>5. ASSUME trouble' = trouble \/ Trouble PROVE trouble' \in 0..MaxTrouble
  BY <1>1, <1>5 DEF Trouble
<1>6. ASSUME NEW c \in Owners, Broken(c) \/ Crash(c)
      PROVE  Shared' /\ SeenTyped' /\ trouble' \in 0..MaxTrouble
  <2>1. End(c) /\ Trouble /\ UNCHANGED <<independent, status, admission>>
    BY <1>6 DEF Broken, Crash, Fail
  <2>2. SeenTyped'
    BY <1>1, <2>1, EndsTyped DEF End
  <2> QED BY <1>1, <1>5, <2>1, <2>2 DEF Shared
<1>7. ASSUME NEW c \in Owners,
             \/ Begin(c) \/ Resume(c) \/ Reopen(c) \/ Starts(c)
             \/ \E a \in Agents : Shows(c, a) \/ Visit(c, a) \/ Closes(c, a)
      PROVE  Shared' /\ SeenTyped' /\ trouble' \in 0..MaxTrouble
  <2>1. UNCHANGED <<independent, status, admission, seen>>
    BY <1>7 DEF Begin, Resume, Reopen, Starts, Shows, Visit, Closes, World, memory
  <2>2. trouble' = trouble \/ Trouble
    BY <1>7 DEF Begin, Resume, Reopen, Starts, Shows, Visit, Closes
  <2> QED BY <1>1, <1>5, <2>1, <2>2 DEF Shared, SeenTyped
<1>8. ASSUME NEW c \in Owners, Block(c)
      PROVE  Shared' /\ SeenTyped' /\ trouble' \in 0..MaxTrouble
  BY <1>1, <1>8 DEF Block, memory, Shared, SeenTyped
<1>9. CASE Next
  BY <1>4, <1>6, <1>7, <1>8, <1>9 DEF Next
<1> QED BY <1>3, <1>9

(* Every entry, record, label, job and list of sessions keeps its form      *)
(* (createTaskEpisode and what it calls).                                   *)
THEOREM TypeCorrect == Spec => []TypeOK
<1>1. ASSUME Init PROVE Rest
  <2>1. trouble \in 0..MaxTrouble
    <3>1. trouble = 0
      BY <1>1, Zenon DEF Init
    <3> QED BY <3>1, CreationAssumption
  <2>2. status \in [Tasks -> {"In Planning", "In Progress", "Blocked"}]
    <3>1. status = [t \in Tasks |-> "In Planning"]
      BY <1>1, Zenon DEF Init
    <3> QED BY <3>1, Zenon
  <2>3. \A c \in Owners : seen[c] \subseteq Agents
    BY <1>1, Zenon DEF Init
  <2>4. independent \in BOOLEAN /\ admission \in BOOLEAN
    BY <1>1, Zenon DEF Init
  <2> QED BY <2>1, <2>2, <2>3, <2>4, Zenon DEF Rest
<1>2. CreationInv /\ Rest /\ [Next]_vars => Rest'
  BY RestStep
<1>3. CreationInv /\ Rest => TypeOK
  <2> SUFFICES ASSUME CreationInv, Rest PROVE TypeOK
    OBVIOUS
  <2>1. Mapped /\ \A c \in Owners :
          /\ pc[c] \in Labels /\ job[c] \in {"create", "resume"} \cup Agents
          /\ entry[c] \in Entry \cup {NoEntry} /\ record[c] \in Entry \cup {NoEntry}
          /\ found[c] \subseteq Agents /\ made[c] \in Made /\ seen[c] \subseteq Agents
    BY DEF CreationInv, Good, Sound, Rest
  <2>2. entry \in [Owners -> Entry \cup {NoEntry}]
        /\ record \in [Owners -> Entry \cup {NoEntry}]
    BY <2>1 DEF Mapped
  <2>3. pc \in [Owners -> Labels]
        /\ job \in [Owners -> {"create", "resume"} \cup Agents]
    BY <2>1 DEF Mapped
  <2>4. seen \in [Owners -> SUBSET Agents] /\ found \in [Owners -> SUBSET Agents]
    BY <2>1 DEF Mapped
  <2>5. made \in [Owners -> Made]
    BY <2>1 DEF Mapped
  <2>6. pc \in [Owners ->
          {"idle", "waiting", "admitting", "reserve", "reserved", "intent", "worktree",
           "noteWorktree", "prepare", "create", "noteSession", "open", "noteRoute",
           "deliver", "list", "noteLaunch", "automate", "noteAutomation", "run",
           "noteRun", "listing", "terminals", "noteBinding", "remove", "retained",
           "activate", "look", "decide"}]
    BY <2>3 DEF Labels, Outside, LocalSteps, OrcaSteps, NewSteps
  <2> QED BY <2>2, <2>3, <2>4, <2>5, <2>6, Zenon DEF TypeOK, Rest, Made
<1> QED BY <1>1, <1>2, <1>3, CreationInit, Invariance, PTL DEF Spec

-----------------------------------------------------------------------------
(* What the creation promises.                                              *)

LEMMA OneAtMost ==
  ASSUME NEW S, \A a, b \in S : a = b
  PROVE  Cardinality(S) <= 1
<1>1. CASE S = {}
  BY <1>1, FS_EmptySet
<1>2. ASSUME NEW a \in S PROVE Cardinality(S) <= 1
  <2>1. S = {a}
    BY <1>2
  <2> QED BY <2>1, FS_Singleton
<1> QED BY <1>1, <1>2

(* No retry, lost response or crash duplicates the worktree, the launch,    *)
(* the assignment or the session of a reservation                           *)
(* (allocateReservedTaskEpisode, startTaskEpisodeInOrcaWorktree).           *)
THEOREM Single == Spec => []NoDuplicates
<1>1. CreationInv => NoDuplicates
  <2> SUFFICES ASSUME CreationInv, NEW c \in Owners
               PROVE  /\ made[c].trees <= 1
                      /\ made[c].orders + made[c].runs <= 1
                      /\ Cardinality(Present(made[c])) <= 1
    BY DEF NoDuplicates, Present
  <2>1. CASE entry[c] = NoEntry
    <3>1. made[c] = NothingMade
      BY <2>1, Values DEF Good, Sound
    <3>2. \A a, b \in Present(made[c]) : a = b
      BY <3>1 DEF Present, NothingMade
    <3> QED BY <3>1, <3>2, OneAtMost DEF NothingMade
  <2>2. CASE entry[c] # NoEntry
    <3>1. Durable(entry[c], made[c]) /\ made[c] \in Made
      BY <2>2, Values DEF Good, Sound
    <3> QED BY <3>1, OneAtMost DEF Durable, Made
  <2> QED BY <2>1, <2>2
<1> QED BY <1>1, Invariance, PTL

(* Whatever an interrupted creation has made is named by the durable entry, *)
(* or is the one session its launch is known to have started.               *)
THEOREM Traceable == Spec => []Reconcilable
<1>1. CreationInv => Reconcilable
  <2> SUFFICES ASSUME CreationInv, NEW c \in Owners
               PROVE  /\ made[c] # NothingMade => entry[c] # NoEntry /\ "name" \in entry[c].marks
                      /\ made[c].automations + made[c].runs > 0 => "launch" \in entry[c].marks
                      /\ \A a \in made[c].told :
                           entry[c].session = a
                           \/ (entry[c].engine = "orca" /\ "launch" \in entry[c].marks)
    BY DEF Reconcilable
  <2>1. CASE entry[c] = NoEntry
    <3>1. made[c] = NothingMade
      BY <2>1, Values DEF Good, Sound
    <3> QED BY <3>1 DEF NothingMade
  <2>2. CASE entry[c] # NoEntry
    <3>1. Durable(entry[c], made[c]) /\ made[c] \in Made /\ entry[c].engine \in {"local", "orca"}
      BY <2>2, Values DEF Good, Sound, Entry
    <3>2. CASE entry[c].engine = "local"
      BY <2>2, <3>1, <3>2 DEF Durable, LocalDurable
    <3>3. CASE entry[c].engine = "orca"
      BY <2>2, <3>1, <3>3 DEF Durable, OrcaDurable, Quiet
    <3> QED BY <3>1, <3>2, <3>3
  <2> QED BY <2>1, <2>2
<1> QED BY <1>1, Invariance, PTL

(* A session that Prime Claw made and an active entry names has the execute *)
(* assignment (deliverExecute, waitForOrcaBinding).                         *)
THEOREM Assigned == Spec => []ActiveIsAssigned
<1>1. CreationInv => ActiveIsAssigned
  BY Values DEF ActiveIsAssigned, Good, Sound, Durable
<1> QED BY <1>1, Invariance, PTL

(* No write forgets evidence that an earlier one has recorded, and an       *)
(* active entry stays active (updated, markUncertain).                      *)
THEOREM EvidenceStays == Spec => EvidenceKept
<1> DEFINE Step == \A c \in Owners : entry[c] # NoEntry =>
       /\ entry'[c] # NoEntry
       /\ entry[c].marks \ {"automation", "run"} \subseteq entry'[c].marks
       /\ entry[c].marks \subseteq entry'[c].marks \/ made[c].automations = 0
       /\ entry[c].session # None => entry'[c].session = entry[c].session
       /\ entry[c].status = "active" => entry'[c].status = "active"
<1>1. CreationInv /\ [Next]_vars => [Step]_vars
  BY Stepwise, CreationAssumption DEF Kept, Extends
<1> QED BY <1>1, Invariance, PTL DEF Spec, EvidenceKept
=============================================================================
