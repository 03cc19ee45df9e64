------------------------ MODULE EpisodeHandoffProofs ------------------------
(***************************************************************************)
(* Proofs about the handoff, for any number of invocations and of events   *)
(* that interfere.                                                         *)
(***************************************************************************)
EXTENDS EpisodeHandoff, TLAPS

Kinds == {"handoff", "execute"}

(* Where an invocation has sent nothing, has not sent its follow-up, and    *)
(* knows that its first prompt was admitted.                                *)
Before  == {"list", "reopen", "note", "state", "observe", "first"}
Between == {"firstSent", "commit", "write", "verify", "second"}
Known   == {"commit", "write", "verify", "second", "secondSent"}
Labels  == {"idle", "firstSent", "secondSent"} \cup Before \cup Between

(* No trace of a prompt.                                                    *)
Unsent(c, k) ==
  /\ ~Admitted(c, k) /\ ~Underway(c, k)
  /\ \A r \in replies : ~(r.call = c /\ r.kind = k)

(* A prompt is under way once, and is admitted or answered only when it is  *)
(* not under way any more; answers tell what happened to it.                *)
Traces ==
  /\ \A m \in wire : m.call <= call /\ ~Admitted(m.call, m.kind)
  /\ \A m, n \in wire : m.call = n.call /\ m.kind = n.kind => m = n
  /\ \A m \in wire : m.kind = "execute" => Admitted(m.call, "handoff")
  /\ \A r \in replies :
       /\ r.call <= call /\ ~Underway(r.call, r.kind)
       /\ r.answer = "ok" => Admitted(r.call, r.kind)
       /\ r.answer = "refused" => ~Admitted(r.call, r.kind)
  /\ \A i \in DOMAIN log : log[i].call <= call

(* What the invocation knows of its own prompts from where it is.           *)
Progress ==
  /\ pc \in Before => Unsent(call, "handoff") /\ Unsent(call, "execute")
  /\ pc \in Between => Unsent(call, "execute")
  /\ pc \in Known => Admitted(call, "handoff")

(* Every copy of the entry that could be written back has only evidence of  *)
(* an admitted prompt.                                                      *)
Evident(e) == e.evidence > 0 => Admitted(e.evidence, "handoff")

Copies ==
  /\ Evident(entry) /\ Evident(record) /\ Evident(prepared)
  /\ undo # NoUndo => Evident(undo.before) /\ Evident(undo.after)

(* The handoff works on its own provider's entry; a switch that can be      *)
(* taken back is the only one since.                                        *)
Switches ==
  /\ Mine(record) /\ Mine(prepared)
  /\ undo # NoUndo =>
       /\ mode \in {"published", "beads"}
       /\ mode = "published" => ~Mine(undo.before)
       /\ mode = "beads" => ~Mine(entry)

(* From the verification on, the evidence is recorded, and would be again   *)
(* if the entry came back.                                                  *)
Recorded ==
  Observing /\ (pc \in {"second", "secondSent"} \/ result = "admitted") =>
    /\ Mine(entry) => entry.evidence = call
    /\ undo # NoUndo /\ Mine(undo.before) => undo.before.evidence = call

Outcome == pc # "idle" => result = "none"

(* The types in three groups, and that there is a route to send to.         *)
StoreType ==
  /\ mode \in Modes
  /\ entry \in Entry
  /\ undo = NoUndo \/ undo \in [before : Entry, after : Entry]

MailType ==
  /\ wire \subseteq [call : 1..MaxCalls, kind : {"handoff", "execute"}, route : 1..routes]
  /\ replies \subseteq [call : 1..MaxCalls, kind : {"handoff", "execute"},
                        answer : {"ok", "refused", "uncertain"}]
  /\ log \in Seq(Item)

LocalType ==
  /\ pc \in Labels /\ call \in 0..MaxCalls /\ round \in {1, 2}
  /\ record \in Entry /\ prepared \in Entry
  /\ chosen \in 0..routes /\ (pc \notin {"idle", "list", "reopen"} => chosen > 0)
  /\ result \in {"none", "error", "first-uncertain", "callback", "follow-up-rejected",
                 "follow-up-uncertain", "admitted", "dead"}
  /\ pc # "idle" => call > 0

DaemonType == routes \in Nat /\ session \in [route : 0..routes, busy : BOOLEAN]
CountType  == calm \in BOOLEAN /\ trouble \in 0..MaxTrouble

Types == StoreType /\ MailType /\ LocalType /\ DaemonType /\ CountType

Prompts == Traces /\ Progress /\ ExecuteFollowsHandoff

HandoffInv ==
  /\ Types /\ Prompts
  /\ Copies /\ Switches /\ Recorded /\ Outcome /\ ReportTruthful

-----------------------------------------------------------------------------
LEMMA EntryChange ==
  ASSUME NEW e \in Entry
  PROVE  /\ Other(e) \in Entry
         /\ \A r \in Nat : [e EXCEPT !.route = r] \in Entry
         /\ \A c \in 0..MaxCalls : [e EXCEPT !.evidence = c] \in Entry
BY DEF Entry, Other

LEMMA TypesOK == Types => TypeOK
BY DEF Types, TypeOK, StoreType, MailType, LocalType, DaemonType, CountType,
       Labels, Before, Between

LEMMA Typed == Init => Types
<1> SUFFICES ASSUME Init PROVE Types
  OBVIOUS
<1>1. entry \in Entry
  BY HandoffAssumption DEF Init, Entry
<1>2. Other(entry) \in Entry
  BY <1>1, EntryChange
<1>3. StoreType
  BY <1>1, <1>2 DEF Init, StoreType
<1>4. MailType /\ CountType
  <2>1. trouble = 0 /\ calm = TRUE /\ wire = {} /\ replies = {} /\ log = <<>>
    BY DEF Init
  <2>2. trouble \in 0..MaxTrouble
    BY <2>1, HandoffAssumption
  <2> QED BY <2>1, <2>2 DEF MailType, CountType
<1>6. DaemonType
  <2>1. routes = 1 /\ 0 \in 0..1 /\ 1 \in 0..1
    BY DEF Init
  <2>2. session \in [route : {0, 1}, busy : {FALSE}] \cup {[route |-> 1, busy |-> TRUE]}
    BY DEF Init
  <2>3. [route |-> 1, busy |-> TRUE] \in [route : 0..1, busy : BOOLEAN]
    BY <2>1
  <2>4. ASSUME NEW x \in [route : {0, 1}, busy : {FALSE}]
        PROVE  x \in [route : 0..1, busy : BOOLEAN]
    BY <2>1
  <2>5. session \in [route : 0..1, busy : BOOLEAN]
    BY <2>2, <2>3, <2>4
  <2> QED BY <2>1, <2>5 DEF DaemonType
<1>5. LocalType
  BY <1>1, HandoffAssumption DEF Init, LocalType, Labels
<1> QED BY <1>3, <1>4, <1>5, <1>6 DEF Types

LEMMA TroubleType == CountType /\ (Trouble \/ Undisturbed) => CountType'
<1> SUFFICES ASSUME CountType, Trouble \/ Undisturbed PROVE CountType'
  OBVIOUS
<1>1. trouble \in 0..MaxTrouble => trouble' \in 0..MaxTrouble
  BY HandoffAssumption DEF Trouble, Undisturbed
<1>2. calm' \in BOOLEAN
  BY DEF CountType, Trouble, Undisturbed
<1> QED BY <1>1, <1>2 DEF CountType

(* What a step within the invocation may do to its own variables.           *)
LEMMA EndType ==
  ASSUME LocalType, routes' = routes,
         NEW r \in {"error", "first-uncertain", "callback", "follow-up-rejected",
                    "follow-up-uncertain", "admitted", "dead"}, End(r)
  PROVE  LocalType'
BY DEF End, LocalType, Labels

LEMMA GotoType ==
  ASSUME LocalType, pc \notin {"idle", "list", "reopen"}, routes' = routes,
         NEW l \in Labels \ {"idle"}, Goto(l)
  PROVE  LocalType'
BY DEF Goto, LocalType

LEMMA SameStore == StoreType /\ UNCHANGED durable => StoreType'
BY DEF StoreType, durable

LEMMA SameDaemon == MailType /\ DaemonType /\ UNCHANGED daemon
                      => MailType' /\ DaemonType' /\ routes' = routes
BY DEF MailType, DaemonType, daemon

LEMMA SameLocals == LocalType /\ UNCHANGED locals /\ routes' = routes => LocalType'
BY DEF LocalType, locals

LEMMA ResidentType ==
  ASSUME DaemonType, Resident
  PROVE  DaemonType' /\ routes' \in {routes, routes + 1} /\ session'.route > 0
BY DEF DaemonType, Resident

LEMMA MoreRoutes ==
  ASSUME MailType, routes \in Nat, routes' \in {routes, routes + 1},
         UNCHANGED <<wire, replies, log>>
  PROVE  MailType'
BY DEF MailType

LEMMA TypeStep == Types /\ [Next]_vars => Types'
<1> SUFFICES ASSUME Types, [Next]_vars PROVE Types'
  OBVIOUS
<1> USE DEF Types
<1>1. CASE Begin
  <2>1. /\ call < MaxCalls /\ pc' = "list" /\ call' = call + 1 /\ round' \in {1, 2}
        /\ record' = entry /\ prepared' = entry /\ chosen' = 0 /\ result' = "none"
        /\ trouble' = trouble /\ routes' = routes
    BY <1>1 DEF Begin, daemon
  <2>2. LocalType'
    BY <2>1, HandoffAssumption DEF LocalType, StoreType, DaemonType, Labels, Before
  <2>3. calm' \in BOOLEAN
    BY <1>1 DEF Begin
  <2>4. CountType'
    BY <2>1, <2>3 DEF CountType
  <2> QED BY <1>1, <2>2, <2>4, SameStore, SameDaemon DEF Begin
<1>2. CASE List
  <2>1. UNCHANGED durable /\ UNCHANGED daemon /\ Undisturbed
    BY <1>2 DEF List
  <2>2. CASE End("error")
    BY <2>1, <2>2, SameStore, SameDaemon, TroubleType, EndType
  <2>3. CASE ~End("error")
    <3>1. LocalType'
      BY <1>2, <2>1, <2>3 DEF List, LocalType, DaemonType, Labels, Before, daemon
    <3> QED BY <2>1, <3>1, SameStore, SameDaemon, TroubleType
  <2> QED BY <2>2, <2>3
<1>3. CASE Reopen
  <2>1. DaemonType' /\ routes' \in {routes, routes + 1} /\ session'.route > 0
    BY <1>3, ResidentType DEF Reopen
  <2>2. MailType' /\ StoreType' /\ CountType'
    BY <1>3, <2>1, MoreRoutes, SameStore, TroubleType DEF Reopen, DaemonType
  <2>3. LocalType'
    BY <1>3, <2>1 DEF Reopen, LocalType, DaemonType, Labels, Before
  <2> QED BY <2>1, <2>2, <2>3
<1>4. CASE NoteRoute
  <2>1. UNCHANGED <<mode, undo>> /\ UNCHANGED daemon /\ Undisturbed /\ pc = "note"
    BY <1>4 DEF NoteRoute
  <2>2. MailType' /\ DaemonType' /\ routes' = routes /\ CountType'
    BY <2>1, SameDaemon, TroubleType
  <2>3. CASE Mine(entry)
    <3>1. chosen \in Nat /\ chosen > 0 /\ record \in Entry /\ chosen \in 0..routes
      BY <2>1 DEF LocalType, DaemonType
    <3>2. [record EXCEPT !.route = chosen] \in Entry
      BY <3>1, EntryChange
    <3>3. entry' = [record EXCEPT !.route = chosen] /\ record' = entry' /\ pc' = "state"
          /\ UNCHANGED <<call, round, prepared, chosen, result>>
      BY <1>4, <2>3 DEF NoteRoute
    <3>4. StoreType'
      BY <2>1, <3>2, <3>3 DEF StoreType
    <3>5. LocalType'
      BY <2>1, <2>2, <3>1, <3>2, <3>3 DEF LocalType, Labels, Before
    <3> QED BY <2>2, <3>4, <3>5
  <2>4. CASE ~Mine(entry)
    <3>1. End("error") /\ UNCHANGED entry
      BY <1>4, <2>4 DEF NoteRoute
    <3>2. LocalType'
      BY <2>2, <3>1, EndType
    <3> QED BY <2>1, <2>2, <3>1, <3>2 DEF StoreType
  <2> QED BY <2>3, <2>4
<1>5. CASE CheckState \/ Observe
  <2>1. /\ UNCHANGED durable /\ UNCHANGED daemon /\ Undisturbed
        /\ pc \in {"state", "observe"}
    BY <1>5 DEF CheckState, Observe
  <2>2. LocalType'
    <3>1. CASE End("error")
      BY <2>1, <3>1, SameDaemon, EndType
    <3>2. CASE ~End("error")
      BY <1>5, <2>1, <3>2 DEF CheckState, Observe, LocalType, Labels, Before, daemon
    <3> QED BY <3>1, <3>2
  <2> QED BY <2>1, <2>2, SameStore, SameDaemon, TroubleType
<1>6. CASE SendFirst \/ SendFollowUp
  <2>1. PICK k \in Kinds : Send(k) /\ pc \in {"first", "second"}
                           /\ (Goto("firstSent") \/ Goto("secondSent"))
                           /\ Undisturbed /\ UNCHANGED <<durable, session, routes, replies, log>>
    BY <1>6 DEF SendFirst, SendFollowUp, Kinds
  <2>2. LocalType'
    BY <2>1, GotoType DEF Labels
  <2>3. Prompt(k) \in [call : 1..MaxCalls, kind : {"handoff", "execute"}, route : 1..routes]
    BY <2>1 DEF Prompt, Kinds, LocalType, DaemonType
  <2>4. MailType' /\ DaemonType'
    BY <2>1, <2>3 DEF Send, MailType, DaemonType
  <2> QED BY <2>1, <2>2, <2>4, SameStore, TroubleType
<1>7. CASE FirstAnswered \/ FollowUpAnswered \/ CompareBacklog \/ Verify
  <2>1. /\ UNCHANGED durable /\ UNCHANGED daemon /\ Undisturbed
        /\ pc \notin {"idle", "list", "reopen"}
    BY <1>7 DEF FirstAnswered, FollowUpAnswered, CompareBacklog, Verify
  <2>2. \/ \E l \in Labels \ {"idle"} : Goto(l)
        \/ \E r \in {"error", "first-uncertain", "callback", "follow-up-rejected",
                      "follow-up-uncertain", "admitted"} : End(r)
    BY <1>7 DEF FirstAnswered, FollowUpAnswered, CompareBacklog, Verify, Labels, Between
  <2>3. LocalType'
    BY <2>1, <2>2, SameDaemon, GotoType, EndType
  <2> QED BY <2>1, <2>3, SameStore, SameDaemon, TroubleType
<1>8. CASE CommitBeads \/ WriteBacklog
  <2>1. /\ UNCHANGED <<mode, undo>> /\ UNCHANGED daemon /\ Undisturbed
        /\ pc \notin {"idle", "list", "reopen"}
        /\ entry' \in {entry, Target} /\ (Goto("verify") \/ End("callback"))
    BY <1>8 DEF CommitBeads, WriteBacklog
  <2>2. Target \in Entry
    BY EntryChange DEF Target, LocalType
  <2>3. LocalType'
    BY <2>1, SameDaemon, GotoType, EndType DEF Labels, Between
  <2>4. StoreType'
    BY <2>1, <2>2 DEF StoreType
  <2> QED BY <2>1, <2>3, <2>4, SameDaemon, TroubleType
<1>9. CASE StopWaiting \/ Crash
  <2>1. /\ UNCHANGED durable /\ UNCHANGED daemon
        /\ \E r \in {"first-uncertain", "follow-up-uncertain", "dead"} : End(r)
    BY <1>9 DEF StopWaiting, Crash
  <2>2. CountType'
    BY <1>9, TroubleType DEF StopWaiting, Crash, CountType
  <2> QED BY <2>1, <2>2, SameStore, SameDaemon, EndType
<1>10. CASE Broken
  <2>1. /\ UNCHANGED durable /\ Trouble
        /\ \E r \in {"error", "callback", "follow-up-rejected"} : End(r)
        /\ UNCHANGED daemon \/ (Resident /\ UNCHANGED <<wire, replies, log>>)
    BY <1>10 DEF Broken
  <2>2. DaemonType' /\ routes' \in {routes, routes + 1} /\ MailType'
    BY <2>1, SameDaemon, ResidentType, MoreRoutes DEF DaemonType
  <2>3. LocalType'
    BY <2>1, <2>2 DEF End, LocalType, DaemonType, Labels
  <2> QED BY <2>1, <2>2, <2>3, SameStore, TroubleType
<1>11. ASSUME NEW m \in wire, Handle(m) \/ HandleUnsure(m) PROVE Types'
  <2>1. PICK a \in {"ok", "refused", "uncertain"} :
          Answer(m, a) /\ (Admit(m) \/ UNCHANGED <<session, log>>)
          /\ (Trouble \/ Undisturbed)
    BY <1>11 DEF Handle, HandleUnsure
  <2>2. m \in [call : 1..MaxCalls, kind : {"handoff", "execute"}, route : 1..routes]
    BY DEF MailType
  <2>3. [call |-> m.call, kind |-> m.kind] \in Item
    BY <2>2 DEF Item
  <2>4. Append(log, [call |-> m.call, kind |-> m.kind]) \in Seq(Item)
    BY <2>3 DEF MailType
  <2>5. log' \in Seq(Item) /\ session' \in [route : 0..routes, busy : BOOLEAN]
    BY <2>1, <2>4 DEF Admit, MailType, DaemonType
  <2>6. [call |-> m.call, kind |-> m.kind, answer |-> a] \in
          [call : 1..MaxCalls, kind : {"handoff", "execute"},
           answer : {"ok", "refused", "uncertain"}]
    BY <2>1, <2>2
  <2>7. MailType' /\ DaemonType'
    BY <2>1, <2>5, <2>6 DEF Answer, MailType, DaemonType
  <2> QED BY <2>1, <2>7, SameStore, SameLocals, TroubleType DEF Answer
<1>12. CASE Close \/ Open \/ Turn \/ Rest
  <2>0. /\ session.route \in 0..routes /\ session = [route |-> session.route, busy |-> session.busy]
        /\ routes \in Nat /\ session.busy \in BOOLEAN
    BY DEF DaemonType
  <2>1. PICK s : Become(s) /\ s \in [route : 0..routes', busy : BOOLEAN]
                /\ routes' \in {routes, routes + 1}
                /\ (Trouble \/ Undisturbed)
    <3>1. CASE Close
      <4>1. 0 \in 0..routes
        BY <2>0
      <4>2. [route |-> 0, busy |-> FALSE] \in [route : 0..routes, busy : BOOLEAN]
        BY <4>1
      <4> QED BY <3>1, <4>2 DEF Close
    <3>2. CASE Open
      <4>1. routes + 1 \in 0..(routes + 1)
        BY <2>0
      <4>2. [session EXCEPT !.route = routes + 1] = [route |-> routes + 1, busy |-> session.busy]
        BY <2>0
      <4>3. [route |-> routes + 1, busy |-> session.busy] \in [route : 0..(routes + 1), busy : BOOLEAN]
        BY <2>0, <4>1
      <4> QED BY <3>2, <4>2, <4>3 DEF Open
    <3>3. ASSUME NEW b \in BOOLEAN
          PROVE  [session EXCEPT !.busy = b] \in [route : 0..routes, busy : BOOLEAN]
      BY <2>0
    <3>4. CASE Turn \/ Rest
      <4>1. PICK b \in BOOLEAN : Become([session EXCEPT !.busy = b])
        BY <3>4 DEF Turn, Rest
      <4> QED BY <3>3, <3>4, <4>1 DEF Turn, Rest
    <3> QED BY <1>12, <3>1, <3>2, <3>4
  <2>2. MailType' /\ DaemonType'
    BY <2>1, MoreRoutes DEF Become, DaemonType
  <2>3. LocalType'
    BY <2>1 DEF Become, LocalType, DaemonType, locals
  <2> QED BY <2>1, <2>2, <2>3, SameStore, TroubleType DEF Become
<1>13. CASE Migrate
  <2>1. PICK r \in {entry.route, session.route} \ {0} :
          entry' = [Other(entry) EXCEPT !.route = r]
    BY <1>13 DEF Migrate
  <2>2. entry.route \in Nat /\ session.route \in Nat
    BY DEF StoreType, Entry, DaemonType
  <2>3. entry' \in Entry
    BY <2>1, <2>2, EntryChange DEF StoreType
  <2>4. StoreType'
    BY <1>13, <2>3 DEF Migrate, StoreType
  <2> QED BY <1>13, <2>4, SameDaemon, SameLocals, TroubleType DEF Migrate
<1>14. CASE Restore
  <2>1. StoreType'
    BY <1>14 DEF Restore, StoreType
  <2> QED BY <1>14, <2>1, SameDaemon, SameLocals, TroubleType DEF Restore
<1>15. CASE UNCHANGED vars
  <2>1. CountType' /\ LocalType'
    BY <1>15, SameLocals DEF vars, daemon, CountType
  <2> QED BY <1>15, <2>1, SameStore, SameDaemon DEF vars
<1> QED
  BY <1>1, <1>2, <1>3, <1>4, <1>5, <1>6, <1>7, <1>8, <1>9, <1>10, <1>11, <1>12, <1>13,
     <1>14, <1>15 DEF Next, Steps

(* The handoff is type correct.                                             *)
THEOREM TypeCorrect == Spec => []TypeOK
BY Typed, TypeStep, TypesOK, PTL DEF Spec

-----------------------------------------------------------------------------
(* The prompts: what each kind of step does to their traces.                *)
LEMMA SameTraces ==
  ASSUME UNCHANGED <<wire, replies, log>>
  PROVE  \A c, k : /\ Admitted(c, k)' <=> Admitted(c, k)
                   /\ Underway(c, k)' <=> Underway(c, k)
                   /\ Unsent(c, k)' <=> Unsent(c, k)
BY DEF Admitted, Underway, Unsent

(* A step that sends and answers nothing.                                   *)
LEMMA Onward ==
  ASSUME Prompts, UNCHANGED <<wire, replies, log, call>>,
         pc' \in Before => pc \in Before,
         pc' \in Between => pc \in Before \cup Between,
         pc' \in Known => pc \in Known \/ Admitted(call, "handoff")
  PROVE  Prompts'
<1>1. \A c, k : /\ Admitted(c, k)' <=> Admitted(c, k)
                /\ Underway(c, k)' <=> Underway(c, k)
                /\ Unsent(c, k)' <=> Unsent(c, k)
  BY SameTraces
<1>2. Traces'
  BY <1>1 DEF Prompts, Traces
<1>3. Progress'
  BY <1>1 DEF Prompts, Progress
<1>4. ExecuteFollowsHandoff'
  BY DEF Prompts, ExecuteFollowsHandoff
<1> QED BY <1>2, <1>3, <1>4 DEF Prompts

(* Nothing of a later invocation is there yet.                              *)
LEMMA LaterUnsent ==
  ASSUME Types, Traces, NEW c \in Nat, c > call, NEW k \in Kinds
  PROVE  Unsent(c, k)
<1>1. call \in Nat
  BY DEF Types, LocalType
<1>2. ~Admitted(c, k)
  BY <1>1 DEF Traces, Admitted
<1>3. ~Underway(c, k)
  BY <1>1 DEF Traces, Underway
<1>4. \A r \in replies : ~(r.call = c /\ r.kind = k)
  BY <1>1 DEF Traces
<1> QED BY <1>2, <1>3, <1>4 DEF Unsent

LEMMA BeginPrompts ==
  ASSUME Types, Prompts, Begin
  PROVE  Prompts'
<1>1. call \in Nat /\ call' = call + 1 /\ pc' = "list" /\ UNCHANGED <<wire, replies, log>>
  BY DEF Begin, daemon, Types, LocalType
<1>2. \A c, k : /\ Admitted(c, k)' <=> Admitted(c, k)
                /\ Underway(c, k)' <=> Underway(c, k)
                /\ Unsent(c, k)' <=> Unsent(c, k)
  BY <1>1, SameTraces
<1>3. Unsent(call', "handoff") /\ Unsent(call', "execute")
  BY <1>1, LaterUnsent DEF Prompts, Kinds
<1>4. /\ \A m \in wire : m.call \in Nat
      /\ \A r \in replies : r.call \in Nat
      /\ \A i \in DOMAIN log : log[i].call \in Nat
  <2>1. log \in Seq(Item)
    BY DEF Types, MailType
  <2>2. \A i \in DOMAIN log : log[i] \in Item
    BY <2>1
  <2>3. \A i \in DOMAIN log : log[i].call \in Nat
    BY <2>2 DEF Item
  <2>4. /\ \A m \in wire : m.call \in Nat
        /\ \A r \in replies : r.call \in Nat
    BY DEF Types, MailType
  <2> QED BY <2>3, <2>4
<1>5. Traces'
  BY <1>1, <1>2, <1>4 DEF Prompts, Traces
<1>6. Progress'
  BY <1>1, <1>2, <1>3 DEF Progress, Before, Between, Known
<1>7. ExecuteFollowsHandoff'
  BY <1>1 DEF Prompts, ExecuteFollowsHandoff
<1> QED BY <1>5, <1>6, <1>7 DEF Prompts

LEMMA SendPrompts ==
  ASSUME Types, Prompts, NEW k \in Kinds, Send(k), Unsent(call, k),
         k = "execute" => Admitted(call, "handoff"),
         k = "handoff" => Unsent(call, "execute"),
         pc' = IF k = "handoff" THEN "firstSent" ELSE "secondSent",
         UNCHANGED <<replies, log, call>>
  PROVE  Prompts'
<1>1. /\ wire' = wire \cup {Prompt(k)} /\ Prompt(k).call = call /\ Prompt(k).kind = k
      /\ call \in Nat
  BY DEF Send, Prompt, Types, LocalType
<1>2. \A c, j : Admitted(c, j)' <=> Admitted(c, j)
  BY DEF Admitted
<1>3. \A c, j : Underway(c, j)' <=> Underway(c, j) \/ (c = call /\ j = k)
  BY <1>1 DEF Underway
<1>4. Traces'
  <2>1. \A m \in wire' : m.call <= call' /\ ~Admitted(m.call, m.kind)'
    BY <1>1, <1>2 DEF Prompts, Traces, Unsent
  <2>2. \A m, n \in wire' : m.call = n.call /\ m.kind = n.kind => m = n
    <3>1. \A m \in wire : ~(m.call = call /\ m.kind = k)
      BY DEF Unsent, Underway
    <3> QED BY <1>1, <3>1 DEF Prompts, Traces
  <2>3. \A m \in wire' : m.kind = "execute" => Admitted(m.call, "handoff")'
    BY <1>1, <1>2 DEF Prompts, Traces
  <2>4. \A r \in replies' : ~Underway(r.call, r.kind)'
    BY <1>3 DEF Prompts, Traces, Unsent
  <2> QED BY <1>2, <2>1, <2>2, <2>3, <2>4 DEF Prompts, Traces
<1>5. Progress'
  <2>1. CASE k = "handoff"
    <3>1. Unsent(call, "execute")'
      BY <1>2, <1>3, <2>1 DEF Unsent
    <3> QED BY <2>1, <3>1 DEF Progress, Before, Between, Known
  <2>2. CASE k = "execute"
    BY <1>2, <2>2 DEF Progress, Before, Between, Known
  <2> QED BY <2>1, <2>2 DEF Kinds
<1>6. ExecuteFollowsHandoff'
  BY DEF Prompts, ExecuteFollowsHandoff
<1> QED BY <1>4, <1>5, <1>6 DEF Prompts

(* The daemon admits, or refuses or loses, and answers.                     *)
LEMMA LogGrows ==
  ASSUME Types, NEW x \in Item, log' = Append(log, x)
  PROVE  /\ \A c, k : Admitted(c, k)' <=> Admitted(c, k) \/ x = [call |-> c, kind |-> k]
         /\ DOMAIN log' = 1..(Len(log) + 1) /\ DOMAIN log = 1..Len(log) /\ Len(log) \in Nat
         /\ \A i \in DOMAIN log : log'[i] = log[i]
         /\ log'[Len(log) + 1] = x
<1>1. log \in Seq(Item)
  BY DEF Types, MailType
<1>2. /\ DOMAIN log' = 1..(Len(log) + 1) /\ DOMAIN log = 1..Len(log) /\ Len(log) \in Nat
      /\ \A i \in DOMAIN log : log'[i] = log[i]
      /\ log'[Len(log) + 1] = x
  BY <1>1
<1>3. ASSUME NEW c, NEW k
      PROVE  Admitted(c, k)' <=> Admitted(c, k) \/ x = [call |-> c, kind |-> k]
  BY <1>2 DEF Admitted
<1> QED BY <1>2, <1>3

LEMMA HandlePrompts ==
  ASSUME Types, Prompts, NEW m \in wire, NEW a \in {"ok", "refused", "uncertain"},
         Answer(m, a), Admit(m) \/ UNCHANGED <<session, log>>,
         a = "ok" => Admit(m), a = "refused" => log' = log
  PROVE  Prompts'
<1> DEFINE x == [call |-> m.call, kind |-> m.kind]
<1>1. /\ wire' = wire \ {m} /\ replies' = replies \cup {[call |-> m.call, kind |-> m.kind, answer |-> a]}
      /\ call' = call /\ pc' = pc
  BY DEF Answer, locals
<1>2. m \in [call : 1..MaxCalls, kind : Kinds, route : 1..routes] /\ x \in Item
  BY DEF Types, MailType, Item, Kinds
<1>3. log' = log \/ log' = Append(log, x)
  BY DEF Admit
<1>4. \A c, k : Admitted(c, k) => Admitted(c, k)'
  BY <1>2, <1>3, LogGrows DEF Admitted
<1>5. \A c, k : Admitted(c, k)' => Admitted(c, k) \/ (c = m.call /\ k = m.kind)
  <2>1. CASE log' = log
    BY <2>1 DEF Admitted
  <2>2. CASE log' = Append(log, x)
    BY <1>2, <2>2, LogGrows
  <2> QED BY <1>3, <2>1, <2>2
<1>6. \A n \in wire' : n \in wire /\ ~(n.call = m.call /\ n.kind = m.kind)
  BY <1>1 DEF Prompts, Traces
<1>7. \A c, k : Underway(c, k)' => Underway(c, k) /\ ~(c = m.call /\ k = m.kind)
  BY <1>6 DEF Underway
<1>8. Traces'
  <2>1. \A n \in wire' : n.call <= call' /\ ~Admitted(n.call, n.kind)'
    BY <1>1, <1>5, <1>6 DEF Prompts, Traces
  <2>2. \A n, o \in wire' : n.call = o.call /\ n.kind = o.kind => n = o
    BY <1>6 DEF Prompts, Traces
  <2>3. \A n \in wire' : n.kind = "execute" => Admitted(n.call, "handoff")'
    BY <1>4, <1>6 DEF Prompts, Traces
  <2>4. ASSUME NEW r \in replies'
        PROVE  /\ r.call <= call' /\ ~Underway(r.call, r.kind)'
               /\ r.answer = "ok" => Admitted(r.call, r.kind)'
               /\ r.answer = "refused" => ~Admitted(r.call, r.kind)'
    <3>1. CASE r \in replies
      <4>1. ~(r.call = m.call /\ r.kind = m.kind)
        BY <3>1 DEF Prompts, Traces, Underway
      <4> QED BY <1>1, <1>4, <1>5, <1>7, <3>1, <4>1 DEF Prompts, Traces
    <3>2. CASE r = [call |-> m.call, kind |-> m.kind, answer |-> a]
      <4>1. r.call = m.call /\ r.kind = m.kind /\ r.answer = a
        BY <3>2
      <4>2. a = "ok" => Admitted(m.call, m.kind)'
        BY <1>2, LogGrows DEF Admit
      <4>3. a = "refused" => ~Admitted(m.call, m.kind)'
        BY DEF Prompts, Traces, Admitted
      <4>4. r.call <= call' /\ ~Underway(r.call, r.kind)'
        BY <1>1, <1>7, <4>1 DEF Prompts, Traces
      <4> QED BY <4>1, <4>2, <4>3, <4>4
    <3> QED BY <1>1, <3>1, <3>2
  <2>5. \A i \in DOMAIN log' : log'[i].call <= call'
    <3>1. CASE log' = log
      BY <1>1, <3>1 DEF Prompts, Traces
    <3>2. CASE log' = Append(log, x)
      <4>1. x.call = m.call /\ m.call <= call
        BY DEF Prompts, Traces
      <4> QED BY <1>1, <1>2, <3>2, <4>1, LogGrows DEF Prompts, Traces
    <3> QED BY <1>3, <3>1, <3>2
  <2> QED BY <2>1, <2>2, <2>3, <2>4, <2>5 DEF Traces
<1>9. Progress'
  <2>1. ASSUME NEW k, Unsent(call, k) PROVE Unsent(call, k)'
    <3>1. ~(m.call = call /\ m.kind = k)
      BY <2>1 DEF Unsent, Underway
    <3> QED BY <1>1, <1>5, <1>7, <2>1, <3>1 DEF Unsent
  <2> QED BY <1>1, <1>4, <2>1 DEF Prompts, Progress
<1>10. ExecuteFollowsHandoff'
  <2>1. CASE log' = log
    BY <2>1 DEF Prompts, ExecuteFollowsHandoff
  <2>2. CASE log' = Append(log, x)
    <3> DEFINE n == Len(log) + 1
    <3>1. /\ DOMAIN log' = 1..n /\ DOMAIN log = 1..Len(log) /\ Len(log) \in Nat
          /\ \A i \in DOMAIN log : log'[i] = log[i]
          /\ log'[n] = x
      BY <1>2, <2>2, LogGrows
    <3>2. \A i \in DOMAIN log : log[i] # x
      BY DEF Prompts, Traces, Admitted
    <3>3. ASSUME NEW i \in DOMAIN log', NEW j \in DOMAIN log', log'[i] = log'[j] PROVE i = j
      <4>0. i \in 1..n /\ j \in 1..n /\ \A h \in 1..n : h = n \/ h \in DOMAIN log
        BY <3>1
      <4>1. CASE i \in DOMAIN log /\ j \in DOMAIN log
        <5>1. log[i] = log[j]
          BY <3>1, <3>3, <4>1
        <5> QED BY <4>1, <5>1 DEF Prompts, ExecuteFollowsHandoff
      <4>2. CASE i = n /\ j \in DOMAIN log
        BY <3>1, <3>2, <3>3, <4>2
      <4>3. CASE i \in DOMAIN log /\ j = n
        BY <3>1, <3>2, <3>3, <4>3
      <4> QED BY <4>0, <4>1, <4>2, <4>3
    <3>4. ASSUME NEW i \in DOMAIN log', log'[i].kind = "execute"
          PROVE  \E j \in 1..(i - 1) : log'[j] = [call |-> log'[i].call, kind |-> "handoff"]
      <4>1. CASE i = n
        <5>1. Admitted(m.call, "handoff")
          BY <3>1, <3>4, <4>1 DEF Prompts, Traces
        <5>2. PICK j \in DOMAIN log : log[j] = [call |-> m.call, kind |-> "handoff"]
          BY <5>1 DEF Admitted
        <5> QED BY <3>1, <4>1, <5>2
      <4>2. CASE i # n
        <5>1. i \in DOMAIN log /\ log'[i] = log[i]
          BY <3>1, <4>2
        <5>2. PICK j \in 1..(i - 1) : log[j] = [call |-> log[i].call, kind |-> "handoff"]
          BY <3>4, <5>1 DEF Prompts, ExecuteFollowsHandoff
        <5>3. j \in DOMAIN log
          BY <3>1, <5>1
        <5> QED BY <3>1, <5>1, <5>2, <5>3
      <4> QED BY <4>1, <4>2
    <3> QED BY <3>3, <3>4 DEF ExecuteFollowsHandoff
  <2> QED BY <1>3, <2>1, <2>2
<1> QED BY <1>8, <1>9, <1>10 DEF Prompts

LEMMA PromptsStep == HandoffInv /\ [Next]_vars => Prompts'
<1> SUFFICES ASSUME Types, Prompts, [Next]_vars PROVE Prompts'
  BY DEF HandoffInv
<1>1. CASE Begin
  BY <1>1, BeginPrompts
<1>2. CASE List
  <2>1. /\ UNCHANGED <<wire, replies, log, call>> /\ pc = "list"
        /\ pc' \in {"idle", "reopen", "state", "note"}
    BY <1>2 DEF List, End, daemon
  <2> QED BY <2>1, Onward DEF Before, Between, Known
<1>3. CASE Reopen
  <2>1. /\ UNCHANGED <<wire, replies, log, call>> /\ pc = "reopen"
        /\ pc' \in {"state", "note"}
    BY <1>3 DEF Reopen
  <2> QED BY <2>1, Onward DEF Before, Between, Known
<1>4. CASE NoteRoute
  <2>1. /\ UNCHANGED <<wire, replies, log, call>> /\ pc = "note"
        /\ pc' \in {"idle", "state"}
    BY <1>4 DEF NoteRoute, End, daemon
  <2> QED BY <2>1, Onward DEF Before, Between, Known
<1>5. CASE CheckState \/ Observe
  <2>1. /\ UNCHANGED <<wire, replies, log, call>> /\ pc \in {"state", "observe"}
        /\ pc' \in {"idle", "observe", "first", "list"}
    BY <1>5 DEF CheckState, Observe, End, daemon
  <2> QED BY <2>1, Onward DEF Before, Between, Known
<1>6. CASE SendFirst
  <2>1. /\ Send("handoff") /\ pc = "first" /\ pc' = "firstSent"
        /\ UNCHANGED <<replies, log, call>>
    BY <1>6 DEF SendFirst, Goto
  <2>2. Unsent(call, "handoff") /\ Unsent(call, "execute")
    BY <2>1 DEF Prompts, Progress, Before
  <2> QED BY <2>1, <2>2, SendPrompts DEF Kinds
<1>7. CASE SendFollowUp
  <2>1. /\ Send("execute") /\ pc = "second" /\ pc' = "secondSent"
        /\ UNCHANGED <<replies, log, call>>
    BY <1>7 DEF SendFollowUp, Goto
  <2>2. Unsent(call, "execute") /\ Admitted(call, "handoff")
    BY <2>1 DEF Prompts, Progress, Between, Known
  <2> QED BY <2>1, <2>2, SendPrompts DEF Kinds
<1>8. CASE FirstAnswered
  <2>1. /\ UNCHANGED <<wire, replies, log, call>> /\ pc = "firstSent"
        /\ pc' \in {"idle", "commit", "second"}
        /\ pc' # "idle" => Reply("handoff", "ok") \in replies
    BY <1>8 DEF FirstAnswered, End, Goto, daemon
  <2>2. Reply("handoff", "ok") \in replies => Admitted(call, "handoff")
    <3>1. /\ Reply("handoff", "ok").call = call /\ Reply("handoff", "ok").kind = "handoff"
          /\ Reply("handoff", "ok").answer = "ok"
      BY DEF Reply
    <3> QED BY <3>1 DEF Prompts, Traces
  <2> QED BY <2>1, <2>2, Onward DEF Before, Between, Known
<1>9. CASE CommitBeads \/ CompareBacklog \/ WriteBacklog \/ Verify
  <2>1. /\ UNCHANGED <<wire, replies, log, call>> /\ pc \in {"commit", "write", "verify"}
        /\ pc' \in {"idle", "write", "verify", "second"}
    BY <1>9 DEF CommitBeads, CompareBacklog, WriteBacklog, Verify, End, Goto, daemon
  <2> QED BY <2>1, Onward DEF Before, Between, Known
<1>10. CASE FollowUpAnswered \/ StopWaiting \/ Broken \/ Crash
  <2>1. UNCHANGED <<wire, replies, log, call>> /\ pc' = "idle"
    BY <1>10 DEF FollowUpAnswered, StopWaiting, Broken, Crash, End, daemon
  <2> QED BY <2>1, Onward DEF Before, Between, Known
<1>11. ASSUME NEW m \in wire, Handle(m) PROVE Prompts'
  <2>1. CASE Admit(m) /\ Answer(m, "ok")
    BY <2>1, HandlePrompts
  <2>2. CASE Answer(m, "refused") /\ UNCHANGED <<session, log>>
    BY <2>2, HandlePrompts
  <2> QED BY <1>11, <2>1, <2>2 DEF Handle
<1>12. ASSUME NEW m \in wire, HandleUnsure(m) PROVE Prompts'
  BY <1>12, HandlePrompts DEF HandleUnsure
<1>13. CASE Close \/ Open \/ Turn \/ Rest \/ Migrate \/ Restore \/ UNCHANGED vars
  <2>1. UNCHANGED <<wire, replies, log, call>> /\ pc' = pc
    BY <1>13 DEF Close, Open, Turn, Rest, Become, Migrate, Restore, daemon, locals, vars
  <2> QED BY <2>1, Onward
<1> QED
  BY <1>1, <1>2, <1>3, <1>4, <1>5, <1>6, <1>7, <1>8, <1>9, <1>10, <1>11, <1>12, <1>13
  DEF Next, Steps

LEMMA AdmittedStays ==
  ASSUME Types, [Next]_vars, NEW c, NEW k, Admitted(c, k)
  PROVE  Admitted(c, k)'
<1>1. CASE log' = log
  BY <1>1 DEF Admitted
<1>2. ASSUME NEW m \in wire, Admit(m) PROVE Admitted(c, k)'
  <2>1. [call |-> m.call, kind |-> m.kind] \in Item
    BY DEF Types, MailType, Item
  <2> QED BY <1>2, <2>1, LogGrows DEF Admit
<1>3. log' = log \/ \E m \in wire : Admit(m)
  <2>1. CASE Begin \/ List \/ Reopen \/ NoteRoute \/ CheckState \/ Observe \/ SendFirst
             \/ FirstAnswered \/ SendFollowUp \/ FollowUpAnswered \/ CommitBeads
    BY <2>1 DEF Begin, List, Reopen, NoteRoute, CheckState, Observe, SendFirst, FirstAnswered,
                SendFollowUp, FollowUpAnswered, CommitBeads, daemon
  <2>2. CASE CompareBacklog \/ WriteBacklog \/ Verify \/ StopWaiting \/ Broken \/ Crash
             \/ Close \/ Open \/ Turn \/ Rest \/ Migrate \/ Restore \/ UNCHANGED vars
    BY <2>2 DEF CompareBacklog, WriteBacklog, Verify, StopWaiting, Broken, Crash, Close, Open,
                Turn, Rest, Become, Migrate, Restore, daemon, vars
  <2>3. CASE \E m \in wire : Handle(m) \/ HandleUnsure(m)
    BY <2>3 DEF Handle, HandleUnsure
  <2> QED BY <2>1, <2>2, <2>3 DEF Next, Steps
<1> QED BY <1>1, <1>2, <1>3

-----------------------------------------------------------------------------
(* The entry, its copies and the switch that can be taken back.             *)
Entries == Copies /\ Switches /\ Recorded /\ Outcome

Settled == pc \in {"second", "secondSent"} \/ result = "admitted"

(* A copy keeps its evidence, in a step of the specification.               *)
LEMMA EvidentStays ==
  ASSUME Types, [Next]_vars, NEW e, Evident(e)
  PROVE  e.evidence > 0 => Admitted(e.evidence, "handoff")'
BY AdmittedStays DEF Evident

(* A step that leaves the entry and its copies alone.                       *)
LEMMA SameEntry ==
  ASSUME HandoffInv, [Next]_vars,
         UNCHANGED <<mode, entry, undo, record, prepared, call>>,
         Observing /\ Settled' => Settled, Outcome'
  PROVE  Entries'
<1>1. Copies'
  BY EvidentStays DEF HandoffInv, Copies, Evident
<1>2. Switches'
  BY DEF HandoffInv, Switches
<1>3. Recorded'
  BY DEF HandoffInv, Recorded, Settled, Observing
<1> QED BY <1>1, <1>2, <1>3 DEF Entries

LEMMA BeginEntry == ASSUME HandoffInv, [Next]_vars, Begin PROVE Entries'
<1>1. /\ UNCHANGED <<mode, entry, undo>> /\ record' = entry /\ prepared' = entry
      /\ pc' = "list" /\ result' = "none" /\ Mine(entry)
  BY DEF Begin, durable
<1>2. Copies'
  BY <1>1, EvidentStays DEF HandoffInv, Copies, Evident
<1>3. Switches'
  BY <1>1 DEF HandoffInv, Switches
<1> QED BY <1>1, <1>2, <1>3 DEF Entries, Recorded, Outcome

LEMMA NoteEntry == ASSUME HandoffInv, [Next]_vars, NoteRoute PROVE Entries'
<1>1. pc = "note" /\ UNCHANGED <<mode, undo>> /\ result = "none"
  BY DEF NoteRoute, HandoffInv, Outcome
<1>2. CASE Mine(entry)
  <2>1. /\ entry' = [record EXCEPT !.route = chosen] /\ record' = entry'
        /\ pc' = "state" /\ UNCHANGED <<call, prepared, result>>
    BY <1>2 DEF NoteRoute
  <2>2. entry'.evidence = record.evidence /\ entry'.provider = record.provider
    BY <2>1 DEF HandoffInv, Types, LocalType, Entry
  <2>3. Copies'
    BY <1>1, <2>1, <2>2, EvidentStays DEF HandoffInv, Copies, Evident
  <2>4. Switches'
    BY <1>1, <1>2, <2>1, <2>2 DEF HandoffInv, Switches, Mine
  <2> QED BY <1>1, <2>1, <2>3, <2>4 DEF Entries, Recorded, Outcome
<1>3. CASE ~Mine(entry)
  <2>1. UNCHANGED <<mode, entry, undo, record, prepared, call>> /\ pc' = "idle" /\ result' = "error"
    BY <1>1, <1>3 DEF NoteRoute, End
  <2> QED BY <2>1, SameEntry DEF Settled, Outcome
<1> QED BY <1>2, <1>3

LEMMA CheckEntry == ASSUME HandoffInv, [Next]_vars, CheckState PROVE Entries'
<1>1. /\ UNCHANGED <<mode, entry, undo, record, call>> /\ pc = "state" /\ result = "none"
      /\ prepared' \in {prepared, record} /\ pc' \in {"idle", "observe", "first"}
      /\ result' \in {"none", "error"} /\ (pc' # "idle" => result' = "none")
  BY DEF CheckState, End, durable, HandoffInv, Outcome
<1>2. Copies'
  BY <1>1, EvidentStays DEF HandoffInv, Copies, Evident
<1>3. Switches'
  BY <1>1 DEF HandoffInv, Switches
<1> QED BY <1>1, <1>2, <1>3 DEF Entries, Recorded, Outcome

(* The evidence is written, or somebody has changed the entry.              *)
LEMMA CommitEntry ==
  ASSUME HandoffInv, [Next]_vars, CommitBeads \/ WriteBacklog
  PROVE  Entries'
<1>1. /\ UNCHANGED <<mode, undo, record, prepared, call>> /\ pc \in {"commit", "write"}
      /\ result = "none" /\ entry' \in {entry, Target}
      /\ entry' = Target => Mine(entry) \/ entry' = entry
      /\ \/ pc' = "verify" /\ result' = result
         \/ pc' = "idle" /\ result' = "callback"
  BY DEF CommitBeads, WriteBacklog, Goto, End, HandoffInv, Outcome, Switches
<1>2. /\ Target.evidence = call /\ Target.provider = prepared.provider
  BY DEF Target, HandoffInv, Types, LocalType, Entry
<1>3. Admitted(call, "handoff")
  BY <1>1 DEF HandoffInv, Prompts, Progress, Known
<1>4. Copies'
  <2>1. Evident(entry)'
    <3>1. CASE entry' = entry
      BY <3>1, EvidentStays DEF HandoffInv, Copies, Evident
    <3>2. CASE entry' = Target
      <4>1. Admitted(call, "handoff")'
        BY <1>1, <1>3, AdmittedStays DEF HandoffInv
      <4>2. entry'.evidence = call
        BY <1>2, <3>2
      <4> QED BY <1>1, <4>1, <4>2 DEF Evident, Admitted
    <3> QED BY <1>1, <3>1, <3>2
  <2>2. Evident(record)' /\ Evident(prepared)'
    BY <1>1, EvidentStays DEF HandoffInv, Copies, Evident
  <2>3. (undo # NoUndo => Evident(undo.before) /\ Evident(undo.after))'
    BY <1>1, EvidentStays DEF HandoffInv, Copies, Evident
  <2> QED BY <2>1, <2>2, <2>3 DEF Copies
<1>5. Switches'
  BY <1>1 DEF HandoffInv, Switches, Mine
<1> QED BY <1>1, <1>4, <1>5 DEF Entries, Recorded, Outcome

LEMMA VerifyEntry == ASSUME HandoffInv, [Next]_vars, Verify PROVE Entries'
<1>1. /\ UNCHANGED <<mode, entry, undo, record, prepared, call>> /\ result = "none"
      /\ \/ pc' = "second" /\ result' = result /\ entry = Target
         \/ pc' = "idle" /\ result' = "callback"
  BY DEF Verify, Goto, End, durable, HandoffInv, Outcome
<1>2. /\ Target.evidence = call /\ Target.provider = prepared.provider
  BY DEF Target, HandoffInv, Types, LocalType, Entry
<1>3. Copies'
  BY <1>1, EvidentStays DEF HandoffInv, Copies, Evident
<1>4. Switches'
  BY <1>1 DEF HandoffInv, Switches
<1>5. Recorded'
  <2>1. entry = Target => Mine(entry)
    BY <1>2 DEF HandoffInv, Switches, Mine
  <2> QED BY <1>1, <1>2, <2>1 DEF HandoffInv, Switches, Recorded
<1> QED BY <1>1, <1>3, <1>4, <1>5 DEF Entries, Outcome

LEMMA MigrateEntry == ASSUME HandoffInv, [Next]_vars, Migrate PROVE Entries'
<1>1. /\ UNCHANGED <<mode, record, prepared, call, pc, result>>
      /\ mode = "beads" /\ Mine(entry) /\ undo = NoUndo
      /\ undo' = [before |-> entry, after |-> entry']
  BY DEF Migrate, locals
<1>2. PICK r \in {entry.route, session.route} \ {0} :
        entry' = [Other(entry) EXCEPT !.route = r]
  BY DEF Migrate
<1>3. entry'.evidence = entry.evidence /\ entry'.provider = "other"
  BY <1>2 DEF Other, HandoffInv, Types, StoreType, Entry
<1>4. undo'.before = entry /\ undo'.after = entry'
  BY <1>1
<1>5. Copies'
  BY <1>1, <1>3, <1>4, EvidentStays DEF HandoffInv, Copies, Evident
<1>6. Switches'
  BY <1>1, <1>3 DEF HandoffInv, Switches, Mine
<1>7. Recorded'
  BY <1>1, <1>3, <1>4 DEF HandoffInv, Recorded, Observing, Mine
<1> QED BY <1>1, <1>5, <1>6, <1>7 DEF Entries, Outcome, HandoffInv

LEMMA RestoreEntry == ASSUME HandoffInv, [Next]_vars, Restore PROVE Entries'
<1>1. /\ UNCHANGED <<mode, record, prepared, call, pc, result>>
      /\ undo # NoUndo /\ entry' = undo.before /\ undo' = NoUndo
  BY DEF Restore, locals
<1>2. Copies'
  BY <1>1, EvidentStays DEF HandoffInv, Copies, Evident
<1>3. Switches'
  BY <1>1 DEF HandoffInv, Switches
<1>4. Recorded'
  BY <1>1 DEF HandoffInv, Recorded, Observing
<1> QED BY <1>1, <1>2, <1>3, <1>4 DEF Entries, Outcome, HandoffInv

LEMMA EntriesStep == HandoffInv /\ [Next]_vars => Entries'
<1> SUFFICES ASSUME HandoffInv, [Next]_vars PROVE Entries'
  OBVIOUS
<1>1. CASE List \/ Reopen \/ Observe \/ SendFirst \/ SendFollowUp \/ CompareBacklog
  <2>1. /\ UNCHANGED <<mode, entry, undo, record, prepared, call>> /\ result = "none"
        /\ pc' # "idle" => result' = "none"
        /\ result' # "admitted" /\ (pc' = "secondSent" => pc = "second") /\ pc' # "second"
    BY <1>1 DEF List, Reopen, Observe, SendFirst, SendFollowUp, CompareBacklog, End, Goto,
                durable, HandoffInv, Outcome
  <2> QED BY <2>1, SameEntry DEF Settled, Outcome
<1>2. CASE FirstAnswered \/ FollowUpAnswered
  <2>1. /\ UNCHANGED <<mode, entry, undo, record, prepared, call>> /\ result = "none"
        /\ pc' # "idle" => result' = "none"
        /\ result' = "admitted" => pc = "secondSent"
        /\ pc' = "second" => ~Observing
        /\ pc' # "secondSent"
    BY <1>2 DEF FirstAnswered, FollowUpAnswered, End, Goto, durable, HandoffInv, Outcome
  <2> QED BY <2>1, SameEntry DEF Settled, Outcome
<1>3. CASE StopWaiting \/ Broken \/ Crash
  <2>1. /\ UNCHANGED <<mode, entry, undo, record, prepared, call>>
        /\ pc' = "idle" /\ result' # "admitted"
    BY <1>3 DEF StopWaiting, Broken, Crash, End, durable
  <2> QED BY <2>1, SameEntry DEF Settled, Outcome
<1>4. CASE (\E m \in wire : Handle(m) \/ HandleUnsure(m)) \/ Close \/ Open \/ Turn \/ Rest
           \/ UNCHANGED vars
  <2>1. UNCHANGED <<mode, entry, undo, record, prepared, call, pc, result>>
    BY <1>4 DEF Handle, HandleUnsure, Answer, Close, Open, Turn, Rest, Become, durable, locals, vars
  <2> QED BY <2>1, SameEntry DEF Settled, Outcome, HandoffInv
<1> QED
  BY <1>1, <1>2, <1>3, <1>4, BeginEntry, NoteEntry, CheckEntry, CommitEntry, VerifyEntry,
     MigrateEntry, RestoreEntry DEF Next, Steps

-----------------------------------------------------------------------------
(* What is reported when the invocation ends, and that it stays so.         *)
LEMMA AnswerTells ==
  ASSUME Prompts, NEW k, NEW a, Reply(k, a) \in replies
  PROVE  /\ ~Underway(call, k)
         /\ a = "ok" => Admitted(call, k)
         /\ a = "refused" => ~Admitted(call, k)
<1>1. Reply(k, a).call = call /\ Reply(k, a).kind = k /\ Reply(k, a).answer = a
  BY DEF Reply
<1> QED BY <1>1 DEF Prompts, Traces

Honest ==
  /\ result = "admitted" => Admitted(call, "handoff") /\ Admitted(call, "execute")
  /\ result = "error" => /\ ~Admitted(call, "handoff") /\ ~Underway(call, "handoff")
                         /\ ~Admitted(call, "execute") /\ ~Underway(call, "execute")
  /\ result \in {"callback", "follow-up-rejected"} =>
       /\ Admitted(call, "handoff")
       /\ ~Admitted(call, "execute") /\ ~Underway(call, "execute")
  /\ result = "first-uncertain" => ~Admitted(call, "execute") /\ ~Underway(call, "execute")
  /\ result = "follow-up-uncertain" => Admitted(call, "handoff")

LEMMA ReportHonest == ReportTruthful => Honest
BY DEF Honest, ReportTruthful

(* An end in a step that leaves the prompts alone.                          *)
LEMMA Ending ==
  ASSUME HandoffInv, UNCHANGED <<wire, replies, log, call>>,
         \/ result' \in {"none", "dead"}
         \/ result' = "error" /\ pc \in Before
         \/ result' = "error" /\ pc = "firstSent" /\ Reply("handoff", "refused") \in replies
         \/ result' = "first-uncertain" /\ pc = "firstSent"
         \/ result' \in {"callback", "follow-up-rejected"} /\ pc \in Between \cap Known
         \/ /\ result' = "follow-up-rejected" /\ pc = "secondSent"
            /\ Reply("execute", "refused") \in replies
         \/ result' = "follow-up-uncertain" /\ pc = "secondSent"
         \/ /\ result' = "admitted" /\ pc = "secondSent"
            /\ Reply("execute", "ok") \in replies
  PROVE  Honest'
<1>1. \A c, k : /\ Admitted(c, k)' <=> Admitted(c, k)
                /\ Underway(c, k)' <=> Underway(c, k)
  BY SameTraces
<1>2. /\ pc \in Before => Unsent(call, "handoff") /\ Unsent(call, "execute")
      /\ pc \in Between => Unsent(call, "execute")
      /\ pc \in Known => Admitted(call, "handoff")
      /\ pc = "firstSent" => pc \in Between
      /\ pc = "secondSent" => pc \in Known
  BY DEF HandoffInv, Prompts, Progress, Between, Known
<1>3. /\ Reply("handoff", "refused") \in replies =>
           ~Underway(call, "handoff") /\ ~Admitted(call, "handoff")
      /\ Reply("execute", "refused") \in replies =>
           ~Underway(call, "execute") /\ ~Admitted(call, "execute")
      /\ Reply("execute", "ok") \in replies => Admitted(call, "execute")
  BY AnswerTells DEF HandoffInv
<1>4. \A k : Unsent(call, k) => ~Admitted(call, k) /\ ~Underway(call, k)
  BY DEF Unsent
<1> QED BY <1>1, <1>2, <1>3, <1>4 DEF Honest

LEMMA HonestStep == HandoffInv /\ [Next]_vars => Honest'
<1> SUFFICES ASSUME HandoffInv, [Next]_vars PROVE Honest'
  OBVIOUS
<1>1. Honest /\ Outcome
  BY ReportHonest DEF HandoffInv
<1>2. CASE Begin
  BY <1>2 DEF Begin, Honest
<1>3. CASE List \/ Reopen \/ NoteRoute \/ CheckState \/ Observe \/ SendFirst
  <2>1. /\ pc \in Before /\ result = "none" /\ call' = call
        /\ result' \in {"none", "error"}
        /\ result' = "error" => UNCHANGED <<wire, replies, log>>
    BY <1>1, <1>3 DEF List, Reopen, NoteRoute, CheckState, Observe, SendFirst, End, Goto, daemon,
                      Before, Outcome
  <2>2. CASE result' = "none"
    BY <2>2 DEF Honest
  <2> QED BY <2>1, <2>2, Ending
<1>4. CASE FirstAnswered
  <2>1. /\ pc = "firstSent" /\ result = "none" /\ UNCHANGED <<wire, replies, log, call>>
        /\ \/ result' = result
           \/ Reply("handoff", "refused") \in replies /\ result' = "error"
           \/ result' = "first-uncertain"
    BY <1>1, <1>4 DEF FirstAnswered, End, Goto, daemon, Outcome
  <2> QED BY <2>1, Ending
<1>5. CASE CommitBeads \/ CompareBacklog \/ WriteBacklog \/ Verify
  <2>1. /\ pc \in {"commit", "write", "verify"} /\ result = "none"
        /\ UNCHANGED <<wire, replies, log, call>> /\ result' \in {"none", "callback"}
    BY <1>1, <1>5 DEF CommitBeads, CompareBacklog, WriteBacklog, Verify, End, Goto, daemon, Outcome
  <2> QED BY <2>1, Ending DEF Between, Known
<1>6. CASE SendFollowUp
  BY <1>1, <1>6 DEF SendFollowUp, Goto, Outcome, Honest
<1>7. CASE FollowUpAnswered
  <2>1. /\ pc = "secondSent" /\ UNCHANGED <<wire, replies, log, call>>
        /\ \/ Reply("execute", "ok") \in replies /\ result' = "admitted"
           \/ Reply("execute", "refused") \in replies /\ result' = "follow-up-rejected"
           \/ result' = "follow-up-uncertain"
    BY <1>7 DEF FollowUpAnswered, End, daemon
  <2> QED BY <2>1, Ending
<1>8. CASE StopWaiting \/ Crash
  <2>1. /\ UNCHANGED <<wire, replies, log, call>>
        /\ \/ pc = "firstSent" /\ result' = "first-uncertain"
           \/ pc = "secondSent" /\ result' = "follow-up-uncertain"
           \/ result' = "dead"
    BY <1>8 DEF StopWaiting, Crash, End, daemon
  <2> QED BY <2>1, Ending
<1>9. CASE Broken
  <2>1. /\ UNCHANGED <<wire, replies, log, call>>
        /\ \/ pc \in {"list", "reopen", "note", "state", "observe", "first"} /\ result' = "error"
           \/ pc \in {"commit", "write", "verify"} /\ result' = "callback"
           \/ pc = "second" /\ result' = "follow-up-rejected"
    BY <1>9 DEF Broken, End, daemon
  <2> QED BY <2>1, Ending DEF Before, Between, Known
<1>10. ASSUME NEW m \in wire, Handle(m) \/ HandleUnsure(m) PROVE Honest'
  <2>1. /\ UNCHANGED <<call, result>> /\ wire' = wire \ {m} /\ (Admit(m) \/ log' = log)
    BY <1>10 DEF Handle, HandleUnsure, Answer, locals
  <2>2. \A k : Admitted(call, k) => Admitted(call, k)'
    BY <2>1, AdmittedStays DEF HandoffInv
  <2>3. \A k : ~Underway(call, k) => ~Underway(call, k)'
    BY <2>1 DEF Underway
  <2>4. ASSUME NEW k, ~Underway(call, k), ~Admitted(call, k) PROVE ~Admitted(call, k)'
    <3>1. [call |-> m.call, kind |-> m.kind] \in Item
      BY DEF HandoffInv, Types, MailType, Item
    <3>2. ~(m.call = call /\ m.kind = k)
      BY <2>4 DEF Underway
    <3>3. CASE Admit(m)
      BY <2>1, <2>4, <3>1, <3>2, <3>3, LogGrows DEF Admit, HandoffInv
    <3>4. CASE log' = log
      BY <2>1, <2>4, <3>4 DEF Admitted
    <3> QED BY <2>1, <3>3, <3>4
  <2> QED BY <1>1, <2>1, <2>2, <2>3, <2>4 DEF Honest
<1>11. CASE Close \/ Open \/ Turn \/ Rest \/ Migrate \/ Restore \/ UNCHANGED vars
  <2>1. UNCHANGED <<wire, replies, log, call, result>>
    BY <1>11 DEF Close, Open, Turn, Rest, Become, Migrate, Restore, daemon, locals, vars
  <2> QED BY <1>1, <2>1, SameTraces DEF Honest
<1> QED
  BY <1>2, <1>3, <1>4, <1>5, <1>6, <1>7, <1>8, <1>9, <1>10, <1>11 DEF Next, Steps

-----------------------------------------------------------------------------
LEMMA Initially == Init => HandoffInv
<1> SUFFICES ASSUME Init PROVE HandoffInv
  OBVIOUS
<1>1. Types
  BY Typed
<1>2. wire = {} /\ replies = {} /\ log = <<>> /\ pc = "idle" /\ result = "none"
  BY DEF Init
<1>3. Prompts
  BY <1>2 DEF Prompts, Traces, Progress, ExecuteFollowsHandoff, Before, Between, Known
<1>4. /\ entry = [provider |-> "own", route |-> 1, evidence |-> 0]
      /\ record = entry /\ prepared = entry
      /\ undo \in {NoUndo, [before |-> Other(entry), after |-> entry]}
      /\ undo # NoUndo => mode = "published"
  BY DEF Init
<1>5. /\ Other(entry).evidence = 0 /\ Other(entry).provider = "other"
  BY <1>4 DEF Other
<1>6. undo # NoUndo => undo.before = Other(entry) /\ undo.after = entry
  BY <1>4
<1>7. Copies
  BY <1>4, <1>5, <1>6 DEF Copies, Evident
<1>8. Switches
  BY <1>4, <1>5, <1>6 DEF Switches, Mine
<1>9. Recorded /\ Outcome /\ ReportTruthful
  BY <1>2 DEF Recorded, Outcome, ReportTruthful
<1> QED BY <1>1, <1>3, <1>7, <1>8, <1>9 DEF HandoffInv

LEMMA Inductive == HandoffInv /\ [Next]_vars => HandoffInv'
<1> SUFFICES ASSUME HandoffInv, [Next]_vars PROVE HandoffInv'
  OBVIOUS
<1>1. Types' /\ Prompts' /\ Entries' /\ Honest'
  BY TypeStep, PromptsStep, EntriesStep, HonestStep DEF HandoffInv
<1>2. ReportTruthful'
  BY <1>1 DEF Entries, Honest, Recorded, ReportTruthful
<1> QED BY <1>1, <1>2 DEF HandoffInv, Entries

LEMMA Always == Spec => []HandoffInv
BY Initially, Inductive, PTL DEF Spec

(* No execute is admitted before its handoff and no prompt twice, however   *)
(* late the daemon acts (admitWorkflowChain, deliverHandoff).               *)
THEOREM Ordered == Spec => []ExecuteFollowsHandoff
<1>1. HandoffInv => ExecuteFollowsHandoff
  BY DEF HandoffInv, Prompts
<1> QED BY <1>1, Always, PTL

(* What the invocation reports is so, now and later.                        *)
THEOREM Truthful == Spec => []ReportTruthful
<1>1. HandoffInv => ReportTruthful
  BY DEF HandoffInv
<1> QED BY <1>1, Always, PTL

(* Who writes the entry.                                                    *)
LEMMA Writers ==
  ASSUME [Next]_vars, entry' # entry
  PROVE  \/ NoteRoute \/ CommitBeads \/ WriteBacklog
         \/ (Migrate \/ Restore) /\ pc' = pc
<1>1. CASE Begin \/ List \/ Reopen \/ CheckState \/ Observe \/ SendFirst \/ FirstAnswered
           \/ SendFollowUp \/ FollowUpAnswered \/ CompareBacklog \/ Verify
  BY <1>1 DEF Begin, List, Reopen, CheckState, Observe, SendFirst, FirstAnswered, SendFollowUp,
              FollowUpAnswered, CompareBacklog, Verify, durable
<1>2. CASE \/ StopWaiting \/ Broken \/ Crash \/ Close \/ Open \/ Turn \/ Rest \/ UNCHANGED vars
           \/ \E m \in wire : Handle(m) \/ HandleUnsure(m)
  BY <1>2 DEF StopWaiting, Broken, Crash, Handle, HandleUnsure, Answer, Close, Open, Turn, Rest,
              Become, vars, durable
<1>3. CASE Migrate \/ Restore
  BY <1>3 DEF Migrate, Restore, locals
<1> QED BY <1>1, <1>2, <1>3 DEF Next, Steps

(* Evidence is written for an admitted prompt only (afterFirst).            *)
THEOREM EvidenceLast == Spec => EvidenceAfterAdmission
<1>1. ASSUME HandoffInv, [Next]_vars
      PROVE  [entry'.evidence > entry.evidence => Admitted(entry'.evidence, "handoff")]_vars
  <2> SUFFICES ASSUME entry'.evidence > entry.evidence
               PROVE  Admitted(entry'.evidence, "handoff")
    OBVIOUS
  <2>1. /\ entry \in Entry /\ record \in Entry /\ prepared \in Entry
        /\ entry.evidence \in Nat /\ record.evidence \in Nat
        /\ undo # NoUndo => undo.before \in Entry /\ undo.before.evidence \in Nat
    BY <1>1, HandoffAssumption DEF HandoffInv, Types, StoreType, LocalType, Entry
  <2>2. entry' # entry
    BY <2>1
  <2>3. CASE NoteRoute
    <3>1. entry' = [record EXCEPT !.route = chosen]
      BY <2>2, <2>3 DEF NoteRoute
    <3>2. entry'.evidence = record.evidence
      BY <2>1, <3>1 DEF Entry
    <3> QED BY <1>1, <2>1, <3>2 DEF HandoffInv, Copies, Evident
  <2>4. CASE CommitBeads \/ WriteBacklog
    <3>1. entry' = Target /\ pc \in {"commit", "write"}
      BY <2>2, <2>4 DEF CommitBeads, WriteBacklog
    <3>2. entry'.evidence = call
      BY <2>1, <3>1 DEF Target, Entry
    <3> QED BY <1>1, <3>1, <3>2 DEF HandoffInv, Prompts, Progress, Known
  <2>5. CASE Migrate
    <3>1. PICK r \in {entry.route, session.route} \ {0} :
            entry' = [Other(entry) EXCEPT !.route = r]
      BY <2>5 DEF Migrate
    <3>2. entry'.evidence = entry.evidence
      BY <2>1, <3>1 DEF Other, Entry
    <3> QED BY <2>1, <3>2
  <2>6. CASE Restore
    BY <1>1, <2>1, <2>6 DEF Restore, HandoffInv, Copies, Evident
  <2> QED BY <2>2, <2>3, <2>4, <2>5, <2>6, <1>1, Writers
<1> QED BY <1>1, Always, PTL DEF Spec, EvidenceAfterAdmission

(* The handoff never overwrites an entry of the other provider              *)
(* (writeEpisodeOwnership's binding check).                                 *)
THEOREM SwitchStays == Spec => SwitchKept
<1>1. ASSUME HandoffInv, [Next]_vars
      PROVE  [entry' # entry /\ pc' # pc => Mine(entry) /\ entry'.provider = entry.provider]_vars
  <2> SUFFICES ASSUME entry' # entry, pc' # pc
               PROVE  Mine(entry) /\ entry'.provider = entry.provider
    OBVIOUS
  <2>1. record \in Entry /\ prepared \in Entry /\ Mine(record) /\ Mine(prepared)
    BY <1>1 DEF HandoffInv, Types, LocalType, Switches
  <2>2. CASE NoteRoute
    <3>1. Mine(entry) /\ entry' = [record EXCEPT !.route = chosen]
      BY <2>2 DEF NoteRoute
    <3> QED BY <2>1, <3>1 DEF Mine, Entry
  <2>3. CASE CommitBeads \/ WriteBacklog
    <3>1. entry' = Target /\ (entry = prepared \/ Mine(entry))
      BY <2>3 DEF CommitBeads, WriteBacklog
    <3> QED BY <2>1, <3>1 DEF Mine, Entry, Target
  <2> QED BY <2>2, <2>3, <1>1, Writers
<1> QED BY <1>1, Always, PTL DEF Spec, SwitchKept

-----------------------------------------------------------------------------
(* An invocation that nothing has interfered with.                          *)
(* The only prompt of the invocation is under way to an idle session, or it *)
(* is answered and was admitted.                                            *)
Delivering(k) ==
  /\ wire \subseteq {Prompt(k)}
  /\ wire # {} /\ k = "handoff" => ~session.busy
  /\ \A r \in replies : r.call = call /\ r.kind = k => r.answer = "ok"

(* What an invocation knows that nothing has interfered with.               *)
Calm ==
  /\ pc = "idle" /\ call > 0 => result = "admitted"
  /\ pc # "idle" => Mine(entry)
  /\ pc \in Before => wire = {} /\ ~session.busy /\ entry = record
  /\ pc \in Before /\ round = 2 /\ Observing =>
       /\ pc \in {"list", "state", "first"}
       /\ prepared = record /\ session.route = record.route /\ record.route # 0
  /\ pc \notin {"idle", "list", "reopen"} => chosen = session.route
  /\ pc \in {"state", "observe", "first"} => record.route = chosen
  /\ pc = "observe" => prepared = record
  /\ pc = "first" => round = 2
  /\ pc \in {"firstSent", "commit"} /\ Observing => entry = prepared
  /\ pc = "verify" => entry = Target
  /\ pc = "firstSent" => Delivering("handoff")
  /\ pc \in {"commit", "write", "verify", "second"} => wire = {}
  /\ pc = "secondSent" => Delivering("execute")

CalmInv == calm => Calm

LEMMA CalmStart == Init => CalmInv
BY DEF Init, CalmInv, Calm, Before

LEMMA CalmBegin == ASSUME HandoffInv, Begin PROVE CalmInv'
<1> SUFFICES ASSUME calm' PROVE Calm'
  BY DEF CalmInv
<1>1. wire = {} /\ ~session.busy
  BY DEF Begin
<1>2. /\ UNCHANGED <<entry, mode, wire, session>>
      /\ pc' = "list" /\ Mine(entry) /\ record' = entry
      /\ round' = IF Observing THEN 1 ELSE 2
  BY DEF Begin, durable, daemon
<1> QED BY <1>1, <1>2 DEF Calm, Before, Mine, Observing

(* The steps before the first prompt.                                       *)
LEMMA CalmBefore ==
  ASSUME HandoffInv, Calm, List \/ Reopen \/ NoteRoute \/ CheckState \/ Observe
  PROVE  Calm'
<1>0. /\ record \in Entry /\ entry \in Entry /\ chosen \in Nat /\ routes \in Nat
      /\ session \in [route : 0..routes, busy : BOOLEAN]
      /\ pc \notin {"idle", "list", "reopen"} => chosen > 0
      /\ round \in {1, 2}
      /\ Mine(record)
  BY DEF HandoffInv, Types, StoreType, LocalType, DaemonType, Switches
<1>1. CASE List
  BY <1>0, <1>1 DEF List, End, Calm, Before, durable, daemon, Undisturbed, Observing, Mine
<1>2. CASE Reopen
  BY <1>0, <1>2 DEF Reopen, Resident, Calm, Before, durable, Undisturbed, Observing, Mine
<1>3. CASE NoteRoute
  BY <1>0, <1>3 DEF NoteRoute, End, Calm, Before, daemon, Undisturbed, Observing, Mine, Entry
<1>4. CASE CheckState
  BY <1>0, <1>4 DEF CheckState, End, Calm, Before, durable, daemon, Undisturbed, Observing, Mine
<1>5. CASE Observe
  BY <1>0, <1>5 DEF Observe, End, Calm, Before, durable, daemon, Undisturbed, Observing, Mine
<1> QED BY <1>1, <1>2, <1>3, <1>4, <1>5

(* Sending, the answers and the commit between them.                        *)
LEMMA CalmSend ==
  ASSUME HandoffInv, Calm, SendFirst \/ SendFollowUp
  PROVE  Calm'
<1>1. CASE SendFirst
  <2>1. \A r \in replies : ~(r.call = call /\ r.kind = "handoff")
    BY <1>1 DEF SendFirst, HandoffInv, Prompts, Progress, Unsent, Before
  <2>2. Observing => entry = prepared
    BY <1>1 DEF SendFirst, Calm, Before
  <2> QED BY <1>1, <2>1, <2>2 DEF SendFirst, Send, Goto, Calm, Before, durable, Undisturbed, Observing, Mine, Delivering, Prompt
<1>2. CASE SendFollowUp
  <2>1. \A r \in replies : ~(r.call = call /\ r.kind = "execute")
    BY <1>2 DEF SendFollowUp, HandoffInv, Prompts, Progress, Unsent, Between
  <2> QED BY <1>2, <2>1 DEF SendFollowUp, Send, Goto, Calm, Before, durable, Undisturbed, Observing, Mine, Delivering, Prompt
<1> QED BY <1>1, <1>2

LEMMA CalmAnswered ==
  ASSUME HandoffInv, Calm, FirstAnswered \/ FollowUpAnswered
  PROVE  Calm'
<1>1. CASE FirstAnswered
  <2>1. /\ \A a : Reply("handoff", a) \in replies => a = "ok"
        /\ Reply("handoff", "ok") \in replies => wire = {}
    <3>1. ASSUME NEW a, Reply("handoff", a) \in replies PROVE a = "ok" /\ wire = {}
      <4>1. Reply("handoff", a).call = call /\ Reply("handoff", a).kind = "handoff"
            /\ Reply("handoff", a).answer = a
        BY DEF Reply
      <4>2. ~Underway(call, "handoff")
        BY <3>1, AnswerTells DEF HandoffInv
      <4>3. Delivering("handoff")
        BY <1>1 DEF FirstAnswered, Calm
      <4>4. Prompt("handoff").call = call /\ Prompt("handoff").kind = "handoff"
        BY DEF Prompt
      <4> QED BY <3>1, <4>1, <4>2, <4>3, <4>4 DEF Delivering, Underway
    <3> QED BY <3>1
  <2>2. /\ pc = "firstSent" /\ wire = {} /\ pc' = IF Observing THEN "commit" ELSE "second"
        /\ UNCHANGED <<durable, daemon, call, round, record, prepared, chosen, result>>
    BY <1>1, <2>1 DEF FirstAnswered, Goto
  <2> QED BY <2>2 DEF Calm, Before, durable, daemon, Mine, Observing
<1>2. CASE FollowUpAnswered
  <2>1. \A a : Reply("execute", a) \in replies => a = "ok"
    <3>1. ASSUME NEW a, Reply("execute", a) \in replies PROVE a = "ok"
      <4>1. Reply("execute", a).call = call /\ Reply("execute", a).kind = "execute"
            /\ Reply("execute", a).answer = a
        BY DEF Reply
      <4> QED BY <1>2, <3>1, <4>1 DEF FollowUpAnswered, Calm, Delivering
    <3> QED BY <3>1
  <2>2. pc' = "idle" /\ result' = "admitted"
    BY <1>2, <2>1 DEF FollowUpAnswered, End
  <2> QED BY <2>2 DEF Calm, Before
<1> QED BY <1>1, <1>2

LEMMA CalmCommit ==
  ASSUME HandoffInv, Calm, CommitBeads \/ CompareBacklog \/ WriteBacklog \/ Verify
  PROVE  Calm'
<1>0. Mine(prepared) /\ prepared \in Entry /\ Mine(Target) /\ (mode = "published" \/ mode = "beads" => Observing)
  BY DEF HandoffInv, Types, LocalType, Switches, Target, Mine, Entry, Observing
<1> HIDE DEF Mine
<1>1. CASE CommitBeads
  BY <1>0, <1>1 DEF CommitBeads, Goto, End, Calm, Before, daemon, Undisturbed, Target
<1>2. CASE CompareBacklog
  BY <1>0, <1>2 DEF CompareBacklog, Goto, End, Calm, Before, daemon, durable, Undisturbed, Mine
<1>3. CASE WriteBacklog
  BY <1>0, <1>3 DEF WriteBacklog, Goto, End, Calm, Before, daemon, Undisturbed, Target
<1>4. CASE Verify
  BY <1>0, <1>4 DEF Verify, Goto, End, Calm, Before, daemon, durable, Undisturbed, Mine
<1> QED BY <1>1, <1>2, <1>3, <1>4

LEMMA CalmHandle ==
  ASSUME HandoffInv, Calm, NEW m \in wire, Handle(m)
  PROVE  Calm'
<1>1. /\ UNCHANGED <<durable, locals>> /\ wire' = wire \ {m}
      /\ session'.route = session.route
  BY DEF Handle, Answer, Admit, HandoffInv, Types, DaemonType
<1>2. pc = "idle" \/ pc \in {"firstSent", "secondSent"}
  BY DEF Calm, HandoffInv, Types, LocalType, Labels, Before, Between
<1>3. ASSUME NEW k \in {"handoff", "execute"}, pc = IF k = "handoff" THEN "firstSent" ELSE "secondSent"
      PROVE  Delivering(k)'
  <2>1. Delivering(k) /\ m = Prompt(k)
    BY <1>3 DEF Calm, Delivering
  <2>2. m.call = call /\ m.kind = k /\ m.route = session.route
    BY <1>3, <2>1 DEF Calm, Prompt
  <2>3. Admits(m)
    BY <2>1, <2>2 DEF Admits, Delivering
  <2>4. replies' = replies \cup {[call |-> m.call, kind |-> m.kind, answer |-> "ok"]}
    BY <2>3 DEF Handle, Answer
  <2>5. wire' = {}
    BY <1>1, <2>1 DEF Delivering
  <2> QED BY <1>1, <2>1, <2>4, <2>5 DEF Delivering, locals
<1> QED BY <1>1, <1>2, <1>3 DEF Calm, Before, durable, locals, Mine, Observing

LEMMA CalmStep == HandoffInv /\ CalmInv /\ [Next]_vars => CalmInv'
<1> SUFFICES ASSUME HandoffInv, CalmInv, [Next]_vars, calm' PROVE Calm'
  BY DEF CalmInv
<1>1. CASE Begin
  BY <1>1, CalmBegin DEF CalmInv
<1>2. CASE List \/ Reopen \/ NoteRoute \/ CheckState \/ Observe
  <2>1. calm
    BY <1>2 DEF List, Reopen, NoteRoute, CheckState, Observe, Undisturbed
  <2> QED BY <1>2, <2>1, CalmBefore DEF CalmInv
<1>3. CASE SendFirst \/ SendFollowUp
  BY <1>3, CalmSend DEF CalmInv, SendFirst, SendFollowUp, Undisturbed
<1>4. CASE FirstAnswered \/ FollowUpAnswered
  BY <1>4, CalmAnswered DEF CalmInv, FirstAnswered, FollowUpAnswered, Undisturbed
<1>5. CASE CommitBeads \/ CompareBacklog \/ WriteBacklog \/ Verify
  <2>1. calm
    BY <1>5 DEF CommitBeads, CompareBacklog, WriteBacklog, Verify, Undisturbed
  <2> QED BY <1>5, <2>1, CalmCommit DEF CalmInv
<1>6. CASE \/ StopWaiting \/ Broken \/ Crash \/ Close \/ Open \/ Turn \/ Migrate \/ Restore
           \/ \E m \in wire : HandleUnsure(m)
  BY <1>6 DEF StopWaiting, Broken, Crash, Close, Open, Turn, Migrate, Restore, HandleUnsure, Trouble
<1>7. ASSUME NEW m \in wire, Handle(m) PROVE Calm'
  BY <1>7, CalmHandle DEF CalmInv, Handle, Undisturbed
<1>8. CASE Rest
  <2>1. /\ calm /\ UNCHANGED <<durable, wire, replies, locals>>
        /\ session' = [session EXCEPT !.busy = FALSE]
    BY <1>8 DEF Rest, Become, Undisturbed
  <2>2. session'.route = session.route /\ ~session'.busy
    BY <2>1 DEF HandoffInv, Types, DaemonType
  <2> QED BY <2>1, <2>2 DEF CalmInv, Calm, Before, durable, locals, Mine, Observing, Delivering, Prompt, Target
<1>9. CASE UNCHANGED vars
  BY <1>9 DEF vars, CalmInv, Calm, Before, durable, daemon, locals, Mine, Observing, Delivering, Prompt, Target
<1> QED
  BY <1>1, <1>2, <1>3, <1>4, <1>5, <1>6, <1>7, <1>8, <1>9 DEF Next, Steps

(* An invocation that nothing interferes with is admitted, whether or not   *)
(* the session was resident and the recorded route current (handoffTask-    *)
(* Episode, reopenIfNeeded, deliverHandoff): the route it sends to is the   *)
(* session's, and the entry is as it read or wrote it.                      *)
THEOREM CalmIsAdmitted == Spec => []CalmAdmitted
<1>1. HandoffInv /\ CalmInv => CalmAdmitted
  BY DEF CalmInv, Calm, CalmAdmitted
<1>2. Spec => []CalmInv
  BY Always, CalmStart, CalmStep, PTL DEF Spec
<1> QED BY <1>1, <1>2, Always, PTL
=============================================================================
