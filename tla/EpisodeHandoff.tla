--------------------------- MODULE EpisodeHandoff ---------------------------
(***************************************************************************)
(* handoff_task_episode and handoff_spec_episode: one Conversation sends   *)
(* the canonical handoff prompt to its Episode, records what it observed   *)
(* of the task, and queues execute as the sole follow-up                   *)
(* (handoffTaskEpisode, handoffSpecEpisode, deliverOwnedEpisodeHandoff and *)
(* deliverHandoff in spec-episode.ts, admitWorkflowChain in                *)
(* workflow-chain.ts).                                                     *)
(*                                                                         *)
(* A prompt is a request to the daemon, which may act on it after the      *)
(* caller has stopped to wait.  Meanwhile the session is closed, opened or *)
(* used by somebody, and a migration in another process switches the       *)
(* provider of the ownership entry and may switch it back.                 *)
(***************************************************************************)
EXTENDS Integers, Sequences, FiniteSets

CONSTANTS
  Modes,      \* the kinds of ownership entry to consider
  NoUndo,     \* there is no provider switch to take back
  MaxCalls,   \* bound: invocations of the tool
  MaxTrouble  \* bound: events that interfere

(* A version-1 folder entry; Backlog with task files in the code branch;    *)
(* Backlog with a published task history; Beads.                            *)
AllModes == {"folder", "branch", "published", "beads"}

ASSUME HandoffAssumption ==
  Modes \subseteq AllModes /\ MaxCalls \in Nat /\ MaxTrouble \in Nat

VARIABLES
  mode,      \* the kind of the Conversation's entry
  entry,     \* the active ownership entry: provider, route, evidence
  undo,      \* what a migration in another process can still switch back
  session,   \* the Episode's session: its route (0: not resident), busy
  routes,    \* the routes the daemon has given out
  wire,      \* prompts sent, and not yet handled by the daemon
  replies,   \* answers of the daemon
  log,       \* prompts the daemon has admitted, in order
  pc,        \* the next step of the invocation
  call,      \* its number
  round,     \* 1: preflight, 2: preparation of the delivery
  record,    \* the entry as the current preparation knows it
  prepared,  \* the entry as the preflight left it (preparedRecord)
  chosen,    \* the route to deliver to
  result,    \* how the last invocation ended
  calm,      \* nothing has interfered with this invocation
  trouble    \* how many of the bounded events have happened

durable == <<mode, entry, undo>>
daemon  == <<session, routes, wire, replies, log>>
locals  == <<pc, call, round, record, prepared, chosen, result>>
vars    == <<durable, daemon, locals, calm, trouble>>

(* Entries that carry an observation of the task, which advances.           *)
Observing == mode \in {"published", "beads"}

Mine(e)  == e.provider = "own"
Other(e) == [e EXCEPT !.provider = "other"]

Init ==
  /\ mode \in Modes
  /\ session \in [route : {0, 1}, busy : {FALSE}] \cup {[route |-> 1, busy |-> TRUE]}
  /\ routes = 1
  /\ entry = [provider |-> "own", route |-> 1, evidence |-> 0]
  /\ undo \in IF mode = "published" THEN {NoUndo, [before |-> Other(entry), after |-> entry]}
              ELSE {NoUndo}
  /\ wire = {} /\ replies = {} /\ log = <<>>
  /\ pc = "idle" /\ call = 0 /\ round = 1
  /\ record = entry /\ prepared = entry /\ chosen = 0
  /\ result = "none" /\ calm = TRUE /\ trouble = 0

(* The events that interfere are bounded together. *)
Trouble == trouble < MaxTrouble /\ trouble' = trouble + 1 /\ calm' = FALSE

Undisturbed == UNCHANGED <<calm, trouble>>

-----------------------------------------------------------------------------
(* The invocation ends with outcome r: a result or an error of its own      *)
(* class.                                                                   *)
End(r) ==
  /\ pc' = "idle" /\ result' = r
  /\ UNCHANGED <<call, round, record, prepared, chosen>>

Goto(label) ==
  pc' = label /\ UNCHANGED <<call, round, record, prepared, chosen, result>>

(* The entry is read once; a task entry with an observation is prepared     *)
(* twice.                                                                   *)
Begin ==
  /\ pc = "idle" /\ call < MaxCalls /\ Mine(entry)
  /\ pc' = "list" /\ call' = call + 1
  /\ round' = IF Observing THEN 1 ELSE 2
  /\ record' = entry /\ prepared' = entry /\ chosen' = 0 /\ result' = "none"
  /\ calm' = (wire = {} /\ ~session.busy)
  /\ UNCHANGED <<durable, daemon, trouble>>

(* durableSession, the idle check of folder entries, and the choice between *)
(* the three branches of reopenIfNeeded.                                    *)
List ==
  /\ pc = "list"
  /\ IF mode = "folder" /\ session.busy THEN End("error")
     ELSE /\ chosen' = session.route
          /\ pc' = IF session.route = 0 THEN "reopen"
                   ELSE IF session.route = record.route THEN "state" ELSE "note"
          /\ UNCHANGED <<call, round, record, prepared, result>>
  /\ Undisturbed /\ UNCHANGED <<durable, daemon>>

(* The daemon makes the saved session resident, unless somebody did already. *)
Resident ==
  IF session.route # 0 THEN UNCHANGED <<session, routes>>
  ELSE routes' = routes + 1 /\ session' = [session EXCEPT !.route = routes + 1]

Reopen ==
  /\ pc = "reopen"
  /\ Resident
  /\ chosen' = session'.route
  /\ pc' = IF session'.route = record.route THEN "state" ELSE "note"
  /\ Undisturbed
  /\ UNCHANGED <<durable, wire, replies, log, call, round, record, prepared, result>>

(* Mutant: the registry's comparison of the binding is missing.             *)
NoteRouteBlindly ==
  /\ pc = "note"
  /\ entry' = [record EXCEPT !.route = chosen] /\ record' = entry'
  /\ pc' = "state"
  /\ Undisturbed
  /\ UNCHANGED <<mode, undo, daemon, call, round, prepared, chosen, result>>

(* The write of the new route: of the record the preparation read, which    *)
(* the registry accepts while the binding is the same.                      *)
NoteRoute ==
  /\ pc = "note"
  /\ IF Mine(entry)
     THEN /\ entry' = [record EXCEPT !.route = chosen] /\ record' = entry'
          /\ pc' = "state"
          /\ UNCHANGED <<call, round, prepared, chosen, result>>
     ELSE End("error") /\ UNCHANGED entry
  /\ Undisturbed /\ UNCHANGED <<mode, undo, daemon>>

(* Mutant: the preflight returns the record it was given.                   *)
CheckStateStale ==
  /\ pc = "state"
  /\ IF session.route # chosen \/ (mode = "folder" /\ session.busy) THEN End("error")
     ELSE Goto(IF round = 1 THEN "observe" ELSE "first")
  /\ Undisturbed /\ UNCHANGED <<durable, daemon>>

(* getState: the route still is this session's; a folder Episode must be    *)
(* quiescent.  The preflight keeps its record, the delivery goes on.        *)
CheckState ==
  /\ pc = "state"
  /\ IF session.route # chosen \/ (mode = "folder" /\ session.busy) THEN End("error")
     ELSE /\ pc' = IF round = 1 THEN "observe" ELSE "first"
          /\ prepared' = IF round = 1 THEN record ELSE prepared
          /\ UNCHANGED <<call, round, record, chosen, result>>
  /\ Undisturbed /\ UNCHANGED <<durable, daemon>>

(* The provider is read: advancePublishedBeadsTaskEpisodeEvidence reads the *)
(* entry again, preparePublishedBacklogHandoffEvidence does not.  Then the  *)
(* delivery prepares anew, from the preflight's record.                     *)
Observe ==
  /\ pc = "observe"
  /\ IF mode = "beads" /\ ~Mine(entry) THEN End("error")
     ELSE /\ pc' = "list" /\ round' = 2
          /\ UNCHANGED <<call, record, prepared, chosen, result>>
  /\ Undisturbed /\ UNCHANGED <<durable, daemon>>

-----------------------------------------------------------------------------
Prompt(kind) == [call |-> call, kind |-> kind, route |-> chosen]
Reply(kind, answer) == [call |-> call, kind |-> kind, answer |-> answer]

Send(kind) == wire' = wire \cup {Prompt(kind)}

SendFirst ==
  /\ pc = "first"
  /\ Send("handoff") /\ Goto("firstSent")
  /\ Undisturbed /\ UNCHANGED <<durable, session, routes, replies, log>>

SendFollowUp ==
  /\ pc = "second"
  /\ Send("execute") /\ Goto("secondSent")
  /\ Undisturbed /\ UNCHANGED <<durable, session, routes, replies, log>>

(* Mutant: the chain goes on after any answer.                              *)
FirstSwallowed ==
  /\ pc = "firstSent"
  /\ \E answer \in {"ok", "refused", "uncertain"} : Reply("handoff", answer) \in replies
  /\ Goto(IF Observing THEN "commit" ELSE "second")
  /\ Undisturbed /\ UNCHANGED <<durable, daemon>>

(* Mutant: the observation is committed without waiting for the admission.  *)
FirstAssumed ==
  /\ pc = "firstSent"
  /\ Goto(IF Observing THEN "commit" ELSE "second")
  /\ Undisturbed /\ UNCHANGED <<durable, daemon>>

(* deliverHandoff: what the first answer means.                             *)
FirstAnswered ==
  /\ pc = "firstSent"
  /\ \/ /\ Reply("handoff", "ok") \in replies
        /\ Goto(IF Observing THEN "commit" ELSE "second")
     \/ Reply("handoff", "refused") \in replies /\ End("error")
     \/ Reply("handoff", "uncertain") \in replies /\ End("first-uncertain")
  /\ Undisturbed /\ UNCHANGED <<durable, daemon>>

FollowUpAnswered ==
  /\ pc = "secondSent"
  /\ \/ Reply("execute", "ok") \in replies /\ End("admitted")
     \/ Reply("execute", "refused") \in replies /\ End("follow-up-rejected")
     \/ Reply("execute", "uncertain") \in replies /\ End("follow-up-uncertain")
  /\ Undisturbed /\ UNCHANGED <<durable, daemon>>

(* Mutant: a prompt is not among the commands whose outcome is uncertain.   *)
StopPlainly ==
  /\ \/ pc = "firstSent" /\ End("error")
     \/ pc = "secondSent" /\ End("follow-up-rejected")
  /\ calm' = FALSE
  /\ UNCHANGED <<durable, daemon, trouble>>

(* Mutant: the follow-up has no timer.                                      *)
StopWaitingFirst ==
  /\ pc = "firstSent" /\ End("first-uncertain")
  /\ calm' = FALSE
  /\ UNCHANGED <<durable, daemon, trouble>>

(* No answer: the request timed out or the connection was lost.             *)
StopWaiting ==
  /\ \/ pc = "firstSent" /\ End("first-uncertain")
     \/ pc = "secondSent" /\ End("follow-up-uncertain")
  /\ calm' = FALSE
  /\ UNCHANGED <<durable, daemon, trouble>>

Target == [prepared EXCEPT !.evidence = call]

(* afterFirst, Beads: one mutation under the registry's lock.               *)
CommitBeads ==
  /\ pc = "commit" /\ mode = "beads"
  /\ IF entry = prepared THEN entry' = Target /\ Goto("verify")
     ELSE End("callback") /\ UNCHANGED entry
  /\ Undisturbed /\ UNCHANGED <<mode, undo, daemon>>

(* afterFirst, Backlog: a comparison, then a write of its own.              *)
CompareBacklog ==
  /\ pc = "commit" /\ mode = "published"
  /\ IF entry = prepared THEN Goto("write") ELSE End("callback")
  /\ Undisturbed /\ UNCHANGED <<durable, daemon>>

WriteBacklog ==
  /\ pc = "write"
  /\ IF Mine(entry) THEN entry' = Target /\ Goto("verify")
     ELSE End("callback") /\ UNCHANGED entry
  /\ Undisturbed /\ UNCHANGED <<mode, undo, daemon>>

(* Both read the entry once more.                                           *)
Verify ==
  /\ pc = "verify"
  /\ IF entry = Target THEN Goto("second") ELSE End("callback")
  /\ Undisturbed /\ UNCHANGED <<durable, daemon>>

-----------------------------------------------------------------------------
(* A step fails before it acts; the reopening may act and lose its answer.  *)
Broken ==
  /\ \/ pc \in {"list", "reopen", "note", "state", "observe", "first"} /\ End("error")
     \/ pc \in {"commit", "write", "verify"} /\ End("callback")
     \/ pc = "second" /\ End("follow-up-rejected")
  /\ \/ UNCHANGED daemon
     \/ pc = "reopen" /\ Resident /\ UNCHANGED <<wire, replies, log>>
  /\ Trouble /\ UNCHANGED durable

Crash ==
  /\ pc # "idle" /\ End("dead")
  /\ Trouble /\ UNCHANGED <<durable, daemon>>

(* The daemon handles a prompt, perhaps long after its sender gave up.  The *)
(* first is refused by a busy session, the follow-up is queued.             *)
Admits(m) == m.route = session.route /\ (m.kind = "handoff" => ~session.busy)

Admit(m) ==
  /\ log' = Append(log, [call |-> m.call, kind |-> m.kind])
  /\ session' = [session EXCEPT !.busy = TRUE]

Answer(m, answer) ==
  /\ wire' = wire \ {m}
  /\ replies' = replies \cup {[call |-> m.call, kind |-> m.kind, answer |-> answer]}
  /\ UNCHANGED <<durable, routes, locals>>

Handle(m) ==
  /\ IF Admits(m) THEN Admit(m) /\ Answer(m, "ok")
     ELSE Answer(m, "refused") /\ UNCHANGED <<session, log>>
  /\ Undisturbed

(* The daemon itself reports that it cannot tell (command_result_uncertain). *)
HandleUnsure(m) ==
  /\ \/ Admits(m) /\ Admit(m)
     \/ UNCHANGED <<session, log>>
  /\ Answer(m, "uncertain") /\ Trouble

(* The session is closed, opened by somebody, prompted by somebody, or its  *)
(* turn ends.                                                               *)
Become(s) ==
  /\ session' = s
  /\ UNCHANGED <<durable, wire, replies, log, locals>>

Close ==
  /\ session.route # 0 /\ Become([route |-> 0, busy |-> FALSE])
  /\ Trouble /\ UNCHANGED routes

Open ==
  /\ session.route = 0 /\ routes' = routes + 1
  /\ Become([session EXCEPT !.route = routes + 1]) /\ Trouble

Turn ==
  /\ session.route # 0 /\ ~session.busy /\ Become([session EXCEPT !.busy = TRUE])
  /\ Trouble /\ UNCHANGED routes

Rest ==
  /\ session.busy /\ Become([session EXCEPT !.busy = FALSE])
  /\ Undisturbed /\ UNCHANGED routes

(* Another process migrates Beads entries to Backlog, or takes the switch   *)
(* back by which an entry came to the published Backlog, which needs the    *)
(* entry as it had left it.                                                 *)
Migrate ==
  /\ mode = "beads" /\ Mine(entry) /\ undo = NoUndo
  /\ \E r \in {entry.route, session.route} \ {0} :
       entry' = [Other(entry) EXCEPT !.route = r]
  /\ undo' = [before |-> entry, after |-> entry']
  /\ Trouble /\ UNCHANGED <<mode, daemon, locals>>

Restore ==
  /\ undo # NoUndo /\ entry = undo.after
  /\ entry' = undo.before /\ undo' = NoUndo
  /\ Trouble /\ UNCHANGED <<mode, daemon, locals>>

-----------------------------------------------------------------------------
Steps ==
  \/ List \/ Reopen \/ NoteRoute \/ CheckState \/ Observe
  \/ SendFirst \/ FirstAnswered \/ SendFollowUp \/ FollowUpAnswered
  \/ CommitBeads \/ CompareBacklog \/ WriteBacklog \/ Verify

Next ==
  \/ Begin \/ Steps \/ StopWaiting \/ Broken \/ Crash
  \/ \E m \in wire : Handle(m) \/ HandleUnsure(m)
  \/ Close \/ Open \/ Turn \/ Rest \/ Migrate \/ Restore

Spec == Init /\ [][Next]_vars

(* A live invocation goes on, and every request has a timer.                *)
FairSpec == Spec /\ WF_vars(Steps) /\ WF_vars(StopWaiting)

-----------------------------------------------------------------------------
Entry == [provider : {"own", "other"}, route : Nat, evidence : 0..MaxCalls]
Item  == [call : 1..MaxCalls, kind : {"handoff", "execute"}]

(* Every variable has its type. *)
TypeOK ==
  /\ mode \in Modes
  /\ entry \in Entry /\ record \in Entry /\ prepared \in Entry
  /\ undo = NoUndo \/ undo \in [before : Entry, after : Entry]
  /\ session \in [route : 0..routes, busy : BOOLEAN] /\ routes \in Nat
  /\ wire \subseteq
       [call : 1..MaxCalls, kind : {"handoff", "execute"}, route : 1..routes]
  /\ replies \subseteq
       [call : 1..MaxCalls, kind : {"handoff", "execute"},
        answer : {"ok", "refused", "uncertain"}]
  /\ log \in Seq(Item)
  /\ pc \in {"idle", "list", "reopen", "note", "state", "observe", "first", "firstSent",
             "commit", "write", "verify", "second", "secondSent"}
  /\ call \in 0..MaxCalls /\ round \in {1, 2} /\ chosen \in 0..routes
  /\ result \in {"none", "error", "first-uncertain", "callback", "follow-up-rejected",
                 "follow-up-uncertain", "admitted", "dead"}
  /\ calm \in BOOLEAN /\ trouble \in 0..MaxTrouble

Admitted(c, kind) == \E i \in DOMAIN log : log[i] = [call |-> c, kind |-> kind]
Underway(c, kind) == \E m \in wire : m.call = c /\ m.kind = kind

(* "exactly one handoff and one subsequent execute pass": no execute is     *)
(* admitted before its handoff, and no prompt of an invocation twice,       *)
(* however late the daemon acts.                                            *)
ExecuteFollowsHandoff ==
  \A i \in DOMAIN log :
    /\ \A j \in DOMAIN log : log[i] = log[j] => i = j
    /\ log[i].kind = "execute" =>
         \E j \in 1..(i - 1) : log[j] = [call |-> log[i].call, kind |-> "handoff"]

(* What the invocation reports is so, now and later: the daemon holds       *)
(* nothing that could still change it, except where the outcome is reported *)
(* as uncertain.                                                            *)
ReportTruthful ==
  /\ result = "admitted" =>
       /\ Admitted(call, "handoff") /\ Admitted(call, "execute")
       /\ Observing /\ Mine(entry) => entry.evidence = call
  /\ result = "error" =>
       \A k \in {"handoff", "execute"} : ~Admitted(call, k) /\ ~Underway(call, k)
  /\ result \in {"callback", "follow-up-rejected"} =>
       /\ Admitted(call, "handoff")
       /\ ~Admitted(call, "execute") /\ ~Underway(call, "execute")
  /\ result = "first-uncertain" => ~Admitted(call, "execute") /\ ~Underway(call, "execute")
  /\ result = "follow-up-uncertain" => Admitted(call, "handoff")

(* "records only current provider revision, native evidence ... after the   *)
(* first handoff message is admitted": never for a prompt that was refused  *)
(* or whose admission is not known.                                         *)
EvidenceAfterAdmission ==
  [][entry'.evidence > entry.evidence => Admitted(entry'.evidence, "handoff")]_vars

(* An entry that a migration switched, or switched back, while the handoff  *)
(* was under way is not overwritten with what the handoff read before.      *)
SwitchKept ==
  [][entry' # entry /\ pc' # pc => Mine(entry) /\ entry'.provider = entry.provider]_vars

(* An invocation that nothing interferes with is admitted, whether or not   *)
(* the session was resident and the recorded route current.                 *)
CalmAdmitted == pc = "idle" /\ call > 0 /\ calm => result = "admitted"

(* Every invocation ends, answered or not.                                  *)
CallsEnd == pc # "idle" ~> pc = "idle"

(* "refreshes any idle durable session route, and records only current      *)
(* provider revision ... after the first handoff message is admitted": with *)
(* the entry untouched by others and no failure, the record follows the     *)
(* admission.                                                               *)
RefreshedRouteRecorded ==
  [][pc = "commit" /\ pc' = "idle" /\ trouble' = trouble
       => ~Mine(entry) \/ entry.route = prepared.route]_vars
=============================================================================
