--------------------------- MODULE DaemonCommands ---------------------------
(***************************************************************************)
(* What a client of the daemon is promised about each command it issues:   *)
(* one report, and, for a command that changes something, a plain failure  *)
(* only when the command did not and will not act.                         *)
(***************************************************************************)
CONSTANTS
  Requests,  \* the commands
  Mutations  \* those that change something

VARIABLES
  report,   \* what the caller was told: "none", "answered", "uncertain", "failed"
  applied   \* the mutations that acted

Init == report = [r \in Requests |-> "none"] /\ applied = {}

(* The daemon acts, at most once, perhaps after the caller gave up.         *)
Apply(r) ==
  /\ r \in Mutations \ applied /\ report[r] \in {"none", "uncertain"}
  /\ applied' = applied \cup {r} /\ UNCHANGED report

Told(r, how) ==
  /\ report[r] = "none"
  /\ how = "failed" => r \notin applied
  /\ how = "uncertain" => r \in Mutations

(* One event, such as the loss of a connection, reports several commands.   *)
Report ==
  /\ report' \in [Requests -> {"none", "answered", "uncertain", "failed"}]
  /\ \A r \in Requests : report'[r] = report[r] \/ Told(r, report'[r])
  /\ UNCHANGED applied

Next == Report \/ \E r \in Requests : Apply(r)

Spec == Init /\ [][Next]_<<report, applied>>
=============================================================================
