---------------------------- MODULE DaemonClient ----------------------------
(***************************************************************************)
(* DaemonJsonlClient of spec-episode.ts: a connection that is opened by    *)
(* the first request and never replaced when it breaks, a handshake with   *)
(* one waiter, requests with a timer each, responses matched by id and     *)
(* acknowledged, and failAll, which the events of every socket call.       *)
(*                                                                         *)
(* Requests may be issued at any time, also together, and after close().   *)
(* The daemon is external: it greets, and handles what it was sent.        *)
(***************************************************************************)
EXTENDS Integers, FiniteSets

CONSTANTS
  Requests,   \* calls of request
  Mutations,  \* those whose type is create, prompt, kill or delete_saved_session
  Nobody,     \* nobody waits for the handshake
  MaxSockets  \* bound: connections opened

ASSUME ClientAssumption ==
  Mutations \subseteq Requests /\ Nobody \notin Requests /\ MaxSockets \in Nat

Sockets == 1..MaxSockets

VARIABLES
  socket,       \* this.socket; 0 when undefined
  link,         \* each socket: "unused", "opening", "up", "closing" or "lost"
  version,      \* this.protocolVersion is set
  greeter,      \* who helloResolve and helloReject belong to
  state,        \* each request
  opened,       \* the socket whose connection a request waits for, or waited for
  out,          \* commands written to a socket that the daemon has not handled
  hello,        \* the daemon's greeting is on its way on this socket
  responses,    \* responses on their way on this socket
  applied,      \* mutations the daemon has carried out
  acked,        \* results the client has acknowledged
  unversioned   \* commands that were written without a protocol version

client == <<socket, version, greeter, state, opened, acked, unversioned>>
daemon == <<hello, responses, applied>>
vars   == <<client, daemon, link, out>>

States == {"new", "connecting", "greeting", "pending", "answered", "uncertain", "failed"}
Settled == {"answered", "uncertain", "failed"}

Init ==
  /\ socket = 0 /\ link = [s \in Sockets |-> "unused"]
  /\ version = FALSE /\ greeter = Nobody
  /\ state = [r \in Requests |-> "new"] /\ opened = [r \in Requests |-> 0]
  /\ out = [s \in Sockets |-> {}] /\ hello = [s \in Sockets |-> FALSE]
  /\ responses = [s \in Sockets |-> {}]
  /\ applied = {} /\ acked = {} /\ unversioned = {}

-----------------------------------------------------------------------------
(* How a request ends that was written and not answered.                    *)
Unanswered(r) == IF r \in Mutations THEN "uncertain" ELSE "failed"

(* The command is written, on whatever socket is current.  A socket that is *)
(* not open yet keeps it; a dead one drops it without an error.             *)
Write(r, negotiated) ==
  /\ state' = [state EXCEPT ![r] = "pending"]
  /\ out' = IF link[socket] \in {"opening", "up"}
            THEN [out EXCEPT ![socket] = @ \cup {r}] ELSE out
  /\ unversioned' = IF negotiated THEN unversioned ELSE unversioned \cup {r}

(* The first request opens the connection and waits for it; while the field *)
(* is set, connect returns at once, whatever the socket is worth.           *)
OpenConnection(r) ==
  /\ state[r] = "new" /\ socket = 0
  /\ \E s \in Sockets :
       /\ link[s] = "unused" /\ \A t \in 1..(s - 1) : link[t] # "unused"
       /\ socket' = s /\ link' = [link EXCEPT ![s] = "opening"]
       /\ opened' = [opened EXCEPT ![r] = s]
  /\ state' = [state EXCEPT ![r] = "connecting"]
  /\ UNCHANGED <<version, greeter, acked, unversioned, daemon, out>>

UseConnection(r) ==
  /\ state[r] = "new" /\ socket # 0
  /\ Write(r, version)
  /\ UNCHANGED <<socket, version, greeter, opened, acked, daemon, link>>

WaitsFor(r, s) == state[r] = "connecting" /\ opened[r] = s

(* Mutant: the command follows the connect event.                           *)
ConnectedAtOnce(s) ==
  /\ link[s] = "opening"
  /\ link' = [link EXCEPT ![s] = "up"] /\ hello' = [hello EXCEPT ![s] = TRUE]
  /\ UNCHANGED version
  /\ \/ \E r \in Requests : WaitsFor(r, s) /\ Write(r, version)
     \/ (~\E r \in Requests : WaitsFor(r, s)) /\ UNCHANGED <<state, out, unversioned>>
  /\ UNCHANGED <<socket, greeter, opened, acked, responses, applied>>

(* The connect event: its waiter, if it still waits, goes on to the         *)
(* handshake or, with the version of an earlier connection, to its command. *)
Connected(s) ==
  /\ link[s] = "opening"
  /\ link' = [link EXCEPT ![s] = "up"] /\ hello' = [hello EXCEPT ![s] = TRUE]
  /\ IF ~\E r \in Requests : WaitsFor(r, s)
     THEN UNCHANGED <<version, state, greeter, out, unversioned>>
     ELSE \E r \in Requests :
            /\ WaitsFor(r, s)
            /\ IF version
               THEN Write(r, TRUE) /\ UNCHANGED <<version, greeter>>
               ELSE /\ state' = [state EXCEPT ![r] = "greeting"] /\ greeter' = r
                    /\ UNCHANGED <<version, out, unversioned>>
  /\ UNCHANGED <<socket, opened, acked, responses, applied>>

(* daemon_hello, supported or not.  The version stays for later             *)
(* connections.                                                             *)
Greeted(s) ==
  /\ link[s] = "up" /\ hello[s]
  /\ hello' = [hello EXCEPT ![s] = FALSE]
  /\ \/ /\ version' = TRUE /\ greeter' = Nobody
        /\ IF greeter # Nobody /\ state[greeter] = "greeting"
           THEN Write(greeter, TRUE) ELSE UNCHANGED <<state, out, unversioned>>
     \/ /\ state' = [r \in Requests |->
                       IF r = greeter /\ state[r] = "greeting" THEN "failed" ELSE state[r]]
        /\ UNCHANGED <<version, greeter, out, unversioned>>
  /\ UNCHANGED <<socket, opened, acked, responses, applied, link>>

(* Mutant: a response nobody waits for is acknowledged too.                 *)
RespondAcknowledging(s, r) ==
  /\ link[s] = "up" /\ ~hello[s] /\ r \in responses[s]
  /\ responses' = [responses EXCEPT ![s] = @ \ {r}]
  /\ state' = IF state[r] = "pending" THEN [state EXCEPT ![r] = "answered"] ELSE state
  /\ acked' = IF r \in Mutations THEN acked \cup {r} ELSE acked
  /\ UNCHANGED <<socket, version, greeter, opened, unversioned, hello, applied, link, out>>

(* Mutant: every response is acknowledged, also that of a query.            *)
RespondAcknowledgingAll(s, r) ==
  /\ link[s] = "up" /\ ~hello[s] /\ r \in responses[s]
  /\ responses' = [responses EXCEPT ![s] = @ \ {r}]
  /\ IF state[r] = "pending"
     THEN state' = [state EXCEPT ![r] = "answered"] /\ acked' = acked \cup {r}
     ELSE UNCHANGED <<state, acked>>
  /\ UNCHANGED <<socket, version, greeter, opened, unversioned, hello, applied, link, out>>

(* A response settles the request it names, if that still waits, and its    *)
(* result is acknowledged on the current socket.                            *)
Respond(s, r) ==
  /\ link[s] = "up" /\ ~hello[s] /\ r \in responses[s]
  /\ responses' = [responses EXCEPT ![s] = @ \ {r}]
  /\ IF state[r] = "pending"
     THEN /\ state' = [state EXCEPT ![r] = "answered"]
          /\ acked' = IF r \in Mutations /\ socket # 0 /\ version
                      THEN acked \cup {r} ELSE acked
     ELSE UNCHANGED <<state, acked>>
  /\ UNCHANGED <<socket, version, greeter, opened, unversioned, hello, applied, link, out>>

(* Mutant: only written requests have a timer.                              *)
TimeOutPending(r) ==
  /\ state[r] = "pending" /\ state' = [state EXCEPT ![r] = Unanswered(r)]
  /\ UNCHANGED <<socket, version, greeter, opened, acked, unversioned, daemon, link, out>>

(* Mutant: a timeout is an ordinary failure.                                *)
TimeOutPlainly(r) ==
  /\ state[r] \in {"connecting", "greeting", "pending"}
  /\ state' = [state EXCEPT ![r] = "failed"]
  /\ UNCHANGED <<socket, version, greeter, opened, acked, unversioned, daemon, link, out>>

(* The three timers.                                                        *)
TimeOut(r) ==
  /\ \/ state[r] \in {"connecting", "greeting"} /\ state' = [state EXCEPT ![r] = "failed"]
     \/ state[r] = "pending" /\ state' = [state EXCEPT ![r] = Unanswered(r)]
  /\ UNCHANGED <<socket, version, greeter, opened, acked, unversioned, daemon, link, out>>

(* failAll: the waiter of the handshake, and every request that was         *)
(* written, whichever socket it was written to.                             *)
AfterFailAll(r) ==
  IF state[r] = "pending" THEN Unanswered(r)
  ELSE IF r = greeter /\ state[r] = "greeting" THEN "failed" ELSE state[r]

(* The connection is refused: nothing that waited on the socket was sent.   *)
Refused(s) ==
  /\ link[s] = "opening"
  /\ link' = [link EXCEPT ![s] = "lost"] /\ out' = [out EXCEPT ![s] = {}]
  /\ state' = [r \in Requests |-> IF WaitsFor(r, s) THEN "failed" ELSE AfterFailAll(r)]
  /\ greeter' = Nobody
  /\ UNCHANGED <<socket, version, opened, acked, unversioned, daemon>>

(* The error or close event of a socket.  What was written may still be     *)
(* handled; no response comes back.                                         *)
Lost(s) ==
  /\ link[s] \in {"up", "closing"}
  /\ link' = [link EXCEPT ![s] = "lost"]
  /\ state' = [r \in Requests |-> AfterFailAll(r)] /\ greeter' = Nobody
  /\ UNCHANGED <<socket, version, opened, acked, unversioned, daemon, out>>

(* close(): the socket is destroyed, its close event comes later.  One that *)
(* was not connected sends nothing any more.                                *)
Close ==
  /\ socket # 0
  /\ link' = IF link[socket] \in {"opening", "up"}
             THEN [link EXCEPT ![socket] = "closing"] ELSE link
  /\ out' = IF link[socket] = "opening" THEN [out EXCEPT ![socket] = {}] ELSE out
  /\ socket' = 0
  /\ UNCHANGED <<version, greeter, state, opened, acked, unversioned, daemon>>

(* The daemon carries a command out, or refuses it, and answers.            *)
Handle(s, r) ==
  /\ link[s] \in {"up", "closing", "lost"} /\ r \in out[s]
  /\ out' = [out EXCEPT ![s] = @ \ {r}]
  /\ \/ applied' = applied \cup ({r} \cap Mutations)
     \/ UNCHANGED applied
  /\ responses' = [responses EXCEPT ![s] = @ \cup {r}]
  /\ UNCHANGED <<client, hello, link>>

-----------------------------------------------------------------------------
Next ==
  \/ \E r \in Requests : OpenConnection(r) \/ UseConnection(r) \/ TimeOut(r)
  \/ \E s \in Sockets : Connected(s) \/ Greeted(s) \/ Refused(s) \/ Lost(s)
  \/ \E s \in Sockets, r \in Requests : Respond(s, r) \/ Handle(s, r)
  \/ Close

Spec == Init /\ [][Next]_vars

(* Timers fire; nothing is assumed of the daemon or the connection.         *)
FairSpec == Spec /\ \A r \in Requests : WF_vars(TimeOut(r))

-----------------------------------------------------------------------------
(* Every variable has its type. *)
TypeOK ==
  /\ socket \in 0..MaxSockets
  /\ link \in [Sockets -> {"unused", "opening", "up", "closing", "lost"}]
  /\ version \in BOOLEAN /\ greeter \in Requests \cup {Nobody}
  /\ state \in [Requests -> States] /\ opened \in [Requests -> 0..MaxSockets]
  /\ out \in [Sockets -> SUBSET Requests] /\ hello \in [Sockets -> BOOLEAN]
  /\ responses \in [Sockets -> SUBSET Requests]
  /\ applied \subseteq Mutations /\ acked \subseteq Mutations
  /\ unversioned \subseteq Requests

(* acknowledge: the daemon keeps a result until it is acknowledged.  Only a  *)
(* result that reached its caller is; one that came after the timer or the  *)
(* loss of its connection, which was reported uncertain, stays there.       *)
AckedOnlyAnswered == \A r \in acked : state[r] = "answered"

(* The request that opens a connection never sends its command before the   *)
(* handshake has settled a protocol version.                                *)
OpenerNegotiates == \A r \in unversioned : opened[r] = 0

(* What the caller of each request was told. *)
Reported == [r \in Requests |-> IF state[r] \in Settled THEN state[r] ELSE "none"]

Commands == INSTANCE DaemonCommands WITH report <- Reported

(* Each command is reported once and truthfully, and acts at most once: the *)
(* daemon never carries out a mutation that request reported as failed,     *)
(* before or after.                                                         *)
ImplementsCommands == Commands!Spec

(* No request waits for ever, although nothing is promised of the daemon.   *)
RequestsSettle == \A r \in Requests : state[r] # "new" ~> state[r] \in Settled
=============================================================================
