------------------------- MODULE DaemonClientProofs -------------------------
(***************************************************************************)
(* Proofs about the daemon client, for any requests and any number of      *)
(* connections.                                                            *)
(***************************************************************************)
EXTENDS DaemonClient, TLAPS

Waiting == {"new", "connecting", "greeting"}

(* A request that still waits to be written left no trace at the daemon.    *)
Unsent ==
  \A r \in Requests : state[r] \in Waiting =>
    r \notin applied /\ \A s \in Sockets : r \notin out[s] /\ r \notin responses[s]

(* A mutation that was reported as failed never will be handled.            *)
FailedUnsent ==
  \A r \in Mutations : state[r] = "failed" =>
    r \notin applied /\ \A s \in Sockets : r \notin out[s]

(* A command is written once; once handled, or answered, it is gone.        *)
WrittenOnce ==
  \A r \in Requests, s \in Sockets : r \in out[s] =>
    /\ state[r] # "answered" /\ r \notin applied
    /\ \A t \in Sockets : r \notin responses[t] /\ (r \in out[t] => s = t)

(* A request that was not issued has neither opened nor written anything.   *)
NewUnopened ==
  \A r \in Requests : state[r] = "new" => opened[r] = 0 /\ r \notin unversioned

IInv ==
  /\ TypeOK /\ Unsent /\ FailedUnsent /\ WrittenOnce
  /\ NewUnopened /\ AckedOnlyAnswered /\ OpenerNegotiates
(* The part of IInv that is not about types. *)
Track ==
  /\ Unsent /\ FailedUnsent /\ WrittenOnce
  /\ NewUnopened /\ AckedOnlyAnswered /\ OpenerNegotiates

-----------------------------------------------------------------------------
(* What writing a command does to the requests and the sockets.             *)
LEMMA Written ==
  ASSUME TypeOK, NEW r \in Requests, NEW n \in BOOLEAN, Write(r, n)
  PROVE  /\ state' \in [Requests -> States] /\ state'[r] = "pending"
         /\ \A q \in Requests \ {r} : state'[q] = state[q]
         /\ out' \in [Sockets -> SUBSET Requests]
         /\ \A s \in Sockets : out'[s] = out[s] \/ (s = socket /\ out'[s] = out[s] \cup {r})
         /\ unversioned' \subseteq Requests
  BY DEF TypeOK, Write, States

(* Writing a request that was waiting keeps the invariant.                  *)
LEMMA WriteStep ==
  ASSUME IInv, NEW r \in Requests, NEW n \in BOOLEAN, Write(r, n),
         state[r] \in Waiting, n \/ state[r] = "new",
         UNCHANGED <<opened, acked, applied, responses>>
  PROVE  Track'
<1>1. TypeOK /\ Track
  BY DEF IInv, Track
<1>2. /\ state'[r] = "pending"
      /\ \A q \in Requests \ {r} : state'[q] = state[q]
      /\ \A s \in Sockets :
           out'[s] = out[s] \/ (s = socket /\ out'[s] = out[s] \cup {r})
  BY <1>1, Written
<1>3. Unsent' /\ FailedUnsent'
  BY <1>1, <1>2, ClientAssumption DEF Track, Unsent, FailedUnsent, Waiting
<1>4. WrittenOnce'
  <2> SUFFICES ASSUME NEW q \in Requests, NEW s \in Sockets, q \in out'[s]
               PROVE  /\ state'[q] # "answered" /\ q \notin applied
                      /\ \A t \in Sockets :
                           q \notin responses[t] /\ (q \in out'[t] => s = t)
    BY DEF WrittenOnce
  <2>1. CASE q = r
    BY <1>1, <1>2, <2>1 DEF Track, Unsent
  <2>2. CASE q # r
    BY <1>1, <1>2, <2>2 DEF Track, WrittenOnce
  <2> QED BY <2>1, <2>2
<1>5. NewUnopened' /\ OpenerNegotiates'
  BY <1>1, <1>2 DEF Track, NewUnopened, OpenerNegotiates, Write
<1>6. AckedOnlyAnswered'
  BY <1>1, <1>2, ClientAssumption DEF Track, AckedOnlyAnswered, Waiting, TypeOK
<1> QED BY <1>3, <1>4, <1>5, <1>6 DEF Track

(* A request goes on to the handshake, or ends without an answer.           *)
Moves(r) ==
  \/ state'[r] = state[r]
  \/ state[r] = "connecting" /\ state'[r] = "greeting"
  \/ state[r] \in {"connecting", "greeting"} /\ state'[r] = "failed"
  \/ state[r] = "pending" /\ state'[r] = Unanswered(r)

(* Timers and lost connections keep the invariant.                          *)
LEMMA MoveStep ==
  ASSUME IInv, \A r \in Requests : Moves(r),
         \A s \in Sockets : out'[s] \subseteq out[s],
         UNCHANGED <<opened, acked, unversioned, applied, responses>>
  PROVE  Track'
<1>1. TypeOK /\ Track
  BY DEF IInv, Track
<1>2. Unsent'
  BY <1>1 DEF Track, Unsent, Moves, Waiting, Unanswered
<1>3. FailedUnsent'
  BY <1>1, ClientAssumption
  DEF Track, Unsent, FailedUnsent, Moves, Waiting, Unanswered
<1>4. WrittenOnce'
  BY <1>1 DEF Track, WrittenOnce, Moves, Unanswered
<1>5. NewUnopened' /\ OpenerNegotiates'
  BY <1>1 DEF Track, NewUnopened, OpenerNegotiates, Moves, Unanswered
<1>6. AckedOnlyAnswered'
  BY <1>1, ClientAssumption
  DEF Track, AckedOnlyAnswered, Moves, Unanswered, TypeOK
<1> QED BY <1>2, <1>3, <1>4, <1>5, <1>6 DEF Track

-----------------------------------------------------------------------------
(* The invariant is inductive. *)
LEMMA InitInv == Init => IInv
<1> SUFFICES ASSUME Init PROVE IInv
  OBVIOUS
<1>1. TypeOK
  <2>1. 0 \in 0..MaxSockets
    BY ClientAssumption
  <2>2. /\ socket \in 0..MaxSockets /\ version \in BOOLEAN
        /\ opened \in [Requests -> 0..MaxSockets]
    BY <2>1 DEF Init
  <2>3. /\ link \in [Sockets -> {"unused", "opening", "up", "closing", "lost"}]
        /\ state \in [Requests -> States]
        /\ greeter \in Requests \cup {Nobody}
    BY DEF Init, States
  <2>4. /\ out \in [Sockets -> SUBSET Requests]
        /\ hello \in [Sockets -> BOOLEAN]
        /\ responses \in [Sockets -> SUBSET Requests]
    BY DEF Init
  <2>5. applied \subseteq Mutations /\ acked \subseteq Mutations
        /\ unversioned \subseteq Requests
    BY DEF Init
  <2> QED BY <2>2, <2>3, <2>4, <2>5 DEF TypeOK
<1>2. Unsent /\ FailedUnsent /\ WrittenOnce
  BY ClientAssumption DEF Init, Unsent, FailedUnsent, WrittenOnce
<1>3. NewUnopened /\ AckedOnlyAnswered /\ OpenerNegotiates
  BY DEF Init, NewUnopened, AckedOnlyAnswered, OpenerNegotiates
<1> QED BY <1>1, <1>2, <1>3 DEF IInv

LEMMA OpenConnectionStep ==
  ASSUME IInv, NEW r \in Requests, OpenConnection(r) PROVE IInv'
<1>1. PICK s \in Sockets : opened' = [opened EXCEPT ![r] = s] /\ socket' = s
                           /\ link' = [link EXCEPT ![s] = "opening"]
  BY DEF OpenConnection
<1>2. TypeOK'
  BY <1>1 DEF IInv, TypeOK, OpenConnection, States, Sockets, daemon
<1>3. Unsent' /\ FailedUnsent' /\ WrittenOnce'
  BY ClientAssumption DEF IInv, TypeOK, OpenConnection, Unsent, FailedUnsent,
     WrittenOnce, Waiting, daemon
<1>4. NewUnopened' /\ OpenerNegotiates'
  BY <1>1 DEF IInv, TypeOK, OpenConnection, NewUnopened, OpenerNegotiates
<1>5. AckedOnlyAnswered'
  BY DEF IInv, TypeOK, OpenConnection, AckedOnlyAnswered
<1> QED BY <1>2, <1>3, <1>4, <1>5 DEF IInv

LEMMA UseConnectionStep ==
  ASSUME IInv, NEW r \in Requests, UseConnection(r) PROVE IInv'
<1>1. TypeOK /\ version \in BOOLEAN /\ Write(r, version) /\ state[r] = "new"
  BY DEF IInv, TypeOK, UseConnection
<1>2. TypeOK'
  BY <1>1, Written DEF TypeOK, UseConnection, daemon
<1>3. Track'
  BY <1>1, WriteStep DEF UseConnection, Waiting, daemon
<1> QED BY <1>2, <1>3 DEF IInv, Track

LEMMA TimeOutStep ==
  ASSUME IInv, NEW r \in Requests, TimeOut(r) PROVE IInv'
<1>1. TypeOK'
  BY DEF IInv, TypeOK, TimeOut, Unanswered, States, daemon
<1>2. \A q \in Requests : Moves(q)
  BY DEF IInv, TypeOK, TimeOut, Moves
<1>3. Track'
  BY <1>2, MoveStep DEF TimeOut, daemon
<1> QED BY <1>1, <1>3 DEF IInv, Track

LEMMA ConnectedStep ==
  ASSUME IInv, NEW s \in Sockets, Connected(s) PROVE IInv'
<1>1. CASE UNCHANGED <<version, state, greeter, out, unversioned>>
  <2>1. TypeOK'
    BY <1>1 DEF IInv, TypeOK, Connected
  <2>2. Track'
    BY <1>1, MoveStep DEF Connected, Moves
  <2> QED BY <2>1, <2>2 DEF IInv, Track
<1>2. ASSUME NEW r \in Requests, WaitsFor(r, s), Write(r, TRUE),
             UNCHANGED <<version, greeter>>
      PROVE  IInv'
  <2>1. TypeOK'
    BY <1>2, Written DEF IInv, TypeOK, Connected
  <2>2. Track'
    BY <1>2, WriteStep DEF Connected, WaitsFor, Waiting
  <2> QED BY <2>1, <2>2 DEF IInv, Track
<1>3. ASSUME NEW r \in Requests, WaitsFor(r, s), greeter' = r,
             state' = [state EXCEPT ![r] = "greeting"],
             UNCHANGED <<version, out, unversioned>>
      PROVE  IInv'
  <2>1. TypeOK'
    BY <1>3 DEF IInv, TypeOK, Connected, States
  <2>2. \A q \in Requests : Moves(q)
    BY <1>3 DEF IInv, TypeOK, Moves, WaitsFor
  <2>3. Track'
    BY <1>3, <2>2, MoveStep DEF Connected
  <2> QED BY <2>1, <2>3 DEF IInv, Track
<1> QED BY <1>1, <1>2, <1>3 DEF Connected

LEMMA GreetedStep ==
  ASSUME IInv, NEW s \in Sockets, Greeted(s) PROVE IInv'
<1>1. CASE /\ version' = TRUE /\ greeter' = Nobody
           /\ UNCHANGED <<state, out, unversioned>>
  <2>1. TypeOK'
    BY <1>1 DEF IInv, TypeOK, Greeted
  <2>2. Track'
    BY <1>1, MoveStep DEF Greeted, Moves
  <2> QED BY <2>1, <2>2 DEF IInv, Track
<1>2. CASE /\ version' = TRUE /\ greeter' = Nobody
           /\ greeter # Nobody /\ state[greeter] = "greeting"
           /\ Write(greeter, TRUE)
  <2>1. greeter \in Requests
    BY <1>2 DEF IInv, TypeOK
  <2>2. TypeOK'
    BY <1>2, <2>1, Written DEF IInv, TypeOK, Greeted
  <2>3. Track'
    BY <1>2, <2>1, WriteStep DEF Greeted, Waiting
  <2> QED BY <2>2, <2>3 DEF IInv, Track
<1>3. CASE /\ state' = [r \in Requests |->
                 IF r = greeter /\ state[r] = "greeting" THEN "failed" ELSE state[r]]
           /\ UNCHANGED <<version, greeter, out, unversioned>>
  <2>1. TypeOK'
    BY <1>3 DEF IInv, TypeOK, Greeted, States
  <2>2. \A q \in Requests : Moves(q)
    BY <1>3 DEF IInv, TypeOK, Moves
  <2>3. Track'
    BY <1>3, <2>2, MoveStep DEF Greeted
  <2> QED BY <2>1, <2>3 DEF IInv, Track
<1> QED BY <1>1, <1>2, <1>3 DEF Greeted

(* One event settles several requests. *)
LEMMA FailAllMoves ==
  ASSUME TypeOK, NEW r \in Requests, state'[r] = AfterFailAll(r)
  PROVE  Moves(r) /\ state'[r] \in States
  BY DEF TypeOK, AfterFailAll, Moves, Unanswered, States

LEMMA RefusedStep ==
  ASSUME IInv, NEW s \in Sockets, Refused(s) PROVE IInv'
<1>1. \A r \in Requests : Moves(r) /\ state'[r] \in States
  <2> TAKE r \in Requests
  <2>1. CASE WaitsFor(r, s)
    BY <2>1 DEF Refused, WaitsFor, Moves, States
  <2>2. CASE ~WaitsFor(r, s)
    BY <2>2, FailAllMoves DEF IInv, Refused
  <2> QED BY <2>1, <2>2
<1>2. state' \in [Requests -> States]
  BY <1>1 DEF Refused
<1>3. TypeOK'
  BY <1>2 DEF IInv, TypeOK, Refused, daemon
<1>4. \A t \in Sockets : out'[t] \subseteq out[t]
  BY DEF IInv, TypeOK, Refused
<1>5. Track'
  BY <1>1, <1>4, MoveStep DEF Refused, daemon
<1> QED BY <1>3, <1>5 DEF IInv, Track

LEMMA LostStep ==
  ASSUME IInv, NEW s \in Sockets, Lost(s) PROVE IInv'
<1>1. \A r \in Requests : Moves(r) /\ state'[r] \in States
  BY FailAllMoves DEF IInv, Lost
<1>2. state' \in [Requests -> States]
  BY <1>1 DEF Lost
<1>3. TypeOK'
  BY <1>2 DEF IInv, TypeOK, Lost, daemon
<1>4. Track'
  BY <1>1, MoveStep DEF Lost, daemon
<1> QED BY <1>3, <1>4 DEF IInv, Track

LEMMA CloseStep ==
  ASSUME IInv, Close PROVE IInv'
<1>1. TypeOK'
  BY ClientAssumption DEF IInv, TypeOK, Close, daemon, Sockets
<1>2. \A t \in Sockets : out'[t] \subseteq out[t]
  BY DEF IInv, TypeOK, Close
<1>3. Track'
  BY <1>2, MoveStep DEF Close, daemon, Moves
<1> QED BY <1>1, <1>3 DEF IInv, Track

LEMMA RespondStep ==
  ASSUME IInv, NEW s \in Sockets, NEW r \in Requests, Respond(s, r)
  PROVE  IInv'
<1>1. /\ TypeOK /\ r \in responses[s] /\ \A t \in Sockets : r \notin out[t]
      /\ \A t \in Sockets : responses'[t] \subseteq responses[t]
      /\ UNCHANGED <<out, applied, opened, unversioned>>
  BY DEF IInv, TypeOK, Respond, WrittenOnce
<1>2. TypeOK'
  BY DEF IInv, TypeOK, Respond, States
<1>3. \A q \in Requests :
        \/ state'[q] = state[q]
        \/ q = r /\ state[q] = "pending" /\ state'[q] = "answered"
  BY <1>1 DEF TypeOK, Respond
<1>4. Unsent' /\ FailedUnsent'
  BY <1>1, <1>3, ClientAssumption DEF IInv, Unsent, FailedUnsent, Waiting
<1>5. WrittenOnce'
  BY <1>1, <1>3 DEF IInv, WrittenOnce
<1>6. NewUnopened' /\ OpenerNegotiates'
  BY <1>1, <1>3 DEF IInv, NewUnopened, OpenerNegotiates
<1>7. AckedOnlyAnswered'
  BY <1>1, ClientAssumption DEF IInv, TypeOK, Respond, AckedOnlyAnswered
<1> QED BY <1>2, <1>4, <1>5, <1>6, <1>7 DEF IInv

LEMMA HandleStep ==
  ASSUME IInv, NEW s \in Sockets, NEW r \in Requests, Handle(s, r)
  PROVE  IInv'
<1>1. /\ r \in out[s] /\ UNCHANGED client
      /\ applied' = applied \/ applied' = applied \cup ({r} \cap Mutations)
      /\ \A t \in Sockets : out'[t] \subseteq out[t]
      /\ \A t \in Sockets : r \notin out'[t]
      /\ \A t \in Sockets : responses'[t] \subseteq responses[t] \cup {r}
  BY DEF IInv, TypeOK, Handle, WrittenOnce
<1>2. TypeOK'
  BY DEF IInv, TypeOK, Handle, client
<1>3. state[r] \notin Waiting /\ (r \in Mutations => state[r] # "failed")
  BY <1>1 DEF IInv, Unsent, FailedUnsent
<1>4. Unsent' /\ FailedUnsent'
  BY <1>1, <1>3, ClientAssumption DEF IInv, Unsent, FailedUnsent, client
<1>5. WrittenOnce'
  BY <1>1 DEF IInv, WrittenOnce, client
<1>6. NewUnopened' /\ OpenerNegotiates' /\ AckedOnlyAnswered'
  BY <1>1 DEF IInv, NewUnopened, OpenerNegotiates, AckedOnlyAnswered, client
<1> QED BY <1>2, <1>4, <1>5, <1>6 DEF IInv

LEMMA NextInv == IInv /\ [Next]_vars => IInv'
<1> SUFFICES ASSUME IInv, [Next]_vars PROVE IInv'
  OBVIOUS
<1>1. CASE UNCHANGED vars
  BY <1>1 DEF vars, client, daemon, IInv, TypeOK, Unsent, FailedUnsent,
     WrittenOnce, NewUnopened, AckedOnlyAnswered, OpenerNegotiates
<1>2. CASE Next
  BY <1>2, OpenConnectionStep, UseConnectionStep, TimeOutStep, ConnectedStep,
     GreetedStep, RefusedStep, LostStep, CloseStep, RespondStep, HandleStep
  DEF Next
<1> QED BY <1>1, <1>2

LEMMA InductiveInvariant == Spec => []IInv
  BY InitInv, NextInv, PTL DEF Spec

-----------------------------------------------------------------------------
(* The client's and the daemon's variables keep their types, for any        *)
(* requests and connections.                                                *)
THEOREM TypeCorrect == Spec => []TypeOK
<1>1. IInv => TypeOK
  BY DEF IInv
<1> QED BY <1>1, InductiveInvariant, PTL

(* acknowledge: whatever order responses, timers and lost connections come  *)
(* in, only a result that reached its caller is acknowledged.               *)
THEOREM Acknowledgements == Spec => []AckedOnlyAnswered
<1>1. IInv => AckedOnlyAnswered
  BY DEF IInv
<1> QED BY <1>1, InductiveInvariant, PTL

(* connect: the request that opened a connection writes its command only    *)
(* with a protocol version, however connections come and go.                *)
THEOREM Negotiation == Spec => []OpenerNegotiates
<1>1. IInv => OpenerNegotiates
  BY DEF IInv
<1> QED BY <1>1, InductiveInvariant, PTL
-----------------------------------------------------------------------------
(* A request that a step settles is told the truth.                         *)
LEMMA ToldTruly ==
  ASSUME IInv, NEW r \in Requests,
         \/ Moves(r)
         \/ state[r] = "new" /\ state'[r] \in {"connecting", "pending"}
         \/ state[r] \in Waiting /\ state'[r] = "pending"
         \/ state[r] = "pending" /\ state'[r] = "answered"
  PROVE  \/ Reported'[r] = Reported[r]
         \/ Commands!Told(r, Reported'[r])
<1>1. r \notin Mutations => r \notin applied
  BY DEF IInv, TypeOK
<1>2. state[r] \in Waiting => r \notin applied
  BY DEF IInv, Unsent
<1> QED
  BY <1>1, <1>2 DEF Moves, Unanswered, Settled, Waiting, Reported, Commands!Told

(* Every step of the client lets each request move on as above.             *)
LEMMA ClientStep ==
  ASSUME IInv, [Next]_vars
  PROVE  \/ \E s \in Sockets, r \in Requests : Handle(s, r)
         \/ /\ UNCHANGED applied
            /\ \A r \in Requests :
                 \/ Moves(r)
                 \/ state[r] = "new" /\ state'[r] \in {"connecting", "pending"}
                 \/ state[r] \in Waiting /\ state'[r] = "pending"
                 \/ state[r] = "pending" /\ state'[r] = "answered"
<1> DEFINE Goal ==
      /\ UNCHANGED applied
      /\ \A r \in Requests :
           \/ Moves(r)
           \/ state[r] = "new" /\ state'[r] \in {"connecting", "pending"}
           \/ state[r] \in Waiting /\ state'[r] = "pending"
           \/ state[r] = "pending" /\ state'[r] = "answered"
<1>0. TypeOK
  BY DEF IInv
<1>1. ASSUME UNCHANGED state, UNCHANGED applied PROVE Goal
  BY <1>1 DEF Moves
<1>2. ASSUME NEW r \in Requests, NEW n \in BOOLEAN, Write(r, n),
             state[r] \in Waiting, UNCHANGED applied
      PROVE  Goal
  BY <1>2, <1>0, Written DEF Moves
<1>3. ASSUME NEW r \in Requests, OpenConnection(r) PROVE Goal
  BY <1>3, <1>0 DEF OpenConnection, TypeOK, Moves, daemon
<1>4. ASSUME NEW r \in Requests, UseConnection(r) PROVE Goal
  BY <1>4, <1>2, <1>0 DEF UseConnection, TypeOK, Waiting, daemon
<1>5. ASSUME NEW r \in Requests, TimeOut(r) PROVE Goal
  BY <1>5, <1>0 DEF TimeOut, TypeOK, Moves, daemon
<1>6. ASSUME NEW s \in Sockets, Connected(s) PROVE Goal
  <2>1. CASE UNCHANGED state
    BY <1>6, <2>1, <1>1 DEF Connected
  <2>2. ASSUME NEW r \in Requests, WaitsFor(r, s), Write(r, TRUE) PROVE Goal
    BY <1>6, <2>2, <1>2 DEF Connected, WaitsFor, Waiting
  <2>3. ASSUME NEW r \in Requests, WaitsFor(r, s),
               state' = [state EXCEPT ![r] = "greeting"]
        PROVE  Goal
    BY <1>6, <2>3, <1>0 DEF Connected, WaitsFor, TypeOK, Moves
  <2> QED BY <1>6, <2>1, <2>2, <2>3 DEF Connected
<1>7. ASSUME NEW s \in Sockets, Greeted(s) PROVE Goal
  <2>1. CASE UNCHANGED state
    BY <1>7, <2>1, <1>1 DEF Greeted
  <2>2. CASE /\ greeter # Nobody /\ state[greeter] = "greeting"
             /\ Write(greeter, TRUE)
    BY <1>7, <2>2, <1>0, <1>2 DEF Greeted, TypeOK, Waiting
  <2>3. CASE state' = [r \in Requests |->
               IF r = greeter /\ state[r] = "greeting" THEN "failed" ELSE state[r]]
    BY <1>7, <2>3 DEF Greeted, Moves
  <2> QED BY <1>7, <2>1, <2>2, <2>3 DEF Greeted
<1>8. ASSUME NEW s \in Sockets, Refused(s) PROVE Goal
  <2>1. ASSUME NEW r \in Requests PROVE Moves(r)
    <3>1. CASE WaitsFor(r, s)
      BY <1>8, <3>1 DEF Refused, WaitsFor, Moves
    <3>2. CASE ~WaitsFor(r, s)
      BY <1>8, <3>2, <1>0, FailAllMoves DEF Refused
    <3> QED BY <3>1, <3>2
  <2> QED BY <1>8, <2>1 DEF Refused, daemon
<1>9. ASSUME NEW s \in Sockets, Lost(s) PROVE Goal
  BY <1>9, <1>0, FailAllMoves DEF Lost, daemon
<1>10. ASSUME NEW s \in Sockets, NEW r \in Requests, Respond(s, r) PROVE Goal
  BY <1>10, <1>0 DEF Respond, TypeOK, Moves
<1>11. ASSUME Close PROVE Goal
  BY <1>11, <1>1 DEF Close, daemon
<1>12. ASSUME UNCHANGED vars PROVE Goal
  BY <1>12, <1>1 DEF vars, client, daemon
<1> QED
  BY <1>3, <1>4, <1>5, <1>6, <1>7, <1>8, <1>9, <1>10, <1>11, <1>12 DEF Next

(* The command is carried out at most once, and its caller was not told     *)
(* that it failed.                                                          *)
LEMMA HandleRefines ==
  ASSUME IInv, NEW s \in Sockets, NEW r \in Requests, Handle(s, r)
  PROVE  Commands!Apply(r) \/ UNCHANGED <<state, applied>>
<1>1. /\ r \in out[s] /\ UNCHANGED state
      /\ applied' = applied \/ applied' = applied \cup ({r} \cap Mutations)
  BY DEF Handle, client
<1>2. r \notin applied /\ state[r] # "answered"
      /\ (r \in Mutations => state[r] # "failed")
  BY <1>1 DEF IInv, WrittenOnce, FailedUnsent
<1>3. CASE r \in Mutations
  BY <1>1, <1>2, <1>3 DEF Commands!Apply, Settled, Reported
<1>4. CASE r \notin Mutations
  BY <1>1, <1>4
<1> QED BY <1>3, <1>4

(* Each command is reported once and truthfully, and acts at most once: a   *)
(* mutation reported as failed never acts, for any connections that are     *)
(* lost, refused or closed and any answers that come late.                  *)
THEOREM Refinement == Spec => ImplementsCommands
<1>1. Init => Commands!Init
  BY DEF Init, Commands!Init, Reported, Settled
<1>2. IInv /\ [Next]_vars => [Commands!Next]_<<Reported, applied>>
  <2> SUFFICES ASSUME IInv, [Next]_vars
               PROVE  [Commands!Next]_<<Reported, applied>>
    OBVIOUS
  <2>1. ASSUME NEW s \in Sockets, NEW r \in Requests, Handle(s, r)
        PROVE  [Commands!Next]_<<Reported, applied>>
    BY <2>1, HandleRefines DEF Commands!Next, Reported
  <2>2. ASSUME UNCHANGED applied,
               \A r \in Requests : \/ Reported'[r] = Reported[r]
                                  \/ Commands!Told(r, Reported'[r])
        PROVE  Commands!Report
    <3>1. \A r \in Requests :
            Reported'[r] \in {"none", "answered", "uncertain", "failed"}
      BY DEF Reported, Settled
    <3>2. Reported' \in
            [Requests -> {"none", "answered", "uncertain", "failed"}]
      BY <3>1 DEF Reported
    <3> QED BY <2>2, <3>2 DEF Commands!Report
  <2> QED BY <2>1, <2>2, ClientStep, ToldTruly DEF Commands!Next
<1> QED BY <1>1, <1>2, InductiveInvariant, PTL
        DEF Spec, ImplementsCommands, Commands!Spec
=============================================================================
