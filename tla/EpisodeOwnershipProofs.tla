----------------------- MODULE EpisodeOwnershipProofs -----------------------
(***************************************************************************)
(* Proofs about the ownership registry, for any Conversations, tasks,      *)
(* paths and records.                                                      *)
(***************************************************************************)
EXTENDS EpisodeOwnership, TLAPS

(* An entry moved by a provider switch is a Backlog entry. *)
LEMMA MovedEntry ==
  ASSUME NEW r \in Record, LiveTask(r),
         NEW k \in Tasks, NEW p \in Paths, NEW x \in Contents
  PROVE  /\ MovedTo(r, k, p, x) \in Record
         /\ LiveTask(MovedTo(r, k, p, x))
         /\ MovedTo(r, k, p, x).provider = TargetProvider
         /\ MovedTo(r, k, p, x).status = r.status
         /\ MovedTo(r, k, p, x).episode = r.episode
<1> DEFINE m == MovedTo(r, k, p, x)
<1>1. /\ m \in BacklogRecord
      /\ m.provider = TargetProvider
      /\ m.status = r.status /\ m.episode = r.episode /\ m.version = 2
  BY DEF Record, FolderRecord, BacklogRecord, BeadsRecord, LiveTask,
         TargetProvider, MovedTo
<1>2. m \in Record
  BY <1>1 DEF Record, Bound
<1> QED
  BY <1>1, <1>2, OwnershipAssumption DEF LiveTask, Live

(* What an operation computes from a registry is a registry. *)
LEMMA ResultType ==
  ASSUME TypeOK, NEW c \in Owners, op[c].kind \notin {"none", "retire"},
         op[c].kind = "restore" => undo[c] # NoSwitch
  PROVE  Result(c) \in Registry
<1>1. CASE op[c].kind \in {"put", "advance"}
  BY <1>1 DEF TypeOK, Op, Registry, Result
<1>2. CASE op[c].kind = "remove"
  BY <1>2 DEF TypeOK, Op, Registry, Result
<1>3. CASE op[c].kind = "switch"
  <2>1. /\ op[c].keys \in [Tasks -> Tasks] /\ op[c].paths \in [Tasks -> Paths]
        /\ op[c].content \in Contents
    BY <1>3 DEF TypeOK, Op
  <2>2. ASSUME NEW d \in Owners, LiveTask(registry[d])
        PROVE  registry[d] \in Record /\ registry[d].key \in Tasks
    BY <2>2 DEF TypeOK, Registry, LiveTask, Live, Record, FolderRecord,
                BacklogRecord, BeadsRecord
  <2>3. ASSUME NEW d \in Owners
        PROVE  Switched(op[c])[d] \in Record \cup {NoRecord}
    <3>1. CASE LiveTask(registry[d])
      BY <3>1, <2>1, <2>2, MovedEntry DEF Switched
    <3>2. CASE ~LiveTask(registry[d])
      BY <3>2 DEF TypeOK, Registry, Switched
    <3> QED BY <3>1, <3>2
  <2> QED BY <1>3, <2>3 DEF Result, Switched, Registry
<1>4. CASE op[c].kind = "restore"
  BY <1>4 DEF TypeOK, Undo, Result
<1> QED BY <1>1, <1>2, <1>3, <1>4 DEF TypeOK, Op

-----------------------------------------------------------------------------
(* The operation at hand and the switch it may settle belong together.      *)
OpInv ==
  \A c \in Owners :
    /\ pc[c] = "idle" <=> op[c].kind = "none"
    /\ op[c].kind \in {"retire", "restore"} /\ pc[c] # "published"
         => undo[c] # NoSwitch
    /\ pc[c] = "computed" => op[c].kind # "retire"

(* An operation never gets ahead of its type, wherever it stands.           *)
TypeInv == TypeOK /\ OpInv

LEMMA StartType ==
  ASSUME TypeInv, NEW c \in Owners, NEW o \in Op, Start(c, o), UNCHANGED undo,
         o.kind # "none",
         o.kind \in {"retire", "restore"} => undo[c] # NoSwitch
  PROVE  TypeInv'
<1>1. TypeOK'
  BY DEF TypeInv, TypeOK, Start
<1>2. OpInv'
  BY DEF TypeInv, TypeOK, OpInv, Start
<1> QED BY <1>1, <1>2 DEF TypeInv

LEMMA VacantType == Vacant \in Registry
  BY DEF Vacant, Registry

(* After an operation the Conversation is idle again. *)
LEMMA FinishType ==
  ASSUME TypeInv, NEW c \in Owners, Finish(c), UNCHANGED registry,
         lockDir' \in BOOLEAN,
         NEW u \in Undo, undo' = [undo EXCEPT ![c] = u]
  PROVE  TypeInv'
<1>1. TypeOK'
  BY VacantType DEF TypeInv, TypeOK, Finish, NoOp, Op
<1>2. OpInv'
  BY DEF TypeInv, TypeOK, OpInv, Finish, NoOp
<1> QED BY <1>1, <1>2 DEF TypeInv

LEMMA FailureType ==
  ASSUME TypeInv, NEW c \in Owners, pc[c] # "published"
  PROVE  UndoAfterFailure(c) \in Undo
<1>1. undo[c] \in Undo
  BY DEF TypeInv, TypeOK
<1>2. CASE op[c].kind = "retire"
  BY <1>1, <1>2 DEF TypeInv, OpInv, UndoAfterFailure, Undo
<1>3. CASE op[c].kind # "retire"
  BY <1>1, <1>3 DEF UndoAfterFailure, Undo
<1> QED BY <1>2, <1>3

(* Every step keeps the types. *)
LEMMA TypeStep == TypeInv /\ [Next]_vars => TypeInv'
<1> SUFFICES ASSUME TypeInv, [Next]_vars PROVE TypeInv'
  OBVIOUS
<1>1. ASSUME NEW c \in Owners, BeginPut(c) PROVE TypeInv'
  <2>1. PICK r \in Record : Start(c, [kind |-> "put", record |-> r])
    BY <1>1 DEF BeginPut
  <2> QED BY <1>1, <2>1, StartType DEF BeginPut, Op
<1>2. ASSUME NEW c \in Owners, BeginRemove(c) PROVE TypeInv'
  <2>1. registry[c] \in Record
    BY <1>2 DEF TypeInv, TypeOK, Registry, BeginRemove, LiveTask, Live
  <2> QED BY <1>2, <2>1, StartType DEF BeginRemove, Op
<1>3. ASSUME NEW c \in Owners, BeginAdvance(c) PROVE TypeInv'
  <2>1. registry[c] \in Record
    BY <1>3 DEF TypeInv, TypeOK, Registry, BeginAdvance, LiveTask, Live
  <2>2. PICK content \in Contents :
          Start(c, [kind |-> "advance", expected |-> registry[c],
                    record |-> [registry[c] EXCEPT !.content = content]])
    BY <1>3 DEF BeginAdvance
  <2>3. [registry[c] EXCEPT !.content = content] \in Record
    BY <2>1 DEF Record, FolderRecord, BacklogRecord, BeadsRecord, Bound
  <2> QED BY <1>3, <2>1, <2>2, <2>3, StartType DEF BeginAdvance, Op
<1>4. ASSUME NEW c \in Owners, BeginSwitch(c) PROVE TypeInv'
  <2>1. PICK keys \in [Tasks -> Tasks], paths \in [Tasks -> Paths],
             content \in Contents :
          Start(c, [kind |-> "switch", expected |-> registry, keys |-> keys,
                    paths |-> paths, content |-> content])
    BY <1>4 DEF BeginSwitch
  <2>2. registry \in Registry
    BY DEF TypeInv, TypeOK
  <2> QED BY <1>4, <2>1, <2>2, StartType DEF BeginSwitch, Op
<1>5. ASSUME NEW c \in Owners, BeginRetire(c) \/ BeginRestore(c) PROVE TypeInv'
  BY <1>5, StartType DEF BeginRetire, BeginRestore, Op, NoSwitch
<1>6. ASSUME NEW c \in Owners, AbandonRollback(c) PROVE TypeInv'
  BY <1>6 DEF AbandonRollback, TypeInv, TypeOK, OpInv, Undo
<1>7. ASSUME NEW c \in Owners, Acquire(c) PROVE TypeInv'
  BY <1>7 DEF Acquire, TypeInv, TypeOK, OpInv, Critical
<1>8. ASSUME NEW c \in Owners, TimeOut(c) \/ Refuse(c) PROVE TypeInv'
  <2>1. pc[c] # "published"
    BY <1>8 DEF TimeOut, Refuse
  <2> QED BY <1>8, <2>1, FinishType, FailureType DEF TimeOut, Refuse, TypeInv, TypeOK
<1>9. ASSUME NEW c \in Owners, Compute(c) PROVE TypeInv'
  <2>1. Result(c) \in Registry
    BY <1>9, ResultType DEF Compute, TypeInv, OpInv
  <2> QED BY <1>9, <2>1 DEF Compute, TypeInv, TypeOK, OpInv, Critical
<1>10. ASSUME NEW c \in Owners, Publish(c) PROVE TypeInv'
  <2>1. /\ registry \in Registry /\ next[c] \in Registry
        /\ undo[c] \in Undo
    BY DEF TypeInv, TypeOK
  <2>2. registry' \in Registry
    BY <1>10, <2>1 DEF Publish
  <2>3. undo' \in [Owners -> Undo]
    BY <1>10, <2>1 DEF Publish, Undo, TypeInv, TypeOK
  <2>4. TypeOK'
    BY <1>10, <2>2, <2>3 DEF Publish, TypeInv, TypeOK, Critical
  <2>5. OpInv'
    BY <1>10 DEF Publish, TypeInv, TypeOK, OpInv
  <2> QED BY <2>4, <2>5 DEF TypeInv
<1>11. ASSUME NEW c \in Owners, Release(c) PROVE TypeInv'
  <2>1. undo[c] \in Undo /\ undo' = [undo EXCEPT ![c] = undo[c]]
    BY <1>11 DEF Release, TypeInv, TypeOK
  <2> QED BY <1>11, <2>1, FinishType DEF Release, TypeInv, TypeOK
<1>12. ASSUME NEW c \in Owners, Retire(c) PROVE TypeInv'
  BY <1>12 DEF Retire, TypeInv, TypeOK, OpInv, Critical
<1>13. ASSUME NEW c \in Owners, RetireEnds(c) PROVE TypeInv'
  <2>1. /\ NoSwitch \in Undo
        /\ UndoAfterFailure(c) \in Undo
    BY <1>13, FailureType DEF RetireEnds, Undo
  <2> QED BY <1>13, <2>1, FinishType DEF RetireEnds
<1>14. ASSUME NEW c \in Owners, Crash(c) PROVE TypeInv'
  <2>1. NoSwitch \in Undo
    BY DEF Undo
  <2> QED BY <1>14, <2>1, FinishType DEF Crash, TypeInv, TypeOK
<1>15. CASE UNCHANGED vars
  BY <1>15 DEF vars, TypeInv, TypeOK, OpInv
<1> QED
  BY <1>1, <1>2, <1>3, <1>4, <1>5, <1>6, <1>7, <1>8, <1>9, <1>10, <1>11,
     <1>12, <1>13, <1>14, <1>15 DEF Next

LEMMA TypeInit == Init => TypeInv
<1> SUFFICES ASSUME Init PROVE TypeInv
  OBVIOUS
<1>1. NoOp \in Op /\ NoSwitch \in Undo
  BY DEF NoOp, Op, Undo
<1>2. TypeOK
  BY <1>1, VacantType DEF Init, TypeOK
<1>3. OpInv
  BY DEF Init, OpInv, NoOp
<1> QED BY <1>2, <1>3 DEF TypeInv

LEMMA TypeInvariant == Spec => []TypeInv
  BY TypeInit, TypeStep, PTL DEF Spec

(* The registry file, the lock and what each process holds in memory always *)
(* have their types: no operation publishes a malformed entry.              *)
THEOREM TypeCorrect == Spec => []TypeOK
  BY TypeInvariant, PTL DEF TypeInv

-----------------------------------------------------------------------------
(* A Conversation's step leaves the other Conversations where they are.     *)
LEMMA Locals ==
  ASSUME TypeInv, NEW c \in Owners,
         \/ BeginPut(c) \/ BeginRemove(c) \/ BeginAdvance(c) \/ BeginSwitch(c)
         \/ BeginRetire(c) \/ BeginRestore(c) \/ AbandonRollback(c)
         \/ Acquire(c) \/ TimeOut(c)
         \/ Compute(c) \/ Refuse(c) \/ Publish(c) \/ Release(c)
         \/ Retire(c) \/ RetireEnds(c) \/ Crash(c)
  PROVE  /\ \A d \in Owners \ {c} :
              /\ pc'[d] = pc[d] /\ op'[d] = op[d]
              /\ next'[d] = next[d] /\ undo'[d] = undo[d]
         /\ Publish(c) \/ registry' = registry
<1>1. ASSUME NEW o, Start(c, o), UNCHANGED undo
      PROVE  /\ \A d \in Owners \ {c} :
                  /\ pc'[d] = pc[d] /\ op'[d] = op[d]
                  /\ next'[d] = next[d] /\ undo'[d] = undo[d]
             /\ registry' = registry
  BY <1>1 DEF Start, TypeInv, TypeOK
<1>2. CASE \/ BeginPut(c) \/ BeginRemove(c) \/ BeginAdvance(c)
           \/ BeginSwitch(c) \/ BeginRetire(c) \/ BeginRestore(c)
  BY <1>1, <1>2 DEF BeginPut, BeginRemove, BeginAdvance, BeginSwitch,
                    BeginRetire, BeginRestore
<1>3. CASE AbandonRollback(c) \/ Acquire(c) \/ Compute(c) \/ Retire(c)
  BY <1>3 DEF AbandonRollback, Acquire, Compute, Retire, TypeInv, TypeOK
<1>4. CASE TimeOut(c) \/ Refuse(c) \/ Release(c) \/ RetireEnds(c) \/ Crash(c)
  BY <1>4 DEF TimeOut, Refuse, Release, RetireEnds, Crash, Finish, TypeInv,
              TypeOK
<1>5. CASE Publish(c)
  BY <1>5 DEF Publish, TypeInv, TypeOK
<1> QED BY <1>2, <1>3, <1>4, <1>5

(* Every step keeps the lock exclusive: only its taker removes it.          *)
LEMMA LockStep == TypeInv /\ LockExclusion /\ [Next]_vars => LockExclusion'
<1> SUFFICES ASSUME TypeInv, LockExclusion, [Next]_vars PROVE LockExclusion'
  OBVIOUS
<1> USE DEF LockExclusion, Critical
<1>1. ASSUME NEW c \in Owners, NEW o, Start(c, o) PROVE LockExclusion'
  BY <1>1 DEF Start, TypeInv, TypeOK
<1>2. ASSUME NEW c \in Owners,
             \/ BeginPut(c) \/ BeginRemove(c) \/ BeginAdvance(c)
             \/ BeginSwitch(c) \/ BeginRetire(c) \/ BeginRestore(c)
      PROVE  LockExclusion'
  BY <1>1, <1>2 DEF BeginPut, BeginRemove, BeginAdvance, BeginSwitch,
                    BeginRetire, BeginRestore
<1>3. ASSUME NEW c \in Owners, AbandonRollback(c) PROVE LockExclusion'
  BY <1>3 DEF AbandonRollback
<1>4. ASSUME NEW c \in Owners, Acquire(c) PROVE LockExclusion'
  BY <1>4 DEF Acquire, TypeInv, TypeOK
<1>5. ASSUME NEW c \in Owners, TimeOut(c) \/ Crash(c) PROVE LockExclusion'
  BY <1>5 DEF TimeOut, Crash, Finish, TypeInv, TypeOK
<1>6. ASSUME NEW c \in Owners, Compute(c) \/ Publish(c) \/ Retire(c)
      PROVE  LockExclusion'
  BY <1>6 DEF Compute, Publish, Retire, TypeInv, TypeOK
<1>7. ASSUME NEW c \in Owners, Refuse(c) \/ Release(c) \/ RetireEnds(c)
      PROVE  LockExclusion'
  BY <1>7 DEF Refuse, Release, RetireEnds, Finish, TypeInv, TypeOK
<1>8. CASE UNCHANGED vars
  BY <1>8 DEF vars
<1> QED BY <1>2, <1>3, <1>4, <1>5, <1>6, <1>7, <1>8 DEF Next

(* At most one process is inside the lock, and the directory is there: with *)
(* a lock that names no holder this rests on every taker, and nobody else,  *)
(* removing it.                                                             *)
THEOREM MutualExclusion == Spec => []LockExclusion
<1>1. Init => LockExclusion
  BY DEF Init, LockExclusion, Critical
<1> QED BY <1>1, LockStep, TypeInvariant, PTL DEF Spec

-----------------------------------------------------------------------------
(* What a caller decided before it had the lock. *)
RequestInv ==
  \A c \in Owners :
    /\ op[c].kind = "remove" =>
         LiveTask(op[c].expected) /\ op[c].expected.status = "active"
    /\ op[c].kind = "advance" =>
         SameBinding(op[c].expected, op[c].record)

(* What a process inside the lock knows of the file, which nobody else can  *)
(* change before it leaves: the checks it made and the file it computed     *)
(* still hold.                                                              *)
FileInv ==
  /\ Unique(registry)
  /\ \A c \in Owners :
       /\ pc[c] = "computed" =>
            Accepts(c) /\ next[c] = Result(c) /\ Unique(next[c])
       /\ pc[c] = "destroying" =>
            op[c].kind = "retire" /\ registry = undo[c].after

(* An unsettled switch moved the source provider's entries and no other.    *)
SwitchInv ==
  \A c \in Owners :
    undo[c] # NoSwitch =>
      /\ MovesProvider(undo[c].before, undo[c].after,
                       SourceProvider, TargetProvider)
      /\ Unique(undo[c].before)

IInv == TypeInv /\ LockExclusion /\ RequestInv /\ FileInv /\ SwitchInv

LEMMA RequestStep == TypeInv /\ RequestInv /\ [Next]_vars => RequestInv'
<1> SUFFICES ASSUME TypeInv, RequestInv, [Next]_vars PROVE RequestInv'
  OBVIOUS
<1>1. CASE UNCHANGED vars
  BY <1>1 DEF vars, RequestInv
<1>2. ASSUME NEW c \in Owners,
             \/ BeginPut(c) \/ BeginRemove(c) \/ BeginAdvance(c)
             \/ BeginSwitch(c) \/ BeginRetire(c) \/ BeginRestore(c)
      PROVE  RequestInv'
  <2>1. ASSUME NEW o, Start(c, o),
               o.kind = "remove" =>
                 LiveTask(o.expected) /\ o.expected.status = "active",
               o.kind = "advance" => SameBinding(o.expected, o.record)
        PROVE  RequestInv'
    BY <2>1 DEF Start, RequestInv, TypeInv, TypeOK
  <2>2. CASE BeginPut(c)
    BY <2>1, <2>2 DEF BeginPut
  <2>3. CASE BeginRemove(c)
    BY <2>1, <2>3 DEF BeginRemove
  <2>4. CASE BeginAdvance(c)
    <3>1. registry[c] \in Record
      BY <2>4 DEF TypeInv, TypeOK, Registry, BeginAdvance, LiveTask, Live
    <3>2. \A content \in Contents :
            SameBinding(registry[c], [registry[c] EXCEPT !.content = content])
      BY <3>1 DEF SameBinding, Record, FolderRecord, BacklogRecord, BeadsRecord
    <3> QED BY <2>1, <2>4, <3>2 DEF BeginAdvance
  <2>5. CASE BeginSwitch(c) \/ BeginRetire(c) \/ BeginRestore(c)
    BY <2>1, <2>5 DEF BeginSwitch, BeginRetire, BeginRestore
  <2> QED BY <1>2, <2>2, <2>3, <2>4, <2>5
<1>3. ASSUME NEW c \in Owners,
             \/ TimeOut(c) \/ Refuse(c) \/ Release(c) \/ RetireEnds(c)
             \/ Crash(c)
      PROVE  RequestInv'
  BY <1>3 DEF TimeOut, Refuse, Release, RetireEnds, Crash, Finish, NoOp,
              RequestInv, TypeInv, TypeOK
<1>4. ASSUME NEW c \in Owners,
             \/ AbandonRollback(c) \/ Acquire(c) \/ Compute(c) \/ Publish(c)
             \/ Retire(c)
      PROVE  RequestInv'
  BY <1>4 DEF AbandonRollback, Acquire, Compute, Publish, Retire, RequestInv
<1> QED BY <1>1, <1>2, <1>3, <1>4 DEF Next

(* A switch that is still current moves the source provider's entries.      *)
LEMMA SwitchMoves ==
  ASSUME TypeInv, NEW c \in Owners, op[c].kind = "switch", Accepts(c)
  PROVE  MovesProvider(registry, Result(c), SourceProvider, TargetProvider)
<1>1. /\ op[c].keys \in [Tasks -> Tasks] /\ op[c].paths \in [Tasks -> Paths]
      /\ op[c].content \in Contents
  BY DEF TypeInv, TypeOK, Op
<1>2. SwitchIsCurrent(op[c].expected)
  BY DEF Accepts
<1>3. Result(c) = Switched(op[c])
  BY DEF Result
<1>4. ASSUME NEW d \in Owners, LiveTask(registry[d])
      PROVE  /\ registry[d].provider = SourceProvider
             /\ LiveTask(Result(c)[d])
             /\ Result(c)[d].provider = TargetProvider
             /\ Result(c)[d].status = registry[d].status
             /\ Result(c)[d].episode = registry[d].episode
  <2>1. registry[d] \in Record /\ registry[d].key \in Tasks
    BY <1>4 DEF TypeInv, TypeOK, Registry, LiveTask, Live, Record,
                FolderRecord, BacklogRecord, BeadsRecord
  <2> DEFINE k == op[c].keys[registry[d].key]
             p == op[c].paths[registry[d].key]
             m == MovedTo(registry[d], k, p, op[c].content)
  <2>2. k \in Tasks /\ p \in Paths
    BY <1>1, <2>1
  <2>3. /\ LiveTask(m) /\ m.provider = TargetProvider
        /\ m.status = registry[d].status /\ m.episode = registry[d].episode
    BY <1>1, <1>4, <2>1, <2>2, MovedEntry
  <2>4. Result(c)[d] = m
    BY <1>3, <1>4 DEF Switched
  <2>5. registry[d].provider = SourceProvider
    BY <1>2, <1>4 DEF SwitchIsCurrent
  <2> QED BY <2>3, <2>4, <2>5
<1>5. ASSUME NEW d \in Owners, ~LiveTask(registry[d])
      PROVE  Result(c)[d] = registry[d]
  BY <1>3, <1>5 DEF Switched
<1> QED BY <1>4, <1>5 DEF MovesProvider

LEMMA SwitchStep ==
  TypeInv /\ FileInv /\ SwitchInv /\ [Next]_vars => SwitchInv'
<1> SUFFICES ASSUME TypeInv, FileInv, SwitchInv, [Next]_vars PROVE SwitchInv'
  OBVIOUS
<1>1. CASE UNCHANGED undo
  BY <1>1 DEF SwitchInv
<1>2. ASSUME NEW c \in Owners, NEW u, undo' = [undo EXCEPT ![c] = u],
             u # NoSwitch =>
               /\ MovesProvider(u.before, u.after, SourceProvider,
                                TargetProvider)
               /\ Unique(u.before)
      PROVE  SwitchInv'
  BY <1>2 DEF SwitchInv, TypeInv, TypeOK
<1>3. ASSUME NEW c \in Owners,
             \/ BeginPut(c) \/ BeginRemove(c) \/ BeginAdvance(c)
             \/ BeginSwitch(c) \/ BeginRetire(c) \/ BeginRestore(c)
             \/ Acquire(c) \/ Compute(c) \/ Release(c) \/ Retire(c)
      PROVE  SwitchInv'
  BY <1>1, <1>3 DEF BeginPut, BeginRemove, BeginAdvance, BeginSwitch,
       BeginRetire, BeginRestore, Acquire, Compute, Release, Retire
<1>4. ASSUME NEW c \in Owners, AbandonRollback(c) \/ Crash(c)
      PROVE  SwitchInv'
  BY <1>2, <1>4 DEF AbandonRollback, Crash
<1>5. ASSUME NEW c \in Owners, TimeOut(c) \/ Refuse(c) \/ RetireEnds(c)
      PROVE  SwitchInv'
  <2>1. UndoAfterFailure(c) # NoSwitch =>
          /\ undo[c] # NoSwitch
          /\ UndoAfterFailure(c).before = undo[c].before
          /\ UndoAfterFailure(c).after = undo[c].after
    <3>1. pc[c] # "published" /\ undo[c] \in Undo
      BY <1>5 DEF TimeOut, Refuse, RetireEnds, TypeInv, TypeOK
    <3>2. CASE op[c].kind = "retire"
      BY <3>1, <3>2 DEF UndoAfterFailure, Undo, NoSwitch, TypeInv, OpInv
    <3>3. CASE op[c].kind # "retire"
      BY <3>3 DEF UndoAfterFailure
    <3> QED BY <3>2, <3>3
  <2>2. UndoAfterFailure(c) # NoSwitch =>
          /\ MovesProvider(UndoAfterFailure(c).before,
               UndoAfterFailure(c).after, SourceProvider, TargetProvider)
          /\ Unique(UndoAfterFailure(c).before)
    BY <2>1 DEF SwitchInv
  <2> QED BY <1>2, <1>5, <2>2 DEF TimeOut, Refuse, RetireEnds
<1>6. ASSUME NEW c \in Owners, Publish(c) PROVE SwitchInv'
  <2>1. Accepts(c) /\ next[c] = Result(c) /\ Unique(registry)
    BY <1>6 DEF Publish, FileInv
  <2>2. CASE op[c].kind = "switch"
    <3> DEFINE u == [phase |-> "switched", before |-> registry,
                     after |-> next[c]]
    <3>1. undo' = [undo EXCEPT ![c] = u]
      BY <1>6, <2>2 DEF Publish
    <3>2. u.before = registry /\ u.after = next[c]
      OBVIOUS
    <3>3. MovesProvider(u.before, u.after, SourceProvider, TargetProvider)
      BY <2>1, <2>2, <3>2, SwitchMoves
    <3> QED BY <1>2, <2>1, <3>1, <3>2, <3>3
  <2>3. CASE op[c].kind = "restore"
    BY <1>2, <1>6, <2>3 DEF Publish
  <2>4. CASE op[c].kind \notin {"switch", "restore"}
    BY <1>2, <1>6, <2>4 DEF Publish, SwitchInv
  <2> QED BY <2>2, <2>3, <2>4
<1>7. CASE UNCHANGED vars
  BY <1>1, <1>7 DEF vars
<1> QED BY <1>3, <1>4, <1>5, <1>6, <1>7 DEF Next

(* A process that keeps its operation and its switch still accepts what it  *)
(* accepted of an unchanged file, and computes the same from it.            *)
LEMMA Frame ==
  ASSUME NEW c \in Owners, registry' = registry,
         op'[c] = op[c], undo'[c] = undo[c]
  PROVE  Accepts(c)' = Accepts(c) /\ Result(c)' = Result(c)
<1>1. /\ \A o : SwitchIsCurrent(o)' = SwitchIsCurrent(o)
      /\ \A r : ForeignCollision(c, r)' = ForeignCollision(c, r)
      /\ \A o : Switched(o)' = Switched(o)
  BY DEF SwitchIsCurrent, ForeignCollision, Switched
<1>2. Accepts(c)' = Accepts(c)
  BY <1>1 DEF Accepts
<1>3. Result(c)' = Result(c)
  BY <1>1 DEF Result
<1> QED BY <1>2, <1>3

(* What the process knows of the file survives the steps of the others.     *)
LEMMA FileStep ==
  TypeInv /\ LockExclusion /\ FileInv /\ [Next]_vars => FileInv'
<1> SUFFICES ASSUME TypeInv, LockExclusion, FileInv, [Next]_vars
             PROVE  FileInv'
  OBVIOUS
<1> DEFINE Knows(d) ==
      /\ pc[d] = "computed" =>
           Accepts(d) /\ next[d] = Result(d) /\ Unique(next[d])
      /\ pc[d] = "destroying" =>
           op[d].kind = "retire" /\ registry = undo[d].after
<1>1. CASE UNCHANGED vars
  <2>1. ASSUME NEW d \in Owners PROVE Accepts(d)' = Accepts(d)
                                      /\ Result(d)' = Result(d)
    BY <1>1, <2>1, Frame DEF vars
  <2> QED BY <1>1, <2>1 DEF vars, FileInv, Unique
<1>2. ASSUME NEW c \in Owners,
             \/ BeginPut(c) \/ BeginRemove(c) \/ BeginAdvance(c)
             \/ BeginSwitch(c) \/ BeginRetire(c) \/ BeginRestore(c)
             \/ AbandonRollback(c) \/ Acquire(c) \/ TimeOut(c)
             \/ Compute(c) \/ Refuse(c) \/ Publish(c) \/ Release(c)
             \/ Retire(c) \/ RetireEnds(c) \/ Crash(c)
      PROVE  FileInv'
  <2>1. ASSUME NEW d \in Owners \ {c} PROVE Knows(d)'
    <3>1. /\ pc'[d] = pc[d] /\ op'[d] = op[d]
          /\ next'[d] = next[d] /\ undo'[d] = undo[d]
      BY <1>2, <2>1, Locals
    <3>2. CASE registry' = registry
      <4>1. Accepts(d)' = Accepts(d) /\ Result(d)' = Result(d)
        BY <3>1, <3>2, <2>1, Frame
      <4> QED BY <3>1, <3>2, <4>1, <2>1 DEF FileInv, Unique
    <3>3. CASE Publish(c)
      BY <3>1, <3>3, <2>1 DEF Publish, LockExclusion, Critical
    <3> QED BY <1>2, <3>2, <3>3, Locals
  <2>2. Knows(c)'
    <3>1. CASE Compute(c)
      <4>1. Accepts(c)' = Accepts(c) /\ Result(c)' = Result(c)
        BY <3>1, Frame DEF Compute
      <4> QED BY <3>1, <4>1 DEF Compute, TypeInv, TypeOK, Unique
    <3>2. CASE Retire(c)
      BY <3>2 DEF Retire, Accepts, TypeInv, TypeOK
    <3>3. CASE ~Compute(c) /\ ~Retire(c)
      <4>1. pc'[c] \notin {"computed", "destroying"}
        BY <1>2, <3>3 DEF BeginPut, BeginRemove, BeginAdvance, BeginSwitch,
           BeginRetire, BeginRestore, Start, AbandonRollback, Acquire,
           TimeOut, Refuse, Publish, Release, RetireEnds, Crash, Finish,
           TypeInv, TypeOK
      <4> QED BY <4>1
    <3> QED BY <3>1, <3>2, <3>3
  <2>3. Unique(registry)'
    <3>1. CASE registry' = registry
      BY <3>1 DEF FileInv, Unique
    <3>2. CASE Publish(c)
      BY <3>2 DEF Publish, FileInv, Unique
    <3> QED BY <1>2, <3>1, <3>2, Locals
  <2> QED BY <2>1, <2>2, <2>3 DEF FileInv
<1> QED BY <1>1, <1>2 DEF Next

LEMMA InductiveInvariant == Spec => []IInv
<1>1. Init => IInv
  <2> SUFFICES ASSUME Init PROVE RequestInv /\ FileInv /\ SwitchInv
                                 /\ LockExclusion
    BY TypeInit DEF IInv
  <2>1. RequestInv /\ LockExclusion /\ SwitchInv
    BY DEF Init, RequestInv, NoOp, LockExclusion, Critical, SwitchInv
  <2>2. FileInv
    BY DEF Init, FileInv, Unique, Vacant, Live
  <2> QED BY <2>1, <2>2
<1>2. IInv /\ [Next]_vars => IInv'
  BY TypeStep, LockStep, RequestStep, FileStep, SwitchStep DEF IInv
<1> QED BY <1>1, <1>2, PTL DEF Spec

(* No two Conversations ever own live Episodes of the same task, Backlog    *)
(* path or folder in the published file.                                    *)
THEOREM BindingsUnique == Spec => []ActiveBindingsUnique
<1>1. IInv => ActiveBindingsUnique
  BY DEF IInv, FileInv, ActiveBindingsUnique
<1> QED BY <1>1, InductiveInvariant, PTL

(* The old provider's store is destroyed only while no live entry names it. *)
THEOREM DestructionSafe == Spec => []RetiredProviderUnowned
<1>1. ASSUME IInv PROVE RetiredProviderUnowned
  <2> SUFFICES ASSUME NEW c \in Owners, pc[c] = "destroying"
               PROVE  /\ registry = undo[c].after
                      /\ \A d \in Owners : LiveTask(registry[d]) =>
                           registry[d].provider = TargetProvider
    BY DEF RetiredProviderUnowned
  <2>1. registry = undo[c].after /\ op[c].kind = "retire"
    BY <1>1 DEF IInv, FileInv
  <2>2. undo[c] # NoSwitch
    BY <1>1, <2>1 DEF IInv, TypeInv, OpInv
  <2>3. MovesProvider(undo[c].before, registry,
                      SourceProvider, TargetProvider)
    BY <1>1, <2>1, <2>2 DEF IInv, SwitchInv
  <2> QED BY <2>1, <2>3 DEF MovesProvider
<1> QED BY <1>1, InductiveInvariant, PTL

-----------------------------------------------------------------------------
(* The instance speaks of the same records and predicates as this module.   *)
LEMMA SameTerms ==
  /\ Atomic!Registry = Registry /\ Atomic!Record = Record
  /\ Atomic!Providers = Providers
  /\ \A r : Atomic!LiveTask(r) = LiveTask(r)
  /\ \A r, s : Atomic!Replaceable(r, s) = Replaceable(r, s)
  /\ \A f : Atomic!Unique(f) = Unique(f)
  /\ \A f, g, p, q :
       Atomic!MovesProvider(f, g, p, q) = MovesProvider(f, g, p, q)
<1>1. /\ Atomic!Record = Record /\ Atomic!Providers = Providers
      /\ \A r : Atomic!Live(r) = Live(r)
      /\ \A r, s : Atomic!SameBinding(r, s) = SameBinding(r, s)
      /\ \A r, s : Atomic!Collide(r, s) = Collide(r, s)
  BY DEF Record, FolderRecord, BacklogRecord, BeadsRecord, Statuses, Bound,
     Providers, Live, SameBinding, Collide, Atomic!Record,
     Atomic!FolderRecord, Atomic!BacklogRecord, Atomic!BeadsRecord,
     Atomic!Statuses, Atomic!Bound, Atomic!Providers, Atomic!Live,
     Atomic!SameBinding, Atomic!Collide
<1>2. /\ Atomic!Registry = Registry
      /\ \A r : Atomic!LiveTask(r) = LiveTask(r)
      /\ \A r, s : Atomic!Replaceable(r, s) = Replaceable(r, s)
      /\ \A f : Atomic!Unique(f) = Unique(f)
  BY <1>1 DEF Registry, LiveTask, Replaceable, Unique, Atomic!Registry,
     Atomic!LiveTask, Atomic!Replaceable, Atomic!Unique
<1>3. \A f, g, p, q :
        Atomic!MovesProvider(f, g, p, q) = MovesProvider(f, g, p, q)
  BY <1>2 DEF MovesProvider, Atomic!MovesProvider
<1> QED BY <1>1, <1>2, <1>3

(* A published file is one atomic operation of the registry on the one      *)
(* before it.                                                               *)
LEMMA PublishRefines ==
  ASSUME IInv, NEW c \in Owners, Publish(c)
  PROVE  Atomic!Next
<1>1. /\ Accepts(c) /\ registry' = Result(c) /\ Unique(registry')
      /\ Unique(registry) /\ registry \in Registry
      /\ op[c] \in Op /\ op[c].kind \notin {"none", "retire"}
  BY DEF Publish, IInv, FileInv, TypeInv, TypeOK, OpInv
<1>2. registry' \in Registry
  BY TypeStep DEF IInv, TypeInv, TypeOK, Next
<1>3. CASE op[c].kind = "put"
  <2>1. op[c].record \in Record
    BY <1>1, <1>3 DEF Op
  <2>2. Atomic!Put(c, op[c].record)
    BY <1>1, <1>3, SameTerms DEF Accepts, Result, Atomic!Put
  <2> QED BY <2>1, <2>2, SameTerms DEF Atomic!Next
<1>4. CASE op[c].kind = "advance"
  <2>1. op[c].record \in Record
    BY <1>1, <1>4 DEF Op
  <2>2. Replaceable(registry[c], op[c].record)
    BY <1>1, <1>4 DEF Accepts, Replaceable, IInv, RequestInv
  <2>3. Atomic!Put(c, op[c].record)
    BY <1>1, <1>4, <2>2, SameTerms DEF Result, Atomic!Put
  <2> QED BY <2>1, <2>3, SameTerms DEF Atomic!Next
<1>5. CASE op[c].kind = "remove"
  BY <1>1, <1>5, SameTerms DEF Accepts, Result, IInv, RequestInv,
     Atomic!Next, Atomic!Remove
<1>6. CASE op[c].kind = "switch"
  <2>1. Atomic!Switch(SourceProvider, TargetProvider)
    BY <1>1, <1>2, <1>6, SwitchMoves, SameTerms DEF IInv, Atomic!Switch
  <2> QED BY <2>1, SameTerms DEF Atomic!Next, SourceProvider, TargetProvider, Providers
<1>7. CASE op[c].kind = "restore"
  <2>1. registry = undo[c].after /\ registry' = undo[c].before
    BY <1>1, <1>7 DEF Accepts, Result
  <2>2. undo[c] # NoSwitch
    BY <1>7 DEF IInv, TypeInv, OpInv, Publish
  <2>3. Atomic!Rollback(SourceProvider, TargetProvider)
    BY <1>1, <1>2, <2>1, <2>2, SameTerms
    DEF IInv, SwitchInv, Atomic!Rollback
  <2> QED BY <2>3, SameTerms DEF Atomic!Next, SourceProvider, TargetProvider, Providers
<1> QED BY <1>1, <1>3, <1>4, <1>5, <1>6, <1>7 DEF Op

(* The locked file protocol implements the atomic registry: whatever order  *)
(* processes read, wait, time out and die in, every change of the file is   *)
(* one checked operation on the file that was current.                      *)
THEOREM Refinement == Spec => ImplementsRegistry
<1>1. Init => Atomic!Init
  BY DEF Init, Vacant, Atomic!Init
<1>2. IInv /\ [Next]_vars => [Atomic!Next]_registry
  <2> SUFFICES ASSUME IInv, [Next]_vars PROVE [Atomic!Next]_registry
    OBVIOUS
  <2>1. CASE UNCHANGED vars
    BY <2>1 DEF vars
  <2>2. ASSUME NEW c \in Owners, Publish(c) PROVE Atomic!Next
    BY <2>2, PublishRefines
  <2>3. ASSUME NEW c \in Owners,
               \/ BeginPut(c) \/ BeginRemove(c) \/ BeginAdvance(c)
               \/ BeginSwitch(c) \/ BeginRetire(c) \/ BeginRestore(c)
               \/ AbandonRollback(c) \/ Acquire(c) \/ TimeOut(c)
               \/ Compute(c) \/ Refuse(c) \/ Release(c)
               \/ Retire(c) \/ RetireEnds(c) \/ Crash(c)
        PROVE  registry' = registry \/ Publish(c)
    BY <2>3, Locals DEF IInv
  <2> QED BY <2>1, <2>2, <2>3 DEF Next
<1> QED BY <1>1, <1>2, InductiveInvariant, PTL
        DEF Spec, ImplementsRegistry, Atomic!Spec
=============================================================================
