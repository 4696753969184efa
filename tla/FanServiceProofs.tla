--------------------------- MODULE FanServiceProofs ---------------------------
(***************************************************************************)
(* FanService for any processes, tasks, calls and bounds: the capacity,    *)
(* the exclusion of a second task from an undecided entity, the audit of a *)
(* release, and the refinement of HoldRelease.                             *)
(***************************************************************************)
EXTENDS FanService, DurableLockStoreProofs

-----------------------------------------------------------------------------
(* The inductive invariant.                                                *)

\* The task has the entity's lock, exclusively.
Guarded(t) == \E r \in HeldBy(t) : r.key = EntityKey[t] /\ r.mode = "exclusive"

\* What the locks of a task say about its record and its release.
LocksOf(t) ==
  /\ record[t].state \in {"none", "claimed"} => HeldBy(t) = {}
  /\ record[t].state \in {"locked", "intent"} => Guarded(t)
  /\ record[t].state = "review" /\ release[t] = "none" => Guarded(t)
  /\ HoldOf(t) # {} => record[t].state = "review"
  /\ release[t] # "none" => record[t].state = "review"
  /\ release[t] \in {"released", "audited"} => HeldBy(t) = {}
  /\ t \in logged => release[t] \in {"released", "audited"}
  /\ release[t] = "audited" => t \in logged
  /\ Known(t) => t \in logged

\* What whoever finishes a release knows at each of its steps.
Transacts ==
  \A p \in Process, t \in Task :
    /\ Finishing(p, t, "clear") => release[t] = "decided"
    /\ Finishing(p, t, "mark") => release[t] = "decided" /\ HeldBy(t) = {}
    /\ Finishing(p, t, "audit") => release[t] = "released"
    /\ Finishing(p, t, "record") => release[t] = "released" /\ t \in logged

Linked == Transacts /\ \A t \in Task : LocksOf(t)

Inv == TypeOK /\ StoreInv /\ Linked

Locking == <<storeVars, releases, transaction>>

\* Owners of locks are tasks.
LEMMA Tasks == ASSUME NEW t \in Task PROVE t \in Owner /\ EntityKey[t] \in Key
BY FanAssumption

\* The program starts there.
LEMMA InitInv == Init => Inv
<1> SUFFICES ASSUME Init PROVE Inv
  OBVIOUS
<1> USE DEF Init, StoreInit
<1>1. StoreInv
  BY DEF StoreInv, StoreTyped, Issued, Compatible
<1>2. TypeOK
  BY <1>1, FanAssumption DEF TypeOK, NoRecord, RecordState, StoreInv, StoreTyped
<1>3. Linked
  BY DEF Linked, Transacts, LocksOf, HeldBy, HoldOf, Finishing, NoTransaction, NoRecord, Known
<1>. QED
  BY <1>1, <1>2, <1>3 DEF Inv

-----------------------------------------------------------------------------
(* The locks of one task.                                                  *)

\* A task's handle selects exactly its records: no two have one generation.
LEMMA SelectedHandle ==
  ASSUME StoreInv, NEW t \in Task
  PROVE  Selected(Handle(t).tokens) = HeldBy(t)
<1>1. \A r \in HeldBy(t) : Matches(TokenOf(r)) = {r}
  BY DEF HeldBy, Matches, TokenOf, StoreInv, Issued
<1>2. Handle(t).tokens = {TokenOf(r) : r \in HeldBy(t)}
  BY DEF Handle, HandleOf
<1>. QED
  BY <1>1, <1>2 DEF Selected

\* What a step leaves of the records of other tasks.
OthersKeep(t) == \A u \in Task : u # t => HeldBy(u)' = HeldBy(u)

\* An acquisition gives the task its entity, and no hold.
LEMMA AcquireEffect ==
  ASSUME StoreInv, NEW t \in Task, AcquireOnce(t, LockRequests(t))
  PROVE  StoreStep /\ Guarded(t)' /\ HoldOf(t)' = {} /\ OthersKeep(t)
<1> DEFINE wanted == NormalizeLockRequests(LockRequests(t))
           S == DOMAIN wanted
           new == {NewRecord(k, wanted[k], t, FreshGeneration(k, S)) : k \in S}
<1>1. t \in Owner /\ EntityKey[t] \in Key /\ EntityKey[t] # CoreKey /\ CoreKey \in Key
  BY FanAssumption
<1>2. LockRequests(t) \in SUBSET LockRequest
  BY <1>1 DEF LockRequests, LockRequest, Mode
<1>3. StoreStep
  BY <1>1, <1>2, AcquireOnceKeeps
<1>4. EntityKey[t] \in S /\ wanted[EntityKey[t]] = "exclusive"
  <2>1. S = {r.key : r \in LockRequests(t)}
    BY DEF NormalizeLockRequests
  <2>2. [key |-> EntityKey[t], mode |-> "exclusive"] \in LockRequests(t)
    BY DEF LockRequests
  <2>3. EntityKey[t] \in S
    BY <2>1, <2>2
  <2>. QED
    BY <2>2, <2>3 DEF NormalizeLockRequests
<1>5. records' = records \union new /\ HeldBy(t) = {}
  BY DEF AcquireOnce
<1>6. \A x \in new : x.owner = t /\ x.hold = FALSE
  BY DEF NewRecord
<1>7. HeldBy(t)' = new
  BY <1>5, <1>6 DEF HeldBy
<1>8. \E x \in new : x.key = EntityKey[t] /\ x.mode = "exclusive"
  <2>1. NewRecord(EntityKey[t], wanted[EntityKey[t]], t, FreshGeneration(EntityKey[t], S)) \in new
    BY <1>4
  <2>. QED
    BY <1>4, <2>1 DEF NewRecord
<1> HIDE DEF new
<1>9. Guarded(t)'
  BY <1>7, <1>8 DEF Guarded
<1>10. HoldOf(t)' = {}
  BY <1>6, <1>7 DEF HoldOf
<1>11. OthersKeep(t)
  BY <1>5, <1>6 DEF OthersKeep, HeldBy
<1>. QED
  BY <1>3, <1>9, <1>10, <1>11

\* A settlement ends the locks of a finished task, and freezes the entity of a
\* task under review.
LEMMA SettleEffect ==
  ASSUME StoreInv, NEW t \in Task, SettleLocks(t), LocksOf(t)
  PROVE  /\ StoreStep /\ OthersKeep(t)
         /\ record[t].state = "done" => HeldBy(t)' = {}
         /\ record[t].state = "review" => release[t] = "none" /\ Guarded(t)' /\ HoldOf(t)' # {}
         /\ record[t].state \in {"done", "review"}
<1>1. Selected(Handle(t).tokens) = HeldBy(t)
  BY SelectedHandle
<1>2. record[t].state \in {"done", "review"}
  BY DEF SettleLocks, Terminal
<1>3. CASE record[t].state = "done"
  <2>1. Release(Handle(t), FALSE)
    BY <1>3 DEF SettleLocks
  <2>2. records' = records \ HeldBy(t)
    BY <1>1, <2>1 DEF Release
  <2>3. HeldBy(t)' = {} /\ OthersKeep(t)
    BY <2>2 DEF HeldBy, OthersKeep
  <2>. QED
    BY <1>3, <2>1, <2>3, ReleaseKeeps
<1>4. CASE record[t].state = "review"
  <2> DEFINE kept == {r \in HeldBy(t) : r.key \in Retained(t)}
             held == {Held(r) : r \in kept}
  <2>1. PromoteConflictHold(Handle(t), Retained(t)) /\ release[t] = "none" /\ Guarded(t)
    BY <1>4 DEF SettleLocks, Settled, LocksOf
  <2>2. records' = (records \ HeldBy(t)) \union held
    BY <1>1, <2>1 DEF PromoteConflictHold
  <2>3. \A r \in records : /\ Held(r).owner = r.owner /\ Held(r).hold = TRUE
                           /\ Held(r).key = r.key /\ Held(r).mode = r.mode
    BY DEF Held, StoreInv, StoreTyped, LockRecord
  <2>4. \A x \in held : x.owner = t /\ x.hold = TRUE
    BY <2>3 DEF HeldBy
  <2>5. HeldBy(t)' = held
    BY <2>2, <2>4 DEF HeldBy
  <2>6. OthersKeep(t)
    BY <2>2, <2>4 DEF HeldBy, OthersKeep
  <2>7. \E x \in held : x.key = EntityKey[t] /\ x.mode = "exclusive"
    <3>1. PICK r \in HeldBy(t) : r.key = EntityKey[t] /\ r.mode = "exclusive"
      BY <2>1 DEF Guarded
    <3>2. r \in records /\ Held(r) \in held
      BY <3>1 DEF HeldBy, Retained
    <3>. QED
      BY <2>3, <3>1, <3>2
  <2> HIDE DEF held
  <2>8. Guarded(t)'
    BY <2>5, <2>7 DEF Guarded
  <2>9. HoldOf(t)' # {}
    BY <2>4, <2>5, <2>7 DEF HoldOf
  <2>10. StoreStep
    BY <2>1, PromoteConflictHoldKeeps
  <2>. QED
    BY <1>4, <2>1, <2>6, <2>8, <2>9, <2>10
<1>. QED
  BY <1>2, <1>3, <1>4

\* A cleared hold leaves the task no lock; what was cleared was held.
LEMMA ClearEffect ==
  ASSUME StoreInv, NEW t \in Task, HeldBy(t) # {},
         ReleaseConflictHold(t, Handle(t).tokens)
  PROVE  StoreStep /\ OthersKeep(t) /\ HeldBy(t)' = {} /\ HoldOf(t) # {}
<1>1. Selected(Handle(t).tokens) = HeldBy(t)
  BY SelectedHandle
<1>2. records' = records \ HeldBy(t) /\ \A r \in HeldBy(t) : r.hold
  BY <1>1 DEF ReleaseConflictHold
<1>3. HeldBy(t)' = {} /\ OthersKeep(t)
  BY <1>2 DEF HeldBy, OthersKeep
<1>4. HoldOf(t) # {}
  BY <1>2 DEF HoldOf
<1>. QED
  BY <1>3, <1>4, ReleaseConflictHoldKeeps

-----------------------------------------------------------------------------
(* Typing.                                                                 *)

ClaimedBy == Process \union {NoProcess, Lost}
Locks == {"own", "old", "moved", "lost"}
Records == [state : RecordState, claim : ClaimedBy, late : BOOLEAN, locks : Locks]

\* SetRecord changes one record, to one of its type.
LEMMA SetRecordEffect ==
  ASSUME record \in [Task -> Records], NEW t \in Task, NEW state \in RecordState,
         NEW claim \in ClaimedBy, SetRecord(t, state, claim)
  PROVE  /\ record' \in [Task -> Records]
         /\ record'[t].state = state /\ record'[t].claim = claim
         /\ \A u \in Task : u # t => record'[u] = record[u]
<1> DEFINE late == record[t].late /\ state = "intent"
<1>1. late \in BOOLEAN
  OBVIOUS
<1>2. record' = [record EXCEPT ![t] = [state |-> state, claim |-> claim, late |-> late,
                                       locks |-> record[t].locks]]
  BY DEF SetRecord
<1> HIDE DEF late
<1>. QED
  BY <1>1, <1>2 DEF Records

\* The records keep their type.
RecordsTyped == record \in [Task -> Records]

\* Bind changes the claim and the locks of one record, and no state.
LEMMA BindEffect ==
  ASSUME RecordsTyped, NEW t \in Task, NEW claim \in ClaimedBy, NEW locks \in Locks,
         Bind(t, claim, locks)
  PROVE  RecordsTyped' /\ \A u \in Task : record'[u].state = record[u].state
<1>1. record' = [record EXCEPT ![t].claim = claim, ![t].locks = locks]
  BY DEF Bind
<1>. QED
  BY <1>1 DEF RecordsTyped, Records

\* A transfer of the locks of a dispatched task is a Bind of its record.
LEMMA Transfers ==
  ASSUME RecordsTyped, NEW p \in Process, NEW t \in Task,
         \/ TakeOver(p, t) \/ TransferLocks(p, t) \/ RecordTransfer(p, t) \/ AwaitLease(p, t)
  PROVE  /\ \E claim \in ClaimedBy, locks \in Locks : Bind(t, claim, locks)
         /\ RecordsTyped' /\ \A u \in Task : record'[u].state = record[u].state
<1>1. p \in ClaimedBy /\ NoProcess \in ClaimedBy /\ record[t].locks \in Locks
  BY DEF ClaimedBy, RecordsTyped, Records
<1>2. \E claim \in ClaimedBy, locks \in Locks : Bind(t, claim, locks)
  BY <1>1 DEF TakeOver, TransferLocks, RecordTransfer, AwaitLease, Locks
<1>. QED
  BY <1>2, BindEffect

\* What every step of the records does to their types.
LEMMA RecordsStayTyped ==
  ASSUME TypeOK, Next PROVE RecordsTyped'
<1>1. RecordsTyped
  BY DEF TypeOK, RecordsTyped, Records, ClaimedBy, Locks
<1>2. ASSUME NEW p \in Process, NEW t \in Task, NEW state \in RecordState,
             NEW claim \in {p, NoProcess}, SetRecord(t, state, claim)
      PROVE  RecordsTyped'
  BY <1>1, <1>2, SetRecordEffect DEF ClaimedBy, RecordsTyped
<1>3. ASSUME UNCHANGED record PROVE RecordsTyped'
  BY <1>1, <1>3 DEF RecordsTyped
<1>4. ASSUME NEW p \in Process, NEW t \in Task, Execution(p, t) PROVE RecordsTyped'
  BY <1>1, <1>2, <1>3, <1>4, Transfers
     DEF Execution, Claim, Acquire, Refuse, Commit, Verdict, End, RecordState
<1>5. ASSUME NEW p \in Process, NEW t \in Task, Reconcile(p, t) PROVE RecordsTyped'
  BY <1>1, <1>2, <1>3, <1>5, Transfers DEF Reconcile, Cancel, Settle, Finish, RecordState
<1>6. ASSUME NEW p \in Process, NEW t \in Task, Fail(p, t) PROVE RecordsTyped'
  <2> DEFINE claim == IF record[t].claim = p THEN Lost ELSE record[t].claim
  <2>1. claim \in ClaimedBy
    BY <1>1 DEF RecordsTyped, Records, ClaimedBy
  <2>2. record' = [record EXCEPT ![t].claim = claim]
    BY <1>1, <1>6 DEF Fail, RecordsTyped
  <2> HIDE DEF claim
  <2>. QED
    BY <1>1, <2>1, <2>2 DEF RecordsTyped, Records
<1>7. ASSUME NEW t \in Task, PassDeadline(t) PROVE RecordsTyped'
  BY <1>1, <1>7 DEF PassDeadline, RecordsTyped, Records
<1>8. ASSUME NEW t \in Task, ClaimRunsOut(t) PROVE RecordsTyped'
  BY <1>1, <1>8 DEF ClaimRunsOut, RecordsTyped, Records, ClaimedBy
<1>9. ASSUME NEW p \in Process, Crash(p) PROVE RecordsTyped'
  <2>1. \A t \in Task : \/ record'[t] = record[t]
                        \/ record'[t] = [record[t] EXCEPT !.claim = Lost] /\ record[t].claim = p
    BY <1>9 DEF Crash
  <2>2. \A t \in Task : record'[t] \in Records
    BY <1>1, <2>1 DEF RecordsTyped, Records, ClaimedBy
  <2>3. record' = [t \in Task |-> record'[t]]
    BY <1>9 DEF Crash
  <2>. QED
    BY <2>2, <2>3 DEF RecordsTyped
<1>10. ASSUME NEW p \in Process, NEW t \in Task, Decision(p, t) \/ Completion(p, t)
       PROVE  RecordsTyped'
  BY <1>3, <1>10 DEF Decision, ReadBack, Decide, Panel, Completion, ClearHold, MarkReleased,
                     WriteEntry, LeaveUnaudited, RecordAudit, Completing
<1>11. ASSUME NEW p \in Process, NEW c \in Call, Control(p, c) \/ Declare(p, c)
       PROVE  RecordsTyped'
  BY <1>3, <1>11 DEF Control, Declare
<1>12. ASSUME Interrupt \/ Rotate \/ (\E t \in Task : Expire(t)) \/ \E c \in Call : PrepareFails(c)
       PROVE  RecordsTyped'
  BY <1>3, <1>12 DEF Interrupt, Rotate, Expire, PrepareFails, Completing
<1>. QED
  BY <1>4, <1>5, <1>6, <1>7, <1>8, <1>9, <1>10, <1>11, <1>12 DEF Next

\* The memory of the processes, and what is left of the bounds.
MemoryTyped ==
  /\ declared \subseteq Task /\ expired \subseteq Task
  /\ call \in [Call -> ClaimedBy]
  /\ active \in [Process -> SUBSET Task] /\ deciding \in [Process -> SUBSET Task]
  /\ \A p \in Process : active[p] \subseteq declared
  /\ enabled \in [Process -> BOOLEAN]
  /\ left \in [faults : Nat, rotations : Nat]

\* Each write of the memory keeps its type.
LEMMA Writes ==
  ASSUME TypeOK
  PROVE  /\ \A f \in {active, deciding}, p \in Process, t \in Task :
              /\ Put(f, p, t) \in [Process -> SUBSET Task]
              /\ Drop(f, p, t) \in [Process -> SUBSET Task]
         /\ \A bound \in {"faults", "rotations"} :
              Spend(bound) => left' \in [faults : Nat, rotations : Nat]
BY DEF TypeOK, Put, Drop, Spend

\* The sidecar, the log and whoever finishes a release.
ReleasesTyped ==
  /\ release \in [Task -> {"none", "decided", "released", "audited"}]
  /\ transaction \in {NoTransaction} \union
       [process : Process, task : Task, step : {"clear", "mark", "audit", "record"}]
  /\ audit \in [current : [Task -> Nat], rotated : [Task -> Nat]]
  /\ logged \subseteq Task

\* The type invariant in parts.
LEMMA TypeParts ==
  TypeOK <=> StoreTyped /\ RecordsTyped /\ MemoryTyped /\ ReleasesTyped
BY DEF TypeOK, StoreTyped, RecordsTyped, Records, Locks, MemoryTyped, ClaimedBy, ReleasesTyped

\* What every step does to the types of the memory.
LEMMA MemoryStaysTyped ==
  ASSUME TypeOK, Next PROVE MemoryTyped'
<1>1. MemoryTyped /\ \A c \in Call : TaskFor[c] \in Task
  BY TypeParts, FanAssumption
<1>2. ASSUME NEW p \in Process, NEW c \in Call, Control(p, c) \/ Declare(p, c)
      PROVE  MemoryTyped'
  <2>1. \A q \in ClaimedBy : [call EXCEPT ![c] = q] \in [Call -> ClaimedBy]
    BY <1>1 DEF MemoryTyped
  <2>2. call' \in [Call -> ClaimedBy]
    BY <1>2, <2>1 DEF Control, Declare, ClaimedBy
  <2>3. active' \in [Process -> SUBSET Task]
    BY <1>1, <1>2, Writes DEF Control, Declare, MemoryTyped
  <2>4. \A q \in Process : active'[q] \subseteq declared'
    BY <1>1, <1>2 DEF Control, Declare, MemoryTyped, Put
  <2>. QED
    BY <1>1, <1>2, <2>2, <2>3, <2>4 DEF Control, Declare, MemoryTyped
<1>3. ASSUME NEW p \in Process, NEW t \in Task, Execution(p, t) \/ Fail(p, t) PROVE MemoryTyped'
  <2>1. active' \in [Process -> SUBSET Task]
    BY <1>1, <1>3, Writes
       DEF Execution, Claim, Acquire, Refuse, Commit, Verdict, TransferLocks, RecordTransfer,
           AwaitLease, Bind, End, Ended, Fail, MemoryTyped
  <2>2. left' \in [faults : Nat, rotations : Nat]
    BY <1>1, <1>3, Writes
       DEF Execution, Claim, Acquire, Refuse, Commit, Verdict, TransferLocks, RecordTransfer,
           AwaitLease, Bind, End, Fail, MemoryTyped
  <2>3. Executing
    BY <1>3 DEF Execution, Claim, Acquire, Refuse, Commit, Verdict, TransferLocks,
                RecordTransfer, AwaitLease, Bind, End, Fail
  <2>4. \A q \in Process : active'[q] \subseteq active[q]
    BY <1>1, <1>3 DEF Execution, Claim, Acquire, Refuse, Commit, Verdict, TransferLocks,
                      RecordTransfer, AwaitLease, Bind, End, Ended, Fail, Drop, MemoryTyped
  <2>. QED
    BY <1>1, <2>1, <2>2, <2>3, <2>4 DEF Executing, MemoryTyped
<1>4. ASSUME NEW p \in Process, NEW t \in Task, Reconcile(p, t) PROVE MemoryTyped'
  BY <1>1, <1>4 DEF Reconcile, Cancel, TakeOver, Bind, Settle, Finish, Executing, MemoryTyped
<1>5. ASSUME NEW p \in Process, NEW t \in Task, Decision(p, t) PROVE MemoryTyped'
  BY <1>1, <1>5, Writes DEF Decision, ReadBack, Decide, Panel, MemoryTyped
<1>6. ASSUME NEW p \in Process, NEW t \in Task, Completion(p, t) PROVE MemoryTyped'
  <2>1. left' \in [faults : Nat, rotations : Nat]
    BY <1>1, <1>6, Writes DEF Completion, ClearHold, MarkReleased, WriteEntry, LeaveUnaudited,
                              RecordAudit, MemoryTyped
  <2>2. Completing
    BY <1>6 DEF Completion, ClearHold, MarkReleased, WriteEntry, LeaveUnaudited, RecordAudit
  <2>. QED
    BY <1>1, <2>1, <2>2 DEF Completing, MemoryTyped
<1>7. ASSUME NEW t \in Task, Expire(t) \/ PassDeadline(t) \/ ClaimRunsOut(t) PROVE MemoryTyped'
  <2>1. left' \in [faults : Nat, rotations : Nat]
    BY <1>1, <1>7, Writes DEF Expire, PassDeadline, ClaimRunsOut, MemoryTyped
  <2>. QED
    BY <1>1, <1>7, <2>1 DEF Expire, PassDeadline, ClaimRunsOut, Executing, MemoryTyped
<1>8. ASSUME NEW p \in Process, Crash(p) PROVE MemoryTyped'
  <2>1. call' \in [Call -> ClaimedBy]
    BY <1>1, <1>8 DEF Crash, MemoryTyped, ClaimedBy
  <2>2. left' \in [faults : Nat, rotations : Nat]
    BY <1>8, Writes DEF Crash
  <2>. QED
    BY <1>1, <1>8, <2>1, <2>2 DEF Crash, MemoryTyped
<1>9. ASSUME Rotate PROVE MemoryTyped'
  BY <1>1, <1>9, Writes DEF Rotate, MemoryTyped
<1>10. ASSUME NEW c \in Call, PrepareFails(c) PROVE MemoryTyped'
  <2>1. call' \in [Call -> ClaimedBy]
    BY <1>1, <1>10 DEF PrepareFails, MemoryTyped, ClaimedBy
  <2>. QED
    BY <1>1, <1>10, <2>1 DEF PrepareFails, MemoryTyped
<1>11. CASE Interrupt
  <2>1. left' \in [faults : Nat, rotations : Nat]
    BY <1>1, <1>11, Writes DEF Interrupt
  <2>. QED
    BY <1>1, <1>11, <2>1 DEF Interrupt, Completing, MemoryTyped
<1>. QED
  BY <1>2, <1>3, <1>4, <1>5, <1>6, <1>7, <1>8, <1>9, <1>10, <1>11 DEF Next

\* What every step does to the types of the sidecar and of the log.
LEMMA ReleasesStayTyped ==
  ASSUME TypeOK, Next PROVE ReleasesTyped'
<1>1. ReleasesTyped
  BY TypeParts
<1>2. ASSUME UNCHANGED <<releases, transaction>> PROVE ReleasesTyped'
  BY <1>1, <1>2 DEF releases, ReleasesTyped
<1>3. ASSUME UNCHANGED <<release, audit, logged>>,
             transaction' \in {NoTransaction} \union
               [process : Process, task : Task, step : {"clear", "mark", "audit", "record"}]
      PROVE  ReleasesTyped'
  BY <1>1, <1>3 DEF ReleasesTyped
<1>4. ASSUME NEW t \in Task, Append(t)
      PROVE  audit' \in [current : [Task -> Nat], rotated : [Task -> Nat]] /\ logged' \subseteq Task
  BY <1>1, <1>4 DEF Append, ReleasesTyped
<1>5. ASSUME NEW p \in Process, NEW t \in Task, NEW step \in {"clear", "mark", "audit", "record"},
             NEW next \in {"clear", "mark", "audit", "record"}, Finishing(p, t, step), Then(next)
      PROVE  transaction' = [process |-> p, task |-> t, step |-> next]
  BY <1>5 DEF Finishing, Then
<1>6. ASSUME NEW p \in Process, NEW t \in Task, Completion(p, t) PROVE ReleasesTyped'
  <2>1. transaction' \in {NoTransaction} \union
               [process : Process, task : Task, step : {"clear", "mark", "audit", "record"}]
    BY <1>5, <1>6 DEF Completion, ClearHold, MarkReleased, WriteEntry, LeaveUnaudited,
                      RecordAudit, Leave
  <2>2. release' \in [Task -> {"none", "decided", "released", "audited"}]
    BY <1>1, <1>6 DEF Completion, ClearHold, MarkReleased, WriteEntry, LeaveUnaudited,
                      RecordAudit, releases, ReleasesTyped
  <2>3. Append(t) \/ UNCHANGED <<audit, logged>>
    BY <1>6 DEF Completion, ClearHold, MarkReleased, WriteEntry, LeaveUnaudited,
                RecordAudit, releases
  <2>. QED
    BY <1>1, <1>4, <2>1, <2>2, <2>3 DEF ReleasesTyped
<1>7. ASSUME NEW p \in Process, NEW t \in Task, Decision(p, t) PROVE ReleasesTyped'
  <2>1. release' \in [Task -> {"none", "decided", "released", "audited"}]
    BY <1>1, <1>7 DEF Decision, ReadBack, Decide, ReleasesTyped
  <2>. QED
    BY <1>1, <1>7, <2>1 DEF Decision, ReadBack, Decide, Panel, ReleasesTyped
<1>8. ASSUME NEW p \in Process, NEW t \in Task, Reconcile(p, t) PROVE ReleasesTyped'
  <2>1. CASE Finish(p, t)
    BY <1>3, <2>1 DEF Finish, releases
  <2>2. CASE Cancel(p, t) \/ TakeOver(p, t) \/ Settle(p, t)
    BY <1>2, <2>2 DEF Cancel, TakeOver, Bind, Settle, Executing
  <2>. QED
    BY <1>8, <2>1, <2>2 DEF Reconcile
<1>9. ASSUME NEW p \in Process, NEW t \in Task, Execution(p, t) \/ Fail(p, t) PROVE ReleasesTyped'
  BY <1>2, <1>9 DEF Execution, Claim, Acquire, Refuse, Commit, Verdict, TransferLocks,
                    RecordTransfer, AwaitLease, Bind, End, Fail, Executing
<1>10. ASSUME NEW p \in Process, Crash(p) PROVE ReleasesTyped'
  BY <1>1, <1>3, <1>10 DEF Crash, releases, ReleasesTyped
<1>11. ASSUME NEW t \in Task, Expire(t) \/ PassDeadline(t) \/ ClaimRunsOut(t) PROVE ReleasesTyped'
  BY <1>2, <1>11 DEF Expire, PassDeadline, ClaimRunsOut, Executing
<1>12. ASSUME NEW c \in Call, PrepareFails(c) \/ \E p \in Process : Control(p, c) \/ Declare(p, c)
       PROVE  ReleasesTyped'
  BY <1>2, <1>12 DEF Control, Declare, PrepareFails
<1>13. CASE Interrupt
  BY <1>3, <1>13 DEF Interrupt, Leave, releases
<1>14. CASE Rotate
  BY <1>1, <1>14 DEF Rotate, ReleasesTyped
<1>. QED
  BY <1>6, <1>7, <1>8, <1>9, <1>10, <1>11, <1>12, <1>13, <1>14 DEF Next

-----------------------------------------------------------------------------
(* Locks, records and releases.                                            *)

\* The moves a record makes while the locks and the release stay as they are.
Moves == {<<"none", "claimed">>, <<"none", "done">>, <<"claimed", "done">>,
          <<"locked", "done">>, <<"locked", "intent">>, <<"intent", "done">>,
          <<"intent", "review">>, <<"intent", "intent">>}
Move(t) == <<record[t].state, record'[t].state>> \in Moves
Stay(t) == record'[t].state = record[t].state

\* The records of the store and the facts about them stay.
LEMMA LocksFrame ==
  ASSUME UNCHANGED storeVars
  PROVE  \A t \in Task : /\ HeldBy(t)' = HeldBy(t)
                         /\ Guarded(t)' <=> Guarded(t)
                         /\ HoldOf(t)' = HoldOf(t)
BY DEF storeVars, HeldBy, Guarded, HoldOf

\* So they do for the tasks a lock transaction is not about.
LEMMA OthersFrame ==
  ASSUME NEW t \in Task, OthersKeep(t)
  PROVE  \A u \in Task : u # t => /\ HeldBy(u)' = HeldBy(u)
                                  /\ Guarded(u)' <=> Guarded(u)
                                  /\ HoldOf(u)' = HoldOf(u)
BY DEF OthersKeep, Guarded, HoldOf

\* Steps of records: the only link they could break is the one from a state to
\* the locks, and no move enters a state that needs more.
LEMMA RecordStep ==
  ASSUME Linked, UNCHANGED Locking, \A t \in Task : Move(t) \/ Stay(t)
  PROVE  Linked'
<1>1. UNCHANGED storeVars /\ UNCHANGED <<release, audit, logged, transaction>>
  BY DEF Locking, releases
<1>2. \A t \in Task : LocksOf(t)'
  <2> SUFFICES ASSUME NEW t \in Task PROVE LocksOf(t)'
    OBVIOUS
  <2>1. LocksOf(t) /\ (Move(t) \/ Stay(t))
    BY DEF Linked
  <2>2. HeldBy(t)' = HeldBy(t) /\ (Guarded(t)' <=> Guarded(t)) /\ HoldOf(t)' = HoldOf(t)
    BY <1>1, LocksFrame
  <2>. QED
    BY <1>1, <2>1, <2>2 DEF LocksOf, Move, Moves, Stay, Known
<1>3. Transacts'
  BY <1>1, LocksFrame DEF Linked, Transacts, Finishing
<1>. QED
  BY <1>2, <1>3 DEF Linked

\* Nobody finishes the release of a task that is not released.
LEMMA NotFinishing ==
  ASSUME Linked, NEW p \in Process, NEW t \in Task, release[t] = "none", NEW step,
         Finishing(p, t, step)
  PROVE  step \notin {"clear", "mark", "audit", "record"}
BY DEF Linked, Transacts

\* A lock transaction of a task whose release is not decided.
LEMMA LockStep ==
  ASSUME Linked, NEW t \in Task, LocksOf(t)', OthersKeep(t), release[t] = "none",
         UNCHANGED <<releases, transaction>>,
         \A u \in Task : u # t => record'[u] = record[u]
  PROVE  Linked'
<1>1. UNCHANGED <<release, audit, logged, transaction>>
  BY DEF releases
<1>2. \A u \in Task : LocksOf(u)'
  <2> SUFFICES ASSUME NEW u \in Task, u # t PROVE LocksOf(u)'
    OBVIOUS
  <2>1. LocksOf(u) /\ record'[u] = record[u]
    BY DEF Linked
  <2>2. HeldBy(u)' = HeldBy(u) /\ (Guarded(u)' <=> Guarded(u)) /\ HoldOf(u)' = HoldOf(u)
    BY OthersFrame
  <2>. QED
    BY <1>1, <2>1, <2>2 DEF LocksOf, Known
<1>3. Transacts'
  <2> SUFFICES ASSUME NEW p \in Process, NEW u \in Task
               PROVE  /\ Finishing(p, u, "clear") => release[u] = "decided"
                      /\ Finishing(p, u, "mark") => release[u] = "decided" /\ HeldBy(u)' = {}
                      /\ Finishing(p, u, "audit") => release[u] = "released"
                      /\ Finishing(p, u, "record") => release[u] = "released" /\ u \in logged
    BY <1>1 DEF Transacts, Finishing
  <2>1. u = t \/ HeldBy(u)' = HeldBy(u)
    BY DEF OthersKeep
  <2>. QED
    BY <2>1 DEF Linked, Transacts
<1>. QED
  BY <1>2, <1>3 DEF Linked

\* The lock transactions of an execution and of recovery.
LEMMA AcquireLinked ==
  ASSUME Inv, NEW p \in Process, NEW t \in Task, Acquire(p, t)
  PROVE  StoreStep /\ Linked' /\ HoldOf(t) = {} /\ HoldOf(t)' = {} /\ OthersKeep(t)
<1>1. /\ StoreInv /\ Linked /\ LocksOf(t) /\ AcquireOnce(t, LockRequests(t))
      /\ record[t].state = "claimed" /\ UNCHANGED <<releases, transaction>>
  BY DEF Inv, Linked, Acquire, Owns, Executing
<1>2. StoreStep /\ Guarded(t)' /\ HoldOf(t)' = {} /\ OthersKeep(t)
  BY <1>1, AcquireEffect
<1>3. record'[t].state = "locked" /\ \A u \in Task : u # t => record'[u] = record[u]
  <2>1. SetRecord(t, "locked", p) /\ record \in [Task -> Records] /\ "locked" \in RecordState
    BY DEF Acquire, Inv, TypeOK, Records, Locks, ClaimedBy, RecordState
  <2>. QED
    BY <2>1, SetRecordEffect DEF ClaimedBy
<1>4. release[t] = "none" /\ t \notin logged /\ HoldOf(t) = {} /\ ~Known(t)
  BY <1>1 DEF LocksOf, Inv, TypeOK
<1>5. LocksOf(t)'
  BY <1>1, <1>2, <1>3, <1>4 DEF LocksOf, releases, Known
<1>. QED
  BY <1>1, <1>2, <1>3, <1>4, <1>5, LockStep

\* A settlement of recovery or of an execution.
LEMMA SettleLinked ==
  ASSUME Inv, NEW t \in Task, SettleLocks(t), UNCHANGED <<record, releases, transaction>>
  PROVE  /\ StoreStep /\ Linked' /\ OthersKeep(t) /\ release[t] = "none"
         /\ HoldOf(t)' # {} \/ (HoldOf(t) = {} /\ HoldOf(t)' = {})
<1>1. StoreInv /\ Linked /\ LocksOf(t)
  BY DEF Inv, Linked
<1>2. /\ StoreStep /\ OthersKeep(t)
      /\ record[t].state = "done" => HeldBy(t)' = {}
      /\ record[t].state = "review" => release[t] = "none" /\ Guarded(t)' /\ HoldOf(t)' # {}
      /\ record[t].state \in {"done", "review"}
  BY <1>1, SettleEffect
<1>3. release[t] = "none" /\ t \notin logged /\ ~Known(t)
  BY <1>1, <1>2 DEF LocksOf, Inv, TypeOK
<1>4. record[t].state = "done" => HoldOf(t) = {} /\ HoldOf(t)' = {}
  BY <1>1, <1>2 DEF LocksOf, HoldOf
<1>5. LocksOf(t)'
  BY <1>2, <1>3, <1>4 DEF LocksOf, releases, Known
<1>. QED
  BY <1>1, <1>2, <1>3, <1>4, <1>5, LockStep

-----------------------------------------------------------------------------
(* The refinement, and the steps of a release.                             *)

Promise == <<[t \in Task |-> StageOf(t)], logged>>
Keeps == HR!Next \/ UNCHANGED Promise

\* A step that changes neither a hold nor a release keeps every stage.
LEMMA NoStageChanges ==
  ASSUME UNCHANGED <<release, logged>>,
         \A t \in Task : HoldOf(t)' = {} <=> HoldOf(t) = {}
  PROVE  Keeps
<1>1. \A t \in Task : StageOf(t)' = StageOf(t)
  BY DEF StageOf
<1>. QED
  BY <1>1 DEF Keeps, Promise

\* A step that changes the stage of one task is a step of the promise.
LEMMA OneStageChanges ==
  ASSUME NEW t \in Task, logged' = logged,
         \A u \in Task : u # t => StageOf(u)' = StageOf(u),
         \/ StageOf(t) = "open" /\ StageOf(t)' = "held"
         \/ StageOf(t) = "held" /\ StageOf(t)' = "decided"
         \/ StageOf(t) = "decided" /\ StageOf(t)' = "lifted"
         \/ StageOf(t) = "lifted" /\ StageOf(t)' = "released"
         \/ StageOf(t)' = StageOf(t)
  PROVE  Keeps
<1>1. CASE StageOf(t)' = StageOf(t)
  BY <1>1 DEF Keeps, Promise
<1>2. ASSUME NEW from, NEW to, StageOf(t) = from, StageOf(t)' = to
      PROVE  HR!Advance(t, from, to)
  BY <1>2 DEF HR!Advance
<1>3. CASE StageOf(t)' # StageOf(t)
  BY <1>2, <1>3 DEF Keeps, HR!Next
<1>. QED
  BY <1>1, <1>3

\* A new hold is the step from "open" to "held".
LEMMA LockStages ==
  ASSUME NEW t \in Task, UNCHANGED <<release, logged>>, OthersKeep(t), release[t] = "none",
         HoldOf(t)' # {} \/ (HoldOf(t) = {} /\ HoldOf(t)' = {})
  PROVE  Keeps
<1>1. \A u \in Task : u # t => StageOf(u)' = StageOf(u)
  BY OthersFrame DEF StageOf
<1>2. \/ StageOf(t) = "open" /\ StageOf(t)' = "held"
      \/ StageOf(t)' = StageOf(t)
  BY DEF StageOf
<1>. QED
  BY <1>1, <1>2, OneStageChanges

\* The decision is a step from "held": what was reviewed is checked again, and
\* the release was not decided before.
LEMMA DecideKeeps ==
  ASSUME Inv, NEW p \in Process, NEW t \in Task, Decide(p, t)
  PROVE  StoreInv' /\ Linked' /\ Keeps
<1>1. /\ StoreInv /\ Linked /\ LocksOf(t) /\ Free /\ UNCHANGED storeVars
      /\ UNCHANGED <<record, audit, logged, transaction>>
      /\ release \in [Task -> {"none", "decided", "released", "audited"}]
  BY DEF Inv, Linked, Decide, Panel, TypeOK
<1>2. StoreInv'
  BY <1>1 DEF StoreInv, StoreTyped, Issued, Compatible, storeVars
<1>3. \A u \in Task : HeldBy(u)' = HeldBy(u) /\ (Guarded(u)' <=> Guarded(u)) /\ HoldOf(u)' = HoldOf(u)
  BY <1>1, LocksFrame
<1>4. Transacts'
  BY <1>1 DEF Transacts, Free, NoTransaction, Finishing
<1>5. CASE Decidable(p, t)
  <2>1. release' = [release EXCEPT ![t] = "decided"]
    BY <1>5 DEF Decide
  <2>2. record[t].state = "review" /\ release[t] = "none" /\ HoldOf(t) # {}
    BY <1>5 DEF Decidable, Releasable, HoldSettled, HoldOf
  <2>3. \A u \in Task : LocksOf(u)'
    <3> SUFFICES ASSUME NEW u \in Task PROVE LocksOf(u)'
      OBVIOUS
    <3>1. LocksOf(u)
      BY <1>1 DEF Linked
    <3>2. CASE u = t
      BY <1>1, <1>3, <2>1, <2>2, <3>1, <3>2 DEF LocksOf, Known
    <3>3. CASE u # t
      BY <1>1, <1>3, <2>1, <3>1, <3>3 DEF LocksOf, Known
    <3>. QED
      BY <3>2, <3>3
  <2>4. \A u \in Task : u # t => StageOf(u)' = StageOf(u)
    BY <1>1, <1>3, <2>1 DEF StageOf
  <2>5. StageOf(t) = "held" /\ StageOf(t)' = "decided"
    BY <1>1, <1>3, <2>1, <2>2 DEF StageOf
  <2>6. Keeps
    BY <1>1, <2>4, <2>5, OneStageChanges
  <2>. QED
    BY <1>2, <1>4, <2>3, <2>6 DEF Linked
<1>6. CASE ~Decidable(p, t)
  <2>1. UNCHANGED <<release, logged>>
    BY <1>1, <1>6 DEF Decide
  <2>2. UNCHANGED Locking
    BY <1>1, <2>1 DEF Locking, releases
  <2>3. Linked'
    BY <1>1, <2>2, RecordStep DEF Stay
  <2>4. Keeps
    BY <1>3, <2>1, NoStageChanges
  <2>. QED
    BY <1>2, <2>3, <2>4
<1>. QED
  BY <1>5, <1>6

\* Nobody else finishes a release: what holds at the next step is what the next
\* step of this transaction needs.
LEMMA NextTransacts ==
  ASSUME NEW p \in Process, NEW t \in Task, NEW step, NEW next, Finishing(p, t, step), Then(next),
         \/ next = "mark" /\ release'[t] = "decided" /\ HeldBy(t)' = {}
         \/ next = "audit" /\ release'[t] = "released"
         \/ next = "record" /\ release'[t] = "released" /\ t \in logged'
  PROVE  Transacts'
<1>1. transaction' = [process |-> p, task |-> t, step |-> next]
  BY DEF Finishing, Then
<1>2. ASSUME NEW q \in Process, NEW u \in Task, NEW other, Finishing(q, u, other)'
      PROVE  u = t /\ other = next
  BY <1>1, <1>2 DEF Finishing
<1>3. \A q \in Process, u \in Task :
        /\ Finishing(q, u, "clear")' => u = t /\ next = "clear"
        /\ Finishing(q, u, "mark")' => u = t /\ next = "mark"
        /\ Finishing(q, u, "audit")' => u = t /\ next = "audit"
        /\ Finishing(q, u, "record")' => u = t /\ next = "record"
  BY <1>2
<1>. QED
  BY <1>3 DEF Transacts

\* Without a transaction there is nothing to know.
LEMMA NoTransacts == ASSUME transaction' = NoTransaction PROVE Transacts'
BY DEF NoTransaction, Transacts, Finishing

\* _clear_released_hold lifts the hold of a decided release, or finds it lifted.
LEMMA ClearHoldKeeps ==
  ASSUME Inv, NEW p \in Process, NEW t \in Task, ClearHold(p, t)
  PROVE  StoreInv' /\ Linked' /\ Keeps
<1>1. /\ StoreInv /\ Linked /\ LocksOf(t) /\ Finishing(p, t, "clear") /\ Then("mark")
      /\ UNCHANGED <<record, release, audit, logged>>
  BY DEF Inv, Linked, ClearHold, Completing, releases
<1>2. release[t] = "decided" /\ record[t].state = "review"
  BY <1>1 DEF Linked, Transacts, LocksOf
<1>3. /\ StoreInv' /\ OthersKeep(t) /\ HeldBy(t)' = {}
      /\ HoldOf(t) # {} \/ HoldOf(t)' = HoldOf(t)
  <2>1. CASE HeldBy(t) = {}
    <3>1. UNCHANGED storeVars
      BY <2>1 DEF ClearHold
    <3>2. StoreInv'
      BY <1>1, <3>1 DEF StoreInv, StoreTyped, Issued, Compatible, storeVars
    <3>. QED
      BY <2>1, <3>1, <3>2, LocksFrame DEF OthersKeep
  <2>2. CASE HeldBy(t) # {}
    BY <1>1, <2>2, ClearEffect DEF ClearHold, StoreStep
  <2>. QED
    BY <2>1, <2>2
<1>4. HoldOf(t)' = {}
  BY <1>3 DEF HoldOf
<1>5. \A u \in Task : LocksOf(u)'
  <2> SUFFICES ASSUME NEW u \in Task PROVE LocksOf(u)'
    OBVIOUS
  <2>1. LocksOf(u)
    BY <1>1 DEF Linked
  <2>2. CASE u = t
    BY <1>1, <1>2, <1>3, <1>4, <2>1, <2>2 DEF LocksOf, Known
  <2>3. CASE u # t
    BY <1>1, <1>3, <2>1, <2>3, OthersFrame DEF LocksOf, Known
  <2>. QED
    BY <2>2, <2>3
<1>6. Transacts'
  BY <1>1, <1>2, <1>3, NextTransacts
<1>7. \A u \in Task : u # t => StageOf(u)' = StageOf(u)
  BY <1>1, <1>3, OthersFrame DEF StageOf
<1>8. \/ StageOf(t) = "decided" /\ StageOf(t)' = "lifted"
      \/ StageOf(t)' = StageOf(t)
  BY <1>1, <1>2, <1>3, <1>4 DEF StageOf
<1>9. Keeps
  BY <1>1, <1>7, <1>8, OneStageChanges
<1>. QED
  BY <1>3, <1>5, <1>6, <1>9 DEF Linked

\* A step that leaves locks and records alone keeps the links of every task whose
\* release and log it leaves alone too.
LEMMA ReleaseFrame ==
  ASSUME Inv, UNCHANGED <<storeVars, record>>, NEW t \in Task,
         \A u \in Task : u # t => /\ release'[u] = release[u]
                                  /\ u \in logged' <=> u \in logged
                                  /\ Known(u)' <=> Known(u),
         LocksOf(t)', Transacts'
  PROVE  StoreInv' /\ Linked' /\ \A u \in Task : u # t => StageOf(u)' = StageOf(u)
<1>1. StoreInv'
  BY DEF Inv, StoreInv, StoreTyped, Issued, Compatible, storeVars
<1>2. \A u \in Task : HeldBy(u)' = HeldBy(u) /\ (Guarded(u)' <=> Guarded(u)) /\ HoldOf(u)' = HoldOf(u)
  BY LocksFrame
<1>3. \A u \in Task : u # t => LocksOf(u)'
  <2> SUFFICES ASSUME NEW u \in Task, u # t PROVE LocksOf(u)'
    OBVIOUS
  <2>1. LocksOf(u)
    BY DEF Inv, Linked
  <2>. QED
    BY <1>2, <2>1 DEF LocksOf
<1>4. \A u \in Task : u # t => StageOf(u)' = StageOf(u)
  BY <1>2 DEF StageOf
<1>. QED
  BY <1>1, <1>3, <1>4 DEF Linked

\* released_at is recorded when the hold is gone.
LEMMA MarkReleasedKeeps ==
  ASSUME Inv, NEW p \in Process, NEW t \in Task, MarkReleased(p, t)
  PROVE  StoreInv' /\ Linked' /\ Keeps
<1>1. /\ LocksOf(t) /\ Finishing(p, t, "mark") /\ Then("audit")
      /\ UNCHANGED <<storeVars, record, audit, logged>>
      /\ release' = [release EXCEPT ![t] = "released"]
      /\ release \in [Task -> {"none", "decided", "released", "audited"}]
  BY DEF Inv, Linked, MarkReleased, Completing, TypeOK
<1>2. release[t] = "decided" /\ HeldBy(t) = {} /\ release'[t] = "released"
  BY <1>1 DEF Inv, Linked, Transacts
<1>3. HeldBy(t)' = HeldBy(t) /\ (Guarded(t)' <=> Guarded(t)) /\ HoldOf(t)' = HoldOf(t)
  BY <1>1, LocksFrame
<1>4. Transacts'
  BY <1>1, <1>2, NextTransacts
<1>5. LocksOf(t)'
  BY <1>1, <1>2, <1>3 DEF LocksOf, Known
<1>6. \A u \in Task : u # t => /\ release'[u] = release[u]
                               /\ u \in logged' <=> u \in logged
                               /\ Known(u)' <=> Known(u)
  BY <1>1 DEF Known
<1>7. StageOf(t) = "lifted" /\ StageOf(t)' = "released"
  BY <1>2, <1>3 DEF StageOf, HoldOf
<1>8. StoreInv' /\ Linked' /\ \A u \in Task : u # t => StageOf(u)' = StageOf(u)
  BY <1>1, <1>4, <1>5, <1>6, ReleaseFrame
<1>. QED
  BY <1>1, <1>7, <1>8, OneStageChanges

\* What telling the log of a released hold does, wherever the entry goes.
LEMMA AppendKeeps ==
  ASSUME Inv, NEW t \in Task, Append(t) \/ UNCHANGED <<audit, logged>>,
         UNCHANGED <<storeVars, record, release>>, release[t] = "released", Transacts'
  PROVE  StoreInv' /\ Linked' /\ Keeps
<1>1. /\ LocksOf(t) /\ audit \in [current : [Task -> Nat], rotated : [Task -> Nat]]
      /\ \A u \in Task : HoldOf(u)' = HoldOf(u)
  BY LocksFrame DEF Inv, Linked, TypeOK
<1>2. HeldBy(t)' = HeldBy(t) /\ (Guarded(t)' <=> Guarded(t)) /\ HoldOf(t)' = HoldOf(t)
  BY LocksFrame
<1>3. CASE Append(t)
  <2>1. /\ audit' = [audit EXCEPT !.current[t] = @ + 1]
        /\ logged' = logged \union {t}
    BY <1>3 DEF Append
  <2>2. LocksOf(t)'
    BY <1>1, <1>2, <2>1 DEF LocksOf
  <2>3. \A u \in Task : u # t => /\ release'[u] = release[u]
                                 /\ u \in logged' <=> u \in logged
                                 /\ Known(u)' <=> Known(u)
    BY <1>1, <2>1 DEF Known
  <2>4. StoreInv' /\ Linked'
    BY <2>2, <2>3, ReleaseFrame
  <2>5. \A u \in Task : StageOf(u)' = StageOf(u)
    BY <1>1 DEF StageOf
  <2>6. StageOf(t) = "released"
    BY DEF StageOf
  <2>7. HR!Log(t)
    BY <2>1, <2>5, <2>6 DEF HR!Log
  <2>. QED
    BY <2>4, <2>7 DEF Keeps, HR!Next
<1>4. CASE UNCHANGED <<audit, logged>>
  <2>1. LocksOf(t)' /\ \A u \in Task : Known(u)' <=> Known(u)
    BY <1>1, <1>2, <1>4 DEF LocksOf, Known
  <2>2. StoreInv' /\ Linked'
    BY <1>4, <2>1, ReleaseFrame
  <2>3. Keeps
    BY <1>1, <1>4, NoStageChanges
  <2>. QED
    BY <2>2, <2>3
<1>. QED
  BY <1>3, <1>4

\* An entry that is known was written; a logger that is enabled writes it.
LEMMA WriteEntryKeeps ==
  ASSUME Inv, NEW p \in Process, NEW t \in Task, WriteEntry(p, t)
  PROVE  StoreInv' /\ Linked' /\ Keeps
<1>1. /\ LocksOf(t) /\ Finishing(p, t, "audit") /\ Then("record")
      /\ UNCHANGED <<storeVars, record, release>>
      /\ Append(t) \/ (Known(t) /\ UNCHANGED <<audit, logged>>)
  BY DEF Inv, Linked, WriteEntry, AuditEnabled, Completing
<1>2. release[t] = "released"
  BY <1>1 DEF Inv, Linked, Transacts
<1>3. t \in logged'
  BY <1>1 DEF Append, LocksOf
<1>4. Transacts'
  BY <1>1, <1>2, <1>3, NextTransacts
<1>. QED
  BY <1>1, <1>2, <1>4, AppendKeeps

\* A write that failed may have reached the file.
LEMMA LeaveUnauditedKeeps ==
  ASSUME Inv, NEW p \in Process, NEW t \in Task, LeaveUnaudited(p, t)
  PROVE  StoreInv' /\ Linked' /\ Keeps
<1>1. /\ Finishing(p, t, "audit") /\ transaction' = NoTransaction
      /\ UNCHANGED <<storeVars, record, release>>
      /\ Append(t) \/ UNCHANGED <<audit, logged>>
  BY DEF LeaveUnaudited, Leave, Completing
<1>2. release[t] = "released"
  BY <1>1 DEF Inv, Linked, Transacts
<1>. QED
  BY <1>1, <1>2, NoTransacts, AppendKeeps

\* audit_recorded is set after the entry was written.
LEMMA RecordAuditKeeps ==
  ASSUME Inv, NEW p \in Process, NEW t \in Task, RecordAudit(p, t)
  PROVE  StoreInv' /\ Linked' /\ Keeps
<1>1. /\ LocksOf(t) /\ Finishing(p, t, "record") /\ transaction' = NoTransaction
      /\ UNCHANGED <<storeVars, record, audit, logged>>
      /\ release' = [release EXCEPT ![t] = "audited"]
      /\ release \in [Task -> {"none", "decided", "released", "audited"}]
  BY DEF Inv, Linked, RecordAudit, Leave, Completing, TypeOK
<1>2. release[t] = "released" /\ release'[t] = "audited" /\ t \in logged
  BY <1>1 DEF Inv, Linked, Transacts
<1>3. HeldBy(t)' = HeldBy(t) /\ (Guarded(t)' <=> Guarded(t)) /\ HoldOf(t)' = HoldOf(t)
  BY <1>1, LocksFrame
<1>4. LocksOf(t)'
  BY <1>1, <1>2, <1>3 DEF LocksOf, Known
<1>5. \A u \in Task : u # t => /\ release'[u] = release[u]
                               /\ u \in logged' <=> u \in logged
                               /\ Known(u)' <=> Known(u)
  BY <1>1 DEF Known
<1>6. StageOf(t)' = StageOf(t)
  BY <1>2 DEF StageOf
<1>7. StoreInv' /\ Linked' /\ \A u \in Task : u # t => StageOf(u)' = StageOf(u)
  BY <1>1, <1>4, <1>5, NoTransacts, ReleaseFrame
<1>. QED
  BY <1>1, <1>6, <1>7, OneStageChanges

\* A release is finished from the step its sidecar names.
LEMMA FinishKeeps ==
  ASSUME Inv, NEW p \in Process, NEW t \in Task, Finish(p, t)
  PROVE  StoreInv' /\ Linked' /\ Keeps
<1>1. UNCHANGED <<storeVars, record, release, audit, logged>>
  BY DEF Finish, releases
<1>2. /\ transaction' = [process |-> p, task |-> t,
                         step |-> IF release[t] = "decided" THEN "clear" ELSE "audit"]
      /\ release[t] \in {"decided", "released"}
  BY DEF Finish
<1>3. Transacts'
  <2>1. CASE release[t] = "decided"
    BY <1>1, <1>2, <2>1 DEF Transacts, Finishing
  <2>2. CASE release[t] = "released"
    BY <1>1, <1>2, <2>2 DEF Transacts, Finishing
  <2>. QED
    BY <1>2, <2>1, <2>2
<1>4. \A u \in Task : HeldBy(u)' = HeldBy(u) /\ (Guarded(u)' <=> Guarded(u)) /\ HoldOf(u)' = HoldOf(u)
  BY <1>1, LocksFrame
<1>5. LocksOf(t)' /\ \A u \in Task : Known(u)' <=> Known(u)
  BY <1>1, <1>4 DEF Inv, Linked, LocksOf, Known
<1>6. StoreInv' /\ Linked'
  BY <1>1, <1>3, <1>5, ReleaseFrame
<1>7. Keeps
  BY <1>1, <1>4, NoStageChanges
<1>. QED
  BY <1>6, <1>7

\* Steps of records, and steps of the memory only.
LEMMA RecordKeeps ==
  ASSUME Inv, UNCHANGED Locking, \A t \in Task : Move(t) \/ Stay(t)
  PROVE  StoreInv' /\ Linked' /\ Keeps
<1>1. UNCHANGED storeVars /\ UNCHANGED <<release, logged>>
  BY DEF Locking, releases
<1>2. StoreInv'
  BY <1>1 DEF Inv, StoreInv, StoreTyped, Issued, Compatible, storeVars
<1>3. Linked'
  BY RecordStep DEF Inv
<1>4. \A t \in Task : HoldOf(t)' = {} <=> HoldOf(t) = {}
  BY <1>1, LocksFrame
<1>. QED
  BY <1>1, <1>2, <1>3, <1>4, NoStageChanges

\* A step that sets one record moves it.
LEMMA MoveKeeps ==
  ASSUME Inv, NEW t \in Task, NEW state \in RecordState, NEW claim \in ClaimedBy,
         SetRecord(t, state, claim), <<record[t].state, state>> \in Moves, UNCHANGED Locking
  PROVE  StoreInv' /\ Linked' /\ Keeps
<1>1. record \in [Task -> Records]
  BY DEF Inv, TypeOK, Records, Locks, ClaimedBy
<1>2. \A u \in Task : Move(u) \/ Stay(u)
  BY <1>1, SetRecordEffect DEF Move, Stay
<1>. QED
  BY <1>2, RecordKeeps

\* A transfer of the locks leaves the state of every record.
LEMMA TransferKeeps ==
  ASSUME Inv, NEW p \in Process, NEW t \in Task,
         \/ TakeOver(p, t) \/ TransferLocks(p, t) \/ RecordTransfer(p, t) \/ AwaitLease(p, t)
  PROVE  StoreInv' /\ Linked' /\ Keeps
<1>1. RecordsTyped
  BY TypeParts DEF Inv
<1>2. \A u \in Task : Stay(u)
  BY <1>1, Transfers DEF Stay
<1>3. UNCHANGED Locking
  BY DEF TakeOver, TransferLocks, RecordTransfer, AwaitLease, Bind, Executing, Locking
<1>. QED
  BY <1>2, <1>3, RecordKeeps

\* What the shared executor does for a task.
LEMMA ExecutionKeeps ==
  ASSUME Inv, NEW p \in Process, NEW t \in Task, Execution(p, t) \/ Fail(p, t)
  PROVE  StoreInv' /\ Linked' /\ Keeps
<1> USE DEF Executing, Locking, releases
<1>1. CASE Claim(p, t)
  BY <1>1, MoveKeeps DEF Claim, Moves, RecordState, ClaimedBy
<1>2. CASE Acquire(p, t)
  <2>1. StoreStep /\ Linked' /\ HoldOf(t) = {} /\ HoldOf(t)' = {} /\ OthersKeep(t)
    BY <1>2, AcquireLinked
  <2>2. release[t] = "none" /\ UNCHANGED <<release, logged>>
    BY <1>2 DEF Acquire, Owns, Inv, Linked, LocksOf, TypeOK
  <2>. QED
    BY <2>1, <2>2, LockStages DEF StoreStep
<1>3. CASE Refuse(p, t)
  BY <1>3, MoveKeeps DEF Refuse, Owns, Moves, RecordState, ClaimedBy
<1>4. CASE Commit(p, t)
  BY <1>4, MoveKeeps DEF Commit, Owns, Moves, RecordState, ClaimedBy
<1>5. CASE Verdict(p, t)
  BY <1>5, MoveKeeps DEF Verdict, Owns, Moves, RecordState, ClaimedBy
<1>6. CASE End(p, t)
  <2>1. CASE SettleLocks(t)
    <3>1. UNCHANGED <<record, releases, transaction, release, logged>>
      BY <1>6 DEF End
    <3>. QED
      BY <2>1, <3>1, SettleLinked, LockStages DEF StoreStep
  <2>2. CASE UNCHANGED storeVars
    BY <1>6, <2>2, RecordKeeps DEF End, Stay
  <2>. QED
    BY <1>6, <2>1, <2>2 DEF End
<1>7. CASE Fail(p, t)
  <2>1. \A u \in Task : Stay(u)
    BY <1>7 DEF Fail, Stay, Inv, TypeOK
  <2>. QED
    BY <1>7, <2>1, RecordKeeps DEF Fail
<1>8. CASE TransferLocks(p, t) \/ RecordTransfer(p, t) \/ AwaitLease(p, t)
  BY <1>8, TransferKeeps
<1>. QED
  BY <1>1, <1>2, <1>3, <1>4, <1>5, <1>6, <1>7, <1>8 DEF Execution

\* What recovery does for a task.
LEMMA ReconcileKeeps ==
  ASSUME Inv, NEW p \in Process, NEW t \in Task, Reconcile(p, t)
  PROVE  StoreInv' /\ Linked' /\ Keeps
<1> USE DEF Executing, Locking, releases
<1>1. CASE Cancel(p, t)
  BY <1>1, MoveKeeps DEF Cancel, Ownerless, Moves, RecordState, ClaimedBy
<1>2. CASE TakeOver(p, t)
  BY <1>2, TransferKeeps
<1>3. CASE Settle(p, t)
  <2>1. UNCHANGED <<record, releases, transaction, release, logged>> /\ SettleLocks(t)
    BY <1>3 DEF Settle
  <2>. QED
    BY <2>1, SettleLinked, LockStages DEF StoreStep
<1>4. CASE Finish(p, t)
  BY <1>4, FinishKeeps
<1>. QED
  BY <1>1, <1>2, <1>3, <1>4 DEF Reconcile

\* A death gives up a transaction and no fact on disk.
LEMMA CrashKeeps ==
  ASSUME Inv, NEW p \in Process, Crash(p)
  PROVE  StoreInv' /\ Linked' /\ Keeps
<1>1. UNCHANGED <<storeVars, releases, release, audit, logged>>
  BY DEF Crash, releases
<1>2. \A t \in Task : Stay(t)
  BY DEF Crash, Stay
<1>3. CASE transaction' = transaction
  BY <1>1, <1>2, <1>3, RecordKeeps DEF Locking
<1>4. CASE transaction' = NoTransaction
  <2>1. \A t \in Task : LocksOf(t)'
    <3> SUFFICES ASSUME NEW t \in Task PROVE LocksOf(t)'
      OBVIOUS
    <3>1. LocksOf(t) /\ Stay(t)
      BY <1>2 DEF Inv, Linked
    <3>2. HeldBy(t)' = HeldBy(t) /\ (Guarded(t)' <=> Guarded(t)) /\ HoldOf(t)' = HoldOf(t)
      BY <1>1, LocksFrame
    <3>. QED
      BY <1>1, <3>1, <3>2 DEF LocksOf, Stay, Known
  <2>2. StoreInv'
    BY <1>1 DEF Inv, StoreInv, StoreTyped, Issued, Compatible, storeVars
  <2>3. \A t \in Task : HoldOf(t)' = {} <=> HoldOf(t) = {}
    BY <1>1, LocksFrame
  <2>. QED
    BY <1>1, <1>4, <2>1, <2>2, <2>3, NoTransacts, NoStageChanges DEF Linked
<1>. QED
  BY <1>3, <1>4 DEF Crash

\* A rotation forgets entries, never what was logged.
LEMMA RotateKeeps ==
  ASSUME Inv, Rotate
  PROVE  StoreInv' /\ Linked' /\ Keeps
<1>1. UNCHANGED <<storeVars, record, release, logged, transaction>>
  BY DEF Rotate
<1>2. \A t \in Task : Known(t)' => Known(t)
  <2> SUFFICES ASSUME NEW t \in Task PROVE Known(t)' => Known(t)
    OBVIOUS
  <2>1. audit.current[t] \in Nat /\ audit.rotated[t] \in Nat
    BY DEF Inv, TypeOK
  <2>2. audit'.current[t] = 0 /\ audit'.rotated[t] = audit.current[t]
    BY DEF Rotate
  <2>. QED
    BY <2>1, <2>2 DEF Known
<1>3. \A t \in Task : HeldBy(t)' = HeldBy(t) /\ (Guarded(t)' <=> Guarded(t)) /\ HoldOf(t)' = HoldOf(t)
  BY <1>1, LocksFrame
<1>4. Transacts'
  BY <1>1, <1>3 DEF Inv, Linked, Transacts, Finishing
<1>5. \A t \in Task : LocksOf(t)'
  <2> SUFFICES ASSUME NEW t \in Task PROVE LocksOf(t)'
    OBVIOUS
  <2>. QED
    BY <1>1, <1>2, <1>3 DEF Inv, Linked, LocksOf
<1>6. StoreInv'
  BY <1>1 DEF Inv, StoreInv, StoreTyped, Issued, Compatible, storeVars
<1>7. Keeps
  BY <1>1, <1>3, NoStageChanges
<1>. QED
  BY <1>4, <1>5, <1>6, <1>7 DEF Linked

\* Every step keeps the invariant and is a step of the promise, or none.
LEMMA Steps ==
  ASSUME Inv, Next
  PROVE  Inv' /\ Keeps
<1> SUFFICES StoreInv' /\ Linked' /\ Keeps
  <2>1. RecordsTyped' /\ MemoryTyped' /\ ReleasesTyped'
    BY RecordsStayTyped, MemoryStaysTyped, ReleasesStayTyped DEF Inv
  <2>2. StoreInv' => TypeOK'
    BY <2>1 DEF StoreInv, StoreTyped, TypeOK, RecordsTyped, Records, Locks, MemoryTyped, ClaimedBy,
                ReleasesTyped
  <2>. QED
    BY <2>2 DEF Inv
<1>1. ASSUME NEW p \in Process, NEW t \in Task, Decision(p, t)
      PROVE  StoreInv' /\ Linked' /\ Keeps
  <2>1. CASE ReadBack(p, t)
    BY <2>1, RecordKeeps DEF ReadBack, Panel, Stay, Locking, releases
  <2>2. CASE Decide(p, t)
    BY <2>2, DecideKeeps
  <2>. QED
    BY <1>1, <2>1, <2>2 DEF Decision
<1>2. ASSUME NEW p \in Process, NEW t \in Task, Completion(p, t)
      PROVE  StoreInv' /\ Linked' /\ Keeps
  BY <1>2, ClearHoldKeeps, MarkReleasedKeeps, WriteEntryKeeps, LeaveUnauditedKeeps,
     RecordAuditKeeps DEF Completion
<1>3. ASSUME NEW c \in Call, PrepareFails(c) \/ \E p \in Process : Control(p, c) \/ Declare(p, c)
      PROVE  StoreInv' /\ Linked' /\ Keeps
  BY <1>3, RecordKeeps DEF Control, Declare, PrepareFails, Stay, Locking
<1>4. ASSUME NEW t \in Task, Expire(t) \/ PassDeadline(t) \/ ClaimRunsOut(t)
      PROVE  StoreInv' /\ Linked' /\ Keeps
  <2>1. UNCHANGED Locking
    BY <1>4 DEF Expire, PassDeadline, ClaimRunsOut, Executing, Locking
  <2>2. \A u \in Task : Stay(u)
    <3>1. record \in [Task -> Records]
      BY DEF Inv, TypeOK, Records, Locks, ClaimedBy
    <3>2. CASE Expire(t)
      BY <3>2 DEF Expire, Stay
    <3>3. CASE PassDeadline(t)
      BY <3>1, <3>3 DEF PassDeadline, Stay, Records
    <3>4. CASE ClaimRunsOut(t)
      BY <3>1, <3>4 DEF ClaimRunsOut, Stay, Records
    <3>. QED
      BY <1>4, <3>2, <3>3, <3>4
  <2>. QED
    BY <2>1, <2>2, RecordKeeps
<1>5. CASE Interrupt
  <2>1. UNCHANGED <<storeVars, releases, record>> /\ transaction' = NoTransaction
    BY <1>5 DEF Interrupt, Leave, Completing
  <2>2. \A t \in Task : LocksOf(t)' /\ (HoldOf(t)' = {} <=> HoldOf(t) = {})
    BY <2>1, LocksFrame DEF Inv, Linked, LocksOf, releases, Known
  <2>3. StoreInv'
    BY <2>1 DEF Inv, StoreInv, StoreTyped, Issued, Compatible, storeVars
  <2>. QED
    BY <2>1, <2>2, <2>3, NoTransacts, NoStageChanges DEF Linked, releases
<1>. QED
  BY <1>1, <1>2, <1>3, <1>4, <1>5, ExecutionKeeps, ReconcileKeeps, CrashKeeps, RotateKeeps
     DEF Next

-----------------------------------------------------------------------------
(* The capacity.                                                           *)

\* What a process executes and what it prepares is finite.
LEMMA Finite ==
  ASSUME TypeOK, NEW p \in Process
  PROVE  /\ IsFiniteSet(active[p]) /\ Cardinality(active[p]) \in Nat
         /\ IsFiniteSet(Preparing(p)) /\ Cardinality(Preparing(p)) \in Nat
<1>1. active[p] \in SUBSET Task /\ Preparing(p) \in SUBSET Call
  BY DEF TypeOK, Preparing
<1>2. IsFiniteSet(active[p]) /\ IsFiniteSet(Preparing(p))
  BY <1>1, FanAssumption, FS_Subset
<1>. QED
  BY <1>2, FS_CardinalityType

\* Nothing new starts, and nothing new is prepared.
LEMMA NothingStarts ==
  ASSUME TypeOK, WithinCapacity, NEW p \in Process,
         active'[p] \subseteq active[p], Preparing(p)' \subseteq Preparing(p)
  PROVE  Cardinality(active'[p]) + Cardinality(Preparing(p)') <= MaxActive
<1>1. /\ IsFiniteSet(active[p]) /\ Cardinality(active[p]) \in Nat
      /\ IsFiniteSet(Preparing(p)) /\ Cardinality(Preparing(p)) \in Nat
  BY Finite
<1>2. /\ IsFiniteSet(active'[p]) /\ Cardinality(active'[p]) <= Cardinality(active[p])
      /\ IsFiniteSet(Preparing(p)') /\ Cardinality(Preparing(p)') <= Cardinality(Preparing(p))
  BY <1>1, FS_Subset
<1>3. Cardinality(active'[p]) \in Nat /\ Cardinality(Preparing(p)') \in Nat
  BY <1>2, FS_CardinalityType
<1>. QED
  BY <1>1, <1>2, <1>3, FanAssumption DEF WithinCapacity

\* A call that is admitted takes a place that was free; the execution it starts
\* takes the place of the call.
LEMMA CapacityKept ==
  ASSUME TypeOK, WithinCapacity, Next
  PROVE  WithinCapacity'
<1>0. /\ active \in [Process -> SUBSET Task]
      /\ call \in [Call -> Process \union {NoProcess, Lost}]
  BY DEF TypeOK
<1>1. SUFFICES ASSUME NEW p \in Process
               PROVE  Cardinality(active'[p]) + Cardinality(Preparing(p)') <= MaxActive
  BY DEF WithinCapacity
<1>2. /\ IsFiniteSet(active[p]) /\ Cardinality(active[p]) \in Nat
      /\ IsFiniteSet(Preparing(p)) /\ Cardinality(Preparing(p)) \in Nat
      /\ Cardinality(active[p]) + Cardinality(Preparing(p)) <= MaxActive
  BY Finite DEF WithinCapacity
<1>3. ASSUME NEW q \in Process, NEW c \in Call, Control(q, c)
      PROVE  Cardinality(active'[p]) + Cardinality(Preparing(p)') <= MaxActive
  <2>1. active' = active /\ call' = [call EXCEPT ![c] = q] /\ HasRoom(q) /\ call[c] = NoProcess
    BY <1>3 DEF Control
  <2>2. CASE p = q
    <3>1. Preparing(p)' = Preparing(p) \union {c} /\ c \notin Preparing(p)
      BY <1>0, <2>1, <2>2, FanAssumption DEF Preparing
    <3>2. Cardinality(Preparing(p)') = Cardinality(Preparing(p)) + 1
      BY <1>2, <3>1, FS_AddElement
    <3>. QED
      BY <1>2, <2>1, <2>2, <3>2, FanAssumption DEF HasRoom
  <2>3. CASE p # q
    <3>1. Preparing(p)' \subseteq Preparing(p)
      BY <1>0, <2>1, <2>3 DEF Preparing
    <3>. QED
      BY <2>1, <3>1, NothingStarts
  <2>. QED
    BY <2>2, <2>3
<1>4. ASSUME NEW q \in Process, NEW c \in Call, Declare(q, c)
      PROVE  Cardinality(active'[p]) + Cardinality(Preparing(p)') <= MaxActive
  <2> DEFINE t == TaskFor[c]
  <2>1. /\ call[c] = q /\ call' = [call EXCEPT ![c] = Lost]
        /\ active' = IF Starts(q, t) THEN Put(active, q, t) ELSE active
    BY <1>4 DEF Declare
  <2>2. Preparing(p)' = Preparing(p) \ {c}
    BY <1>0, <2>1, FanAssumption DEF Preparing
  <2>3. CASE p = q /\ Starts(q, t)
    <3>1. active'[p] = active[p] \union {t} /\ t \notin active[p] /\ c \in Preparing(p)
      BY <1>0, <2>1, <2>3 DEF Put, Starts, Preparing
    <3>2. Cardinality(active'[p]) = Cardinality(active[p]) + 1
      BY <1>2, <3>1, FS_AddElement
    <3>3. Cardinality(Preparing(p)') = Cardinality(Preparing(p)) - 1
      BY <1>2, <2>2, <3>1, FS_RemoveElement
    <3>. QED
      BY <1>2, <3>2, <3>3, FanAssumption
  <2>4. CASE p # q \/ ~Starts(q, t)
    <3>1. active'[p] = active[p]
      BY <1>0, <2>1, <2>4 DEF Put
    <3>. QED
      BY <2>2, <3>1, NothingStarts
  <2>. QED
    BY <2>3, <2>4
<1>5. ASSUME NEW c \in Call, PrepareFails(c)
      PROVE  Cardinality(active'[p]) + Cardinality(Preparing(p)') <= MaxActive
  <2>1. active' = active /\ Preparing(p)' \subseteq Preparing(p)
    BY <1>0, <1>5, FanAssumption DEF PrepareFails, Preparing
  <2>. QED
    BY <2>1, NothingStarts
<1>6. ASSUME NEW q \in Process, Crash(q)
      PROVE  Cardinality(active'[p]) + Cardinality(Preparing(p)') <= MaxActive
  <2>1. active'[p] \subseteq active[p]
    BY <1>0, <1>6 DEF Crash
  <2>2. Preparing(p)' \subseteq Preparing(p)
    BY <1>0, <1>6, FanAssumption DEF Crash, Preparing
  <2>. QED
    BY <2>1, <2>2, NothingStarts
<1>7. ASSUME NEW q \in Process, NEW t \in Task, Execution(q, t) \/ Fail(q, t)
      PROVE  Cardinality(active'[p]) + Cardinality(Preparing(p)') <= MaxActive
  <2>1. active'[p] \subseteq active[p]
    BY <1>0, <1>7 DEF Execution, Claim, Acquire, Refuse, Commit, Verdict, TransferLocks,
                      RecordTransfer, AwaitLease, Bind, End, Ended, Fail, Drop
  <2>2. call' = call
    BY <1>7 DEF Execution, Claim, Acquire, Refuse, Commit, Verdict, TransferLocks,
                RecordTransfer, AwaitLease, Bind, End, Fail, Executing
  <2>. QED
    BY <2>1, <2>2, NothingStarts DEF Preparing
<1>8. ASSUME UNCHANGED <<active, call>>
      PROVE  Cardinality(active'[p]) + Cardinality(Preparing(p)') <= MaxActive
  BY <1>2, <1>8 DEF Preparing
<1>9. ASSUME NEW q \in Process, NEW t \in Task,
             Reconcile(q, t) \/ Decision(q, t) \/ Completion(q, t)
      PROVE  UNCHANGED <<active, call>>
  BY <1>9 DEF Reconcile, Cancel, TakeOver, Bind, Settle, Finish, Executing, Decision, ReadBack, Decide,
              Panel, Completion, ClearHold, MarkReleased, WriteEntry, LeaveUnaudited, RecordAudit,
              Completing
<1>10. ASSUME Interrupt \/ Rotate \/ \E t \in Task : Expire(t) \/ PassDeadline(t) \/ ClaimRunsOut(t)
       PROVE  UNCHANGED <<active, call>>
  BY <1>10 DEF Interrupt, Rotate, Expire, PassDeadline, ClaimRunsOut, Completing, Executing
<1>. QED
  BY <1>3, <1>4, <1>5, <1>6, <1>7, <1>8, <1>9, <1>10 DEF Next

-----------------------------------------------------------------------------
(* The theorems.                                                           *)

\* No step of a service, a sweep, an administrator or a death leaves the
\* invariant.
LEMMA Invariance == Spec => []Inv
<1>1. Inv /\ UNCHANGED vars => Inv'
  <2> SUFFICES ASSUME Inv, UNCHANGED vars PROVE Inv'
    OBVIOUS
  <2>1. UNCHANGED <<storeVars, releases, transaction, record>>
    BY DEF vars
  <2>2. StoreInv' /\ Linked'
    BY <2>1, RecordKeeps DEF Stay, Locking
  <2>3. TypeOK'
    BY DEF vars, storeVars, releases, Inv, TypeOK
  <2>. QED
    BY <2>2, <2>3 DEF Inv
<1>2. Inv /\ [Next]_vars => Inv'
  BY <1>1, Steps
<1>. QED
  BY <1>2, InitInv, PTL DEF Spec

\* Records, sidecars, calls and the log stay well formed, and no process ever
\* executes a task whose declaration is not on disk.
THEOREM TypeCorrect == Spec => []TypeOK
<1>1. Inv => TypeOK
  BY DEF Inv
<1>. QED
  BY <1>1, Invariance, PTL

\* control and get_execution_task never take a process beyond MAX_ACTIVE, for
\* any number of calls.
THEOREM CapacityHolds == Spec => []WithinCapacity
<1>1. Init => WithinCapacity
  <2> SUFFICES ASSUME Init, NEW p \in Process
               PROVE  Cardinality(active[p]) + Cardinality(Preparing(p)) <= MaxActive
    BY DEF WithinCapacity
  <2>1. active[p] = {} /\ Preparing(p) = {}
    BY FanAssumption DEF Init, Preparing
  <2>. QED
    BY <2>1, FS_EmptySet, FanAssumption
<1>2. Inv /\ WithinCapacity /\ [Next]_vars => WithinCapacity'
  <2>1. UNCHANGED vars /\ WithinCapacity => WithinCapacity'
    BY DEF vars, WithinCapacity, Preparing
  <2>. QED
    BY <2>1, CapacityKept DEF Inv
<1>. QED
  BY <1>1, <1>2, Invariance, PTL DEF Spec

\* Between the intent of a task and the decision about its hold nobody else
\* controls the entity: its lock, then its hold, stays with the task.
THEOREM EntityReserved == Spec => []EntityReusedAfterDecision
<1>1. Inv => EntityReusedAfterDecision
  <2> SUFFICES ASSUME Inv, NEW t \in Task, NEW u \in Task, t # u, EntityKey[t] = EntityKey[u],
                      record[t].state \in {"intent", "review"}, release[t] = "none",
                      record[u].state = "intent"
               PROVE  FALSE
    BY DEF EntityReusedAfterDecision
  <2>1. PICK r \in HeldBy(t) : r.key = EntityKey[t] /\ r.mode = "exclusive"
    BY DEF Inv, Linked, LocksOf, Guarded
  <2>2. PICK s \in HeldBy(u) : s.key = EntityKey[u] /\ s.mode = "exclusive"
    BY DEF Inv, Linked, LocksOf, Guarded
  <2>3. r \in records /\ s \in records /\ r # s /\ r.key = s.key
    BY <2>1, <2>2 DEF HeldBy
  <2>. QED
    BY <2>1, <2>3 DEF Inv, StoreInv, Compatible
<1>. QED
  BY <1>1, Invariance, PTL

\* audit_recorded is never claimed for a release the log was not told of.
THEOREM FlagIsTrue == Spec => []AuditFlagIsTrue
<1>1. Inv => AuditFlagIsTrue
  BY DEF Inv, Linked, LocksOf, AuditFlagIsTrue
<1>. QED
  BY <1>1, Invariance, PTL

\* A release is told once in the files the log retains, through any number of
\* deaths, failed writes and rotations.
THEOREM EntryOnce == Spec => []ToldOnce
<1>1. Init => ToldOnce
  BY DEF Init, ToldOnce
<1>2. Inv /\ ToldOnce /\ [Next]_vars => ToldOnce'
  <2> SUFFICES ASSUME Inv, ToldOnce, [Next]_vars PROVE ToldOnce'
    OBVIOUS
  <2>1. audit \in [current : [Task -> Nat], rotated : [Task -> Nat]]
    BY DEF Inv, TypeOK
  <2>2. CASE audit' = audit
    BY <2>2 DEF ToldOnce
  <2>3. ASSUME NEW t \in Task, Append(t), ~Known(t) PROVE ToldOnce'
    <3>1. audit.current[t] = 0 /\ audit.rotated[t] = 0
      BY <2>1, <2>3 DEF Known
    <3>2. audit' = [audit EXCEPT !.current[t] = 1]
      BY <2>1, <2>3, <3>1 DEF Append
    <3>. QED
      BY <2>1, <3>1, <3>2 DEF ToldOnce
  <2>4. CASE Rotate
    BY <2>1, <2>4 DEF Rotate, ToldOnce
  <2>5. ASSUME NEW p \in Process, NEW t \in Task, Completion(p, t)
        PROVE  audit' = audit \/ (Append(t) /\ ~Known(t))
    BY <2>5 DEF Completion, ClearHold, MarkReleased, WriteEntry, LeaveUnaudited, RecordAudit,
                releases
  <2>6. ASSUME NEW p \in Process, NEW t \in Task, Execution(p, t) \/ Fail(p, t)
        PROVE  audit' = audit
    BY <2>6 DEF Execution, Claim, Acquire, Refuse, Commit, Verdict, TransferLocks,
                RecordTransfer, AwaitLease, Bind, End, Fail, Executing, releases
  <2>7. ASSUME NEW p \in Process, NEW t \in Task, Reconcile(p, t) \/ Decision(p, t)
        PROVE  audit' = audit
    BY <2>7 DEF Reconcile, Cancel, TakeOver, Bind, Settle, Finish, Executing, Decision, ReadBack, Decide,
                Panel, releases
  <2>8. ASSUME \/ \E p \in Process, c \in Call : Control(p, c) \/ Declare(p, c)
               \/ \E c \in Call : PrepareFails(c)
               \/ \E t \in Task : Expire(t) \/ PassDeadline(t) \/ ClaimRunsOut(t)
               \/ (\E p \in Process : Crash(p)) \/ Interrupt \/ UNCHANGED vars
        PROVE  audit' = audit
    BY <2>8 DEF Control, Declare, PrepareFails, Expire, PassDeadline, ClaimRunsOut, Crash,
                Interrupt, Executing, releases, vars
  <2>. QED
    BY <2>2, <2>3, <2>4, <2>5, <2>6, <2>7, <2>8 DEF Next
<1>. QED
  BY <1>1, <1>2, Invariance, PTL DEF Spec

\* The service implements the promise of HoldRelease: one decision before a hold
\* is lifted, never a second one, and a log of completed releases only.
THEOREM KeepsPromise == Spec => ReleaseSpec
<1>1. Init => HR!Init
  <2>1. Init => \A t \in Task : StageOf(t) = "open"
    BY DEF Init, StoreInit, StageOf, HoldOf, HeldBy
  <2>. QED
    BY <2>1 DEF Init, HR!Init
<1>2. Inv /\ [Next]_vars => [HR!Next]_Promise
  <2>1. UNCHANGED vars => UNCHANGED Promise
    BY DEF vars, storeVars, releases, Promise, StageOf, HoldOf, HeldBy
  <2>. QED
    BY <2>1, Steps DEF Keeps
<1>. QED
  BY <1>1, <1>2, Invariance, PTL DEF Spec, ReleaseSpec, HR!Spec, Promise
=============================================================================
