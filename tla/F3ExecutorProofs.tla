--------------------------- MODULE F3ExecutorProofs --------------------------
(***************************************************************************)
(* F3Executor for any number of tasks and runs, any adapter answers, any   *)
(* stalls, deaths and storage faults: it stays well typed, and no task's   *)
(* operation is sent twice.                                                *)
(***************************************************************************)
EXTENDS F3Executor, DurableLockStoreProofs

\* Before a run calls the provider its intent is durable, nothing was sent for
\* the task, and no other run of the task is about to call.
SendIsFirst ==
  \A r \in Owner : At(r, "send") => Rec(r).intent /\ sends[TaskOf[r]] = 0
SendIsAlone ==
  \A r, s \in Owner : At(r, "send") /\ At(s, "send") /\ TaskOf[r] = TaskOf[s] => r = s
IntentHasOwner == \A t \in Task : exec[t].intent => Exists(exec[t])

ExecutorTyped ==
  /\ exec \in [Task -> ExecutionRecord]
  /\ run \in [Owner -> Run]
  /\ sends \in [Task -> Nat]
  /\ crashes \in 0..MaxCrashes /\ faults \in 0..MaxFaults

Inv == /\ StoreInv /\ ExecutorTyped
       /\ SendIsFirst /\ SendIsAlone /\ IntentHasOwner /\ AtMostOneSend

-----------------------------------------------------------------------------
(* Steps that neither commit an intent nor call the provider.              *)

\* Run r goes on as n, the record of its task becomes x.
Harmless(x, y) == x \in ExecutionRecord /\ x.intent = y.intent /\ (Exists(y) => Exists(x))
Elsewhere(n) == n \in Run /\ n.pc # "send"
Moves(r, n, x) ==
  /\ Elsewhere(n) /\ Harmless(x, Rec(r))
  /\ run' = [run EXCEPT ![r] = n]
  /\ exec' = [exec EXCEPT ![TaskOf[r]] = x]
  /\ StoreInv' /\ sends' = sends
  /\ crashes' \in 0..MaxCrashes /\ faults' \in 0..MaxFaults

\* Such a step of one run keeps the invariant: no intent is lost, none is gained,
\* and nobody comes to stand before the provider call.
LEMMA MoveKeeps ==
  ASSUME Inv, NEW r \in Owner, NEW n, NEW x, Moves(r, n, x)
  PROVE  Inv'
<1>1. TaskOf[r] \in Task
  BY OwnerAssumption
<1>2. exec' \in [Task -> ExecutionRecord] /\ run' \in [Owner -> Run]
  BY <1>1 DEF Inv, ExecutorTyped, Moves, Elsewhere, Harmless
<1>3. ExecutorTyped'
  BY <1>2 DEF Inv, ExecutorTyped, Moves
<1>4. \A t \in Task : exec'[t].intent = exec[t].intent
  BY <1>1 DEF Inv, ExecutorTyped, Moves, Harmless, Rec
<1>5. \A s \in Owner : At(s, "send")' => At(s, "send")
  BY DEF Inv, ExecutorTyped, Moves, Elsewhere, At
<1>6. sends' = sends
  BY DEF Moves
<1>7. SendIsFirst'
  BY <1>4, <1>5, <1>6, OwnerAssumption DEF Inv, SendIsFirst, Rec
<1>8. SendIsAlone'
  BY <1>5 DEF Inv, SendIsAlone
<1>9. IntentHasOwner'
  BY <1>1, <1>4 DEF Inv, ExecutorTyped, IntentHasOwner, Moves, Harmless, Rec, Exists
<1>10. AtMostOneSend'
  BY <1>4, <1>6 DEF Inv, AtMostOneSend
<1>. QED
  BY <1>3, <1>7, <1>8, <1>9, <1>10 DEF Inv, Moves

\* A guarded repository write of such a record.
LEMMA SaveKeeps ==
  ASSUME Inv, NEW r \in Owner, NEW valid, NEW x, NEW ok, NEW err,
         Save(r, valid, x, ok, err), Elsewhere(ok), Elsewhere(err),
         HasClaim(r) /\ valid => Harmless(x, Rec(r))
  PROVE  Inv'
<1>1. Rec(r) \in ExecutionRecord /\ Harmless(Rec(r), Rec(r))
  BY OwnerAssumption DEF Inv, ExecutorTyped, Rec, Harmless
<1>2. exec = [exec EXCEPT ![TaskOf[r]] = Rec(r)]
  BY OwnerAssumption DEF Inv, ExecutorTyped, Rec
<1>3. StoreInv' /\ sends' = sends /\ crashes' \in 0..MaxCrashes /\ faults' \in 0..MaxFaults
  <2>1. StoreInv'
    BY DEF Save, Inv, StoreInv, StoreTyped, Issued, Compatible
  <2>. QED
    BY <2>1, ExecutorAssumption DEF Save, Inv, ExecutorTyped
<1>4. Moves(r, ok, x) \/ Moves(r, err, x) \/ Moves(r, err, Rec(r))
  BY <1>1, <1>2, <1>3 DEF Save, Moves
<1>. QED
  BY <1>4, MoveKeeps
\* Local steps.
LEMMA ContinueKeeps ==
  ASSUME Inv, NEW r \in Owner, NEW n, Continue(r, n), Elsewhere(n)
  PROVE  Inv'
<1>1. Rec(r) \in ExecutionRecord /\ Harmless(Rec(r), Rec(r))
  BY OwnerAssumption DEF Inv, ExecutorTyped, Rec, Harmless
<1>2. exec = [exec EXCEPT ![TaskOf[r]] = Rec(r)]
  BY OwnerAssumption DEF Inv, ExecutorTyped, Rec
<1>3. StoreInv' /\ sends' = sends /\ crashes' \in 0..MaxCrashes /\ faults' \in 0..MaxFaults
  BY DEF Continue, Inv, StoreInv, StoreTyped, Issued, Compatible, ExecutorTyped
<1>4. Moves(r, n, Rec(r))
  BY <1>1, <1>2, <1>3 DEF Continue, Moves
<1>. QED
  BY <1>4, MoveKeeps

\* The forms a run takes next.
LEMMA NextRuns ==
  ASSUME Inv, NEW r \in Owner
  PROVE  /\ Elsewhere(NotRunning)
         /\ \A step \in Steps \ {"send"} : Elsewhere(To(r, step))
         /\ \A step \in Steps \ {"send"},
                handler \in {"none", "preflightFailed", "observeFailed", "verifyFailed"} :
              Elsewhere(Into(r, step, handler))
         /\ Elsewhere(Escape(r)) /\ Elsewhere(Caught(r))
<1>1. run[r] \in Run
  BY DEF Inv, ExecutorTyped
<1>2. Elsewhere(NotRunning)
  BY DEF Elsewhere, NotRunning, Run, Steps
<1>3. \A step \in Steps \ {"send"} : Elsewhere(To(r, step))
  BY <1>1, <1>2 DEF Elsewhere, To, Run
<1>4. \A step \in Steps \ {"send"},
          handler \in {"none", "preflightFailed", "observeFailed", "verifyFailed"} :
        Elsewhere(Into(r, step, handler))
  BY <1>1 DEF Elsewhere, Into, Run
<1>5. Elsewhere(Escape(r))
  BY <1>2, <1>4 DEF Escape, Steps
<1>6. Elsewhere(Caught(r))
  BY <1>1, <1>4, <1>5 DEF Caught, Run, Steps
<1>. QED
  BY <1>2, <1>3, <1>4, <1>5, <1>6

\* The record of a run's task.
LEMMA RecordTyped ==
  ASSUME Inv, NEW r \in Owner
  PROVE  Rec(r) \in ExecutionRecord /\ run[r] \in Run /\ TaskOf[r] \in Task
BY OwnerAssumption DEF Inv, ExecutorTyped, Rec

\* The updates of a record that leave its intent alone.
LEMMA HarmlessUpdates ==
  ASSUME NEW x \in ExecutionRecord
  PROVE  /\ \A outcome \in Outcome :
              /\ Harmless(Ended(x, outcome), x)
              /\ Harmless(DispatchResult(x, outcome), x)
              /\ x.observations < AttemptLimit => Harmless(Observed(x, outcome), x)
              /\ x.verifications < AttemptLimit => Harmless(Verified(x, outcome), x)
         /\ \A tokens \in SUBSET LockToken : Harmless([x EXCEPT !.tokens = tokens], x)
         /\ Harmless([x EXCEPT !.preflight = TRUE], x)
         /\ Harmless([x EXCEPT !.claim = 0], x)
<1>1. ASSUME NEW outcome \in Outcome
      PROVE  Harmless(Ended(x, outcome), x)
  BY DEF Harmless, Exists, Ended, ExecutionRecord
<1>2. ASSUME NEW outcome \in Outcome
      PROVE  Harmless(DispatchResult(x, outcome), x)
  BY DEF Harmless, Exists, DispatchResult, ExecutionRecord
<1>3. ASSUME NEW outcome \in Outcome, x.observations < AttemptLimit
      PROVE  Harmless(Observed(x, outcome), x)
  <2> DEFINE n == x.observations + 1
  <2>1. n \in 0..AttemptLimit
    BY <1>3, ExecutorAssumption DEF ExecutionRecord
  <2>2. Observed(x, outcome) = [x EXCEPT !.outcome = outcome, !.observations = n]
    BY DEF Observed, ExecutionRecord
  <2> HIDE DEF n
  <2>. QED
    BY <2>1, <2>2 DEF Harmless, Exists, ExecutionRecord
<1>4. ASSUME NEW outcome \in Outcome, x.verifications < AttemptLimit
      PROVE  Harmless(Verified(x, outcome), x)
  <2> DEFINE n == x.verifications + 1
             b == outcome # "observing"
  <2>1. n \in 0..AttemptLimit /\ b \in BOOLEAN
    BY <1>4, ExecutorAssumption DEF ExecutionRecord
  <2>2. Verified(x, outcome) =
          [x EXCEPT !.outcome = outcome, !.terminal = b, !.verifications = n]
    BY DEF Verified, ExecutionRecord
  <2> HIDE DEF n, b
  <2>. QED
    BY <2>1, <2>2 DEF Harmless, Exists, ExecutionRecord
<1>5. ASSUME NEW tokens \in SUBSET LockToken
      PROVE  Harmless([x EXCEPT !.tokens = tokens], x)
  BY DEF Harmless, Exists, ExecutionRecord
<1>6. Harmless([x EXCEPT !.preflight = TRUE], x)
  BY DEF Harmless, Exists, ExecutionRecord
<1>7. Harmless([x EXCEPT !.claim = 0], x)
  BY ExecutorAssumption DEF Harmless, Exists, ExecutionRecord
<1>. QED
  BY <1>1, <1>2, <1>3, <1>4, <1>5, <1>6, <1>7

-----------------------------------------------------------------------------
(* Before the intent.                                                      *)

\* A lock conflict rejects the record.
LEMMA ConflictKeeps == ASSUME Inv, NEW r \in Owner, Conflict(r) PROVE Inv'
<1>1. Harmless(Ended(Rec(r), "failed_pre_dispatch"), Rec(r))
  BY RecordTyped, HarmlessUpdates DEF Outcome, PreDispatch
<1>2. Elsewhere(NotRunning)
  BY NextRuns
<1>3. Save(r, Rejectable(Rec(r)), Ended(Rec(r), "failed_pre_dispatch"), NotRunning, NotRunning)
  BY DEF Conflict
<1>. QED
  BY <1>1, <1>2, <1>3, SaveKeeps

\* record_locks stores the tokens of the acquisition.
LEMMA RecordLocksKeeps == ASSUME Inv, NEW r \in Owner, RecordLocks(r) PROVE Inv'
<1>1. Harmless([Rec(r) EXCEPT !.tokens = run[r].tokens], Rec(r))
  BY RecordTyped, HarmlessUpdates DEF Run
<1>2. Elsewhere(To(r, "preflight")) /\ Elsewhere(To(r, "failLocks"))
  BY NextRuns DEF Steps
<1>. QED
  BY <1>1, <1>2, SaveKeeps DEF RecordLocks

\* fail_lock_acquisition ends the record, or finds its claim lost.
LEMMA FailLocksKeeps == ASSUME Inv, NEW r \in Owner, FailLocks(r) PROVE Inv'
<1>1. Harmless(Ended(Rec(r), "failed_pre_dispatch"), Rec(r))
  BY RecordTyped, HarmlessUpdates DEF Outcome, PreDispatch
<1>2. Elsewhere(NotRunning) /\ Elsewhere(To(r, "cleanup"))
  BY NextRuns DEF Steps
<1>. QED
  BY <1>1, <1>2, SaveKeeps DEF FailLocks

\* The adapter's preflight changes nothing durable.
LEMMA PreflightKeeps == ASSUME Inv, NEW r \in Owner, Preflight(r) PROVE Inv'
<1>1. \A step \in {"recordPreflight", "noop", "reject", "preflightFailed"} : Elsewhere(To(r, step))
  BY NextRuns DEF Steps
<1>. QED
  BY <1>1, ContinueKeeps DEF Preflight

\* record_preflight marks the record as checked.
LEMMA RecordPreflightKeeps == ASSUME Inv, NEW r \in Owner, RecordPreflight(r) PROVE Inv'
<1>1. Harmless([Rec(r) EXCEPT !.preflight = TRUE], Rec(r))
  BY RecordTyped, HarmlessUpdates
<1>2. Elsewhere(To(r, "authority")) /\ Elsewhere(To(r, "preflightFailed"))
  BY NextRuns DEF Steps
<1>. QED
  BY <1>1, <1>2, SaveKeeps DEF RecordPreflight

\* An operation already in its target state ends verified, without an intent.
LEMMA NoopKeeps == ASSUME Inv, NEW r \in Owner, Noop(r) PROVE Inv'
<1> DEFINE x == Ended(Rec(r), "succeeded_verified")
<1>1. Harmless(x, Rec(r))
  BY RecordTyped, HarmlessUpdates DEF Outcome, PostIntent
<1>2. Harmless([x EXCEPT !.preflight = TRUE], x)
  BY <1>1, HarmlessUpdates DEF Harmless
<1>3. Harmless([x EXCEPT !.preflight = TRUE], Rec(r))
  BY <1>1, <1>2 DEF Harmless
<1>4. Elsewhere(To(r, "release")) /\ Elsewhere(To(r, "preflightFailed"))
  BY NextRuns DEF Steps
<1>. QED
  BY <1>3, <1>4, SaveKeeps DEF Noop

\* An ineligible preflight rejects the record.
LEMMA RejectKeeps == ASSUME Inv, NEW r \in Owner, Reject(r) PROVE Inv'
<1>1. Harmless(Ended(Rec(r), "failed_pre_dispatch"), Rec(r))
  BY RecordTyped, HarmlessUpdates DEF Outcome, PreDispatch
<1>2. Elsewhere(Into(r, "release", "preflightFailed")) /\ Elsewhere(To(r, "preflightFailed"))
  BY NextRuns DEF Steps
<1>. QED
  BY <1>1, <1>2, SaveKeeps DEF Reject

\* The handler of the preflight rejects the record unless it is terminal.
LEMMA PreflightFailedKeeps == ASSUME Inv, NEW r \in Owner, PreflightFailed(r) PROVE Inv'
<1>1. Harmless(Ended(Rec(r), "failed_pre_dispatch"), Rec(r))
  BY RecordTyped, HarmlessUpdates DEF Outcome, PreDispatch
<1>2. Elsewhere(To(r, "release")) /\ Elsewhere(NotRunning)
  BY NextRuns DEF Steps
<1>. QED
  BY <1>1, <1>2, SaveKeeps, ContinueKeeps DEF PreflightFailed

\* The authority guard changes nothing durable.
LEMMA AuthorityKeeps == ASSUME Inv, NEW r \in Owner, Authority(r) PROVE Inv'
<1>1. Elsewhere(To(r, "refused")) /\ Elsewhere([To(r, "dispatch") EXCEPT !.part = "dispatching"])
  BY NextRuns DEF Steps, Elsewhere, Run
<1>. QED
  BY <1>1, ContinueKeeps DEF Authority

\* A refused authority rejects the record.
LEMMA RefusedKeeps == ASSUME Inv, NEW r \in Owner, Refused(r) PROVE Inv'
<1>1. Harmless(Ended(Rec(r), "failed_pre_dispatch"), Rec(r))
  BY RecordTyped, HarmlessUpdates DEF Outcome, PreDispatch
<1>2. Elsewhere(To(r, "release")) /\ Elsewhere(NotRunning)
  BY NextRuns DEF Steps
<1>. QED
  BY <1>1, <1>2, SaveKeeps DEF Refused

-----------------------------------------------------------------------------
(* Calls of the lock store.                                                *)

\* Run r goes on as n after a transaction of the store that keeps its invariant.
Locks(r, n) ==
  /\ Elsewhere(n) /\ run' = [run EXCEPT ![r] = n]
  /\ StoreInv'
  /\ UNCHANGED <<exec, sends, crashes>> /\ faults' \in 0..MaxFaults

\* Such a step keeps the invariant: the execution records are untouched.
LEMMA LocksKeep ==
  ASSUME Inv, NEW r \in Owner, NEW n, Locks(r, n)
  PROVE  Inv'
<1>1. Rec(r) \in ExecutionRecord /\ Harmless(Rec(r), Rec(r))
  BY RecordTyped DEF Harmless
<1>2. exec = [exec EXCEPT ![TaskOf[r]] = Rec(r)]
  BY OwnerAssumption DEF Inv, ExecutorTyped, Rec
<1>3. Moves(r, n, Rec(r))
  BY <1>1, <1>2 DEF Locks, Moves, Inv, ExecutorTyped
<1>. QED
  BY <1>3, MoveKeeps

\* The count of storage faults stays within its bound.
LEMMA FaultCounted ==
  ASSUME Inv PROVE faults \in 0..MaxFaults /\ (faults < MaxFaults => faults + 1 \in 0..MaxFaults)
BY ExecutorAssumption DEF Inv, ExecutorTyped

\* A refused transaction leaves the store as it was.
LEMMA StoreUnchanged ==
  ASSUME Inv, UNCHANGED storeVars PROVE StoreInv'
BY DEF Inv, storeVars, StoreInv, StoreTyped, Issued, Compatible

\* The locks of an earlier attempt are released before a new one acquires.
LEMMA ReleaseStaleKeeps == ASSUME Inv, NEW r \in Owner, ReleaseStale(r) PROVE Inv'
<1> DEFINE mine == {x \in records : TaskOf[x.owner] = TaskOf[r] /\ ~x.hold /\ x.lease = 0}
<1>1. RecoverExpired(mine, {}, {}, r) => StoreInv'
  BY RecoverExpiredKeeps DEF Inv, StoreStep
<1>2. Elsewhere(To(r, "acquire")) /\ Elsewhere(To(r, "failLocks"))
  BY NextRuns DEF Steps
<1>3. Locks(r, To(r, "acquire")) \/ Locks(r, To(r, "failLocks"))
  BY <1>1, <1>2, FaultCounted, StoreUnchanged DEF ReleaseStale, Call, Locks
<1>. QED
  BY <1>3, LocksKeep

\* The tokens of the records a run holds.
LEMMA TokensTyped ==
  ASSUME StoreInv, NEW o
  PROVE  {TokenOf(x) : x \in HeldBy(o)} \in SUBSET LockToken
BY DEF StoreInv, StoreTyped, HeldBy, TokenOf, LockRecord, LockToken

\* The acquisition, refused, granted, or found cancelled.
LEMMA AcquireLocksKeeps == ASSUME Inv, NEW r \in Owner, AcquireLocks(r) PROVE Inv'
<1> DEFINE tokens == {TokenOf(x) : x \in HeldBy(r)'}
           n == [run[r] EXCEPT !.pc = "recordLocks", !.tokens = tokens]
<1>1. Requests[TaskOf[r]] \in SUBSET LockRequest
  BY RecordTyped, ExecutorAssumption
<1>2. AcquireOnce(r, Requests[TaskOf[r]]) => StoreInv'
  BY <1>1, AcquireOnceKeeps DEF Inv, StoreStep
<1>3. StoreInv' => Elsewhere(n)
  <2>1. StoreInv' => tokens \in SUBSET LockToken
    BY TokensTyped DEF StoreInv, StoreTyped, HeldBy, TokenOf, LockRecord, LockToken
  <2>2. run[r] \in Run
    BY RecordTyped
  <2> HIDE DEF tokens
  <2>. QED
    BY <2>1, <2>2 DEF Elsewhere, Run, Steps
<1>4. Elsewhere(NotRunning) /\ Elsewhere(To(r, "conflict")) /\ Elsewhere(To(r, "failLocks"))
  BY NextRuns DEF Steps
<1>5. CASE Continue(r, NotRunning) \/ Continue(r, To(r, "conflict"))
  BY <1>4, <1>5, ContinueKeeps
<1>6. CASE Call(r, AcquireOnce(r, Requests[TaskOf[r]]), FALSE, n, To(r, "failLocks"))
  <2>1. Locks(r, n) \/ Locks(r, To(r, "failLocks"))
    <3> HIDE DEF n
    <3>. QED
      BY <1>2, <1>3, <1>4, <1>6, FaultCounted, StoreUnchanged DEF Call, Locks
  <2> HIDE DEF n
  <2>. QED
    BY <2>1, LocksKeep
<1>. QED
  BY <1>5, <1>6 DEF AcquireLocks

\* The cleanup of an acquisition that could not be recorded.
LEMMA CleanupKeeps == ASSUME Inv, NEW r \in Owner, Cleanup(r) PROVE Inv'
<1>1. Release(Handle(r), TRUE) => StoreInv'
  BY ReleaseKeeps DEF Inv, StoreStep
<1>2. Elsewhere(NotRunning)
  BY NextRuns
<1>3. Locks(r, NotRunning)
  BY <1>1, <1>2, FaultCounted, StoreUnchanged DEF Cleanup, Call, Locks
<1>. QED
  BY <1>3, LocksKeep

\* A promotion to a conflict hold is a step of the store.
LEMMA PromoteKeeps ==
  ASSUME Inv, NEW r \in Owner, Promote(r) PROVE StoreInv'
BY PromoteConflictHoldKeeps DEF Promote, Inv, StoreStep

\* The hold after a verdict of manual review.
LEMMA HoldKeeps == ASSUME Inv, NEW r \in Owner, Hold(r) PROVE Inv'
<1>1. Elsewhere(NotRunning) /\ Elsewhere(Into(r, "verifyFailed", "none"))
  BY NextRuns DEF Steps
<1>2. Locks(r, NotRunning) \/ Locks(r, Into(r, "verifyFailed", "none"))
  BY <1>1, PromoteKeeps, FaultCounted, StoreUnchanged DEF Hold, Call, Locks
<1>. QED
  BY <1>2, LocksKeep

\* The hold after _manual_review.
LEMMA HoldAfterReviewKeeps == ASSUME Inv, NEW r \in Owner, HoldAfterReview(r) PROVE Inv'
<1>1. Elsewhere(NotRunning)
  BY NextRuns
<1>2. Locks(r, NotRunning)
  BY <1>1, PromoteKeeps, FaultCounted, StoreUnchanged DEF HoldAfterReview, Call, Locks
<1>. QED
  BY <1>2, LocksKeep

\* The renewal before the claim is yielded.
LEMMA RenewLocksKeeps == ASSUME Inv, NEW r \in Owner, RenewLocks(r) PROVE Inv'
<1>1. Renew(Handle(r)) => StoreInv'
  BY RenewKeeps DEF Inv, StoreStep
<1>2. Elsewhere(To(r, "yield")) /\ Elsewhere(To(r, "review"))
  BY NextRuns DEF Steps
<1>3. Locks(r, To(r, "yield")) \/ Locks(r, To(r, "review"))
  BY <1>1, <1>2, FaultCounted, StoreUnchanged DEF RenewLocks, Call, Locks
<1>. QED
  BY <1>3, LocksKeep

\* The transfer of a lost run's locks to the run that took over.
LEMMA RecoverHandleKeeps == ASSUME Inv, NEW r \in Owner, RecoverHandle(r) PROVE Inv'
<1> DEFINE mine == Selected(run[r].tokens)
           tokens == {TokenOf(x) : x \in HeldBy(r)'}
           n == [run[r] EXCEPT !.pc = "replace", !.tokens = tokens]
<1>1. RecoverExpired({}, {}, mine, r) => StoreInv'
  <2>1. mine \in SUBSET (records \ {})
    BY SelectedRecords
  <2> HIDE DEF mine
  <2>. QED
    BY <2>1, RecoverExpiredKeeps DEF Inv, StoreStep
<1>2. StoreInv' => Elsewhere(n)
  <2>1. StoreInv' => tokens \in SUBSET LockToken
    BY DEF StoreInv, StoreTyped, HeldBy, TokenOf, LockRecord, LockToken
  <2>2. run[r] \in Run
    BY RecordTyped
  <2> HIDE DEF tokens
  <2>. QED
    BY <2>1, <2>2 DEF Elsewhere, Run, Steps
<1>3. Elsewhere(NotRunning) /\ Elsewhere(To(r, "yield"))
  BY NextRuns DEF Steps
<1>4. CASE Continue(r, To(r, "yield"))
  BY <1>3, <1>4, ContinueKeeps
<1>5. CASE Call(r, RecoverExpired({}, {}, mine, r), \E x \in mine : x.lease > 0, n, NotRunning)
  <2>1. Locks(r, n) \/ Locks(r, NotRunning)
    <3> HIDE DEF n, mine
    <3>. QED
      BY <1>1, <1>2, <1>3, <1>5, FaultCounted, StoreUnchanged DEF Call, Locks
  <2> HIDE DEF n
  <2>. QED
    BY <2>1, LocksKeep
<1>. QED
  BY <1>4, <1>5 DEF RecoverHandle

\* _release_safely.
LEMMA ReleaseLocksKeeps == ASSUME Inv, NEW r \in Owner, ReleaseLocks(r) PROVE Inv'
<1>1. Release(Handle(r), FALSE) => StoreInv'
  BY ReleaseKeeps DEF Inv, StoreStep
<1> DEFINE retry == IF run[r].catch = "preflightFailed"
                       THEN Into(r, "preflightFailed", "none") ELSE NotRunning
<1>2. Elsewhere(NotRunning) /\ Elsewhere(retry)
  BY NextRuns DEF Steps
<1>3. Locks(r, NotRunning) \/ Locks(r, retry)
  <2> HIDE DEF retry
  <2>1. Call(r, Release(Handle(r), FALSE), ~Owns(r), NotRunning, retry)
    BY DEF ReleaseLocks, retry
  <2>. QED
    BY <1>1, <1>2, <2>1, FaultCounted, StoreUnchanged DEF Call, Locks
<1>. QED
  BY <1>3, LocksKeep

\* _settle_terminal_locks.
LEMMA SettleKeeps == ASSUME Inv, NEW r \in Owner, Settle(r) PROVE Inv'
<1>1. \A h : Release(h, FALSE) => StoreInv'
  BY ReleaseKeeps DEF Inv, StoreStep
<1>2. Elsewhere(NotRunning)
  BY NextRuns
<1>3. CASE Continue(r, NotRunning)
  BY <1>2, <1>3, ContinueKeeps
<1>4. CASE \E h : Call(r, Release(h, FALSE), FALSE, NotRunning, NotRunning)
  <2>1. Locks(r, NotRunning)
    BY <1>1, <1>2, <1>4, FaultCounted, StoreUnchanged DEF Call, Locks
  <2>. QED
    BY <2>1, LocksKeep
<1>. QED
  BY <1>3, <1>4 DEF Settle

-----------------------------------------------------------------------------
(* Around the intent.                                                      *)

\* The first check of before_dispatch; the run is not yet before the provider.
LEMMA DispatchKeeps == ASSUME Inv, NEW r \in Owner, Dispatch(r) PROVE Inv'
<1>1. /\ Elsewhere(To(r, "failed")) /\ Elsewhere(To(r, "approve"))
      /\ Elsewhere(To(r, "release"))
  BY NextRuns DEF Steps
<1>2. Harmless(Ended(Rec(r), "failed_pre_dispatch"), Rec(r))
  BY RecordTyped, HarmlessUpdates DEF Outcome, PreDispatch
<1>3. CASE RefuseDispatch(r)
  BY <1>1, <1>2, <1>3, SaveKeeps DEF RefuseDispatch
<1>. QED
  BY <1>1, <1>3, ContinueKeeps DEF Dispatch

\* The consumption of the approval.
LEMMA ApproveKeeps == ASSUME Inv, NEW r \in Owner, Approve(r) PROVE Inv'
<1>1. ASSUME NEW step \in {"commit", "failed"}
      PROVE  Elsewhere([To(r, step) EXCEPT !.approved = TRUE])
  <2>1. Elsewhere(To(r, step))
    BY NextRuns DEF Steps
  <2>. QED
    BY <2>1 DEF Elsewhere, Run
<1>. QED
  BY <1>1, ContinueKeeps DEF Approve

\* The one step that makes an intent durable: nothing was sent before it.
LEMMA CommitKeeps == ASSUME Inv, NEW r \in Owner, Commit(r) PROVE Inv'
<1> DEFINE t == TaskOf[r]
           x == [Rec(r) EXCEPT !.intent = TRUE, !.deadline = EvidenceTicks]
           valid == ~Rec(r).terminal /\ ~Rec(r).intent /\ Rec(r).preflight /\ Rec(r).tokens # {}
<1>1. t \in Task /\ Rec(r) \in ExecutionRecord /\ run[r] \in Run /\ Rec(r) = exec[t]
  BY RecordTyped DEF Rec
<1>2. x \in ExecutionRecord /\ x.intent /\ x.owner = Rec(r).owner
  <2>1. EvidenceTicks \in 0..EvidenceTicks
    BY ExecutorAssumption
  <2>. QED
    BY <1>1, <2>1 DEF ExecutionRecord
<1>3. /\ To(r, "send") \in Run /\ To(r, "send").pc = "send"
      /\ Elsewhere(To(r, "failed"))
  BY <1>1, NextRuns DEF To, Run, Steps
<1>4. StoreInv' /\ UNCHANGED <<sends, crashes>> /\ faults' \in 0..MaxFaults
  BY FaultCounted, StoreUnchanged DEF Commit, Save, storeVars
<1>5. CASE run' = [run EXCEPT ![r] = To(r, "failed")] /\ exec' = exec
  <2>1. Locks(r, To(r, "failed"))
    BY <1>3, <1>4, <1>5 DEF Locks
  <2>. QED
    BY <2>1, LocksKeep
<1>6. CASE /\ valid /\ HasClaim(r)
           /\ exec' = [exec EXCEPT ![t] = x]
           /\ run' = [run EXCEPT ![r] = To(r, "send")] \/ run' = [run EXCEPT ![r] = To(r, "failed")]
  <2>1. sends[t] = 0
    BY <1>1, <1>6 DEF Inv, ExecutorTyped, AtMostOneSend
  <2>2. \A s \in Owner : At(s, "send") => TaskOf[s] # t
    BY <1>1, <1>6 DEF Inv, SendIsFirst, Rec
  <2>3. /\ exec' \in [Task -> ExecutionRecord] /\ run' \in [Owner -> Run]
        /\ exec'[t] = x /\ \A u \in Task \ {t} : exec'[u] = exec[u]
        /\ \A s \in Owner \ {r} : run'[s] = run[s]
    BY <1>1, <1>2, <1>3, <1>6 DEF Inv, ExecutorTyped, Elsewhere
  <2>4. ExecutorTyped'
    BY <1>4, <2>3 DEF Inv, ExecutorTyped
  <2>5. SendIsFirst'
    BY <1>2, <1>4, <2>1, <2>2, <2>3, OwnerAssumption DEF Inv, SendIsFirst, Rec, At
  <2>6. SendIsAlone'
    BY <2>2, <2>3 DEF Inv, SendIsAlone, At
  <2>7. IntentHasOwner'
    BY <1>1, <1>2, <1>6, <2>3, ExecutorAssumption DEF Inv, IntentHasOwner, Exists, HasClaim
  <2>8. AtMostOneSend'
    BY <1>2, <1>4, <2>3 DEF Inv, AtMostOneSend
  <2>. QED
    BY <1>4, <2>4, <2>5, <2>6, <2>7, <2>8 DEF Inv
<1>. QED
  BY <1>5, <1>6 DEF Commit, Save

\* The one step that calls the provider.
LEMMA SendKeeps == ASSUME Inv, NEW r \in Owner, Send(r) PROVE Inv'
<1> DEFINE t == TaskOf[r]
<1>1. t \in Task /\ Rec(r) = exec[t]
  BY RecordTyped DEF Rec
<1>2. \A step \in {"sent", "confirmed", "failed"} : Elsewhere(To(r, step))
  BY NextRuns DEF Steps
<1>3. exec[t].intent /\ sends[t] = 0
  BY <1>1 DEF Send, Inv, SendIsFirst
<1>4. PICK n : Elsewhere(n) /\ run' = [run EXCEPT ![r] = n]
  BY <1>2 DEF Send
<1>5. StoreInv'
  BY StoreUnchanged DEF Send, storeVars
<1>6. /\ \A s \in Owner : At(s, "send")' => s # r /\ At(s, "send")
      /\ run' \in [Owner -> Run]
  BY <1>4 DEF Inv, ExecutorTyped, Elsewhere, At
<1>7. CASE sends' = sends
  <2>1. Locks(r, n)
    BY <1>4, <1>5, <1>7, FaultCounted DEF Send, Locks
  <2>. QED
    BY <2>1, LocksKeep
<1>8. CASE sends' = [sends EXCEPT ![t] = @ + 1]
  <2>1. UNCHANGED <<exec, crashes, faults>>
    BY DEF Send
  <2>2. sends'[t] = 1 /\ \A u \in Task \ {t} : sends'[u] = sends[u]
    BY <1>1, <1>3, <1>8 DEF Inv, ExecutorTyped
  <2>3. ExecutorTyped'
    BY <1>1, <1>3, <1>6, <1>8, <2>1 DEF Inv, ExecutorTyped
  <2>4. SendIsFirst'
    <3> SUFFICES ASSUME NEW s \in Owner, At(s, "send")'
                 PROVE  Rec(s)'.intent /\ sends'[TaskOf[s]] = 0
      BY DEF SendIsFirst
    <3>1. s # r /\ At(s, "send")
      BY <1>6
    <3>2. At(r, "send")
      BY DEF Send
    <3>3. TaskOf[s] # t
      BY <3>1, <3>2 DEF Inv, SendIsAlone
    <3>. QED
      BY <3>1, <3>3, <2>1, <2>2, OwnerAssumption DEF Inv, SendIsFirst, Rec
  <2>5. SendIsAlone'
    BY <1>6 DEF Inv, SendIsAlone
  <2>6. IntentHasOwner' /\ AtMostOneSend'
    BY <1>3, <2>1, <2>2 DEF Inv, IntentHasOwner, AtMostOneSend
  <2>. QED
    BY <1>5, <2>3, <2>4, <2>5, <2>6 DEF Inv
<1>. QED
  BY <1>7, <1>8 DEF Send

\* A confirmed refusal of the provider ends the record with its intent.
LEMMA ConfirmedKeeps == ASSUME Inv, NEW r \in Owner, Confirmed(r) PROVE Inv'
<1> DEFINE x == DispatchResult(Rec(r), "none")
           y == Ended(x, "dispatch_failed_confirmed")
<1>1. Harmless(x, Rec(r))
  BY RecordTyped, HarmlessUpdates DEF Outcome
<1>2. Harmless(y, x)
  BY <1>1, HarmlessUpdates DEF Harmless, Outcome, PostIntent
<1>3. Harmless(y, Rec(r))
  BY <1>1, <1>2 DEF Harmless
<1>4. Elsewhere(To(r, "release")) /\ Elsewhere(To(r, "failed"))
  BY NextRuns DEF Steps
<1>. QED
  BY <1>3, <1>4, SaveKeeps DEF Confirmed

\* record_dispatch_result keeps the intent.
LEMMA SentKeeps == ASSUME Inv, NEW r \in Owner, Sent(r) PROVE Inv'
<1>1. \A outcome \in {"observing", "dispatch_indeterminate"} :
        Harmless(DispatchResult(Rec(r), outcome), Rec(r))
  BY RecordTyped, HarmlessUpdates DEF Outcome
<1>2. Elsewhere(To(r, "observe")) /\ Elsewhere(To(r, "failed"))
  BY NextRuns DEF Steps
<1>. QED
  BY <1>1, <1>2, SaveKeeps DEF Sent

\* The handler of the dispatch block: in no branch is an intent withdrawn, and from
\* no branch does the run return to the provider call.
LEMMA FailedKeeps == ASSUME Inv, NEW r \in Owner, Failed(r) PROVE Inv'
<1> DEFINE x == Rec(r)
           rescue == [To(r, "observe") EXCEPT !.part = "rescuing"]
<1>1. /\ Harmless(Ended(x, "failed_pre_dispatch"), x)
      /\ Harmless(DispatchResult(x, "dispatch_indeterminate"), x)
      /\ Harmless([x EXCEPT !.claim = 0], x)
  BY RecordTyped, HarmlessUpdates DEF Outcome, PreDispatch
<1>2. Elsewhere(To(r, "release")) /\ Elsewhere(NotRunning) /\ Elsewhere(rescue)
  BY NextRuns DEF Steps, Elsewhere, Run
<1>3. \/ Continue(r, To(r, "release")) \/ Continue(r, rescue)
      \/ Save(r, ~x.resulted, DispatchResult(x, "dispatch_indeterminate"), rescue, NotRunning)
      \/ Save(r, TRUE, Ended(x, "failed_pre_dispatch"), To(r, "release"), NotRunning)
      \/ Save(r, x.preflight /\ x.tokens # {}, [x EXCEPT !.claim = 0],
              To(r, "release"), NotRunning)
  BY RecordTyped DEF Failed, ExecutionRecord, Run
<1> HIDE DEF x, rescue
<1>4. x = Rec(r)
  BY DEF x
<1>. QED
  BY <1>1, <1>2, <1>3, <1>4, SaveKeeps, ContinueKeeps

-----------------------------------------------------------------------------
(* After the intent.                                                       *)

\* The choice between observing and review.
LEMMA ObserveKeeps == ASSUME Inv, NEW r \in Owner, Observe(r) PROVE Inv'
<1>1. Elsewhere(Into(r, "review", "none")) /\ Elsewhere(Into(r, "observing", "none"))
  BY NextRuns DEF Steps
<1>. QED
  BY <1>1, ContinueKeeps DEF Observe

\* record_observation keeps the intent.
LEMMA ObservingKeeps == ASSUME Inv, NEW r \in Owner, Observing(r) PROVE Inv'
<1> DEFINE x == Rec(r)
           observed == Observed(x, "observing")
           err == Into(r, "observeFailed", "none")
           incomplete == Into(r, IF Exhausted(observed, observed.observations)
                                   THEN "review" ELSE "renew", "observeFailed")
<1>1. Observable(x) => /\ Harmless(observed, x)
                       /\ Harmless(Observed(x, "manual_review_required"), x)
  BY RecordTyped, HarmlessUpdates DEF Outcome, PostIntent, Observable
<1>2. /\ Elsewhere(err) /\ Elsewhere(incomplete) /\ Elsewhere(Into(r, "verify", "none"))
      /\ Elsewhere(Into(r, "review", "observeFailed"))
  BY NextRuns DEF Steps
<1>3. \/ Save(r, Observable(x), observed, Into(r, "verify", "none"), err)
      \/ Save(r, Observable(x), Observed(x, "manual_review_required"),
              Into(r, "review", "observeFailed"), err)
      \/ Save(r, Observable(x), observed, incomplete, err)
      \/ Continue(r, err)
  BY DEF Observing
<1> HIDE DEF x, observed, err, incomplete
<1>4. x = Rec(r)
  BY DEF x
<1>. QED
  BY <1>1, <1>2, <1>3, <1>4, SaveKeeps, ContinueKeeps

\* An observation that raised is recorded, or goes to review.
LEMMA ObserveFailedKeeps == ASSUME Inv, NEW r \in Owner, ObserveFailed(r) PROVE Inv'
<1>1. Observable(Rec(r)) => Harmless(Observed(Rec(r), "observing"), Rec(r))
  BY RecordTyped, HarmlessUpdates DEF Outcome, Observable
<1>2. /\ Elsewhere(Into(r, "review", "none")) /\ Elsewhere(Into(r, "renew", "none"))
      /\ Elsewhere(Escape(r))
  BY NextRuns DEF Steps
<1>. QED
  BY <1>1, <1>2, SaveKeeps, ContinueKeeps DEF ObserveFailed

\* record_verification keeps the intent, also of a terminal record.
LEMMA VerifyKeeps == ASSUME Inv, NEW r \in Owner, Verify(r) PROVE Inv'
<1>1. \A outcome \in Verdicts : Verifiable(Rec(r)) => Harmless(Verified(Rec(r), outcome), Rec(r))
  BY RecordTyped, HarmlessUpdates, ExecutorAssumption DEF Outcome, Verifiable
<1>2. Elsewhere(Into(r, "verifyFailed", "none"))
  BY NextRuns DEF Steps
<1>3. \A outcome \in Verdicts : Elsewhere(AfterVerdict(r, outcome))
  <2>1. \A step \in {"hold", "review", "renew"} : Elsewhere(Into(r, step, "verifyFailed"))
    BY NextRuns DEF Steps
  <2>2. Elsewhere(Into(r, "release", "none"))
    BY NextRuns DEF Steps
  <2>. QED
    BY <2>1, <2>2 DEF AfterVerdict
<1>. QED
  BY <1>1, <1>2, <1>3, SaveKeeps, ContinueKeeps DEF Verify

\* A verification that raised is recorded, or goes to review.
LEMMA VerifyFailedKeeps == ASSUME Inv, NEW r \in Owner, VerifyFailed(r) PROVE Inv'
<1>1. Verifiable(Rec(r)) => Harmless(Verified(Rec(r), "observing"), Rec(r))
  BY RecordTyped, HarmlessUpdates DEF Outcome, Verifiable
<1>2. /\ Elsewhere(Into(r, "review", "none")) /\ Elsewhere(Into(r, "renew", "none"))
      /\ Elsewhere(Escape(r))
  BY NextRuns DEF Steps
<1>. QED
  BY <1>1, <1>2, SaveKeeps, ContinueKeeps DEF VerifyFailed

\* _manual_review keeps the intent.
LEMMA ReviewKeeps == ASSUME Inv, NEW r \in Owner, Review(r) PROVE Inv'
<1>1. Verifiable(Rec(r)) => Harmless(Verified(Rec(r), "manual_review_required"), Rec(r))
  BY RecordTyped, HarmlessUpdates DEF Outcome, PostIntent, Verifiable
<1>2. Elsewhere(To(r, "promote")) /\ Elsewhere(Caught(r))
  BY NextRuns DEF Steps
<1>. QED
  BY <1>1, <1>2, SaveKeeps DEF Review

\* A yielded claim leaves the intent, so the next run only observes.
LEMMA YieldClaimKeeps == ASSUME Inv, NEW r \in Owner, YieldClaim(r) PROVE Inv'
<1>1. Harmless([Rec(r) EXCEPT !.claim = 0], Rec(r))
  BY RecordTyped, HarmlessUpdates
<1>2. Elsewhere(NotRunning) /\ Elsewhere(Caught(r))
  BY NextRuns
<1>. QED
  BY <1>1, <1>2, SaveKeeps DEF YieldClaim

\* replace_recovery_locks stores the tokens of the transfer.
LEMMA ReplaceLocksKeeps == ASSUME Inv, NEW r \in Owner, ReplaceLocks(r) PROVE Inv'
<1>1. Harmless([Rec(r) EXCEPT !.tokens = run[r].tokens], Rec(r))
  BY RecordTyped, HarmlessUpdates DEF Run
<1>2. Elsewhere(To(r, "observe")) /\ Elsewhere(NotRunning)
  BY NextRuns DEF Steps
<1>. QED
  BY <1>1, <1>2, SaveKeeps DEF ReplaceLocks

-----------------------------------------------------------------------------
(* Claims, other callers, failures and time.                               *)

\* The records a claim and a materialization create are well formed.
LEMMA ClaimTyped ==
  /\ NoRecord \in ExecutionRecord /\ ~NoRecord.intent
  /\ \A r \in Owner :
       /\ [NoRecord EXCEPT !.owner = r, !.claim = ClaimTicks] \in ExecutionRecord
       /\ [NoRecord EXCEPT !.owner = r] \in ExecutionRecord
<1>1. /\ 0 \in 0..ClaimTicks /\ ClaimTicks \in 0..ClaimTicks
      /\ 0 \in 0..EvidenceTicks /\ 0 \in 0..AttemptLimit
  BY ExecutorAssumption
<1>2. NoRecord \in ExecutionRecord /\ ~NoRecord.intent
  BY <1>1 DEF NoRecord, ExecutionRecord, Outcome
<1> HIDE DEF NoRecord
<1>. QED
  BY <1>1, <1>2 DEF ExecutionRecord

\* A claim or a cancellation that keeps the intent as it is keeps the invariant.
LEMMA StartKeeps ==
  ASSUME Inv, NEW r \in Owner, NEW n, NEW x,
         Elsewhere(n), Harmless(x, Rec(r)),
         run' = [run EXCEPT ![r] = n], exec' = [exec EXCEPT ![TaskOf[r]] = x],
         UNCHANGED <<records, nextGeneration, sends, crashes, faults>>
  PROVE  Inv'
<1>1. StoreInv'
  BY StoreUnchanged DEF storeVars
<1>2. Moves(r, n, x)
  BY <1>1 DEF Moves, Inv, ExecutorTyped
<1>. QED
  BY <1>2, MoveKeeps

\* A record that does not exist yet has no intent.
LEMMA NothingBeforeTheClaim ==
  ASSUME Inv, NEW r \in Owner, ~Exists(Rec(r))
  PROVE  ~Rec(r).intent
BY RecordTyped DEF Inv, IntentHasOwner, Rec

\* The first claim of a task creates a record without an intent.
LEMMA CreateKeeps == ASSUME Inv, NEW r \in Owner, Create(r) PROVE Inv'
<1> DEFINE x == [NoRecord EXCEPT !.owner = r, !.claim = ClaimTicks]
<1>1. Elsewhere(To(r, "acquire"))
  BY NextRuns DEF Steps
<1>2. x \in ExecutionRecord /\ ~x.intent
  BY ClaimTyped DEF ExecutionRecord
<1>3. ~Rec(r).intent /\ Rec(r) \in ExecutionRecord
  BY NothingBeforeTheClaim, RecordTyped DEF Create
<1>4. Harmless(x, Rec(r))
  BY <1>2, <1>3 DEF Harmless, ExecutionRecord, Create
<1>. QED
  BY <1>1, <1>4, StartKeeps DEF Create

\* A run that finds a terminal record only settles its locks.
LEMMA JoinTerminalKeeps == ASSUME Inv, NEW r \in Owner, JoinTerminal(r) PROVE Inv'
<1>1. Elsewhere(To(r, "settle"))
  BY NextRuns DEF Steps
<1>. QED
  BY <1>1, ContinueKeeps DEF JoinTerminal

\* A claim taken over keeps the intent, and with one the run starts in recovery.
LEMMA TakeOverKeeps == ASSUME Inv, NEW r \in Owner, TakeOver(r) PROVE Inv'
<1> DEFINE outcome == IF Rec(r).intent THEN Rec(r).outcome ELSE "none"
           x == [Rec(r) EXCEPT !.owner = r, !.claim = ClaimTicks, !.outcome = outcome]
           recover == [NotRunning EXCEPT !.pc = "recover", !.part = "recovering",
                                         !.tokens = Rec(r).tokens]
           n == IF Rec(r).intent THEN recover ELSE To(r, "stale")
<1>1. Rec(r) \in ExecutionRecord /\ Rec(r) = exec[TaskOf[r]]
  BY RecordTyped DEF Rec
<1>2. Elsewhere(recover)
  BY <1>1 DEF NotRunning, Elsewhere, Run, Steps, ExecutionRecord
<1>3. Elsewhere(To(r, "stale"))
  BY NextRuns DEF Steps
<1>4. Harmless(x, Rec(r))
  <2>1. ClaimTicks \in 0..ClaimTicks /\ outcome \in Outcome
    BY <1>1, ExecutorAssumption DEF ExecutionRecord, Outcome
  <2> HIDE DEF outcome
  <2>. QED
    BY <1>1, <2>1, ExecutorAssumption DEF Harmless, ExecutionRecord, Exists
<1>5. exec' = [exec EXCEPT ![TaskOf[r]] = x]
  BY <1>1, RecordTyped DEF TakeOver, Inv, ExecutorTyped, ExecutionRecord
<1>6. run' = [run EXCEPT ![r] = n]
  BY DEF TakeOver
<1>7. Elsewhere(n)
  BY <1>2, <1>3
<1> HIDE DEF n, x
<1>. QED
  BY <1>4, <1>5, <1>6, <1>7, StartKeeps DEF TakeOver

\* materialize_expired_pre_dispatch creates a terminal record without an intent.
LEMMA MaterializeKeeps == ASSUME Inv, NEW r \in Owner, Materialize(r) PROVE Inv'
<1> DEFINE x == [NoRecord EXCEPT !.owner = r]
           y == Ended(x, "failed_pre_dispatch")
<1>1. x \in ExecutionRecord /\ ~x.intent /\ x.owner = r
  BY ClaimTyped DEF ExecutionRecord
<1>2. Harmless(y, x)
  BY <1>1, HarmlessUpdates DEF Outcome, PreDispatch
<1>3. ~Rec(r).intent /\ Rec(r) \in ExecutionRecord
  BY NothingBeforeTheClaim, RecordTyped DEF Materialize
<1>4. Harmless(y, Rec(r))
  BY <1>1, <1>2, <1>3 DEF Harmless, ExecutionRecord, Materialize
<1>5. Elsewhere(run[r]) /\ run = [run EXCEPT ![r] = run[r]]
  BY RecordTyped DEF Materialize, Fresh, At, Elsewhere, Inv, ExecutorTyped
<1>6. /\ run' = [run EXCEPT ![r] = run[r]] /\ exec' = [exec EXCEPT ![TaskOf[r]] = y]
      /\ UNCHANGED <<records, nextGeneration, sends, crashes, faults>>
  BY <1>5 DEF Materialize
<1> HIDE DEF y
<1>. QED
  BY <1>4, <1>5, <1>6, StartKeeps

\* cancel ends a record without an intent.
LEMMA CancelKeeps == ASSUME Inv, NEW r \in Owner, Cancel(r) PROVE Inv'
<1>1. Harmless(Ended(Rec(r), "cancelled_pre_dispatch"), Rec(r))
  BY RecordTyped, HarmlessUpdates DEF Outcome, PreDispatch
<1>2. Elsewhere(To(r, "settle"))
  BY NextRuns DEF Steps
<1>3. exec' = [exec EXCEPT ![TaskOf[r]] = Ended(Rec(r), "cancelled_pre_dispatch")]
  BY RecordTyped DEF Cancel, Inv, ExecutorTyped, Rec
<1>. QED
  BY <1>1, <1>2, <1>3, StartKeeps DEF Cancel

\* A run that dies leaves everything durable as it was.
LEMMA CrashKeeps == ASSUME Inv, NEW r \in Owner, Crash(r) PROVE Inv'
<1>1. Elsewhere(NotRunning)
  BY NextRuns
<1>2. Rec(r) \in ExecutionRecord /\ Harmless(Rec(r), Rec(r))
  BY RecordTyped DEF Harmless
<1>3. exec' = [exec EXCEPT ![TaskOf[r]] = Rec(r)]
  BY OwnerAssumption DEF Crash, Inv, ExecutorTyped, Rec
<1>4. StoreInv'
  BY StoreUnchanged DEF Crash, storeVars
<1>5. crashes' \in 0..MaxCrashes /\ faults' \in 0..MaxFaults
  BY ExecutorAssumption DEF Crash, Inv, ExecutorTyped
<1>6. Moves(r, NotRunning, Rec(r))
  BY <1>1, <1>2, <1>3, <1>4, <1>5 DEF Crash, Moves
<1>. QED
  BY <1>6, MoveKeeps

\* A change of the records alone that keeps every intent and every owner.
Ages ==
  /\ exec' \in [Task -> ExecutionRecord]
  /\ \A t \in Task : exec'[t].intent = exec[t].intent /\ exec'[t].owner = exec[t].owner
  /\ StoreInv' /\ UNCHANGED <<run, sends, crashes, faults>>

\* Such a change keeps the invariant.
LEMMA AgeKeeps ==
  ASSUME Inv, Ages PROVE Inv'
<1>1. ExecutorTyped' /\ SendIsAlone'
  BY DEF Inv, Ages, ExecutorTyped, SendIsAlone, At
<1>2. SendIsFirst'
  BY OwnerAssumption DEF Inv, Ages, SendIsFirst, At, Rec
<1>3. IntentHasOwner' /\ AtMostOneSend'
  BY DEF Inv, Ages, IntentHasOwner, AtMostOneSend, Exists
<1>. QED
  BY <1>1, <1>2, <1>3 DEF Inv, Ages

\* terminalize_expired_claim_pre_dispatch ends a record without an intent.
LEMMA RejectExpiredKeeps == ASSUME Inv, NEW t \in Task, RejectExpired(t) PROVE Inv'
<1> DEFINE x == Ended(exec[t], "failed_pre_dispatch")
<1>1. x \in ExecutionRecord /\ x.intent = exec[t].intent /\ x.owner = exec[t].owner
  BY DEF Inv, ExecutorTyped, Ended, ExecutionRecord, Outcome, PreDispatch
<1>2. exec' = [exec EXCEPT ![t] = x]
  BY DEF RejectExpired, Inv, ExecutorTyped
<1>3. StoreInv'
  BY StoreUnchanged DEF RejectExpired, storeVars
<1> HIDE DEF x
<1>4. Ages
  BY <1>1, <1>2, <1>3 DEF Ages, RejectExpired, Inv, ExecutorTyped
<1>. QED
  BY <1>4, AgeKeeps

\* The lease renewer is a renewal of the store.
LEMMA RenewerKeeps == ASSUME Inv, NEW r \in Owner, Renewer(r) PROVE Inv'
<1>1. StoreInv'
  BY RenewKeeps DEF Renewer, Inv, StoreStep
<1>2. Ages
  BY <1>1 DEF Ages, Renewer, execVars, Inv, ExecutorTyped
<1>. QED
  BY <1>2, AgeKeeps

\* Time runs out leases, claims and deadlines, and nothing else.
LEMMA TickKeeps == ASSUME Inv, Tick PROVE Inv'
<1> DEFINE f == [t \in Task |-> [exec[t] EXCEPT !.claim = Decreased(@), !.deadline = Decreased(@)]]
<1>1. StoreInv'
  BY PassLeasesKeeps DEF Tick, Inv, StoreStep
<1>2. ASSUME NEW t \in Task
      PROVE  /\ f[t] \in ExecutionRecord
             /\ f[t].intent = exec[t].intent /\ f[t].owner = exec[t].owner
  <2> DEFINE c == Decreased(exec[t].claim)
             d == Decreased(exec[t].deadline)
  <2>1. exec[t] \in ExecutionRecord
    BY DEF Inv, ExecutorTyped
  <2>2. c \in 0..ClaimTicks /\ d \in 0..EvidenceTicks
    BY <2>1, ExecutorAssumption DEF ExecutionRecord, Decreased
  <2>3. f[t] = [exec[t] EXCEPT !.claim = c, !.deadline = d]
    BY <2>1 DEF ExecutionRecord
  <2> HIDE DEF c, d, f
  <2>. QED
    BY <2>1, <2>2, <2>3 DEF ExecutionRecord
<1>3. exec' = f
  BY DEF Tick
<1>4. f \in [Task -> ExecutionRecord]
  BY <1>2
<1> HIDE DEF f
<1>5. Ages
  BY <1>1, <1>2, <1>3, <1>4 DEF Ages, Tick
<1>. QED
  BY <1>5, AgeKeeps

-----------------------------------------------------------------------------
(* The theorems.                                                           *)

\* With no record, no run and nothing sent the invariant holds.
LEMMA InitInv == Init => Inv
<1> SUFFICES ASSUME Init PROVE Inv
  OBVIOUS
<1>1. StoreInv
  BY DEF Init, StoreInit, StoreInv, StoreTyped, Issued, Compatible
<1>2. \A r \in Owner : run[r] = NotRunning /\ ~At(r, "send")
  BY DEF Init, NotRunning, At
<1>3. \A t \in Task : exec[t] = NoRecord /\ ~exec[t].intent /\ sends[t] = 0
  BY DEF Init, NoRecord
<1>4. NotRunning \in Run
  BY DEF NotRunning, Run, Steps
<1>5. ExecutorTyped
  <2>1. crashes \in 0..MaxCrashes /\ faults \in 0..MaxFaults
    BY ExecutorAssumption DEF Init
  <2>2. exec \in [Task -> ExecutionRecord] /\ run \in [Owner -> Run] /\ sends \in [Task -> Nat]
    <3>1. NoRecord \in ExecutionRecord
      BY ClaimTyped
    <3>. QED
      BY <1>4, <3>1 DEF Init
  <2>. QED
    BY <2>1, <2>2 DEF ExecutorTyped
<1>. QED
  BY <1>1, <1>2, <1>3, <1>5
     DEF Inv, SendIsFirst, SendIsAlone, IntentHasOwner, AtMostOneSend

\* Every step of a run keeps the invariant.
LEMMA RunStepKeeps == ASSUME Inv, NEW r \in Owner, RunStep(r) PROVE Inv'
<1>1. CASE BeforeIntent(r)
  BY <1>1, ReleaseStaleKeeps, AcquireLocksKeeps, ConflictKeeps, RecordLocksKeeps,
     FailLocksKeeps, CleanupKeeps, PreflightKeeps, RecordPreflightKeeps, NoopKeeps,
     RejectKeeps, PreflightFailedKeeps, AuthorityKeeps, RefusedKeeps DEF BeforeIntent
<1>2. CASE AtBoundary(r)
  BY <1>2, DispatchKeeps, ApproveKeeps, CommitKeeps, SendKeeps, ConfirmedKeeps,
     SentKeeps, FailedKeeps DEF AtBoundary
<1>3. CASE AfterIntent(r)
  BY <1>3, ObserveKeeps, ObservingKeeps, ObserveFailedKeeps, VerifyKeeps,
     VerifyFailedKeeps, HoldKeeps, ReviewKeeps, HoldAfterReviewKeeps, RenewLocksKeeps,
     YieldClaimKeeps, RecoverHandleKeeps, ReplaceLocksKeeps, ReleaseLocksKeeps,
     SettleKeeps DEF AfterIntent
<1>. QED
  BY <1>1, <1>2, <1>3 DEF RunStep

\* So does everything that can happen between two steps.
LEMMA InvStep == ASSUME Inv, [Next]_vars PROVE Inv'
<1>1. ASSUME NEW r \in Owner, Execute(r) PROVE Inv'
  BY <1>1, CreateKeeps, JoinTerminalKeeps, TakeOverKeeps DEF Execute
<1>2. ASSUME NEW r \in Owner, Renewer(r) \/ Cancel(r) \/ Materialize(r) \/ Crash(r)
      PROVE  Inv'
  BY <1>2, RenewerKeeps, CancelKeeps, MaterializeKeeps, CrashKeeps
<1>3. CASE UNCHANGED vars
  <2>1. StoreInv'
    BY <1>3, StoreUnchanged DEF vars, storeVars
  <2>2. Ages
    BY <1>3, <2>1 DEF vars, Ages, Inv, ExecutorTyped
  <2>. QED
    BY <2>2, AgeKeeps
<1>. QED
  BY <1>1, <1>2, <1>3, RunStepKeeps, RejectExpiredKeeps, TickKeeps DEF Next

\* The invariant holds in every state.
LEMMA Invariance == Spec => []Inv
<1>1. Inv /\ [Next]_vars => Inv'
  BY InvStep
<1>. QED
  BY <1>1, InitInv, PTL DEF Spec

\* Records of executions, runs and locks stay well formed, whatever stalls,
\* dies or fails to write.
THEOREM TypeCorrect == Spec => []TypeOK
<1>1. Inv => TypeOK
  BY DEF Inv, StoreInv, StoreTyped, ExecutorTyped, TypeOK
<1>. QED
  BY <1>1, Invariance, PTL

\* No blind redispatch: for any number of runs, deaths and storage faults the
\* provider is called at most once per task, and never without a durable intent.
THEOREM NoBlindRedispatch == Spec => []AtMostOneSend
<1>1. Inv => AtMostOneSend
  BY DEF Inv
<1>. QED
  BY <1>1, Invariance, PTL
=============================================================================
