------------------------ MODULE F3ExecutorLocksProofs ------------------------
(***************************************************************************)
(* The locks of F3Executor, for any number of tasks, runs, keys and        *)
(* deaths.  Under a lease renewer that is never overtaken the provider is  *)
(* called under live locks, whatever fails.  Without storage faults an     *)
(* unresolved effect keeps its keys, and a terminal outcome stays.         *)
(***************************************************************************)
EXTENDS F3ExecutorProofs

-----------------------------------------------------------------------------
(* What a step does to the lock records.                                   *)

Usable(x) == ~x.hold /\ x.lease > 0

\* The record x is still there, and still usable if it was.
Kept(x) == \E y \in records' : AmendmentOf(y, x)
KeptUsable(x) == \E y \in records' : AmendmentOf(y, x) /\ (Usable(x) => Usable(y))

\* Where run r may touch the record x: its own when it releases or promotes
\* them, those of its task when it settles a resolved record or finds them
\* expired.
SameTask(r, x) == TaskOf[x.owner] = TaskOf[r]
Settles(x) == x.terminal /\ x.outcome # "manual_review_required"
Touches(r, x) ==
  \/ KeptUsable(x)
  \/ run[r].pc \in {"release", "cleanup"} /\ x.owner = r
  \/ /\ run[r].pc \in {"hold", "promote"} /\ x.owner = r
     /\ x.key \in HoldKeys[TaskOf[r]] => Kept(x)
  \/ At(r, "settle") /\ SameTask(r, x) /\ Settles(Rec(r))
  \/ At(r, "stale") /\ SameTask(r, x) /\ ~Usable(x)
  \/ /\ At(r, "recover") /\ SameTask(r, x) /\ ~Usable(x)
     /\ \E y \in records' : y.owner = r /\ y.key = x.key /\ y.mode = x.mode

\* A task knows its own locks only: whatever one of its tokens matches, now or
\* later, is a record of the task.
Knows(t, k) == k.generation < nextGeneration /\ \A x \in Matches(k) : TaskOf[x.owner] = t
KnownLocks ==
  /\ \A t \in Task : \A k \in exec[t].tokens : Knows(t, k)
  /\ \A r \in Owner : \A k \in run[r].tokens : Knows(TaskOf[r], k)

\* A transaction of the store issues generations no token has.
LEMMA KnowsStays ==
  ASSUME Inv, StoreStep, NEW t \in Task, NEW k \in LockToken, Knows(t, k)
  PROVE  Knows(t, k)'
<1>1. k.generation \in Nat /\ nextGeneration \in Nat /\ nextGeneration' \in Nat
  BY DEF LockToken, Inv, StoreStep, StoreInv, StoreTyped
<1>2. k.generation < nextGeneration'
  BY <1>1 DEF Knows, StoreStep
<1>3. ASSUME NEW x \in records', x.key = k.key, x.generation = k.generation
      PROVE  TaskOf[x.owner] = t
  <2>1. ~Admitted(x)
    BY <1>1, <1>3 DEF Admitted, Knows
  <2>2. PICK y \in records : AmendmentOf(x, y)
    BY <2>1 DEF StoreStep, Amended
  <2>3. y \in Matches(k)
    BY <1>3, <2>2 DEF Matches, AmendmentOf
  <2>. QED
    BY <2>2, <2>3 DEF Knows, AmendmentOf
<1>. QED
  BY <1>2, <1>3 DEF Knows, Matches

\* The tokens of what a run now holds are of its task.
LEMMA KnowsHeld ==
  ASSUME StoreInv', NEW r \in Owner, NEW k \in {TokenOf(x) : x \in HeldBy(r)'}
  PROVE  Knows(TaskOf[r], k)'
<1>1. PICK x \in records' : x.owner = r /\ k = TokenOf(x)
  BY DEF HeldBy
<1>2. k.generation = x.generation
  BY <1>1 DEF TokenOf
<1>3. \A y \in records' : y.generation = k.generation => y = x
  BY <1>2 DEF StoreInv, Issued
<1>. QED
  BY <1>1, <1>2, <1>3 DEF Knows, Matches, StoreInv, Issued

\* What is owned by its tokens, record by record.
LEMMA Owned ==
  ASSUME StoreInv, NEW o, NEW tokens
  PROVE  OwnsAll(o, tokens) <=>
           \A k \in tokens : \E x \in records :
             x.key = k.key /\ x.generation = k.generation /\ x.owner = o
BY DEF StoreInv, Issued, OwnsAll, Matches

\* The locks of a run are live, record by record.
LEMMA LiveRecords ==
  ASSUME StoreInv, NEW r
  PROVE  Live(r) <=>
           \A k \in run[r].tokens : \E x \in records :
             x.key = k.key /\ x.generation = k.generation /\ x.owner = r /\ Usable(x)
<1>1. Live(r) <=> /\ OwnsAll(r, run[r].tokens)
                  /\ \A k \in run[r].tokens : \A x \in Matches(k) : Usable(x)
  BY DEF Live, Owns, Selected, Usable
<1>. QED
  BY <1>1, Owned DEF StoreInv, Issued, Matches

\* The same of the next state.
LEMMA LiveNow ==
  ASSUME StoreInv', NEW r,
         \A k \in run'[r].tokens : \E x \in records' :
           x.key = k.key /\ x.generation = k.generation /\ x.owner = r /\ Usable(x)
  PROVE  Live(r)'
<1>1. \A k \in run'[r].tokens : \E y \in records' : Matches(k)' = {y} /\ y.owner = r /\ Usable(y)
  BY DEF StoreInv, Issued, Matches
<1>. QED
  BY <1>1 DEF Live, Owns, OwnsAll, Selected, Usable

\* The locks of a run stay live when what they match stays usable.
LEMMA LiveStays ==
  ASSUME StoreInv, StoreInv', NEW r, Live(r), run'[r].tokens = run[r].tokens,
         \A x \in records : x.owner = r /\ Usable(x) => KeptUsable(x)
  PROVE  Live(r)'
<1>1. \A k \in run[r].tokens : \E x \in records :
        x.key = k.key /\ x.generation = k.generation /\ x.owner = r /\ Usable(x)
  BY LiveRecords
<1>2. \A k \in run[r].tokens : \E y \in records' :
        y.key = k.key /\ y.generation = k.generation /\ y.owner = r /\ Usable(y)
  BY <1>1 DEF KeptUsable, AmendmentOf
<1>. QED
  BY <1>2, LiveNow

-----------------------------------------------------------------------------
(* The calls of the lock store.                                            *)

\* A store that is not written keeps every record.
LEMMA Untouched ==
  ASSUME Inv, UNCHANGED storeVars
  PROVE  StoreStep /\ \A x \in records : KeptUsable(x)
<1>1. StoreInv' /\ records' = records /\ nextGeneration' = nextGeneration
  BY StoreUnchanged DEF storeVars
<1>2. \A x \in records : KeptUsable(x)
  BY <1>1 DEF KeptUsable, AmendmentOf
<1>3. StoreStep
  BY <1>1 DEF StoreStep, Amended, AmendmentOf, Inv, StoreInv, StoreTyped
<1>. QED
  BY <1>2, <1>3

\* A call writes the store or does not.
LEMMA CallsStore ==
  ASSUME Inv, NEW r \in Owner, NEW operation, NEW refused, NEW ok, NEW err,
         Call(r, operation, refused, ok, err),
         operation => StoreStep /\ \A x \in records : Touches(r, x)
  PROVE  StoreStep /\ \A x \in records : Touches(r, x)
<1>1. operation \/ UNCHANGED storeVars
  BY DEF Call
<1>. QED
  BY <1>1, Untouched DEF Touches

\* Records released by their tokens are the owner's.
LEMMA ReleaseDrops ==
  ASSUME Inv, NEW h, NEW cleanup, Release(h, cleanup)
  PROVE  StoreStep /\ \A x \in records : x.owner # h.owner => KeptUsable(x)
<1>1. StoreStep
  BY ReleaseKeeps DEF Inv
<1>2. \A x \in Selected(h.tokens) : x.owner = h.owner
  BY DEF Release, OwnsAll, Selected
<1>3. \A x \in records : x.owner # h.owner => x \in records'
  BY <1>2 DEF Release
<1>. QED
  BY <1>1, <1>3 DEF KeptUsable, AmendmentOf

\* A renewal keeps everything, and keeps it usable.
LEMMA RenewKeepsUsable ==
  ASSUME Inv, NEW h, Renew(h)
  PROVE  StoreStep /\ \A x \in records : KeptUsable(x)
<1>1. StoreStep
  BY RenewKeeps DEF Inv
<1>2. ASSUME NEW x \in Selected(h.tokens), x \in records PROVE KeptUsable(x)
  <2>1. Renewed(x) \in records' /\ AmendmentOf(Renewed(x), x)
    BY <1>2, Amendments DEF Renew, Inv, StoreInv, StoreTyped
  <2>2. ~x.hold /\ x \in LockRecord
    BY <1>2 DEF Renew, Inv, StoreInv, StoreTyped
  <2>3. Usable(Renewed(x))
    BY <2>2, BoundAssumption DEF Usable, Renewed, LockRecord
  <2>. QED
    BY <2>1, <2>3 DEF KeptUsable
<1>3. \A x \in records \ Selected(h.tokens) : KeptUsable(x)
  BY DEF Renew, KeptUsable, AmendmentOf
<1>. QED
  BY <1>1, <1>2, <1>3

\* The lease renewer and the renewal at the end of a call.
LEMMA RenewerTouches ==
  ASSUME Inv, NEW r \in Owner, Renewer(r) PROVE StoreStep /\ \A x \in records : KeptUsable(x)
BY RenewKeepsUsable DEF Renewer

\* The renewal at the end of a call.
LEMMA RenewLocksTouches ==
  ASSUME Inv, NEW r \in Owner, RenewLocks(r) PROVE StoreStep /\ \A x \in records : Touches(r, x)
BY RenewKeepsUsable, CallsStore DEF RenewLocks, Touches

\* A release and a cleanup drop records of the run.
LEMMA ReleaseLocksTouches ==
  ASSUME Inv, NEW r \in Owner, ReleaseLocks(r)
  PROVE  StoreStep /\ \A x \in records : Touches(r, x)
<1>1. Handle(r).owner = r
  BY DEF Handle
<1>2. Release(Handle(r), FALSE) => StoreStep /\ \A x \in records : x.owner # r => KeptUsable(x)
  BY <1>1, ReleaseDrops
<1>3. Release(Handle(r), FALSE) \/ UNCHANGED storeVars
  BY DEF ReleaseLocks, Call
<1>. QED
  BY <1>2, <1>3, Untouched DEF ReleaseLocks, At, Touches

\* A cleanup, which refuses a held record.
LEMMA CleanupTouches ==
  ASSUME Inv, NEW r \in Owner, Cleanup(r)
  PROVE  StoreStep /\ \A x \in records : Touches(r, x)
<1>1. Handle(r).owner = r
  BY DEF Handle
<1>2. Release(Handle(r), TRUE) => StoreStep /\ \A x \in records : x.owner # r => KeptUsable(x)
  BY <1>1, ReleaseDrops
<1>3. Release(Handle(r), TRUE) \/ UNCHANGED storeVars
  BY DEF Cleanup, Call
<1>. QED
  BY <1>2, <1>3, Untouched DEF Cleanup, At, Touches

\* A promotion keeps the retained keys and drops other records of the run.
LEMMA PromoteKeepsHolds ==
  ASSUME Inv, NEW r \in Owner, Promote(r), run[r].pc \in {"hold", "promote"}
  PROVE  StoreStep /\ \A x \in records : Touches(r, x)
<1> DEFINE mine == Selected(run[r].tokens)
<1>1. StoreStep
  BY PromoteConflictHoldKeeps DEF Inv, Promote
<1>2. \A x \in mine : x.owner = r
  BY DEF Promote, PromoteConflictHold, OwnsAll, Selected, Handle
<1>3. ASSUME NEW x \in mine, x.key \in HoldKeys[TaskOf[r]], x \in records PROVE Kept(x)
  <2>1. Held(x) \in records'
    BY <1>3 DEF Promote, PromoteConflictHold, Handle
  <2>2. AmendmentOf(Held(x), x)
    BY <1>3, Amendments DEF Inv, StoreInv, StoreTyped
  <2>. QED
    BY <2>1, <2>2 DEF Kept
<1>4. \A x \in records \ mine : KeptUsable(x)
  BY DEF Promote, PromoteConflictHold, Handle, KeptUsable, AmendmentOf
<1> HIDE DEF mine
<1>. QED
  BY <1>1, <1>2, <1>3, <1>4 DEF Touches

\* The hold of a review verdict.
LEMMA HoldTouches ==
  ASSUME Inv, NEW r \in Owner, Hold(r) PROVE StoreStep /\ \A x \in records : Touches(r, x)
BY PromoteKeepsHolds, CallsStore DEF Hold, At

\* The hold of a manual review.
LEMMA HoldAfterReviewTouches ==
  ASSUME Inv, NEW r \in Owner, HoldAfterReview(r)
  PROVE  StoreStep /\ \A x \in records : Touches(r, x)
BY PromoteKeepsHolds, CallsStore DEF HoldAfterReview, At

\* A settlement drops what the terminal record names, which is of its task.
LEMMA SettleTouches ==
  ASSUME Inv, KnownLocks, NEW r \in Owner, Settle(r)
  PROVE  StoreStep /\ \A x \in records : Touches(r, x)
<1>1. CASE Continue(r, NotRunning)
  BY <1>1, Untouched DEF Continue, storeVars, Touches
<1>2. CASE ~Continue(r, NotRunning)
  <2>1. PICK o : Call(r, Release([owner |-> o, tokens |-> Rec(r).tokens], FALSE), FALSE,
                      NotRunning, NotRunning)
    BY <1>2 DEF Settle
  <2>2. Settles(Rec(r))
    BY <1>2 DEF Settle, Settles
  <2> DEFINE h == [owner |-> o, tokens |-> Rec(r).tokens]
  <2>3. ASSUME Release(h, FALSE)
        PROVE  StoreStep /\ \A x \in records : Touches(r, x)
    <3>1. StoreStep
      BY <2>3, ReleaseKeeps DEF Inv
    <3>2. \A x \in Selected(Rec(r).tokens) : SameTask(r, x)
      BY OwnerAssumption DEF KnownLocks, Knows, Selected, SameTask, Rec
    <3>3. \A x \in records \ Selected(Rec(r).tokens) : KeptUsable(x)
      BY <2>3 DEF Release, KeptUsable, AmendmentOf
    <3>. QED
      BY <2>2, <3>1, <3>2, <3>3 DEF Touches, Settle
  <2>. QED
    BY <2>1, <2>3, CallsStore
<1>. QED
  BY <1>1, <1>2

\* What the run finds of an earlier attempt is expired.
LEMMA ReleaseStaleTouches ==
  ASSUME Inv, NEW r \in Owner, ReleaseStale(r)
  PROVE  StoreStep /\ \A x \in records : Touches(r, x)
<1> DEFINE mine == {x \in records : TaskOf[x.owner] = TaskOf[r] /\ ~x.hold /\ x.lease = 0}
<1>1. ASSUME RecoverExpired(mine, {}, {}, r)
      PROVE  StoreStep /\ \A x \in records : Touches(r, x)
  <2>1. StoreStep
    BY <1>1, RecoverExpiredKeeps DEF Inv
  <2>2. \A x \in records \ mine : x \in records'
    BY <1>1 DEF RecoverExpired
  <2>3. \A x \in mine : ~Usable(x) /\ SameTask(r, x)
    BY DEF Usable, SameTask
  <2>. QED
    BY <2>1, <2>2, <2>3 DEF Touches, KeptUsable, AmendmentOf, ReleaseStale
<1>2. RecoverExpired(mine, {}, {}, r) \/ UNCHANGED storeVars
  BY DEF ReleaseStale, Call
<1>. QED
  BY <1>1, <1>2, Untouched DEF Touches

\* An acquisition only adds records.
LEMMA AcquireLocksTouches ==
  ASSUME Inv, NEW r \in Owner, AcquireLocks(r)
  PROVE  StoreStep /\ \A x \in records : Touches(r, x)
<1>1. CASE UNCHANGED storeVars
  BY <1>1, Untouched DEF Touches
<1>2. ASSUME AcquireOnce(r, Requests[TaskOf[r]])
      PROVE  StoreStep /\ \A x \in records : Touches(r, x)
  <2>1. Requests[TaskOf[r]] \in SUBSET LockRequest
    BY ExecutorAssumption, OwnerAssumption
  <2>2. StoreStep
    BY <1>2, <2>1, AcquireOnceKeeps DEF Inv
  <2>3. records \subseteq records'
    BY <1>2 DEF AcquireOnce
  <2>. QED
    BY <2>2, <2>3 DEF Touches, KeptUsable, AmendmentOf
<1>3. UNCHANGED storeVars \/ AcquireOnce(r, Requests[TaskOf[r]])
  BY DEF AcquireLocks, Call, Continue, storeVars
<1>. QED
  BY <1>1, <1>2, <1>3

\* A recovery replaces expired records of its task by its own on the same keys.
LEMMA RecoverHandleTouches ==
  ASSUME Inv, KnownLocks, NEW r \in Owner, RecoverHandle(r)
  PROVE  StoreStep /\ \A x \in records : Touches(r, x)
<1> DEFINE mine == Selected(run[r].tokens)
<1>1. CASE UNCHANGED storeVars
  BY <1>1, Untouched DEF Touches
<1>2. ASSUME RecoverExpired({}, {}, mine, r)
      PROVE  StoreStep /\ \A x \in records : Touches(r, x)
  <2>1. mine \subseteq records /\ \A x \in mine : x \in LockRecord /\ x.key \in Key
    BY SelectedRecords DEF Inv, StoreInv, StoreTyped, LockRecord
  <2>2. StoreStep
    BY <1>2, <2>1, RecoverExpiredKeeps DEF Inv
  <2>3. \A x \in records \ mine : KeptUsable(x)
    BY <1>2 DEF RecoverExpired, KeptUsable, AmendmentOf
  <2>4. \A x \in mine : ~Usable(x) /\ SameTask(r, x)
    BY <1>2 DEF RecoverExpired, Usable, SameTask
  <2> DEFINE S == {x.key : x \in mine}
  <2>5. ASSUME NEW x \in mine
        PROVE  \E y \in records' : y.owner = r /\ y.key = x.key /\ y.mode = x.mode
    <3>1. Recovered(x, r, S) \in records'
      BY <1>2 DEF RecoverExpired
    <3>2. FreshGeneration(x.key, S) \in Nat
      BY <2>1, FreshGenerations DEF Inv, StoreInv, StoreTyped
    <3> HIDE DEF S, mine
    <3>. QED
      BY <2>1, <3>1, <3>2, RecoveredTyped
  <2>6. At(r, "recover")
    BY DEF RecoverHandle
  <2> HIDE DEF mine
  <2>. QED
    BY <2>2, <2>3, <2>4, <2>5, <2>6 DEF Touches
<1>3. UNCHANGED storeVars \/ RecoverExpired({}, {}, mine, r)
  BY DEF RecoverHandle, Call, Continue, storeVars
<1>. QED
  BY <1>1, <1>2, <1>3

-----------------------------------------------------------------------------
(* The provider is called under live locks.                                *)

\* Where a run's tokens are those its record names.
Recorded == {"preflight", "recordPreflight", "authority", "dispatch", "approve", "commit"}

\* A run that found an intent, and waits for locks it cannot take over.
Waiting(n) == n.pc \in {"recover", "yield"} /\ n.part = "recovering" /\ n.catch = "none"
Aside(r) ==
  /\ At(r, "recover") => Waiting(run[r]) /\ run[r].tokens = Rec(r).tokens
  /\ HasClaim(r) => At(r, "done") \/ Waiting(run[r])

Placed(r) ==
  /\ run[r].pc \in {"dispatch", "approve", "commit", "send"} => run[r].part = "dispatching"
  /\ At(r, "recover") => Rec(r).intent
  /\ HasClaim(r) /\ run[r].pc \in Recorded => Rec(r).tokens = run[r].tokens

\* From the check of the locks to the intent they are live, unless the claim is
\* gone or the record ended: then the intent is refused.
Ready(r) ==
  PromptRenewal /\ run[r].pc \in {"approve", "commit"} /\ HasClaim(r) /\ ~Rec(r).terminal
    => Live(r)

\* From the intent to the provider call nobody can end the record or take the
\* locks, although the claim may pass on.
Sending(r) ==
  PromptRenewal /\ At(r, "send") =>
    /\ ~Rec(r).terminal /\ Rec(r).tokens = run[r].tokens /\ Live(r)
    /\ \A q \in Owner \ {r} : TaskOf[q] = TaskOf[r] => Aside(q)

SendInv == KnownLocks /\ \A r \in Owner : Placed(r) /\ Ready(r) /\ Sending(r)

\* Run r goes on as n, away from the provider call or, its locks checked, on
\* towards it.
Goes(r, n) ==
  /\ n \in Run /\ n.tokens \subseteq run[r].tokens
  /\ n.pc \notin {"recover", "approve", "commit", "send"}
  /\ n.pc = "dispatch" => n.part = "dispatching"
  /\ n.pc \in Recorded =>
       run[r].pc \in Recorded \union {"recordLocks"} /\ n.tokens = run[r].tokens
Nears(r, n) ==
  /\ n \in Run /\ n.tokens = run[r].tokens
  /\ run[r].pc \in Recorded /\ n.pc \in {"approve", "commit"} /\ n.part = "dispatching"
  /\ PromptRenewal /\ HasClaim(r) /\ ~Rec(r).terminal => Live(r)

\* The record y becomes x.
Writes(x, y) ==
  x \in ExecutionRecord /\ x.owner = y.owner /\ x.tokens = y.tokens /\ (y.intent => x.intent)

\* The tokens of an acquisition or a transfer are recorded.
Replaces(r, x) ==
  /\ run[r].pc \in {"recordLocks", "replace"} /\ HasClaim(r)
  /\ x = [Rec(r) EXCEPT !.tokens = run[r].tokens]

\* Only the owner of the record writes it, or somebody ends it before an intent;
\* who waits in a recovery goes on waiting, or gives up.
Quiet(r, n, x) ==
  /\ Goes(r, n) \/ (Nears(r, n) /\ x = Rec(r))
  /\ \/ Writes(x, Rec(r)) /\ ~(At(r, "recordLocks") /\ n.pc \in Recorded)
     \/ Replaces(r, x)
  /\ HasClaim(r) \/ x = Rec(r) \/ (x.terminal /\ ~Rec(r).intent)
  /\ At(r, "done") => ~HasClaim(r) \/ ~Rec(r).intent
  /\ Waiting(run[r]) => x.terminal = Rec(r).terminal /\ (n.pc = "done" \/ Waiting(n))
  /\ run' = [run EXCEPT ![r] = n] /\ exec' = [exec EXCEPT ![TaskOf[r]] = x]
  /\ UNCHANGED storeVars

\* What a quiet step leaves.
LEMMA QuietDoes ==
  ASSUME Inv, NEW r \in Owner, NEW n, NEW x, Quiet(r, n, x)
  PROVE  /\ run'[r] = n /\ Rec(r)' = x /\ exec'[TaskOf[r]] = x
         /\ \A q \in Owner \ {r} : run'[q] = run[q]
         /\ \A q \in Owner : TaskOf[q] = TaskOf[r] => Rec(q) = Rec(r) /\ Rec(q)' = x
         /\ \A q \in Owner : TaskOf[q] # TaskOf[r] => Rec(q)' = Rec(q)
         /\ \A t \in Task \ {TaskOf[r]} : exec'[t] = exec[t]
         /\ \A q \in Owner : HasClaim(q)' <=> HasClaim(q)
<1>1. run \in [Owner -> Run] /\ exec \in [Task -> ExecutionRecord] /\ TaskOf \in [Owner -> Task]
  BY OwnerAssumption DEF Inv, ExecutorTyped
<1>2. x.owner = Rec(r).owner
  BY RecordTyped DEF Quiet, Writes, Replaces, ExecutionRecord
<1>. QED
  BY <1>1, <1>2 DEF Quiet, Rec, HasClaim

\* Without a transaction of the store the tokens stay known.
LEMMA KnownStays ==
  ASSUME Inv, KnownLocks, StoreStep,
         \A t \in Task : \A k \in exec'[t].tokens :
           \/ k \in exec[t].tokens \/ Knows(t, k)'
           \/ \E r \in Owner : TaskOf[r] = t /\ k \in run[r].tokens,
         \A r \in Owner : \A k \in run'[r].tokens :
           k \in run[r].tokens \/ Knows(TaskOf[r], k)' \/ k \in Rec(r).tokens
  PROVE  KnownLocks'
<1>1. /\ \A t \in Task : exec[t].tokens \subseteq LockToken
      /\ \A r \in Owner : run[r].tokens \subseteq LockToken /\ TaskOf[r] \in Task
  BY OwnerAssumption DEF Inv, ExecutorTyped, ExecutionRecord, Run
<1>2. ASSUME NEW t \in Task, NEW k \in LockToken, Knows(t, k) PROVE Knows(t, k)'
  BY <1>2, KnowsStays
<1>3. \A t \in Task : \A k \in exec[t].tokens : Knows(t, k)'
  BY <1>1, <1>2 DEF KnownLocks
<1>4. \A r \in Owner : \A k \in run[r].tokens : Knows(TaskOf[r], k)'
  BY <1>1, <1>2 DEF KnownLocks
<1>5. \A t \in Task : \A k \in exec'[t].tokens : Knows(t, k)'
  BY <1>3, <1>4
<1>6. \A r \in Owner : \A k \in run'[r].tokens : Knows(TaskOf[r], k)'
  BY <1>1, <1>3, <1>4 DEF Rec
<1>. QED
  BY <1>5, <1>6 DEF KnownLocks

\* A quiet step keeps the locks of whoever is about to call.
LEMMA QuietKeeps ==
  ASSUME Inv, SendInv, NEW r \in Owner, NEW n, NEW x, Quiet(r, n, x)
  PROVE  SendInv'
<1>1. /\ run'[r] = n /\ Rec(r)' = x /\ exec'[TaskOf[r]] = x
      /\ \A q \in Owner \ {r} : run'[q] = run[q]
      /\ \A q \in Owner : TaskOf[q] = TaskOf[r] => Rec(q) = Rec(r) /\ Rec(q)' = x
      /\ \A q \in Owner : TaskOf[q] # TaskOf[r] => Rec(q)' = Rec(q)
      /\ \A t \in Task \ {TaskOf[r]} : exec'[t] = exec[t]
      /\ \A q \in Owner : HasClaim(q)' <=> HasClaim(q)
  BY QuietDoes
<1>2. StoreStep /\ records' = records /\ nextGeneration' = nextGeneration
  BY Untouched DEF Quiet, storeVars
<1>. /\ x \in ExecutionRecord /\ (Rec(r).intent => x.intent)
     /\ x.tokens = Rec(r).tokens \/ (Replaces(r, x) /\ x.tokens = run[r].tokens)
  BY RecordTyped DEF Quiet, Writes, Replaces, ExecutionRecord, Run
<1>3. KnownLocks'
  BY <1>1, <1>2, KnownStays DEF SendInv, Quiet, Goes, Nears, Rec
<1>4. \A q \in Owner : run'[q].tokens = run[q].tokens => (Live(q)' <=> Live(q))
  BY <1>1, <1>2 DEF Live, Owns, OwnsAll, Matches, Selected
<1>5. \A q \in Owner : Placed(q)'
  <2>1. Placed(r)'
    <3>1. Placed(r)
      BY DEF SendInv
    <3>2. n.pc \in {"dispatch", "approve", "commit", "send"} => n.part = "dispatching"
      BY DEF Quiet, Goes, Nears
    <3>3. n.pc # "recover" /\ (n.pc \in Recorded => n.tokens = run[r].tokens)
      BY DEF Quiet, Goes, Nears
    <3>4. n.pc \in Recorded /\ run[r].pc \notin Recorded => Replaces(r, x)
      BY DEF Quiet, Goes, Nears, At
    <3>5. ASSUME n.pc \in Recorded, HasClaim(r) PROVE x.tokens = n.tokens
      <4>1. CASE Replaces(r, x)
        BY <3>3, <3>5, <4>1, RecordTyped DEF Replaces, ExecutionRecord
      <4>2. CASE ~Replaces(r, x)
        BY <3>1, <3>3, <3>4, <3>5, <4>2 DEF Placed
      <4>. QED
        BY <4>1, <4>2
    <3>. QED
      BY <1>1, <3>2, <3>3, <3>5 DEF Placed, At
  <2>2. \A q \in Owner \ {r} : Placed(q)'
    BY <1>1 DEF SendInv, Replaces, HasClaim, Placed, At
  <2>. QED
    BY <2>1, <2>2
<1>6. ASSUME NEW q \in Owner PROVE Ready(q)'
  <2>1. CASE q = r
    BY <1>1, <1>4, <2>1 DEF Quiet, Goes, Nears, Ready
  <2>2. CASE q # r /\ TaskOf[q] # TaskOf[r]
    BY <1>1, <1>4, <2>2 DEF SendInv, Ready
  <2>3. CASE q # r /\ TaskOf[q] = TaskOf[r]
    <3>1. HasClaim(q) => x = Rec(r) \/ x.terminal
      BY <1>1, <2>3 DEF Quiet, HasClaim
    <3>. QED
      BY <1>1, <1>4, <2>3, <3>1 DEF SendInv, Ready
  <2>. QED
    BY <2>1, <2>2, <2>3
<1>7. ASSUME PromptRenewal, NEW q \in Owner, At(q, "send")'
      PROVE  /\ q # r /\ At(q, "send") /\ Rec(q).intent
             /\ ~Rec(q).terminal /\ Rec(q).tokens = run[q].tokens /\ Live(q)
             /\ \A p \in Owner \ {q} : TaskOf[p] = TaskOf[q] => Aside(p)
  <2>1. q # r /\ At(q, "send")
    BY <1>1, <1>7 DEF Quiet, Goes, Nears, At
  <2>. QED
    BY <1>7, <2>1 DEF SendInv, Sending, Inv, SendIsFirst
<1>8. ASSUME PromptRenewal, NEW q \in Owner, At(q, "send")', TaskOf[q] = TaskOf[r]
      PROVE  ~x.terminal /\ x.tokens = Rec(r).tokens /\ (HasClaim(r) => n.pc = "done" \/ Waiting(n))
  <2>1. Aside(r) /\ Rec(r).intent /\ ~Rec(r).terminal
    BY <1>1, <1>7, <1>8
  <2>. QED
    BY <2>1 DEF Quiet, Replaces, Aside, At, Waiting
<1>9. ASSUME NEW q \in Owner PROVE Sending(q)'
  <2> SUFFICES ASSUME PromptRenewal, At(q, "send")'
               PROVE  /\ ~Rec(q)'.terminal /\ Rec(q)'.tokens = run'[q].tokens /\ Live(q)'
                      /\ \A p \in Owner \ {q} : TaskOf[p] = TaskOf[q] => Aside(p)'
    BY DEF Sending
  <2>1. ~Rec(q)'.terminal /\ Rec(q)'.tokens = run'[q].tokens /\ Live(q)'
    BY <1>1, <1>4, <1>7, <1>8
  <2>2. ASSUME NEW p \in Owner \ {q}, TaskOf[p] = TaskOf[q] PROVE Aside(p)'
    <3>1. CASE p # r
      BY <1>1, <1>7, <1>8, <2>2, <3>1 DEF Aside, At
    <3>2. CASE p = r
      BY <1>1, <1>8, <2>2, <3>2 DEF Aside, At, Quiet, Goes, Nears
    <3>. QED
      BY <3>1, <3>2
  <2>. QED
    BY <2>1, <2>2
<1>. QED
  BY <1>3, <1>5, <1>6, <1>9 DEF SendInv

\* A local step of a run, away from the provider call.
LEMMA ContinueQuiet ==
  ASSUME Inv, SendInv, NEW r \in Owner, NEW n, Continue(r, n), Goes(r, n),
         At(r, "done") => ~HasClaim(r), ~At(r, "recordLocks"),
         Waiting(run[r]) => n.pc = "done" \/ Waiting(n)
  PROVE  SendInv'
<1>1. Rec(r) \in ExecutionRecord /\ exec = [exec EXCEPT ![TaskOf[r]] = Rec(r)]
  BY OwnerAssumption DEF Inv, ExecutorTyped, Rec
<1>2. Quiet(r, n, Rec(r))
  BY <1>1 DEF Continue, Quiet, Writes, storeVars
<1>. QED
  BY <1>2, QuietKeeps

\* A guarded write of a run that does not wait.
LEMMA SaveQuiet ==
  ASSUME Inv, SendInv, NEW r \in Owner, NEW valid, NEW x, NEW ok, NEW err,
         Save(r, valid, x, ok, err), Goes(r, ok), Goes(r, err),
         HasClaim(r) /\ valid => Writes(x, Rec(r)),
         run[r].pc \notin {"done", "recordLocks", "recover", "yield"}
  PROVE  SendInv'
<1>1. Rec(r) \in ExecutionRecord /\ exec = [exec EXCEPT ![TaskOf[r]] = Rec(r)]
  BY OwnerAssumption DEF Inv, ExecutorTyped, Rec
<1>2. Writes(Rec(r), Rec(r)) /\ ~At(r, "done") /\ ~At(r, "recordLocks") /\ ~Waiting(run[r])
  BY <1>1 DEF Writes, At, Waiting
<1>3. Quiet(r, ok, x) \/ Quiet(r, err, x) \/ Quiet(r, err, Rec(r))
  BY <1>1, <1>2 DEF Save, Quiet, storeVars
<1>. QED
  BY <1>3, QuietKeeps

Handler == {"none", "preflightFailed", "observeFailed", "verifyFailed"}
Beyond == {"recover", "send"} \union Recorded

\* The forms a run takes next.
LEMMA GoesOn ==
  ASSUME Inv, NEW r \in Owner
  PROVE  /\ Goes(r, NotRunning)
         /\ \A step \in Steps \ Beyond : Goes(r, To(r, step))
         /\ \A step \in Steps \ Beyond, handler \in Handler : Goes(r, Into(r, step, handler))
         /\ Goes(r, Escape(r)) /\ Goes(r, Caught(r))
<1>1. run[r] \in Run
  BY RecordTyped
<1>2. Goes(r, NotRunning)
  BY DEF Goes, NotRunning, Run, Steps, Recorded
<1>3. \A step \in Steps \ Beyond : Goes(r, To(r, step))
  BY <1>1, <1>2 DEF Goes, To, Run, Beyond, Recorded
<1>4. \A step \in Steps \ Beyond, handler \in Handler : Goes(r, Into(r, step, handler))
  BY <1>1 DEF Goes, Into, Run, Beyond, Recorded, Handler
<1>5. Goes(r, Escape(r))
  BY <1>2, <1>4 DEF Escape, Steps, Beyond, Recorded, Handler
<1>6. Goes(r, Caught(r))
  <2>1. run[r].catch \in Handler /\ Handler \ {"none"} \subseteq Steps \ Beyond
    BY <1>1 DEF Run, Handler, Steps, Beyond, Recorded
  <2>. QED
    BY <1>4, <1>5, <2>1 DEF Caught, Handler
<1>. QED
  BY <1>2, <1>3, <1>4, <1>5, <1>6

\* The updates of a record that keep its owner and its tokens.
LEMMA WritesOn ==
  ASSUME NEW x \in ExecutionRecord
  PROVE  /\ \A outcome \in Outcome :
              /\ Writes(Ended(x, outcome), x)
              /\ Writes(DispatchResult(x, outcome), x)
              /\ x.observations < AttemptLimit => Writes(Observed(x, outcome), x)
              /\ x.verifications < AttemptLimit => Writes(Verified(x, outcome), x)
         /\ Writes([x EXCEPT !.preflight = TRUE], x)
         /\ Writes([x EXCEPT !.claim = 0], x)
<1>1. \A outcome \in Outcome :
        /\ Harmless(Ended(x, outcome), x) /\ Harmless(DispatchResult(x, outcome), x)
        /\ x.observations < AttemptLimit => Harmless(Observed(x, outcome), x)
        /\ x.verifications < AttemptLimit => Harmless(Verified(x, outcome), x)
  BY HarmlessUpdates
<1>2. Harmless([x EXCEPT !.preflight = TRUE], x) /\ Harmless([x EXCEPT !.claim = 0], x)
  BY HarmlessUpdates
<1>3. ASSUME NEW outcome
      PROVE  /\ Ended(x, outcome).owner = x.owner /\ Ended(x, outcome).tokens = x.tokens
             /\ DispatchResult(x, outcome).owner = x.owner
             /\ DispatchResult(x, outcome).tokens = x.tokens
             /\ Observed(x, outcome).owner = x.owner /\ Observed(x, outcome).tokens = x.tokens
             /\ Verified(x, outcome).owner = x.owner /\ Verified(x, outcome).tokens = x.tokens
  BY DEF Ended, DispatchResult, Observed, Verified, ExecutionRecord
<1>4. /\ [x EXCEPT !.preflight = TRUE].owner = x.owner
      /\ [x EXCEPT !.preflight = TRUE].tokens = x.tokens
      /\ [x EXCEPT !.claim = 0].owner = x.owner /\ [x EXCEPT !.claim = 0].tokens = x.tokens
  BY DEF ExecutionRecord
<1>. QED
  BY <1>1, <1>2, <1>3, <1>4 DEF Harmless, Writes

-----------------------------------------------------------------------------
(* The steps of a run away from the call, one by one.                      *)

\* Rejections and failures before the dispatch block.
LEMMA ConflictSends == ASSUME Inv, SendInv, NEW r \in Owner, Conflict(r) PROVE SendInv'
<1>1. Writes(Ended(Rec(r), "failed_pre_dispatch"), Rec(r))
  BY RecordTyped, WritesOn DEF Outcome, PreDispatch, PostIntent
<1>2. Goes(r, NotRunning)
  BY GoesOn DEF Steps, Beyond, Recorded, Handler
<1>. QED
  BY <1>1, <1>2, SaveQuiet DEF Conflict, At

\* fail_lock_acquisition.
LEMMA FailLocksSends == ASSUME Inv, SendInv, NEW r \in Owner, FailLocks(r) PROVE SendInv'
<1>1. Writes(Ended(Rec(r), "failed_pre_dispatch"), Rec(r))
  BY RecordTyped, WritesOn DEF Outcome, PreDispatch, PostIntent
<1>2. Goes(r, NotRunning) /\ Goes(r, To(r, "cleanup"))
  BY GoesOn DEF Steps, Beyond, Recorded, Handler
<1>. QED
  BY <1>1, <1>2, SaveQuiet DEF FailLocks, At

\* An ineligible preflight.
LEMMA RejectSends == ASSUME Inv, SendInv, NEW r \in Owner, Reject(r) PROVE SendInv'
<1>1. Writes(Ended(Rec(r), "failed_pre_dispatch"), Rec(r))
  BY RecordTyped, WritesOn DEF Outcome, PreDispatch, PostIntent
<1>2. Goes(r, Into(r, "release", "preflightFailed")) /\ Goes(r, To(r, "preflightFailed"))
  BY GoesOn DEF Steps, Beyond, Recorded, Handler
<1>. QED
  BY <1>1, <1>2, SaveQuiet DEF Reject, At

\* The handler of the preflight.
LEMMA PreflightFailedSends ==
  ASSUME Inv, SendInv, NEW r \in Owner, PreflightFailed(r) PROVE SendInv'
<1>1. Writes(Ended(Rec(r), "failed_pre_dispatch"), Rec(r))
  BY RecordTyped, WritesOn DEF Outcome, PreDispatch, PostIntent
<1>2. Goes(r, To(r, "release")) /\ Goes(r, NotRunning)
  BY GoesOn DEF Steps, Beyond, Recorded, Handler
<1>3. ~At(r, "done") /\ ~At(r, "recordLocks") /\ ~Waiting(run[r])
  BY DEF PreflightFailed, At, Waiting
<1>. QED
  BY <1>1, <1>2, <1>3, SaveQuiet, ContinueQuiet DEF PreflightFailed, At

\* A refused authority.
LEMMA RefusedSends == ASSUME Inv, SendInv, NEW r \in Owner, Refused(r) PROVE SendInv'
<1>1. Writes(Ended(Rec(r), "failed_pre_dispatch"), Rec(r))
  BY RecordTyped, WritesOn DEF Outcome, PreDispatch, PostIntent
<1>2. Goes(r, To(r, "release")) /\ Goes(r, NotRunning)
  BY GoesOn DEF Steps, Beyond, Recorded, Handler
<1>. QED
  BY <1>1, <1>2, SaveQuiet DEF Refused, At

\* The preflight and the authority guard write nothing.
LEMMA PreflightSends == ASSUME Inv, SendInv, NEW r \in Owner, Preflight(r) PROVE SendInv'
<1>1. ~At(r, "done") /\ ~At(r, "recordLocks") /\ ~Waiting(run[r])
  BY DEF Preflight, At, Waiting
<1>2. Goes(r, To(r, "noop")) /\ Goes(r, To(r, "reject")) /\ Goes(r, To(r, "preflightFailed"))
  BY GoesOn DEF Steps, Beyond, Recorded
<1>3. Goes(r, To(r, "recordPreflight"))
  BY RecordTyped DEF Goes, To, Run, Steps, Recorded, Preflight, At
<1>. QED
  BY <1>1, <1>2, <1>3, ContinueQuiet DEF Preflight

\* The authority guard enters the dispatch block.
LEMMA AuthoritySends == ASSUME Inv, SendInv, NEW r \in Owner, Authority(r) PROVE SendInv'
<1>1. ~At(r, "done") /\ ~At(r, "recordLocks") /\ ~Waiting(run[r])
  BY DEF Authority, At, Waiting
<1>2. Goes(r, To(r, "refused"))
  BY GoesOn DEF Steps, Beyond, Recorded
<1>3. Goes(r, [To(r, "dispatch") EXCEPT !.part = "dispatching"])
  <2>1. run[r] \in Run /\ At(r, "authority")
    BY RecordTyped DEF Authority
  <2>. QED
    BY <2>1 DEF Goes, To, Run, Steps, Recorded, At
<1>. QED
  BY <1>1, <1>2, <1>3, ContinueQuiet DEF Authority

\* record_preflight keeps the tokens.
LEMMA RecordPreflightSends ==
  ASSUME Inv, SendInv, NEW r \in Owner, RecordPreflight(r) PROVE SendInv'
<1>1. Writes([Rec(r) EXCEPT !.preflight = TRUE], Rec(r))
  BY RecordTyped, WritesOn
<1>2. Goes(r, To(r, "authority")) /\ Goes(r, To(r, "preflightFailed"))
  BY GoesOn, RecordTyped DEF Goes, To, Run, Steps, Recorded, Beyond, RecordPreflight, At
<1>. QED
  BY <1>1, <1>2, SaveQuiet DEF RecordPreflight, At

\* An operation already in its target state.
LEMMA NoopSends == ASSUME Inv, SendInv, NEW r \in Owner, Noop(r) PROVE SendInv'
<1>1. Writes(Ended(Rec(r), "succeeded_verified"), Rec(r))
  BY RecordTyped, WritesOn DEF Outcome, PreDispatch, PostIntent
<1>2. Writes([Ended(Rec(r), "succeeded_verified") EXCEPT !.preflight = TRUE],
            Ended(Rec(r), "succeeded_verified"))
  BY <1>1, WritesOn DEF Writes
<1>3. Writes([Ended(Rec(r), "succeeded_verified") EXCEPT !.preflight = TRUE], Rec(r))
  BY <1>1, <1>2 DEF Writes
<1>4. Goes(r, To(r, "release")) /\ Goes(r, To(r, "preflightFailed"))
  BY GoesOn DEF Steps, Beyond, Recorded, Handler
<1>. QED
  BY <1>1, <1>2, <1>3, <1>4, SaveQuiet DEF Noop, At

\* The provider refused: the record ends with its intent.
LEMMA ConfirmedSends == ASSUME Inv, SendInv, NEW r \in Owner, Confirmed(r) PROVE SendInv'
<1>1. Writes(DispatchResult(Rec(r), "none"), Rec(r))
  BY RecordTyped, WritesOn DEF Outcome, PreDispatch, PostIntent
<1>2. Writes(Ended(DispatchResult(Rec(r), "none"), "dispatch_failed_confirmed"),
            DispatchResult(Rec(r), "none"))
  BY <1>1, WritesOn DEF Writes, Outcome, PostIntent
<1>3. Writes(Ended(DispatchResult(Rec(r), "none"), "dispatch_failed_confirmed"), Rec(r))
  BY <1>1, <1>2 DEF Writes
<1>4. Goes(r, To(r, "release")) /\ Goes(r, To(r, "failed"))
  BY GoesOn DEF Steps, Beyond, Recorded, Handler
<1>. QED
  BY <1>1, <1>2, <1>3, <1>4, SaveQuiet DEF Confirmed, At

\* The provider answered.
LEMMA SentSends == ASSUME Inv, SendInv, NEW r \in Owner, Sent(r) PROVE SendInv'
<1>1. \A outcome \in {"observing", "dispatch_indeterminate"} :
        Writes(DispatchResult(Rec(r), outcome), Rec(r))
  BY RecordTyped, WritesOn DEF Outcome, PreDispatch, PostIntent
<1>2. Goes(r, To(r, "observe")) /\ Goes(r, To(r, "failed"))
  BY GoesOn DEF Steps, Beyond, Recorded, Handler
<1>. QED
  BY <1>1, <1>2, SaveQuiet DEF Sent, At

\* The handler of the dispatch block.
LEMMA FailedSends == ASSUME Inv, SendInv, NEW r \in Owner, Failed(r) PROVE SendInv'
<1> DEFINE x == Rec(r)
           rescue == [To(r, "observe") EXCEPT !.part = "rescuing"]
<1>1. /\ Writes(Ended(x, "failed_pre_dispatch"), x)
      /\ Writes(DispatchResult(x, "dispatch_indeterminate"), x)
      /\ Writes([x EXCEPT !.claim = 0], x)
  BY RecordTyped, WritesOn DEF Outcome, PreDispatch
<1>2. Goes(r, To(r, "release")) /\ Goes(r, NotRunning) /\ Goes(r, rescue)
  <2>1. Goes(r, To(r, "release")) /\ Goes(r, NotRunning) /\ Goes(r, To(r, "observe"))
    BY GoesOn DEF Steps, Beyond, Recorded
  <2>2. To(r, "observe").pc = "observe"
    BY RecordTyped DEF To, Run
  <2>. QED
    BY <2>1, <2>2 DEF Goes, Run, Recorded
<1>3. \/ Continue(r, To(r, "release")) \/ Continue(r, rescue)
      \/ Save(r, ~x.resulted, DispatchResult(x, "dispatch_indeterminate"), rescue, NotRunning)
      \/ Save(r, TRUE, Ended(x, "failed_pre_dispatch"), To(r, "release"), NotRunning)
      \/ Save(r, x.preflight /\ x.tokens # {}, [x EXCEPT !.claim = 0],
              To(r, "release"), NotRunning)
  BY RecordTyped DEF Failed, ExecutionRecord, Run
<1>4. run[r].pc = "failed" /\ ~At(r, "done") /\ ~At(r, "recordLocks") /\ ~Waiting(run[r])
  BY DEF Failed, At, Waiting
<1> HIDE DEF x, rescue
<1>5. x = Rec(r)
  BY DEF x
<1>. QED
  BY <1>1, <1>2, <1>3, <1>4, <1>5, SaveQuiet, ContinueQuiet

\* Recording the tokens of an acquisition makes the record name the run's tokens.
LEMMA ReplacesQuiet ==
  ASSUME Inv, SendInv, NEW r \in Owner, NEW valid, NEW ok, NEW err,
         Save(r, valid, [Rec(r) EXCEPT !.tokens = run[r].tokens], ok, err),
         run[r].pc \in {"recordLocks", "replace"},
         Goes(r, ok), Goes(r, err), err.pc \notin Recorded
  PROVE  SendInv'
<1> DEFINE x == [Rec(r) EXCEPT !.tokens = run[r].tokens]
<1>1. Rec(r) \in ExecutionRecord /\ exec = [exec EXCEPT ![TaskOf[r]] = Rec(r)]
  BY OwnerAssumption DEF Inv, ExecutorTyped, Rec
<1>2. Writes(Rec(r), Rec(r)) /\ ~At(r, "done") /\ ~Waiting(run[r])
  BY <1>1 DEF Writes, At, Waiting
<1>3. HasClaim(r) => Replaces(r, x)
  BY DEF Replaces
<1> HIDE DEF x
<1>4. CASE /\ HasClaim(r) /\ exec' = [exec EXCEPT ![TaskOf[r]] = x]
           /\ run' = [run EXCEPT ![r] = ok] \/ run' = [run EXCEPT ![r] = err]
  <2>1. Quiet(r, ok, x) \/ Quiet(r, err, x)
    BY <1>2, <1>3, <1>4 DEF Save, Quiet, storeVars
  <2>. QED
    BY <2>1, QuietKeeps
<1>5. CASE run' = [run EXCEPT ![r] = err] /\ exec' = exec
  <2>1. Quiet(r, err, Rec(r))
    BY <1>1, <1>2, <1>5 DEF Save, Quiet, storeVars
  <2>. QED
    BY <2>1, QuietKeeps
<1>6. Save(r, valid, x, ok, err)
  BY DEF x
<1>. QED
  BY <1>4, <1>5, <1>6 DEF Save

\* The tokens of an acquisition.
LEMMA RecordLocksSends == ASSUME Inv, SendInv, NEW r \in Owner, RecordLocks(r) PROVE SendInv'
<1>1. Goes(r, To(r, "failLocks"))
  BY GoesOn DEF Steps, Beyond, Recorded
<1>2. Goes(r, To(r, "preflight"))
  BY RecordTyped DEF Goes, To, Run, Steps, Recorded, RecordLocks, At
<1>3. To(r, "failLocks").pc \notin Recorded
  BY RecordTyped DEF To, Run, Recorded
<1>. QED
  BY <1>1, <1>2, <1>3, ReplacesQuiet DEF RecordLocks, At

\* The tokens of a transfer.
LEMMA ReplaceLocksSends == ASSUME Inv, SendInv, NEW r \in Owner, ReplaceLocks(r) PROVE SendInv'
<1>1. Goes(r, To(r, "observe")) /\ Goes(r, NotRunning)
  BY GoesOn DEF Steps, Beyond, Recorded
<1>2. NotRunning.pc \notin Recorded
  BY DEF NotRunning, Recorded
<1>. QED
  BY <1>1, <1>2, ReplacesQuiet DEF ReplaceLocks, At

\* before_dispatch checks the locks; the approval is consumed under them.
LEMMA NearsQuiet ==
  ASSUME Inv, SendInv, NEW r \in Owner, NEW n, Continue(r, n), Nears(r, n)
  PROVE  SendInv'
<1>1. Rec(r) \in ExecutionRecord /\ exec = [exec EXCEPT ![TaskOf[r]] = Rec(r)]
  BY OwnerAssumption DEF Inv, ExecutorTyped, Rec
<1>2. ~At(r, "done") /\ ~At(r, "recordLocks") /\ ~Waiting(run[r])
  BY DEF Nears, Recorded, At, Waiting
<1>3. Quiet(r, n, Rec(r))
  BY <1>1, <1>2 DEF Continue, Quiet, Writes, storeVars
<1>. QED
  BY <1>3, QuietKeeps

\* before_dispatch: a refusal, an error, or checked locks.
LEMMA DispatchSends == ASSUME Inv, SendInv, NEW r \in Owner, Dispatch(r) PROVE SendInv'
<1>1. Goes(r, To(r, "failed")) /\ Goes(r, To(r, "release"))
  BY GoesOn DEF Steps, Beyond, Recorded
<1>2. run[r].pc = "dispatch" /\ ~At(r, "done") /\ ~At(r, "recordLocks") /\ ~Waiting(run[r])
  BY DEF Dispatch, At, Waiting
<1>3. CASE RefuseDispatch(r)
  <2>1. Writes(Ended(Rec(r), "failed_pre_dispatch"), Rec(r))
    BY RecordTyped, WritesOn DEF Outcome, PreDispatch
  <2>. QED
    BY <1>1, <1>2, <1>3, <2>1, SaveQuiet DEF RefuseDispatch
<1>4. CASE Continue(r, To(r, "failed"))
  BY <1>1, <1>2, <1>4, ContinueQuiet
<1>5. CASE Live(r) /\ Continue(r, To(r, "approve"))
  <2>1. run[r].part = "dispatching" /\ run[r] \in Run
    BY <1>2, RecordTyped DEF SendInv, Placed
  <2>2. Nears(r, To(r, "approve"))
    BY <1>2, <1>5, <2>1 DEF Nears, To, Run, Steps, Recorded
  <2>. QED
    BY <1>5, <2>2, NearsQuiet
<1>. QED
  BY <1>3, <1>4, <1>5 DEF Dispatch

\* The approval is consumed.
LEMMA ApproveSends == ASSUME Inv, SendInv, NEW r \in Owner, Approve(r) PROVE SendInv'
<1>1. run[r].pc = "approve" /\ ~At(r, "done") /\ ~At(r, "recordLocks") /\ ~Waiting(run[r])
  BY DEF Approve, At, Waiting
<1>2. run[r].part = "dispatching" /\ run[r] \in Run /\ Ready(r)
  BY <1>1, RecordTyped DEF SendInv, Placed
<1>3. Nears(r, [To(r, "commit") EXCEPT !.approved = TRUE])
  BY <1>1, <1>2 DEF Nears, Ready, To, Run, Steps, Recorded
<1>4. Goes(r, [To(r, "failed") EXCEPT !.approved = TRUE])
  BY <1>2 DEF Goes, To, Run, Steps, Recorded
<1>. QED
  BY <1>1, <1>3, <1>4, NearsQuiet, ContinueQuiet DEF Approve

\* After the provider call, or instead of it, the run is elsewhere.
LEMMA SendSends == ASSUME Inv, SendInv, NEW r \in Owner, Send(r) PROVE SendInv'
<1>1. \A step \in {"sent", "confirmed", "failed"} : Goes(r, To(r, step))
  BY GoesOn DEF Steps, Beyond, Recorded
<1>2. ~At(r, "done") /\ ~At(r, "recordLocks") /\ ~Waiting(run[r])
  BY DEF Send, At, Waiting
<1>3. Writes(Rec(r), Rec(r)) /\ exec = [exec EXCEPT ![TaskOf[r]] = Rec(r)]
  BY RecordTyped DEF Writes, Inv, ExecutorTyped, Rec
<1>4. \E step \in {"sent", "confirmed", "failed"} : Quiet(r, To(r, step), Rec(r))
  BY <1>1, <1>2, <1>3 DEF Send, Quiet, storeVars
<1>. QED
  BY <1>4, QuietKeeps

\* The readback after the intent.
LEMMA ObserveSends == ASSUME Inv, SendInv, NEW r \in Owner, Observe(r) PROVE SendInv'
<1>1. Goes(r, Into(r, "review", "none")) /\ Goes(r, Into(r, "observing", "none"))
  BY GoesOn DEF Steps, Beyond, Recorded, Handler
<1>2. ~At(r, "done") /\ ~At(r, "recordLocks") /\ ~Waiting(run[r])
  BY DEF Observe, At, Waiting
<1>. QED
  BY <1>1, <1>2, ContinueQuiet DEF Observe

\* One observation, whatever it answers.
LEMMA ObservingSends == ASSUME Inv, SendInv, NEW r \in Owner, Observing(r) PROVE SendInv'
<1> DEFINE x == Rec(r)
           observed == Observed(x, "observing")
           err == Into(r, "observeFailed", "none")
           incomplete == Into(r, IF Exhausted(observed, observed.observations)
                                   THEN "review" ELSE "renew", "observeFailed")
<1>1. Observable(x) => /\ Writes(observed, x)
                       /\ Writes(Observed(x, "manual_review_required"), x)
  BY RecordTyped, WritesOn DEF Outcome, PostIntent, Observable
<1>2. /\ Goes(r, err) /\ Goes(r, incomplete) /\ Goes(r, Into(r, "verify", "none"))
      /\ Goes(r, Into(r, "review", "observeFailed"))
  BY GoesOn DEF Steps, Beyond, Recorded, Handler
<1>3. \/ Save(r, Observable(x), observed, Into(r, "verify", "none"), err)
      \/ Save(r, Observable(x), Observed(x, "manual_review_required"),
              Into(r, "review", "observeFailed"), err)
      \/ Save(r, Observable(x), observed, incomplete, err)
      \/ Continue(r, err)
  BY DEF Observing
<1>4. run[r].pc = "observing" /\ ~At(r, "done") /\ ~At(r, "recordLocks") /\ ~Waiting(run[r])
  BY DEF Observing, At, Waiting
<1> HIDE DEF x, observed, err, incomplete
<1>5. x = Rec(r)
  BY DEF x
<1>. QED
  BY <1>1, <1>2, <1>3, <1>4, <1>5, SaveQuiet, ContinueQuiet

\* The handler of an observation.
LEMMA ObserveFailedSends == ASSUME Inv, SendInv, NEW r \in Owner, ObserveFailed(r) PROVE SendInv'
<1>1. Observable(Rec(r)) => Writes(Observed(Rec(r), "observing"), Rec(r))
  BY RecordTyped, WritesOn DEF Outcome, Observable
<1>2. /\ Goes(r, Into(r, "review", "none")) /\ Goes(r, Into(r, "renew", "none"))
      /\ Goes(r, Escape(r))
  BY GoesOn DEF Steps, Beyond, Recorded, Handler
<1>3. run[r].pc = "observeFailed" /\ ~At(r, "done") /\ ~At(r, "recordLocks") /\ ~Waiting(run[r])
  BY DEF ObserveFailed, At, Waiting
<1>. QED
  BY <1>1, <1>2, <1>3, SaveQuiet, ContinueQuiet DEF ObserveFailed

\* One verification, whatever it answers.
LEMMA VerifySends == ASSUME Inv, SendInv, NEW r \in Owner, Verify(r) PROVE SendInv'
<1>1. \A outcome \in Verdicts : Verifiable(Rec(r)) => Writes(Verified(Rec(r), outcome), Rec(r))
  BY RecordTyped, WritesOn, ExecutorAssumption DEF Outcome, Verifiable
<1>2. Goes(r, Into(r, "verifyFailed", "none"))
  BY GoesOn DEF Steps, Beyond, Recorded, Handler
<1>3. \A outcome \in Verdicts : Goes(r, AfterVerdict(r, outcome))
  <2>1. \A step \in {"hold", "review", "renew"} : Goes(r, Into(r, step, "verifyFailed"))
    BY GoesOn DEF Steps, Beyond, Recorded, Handler
  <2>2. Goes(r, Into(r, "release", "none"))
    BY GoesOn DEF Steps, Beyond, Recorded, Handler
  <2>. QED
    BY <2>1, <2>2 DEF AfterVerdict
<1>4. run[r].pc = "verify" /\ ~At(r, "done") /\ ~At(r, "recordLocks") /\ ~Waiting(run[r])
  BY DEF Verify, At, Waiting
<1>. QED
  BY <1>1, <1>2, <1>3, <1>4, SaveQuiet, ContinueQuiet DEF Verify

\* The handler of a verification.
LEMMA VerifyFailedSends == ASSUME Inv, SendInv, NEW r \in Owner, VerifyFailed(r) PROVE SendInv'
<1>1. Verifiable(Rec(r)) => Writes(Verified(Rec(r), "observing"), Rec(r))
  BY RecordTyped, WritesOn DEF Outcome, Verifiable
<1>2. /\ Goes(r, Into(r, "review", "none")) /\ Goes(r, Into(r, "renew", "none"))
      /\ Goes(r, Escape(r))
  BY GoesOn DEF Steps, Beyond, Recorded, Handler
<1>3. run[r].pc = "verifyFailed" /\ ~At(r, "done") /\ ~At(r, "recordLocks") /\ ~Waiting(run[r])
  BY DEF VerifyFailed, At, Waiting
<1>. QED
  BY <1>1, <1>2, <1>3, SaveQuiet, ContinueQuiet DEF VerifyFailed

\* _manual_review.
LEMMA ReviewSends == ASSUME Inv, SendInv, NEW r \in Owner, Review(r) PROVE SendInv'
<1>1. Verifiable(Rec(r)) => Writes(Verified(Rec(r), "manual_review_required"), Rec(r))
  BY RecordTyped, WritesOn DEF Outcome, PostIntent, Verifiable
<1>2. Goes(r, To(r, "promote")) /\ Goes(r, Caught(r))
  BY GoesOn DEF Steps, Beyond, Recorded
<1>. QED
  BY <1>1, <1>2, SaveQuiet DEF Review, At

\* A yielded claim; who waits in a recovery only yields or gives up.
LEMMA YieldClaimSends == ASSUME Inv, SendInv, NEW r \in Owner, YieldClaim(r) PROVE SendInv'
<1>1. Writes([Rec(r) EXCEPT !.claim = 0], Rec(r)) /\ Writes(Rec(r), Rec(r))
  BY RecordTyped, WritesOn DEF Writes
<1>2. [Rec(r) EXCEPT !.claim = 0].terminal = Rec(r).terminal
  BY RecordTyped DEF ExecutionRecord
<1>3. Goes(r, NotRunning) /\ Goes(r, Caught(r))
  BY GoesOn
<1>4. Waiting(run[r]) => Caught(r) = NotRunning
  BY DEF Waiting, Caught, Escape
<1>5. NotRunning.pc = "done" /\ ~At(r, "done") /\ ~At(r, "recordLocks")
  BY DEF NotRunning, YieldClaim, At
<1>6. exec = [exec EXCEPT ![TaskOf[r]] = Rec(r)]
  BY OwnerAssumption DEF Inv, ExecutorTyped, Rec
<1> DEFINE x == [Rec(r) EXCEPT !.claim = 0]
<1> HIDE DEF x
<1>7. Save(r, ~Rec(r).terminal, x, NotRunning, Caught(r))
  BY DEF YieldClaim, x
<1>8. Quiet(r, NotRunning, x) \/ Quiet(r, Caught(r), x) \/ Quiet(r, Caught(r), Rec(r))
  BY <1>1, <1>2, <1>3, <1>4, <1>5, <1>6, <1>7 DEF Save, Quiet, storeVars, x
<1>. QED
  BY <1>8, QuietKeeps

-----------------------------------------------------------------------------
(* Claims, the commit, calls of the store, failures and time.              *)

\* Somebody settles or cancels: only a record without an intent is ended.
LEMMA JoinTerminalSends == ASSUME Inv, SendInv, NEW r \in Owner, JoinTerminal(r) PROVE SendInv'
<1>1. Goes(r, To(r, "settle"))
  BY GoesOn DEF Steps, Beyond, Recorded
<1>2. At(r, "done") /\ ~HasClaim(r) /\ ~At(r, "recordLocks") /\ ~Waiting(run[r])
  BY DEF JoinTerminal, Fresh, HasClaim, At, Waiting
<1>. QED
  BY <1>1, <1>2, ContinueQuiet DEF JoinTerminal

\* cancel ends a record without an intent.
LEMMA CancelSends == ASSUME Inv, SendInv, NEW r \in Owner, Cancel(r) PROVE SendInv'
<1> DEFINE x == Ended(Rec(r), "cancelled_pre_dispatch")
<1>1. Goes(r, To(r, "settle"))
  BY GoesOn DEF Steps, Beyond, Recorded
<1>2. ~At(r, "recordLocks") /\ ~Waiting(run[r])
  BY DEF Cancel, At, Waiting
<1>3. Writes(x, Rec(r)) /\ x.terminal
  <2>1. Writes(x, Rec(r))
    BY RecordTyped, WritesOn DEF Outcome, PreDispatch
  <2>2. x.terminal
    BY RecordTyped DEF Ended, ExecutionRecord
  <2>. QED
    BY <2>1, <2>2
<1>4. exec' = [exec EXCEPT ![TaskOf[r]] = x] /\ ~Rec(r).intent
  BY RecordTyped DEF Cancel, Inv, ExecutorTyped, Rec
<1> HIDE DEF x
<1>5. Quiet(r, To(r, "settle"), x)
  BY <1>1, <1>2, <1>3, <1>4 DEF Cancel, Quiet, storeVars
<1>. QED
  BY <1>5, QuietKeeps

\* A run that dies forgets its tokens and has nothing left to keep.
LEMMA CrashSends == ASSUME Inv, SendInv, NEW r \in Owner, Crash(r) PROVE SendInv'
<1>1. /\ run' = [run EXCEPT ![r] = NotRunning] /\ exec' = exec
      /\ records' = records /\ nextGeneration' = nextGeneration
      /\ NotRunning.pc = "done" /\ NotRunning.tokens = {}
  BY DEF Crash, NotRunning
<1>2. run'[r] = NotRunning /\ \A q \in Owner \ {r} : run'[q] = run[q]
  BY <1>1 DEF Inv, ExecutorTyped
<1>3. KnownLocks'
  BY <1>1, <1>2 DEF SendInv, KnownLocks, Knows, Matches
<1>4. \A q \in Owner \ {r} : Live(q)' <=> Live(q)
  BY <1>1, <1>2 DEF Live, Owns, OwnsAll, Matches, Selected
<1>5. \A q \in Owner : Placed(q)' /\ Ready(q)'
  BY <1>1, <1>2, <1>4 DEF SendInv, Placed, Ready, HasClaim, Rec, At, Recorded
<1>6. \A q \in Owner : Aside(q) => Aside(q)'
  BY <1>1, <1>2 DEF Aside, HasClaim, Rec, At
<1>7. \A q \in Owner : Sending(q)'
  BY <1>1, <1>2, <1>4, <1>6 DEF SendInv, Sending, Rec, At
<1>. QED
  BY <1>3, <1>5, <1>7 DEF SendInv

\* An expired claim ends before an intent.
LEMMA RejectExpiredSends == ASSUME Inv, SendInv, NEW t \in Task, RejectExpired(t) PROVE SendInv'
<1> DEFINE x == Ended(exec[t], "failed_pre_dispatch")
<1>1. /\ x.owner = exec[t].owner /\ x.tokens = exec[t].tokens /\ x.intent = exec[t].intent
      /\ x.terminal /\ ~exec[t].intent
  BY DEF RejectExpired, Ended, Inv, ExecutorTyped, ExecutionRecord
<1>2. /\ exec'[t] = x /\ \A u \in Task \ {t} : exec'[u] = exec[u]
      /\ run' = run /\ records' = records /\ nextGeneration' = nextGeneration
  BY DEF RejectExpired, Inv, ExecutorTyped
<1> HIDE DEF x
<1>3. \A u \in Task : /\ exec'[u].owner = exec[u].owner /\ exec'[u].tokens = exec[u].tokens
                      /\ exec'[u].intent = exec[u].intent
                      /\ exec[u].terminal => exec'[u].terminal
  BY <1>1, <1>2
<1>4. KnownLocks'
  BY <1>2, <1>3 DEF SendInv, KnownLocks, Knows, Matches
<1>5. \A q \in Owner : Live(q)' <=> Live(q)
  BY <1>2 DEF Live, Owns, OwnsAll, Matches, Selected
<1>6. \A q \in Owner : TaskOf[q] \in Task
  BY OwnerAssumption
<1>7. \A q \in Owner : Placed(q)' /\ Ready(q)'
  BY <1>2, <1>3, <1>5, <1>6 DEF SendInv, Placed, Ready, HasClaim, Rec, At, Recorded
<1>8. \A q \in Owner : Aside(q) => Aside(q)'
  BY <1>2, <1>3, <1>6 DEF Aside, HasClaim, Rec, At
<1>9. \A q \in Owner : At(q, "send") => exec'[TaskOf[q]] = exec[TaskOf[q]]
  BY <1>1, <1>2, <1>6 DEF Inv, SendIsFirst, Rec
<1>10. \A q \in Owner : Sending(q)'
  BY <1>2, <1>5, <1>8, <1>9 DEF SendInv, Sending, Rec, At
<1>. QED
  BY <1>4, <1>7, <1>10 DEF SendInv

\* A claim: of a record that has an intent only to recover it.
Claims(r, n, x) ==
  /\ At(r, "done") /\ n \in Run /\ x \in ExecutionRecord /\ x.owner = r
  /\ x.tokens \subseteq Rec(r).tokens /\ n.tokens \subseteq Rec(r).tokens \union run[r].tokens
  /\ Rec(r).intent => /\ x.intent /\ x.terminal = Rec(r).terminal /\ x.tokens = Rec(r).tokens
                      /\ n.pc = "recover"
  /\ n.pc = "recover" => Waiting(n) /\ x.intent /\ n.tokens = x.tokens
  /\ n.pc \in {"done", "acquire", "stale", "recover"}
  /\ run' = [run EXCEPT ![r] = n] /\ exec' = [exec EXCEPT ![TaskOf[r]] = x]
  /\ UNCHANGED storeVars

\* A claim does not come between a commit and its call.
LEMMA ClaimsKeep ==
  ASSUME Inv, SendInv, NEW r \in Owner, NEW n, NEW x, Claims(r, n, x)
  PROVE  SendInv'
<1>1. /\ run \in [Owner -> Run] /\ exec \in [Task -> ExecutionRecord]
      /\ TaskOf \in [Owner -> Task]
  BY OwnerAssumption DEF Inv, ExecutorTyped
<1>2. /\ run'[r] = n /\ exec'[TaskOf[r]] = x
      /\ \A q \in Owner \ {r} : run'[q] = run[q]
      /\ \A q \in Owner : TaskOf[q] = TaskOf[r] => Rec(q) = Rec(r) /\ Rec(q)' = x
      /\ \A q \in Owner : TaskOf[q] # TaskOf[r] => Rec(q)' = Rec(q)
      /\ \A t \in Task \ {TaskOf[r]} : exec'[t] = exec[t]
  BY <1>1 DEF Claims, Rec
<1>3. \A q \in Owner \ {r} : HasClaim(q)' => HasClaim(q) /\ TaskOf[q] # TaskOf[r]
  BY <1>2 DEF Claims, HasClaim
<1>4. StoreStep /\ records' = records /\ nextGeneration' = nextGeneration
  BY Untouched DEF Claims, storeVars
<1>5. KnownLocks'
  BY <1>2, <1>4, KnownStays DEF SendInv, Claims, Rec
<1>6. \A q \in Owner \ {r} : Live(q)' <=> Live(q)
  BY <1>2, <1>4 DEF Live, Owns, OwnsAll, Matches, Selected
<1>7. Placed(r)' /\ Ready(r)'
  BY <1>2 DEF Claims, Placed, Ready, At, Recorded
<1>8. \A q \in Owner \ {r} : Placed(q)' /\ Ready(q)'
  <2>1. \A q \in Owner : Rec(q).intent => Rec(q)'.intent
    BY <1>2 DEF Claims
  <2>. QED
    BY <1>2, <1>3, <1>6, <2>1 DEF SendInv, Placed, Ready, At
<1>9. ASSUME PromptRenewal, NEW q \in Owner, At(q, "send")' PROVE Sending(q)'
  <2>1. q # r /\ At(q, "send")
    BY <1>2, <1>9 DEF Claims, At
  <2>2. /\ Rec(q).intent /\ ~Rec(q).terminal /\ Rec(q).tokens = run[q].tokens /\ Live(q)
        /\ \A p \in Owner \ {q} : TaskOf[p] = TaskOf[q] => Aside(p)
    BY <1>9, <2>1 DEF SendInv, Sending, Inv, SendIsFirst
  <2>3. ~Rec(q)'.terminal /\ Rec(q)'.tokens = run'[q].tokens /\ Live(q)'
    BY <1>2, <1>6, <2>1, <2>2 DEF Claims
  <2>4. ASSUME NEW p \in Owner \ {q}, TaskOf[p] = TaskOf[q] PROVE Aside(p)'
    <3>1. CASE p # r
      BY <1>2, <1>3, <2>2, <2>4, <3>1 DEF Aside, At, Claims
    <3>2. CASE p = r
      BY <1>2, <2>2, <2>4, <3>2 DEF Aside, At, Claims
    <3>. QED
      BY <3>1, <3>2
  <2>. QED
    BY <2>3, <2>4 DEF Sending
<1>. QED
  BY <1>5, <1>7, <1>8, <1>9 DEF SendInv, Sending

\* A first claim, and the record of declared work nobody claimed.
LEMMA CreateSends == ASSUME Inv, SendInv, NEW r \in Owner, Create(r) PROVE SendInv'
<1> DEFINE x == [NoRecord EXCEPT !.owner = r, !.claim = ClaimTicks]
<1>1. x \in ExecutionRecord /\ x.owner = r /\ x.tokens = {}
  <2>1. NoRecord.tokens = {}
    BY DEF NoRecord
  <2>2. x \in ExecutionRecord
    BY ClaimTyped
  <2>3. NoRecord \in ExecutionRecord
    BY ClaimTyped
  <2>4. x.owner = r /\ x.tokens = NoRecord.tokens
    BY <2>3 DEF ExecutionRecord
  <2>. QED
    BY <2>1, <2>2, <2>4
<1>2. ~Rec(r).intent /\ At(r, "done")
  BY NothingBeforeTheClaim DEF Create, Fresh
<1>3. /\ To(r, "acquire") \in Run /\ To(r, "acquire").pc = "acquire"
      /\ To(r, "acquire").tokens = run[r].tokens
  BY RecordTyped DEF To, Run, Steps
<1> HIDE DEF x
<1>4. Claims(r, To(r, "acquire"), x)
  BY <1>1, <1>2, <1>3 DEF Create, Claims, storeVars, x
<1>. QED
  BY <1>4, ClaimsKeep

\* Declared work that nobody claimed.
LEMMA MaterializeSends == ASSUME Inv, SendInv, NEW r \in Owner, Materialize(r) PROVE SendInv'
<1> DEFINE x == [NoRecord EXCEPT !.owner = r]
           y == Ended(x, "failed_pre_dispatch")
<1>1. x \in ExecutionRecord /\ x.owner = r /\ x.tokens = {}
  <2>1. NoRecord.tokens = {}
    BY DEF NoRecord
  <2>2. x \in ExecutionRecord
    BY ClaimTyped
  <2>3. NoRecord \in ExecutionRecord
    BY ClaimTyped
  <2>4. x.owner = r /\ x.tokens = NoRecord.tokens
    BY <2>3 DEF ExecutionRecord
  <2>. QED
    BY <2>1, <2>2, <2>4
<1>2. Writes(y, x)
  BY <1>1, WritesOn DEF Outcome, PreDispatch
<1>3. ~Rec(r).intent /\ At(r, "done")
  BY NothingBeforeTheClaim DEF Materialize, Fresh
<1>4. run[r] \in Run /\ run[r].pc = "done" /\ run' = [run EXCEPT ![r] = run[r]]
  BY <1>3, RecordTyped DEF Materialize, At, Inv, ExecutorTyped
<1>5. exec' = [exec EXCEPT ![TaskOf[r]] = y] /\ UNCHANGED storeVars
  BY DEF Materialize, storeVars
<1> HIDE DEF x, y
<1>6. Claims(r, run[r], y)
  BY <1>1, <1>2, <1>3, <1>4, <1>5 DEF Claims, Writes
<1>. QED
  BY <1>6, ClaimsKeep

\* A claim taken over recovers an intent, with the tokens of the record.
LEMMA TakeOverSends == ASSUME Inv, SendInv, NEW r \in Owner, TakeOver(r) PROVE SendInv'
<1> DEFINE outcome == IF Rec(r).intent THEN Rec(r).outcome ELSE "none"
           x == [Rec(r) EXCEPT !.owner = r, !.claim = ClaimTicks, !.outcome = outcome]
           recover == [NotRunning EXCEPT !.pc = "recover", !.part = "recovering",
                                         !.tokens = Rec(r).tokens]
           n == IF Rec(r).intent THEN recover ELSE To(r, "stale")
<1>1. Rec(r) \in ExecutionRecord /\ run[r] \in Run /\ At(r, "done")
  BY RecordTyped DEF TakeOver, Fresh
<1>2. /\ recover \in Run /\ recover.pc = "recover" /\ Waiting(recover)
      /\ recover.tokens = Rec(r).tokens
  BY <1>1 DEF NotRunning, Run, Steps, ExecutionRecord, Waiting
<1>3. To(r, "stale") \in Run /\ To(r, "stale").pc = "stale" /\ To(r, "stale").tokens = run[r].tokens
  BY <1>1 DEF To, Run, Steps
<1>4. /\ x \in ExecutionRecord /\ x.owner = r /\ x.tokens = Rec(r).tokens
      /\ x.intent = Rec(r).intent /\ x.terminal = Rec(r).terminal
  <2>1. ClaimTicks \in 0..ClaimTicks /\ outcome \in Outcome
    BY <1>1, ExecutorAssumption DEF ExecutionRecord, Outcome
  <2> HIDE DEF outcome
  <2>. QED
    BY <1>1, <2>1 DEF ExecutionRecord
<1>5. exec' = [exec EXCEPT ![TaskOf[r]] = x]
  BY <1>1, RecordTyped DEF TakeOver, Inv, ExecutorTyped, ExecutionRecord, Rec
<1>6. run' = [run EXCEPT ![r] = n] /\ UNCHANGED storeVars
  BY DEF TakeOver, storeVars
<1> HIDE DEF x, recover
<1>7. Claims(r, n, x)
  BY <1>1, <1>2, <1>3, <1>4, <1>5, <1>6 DEF Claims
<1> HIDE DEF n
<1>. QED
  BY <1>7, ClaimsKeep

\* The intent is committed under live locks, by the owner of the record: nobody
\* else has anything to do with the task.
LEMMA CommitSends == ASSUME Inv, SendInv, NEW r \in Owner, Commit(r) PROVE SendInv'
<1> DEFINE x == [Rec(r) EXCEPT !.intent = TRUE, !.deadline = EvidenceTicks]
           valid == ~Rec(r).terminal /\ ~Rec(r).intent /\ Rec(r).preflight /\ Rec(r).tokens # {}
<1>1. /\ run \in [Owner -> Run] /\ exec \in [Task -> ExecutionRecord]
      /\ TaskOf \in [Owner -> Task] /\ Rec(r) \in ExecutionRecord /\ run[r] \in Run
  BY OwnerAssumption, RecordTyped DEF Inv, ExecutorTyped
<1>2. /\ x \in ExecutionRecord /\ x.intent /\ x.owner = Rec(r).owner
      /\ x.tokens = Rec(r).tokens /\ x.terminal = Rec(r).terminal
  <2>1. EvidenceTicks \in 0..EvidenceTicks
    BY ExecutorAssumption
  <2>. QED
    BY <1>1, <2>1 DEF ExecutionRecord
<1>3. Goes(r, To(r, "failed"))
  BY GoesOn DEF Steps, Beyond, Recorded
<1>4. /\ To(r, "send").pc = "send" /\ To(r, "send").tokens = run[r].tokens
      /\ To(r, "send").part = run[r].part
  BY <1>1 DEF To, Run
<1>5. run[r].pc = "commit" /\ ~At(r, "done") /\ ~At(r, "recordLocks") /\ ~Waiting(run[r])
  BY DEF Commit, At, Waiting
<1>6. Save(r, valid, x, To(r, "send"), To(r, "failed"))
  BY DEF Commit
<1> HIDE DEF x
<1>7. CASE run' = [run EXCEPT ![r] = To(r, "failed")]
  <2>1. Writes(x, Rec(r)) /\ Writes(Rec(r), Rec(r)) /\ exec = [exec EXCEPT ![TaskOf[r]] = Rec(r)]
    BY <1>1, <1>2 DEF Writes, Rec
  <2>2. Quiet(r, To(r, "failed"), x) \/ Quiet(r, To(r, "failed"), Rec(r))
    BY <1>3, <1>5, <1>6, <1>7, <2>1 DEF Save, Quiet, storeVars
  <2>. QED
    BY <2>2, QuietKeeps
<1>8. CASE /\ HasClaim(r) /\ valid
           /\ run' = [run EXCEPT ![r] = To(r, "send")]
           /\ exec' = [exec EXCEPT ![TaskOf[r]] = x]
  <2>1. /\ PromptRenewal => Live(r)
        /\ Rec(r).tokens = run[r].tokens /\ run[r].part = "dispatching"
    BY <1>5, <1>8 DEF SendInv, Ready, Placed, Recorded
  <2>2. ASSUME NEW q \in Owner \ {r}, TaskOf[q] = TaskOf[r]
        PROVE  ~At(q, "send") /\ ~At(q, "recover") /\ ~HasClaim(q)
    <3>1. Rec(q) = Rec(r)
      BY <2>2 DEF Rec
    <3>. QED
      BY <1>8, <3>1 DEF SendInv, Placed, Inv, SendIsFirst, HasClaim
  <2>3. /\ run'[r] = To(r, "send") /\ exec'[TaskOf[r]] = x
        /\ \A q \in Owner \ {r} : run'[q] = run[q]
        /\ \A q \in Owner : TaskOf[q] = TaskOf[r] => Rec(q) = Rec(r) /\ Rec(q)' = x
        /\ \A q \in Owner : TaskOf[q] # TaskOf[r] => Rec(q)' = Rec(q)
        /\ \A t \in Task \ {TaskOf[r]} : exec'[t] = exec[t]
    BY <1>1, <1>8 DEF Rec
  <2>4. \A q \in Owner : HasClaim(q)' <=> HasClaim(q)
    BY <1>2, <2>3 DEF HasClaim
  <2>5. records' = records /\ nextGeneration' = nextGeneration
    BY <1>6 DEF Save
  <2>6. KnownLocks'
    BY <1>2, <1>4, <2>3, <2>5 DEF SendInv, KnownLocks, Knows, Matches, Rec
  <2>7. \A q \in Owner : Live(q)' <=> Live(q)
    BY <1>4, <2>3, <2>5 DEF Live, Owns, OwnsAll, Matches, Selected
  <2>8. \A q \in Owner : Placed(q)' /\ Ready(q)'
    <3>1. Placed(r)' /\ Ready(r)'
      BY <1>4, <2>1, <2>3 DEF Placed, Ready, At, Recorded
    <3>2. \A q \in Owner \ {r} : Rec(q).intent => Rec(q)'.intent
      BY <1>2, <2>3
    <3>3. \A q \in Owner \ {r} : HasClaim(q) => Rec(q)' = Rec(q)
      BY <2>2, <2>3
    <3>4. \A q \in Owner \ {r} : Placed(q)' /\ Ready(q)'
      BY <2>3, <2>4, <2>7, <3>2, <3>3 DEF SendInv, Placed, Ready, At
    <3>. QED
      BY <3>1, <3>4
  <2>9. Sending(r)'
    <3>1. /\ ~Rec(r)'.terminal /\ Rec(r)'.tokens = run'[r].tokens
          /\ PromptRenewal => Live(r)'
      BY <1>2, <1>4, <1>8, <2>1, <2>3, <2>7
    <3>2. \A q \in Owner \ {r} : TaskOf[q] = TaskOf[r] => Aside(q)'
      BY <2>2, <2>3, <2>4 DEF Aside, At
    <3>. QED
      BY <3>1, <3>2 DEF Sending
  <2>10. ASSUME NEW q \in Owner \ {r} PROVE Sending(q)'
    <3>1. CASE TaskOf[q] = TaskOf[r]
      BY <2>2, <2>3, <3>1 DEF Sending, At
    <3>2. CASE TaskOf[q] # TaskOf[r]
      BY <2>3, <2>4, <2>7, <3>2 DEF SendInv, Sending, Aside, At
    <3>. QED
      BY <3>1, <3>2
  <2>. QED
    BY <2>6, <2>8, <2>9, <2>10 DEF SendInv
<1>. QED
  BY <1>6, <1>7, <1>8 DEF Save

\* A call of the store: run r goes on as n.
Calls(r, n) ==
  /\ n \in Run /\ n.pc \notin Beyond
  /\ n.tokens \subseteq run[r].tokens \union {TokenOf(x) : x \in HeldBy(r)'}
  /\ ~At(r, "done") /\ ~At(r, "yield")
  /\ PromptRenewal /\ At(r, "recover") =>
       \A q \in Owner \ {r} : TaskOf[q] = TaskOf[r] => ~At(q, "send")
  /\ run' = [run EXCEPT ![r] = n] /\ exec' = exec
  /\ StoreStep /\ \A x \in records : Touches(r, x)

\* No call takes the locks of another run that is about to call the provider.
LEMMA CallsKeep ==
  ASSUME Inv, SendInv, NEW r \in Owner, NEW n, Calls(r, n)
  PROVE  SendInv'
<1>1. /\ run'[r] = n /\ \A q \in Owner \ {r} : run'[q] = run[q]
      /\ \A q \in Owner : Rec(q)' = Rec(q) /\ (HasClaim(q)' <=> HasClaim(q))
  BY DEF Calls, Inv, ExecutorTyped, Rec, HasClaim
<1>2. StoreInv /\ StoreInv' /\ StoreStep
  BY DEF Calls, Inv, StoreStep
<1>3. KnownLocks'
  <2>1. \A k \in {TokenOf(x) : x \in HeldBy(r)'} : Knows(TaskOf[r], k)'
    BY <1>2, KnowsHeld
  <2>2. \A q \in Owner : \A k \in run'[q].tokens :
          k \in run[q].tokens \/ Knows(TaskOf[q], k)'
    BY <1>1, <2>1 DEF Calls
  <2>3. exec' = exec
    BY DEF Calls
  <2>. QED
    BY <1>2, <2>2, <2>3, KnownStays DEF SendInv
<1>4. ASSUME NEW q \in Owner \ {r}, Live(q), TaskOf[q] = TaskOf[r] => ~Rec(q).terminal
      PROVE  Live(q)'
  <2>1. \A x \in records : x.owner = q /\ Usable(x) => KeptUsable(x)
    BY <1>4 DEF Calls, Touches, SameTask, Settles, Rec
  <2>. QED
    BY <1>1, <1>2, <1>4, <2>1, LiveStays
<1>5. \A q \in Owner : Placed(q)'
  BY <1>1 DEF SendInv, Calls, Beyond, Recorded, Placed, At
<1>6. \A q \in Owner : Ready(q)'
  BY <1>1, <1>4 DEF SendInv, Calls, Beyond, Recorded, Ready
<1>7. \A q \in Owner : Sending(q)'
  <2>1. ~At(r, "send")'
    BY <1>1 DEF Calls, Beyond, At
  <2>2. ASSUME PromptRenewal, NEW q \in Owner \ {r}, At(q, "send")
        PROVE  /\ ~Rec(q).terminal /\ Rec(q).tokens = run[q].tokens /\ Live(q)'
               /\ \A p \in Owner \ {q} : TaskOf[p] = TaskOf[q] => Aside(p)
    BY <1>4, <2>2 DEF SendInv, Sending
  <2>3. ASSUME PromptRenewal, NEW q \in Owner \ {r}, At(q, "send"),
               NEW p \in Owner \ {q}, TaskOf[p] = TaskOf[q]
        PROVE  Aside(p)'
    <3>1. CASE p # r
      BY <1>1, <2>2, <2>3, <3>1 DEF Aside, At
    <3>2. CASE p = r
      BY <1>1, <2>2, <2>3, <3>2 DEF Aside, At, Calls, Waiting, Beyond
    <3>. QED
      BY <3>1, <3>2
  <2>. QED
    BY <1>1, <2>1, <2>2, <2>3 DEF Sending, At
<1>. QED
  BY <1>3, <1>5, <1>6, <1>7 DEF SendInv

\* Where a call of the store takes a run.
LEMMA CallGoes ==
  ASSUME Inv, NEW r \in Owner, NEW operation, NEW refused, NEW ok, NEW err,
         Call(r, operation, refused, ok, err), Goes(r, ok), Goes(r, err),
         ok.pc \notin Recorded, err.pc \notin Recorded,
         run[r].pc \notin {"done", "recover", "yield"},
         StoreStep /\ \A x \in records : Touches(r, x)
  PROVE  Calls(r, ok) \/ Calls(r, err)
BY DEF Call, Goes, Calls, Beyond, At

\* The calls that give up, keep or renew what the run has.
LEMMA ReleaseStaleSends == ASSUME Inv, SendInv, NEW r \in Owner, ReleaseStale(r) PROVE SendInv'
<1>1. Goes(r, To(r, "acquire")) /\ Goes(r, To(r, "failLocks"))
  BY GoesOn DEF Steps, Beyond, Recorded
<1>2. To(r, "acquire").pc = "acquire" /\ To(r, "failLocks").pc = "failLocks"
  BY RecordTyped DEF To, Run
<1>3. StoreStep /\ \A x \in records : Touches(r, x)
  BY ReleaseStaleTouches
<1>4. /\ run[r].pc \notin {"done", "recover", "yield"}
      /\ {"acquire", "failLocks"} \intersect Recorded = {}
  BY DEF ReleaseStale, At, Recorded
<1>5. \E operation : Call(r, operation, FALSE, To(r, "acquire"), To(r, "failLocks"))
  BY DEF ReleaseStale
<1>6. Calls(r, To(r, "acquire")) \/ Calls(r, To(r, "failLocks"))
  BY <1>1, <1>2, <1>3, <1>4, <1>5, CallGoes
<1>. QED
  BY <1>6, CallsKeep

\* The cleanup of a failed acquisition.
LEMMA CleanupSends == ASSUME Inv, SendInv, NEW r \in Owner, Cleanup(r) PROVE SendInv'
<1>1. Goes(r, NotRunning)
  BY GoesOn DEF Steps, Beyond, Recorded
<1>2. NotRunning.pc \notin Recorded
  BY RecordTyped DEF To, Into, NotRunning, Run, Recorded
<1>3. StoreStep /\ \A x \in records : Touches(r, x)
  BY CleanupTouches
<1>4. run[r].pc \notin {"done", "recover", "yield"}
  BY DEF Cleanup, At
<1>5. \E operation, refused : Call(r, operation, refused, NotRunning, NotRunning)
  BY DEF Cleanup
<1>6. Calls(r, NotRunning) \/ Calls(r, NotRunning)
  BY <1>1, <1>2, <1>3, <1>4, <1>5, CallGoes
<1>. QED
  BY <1>6, CallsKeep

\* The promotion of a review verdict.
LEMMA HoldSends == ASSUME Inv, SendInv, NEW r \in Owner, Hold(r) PROVE SendInv'
<1>1. Goes(r, NotRunning) /\ Goes(r, Into(r, "verifyFailed", "none"))
  BY GoesOn DEF Steps, Beyond, Recorded, Handler
<1>2. NotRunning.pc \notin Recorded /\ Into(r, "verifyFailed", "none").pc \notin Recorded
  BY RecordTyped DEF To, Into, NotRunning, Run, Recorded
<1>3. StoreStep /\ \A x \in records : Touches(r, x)
  BY HoldTouches
<1>4. run[r].pc \notin {"done", "recover", "yield"}
  BY DEF Hold, At
<1>5. \E operation : Call(r, operation, ~Owns(r), NotRunning, Into(r, "verifyFailed", "none"))
  BY DEF Hold
<1>6. Calls(r, NotRunning) \/ Calls(r, Into(r, "verifyFailed", "none"))
  BY <1>1, <1>2, <1>3, <1>4, <1>5, CallGoes
<1>. QED
  BY <1>6, CallsKeep

\* The promotion after a manual review.
LEMMA HoldAfterReviewSends ==
  ASSUME Inv, SendInv, NEW r \in Owner, HoldAfterReview(r) PROVE SendInv'
<1>1. Goes(r, NotRunning)
  BY GoesOn DEF Steps, Beyond, Recorded
<1>2. NotRunning.pc \notin Recorded
  BY RecordTyped DEF To, Into, NotRunning, Run, Recorded
<1>3. StoreStep /\ \A x \in records : Touches(r, x)
  BY HoldAfterReviewTouches
<1>4. run[r].pc \notin {"done", "recover", "yield"}
  BY DEF HoldAfterReview, At
<1>5. \E operation : Call(r, operation, ~Owns(r), NotRunning, NotRunning)
  BY DEF HoldAfterReview
<1>6. Calls(r, NotRunning) \/ Calls(r, NotRunning)
  BY <1>1, <1>2, <1>3, <1>4, <1>5, CallGoes
<1>. QED
  BY <1>6, CallsKeep

\* The renewal before a claim is yielded.
LEMMA RenewLocksSends == ASSUME Inv, SendInv, NEW r \in Owner, RenewLocks(r) PROVE SendInv'
<1>1. Goes(r, To(r, "yield")) /\ Goes(r, To(r, "review"))
  BY GoesOn DEF Steps, Beyond, Recorded
<1>2. To(r, "yield").pc \notin Recorded /\ To(r, "review").pc \notin Recorded
  BY RecordTyped DEF To, Into, NotRunning, Run, Recorded
<1>3. StoreStep /\ \A x \in records : Touches(r, x)
  BY RenewLocksTouches
<1>4. run[r].pc \notin {"done", "recover", "yield"}
  BY DEF RenewLocks, At
<1>5. \E operation : Call(r, operation, ~Live(r), To(r, "yield"), To(r, "review"))
  BY DEF RenewLocks
<1>6. Calls(r, To(r, "yield")) \/ Calls(r, To(r, "review"))
  BY <1>1, <1>2, <1>3, <1>4, <1>5, CallGoes
<1>. QED
  BY <1>6, CallsKeep

\* _release_safely.
LEMMA ReleaseLocksSends == ASSUME Inv, SendInv, NEW r \in Owner, ReleaseLocks(r) PROVE SendInv'
<1> DEFINE err == IF run[r].catch = "preflightFailed"
                    THEN Into(r, "preflightFailed", "none") ELSE NotRunning
<1>1. Goes(r, NotRunning) /\ Goes(r, Into(r, "preflightFailed", "none"))
  BY GoesOn DEF Steps, Beyond, Recorded, Handler
<1>2. NotRunning.pc \notin Recorded /\ Into(r, "preflightFailed", "none").pc \notin Recorded
  BY RecordTyped DEF Into, NotRunning, Run, Recorded
<1>3. StoreStep /\ \A x \in records : Touches(r, x)
  BY ReleaseLocksTouches
<1>4. run[r].pc \notin {"done", "recover", "yield"}
  BY DEF ReleaseLocks, At
<1>5. \E operation : Call(r, operation, ~Owns(r), NotRunning, err)
  BY DEF ReleaseLocks
<1>6. Goes(r, err) /\ err.pc \notin Recorded
  BY <1>1, <1>2
<1> HIDE DEF err
<1>7. Calls(r, NotRunning) \/ Calls(r, err)
  BY <1>1, <1>2, <1>3, <1>4, <1>5, <1>6, CallGoes
<1>. QED
  BY <1>7, CallsKeep

\* _settle_terminal_locks.
LEMMA SettleSends == ASSUME Inv, SendInv, NEW r \in Owner, Settle(r) PROVE SendInv'
<1>1. Goes(r, NotRunning)
  BY GoesOn
<1>2. NotRunning.pc \notin Recorded
  BY DEF NotRunning, Recorded
<1>3. StoreStep /\ \A x \in records : Touches(r, x)
  BY SettleTouches DEF SendInv
<1>4. /\ run[r].pc \notin {"done", "recover", "yield"}
      /\ ~At(r, "done") /\ ~At(r, "recordLocks") /\ ~Waiting(run[r])
  BY DEF Settle, At, Waiting
<1>5. CASE Continue(r, NotRunning)
  BY <1>1, <1>4, <1>5, ContinueQuiet
<1>6. CASE ~Continue(r, NotRunning)
  <2>1. \E operation : Call(r, operation, FALSE, NotRunning, NotRunning)
    BY <1>6 DEF Settle
  <2>2. Calls(r, NotRunning)
    BY <1>1, <1>2, <1>3, <1>4, <2>1, CallGoes
  <2>. QED
    BY <2>2, CallsKeep
<1>. QED
  BY <1>5, <1>6

\* The calls that give a run the tokens of what it now holds.
LEMMA AcquireLocksSends == ASSUME Inv, SendInv, NEW r \in Owner, AcquireLocks(r) PROVE SendInv'
<1> DEFINE tokens == {TokenOf(x) : x \in HeldBy(r)'}
           n == [run[r] EXCEPT !.pc = "recordLocks", !.tokens = tokens]
<1>1. Goes(r, NotRunning) /\ Goes(r, To(r, "conflict")) /\ Goes(r, To(r, "failLocks"))
  BY GoesOn DEF Steps, Beyond, Recorded
<1>2. run[r].pc = "acquire" /\ ~At(r, "done") /\ ~At(r, "recordLocks") /\ ~Waiting(run[r])
  BY DEF AcquireLocks, At, Waiting
<1>3. CASE Continue(r, NotRunning) \/ Continue(r, To(r, "conflict"))
  BY <1>1, <1>2, <1>3, ContinueQuiet
<1>4. CASE Call(r, AcquireOnce(r, Requests[TaskOf[r]]), FALSE, n, To(r, "failLocks"))
  <2>1. StoreStep /\ \A x \in records : Touches(r, x)
    BY AcquireLocksTouches
  <2>2. n \in Run /\ n.pc = "recordLocks" /\ n.tokens = tokens
    <3>1. tokens \in SUBSET LockToken
      BY <2>1 DEF StoreStep, StoreInv, StoreTyped, HeldBy, TokenOf, LockRecord, LockToken
    <3> HIDE DEF tokens
    <3>. QED
      BY <3>1, RecordTyped DEF Run, Steps
  <2>3. To(r, "failLocks").pc = "failLocks"
    BY RecordTyped DEF To, Run
  <2>4. run' = [run EXCEPT ![r] = n] \/ run' = [run EXCEPT ![r] = To(r, "failLocks")]
    BY <1>4 DEF Call
  <2>5. exec' = exec
    BY <1>4 DEF Call
  <2> HIDE DEF n
  <2>6. Calls(r, n) \/ Calls(r, To(r, "failLocks"))
    BY <1>1, <1>2, <2>1, <2>2, <2>3, <2>4, <2>5 DEF Calls, Goes, At, Beyond, Recorded
  <2>. QED
    BY <2>6, CallsKeep
<1>. QED
  BY <1>3, <1>4 DEF AcquireLocks

\* Whoever recovers while another run of the task calls the provider finds its
\* locks live, and waits.
LEMMA RecoverHandleSends == ASSUME Inv, SendInv, NEW r \in Owner, RecoverHandle(r) PROVE SendInv'
<1> DEFINE tokens == {TokenOf(x) : x \in HeldBy(r)'}
           n == [run[r] EXCEPT !.pc = "replace", !.tokens = tokens]
           mine == Selected(run[r].tokens)
<1>1. Goes(r, NotRunning) /\ Goes(r, To(r, "yield"))
  BY GoesOn DEF Steps, Beyond, Recorded
<1>2. run[r].pc = "recover" /\ ~At(r, "done") /\ ~At(r, "recordLocks")
  BY DEF RecoverHandle, At
<1>3. Waiting(run[r]) => Waiting(To(r, "yield"))
  BY RecordTyped DEF Waiting, To, Run
<1>4. CASE Continue(r, To(r, "yield"))
  BY <1>1, <1>2, <1>3, <1>4, ContinueQuiet
<1>5. CASE ~Continue(r, To(r, "yield"))
  <2>1. /\ ~ \A x \in mine : x.lease > 0
        /\ Call(r, RecoverExpired({}, {}, mine, r), \E x \in mine : x.lease > 0, n, NotRunning)
    BY <1>5 DEF RecoverHandle
  <2>2. ASSUME PromptRenewal, NEW q \in Owner \ {r}, TaskOf[q] = TaskOf[r]
        PROVE  ~At(q, "send")
    <3> SUFFICES ASSUME At(q, "send") PROVE FALSE
      OBVIOUS
    <3>1. Live(q) /\ Rec(q).tokens = run[q].tokens /\ Aside(r)
      BY <2>2 DEF SendInv, Sending
    <3>2. run[r].tokens = run[q].tokens
      BY <1>2, <2>2, <3>1 DEF Aside, At, Rec
    <3>. QED
      BY <2>1, <3>1, <3>2 DEF Live
  <2>3. StoreStep /\ \A x \in records : Touches(r, x)
    BY RecoverHandleTouches DEF SendInv
  <2>4. n \in Run /\ n.pc = "replace" /\ n.tokens = tokens
    <3>1. tokens \in SUBSET LockToken
      BY <2>3 DEF StoreStep, StoreInv, StoreTyped, HeldBy, TokenOf, LockRecord, LockToken
    <3> HIDE DEF tokens
    <3>. QED
      BY <3>1, RecordTyped DEF Run, Steps
  <2>5. run' = [run EXCEPT ![r] = n] \/ run' = [run EXCEPT ![r] = NotRunning]
    BY <2>1 DEF Call
  <2>6. exec' = exec
    BY <2>1 DEF Call
  <2>7. NotRunning.pc = "done"
    BY DEF NotRunning
  <2> HIDE DEF n
  <2>8. Calls(r, n) \/ Calls(r, NotRunning)
    BY <1>1, <1>2, <2>2, <2>3, <2>4, <2>5, <2>6, <2>7 DEF Calls, Goes, At, Beyond, Recorded
  <2>. QED
    BY <2>8, CallsKeep
<1>. QED
  BY <1>4, <1>5

\* A step that leaves runs and records alone and keeps live locks live.
LEMMA RestSends ==
  ASSUME Inv, SendInv, StoreStep, run' = run,
         \A t \in Task : /\ exec'[t].owner = exec[t].owner /\ exec'[t].tokens = exec[t].tokens
                         /\ exec'[t].intent = exec[t].intent
                         /\ exec'[t].terminal = exec[t].terminal,
         PromptRenewal => \A q \in Owner : Live(q) /\ Renewing(q) => Live(q)'
  PROVE  SendInv'
<1>1. \A q \in Owner : /\ TaskOf[q] \in Task
                       /\ Rec(q)'.tokens = Rec(q).tokens /\ Rec(q)'.intent = Rec(q).intent
                       /\ Rec(q)'.terminal = Rec(q).terminal
                       /\ (HasClaim(q)' <=> HasClaim(q))
  BY OwnerAssumption DEF Rec, HasClaim
<1>2. KnownLocks'
  BY KnownStays DEF SendInv
<1>3. \A q \in Owner : Placed(q)'
  BY <1>1 DEF SendInv, Placed, At
<1>4. \A q \in Owner : run[q].pc \in {"approve", "commit", "send"} => Renewing(q)
  BY DEF SendInv, Placed, Renewing
<1>5. \A q \in Owner : Ready(q)'
  BY <1>1, <1>4 DEF SendInv, Ready
<1>6. \A q \in Owner : Aside(q) => Aside(q)'
  BY <1>1 DEF Aside, At
<1>7. \A q \in Owner : Sending(q)'
  BY <1>1, <1>4, <1>6 DEF SendInv, Sending, At
<1>. QED
  BY <1>2, <1>3, <1>5, <1>7 DEF SendInv

\* The renewer renews; a lease under a prompt renewer does not run out.
LEMMA RenewerSends == ASSUME Inv, SendInv, NEW r \in Owner, Renewer(r) PROVE SendInv'
<1>1. StoreStep /\ \A x \in records : KeptUsable(x)
  BY RenewerTouches
<1>2. run' = run /\ exec' = exec
  BY DEF Renewer, execVars
<1>3. \A q \in Owner : Live(q) => Live(q)'
  BY <1>1, <1>2, LiveStays DEF Inv, StoreStep
<1>. QED
  BY <1>1, <1>2, <1>3, RestSends

\* A step that changes nothing.
LEMMA StutterSends == ASSUME Inv, SendInv, UNCHANGED vars PROVE SendInv'
<1>1. StoreStep /\ \A x \in records : KeptUsable(x)
  BY Untouched DEF vars, storeVars
<1>2. run' = run /\ exec' = exec
  BY DEF vars
<1>3. \A q \in Owner : Live(q) => Live(q)'
  BY <1>1, <1>2, LiveStays DEF Inv, StoreStep
<1>. QED
  BY <1>1, <1>2, <1>3, RestSends

\* Time goes on, but not past the lease of a run in its dispatch block.
LEMMA TickSends == ASSUME Inv, SendInv, Tick PROVE SendInv'
<1>1. StoreStep /\ run' = run
  BY PassLeasesKeeps DEF Tick, Inv
<1>2. ASSUME NEW t \in Task
      PROVE  /\ exec'[t].owner = exec[t].owner /\ exec'[t].tokens = exec[t].tokens
             /\ exec'[t].intent = exec[t].intent /\ exec'[t].terminal = exec[t].terminal
  <2>1. /\ exec[t] \in ExecutionRecord
        /\ exec'[t] = [exec[t] EXCEPT !.claim = Decreased(@), !.deadline = Decreased(@)]
    BY DEF Tick, Inv, ExecutorTyped
  <2>. QED
    BY <2>1 DEF ExecutionRecord
<1>3. ASSUME PromptRenewal, NEW q \in Owner, Live(q), Renewing(q) PROVE Live(q)'
  <2>1. \A k \in run[q].tokens : \E x \in records :
          x.key = k.key /\ x.generation = k.generation /\ x.owner = q /\ Usable(x) /\ x.lease > 1
    <3>1. \A k \in run[q].tokens : \E x \in records :
            x.key = k.key /\ x.generation = k.generation /\ x.owner = q /\ Usable(x)
      BY <1>3, LiveRecords DEF Inv
    <3>2. \A x \in Selected(run[q].tokens) : x.lease > 1
      BY <1>3 DEF Tick
    <3>. QED
      BY <3>1, <3>2 DEF Selected, Matches
  <2>2. ASSUME NEW x \in records, Usable(x), x.lease > 1
        PROVE  Aged(x) \in records' /\ AmendmentOf(Aged(x), x) /\ Usable(Aged(x))
    <3>1. x \in LockRecord
      BY DEF Inv, StoreInv, StoreTyped
    <3>2. Aged(x) \in records' /\ AmendmentOf(Aged(x), x)
      BY <3>1, Amendments DEF Tick, PassLeases
    <3>3. Aged(x).hold = x.hold /\ Aged(x).lease = x.lease - 1
      BY <2>2, <3>1 DEF Aged, LockRecord
    <3>. QED
      BY <2>2, <3>1, <3>2, <3>3, BoundAssumption DEF Usable, LockRecord
  <2>3. \A k \in run'[q].tokens : \E y \in records' :
          y.key = k.key /\ y.generation = k.generation /\ y.owner = q /\ Usable(y)
    BY <1>1, <2>1, <2>2 DEF AmendmentOf
  <2>. QED
    BY <1>1, <2>3, LiveNow DEF StoreStep
<1>. QED
  BY <1>1, <1>2, <1>3, RestSends

\* No step of a run takes the locks of another that is about to call.
LEMMA RunStepSends == ASSUME Inv, SendInv, NEW r \in Owner, RunStep(r) PROVE SendInv'
<1>1. CASE BeforeIntent(r)
  BY <1>1, ReleaseStaleSends, AcquireLocksSends, ConflictSends, RecordLocksSends,
     FailLocksSends, CleanupSends, PreflightSends, RecordPreflightSends, NoopSends,
     RejectSends, PreflightFailedSends, AuthoritySends, RefusedSends DEF BeforeIntent
<1>2. CASE AtBoundary(r)
  BY <1>2, DispatchSends, ApproveSends, CommitSends, SendSends, ConfirmedSends,
     SentSends, FailedSends DEF AtBoundary
<1>3. CASE AfterIntent(r)
  BY <1>3, ObserveSends, ObservingSends, ObserveFailedSends, VerifySends,
     VerifyFailedSends, HoldSends, ReviewSends, HoldAfterReviewSends, RenewLocksSends,
     YieldClaimSends, RecoverHandleSends, ReplaceLocksSends, ReleaseLocksSends,
     SettleSends DEF AfterIntent
<1>. QED
  BY <1>1, <1>2, <1>3 DEF RunStep

\* Neither does anything else.
LEMMA SendInvStep == ASSUME Inv, SendInv, [Next]_vars PROVE SendInv'
<1>1. ASSUME NEW r \in Owner, Execute(r) PROVE SendInv'
  BY <1>1, CreateSends, JoinTerminalSends, TakeOverSends DEF Execute
<1>2. ASSUME NEW r \in Owner, Renewer(r) \/ Cancel(r) \/ Materialize(r) \/ Crash(r)
      PROVE  SendInv'
  BY <1>2, RenewerSends, CancelSends, MaterializeSends, CrashSends
<1>. QED
  BY <1>1, <1>2, RunStepSends, RejectExpiredSends, TickSends, StutterSends DEF Next

\* At the start nobody knows a lock.
LEMMA SendInvInit == Init => SendInv
<1> SUFFICES ASSUME Init PROVE SendInv
  OBVIOUS
<1>1. \A r \in Owner : run[r].pc = "done" /\ run[r].tokens = {}
  BY DEF Init, NotRunning
<1>2. \A t \in Task : exec[t].tokens = {}
  BY DEF Init, NoRecord
<1>. QED
  BY <1>1, <1>2 DEF SendInv, KnownLocks, Placed, Ready, Sending, At, Recorded

\* The provider is called under live locks of the calling run, for any number of
\* runs, stalls elsewhere, deaths and storage faults, if the lease renewer of the
\* dispatch block is never overtaken.
THEOREM SentUnderLock == PromptRenewal => (Spec => []SendUnderLock)
<1> SUFFICES ASSUME PromptRenewal PROVE Spec => []SendUnderLock
  OBVIOUS
<1>1. Init => Inv /\ SendInv
  BY InitInv, SendInvInit
<1>2. Inv /\ SendInv /\ [Next]_vars => (Inv /\ SendInv)'
  BY InvStep, SendInvStep
<1>3. Inv /\ SendInv => SendUnderLock
  BY DEF SendInv, Sending, SendUnderLock
<1>. QED
  BY <1>1, <1>2, <1>3, PTL DEF Spec

-----------------------------------------------------------------------------
(* Without storage faults an unresolved effect keeps its keys.             *)

\* No storage fault, and no timer overtakes a run between its claim and the
\* transaction with which it releases or recovers the locks of its task.
Timely == MaxFaults = 0 /\ {"stale", "recover"} \subseteq PromptAt

\* Where a run is before its intent, where it has the locks it will commit under,
\* where it is after the intent until it has its verdict and its hold, where it
\* still has its locks there, and where it may go on to release them, whoever has
\* the claim.
Undispatched ==
  {"stale", "acquire", "conflict", "recordLocks", "failLocks", "cleanup", "preflight",
   "recordPreflight", "noop", "reject", "preflightFailed", "authority", "refused",
   "dispatch", "approve", "commit"}
Preparing == Recorded \union {"recordLocks"}
Judging ==
  {"send", "sent", "confirmed", "failed", "observe", "observing", "observeFailed", "verify",
   "verifyFailed", "hold", "review", "promote", "renew", "yield", "recover", "replace"}
Engaged == Judging \ {"recover", "yield"}
Withdrawing ==
  {"preflight", "recordPreflight", "noop", "reject", "preflightFailed", "release", "cleanup"}

\* The mode a task asks for on a key.
Wanted(t, k) == NormalizeLockRequests(Requests[t])[k]
Covers(r) ==
  \A k \in HoldKeys[TaskOf[r]] : \E x \in records :
    x.key = k /\ x.owner = r /\ x.mode = Wanted(TaskOf[r], k)

\* The owner of the record is where its intent says, and a rejected preflight has
\* none.
Sure(r) ==
  /\ HasClaim(r) /\ run[r].pc \in Undispatched => ~Rec(r).intent
  /\ run[r].catch = "preflightFailed" => At(r, "release") /\ (HasClaim(r) => ~Rec(r).intent)
\* Whoever touches the locks of an earlier run has a claim that has not expired.
Prompt(r) == run[r].pc \in {"stale", "recover"} => HasClaim(r) /\ Rec(r).claim > 0
\* The owner has locks on what it must keep before it commits.
Prepared(r) ==
  HasClaim(r) /\ run[r].pc \in Preparing /\ ~Rec(r).terminal => Owns(r) /\ Covers(r)
\* After its intent it has its locks, and once the record ended it only has its
\* hold left to take.
Concludes(r) ==
  HasClaim(r) /\ run[r].pc \in Judging /\ Rec(r).intent =>
    /\ Rec(r).terminal =>
         run[r].pc \in {"hold", "promote"} /\ Rec(r).outcome = "manual_review_required"
    /\ run[r].pc \in Engaged => Owns(r)
\* Every key of an unresolved effect is under a lock nobody is about to release.
Covered(t) ==
  Unresolved(exec[t]) =>
    \A k \in HoldKeys[t] : \E x \in records :
      /\ x.key = k /\ x.mode = Wanted(t, k) /\ TaskOf[x.owner] = t
      /\ run[x.owner].pc \notin Withdrawing

LockInv ==
  /\ \A r \in Owner : Sure(r) /\ Prompt(r) /\ Prepared(r) /\ Concludes(r)
  /\ \A t \in Task : Covered(t) /\ (exec[t].terminal => Exists(exec[t]))
Secured == Timely /\ Inv /\ SendInv /\ LockInv

\* A terminal outcome stays.
Final ==
  \A t \in Task : exec[t].terminal => exec'[t].terminal /\ exec'[t].outcome = exec[t].outcome

\* Run r may go on as n, with the record of its task as x.
Course(r, n, x) ==
  /\ HasClaim(r) \/ x = Rec(r) \/ (Exists(Rec(r)) /\ ~Rec(r).intent /\ ~x.intent /\ x.terminal)
  /\ x.owner = Rec(r).owner /\ (HasClaim(r) \/ x.claim = Rec(r).claim)
  /\ HasClaim(r) /\ n.pc \in Undispatched => ~x.intent
  /\ n.catch = "preflightFailed" => n.pc = "release" /\ (HasClaim(r) => ~x.intent)
  /\ n.pc \notin {"stale", "recover"}
  /\ HasClaim(r) /\ n.pc \in Judging /\ x.intent /\ x.terminal =>
       n.pc \in {"hold", "promote"} /\ x.outcome = "manual_review_required"
  /\ Unresolved(x) => Unresolved(Rec(r)) \/ (At(r, "commit") /\ HasClaim(r) /\ ~Rec(r).terminal)
  /\ Unresolved(x) /\ n.pc \in Withdrawing => run[r].pc \in Withdrawing
  /\ Rec(r).terminal => x.terminal /\ x.outcome = Rec(r).outcome

\* Locks stay owned and keys covered when the records of the run stay.
LEMMA OwnsStays ==
  ASSUME StoreInv, StoreInv', NEW r, Owns(r), run'[r].tokens = run[r].tokens,
         \A y \in records : y.owner = r => Kept(y)
  PROVE  Owns(r)'
<1>1. \A k \in run[r].tokens : \E x \in records :
        x.key = k.key /\ x.generation = k.generation /\ x.owner = r
  BY Owned DEF Owns
<1>2. \A k \in run[r].tokens : \E x \in records' :
        x.key = k.key /\ x.generation = k.generation /\ x.owner = r
  BY <1>1 DEF Kept, AmendmentOf
<1>3. \A k \in run'[r].tokens : \E x \in records' : Matches(k)' = {x} /\ x.owner = r
  BY <1>2 DEF StoreInv, Issued, Matches
<1>. QED
  BY <1>3 DEF Owns, OwnsAll

\* The same of the keys.
LEMMA CoversStays ==
  ASSUME NEW r, Covers(r), \A y \in records : y.owner = r => Kept(y)
  PROVE  Covers(r)'
BY DEF Covers, Kept, AmendmentOf, Wanted

\* Nobody touches the locks of another run before its intent or after it.
LEMMA OthersKept ==
  ASSUME Secured, NEW r \in Owner, \A y \in records : Touches(r, y),
         NEW q \in Owner \ {r}, HasClaim(q),
         \/ run[q].pc \in Preparing /\ ~Rec(q).terminal
         \/ run[q].pc \in Engaged /\ Rec(q).intent,
         NEW y \in records, y.owner = q
  PROVE  Kept(y)
<1>1. KeptUsable(y) => Kept(y)
  BY DEF KeptUsable, Kept
<1>2. ~(At(r, "settle") /\ SameTask(r, y) /\ Settles(Rec(r)))
  <2> SUFFICES ASSUME SameTask(r, y), Settles(Rec(r)) PROVE FALSE
    OBVIOUS
  <2>1. Rec(q) = Rec(r) /\ Rec(q).terminal /\ Rec(q).outcome # "manual_review_required"
    BY DEF SameTask, Rec, Settles
  <2>2. run[q].pc \in Judging /\ Rec(q).intent
    BY <2>1 DEF Engaged
  <2>. QED
    BY <2>1, <2>2 DEF Secured, LockInv, Concludes
<1>3. ~(run[r].pc \in {"stale", "recover"} /\ SameTask(r, y))
  BY DEF Secured, LockInv, Prompt, SameTask, HasClaim, Rec
<1>4. Touches(r, y)
  OBVIOUS
<1>. QED
  BY <1>1, <1>2, <1>3, <1>4 DEF Touches, At

\* A step of a run on such a course keeps the locks of every unresolved effect.
LEMMA CourseKeeps ==
  ASSUME Secured, NEW r \in Owner, NEW n, NEW x, Course(r, n, x),
         run' = [run EXCEPT ![r] = n], exec' = [exec EXCEPT ![TaskOf[r]] = x],
         StoreStep, \A y \in records : Touches(r, y),
         HasClaim(r) /\ n.pc \in Preparing /\ ~x.terminal => Owns(r)' /\ Covers(r)',
         HasClaim(r) /\ n.pc \in Engaged /\ x.intent => Owns(r)'
  PROVE  LockInv' /\ Final
<1>1. /\ run \in [Owner -> Run] /\ exec \in [Task -> ExecutionRecord]
      /\ TaskOf \in [Owner -> Task]
  BY OwnerAssumption DEF Secured, Inv, ExecutorTyped
<1>2. /\ run'[r] = n /\ exec'[TaskOf[r]] = x /\ Rec(r)' = x
      /\ \A q \in Owner \ {r} : run'[q] = run[q]
      /\ \A q \in Owner : TaskOf[q] = TaskOf[r] => Rec(q) = Rec(r) /\ Rec(q)' = x
      /\ \A q \in Owner : TaskOf[q] # TaskOf[r] => Rec(q)' = Rec(q)
      /\ \A t \in Task \ {TaskOf[r]} : exec'[t] = exec[t]
      /\ exec[TaskOf[r]] = Rec(r)
  BY <1>1 DEF Rec
<1>3. \A q \in Owner : HasClaim(q)' <=> HasClaim(q)
  BY <1>2 DEF Course, HasClaim
<1>4. ASSUME NEW q \in Owner \ {r}, HasClaim(q)
      PROVE  /\ Rec(q)'.claim = Rec(q).claim
             /\ Rec(q)' = Rec(q) \/ (~Rec(q).intent /\ ~Rec(q)'.intent /\ Rec(q)'.terminal)
  <2>1. CASE TaskOf[q] = TaskOf[r]
    <3>1. ~HasClaim(r)
      BY <1>2, <1>4, <2>1 DEF HasClaim
    <3>. QED
      BY <1>2, <2>1, <3>1 DEF Course
  <2>2. CASE TaskOf[q] # TaskOf[r]
    BY <1>2, <2>2
  <2>. QED
    BY <2>1, <2>2
<1>5. \A q \in Owner : Sure(q) /\ Prompt(q) /\ Prepared(q) /\ Concludes(q)
  BY DEF Secured, LockInv
<1>6. ASSUME NEW q \in Owner \ {r} PROVE Sure(q)' /\ Prompt(q)'
  <2>1. Sure(q)'
    <3>1. HasClaim(q) => (~Rec(q).intent => ~Rec(q)'.intent)
      BY <1>4, <1>6
    <3>. QED
      BY <1>2, <1>3, <1>5, <1>6, <3>1 DEF Sure, At
  <2>2. Prompt(q)'
    BY <1>2, <1>3, <1>4, <1>5, <1>6 DEF Prompt
  <2>. QED
    BY <2>1, <2>2
<1>7. Sure(r)' /\ Prompt(r)'
  BY <1>2, <1>3 DEF Sure, Prompt, Course, At
<1>8. ASSUME NEW q \in Owner \ {r} PROVE Prepared(q)' /\ Concludes(q)'
  <2>1. StoreInv /\ StoreInv' /\ run'[q] = run[q] /\ (HasClaim(q)' <=> HasClaim(q))
    BY <1>2, <1>3, <1>8 DEF Secured, Inv, StoreStep
  <2>2. ASSUME HasClaim(q), run[q].pc \in Preparing, ~Rec(q)'.terminal
        PROVE  Owns(q)' /\ Covers(q)'
    <3>1. ~Rec(q).terminal
      BY <1>4, <1>8, <2>2
    <3>2. Owns(q) /\ Covers(q)
      BY <1>5, <1>8, <2>2, <3>1 DEF Prepared
    <3>3. \A y \in records : y.owner = q => Kept(y)
      BY <1>8, <2>2, <3>1, OthersKept
    <3>. QED
      BY <2>1, <3>2, <3>3, OwnsStays, CoversStays
  <2>3. ASSUME HasClaim(q), run[q].pc \in Judging, Rec(q)'.intent
        PROVE  /\ Rec(q)' = Rec(q)
               /\ run[q].pc \in Engaged => Owns(q)'
    <3>1. Rec(q)' = Rec(q)
      BY <1>4, <1>8, <2>3
    <3>2. ASSUME run[q].pc \in Engaged PROVE Owns(q)'
      <4>1. Owns(q)
        BY <1>5, <1>8, <2>3, <3>1, <3>2 DEF Concludes
      <4>2. \A y \in records : y.owner = q => Kept(y)
        BY <1>8, <2>3, <3>1, <3>2, OthersKept
      <4>. QED
        BY <2>1, <4>1, <4>2, OwnsStays
    <3>. QED
      BY <3>1, <3>2
  <2>4. Prepared(q)'
    BY <2>1, <2>2 DEF Prepared
  <2>5. Concludes(q)'
    BY <1>5, <1>8, <2>1, <2>3 DEF Concludes
  <2>. QED
    BY <2>4, <2>5
<1>9. Prepared(r)' /\ Concludes(r)'
  BY <1>2, <1>3 DEF Prepared, Concludes, Course
<1>10. ASSUME NEW t \in Task, Unresolved(exec'[t]), NEW k \in HoldKeys[t]
       PROVE  \E y \in records' :
                /\ y.key = k /\ y.mode = Wanted(t, k) /\ TaskOf[y.owner] = t
                /\ run'[y.owner].pc \notin Withdrawing
  <2>1. \A y \in records : y.owner \in Owner /\ Touches(r, y)
    BY DEF Secured, Inv, StoreInv, StoreTyped, LockRecord
  <2>2. \A y \in records : KeptUsable(y) => Kept(y)
    BY DEF KeptUsable, Kept
  <2>3. CASE t # TaskOf[r]
    <3>1. PICK y \in records : /\ y.key = k /\ y.mode = Wanted(t, k) /\ TaskOf[y.owner] = t
                               /\ run[y.owner].pc \notin Withdrawing
      BY <1>2, <1>10, <2>3 DEF Secured, LockInv, Covered
    <3>2. Kept(y)
      BY <2>1, <2>2, <2>3, <3>1 DEF Touches, SameTask
    <3>3. run'[y.owner] = run[y.owner]
      BY <1>2, <2>1, <2>3, <3>1
    <3>. QED
      BY <3>1, <3>2, <3>3 DEF Kept, AmendmentOf
  <2>4. CASE t = TaskOf[r] /\ Unresolved(Rec(r))
    <3>1. PICK y \in records : /\ y.key = k /\ y.mode = Wanted(t, k) /\ TaskOf[y.owner] = t
                               /\ run[y.owner].pc \notin Withdrawing
      BY <1>2, <1>10, <2>4 DEF Secured, LockInv, Covered
    <3>2. ~Settles(Rec(r)) /\ Rec(r).intent
      BY <2>4 DEF Unresolved, Settles
    <3>3. ~At(r, "stale")
      BY <1>5, <3>2 DEF Prompt, Sure, At, Undispatched
    <3>4. ~(run[r].pc \in {"release", "cleanup"} /\ y.owner = r)
      BY <3>1 DEF Withdrawing
    <3>5. n.pc \in Withdrawing => run[r].pc \in Withdrawing
      BY <1>2, <1>10, <2>4 DEF Course
    <3>6. CASE Kept(y)
      <4>1. run'[y.owner].pc \notin Withdrawing
        BY <1>2, <2>1, <3>1, <3>5
      <4>. QED
        BY <3>1, <3>6, <4>1 DEF Kept, AmendmentOf
    <3>7. CASE /\ At(r, "recover")
               /\ \E z \in records' : z.owner = r /\ z.key = y.key /\ z.mode = y.mode
      <4>1. n.pc \notin Withdrawing
        BY <3>5, <3>7 DEF At, Withdrawing
      <4>. QED
        BY <1>2, <2>4, <3>1, <3>7, <4>1
    <3>. QED
      BY <1>10, <2>1, <2>2, <2>4, <3>1, <3>2, <3>3, <3>4, <3>6, <3>7 DEF Touches
  <2>5. CASE /\ t = TaskOf[r] /\ ~Unresolved(Rec(r))
    <3>1. At(r, "commit") /\ HasClaim(r) /\ ~Rec(r).terminal /\ n.pc \notin Withdrawing
      BY <1>2, <1>10, <2>5 DEF Course, At, Withdrawing
    <3>2. Covers(r)
      BY <1>5, <3>1 DEF Prepared, At, Preparing, Recorded
    <3>3. PICK y \in records : y.key = k /\ y.owner = r /\ y.mode = Wanted(t, k)
      BY <1>10, <2>5, <3>2 DEF Covers
    <3>4. Kept(y)
      BY <2>1, <2>2, <3>1, <3>3 DEF Touches, At
    <3>. QED
      BY <1>2, <2>5, <3>1, <3>3, <3>4 DEF Kept, AmendmentOf
  <2>. QED
    BY <2>3, <2>4, <2>5
<1>11. \A t \in Task : Covered(t)'
  BY <1>10 DEF Covered, Wanted
<1>12. Final
  BY <1>2 DEF Final, Course
<1>13. \A t \in Task : exec'[t].terminal => Exists(exec'[t])
  <2>1. Rec(r).terminal => Exists(Rec(r))
    BY <1>1, <1>2 DEF Secured, LockInv
  <2>2. HasClaim(r) => Exists(Rec(r))
    BY ExecutorAssumption DEF HasClaim, Exists
  <2>3. Exists(Rec(r)) => Exists(x)
    BY DEF Course, Exists
  <2>4. x.terminal => Exists(Rec(r))
    BY <2>1, <2>2 DEF Course
  <2>. QED
    BY <1>1, <1>2, <2>3, <2>4 DEF Secured, LockInv
<1>. QED
  BY <1>6, <1>7, <1>8, <1>9, <1>11, <1>12, <1>13 DEF LockInv

\* A step of a run that leaves the store alone.
Arms(r, n, x) ==
  /\ HasClaim(r) /\ n.pc \in Preparing /\ ~x.terminal =>
       run[r].pc \in Preparing /\ ~Rec(r).terminal /\ n.tokens = run[r].tokens
  /\ HasClaim(r) /\ n.pc \in Engaged /\ x.intent =>
       /\ n.tokens = run[r].tokens
       /\ \/ run[r].pc \in Engaged /\ Rec(r).intent
          \/ run[r].pc \in Preparing /\ ~Rec(r).terminal
Fits(r, n, x) == Course(r, n, x) /\ Arms(r, n, x)

\* It keeps the locks of every unresolved effect.
LEMMA FitsKeeps ==
  ASSUME Secured, NEW r \in Owner, NEW n, NEW x, Fits(r, n, x),
         run' = [run EXCEPT ![r] = n], exec' = [exec EXCEPT ![TaskOf[r]] = x],
         UNCHANGED storeVars
  PROVE  LockInv' /\ Final
<1>1. StoreStep /\ \A y \in records : KeptUsable(y)
  BY Untouched DEF Secured
<1>2. \A y \in records : Touches(r, y) /\ Kept(y)
  BY <1>1 DEF Touches, KeptUsable, Kept
<1>3. StoreInv /\ StoreInv' /\ run'[r] = n
  BY <1>1 DEF Secured, Inv, StoreStep, ExecutorTyped
<1>4. Prepared(r) /\ Concludes(r)
  BY DEF Secured, LockInv
<1>5. ASSUME HasClaim(r), n.pc \in Preparing, ~x.terminal PROVE Owns(r)' /\ Covers(r)'
  <2>1. Owns(r) /\ Covers(r) /\ run'[r].tokens = run[r].tokens
    BY <1>3, <1>4, <1>5 DEF Fits, Arms, Prepared
  <2>. QED
    BY <1>2, <1>3, <2>1, OwnsStays, CoversStays
<1>6. ASSUME HasClaim(r), n.pc \in Engaged, x.intent PROVE Owns(r)'
  <2>1. Owns(r) /\ run'[r].tokens = run[r].tokens
    BY <1>3, <1>4, <1>6 DEF Fits, Arms, Prepared, Concludes, Engaged
  <2>. QED
    BY <1>2, <1>3, <2>1, OwnsStays
<1>. QED
  BY <1>1, <1>2, <1>5, <1>6, CourseKeeps DEF Fits

\* A local step.
LEMMA ContinueFits ==
  ASSUME Secured, NEW r \in Owner, NEW n, Continue(r, n), Fits(r, n, Rec(r))
  PROVE  LockInv' /\ Final
<1>1. exec' = [exec EXCEPT ![TaskOf[r]] = Rec(r)]
  BY OwnerAssumption DEF Continue, Secured, Inv, ExecutorTyped, Rec
<1>. QED
  BY <1>1, FitsKeeps DEF Continue, storeVars

\* A guarded write, made or refused.
LEMMA SaveFits ==
  ASSUME Secured, NEW r \in Owner, NEW valid, NEW x, NEW ok, NEW err,
         Save(r, valid, x, ok, err),
         HasClaim(r) /\ valid => Fits(r, ok, x),
         ~(HasClaim(r) /\ valid) => Fits(r, err, Rec(r))
  PROVE  LockInv' /\ Final
<1>1. exec = [exec EXCEPT ![TaskOf[r]] = Rec(r)]
  BY OwnerAssumption DEF Secured, Inv, ExecutorTyped, Rec
<1>2. ~(faults < MaxFaults)
  BY DEF Secured, Timely, Inv, ExecutorTyped
<1>3. CASE HasClaim(r) /\ valid
  BY <1>2, <1>3, FitsKeeps DEF Save, storeVars
<1>4. CASE ~(HasClaim(r) /\ valid)
  BY <1>1, <1>2, <1>4, FitsKeeps DEF Save, storeVars
<1>. QED
  BY <1>3, <1>4

\* The parts of what a run goes on as.
LEMMA RunForms ==
  ASSUME Inv, NEW r \in Owner
  PROVE  /\ NotRunning.pc = "done" /\ NotRunning.catch = "none"
         /\ \A step \in Steps \ {"done"} :
              /\ To(r, step).pc = step /\ To(r, step).catch = run[r].catch
              /\ To(r, step).tokens = run[r].tokens
         /\ \A step, handler :
              /\ Into(r, step, handler).pc = step /\ Into(r, step, handler).catch = handler
              /\ Into(r, step, handler).tokens = run[r].tokens
         /\ Escape(r) = NotRunning \/ Escape(r) = Into(r, "failed", "none")
         /\ \/ Caught(r) = NotRunning
            \/ \E step \in {"failed", "preflightFailed", "observeFailed", "verifyFailed"} :
                 /\ Caught(r) = Into(r, step, "none")
                 /\ step = "preflightFailed" => run[r].catch = "preflightFailed"
<1>1. run[r] \in Run
  BY RecordTyped
<1>2. NotRunning.pc = "done" /\ NotRunning.catch = "none"
  BY DEF NotRunning
<1>3. \A step \in Steps \ {"done"} :
        /\ To(r, step).pc = step /\ To(r, step).catch = run[r].catch
        /\ To(r, step).tokens = run[r].tokens
  BY <1>1 DEF To, Run
<1>4. \A step, handler :
        /\ Into(r, step, handler).pc = step /\ Into(r, step, handler).catch = handler
        /\ Into(r, step, handler).tokens = run[r].tokens
  BY <1>1 DEF Into, Run
<1>5. Escape(r) = NotRunning \/ Escape(r) = Into(r, "failed", "none")
  BY DEF Escape
<1>6. run[r].catch \in {"none", "preflightFailed", "observeFailed", "verifyFailed"}
  BY <1>1 DEF Run
<1>7. \/ Caught(r) = NotRunning
      \/ \E step \in {"failed", "preflightFailed", "observeFailed", "verifyFailed"} :
           /\ Caught(r) = Into(r, step, "none")
           /\ step = "preflightFailed" => run[r].catch = "preflightFailed"
  BY <1>5, <1>6 DEF Caught
<1>. QED
  BY <1>2, <1>3, <1>4, <1>5, <1>7

\* One owner and one intent.
Same(y, x) == y.owner = x.owner /\ y.intent = x.intent

\* The parts of what a record becomes.
LEMMA RecordForms ==
  ASSUME NEW x \in ExecutionRecord
  PROVE  /\ \A outcome :
              /\ Same(Ended(x, outcome), x)
              /\ Ended(x, outcome).terminal /\ Ended(x, outcome).outcome = outcome
              /\ Same(DispatchResult(x, outcome), x)
              /\ DispatchResult(x, outcome).terminal = x.terminal
              /\ DispatchResult(x, outcome).outcome = outcome
              /\ Same(Observed(x, outcome), x)
              /\ Observed(x, outcome).terminal = x.terminal
              /\ Observed(x, outcome).outcome = outcome
              /\ Same(Verified(x, outcome), x)
              /\ Verified(x, outcome).terminal = (outcome # "observing")
              /\ Verified(x, outcome).outcome = outcome
         /\ Same([x EXCEPT !.preflight = TRUE], x)
         /\ [x EXCEPT !.preflight = TRUE].terminal = x.terminal
         /\ [x EXCEPT !.preflight = TRUE].outcome = x.outcome
         /\ Same([x EXCEPT !.claim = 0], x)
         /\ [x EXCEPT !.claim = 0].terminal = x.terminal
         /\ [x EXCEPT !.claim = 0].outcome = x.outcome
BY DEF Ended, DispatchResult, Observed, Verified, ExecutionRecord, Same

\* Where everybody stands.
LEMMA Standing ==
  ASSUME Secured, NEW r \in Owner
  PROVE  /\ Inv /\ Rec(r) \in ExecutionRecord /\ run[r] \in Run
         /\ Sure(r) /\ Prompt(r) /\ Prepared(r) /\ Concludes(r)
BY RecordTyped DEF Secured, LockInv

\* What ends a record without an intent, and what leaves it alone.
LEMMA EndFits ==
  ASSUME Secured, NEW r \in Owner, NEW n, NEW x,
         ~Rec(r).intent, ~x.intent, x.owner = Rec(r).owner, x.terminal,
         HasClaim(r) \/ (Exists(Rec(r)) /\ x.claim = Rec(r).claim),
         Rec(r).terminal => x.outcome = Rec(r).outcome,
         n.pc \notin {"stale", "recover"}, n.catch = "preflightFailed" => n.pc = "release"
  PROVE  Fits(r, n, x)
BY DEF Fits, Course, Arms, Unresolved

\* Before the intent, or without the claim, a run may go on to any step that does
\* not withdraw: to the steps before the intent only in their order.
LEMMA EarlyFits ==
  ASSUME Secured, NEW r \in Owner, NEW n,
         HasClaim(r) => ~Rec(r).intent, n.catch # "preflightFailed",
         n.pc \notin {"stale", "recover"},
         n.pc \in Withdrawing => run[r].pc \in Withdrawing \/ ~Unresolved(Rec(r)),
         n.pc \in Preparing => run[r].pc \in Preparing /\ n.tokens = run[r].tokens
  PROVE  Fits(r, n, Rec(r))
BY DEF Fits, Course, Arms

\* After the intent, with the locks, or without the claim.
LEMMA LateFits ==
  ASSUME Secured, NEW r \in Owner, NEW n,
         HasClaim(r) /\ Rec(r).intent => ~Rec(r).terminal /\
           (n.pc \in Engaged => run[r].pc \in Engaged /\ n.tokens = run[r].tokens),
         n.catch # "preflightFailed", n.pc \notin {"stale", "recover"},
         n.pc \notin Withdrawing, n.pc \notin Undispatched
  PROVE  Fits(r, n, Rec(r))
BY DEF Fits, Course, Arms, Preparing, Recorded, Undispatched

\* The owner writes after the intent, and keeps its locks.
LEMMA WriteFits ==
  ASSUME Secured, NEW r \in Owner, NEW n, NEW x,
         HasClaim(r), Rec(r).intent, ~Rec(r).terminal, x.owner = Rec(r).owner, x.intent,
         n.catch # "preflightFailed", n.pc \notin {"stale", "recover"},
         n.pc \notin Undispatched,
         n.pc \in Withdrawing => ~Unresolved(x),
         n.pc \in Judging /\ x.terminal =>
           n.pc \in {"hold", "promote"} /\ x.outcome = "manual_review_required",
         n.pc \in Engaged => run[r].pc \in Engaged /\ n.tokens = run[r].tokens
  PROVE  Fits(r, n, x)
BY DEF Fits, Course, Arms, Unresolved, Preparing, Recorded, Undispatched

\* What a run relies on before its intent.
LEMMA Before ==
  ASSUME Secured, NEW r \in Owner, run[r].pc \in Undispatched
  PROVE  (HasClaim(r) => ~Rec(r).intent) /\ run[r].catch # "preflightFailed"
BY Standing DEF Sure, At, Undispatched

\* The refusals that end a record.
LEMMA RejectedFits ==
  ASSUME Secured, NEW r \in Owner, NEW n, HasClaim(r), Rejectable(Rec(r)),
         n.pc \notin {"stale", "recover"}, n.catch = "preflightFailed" => n.pc = "release"
  PROVE  Fits(r, n, Ended(Rec(r), "failed_pre_dispatch"))
<1>1. Rec(r) \in ExecutionRecord
  BY Standing
<1>2. Ended(Rec(r), "failed_pre_dispatch").claim = Rec(r).claim
  BY <1>1 DEF Ended, ExecutionRecord
<1>3. ~Ended(Rec(r), "failed_pre_dispatch").intent
  BY <1>1, RecordForms DEF Same, Rejectable
<1>. QED
  BY <1>1, <1>2, <1>3, RecordForms, EndFits DEF Same, Rejectable

\* A conflict on a key.
LEMMA ConflictFits ==
  ASSUME Secured, NEW r \in Owner, Conflict(r) PROVE LockInv' /\ Final
<1>1. run[r].pc = "conflict" /\ run[r].pc \in Undispatched
  BY DEF Conflict, At, Undispatched
<1>2. HasClaim(r) /\ Rejectable(Rec(r)) => Fits(r, NotRunning, Ended(Rec(r), "failed_pre_dispatch"))
  BY Standing, RunForms, RejectedFits
<1>3. Fits(r, NotRunning, Rec(r))
  BY <1>1, Before, Standing, RunForms, EarlyFits DEF Withdrawing, Preparing, Recorded
<1>. QED
  BY <1>2, <1>3, SaveFits DEF Conflict

\* The tokens of an acquisition.
LEMMA RecordLocksFits ==
  ASSUME Secured, NEW r \in Owner, RecordLocks(r) PROVE LockInv' /\ Final
<1> DEFINE x == [Rec(r) EXCEPT !.tokens = run[r].tokens]
<1>1. run[r].pc = "recordLocks" /\ (HasClaim(r) => ~Rec(r).intent)
      /\ run[r].catch # "preflightFailed"
  BY Before DEF RecordLocks, At, Undispatched
<1>2. /\ To(r, "preflight").pc = "preflight" /\ To(r, "preflight").tokens = run[r].tokens
      /\ To(r, "preflight").catch = run[r].catch
      /\ To(r, "failLocks").pc = "failLocks" /\ To(r, "failLocks").catch = run[r].catch
  BY Standing, RunForms DEF Steps
<1>3. Same(x, Rec(r)) /\ x.terminal = Rec(r).terminal /\ x.outcome = Rec(r).outcome
  BY Standing DEF ExecutionRecord, Same
<1> HIDE DEF x
<1>4. HasClaim(r) /\ ~Rec(r).terminal /\ ~Rec(r).intent => Fits(r, To(r, "preflight"), x)
  BY <1>1, <1>2, <1>3 DEF Fits, Course, Arms, Same, Unresolved, Preparing, Recorded, Judging,
     Engaged
<1>5. Fits(r, To(r, "failLocks"), Rec(r))
  BY <1>1, <1>2, EarlyFits DEF Withdrawing, Preparing, Recorded
<1>6. Save(r, ~Rec(r).terminal /\ ~Rec(r).intent, x, To(r, "preflight"), To(r, "failLocks"))
  BY DEF RecordLocks, x
<1>. QED
  BY <1>4, <1>5, <1>6, SaveFits

\* fail_lock_acquisition.
LEMMA FailLocksFits ==
  ASSUME Secured, NEW r \in Owner, FailLocks(r) PROVE LockInv' /\ Final
<1> DEFINE authority == HasClaim(r) /\ ~Rec(r).terminal /\ ~Rec(r).intent
           next == IF authority /\ run[r].tokens # {} THEN To(r, "cleanup") ELSE NotRunning
<1>1. run[r].pc = "failLocks" /\ (HasClaim(r) => ~Rec(r).intent)
      /\ run[r].catch # "preflightFailed"
  BY Before DEF FailLocks, At, Undispatched
<1>2. To(r, "cleanup").pc = "cleanup" /\ To(r, "cleanup").catch = run[r].catch
  BY Standing, RunForms DEF Steps
<1>3. next = To(r, "cleanup") \/ (next = NotRunning)
  OBVIOUS
<1>4. ~authority => next = NotRunning
  OBVIOUS
<1>5. authority => Rejectable(Rec(r))
  BY DEF Rejectable
<1>6. Save(r, authority, Ended(Rec(r), "failed_pre_dispatch"), next, next)
  BY DEF FailLocks
<1>7. authority => HasClaim(r)
  OBVIOUS
<1> HIDE DEF authority, next
<1>8. authority => Fits(r, next, Ended(Rec(r), "failed_pre_dispatch"))
  BY <1>1, <1>2, <1>3, <1>5, <1>7, Standing, RunForms, RejectedFits
<1>9. ~authority => Fits(r, next, Rec(r))
  BY <1>1, <1>4, Standing, RunForms, EarlyFits DEF Withdrawing, Preparing, Recorded
<1>. QED
  BY <1>6, <1>7, <1>8, <1>9, SaveFits

\* The preflight and the authority write nothing.
LEMMA PreflightFits ==
  ASSUME Secured, NEW r \in Owner, Preflight(r) PROVE LockInv' /\ Final
<1>1. run[r].pc = "preflight" /\ (HasClaim(r) => ~Rec(r).intent)
      /\ run[r].catch # "preflightFailed"
  BY Before DEF Preflight, At, Undispatched
<1>2. ASSUME NEW step \in {"recordPreflight", "noop", "reject", "preflightFailed"}
      PROVE  Fits(r, To(r, step), Rec(r))
  <2>1. /\ To(r, step).pc = step /\ To(r, step).catch = run[r].catch
        /\ To(r, step).tokens = run[r].tokens
    BY <1>2, Standing, RunForms DEF Steps
  <2>. QED
    BY <1>1, <1>2, <2>1, EarlyFits DEF Withdrawing, Preparing, Recorded
<1>. QED
  BY <1>2, ContinueFits DEF Preflight

\* The authority guard enters the dispatch block.
LEMMA AuthorityFits ==
  ASSUME Secured, NEW r \in Owner, Authority(r) PROVE LockInv' /\ Final
<1>1. run[r].pc = "authority" /\ (HasClaim(r) => ~Rec(r).intent)
      /\ run[r].catch # "preflightFailed" /\ run[r] \in Run
  BY Before, Standing DEF Authority, At, Undispatched
<1> DEFINE n == [To(r, "dispatch") EXCEPT !.part = "dispatching"]
<1>2. n.pc = "dispatch" /\ n.catch = run[r].catch /\ n.tokens = run[r].tokens
  BY <1>1 DEF To, Run
<1>3. To(r, "refused").pc = "refused" /\ To(r, "refused").catch = run[r].catch
  BY Standing, RunForms DEF Steps
<1> HIDE DEF n
<1>4. Fits(r, n, Rec(r)) /\ Fits(r, To(r, "refused"), Rec(r))
  BY <1>1, <1>2, <1>3, EarlyFits DEF Withdrawing, Preparing, Recorded
<1>. QED
  BY <1>4, ContinueFits DEF Authority, n

\* An eligible preflight.
LEMMA RecordPreflightFits ==
  ASSUME Secured, NEW r \in Owner, RecordPreflight(r) PROVE LockInv' /\ Final
<1> DEFINE x == [Rec(r) EXCEPT !.preflight = TRUE]
<1>1. run[r].pc = "recordPreflight" /\ (HasClaim(r) => ~Rec(r).intent)
      /\ run[r].catch # "preflightFailed"
  BY Before DEF RecordPreflight, At, Undispatched
<1>2. /\ To(r, "authority").pc = "authority" /\ To(r, "authority").tokens = run[r].tokens
      /\ To(r, "authority").catch = run[r].catch
      /\ To(r, "preflightFailed").pc = "preflightFailed"
      /\ To(r, "preflightFailed").catch = run[r].catch
  BY Standing, RunForms DEF Steps
<1>3. Same(x, Rec(r)) /\ x.terminal = Rec(r).terminal /\ x.outcome = Rec(r).outcome
  BY Standing, RecordForms
<1> DEFINE valid == Rec(r).tokens # {} /\ ~Rec(r).intent
<1>4. Save(r, valid, x, To(r, "authority"), To(r, "preflightFailed"))
  BY DEF RecordPreflight
<1> HIDE DEF x
<1>5. HasClaim(r) /\ valid => Fits(r, To(r, "authority"), x)
  BY <1>1, <1>2, <1>3 DEF Fits, Course, Arms, Same, Unresolved, Preparing, Recorded, Judging,
     Engaged
<1>6. Fits(r, To(r, "preflightFailed"), Rec(r))
  BY <1>1, <1>2, EarlyFits DEF Withdrawing, Preparing, Recorded
<1> HIDE DEF valid
<1>. QED
  BY <1>4, <1>5, <1>6, SaveFits

\* An operation already in its target state ends without an intent.
LEMMA NoopFits ==
  ASSUME Secured, NEW r \in Owner, Noop(r) PROVE LockInv' /\ Final
<1> DEFINE x == [Ended(Rec(r), "succeeded_verified") EXCEPT !.preflight = TRUE]
           valid == ~Rec(r).intent /\ ~Rec(r).terminal /\ Rec(r).tokens # {}
<1>1. run[r].pc = "noop" /\ (HasClaim(r) => ~Rec(r).intent) /\ run[r].catch # "preflightFailed"
  BY Before DEF Noop, At, Undispatched
<1>2. /\ To(r, "release").pc = "release" /\ To(r, "release").catch = run[r].catch
      /\ To(r, "preflightFailed").pc = "preflightFailed"
      /\ To(r, "preflightFailed").catch = run[r].catch
  BY Standing, RunForms DEF Steps
<1>3. /\ x.owner = Rec(r).owner /\ x.intent = Rec(r).intent /\ x.terminal
  BY Standing DEF Ended, ExecutionRecord
<1>4. Save(r, valid, x, To(r, "release"), To(r, "preflightFailed"))
  BY DEF Noop
<1> HIDE DEF x
<1>5. HasClaim(r) /\ valid => Fits(r, To(r, "release"), x)
  BY <1>1, <1>2, <1>3, EndFits
<1>6. Fits(r, To(r, "preflightFailed"), Rec(r))
  BY <1>1, <1>2, EarlyFits DEF Withdrawing, Preparing, Recorded
<1> HIDE DEF valid
<1>. QED
  BY <1>4, <1>5, <1>6, SaveFits

\* An ineligible preflight.
LEMMA RejectFits ==
  ASSUME Secured, NEW r \in Owner, Reject(r) PROVE LockInv' /\ Final
<1> DEFINE n == Into(r, "release", "preflightFailed")
<1>1. run[r].pc = "reject" /\ (HasClaim(r) => ~Rec(r).intent)
      /\ run[r].catch # "preflightFailed"
  BY Before DEF Reject, At, Undispatched
<1>2. /\ n.pc = "release"
      /\ To(r, "preflightFailed").pc = "preflightFailed"
      /\ To(r, "preflightFailed").catch = run[r].catch
  BY Standing, RunForms DEF Steps
<1> HIDE DEF n
<1>3. HasClaim(r) /\ Rejectable(Rec(r)) => Fits(r, n, Ended(Rec(r), "failed_pre_dispatch"))
  BY <1>2, RejectedFits
<1>4. Fits(r, To(r, "preflightFailed"), Rec(r))
  BY <1>1, <1>2, EarlyFits DEF Withdrawing, Preparing, Recorded
<1>. QED
  BY <1>3, <1>4, SaveFits DEF Reject, n

\* The handler of the preflight.
LEMMA PreflightFailedFits ==
  ASSUME Secured, NEW r \in Owner, PreflightFailed(r) PROVE LockInv' /\ Final
<1>1. run[r].pc = "preflightFailed" /\ (HasClaim(r) => ~Rec(r).intent)
      /\ run[r].catch # "preflightFailed"
  BY Before DEF PreflightFailed, At, Undispatched
<1>2. To(r, "release").pc = "release" /\ To(r, "release").catch = run[r].catch
  BY Standing, RunForms DEF Steps
<1>3. HasClaim(r) /\ Rejectable(Rec(r)) =>
        Fits(r, To(r, "release"), Ended(Rec(r), "failed_pre_dispatch"))
  BY <1>1, <1>2, RejectedFits
<1>4. Fits(r, To(r, "release"), Rec(r)) /\ Fits(r, NotRunning, Rec(r))
  BY <1>1, <1>2, Standing, RunForms, EarlyFits DEF Withdrawing, Preparing, Recorded
<1>. QED
  BY <1>3, <1>4, SaveFits, ContinueFits DEF PreflightFailed

\* A refused authority.
LEMMA RefusedFits ==
  ASSUME Secured, NEW r \in Owner, Refused(r) PROVE LockInv' /\ Final
<1>1. run[r].pc = "refused" /\ (HasClaim(r) => ~Rec(r).intent)
      /\ run[r].catch # "preflightFailed"
  BY Before DEF Refused, At, Undispatched
<1>2. To(r, "release").pc = "release" /\ To(r, "release").catch = run[r].catch
  BY Standing, RunForms DEF Steps
<1>3. HasClaim(r) /\ Rejectable(Rec(r)) =>
        Fits(r, To(r, "release"), Ended(Rec(r), "failed_pre_dispatch"))
  BY <1>1, <1>2, RejectedFits
<1>4. Fits(r, NotRunning, Rec(r))
  BY <1>1, Standing, RunForms, EarlyFits DEF Withdrawing, Preparing, Recorded
<1>. QED
  BY <1>3, <1>4, SaveFits DEF Refused

\* What a run relies on after its intent.
LEMMA After ==
  ASSUME Secured, NEW r \in Owner, run[r].pc \in Judging \ {"hold", "promote"}
  PROVE  /\ HasClaim(r) /\ Rec(r).intent => ~Rec(r).terminal
         /\ run[r].catch # "preflightFailed"
BY Standing DEF Sure, Concludes, At, Judging

\* It may go on with the record as it is.
LEMMA AfterFits ==
  ASSUME Secured, NEW r \in Owner, NEW n, run[r].pc \in Engaged \ {"hold", "promote"},
         n.catch # "preflightFailed", n.pc \in Engaged \union {"yield", "done"},
         n.tokens = run[r].tokens \/ n.pc = "done"
  PROVE  Fits(r, n, Rec(r))
<1>1. HasClaim(r) /\ Rec(r).intent => ~Rec(r).terminal
  BY After DEF Engaged
<1>2. /\ n.pc \notin {"stale", "recover"} /\ n.pc \notin Withdrawing /\ n.pc \notin Undispatched
      /\ n.pc \in Engaged => n.tokens = run[r].tokens
  BY DEF Engaged, Judging, Withdrawing, Undispatched
<1>. QED
  BY <1>1, <1>2, LateFits

\* It may go on with what it wrote.
LEMMA AfterWrites ==
  ASSUME Secured, NEW r \in Owner, NEW n, NEW x, run[r].pc \in Engaged \ {"hold", "promote"},
         HasClaim(r), Rec(r).intent, Same(x, Rec(r)), n.catch # "preflightFailed",
         n.pc \in Engaged \union {"done", "release", "yield"}, n.tokens = run[r].tokens,
         n.pc = "release" => ~Unresolved(x),
         n.pc \in Judging /\ x.terminal =>
           n.pc \in {"hold", "promote"} /\ x.outcome = "manual_review_required"
  PROVE  Fits(r, n, x)
<1>1. ~Rec(r).terminal /\ x.owner = Rec(r).owner /\ x.intent
  BY After DEF Engaged, Same
<1>2. /\ n.pc \notin {"stale", "recover"} /\ n.pc \notin Undispatched
      /\ n.pc \in Withdrawing => ~Unresolved(x)
      /\ n.pc \in Engaged => run[r].pc \in Engaged /\ n.tokens = run[r].tokens
  BY DEF Engaged, Judging, Withdrawing, Undispatched
<1>. QED
  BY <1>1, <1>2, WriteFits

\* before_dispatch.
LEMMA DispatchFits ==
  ASSUME Secured, NEW r \in Owner, Dispatch(r) PROVE LockInv' /\ Final
<1>1. run[r].pc = "dispatch" /\ (HasClaim(r) => ~Rec(r).intent)
      /\ run[r].catch # "preflightFailed"
  BY Before DEF Dispatch, At, Undispatched
<1>2. /\ To(r, "release").pc = "release" /\ To(r, "release").catch = run[r].catch
      /\ To(r, "failed").pc = "failed" /\ To(r, "failed").catch = run[r].catch
      /\ To(r, "approve").pc = "approve" /\ To(r, "approve").catch = run[r].catch
      /\ To(r, "approve").tokens = run[r].tokens
  BY Standing, RunForms DEF Steps
<1>3. Fits(r, To(r, "failed"), Rec(r)) /\ Fits(r, To(r, "approve"), Rec(r))
  BY <1>1, <1>2, EarlyFits DEF Withdrawing, Preparing, Recorded
<1>4. CASE RefuseDispatch(r)
  <2>1. Rejectable(Rec(r))
    BY <1>4 DEF RefuseDispatch, Rejectable
  <2>2. HasClaim(r) => Fits(r, To(r, "release"), Ended(Rec(r), "failed_pre_dispatch"))
    BY <1>1, <1>2, <2>1, RejectedFits
  <2>. QED
    BY <1>3, <1>4, <2>2, SaveFits DEF RefuseDispatch
<1>. QED
  BY <1>3, <1>4, ContinueFits DEF Dispatch

\* The approval is consumed.
LEMMA ApproveFits ==
  ASSUME Secured, NEW r \in Owner, Approve(r) PROVE LockInv' /\ Final
<1>1. run[r].pc = "approve" /\ (HasClaim(r) => ~Rec(r).intent)
      /\ run[r].catch # "preflightFailed" /\ run[r] \in Run
  BY Before, Standing DEF Approve, At, Undispatched
<1>2. ASSUME NEW step \in {"commit", "failed"}
      PROVE  Fits(r, [To(r, step) EXCEPT !.approved = TRUE], Rec(r))
  <2> DEFINE n == [To(r, step) EXCEPT !.approved = TRUE]
  <2>1. n.pc = step /\ n.catch = run[r].catch /\ n.tokens = run[r].tokens
    BY <1>1, <1>2 DEF To, Run
  <2> HIDE DEF n
  <2>2. Fits(r, n, Rec(r))
    BY <1>1, <1>2, <2>1, EarlyFits DEF Withdrawing, Preparing, Recorded
  <2>. QED
    BY <2>2 DEF n
<1>. QED
  BY <1>2, ContinueFits DEF Approve

\* The intent is committed under the locks it must keep.
LEMMA CommitFits ==
  ASSUME Secured, NEW r \in Owner, Commit(r) PROVE LockInv' /\ Final
<1> DEFINE x == [Rec(r) EXCEPT !.intent = TRUE, !.deadline = EvidenceTicks]
           valid == ~Rec(r).terminal /\ ~Rec(r).intent /\ Rec(r).preflight /\ Rec(r).tokens # {}
<1>1. run[r].pc = "commit" /\ (HasClaim(r) => ~Rec(r).intent)
      /\ run[r].catch # "preflightFailed"
  BY Before DEF Commit, At, Undispatched
<1>2. /\ To(r, "failed").pc = "failed" /\ To(r, "failed").catch = run[r].catch
      /\ To(r, "send").pc = "send" /\ To(r, "send").catch = run[r].catch
      /\ To(r, "send").tokens = run[r].tokens
  BY Standing, RunForms DEF Steps
<1>3. /\ x.owner = Rec(r).owner /\ x.terminal = Rec(r).terminal /\ x.outcome = Rec(r).outcome
  BY Standing DEF ExecutionRecord
<1>4. Save(r, valid, x, To(r, "send"), To(r, "failed"))
  BY DEF Commit
<1>5. valid => ~Rec(r).terminal
  OBVIOUS
<1> HIDE DEF x, valid
<1>6. HasClaim(r) /\ valid => Fits(r, To(r, "send"), x)
  BY <1>1, <1>2, <1>3, <1>5 DEF Fits, Course, Arms, At, Preparing, Recorded, Judging, Engaged,
     Undispatched, Withdrawing
<1>7. Fits(r, To(r, "failed"), Rec(r))
  BY <1>1, <1>2, EarlyFits DEF Withdrawing, Preparing, Recorded
<1>. QED
  BY <1>4, <1>6, <1>7, SaveFits

\* The provider call.
LEMMA SendFits ==
  ASSUME Secured, NEW r \in Owner, Send(r) PROVE LockInv' /\ Final
<1>1. run[r].pc = "send" /\ run[r].pc \in Engaged \ {"hold", "promote"}
      /\ run[r].catch # "preflightFailed"
  BY After DEF Send, At, Engaged, Judging
<1>2. ASSUME NEW step \in {"sent", "confirmed", "failed"} PROVE Fits(r, To(r, step), Rec(r))
  <2>1. /\ To(r, step).pc = step /\ To(r, step).catch = run[r].catch
        /\ To(r, step).tokens = run[r].tokens
    BY <1>2, Standing, RunForms DEF Steps
  <2>. QED
    BY <1>1, <1>2, <2>1, AfterFits DEF Engaged, Judging
<1>3. exec' = [exec EXCEPT ![TaskOf[r]] = Rec(r)] /\ UNCHANGED storeVars
  BY Standing DEF Send, storeVars, Inv, ExecutorTyped, Rec
<1>. QED
  BY <1>2, <1>3, FitsKeeps DEF Send

\* The provider refused.
LEMMA ConfirmedFits ==
  ASSUME Secured, NEW r \in Owner, Confirmed(r) PROVE LockInv' /\ Final
<1> DEFINE x == Ended(DispatchResult(Rec(r), "none"), "dispatch_failed_confirmed")
<1>1. run[r].pc = "confirmed" /\ run[r].pc \in Engaged \ {"hold", "promote"}
      /\ run[r].catch # "preflightFailed"
  BY After DEF Confirmed, At, Engaged, Judging
<1>2. /\ To(r, "release").pc = "release" /\ To(r, "release").catch = run[r].catch
      /\ To(r, "release").tokens = run[r].tokens
      /\ To(r, "failed").pc = "failed" /\ To(r, "failed").catch = run[r].catch
      /\ To(r, "failed").tokens = run[r].tokens
  BY Standing, RunForms DEF Steps
<1>3. Same(x, Rec(r)) /\ x.terminal /\ x.outcome = "dispatch_failed_confirmed"
  BY Standing DEF ExecutionRecord, Ended, DispatchResult, Same
<1>4. Save(r, Rec(r).intent /\ ~Rec(r).resulted, x, To(r, "release"), To(r, "failed"))
  BY DEF Confirmed
<1> HIDE DEF x
<1>5. HasClaim(r) /\ Rec(r).intent /\ ~Rec(r).resulted => Fits(r, To(r, "release"), x)
  BY <1>1, <1>2, <1>3, AfterWrites DEF Unresolved, Judging
<1>6. Fits(r, To(r, "failed"), Rec(r))
  BY <1>1, <1>2, AfterFits DEF Engaged, Judging
<1>. QED
  BY <1>4, <1>5, <1>6, SaveFits

\* The provider answered, or may have.
LEMMA SentFits ==
  ASSUME Secured, NEW r \in Owner, Sent(r) PROVE LockInv' /\ Final
<1>1. run[r].pc = "sent" /\ run[r].pc \in Engaged \ {"hold", "promote"}
      /\ run[r].catch # "preflightFailed"
      /\ (HasClaim(r) /\ Rec(r).intent => ~Rec(r).terminal)
  BY After DEF Sent, At, Engaged, Judging
<1>2. /\ To(r, "observe").pc = "observe" /\ To(r, "observe").catch = run[r].catch
      /\ To(r, "observe").tokens = run[r].tokens
      /\ To(r, "failed").pc = "failed" /\ To(r, "failed").catch = run[r].catch
      /\ To(r, "failed").tokens = run[r].tokens
  BY Standing, RunForms DEF Steps
<1>3. PICK outcome :
        Save(r, Rec(r).intent /\ ~Rec(r).resulted, DispatchResult(Rec(r), outcome),
             To(r, "observe"), To(r, "failed"))
  BY DEF Sent
<1> DEFINE x == DispatchResult(Rec(r), outcome)
<1>4. Same(x, Rec(r)) /\ x.terminal = Rec(r).terminal
  BY Standing DEF ExecutionRecord, DispatchResult, Same
<1> HIDE DEF x
<1>5. HasClaim(r) /\ Rec(r).intent /\ ~Rec(r).resulted => Fits(r, To(r, "observe"), x)
  BY <1>1, <1>2, <1>4, AfterWrites DEF Engaged, Judging
<1>6. Fits(r, To(r, "failed"), Rec(r))
  BY <1>1, <1>2, AfterFits DEF Engaged, Judging
<1>. QED
  BY <1>3, <1>5, <1>6, SaveFits DEF x

\* The handler of the dispatch block.
LEMMA FailedFits ==
  ASSUME Secured, NEW r \in Owner, Failed(r) PROVE LockInv' /\ Final
<1> DEFINE x == Rec(r)
           rescue == [To(r, "observe") EXCEPT !.part = "rescuing"]
<1>1. run[r].pc = "failed" /\ run[r].pc \in Engaged \ {"hold", "promote"}
      /\ run[r].catch # "preflightFailed" /\ run[r] \in Run /\ x \in ExecutionRecord
      /\ (HasClaim(r) /\ x.intent => ~x.terminal)
  BY After, Standing DEF Failed, At, Engaged, Judging
<1>2. /\ To(r, "release").pc = "release" /\ To(r, "release").catch = run[r].catch
      /\ rescue.pc = "observe" /\ rescue.catch = run[r].catch
      /\ rescue.tokens = run[r].tokens
      /\ NotRunning.pc = "done" /\ NotRunning.catch = "none"
  BY <1>1 DEF To, Run, NotRunning
<1>3. Fits(r, rescue, x) /\ Fits(r, NotRunning, x)
  <2> HIDE DEF rescue
  <2>. QED
    BY <1>1, <1>2, AfterFits DEF Engaged, Judging
<1>4. CASE x.terminal /\ ~x.intent
  <2>1. Fits(r, To(r, "release"), x)
    BY <1>1, <1>2, <1>4, EarlyFits DEF Withdrawing, Preparing, Recorded, Unresolved
  <2>2. Continue(r, To(r, "release"))
    BY <1>1, <1>4 DEF Failed, ExecutionRecord
  <2>. QED
    BY <2>1, <2>2, ContinueFits
<1>5. CASE x.terminal /\ x.intent
  <2>1. Continue(r, rescue)
    BY <1>1, <1>5 DEF Failed, ExecutionRecord
  <2>. QED
    BY <1>3, <2>1, ContinueFits
<1>6. CASE ~x.terminal /\ x.intent
  <2> DEFINE y == DispatchResult(x, "dispatch_indeterminate")
  <2>1. Same(y, x) /\ y.terminal = x.terminal
    BY <1>1 DEF ExecutionRecord, DispatchResult, Same
  <2>2. Save(r, ~x.resulted, y, rescue, NotRunning)
    BY <1>1, <1>6 DEF Failed, ExecutionRecord
  <2> HIDE DEF y, rescue
  <2>3. HasClaim(r) => Fits(r, rescue, y)
    BY <1>1, <1>2, <1>6, <2>1, AfterWrites DEF Engaged, Judging
  <2>. QED
    BY <1>3, <2>2, <2>3, SaveFits
<1>7. CASE ~x.terminal /\ ~x.intent /\ ~run[r].approved
  <2>1. HasClaim(r) => Fits(r, To(r, "release"), Ended(x, "failed_pre_dispatch"))
    BY <1>1, <1>2, <1>7, RejectedFits DEF Rejectable
  <2>2. Save(r, TRUE, Ended(x, "failed_pre_dispatch"), To(r, "release"), NotRunning)
    BY <1>1, <1>7 DEF Failed, ExecutionRecord, Run
  <2>. QED
    BY <1>3, <2>1, <2>2, SaveFits
<1>8. CASE ~x.terminal /\ ~x.intent /\ run[r].approved
  <2> DEFINE y == [x EXCEPT !.claim = 0]
  <2>1. y.owner = x.owner /\ y.intent = x.intent /\ y.terminal = x.terminal
    BY <1>1 DEF ExecutionRecord
  <2>2. Save(r, x.preflight /\ x.tokens # {}, y, To(r, "release"), NotRunning)
    BY <1>1, <1>8 DEF Failed, ExecutionRecord, Run
  <2> HIDE DEF y
  <2>3. HasClaim(r) => Fits(r, To(r, "release"), y)
    BY <1>1, <1>2, <1>8, <2>1 DEF Fits, Course, Arms, Unresolved, Preparing, Recorded,
       Judging, Engaged, Undispatched
  <2>. QED
    BY <1>3, <2>2, <2>3, SaveFits
<1>. QED
  BY <1>1, <1>4, <1>5, <1>6, <1>7, <1>8 DEF ExecutionRecord, Run

\* The readback starts, or is given up for a review.
LEMMA ObserveFits ==
  ASSUME Secured, NEW r \in Owner, Observe(r) PROVE LockInv' /\ Final
<1>1. run[r].pc = "observe" /\ run[r].pc \in Engaged \ {"hold", "promote"}
  BY DEF Observe, At, Engaged, Judging
<1>2. \A step \in {"review", "observing"} : Fits(r, Into(r, step, "none"), Rec(r))
  BY <1>1, Standing, RunForms, AfterFits DEF Engaged, Judging
<1>. QED
  BY <1>2, ContinueFits DEF Observe

\* One observation, whatever it answers.
LEMMA ObservingFits ==
  ASSUME Secured, NEW r \in Owner, Observing(r) PROVE LockInv' /\ Final
<1> DEFINE x == Rec(r)
           observed == Observed(x, "observing")
           err == Into(r, "observeFailed", "none")
           incomplete == Into(r, IF Exhausted(observed, observed.observations)
                                   THEN "review" ELSE "renew", "observeFailed")
<1>1. run[r].pc = "observing" /\ run[r].pc \in Engaged \ {"hold", "promote"}
      /\ x \in ExecutionRecord
  BY Standing DEF Observing, At, Engaged, Judging
<1>2. Fits(r, err, x)
  BY <1>1, Standing, RunForms, AfterFits DEF Engaged, Judging
<1>3. \/ \E n, outcome :
           /\ n = Into(r, "verify", "none") \/ n = Into(r, "review", "observeFailed")
              \/ n = Into(r, "renew", "observeFailed")
           /\ Save(r, Observable(x), Observed(x, outcome), n, err)
      \/ Continue(r, err)
  BY DEF Observing
<1>4. ASSUME NEW n, NEW outcome,
             n = Into(r, "verify", "none") \/ n = Into(r, "review", "observeFailed")
               \/ n = Into(r, "renew", "observeFailed"),
             HasClaim(r) /\ Observable(x)
      PROVE  Fits(r, n, Observed(x, outcome))
  <2>1. /\ Same(Observed(x, outcome), x) /\ Observed(x, outcome).terminal = x.terminal
    BY <1>1, RecordForms
  <2>2. /\ n.pc \in {"verify", "review", "renew"} /\ n.catch # "preflightFailed"
        /\ n.tokens = run[r].tokens
    BY <1>4, Standing, RunForms
  <2>. QED
    BY <1>1, <1>4, <2>1, <2>2, AfterWrites DEF Engaged, Judging, Observable
<1> HIDE DEF x, observed, err, incomplete
<1>5. x = Rec(r)
  BY DEF x
<1>. QED
  BY <1>2, <1>3, <1>4, <1>5, SaveFits, ContinueFits

\* The handler of an observation.
LEMMA ObserveFailedFits ==
  ASSUME Secured, NEW r \in Owner, ObserveFailed(r) PROVE LockInv' /\ Final
<1>1. run[r].pc = "observeFailed" /\ run[r].pc \in Engaged \ {"hold", "promote"}
      /\ Rec(r) \in ExecutionRecord
  BY Standing DEF ObserveFailed, At, Engaged, Judging
<1>2. Fits(r, Into(r, "review", "none"), Rec(r)) /\ Fits(r, Escape(r), Rec(r))
  BY <1>1, Standing, RunForms, AfterFits DEF Engaged, Judging
<1> DEFINE x == Observed(Rec(r), "observing")
<1>3. Same(x, Rec(r)) /\ x.terminal = Rec(r).terminal
  BY <1>1 DEF Observed, ExecutionRecord, Same
<1> HIDE DEF x
<1>4. HasClaim(r) /\ Observable(Rec(r)) => Fits(r, Into(r, "renew", "none"), x)
  BY <1>1, <1>3, Standing, RunForms, AfterWrites DEF Engaged, Judging, Observable
<1>. QED
  BY <1>2, <1>4, SaveFits, ContinueFits DEF ObserveFailed, x

\* One verification, whatever it answers.
LEMMA VerifyFits ==
  ASSUME Secured, NEW r \in Owner, Verify(r) PROVE LockInv' /\ Final
<1> DEFINE err == Into(r, "verifyFailed", "none")
<1>1. run[r].pc = "verify" /\ run[r].pc \in Engaged \ {"hold", "promote"}
      /\ Rec(r) \in ExecutionRecord
  BY Standing DEF Verify, At, Engaged, Judging
<1>2. Fits(r, err, Rec(r))
  BY <1>1, Standing, RunForms, AfterFits DEF Engaged, Judging
<1>3. ASSUME NEW outcome \in Verdicts, HasClaim(r), Verifiable(Rec(r))
      PROVE  Fits(r, AfterVerdict(r, outcome), Verified(Rec(r), outcome))
  <2> DEFINE x == Verified(Rec(r), outcome)
             n == AfterVerdict(r, outcome)
  <2>1. Same(x, Rec(r)) /\ x.terminal = (outcome # "observing") /\ x.outcome = outcome
    BY <1>1 DEF Verified, ExecutionRecord, Same
  <2>2. /\ n.tokens = run[r].tokens /\ n.catch # "preflightFailed"
        /\ outcome = "manual_review_required" => n.pc = "hold"
        /\ outcome = "observing" => n.pc \in {"review", "renew"}
        /\ outcome \notin {"manual_review_required", "observing"} => n.pc = "release"
    BY Standing, RunForms DEF AfterVerdict
  <2> HIDE DEF x, n
  <2>3. n.pc \in {"hold", "review", "renew", "release"}
    BY <2>2
  <2>4. n.pc = "release" => ~Unresolved(x)
    BY <2>1, <2>2 DEF Unresolved
  <2>5. n.pc \in Judging /\ x.terminal =>
          n.pc \in {"hold", "promote"} /\ x.outcome = "manual_review_required"
    BY <2>1, <2>2 DEF Judging
  <2>6. Fits(r, n, x)
    BY <1>1, <1>3, <2>1, <2>2, <2>3, <2>4, <2>5, AfterWrites DEF Engaged, Judging, Verifiable
  <2>. QED
    BY <2>6 DEF x, n
<1> HIDE DEF err
<1>4. \/ \E outcome \in Verdicts :
           Save(r, Verifiable(Rec(r)), Verified(Rec(r), outcome), AfterVerdict(r, outcome), err)
      \/ Continue(r, err)
  BY DEF Verify, err
<1>. QED
  BY <1>2, <1>3, <1>4, SaveFits, ContinueFits

\* The handler of a verification.
LEMMA VerifyFailedFits ==
  ASSUME Secured, NEW r \in Owner, VerifyFailed(r) PROVE LockInv' /\ Final
<1>1. run[r].pc = "verifyFailed" /\ run[r].pc \in Engaged \ {"hold", "promote"}
      /\ Rec(r) \in ExecutionRecord
  BY Standing DEF VerifyFailed, At, Engaged, Judging
<1>2. Fits(r, Into(r, "review", "none"), Rec(r)) /\ Fits(r, Escape(r), Rec(r))
  BY <1>1, Standing, RunForms, AfterFits DEF Engaged, Judging
<1> DEFINE x == Verified(Rec(r), "observing")
<1>3. Same(x, Rec(r)) /\ ~x.terminal
  BY <1>1, RecordForms
<1> HIDE DEF x
<1>4. HasClaim(r) /\ Verifiable(Rec(r)) => Fits(r, Into(r, "renew", "none"), x)
  BY <1>1, <1>3, Standing, RunForms, AfterWrites DEF Engaged, Judging, Verifiable
<1>. QED
  BY <1>2, <1>4, SaveFits, ContinueFits DEF VerifyFailed, x

\* _manual_review.
LEMMA ReviewFits ==
  ASSUME Secured, NEW r \in Owner, Review(r) PROVE LockInv' /\ Final
<1>1. run[r].pc = "review" /\ run[r].pc \in Engaged \ {"hold", "promote"}
      /\ Rec(r) \in ExecutionRecord /\ run[r].catch # "preflightFailed"
  BY Standing, After DEF Review, At, Engaged, Judging
<1>2. Fits(r, Caught(r), Rec(r))
  <2>1. \/ Caught(r) = NotRunning
        \/ \E step \in {"failed", "observeFailed", "verifyFailed"} :
             Caught(r) = Into(r, step, "none")
    BY <1>1, Standing, RunForms
  <2>2. /\ Caught(r).catch # "preflightFailed"
        /\ Caught(r).pc \in Engaged \union {"yield", "done"}
        /\ Caught(r).tokens = run[r].tokens \/ Caught(r).pc = "done"
    BY <2>1, Standing, RunForms DEF Engaged, Judging
  <2>. QED
    BY <1>1, <2>2, AfterFits
<1> DEFINE x == Verified(Rec(r), "manual_review_required")
<1>3. Same(x, Rec(r)) /\ x.outcome = "manual_review_required"
  BY <1>1, RecordForms
<1> HIDE DEF x
<1>4. To(r, "promote").pc = "promote" /\ To(r, "promote").catch = run[r].catch
      /\ To(r, "promote").tokens = run[r].tokens
  BY Standing, RunForms DEF Steps
<1>5. HasClaim(r) /\ Verifiable(Rec(r)) => Fits(r, To(r, "promote"), x)
  BY <1>1, <1>3, <1>4, AfterWrites DEF Engaged, Judging, Verifiable
<1>. QED
  BY <1>2, <1>5, SaveFits DEF Review, x

\* A claim is yielded.
LEMMA YieldClaimFits ==
  ASSUME Secured, NEW r \in Owner, YieldClaim(r) PROVE LockInv' /\ Final
<1> DEFINE x == [Rec(r) EXCEPT !.claim = 0]
<1>1. run[r].pc = "yield" /\ run[r].catch # "preflightFailed"
      /\ (HasClaim(r) /\ Rec(r).intent => ~Rec(r).terminal)
  BY After DEF YieldClaim, At, Judging
<1>2. Same(x, Rec(r)) /\ x.terminal = Rec(r).terminal /\ x.outcome = Rec(r).outcome
  BY Standing DEF ExecutionRecord, Same
<1>3. Save(r, ~Rec(r).terminal, x, NotRunning, Caught(r))
  BY DEF YieldClaim
<1> HIDE DEF x
<1>4. HasClaim(r) => Fits(r, NotRunning, x)
  BY <1>1, <1>2, Standing, RunForms DEF Fits, Course, Arms, Same, Unresolved, Undispatched,
     Preparing, Recorded, Judging, Engaged, Withdrawing
<1>5. ~(HasClaim(r) /\ ~Rec(r).terminal) => Fits(r, Caught(r), Rec(r))
  <2>1. \/ Caught(r) = NotRunning
        \/ \E step \in {"failed", "observeFailed", "verifyFailed"} :
             Caught(r) = Into(r, step, "none")
    BY <1>1, Standing, RunForms
  <2>2. /\ Caught(r).catch # "preflightFailed"
        /\ Caught(r).pc \in {"done", "failed", "observeFailed", "verifyFailed"}
    BY <2>1, Standing, RunForms
  <2>. QED
    BY <1>1, <2>2, LateFits DEF Undispatched, Withdrawing
<1>. QED
  BY <1>3, <1>4, <1>5, SaveFits

\* The tokens of a transfer.
LEMMA ReplaceLocksFits ==
  ASSUME Secured, NEW r \in Owner, ReplaceLocks(r) PROVE LockInv' /\ Final
<1> DEFINE x == [Rec(r) EXCEPT !.tokens = run[r].tokens]
<1>1. run[r].pc = "replace" /\ run[r].pc \in Engaged \ {"hold", "promote"}
      /\ run[r].catch # "preflightFailed"
      /\ (HasClaim(r) /\ Rec(r).intent => ~Rec(r).terminal)
  BY After DEF ReplaceLocks, At, Engaged, Judging
<1>2. Same(x, Rec(r)) /\ x.terminal = Rec(r).terminal
  BY Standing DEF ExecutionRecord, Same
<1>3. /\ To(r, "observe").pc = "observe" /\ To(r, "observe").catch = run[r].catch
      /\ To(r, "observe").tokens = run[r].tokens
  BY Standing, RunForms DEF Steps
<1>4. Save(r, Rec(r).intent, x, To(r, "observe"), NotRunning)
  BY DEF ReplaceLocks
<1> HIDE DEF x
<1>5. HasClaim(r) /\ Rec(r).intent => Fits(r, To(r, "observe"), x)
  BY <1>1, <1>2, <1>3, AfterWrites DEF Engaged, Judging
<1>6. Fits(r, NotRunning, Rec(r))
  BY <1>1, Standing, RunForms, AfterFits
<1>. QED
  BY <1>4, <1>5, <1>6, SaveFits

\* A run may stop anywhere.
LEMMA StopFits == ASSUME Secured, NEW r \in Owner PROVE Fits(r, NotRunning, Rec(r))
BY Standing, RunForms DEF Fits, Course, Arms, Undispatched, Preparing, Recorded, Judging,
   Engaged, Withdrawing

\* What a call of the store must leave the run: the locks it goes on with.
Armed(r, n) ==
  /\ HasClaim(r) /\ n.pc \in Preparing /\ ~Rec(r).terminal => Owns(r)' /\ Covers(r)'
  /\ HasClaim(r) /\ n.pc \in Engaged /\ Rec(r).intent => Owns(r)'

\* A call of the store, answered or refused.
LEMMA CallFits ==
  ASSUME Secured, NEW r \in Owner, NEW operation, NEW refused, NEW ok, NEW err,
         Call(r, operation, refused, ok, err), StoreStep, \A y \in records : Touches(r, y),
         operation => Course(r, ok, Rec(r)),
         operation /\ run'[r] = ok => Armed(r, ok),
         refused => Fits(r, err, Rec(r))
  PROVE  LockInv' /\ Final
<1>1. exec' = [exec EXCEPT ![TaskOf[r]] = Rec(r)] /\ run \in [Owner -> Run]
  BY OwnerAssumption DEF Call, Secured, Inv, ExecutorTyped, Rec
<1>2. ~(faults < MaxFaults)
  BY DEF Secured, Timely, Inv, ExecutorTyped
<1>3. CASE operation /\ run' = [run EXCEPT ![r] = ok]
  <2>1. run'[r] = ok
    BY <1>1, <1>3
  <2>. QED
    BY <1>1, <1>3, <2>1, CourseKeeps DEF Armed
<1>4. CASE refused /\ UNCHANGED storeVars /\ run' = [run EXCEPT ![r] = err]
  BY <1>1, <1>4, FitsKeeps
<1>. QED
  BY <1>2, <1>3, <1>4 DEF Call

\* Whoever notes the tokens of what it now holds owns them.
LEMMA HeldIsOwned ==
  ASSUME StoreInv', NEW r, run'[r].tokens = {TokenOf(x) : x \in HeldBy(r)'}
  PROVE  Owns(r)'
<1>1. \A k \in run'[r].tokens : \E x \in records' : Matches(k)' = {x} /\ x.owner = r
  <2> SUFFICES ASSUME NEW k \in run'[r].tokens
               PROVE  \E x \in records' : Matches(k)' = {x} /\ x.owner = r
    OBVIOUS
  <2>1. PICK x \in records' : x.owner = r /\ k = TokenOf(x)
    BY DEF HeldBy
  <2>2. k.key = x.key /\ k.generation = x.generation
    BY <2>1 DEF TokenOf
  <2>3. Matches(k)' = {x}
    BY <2>2 DEF StoreInv, Issued, Matches
  <2>. QED
    BY <2>1, <2>3
<1>. QED
  BY <1>1 DEF Owns, OwnsAll

\* An acquisition covers the keys a task must keep.
LEMMA AcquiredCovers ==
  ASSUME NEW r \in Owner, AcquireOnce(r, Requests[TaskOf[r]])
  PROVE  Covers(r)'
<1> DEFINE wanted == NormalizeLockRequests(Requests[TaskOf[r]])
           S == DOMAIN wanted
<1>1. HoldKeys[TaskOf[r]] \subseteq S
  BY ExecutorAssumption, OwnerAssumption DEF NormalizeLockRequests
<1>2. ASSUME NEW k \in S
      PROVE  \E x \in records' : x.key = k /\ x.owner = r /\ x.mode = wanted[k]
  <2> DEFINE x == NewRecord(k, wanted[k], r, FreshGeneration(k, S))
  <2>1. x \in records'
    BY DEF AcquireOnce
  <2>2. x.key = k /\ x.owner = r /\ x.mode = wanted[k]
    BY DEF NewRecord
  <2> HIDE DEF x
  <2>. QED
    BY <2>1, <2>2
<1>. QED
  BY <1>1, <1>2 DEF Covers, Wanted

\* The expired locks of an earlier attempt.
LEMMA ReleaseStaleFits ==
  ASSUME Secured, NEW r \in Owner, ReleaseStale(r) PROVE LockInv' /\ Final
<1>1. run[r].pc = "stale" /\ run[r].pc \in Undispatched
  BY DEF ReleaseStale, At, Undispatched
<1>2. /\ To(r, "acquire").pc = "acquire" /\ To(r, "acquire").catch = run[r].catch
      /\ "acquire" \notin Preparing \union Engaged \union Withdrawing
  BY Standing, RunForms DEF Steps, Preparing, Recorded, Engaged, Judging, Withdrawing
<1>3. Fits(r, To(r, "acquire"), Rec(r)) /\ Armed(r, To(r, "acquire"))
  BY <1>1, <1>2, Before, EarlyFits DEF Armed
<1>4. StoreStep /\ \A y \in records : Touches(r, y)
  BY ReleaseStaleTouches DEF Secured
<1>5. \E operation : Call(r, operation, FALSE, To(r, "acquire"), To(r, "failLocks"))
  BY DEF ReleaseStale
<1>. QED
  BY <1>3, <1>4, <1>5, CallFits DEF Fits

\* The acquisition.
LEMMA AcquireLocksFits ==
  ASSUME Secured, NEW r \in Owner, AcquireLocks(r) PROVE LockInv' /\ Final
<1> DEFINE tokens == {TokenOf(x) : x \in HeldBy(r)'}
           n == [run[r] EXCEPT !.pc = "recordLocks", !.tokens = tokens]
<1>1. run[r].pc = "acquire" /\ run[r].pc \in Undispatched
  BY DEF AcquireLocks, At, Undispatched
<1>2. Fits(r, NotRunning, Rec(r)) /\ Fits(r, To(r, "conflict"), Rec(r))
  <2>1. /\ To(r, "conflict").pc = "conflict" /\ To(r, "conflict").catch = run[r].catch
        /\ "conflict" \notin Preparing \union Withdrawing
    BY Standing, RunForms DEF Steps, Preparing, Recorded, Withdrawing
  <2>. QED
    BY <1>1, <2>1, StopFits, Before, EarlyFits
<1>3. CASE Continue(r, NotRunning) \/ Continue(r, To(r, "conflict"))
  BY <1>2, <1>3, ContinueFits
<1>4. CASE Call(r, AcquireOnce(r, Requests[TaskOf[r]]), FALSE, n, To(r, "failLocks"))
  <2>1. StoreStep /\ \A y \in records : Touches(r, y)
    BY AcquireLocksTouches DEF Secured
  <2>2. n.pc = "recordLocks" /\ n.tokens = tokens /\ n.catch = run[r].catch
    BY Standing DEF Run
  <2> HIDE DEF n
  <2>3. Course(r, n, Rec(r))
    BY <1>1, <2>2, Before DEF Course, Judging, Withdrawing
  <2>4. AcquireOnce(r, Requests[TaskOf[r]]) /\ run'[r] = n => Armed(r, n)
    BY <2>1, <2>2, HeldIsOwned, AcquiredCovers DEF Armed, StoreStep
  <2>. QED
    BY <1>4, <2>1, <2>3, <2>4, CallFits
<1>. QED
  BY <1>3, <1>4 DEF AcquireLocks

\* The cleanup of a failed acquisition.
LEMMA CleanupFits == ASSUME Secured, NEW r \in Owner, Cleanup(r) PROVE LockInv' /\ Final
<1>1. Fits(r, NotRunning, Rec(r)) /\ Armed(r, NotRunning)
  BY StopFits DEF Armed, NotRunning, Preparing, Recorded, Engaged, Judging
<1>2. StoreStep /\ \A y \in records : Touches(r, y)
  BY CleanupTouches DEF Secured
<1>3. \E operation, refused : Call(r, operation, refused, NotRunning, NotRunning)
  BY DEF Cleanup
<1>. QED
  BY <1>1, <1>2, <1>3, CallFits DEF Fits

\* The hold of a review verdict is not refused to the owner.
LEMMA HoldFits == ASSUME Secured, NEW r \in Owner, Hold(r) PROVE LockInv' /\ Final
<1> DEFINE err == Into(r, "verifyFailed", "none")
<1>1. Fits(r, NotRunning, Rec(r)) /\ Armed(r, NotRunning)
  BY StopFits DEF Armed, NotRunning, Preparing, Recorded, Engaged, Judging
<1>2. StoreStep /\ \A y \in records : Touches(r, y)
  BY HoldTouches DEF Secured
<1>3. ~Owns(r) => Fits(r, err, Rec(r))
  <2>1. err.pc = "verifyFailed" /\ err.catch = "none"
    BY Standing, RunForms
  <2>2. run[r].pc \in Judging /\ run[r].pc \in Engaged
    BY DEF Hold, At, Judging, Engaged
  <2>3. ~Owns(r) => ~(HasClaim(r) /\ Rec(r).intent)
    BY <2>2, Standing DEF Concludes
  <2> HIDE DEF err
  <2>. QED
    BY <2>1, <2>3 DEF Fits, Course, Arms, Undispatched, Preparing, Recorded, Withdrawing
<1>4. \E operation : Call(r, operation, ~Owns(r), NotRunning, err)
  BY DEF Hold
<1> HIDE DEF err
<1>. QED
  BY <1>1, <1>2, <1>3, <1>4, CallFits DEF Fits

\* The hold of a manual review.
LEMMA HoldAfterReviewFits ==
  ASSUME Secured, NEW r \in Owner, HoldAfterReview(r) PROVE LockInv' /\ Final
<1>1. Fits(r, NotRunning, Rec(r)) /\ Armed(r, NotRunning)
  BY StopFits DEF Armed, NotRunning, Preparing, Recorded, Engaged, Judging
<1>2. StoreStep /\ \A y \in records : Touches(r, y)
  BY HoldAfterReviewTouches DEF Secured
<1>3. \E operation, refused : Call(r, operation, refused, NotRunning, NotRunning)
  BY DEF HoldAfterReview
<1>. QED
  BY <1>1, <1>2, <1>3, CallFits DEF Fits

\* The renewal before a claim is yielded.
LEMMA RenewLocksFits ==
  ASSUME Secured, NEW r \in Owner, RenewLocks(r) PROVE LockInv' /\ Final
<1>1. run[r].pc = "renew" /\ run[r].pc \in Engaged \ {"hold", "promote"}
      /\ run[r].catch # "preflightFailed"
  BY After DEF RenewLocks, At, Engaged, Judging
<1>2. \A step \in {"yield", "review"} :
        /\ To(r, step).pc = step /\ To(r, step).catch = run[r].catch
        /\ To(r, step).tokens = run[r].tokens
  BY Standing, RunForms DEF Steps
<1>3. Fits(r, To(r, "yield"), Rec(r)) /\ Fits(r, To(r, "review"), Rec(r))
  BY <1>1, <1>2, AfterFits DEF Engaged, Judging
<1>4. Armed(r, To(r, "yield"))
  BY <1>2 DEF Armed, Preparing, Recorded, Engaged
<1>5. StoreStep /\ \A y \in records : Touches(r, y)
  BY RenewLocksTouches DEF Secured
<1>6. \E operation : Call(r, operation, ~Live(r), To(r, "yield"), To(r, "review"))
  BY DEF RenewLocks
<1>. QED
  BY <1>3, <1>4, <1>5, <1>6, CallFits DEF Fits

\* A recovery takes over what it finds expired, or waits.
LEMMA RecoverHandleFits ==
  ASSUME Secured, NEW r \in Owner, RecoverHandle(r) PROVE LockInv' /\ Final
<1> DEFINE tokens == {TokenOf(x) : x \in HeldBy(r)'}
           n == [run[r] EXCEPT !.pc = "replace", !.tokens = tokens]
<1>1. /\ run[r].pc = "recover" /\ run[r].catch # "preflightFailed"
      /\ (HasClaim(r) /\ Rec(r).intent => ~Rec(r).terminal)
  BY After DEF RecoverHandle, At, Judging
<1>2. Fits(r, To(r, "yield"), Rec(r))
  <2>1. To(r, "yield").pc = "yield" /\ To(r, "yield").catch = run[r].catch
    BY Standing, RunForms DEF Steps
  <2>. QED
    BY <1>1, <2>1, LateFits DEF Engaged, Withdrawing, Undispatched
<1>3. CASE Continue(r, To(r, "yield"))
  BY <1>2, <1>3, ContinueFits
<1>4. CASE ~Continue(r, To(r, "yield"))
  <2>1. \E operation, refused : Call(r, operation, refused, n, NotRunning)
    BY <1>4 DEF RecoverHandle
  <2>2. StoreStep /\ \A y \in records : Touches(r, y)
    BY RecoverHandleTouches DEF Secured, SendInv
  <2>3. n.pc = "replace" /\ n.tokens = tokens /\ n.catch = run[r].catch
    BY Standing DEF Run
  <2> HIDE DEF n
  <2>4. Course(r, n, Rec(r))
    BY <1>1, <2>3 DEF Course, Undispatched, Withdrawing
  <2>5. run'[r] = n => Armed(r, n)
    BY <2>2, <2>3, HeldIsOwned DEF Armed, StoreStep, Preparing, Recorded
  <2>. QED
    BY <2>1, <2>2, <2>4, <2>5, StopFits, CallFits
<1>. QED
  BY <1>3, <1>4

\* _release_safely.
LEMMA ReleaseLocksFits ==
  ASSUME Secured, NEW r \in Owner, ReleaseLocks(r) PROVE LockInv' /\ Final
<1> DEFINE err == IF run[r].catch = "preflightFailed"
                    THEN Into(r, "preflightFailed", "none") ELSE NotRunning
<1>1. Fits(r, NotRunning, Rec(r)) /\ Armed(r, NotRunning)
  BY StopFits DEF Armed, NotRunning, Preparing, Recorded, Engaged, Judging
<1>2. Fits(r, err, Rec(r))
  <2>1. CASE run[r].catch = "preflightFailed"
    <3> DEFINE n == Into(r, "preflightFailed", "none")
    <3>1. n.pc = "preflightFailed" /\ n.catch = "none"
      BY Standing, RunForms
    <3>2. HasClaim(r) => ~Rec(r).intent
      BY <2>1, Standing DEF Sure
    <3>3. run[r].pc \in Withdrawing
      BY DEF ReleaseLocks, At, Withdrawing
    <3> HIDE DEF n
    <3>4. Fits(r, n, Rec(r))
      BY <3>1, <3>2, <3>3, EarlyFits DEF Preparing, Recorded
    <3>. QED
      BY <2>1, <3>4 DEF n
  <2>. QED
    BY <1>1, <2>1
<1>3. StoreStep /\ \A y \in records : Touches(r, y)
  BY ReleaseLocksTouches DEF Secured
<1>4. \E operation, refused : Call(r, operation, refused, NotRunning, err)
  BY DEF ReleaseLocks
<1> HIDE DEF err
<1>. QED
  BY <1>1, <1>2, <1>3, <1>4, CallFits DEF Fits

\* _settle_terminal_locks.
LEMMA SettleFits == ASSUME Secured, NEW r \in Owner, Settle(r) PROVE LockInv' /\ Final
<1>1. Fits(r, NotRunning, Rec(r)) /\ Armed(r, NotRunning)
  BY StopFits DEF Armed, NotRunning, Preparing, Recorded, Engaged, Judging
<1>2. StoreStep /\ \A y \in records : Touches(r, y)
  BY SettleTouches DEF Secured, SendInv
<1>3. \/ \E operation : Call(r, operation, FALSE, NotRunning, NotRunning)
      \/ Continue(r, NotRunning)
  BY DEF Settle
<1>. QED
  BY <1>1, <1>2, <1>3, CallFits, ContinueFits DEF Fits

\* A settlement of what ended.
LEMMA JoinTerminalFits ==
  ASSUME Secured, NEW r \in Owner, JoinTerminal(r) PROVE LockInv' /\ Final
<1>1. ~HasClaim(r) /\ run[r].pc = "done"
  BY DEF JoinTerminal, Fresh, HasClaim, At
<1>2. To(r, "settle").pc = "settle" /\ To(r, "settle").catch = run[r].catch
  BY Standing, RunForms DEF Steps
<1>3. Fits(r, To(r, "settle"), Rec(r))
  BY <1>1, <1>2, Standing, LateFits DEF Sure, At, Withdrawing, Undispatched
<1>. QED
  BY <1>3, ContinueFits DEF JoinTerminal

\* A cancellation ends only what has no intent.
LEMMA CancelFits == ASSUME Secured, NEW r \in Owner, Cancel(r) PROVE LockInv' /\ Final
<1> DEFINE x == Ended(Rec(r), "cancelled_pre_dispatch")
           n == To(r, "settle")
<1>1. n.pc = "settle" /\ n.catch = run[r].catch /\ run[r].catch # "preflightFailed"
  BY Standing, RunForms DEF Steps, Cancel, Sure, At
<1>2. /\ x.owner = Rec(r).owner /\ x.claim = Rec(r).claim /\ x.intent = Rec(r).intent
      /\ x.terminal
  BY Standing DEF Ended, ExecutionRecord
<1>3. /\ exec' = [exec EXCEPT ![TaskOf[r]] = x] /\ run' = [run EXCEPT ![r] = n]
      /\ UNCHANGED storeVars /\ ~Rec(r).intent /\ ~Rec(r).terminal /\ Exists(Rec(r))
  BY OwnerAssumption DEF Cancel, storeVars, Rec, Secured, Inv, ExecutorTyped
<1> HIDE DEF x, n
<1>4. Fits(r, n, x)
  BY <1>1, <1>2, <1>3, EndFits
<1>. QED
  BY <1>3, <1>4, FitsKeeps

\* A death.
LEMMA CrashFits == ASSUME Secured, NEW r \in Owner, Crash(r) PROVE LockInv' /\ Final
<1>1. exec' = [exec EXCEPT ![TaskOf[r]] = Rec(r)] /\ UNCHANGED storeVars
  BY OwnerAssumption DEF Crash, storeVars, Secured, Inv, ExecutorTyped, Rec
<1>. QED
  BY <1>1, StopFits, FitsKeeps DEF Crash

\* Run r comes to own the record of its task as x, and goes on as n.
Owning(r, n, x) ==
  /\ At(r, "done") /\ ~Rec(r).terminal
  /\ Rec(r).claim = 0 \/ ~Exists(Rec(r))
  /\ x.owner = r /\ x.intent = Rec(r).intent /\ n.catch # "preflightFailed"
  /\ \/ ~x.terminal /\ x.claim > 0 /\ n.pc \in {"acquire", "stale"} /\ ~x.intent
     \/ ~x.terminal /\ x.claim > 0 /\ n.pc = "recover" /\ x.intent
     \/ ~x.intent /\ n.pc = "done"
  /\ run' = [run EXCEPT ![r] = n] /\ exec' = [exec EXCEPT ![TaskOf[r]] = x]
  /\ UNCHANGED storeVars

\* Nobody is left who touches the locks of the task for an earlier claim.
LEMMA OwningKeeps ==
  ASSUME Secured, NEW r \in Owner, NEW n, NEW x, Owning(r, n, x)
  PROVE  LockInv' /\ Final
<1>1. /\ run \in [Owner -> Run] /\ exec \in [Task -> ExecutionRecord]
      /\ TaskOf \in [Owner -> Task]
  BY OwnerAssumption DEF Secured, Inv, ExecutorTyped
<1>2. /\ run'[r] = n /\ exec'[TaskOf[r]] = x /\ Rec(r)' = x
      /\ \A q \in Owner \ {r} : run'[q] = run[q]
      /\ \A q \in Owner : TaskOf[q] = TaskOf[r] => Rec(q) = Rec(r) /\ Rec(q)' = x
      /\ \A q \in Owner : TaskOf[q] # TaskOf[r] => Rec(q)' = Rec(q)
      /\ \A t \in Task \ {TaskOf[r]} : exec'[t] = exec[t]
      /\ exec[TaskOf[r]] = Rec(r)
  BY <1>1 DEF Rec, Owning
<1>3. \A q \in Owner : Sure(q) /\ Prompt(q) /\ Prepared(q) /\ Concludes(q)
  BY DEF Secured, LockInv
<1>4. records' = records
  BY DEF Owning, storeVars
<1>5. \A q \in Owner \ {r} : (Owns(q)' <=> Owns(q)) /\ (Covers(q)' <=> Covers(q))
  BY <1>2, <1>4 DEF Owns, OwnsAll, Matches, Covers, Wanted
<1>6. ASSUME NEW q \in Owner \ {r}
      PROVE  Sure(q)' /\ Prompt(q)' /\ Prepared(q)' /\ Concludes(q)'
  <2>1. CASE TaskOf[q] = TaskOf[r]
    <3>1. ~HasClaim(q)'
      BY <1>2, <2>1 DEF HasClaim, Owning
    <3>2. run[q].pc \notin {"stale", "recover"}
      <4>1. HasClaim(q) => Exists(Rec(r))
        BY <1>2, <2>1, ExecutorAssumption DEF HasClaim, Exists
      <4>2. ~(HasClaim(q) /\ Rec(q).claim > 0)
        BY <1>1, <1>2, <2>1, <4>1 DEF Owning
      <4>. QED
        BY <1>3, <4>2 DEF Prompt
    <3>. QED
      BY <1>2, <1>3, <3>1, <3>2 DEF Sure, Prompt, Prepared, Concludes, At
  <2>2. CASE TaskOf[q] # TaskOf[r]
    BY <1>2, <1>3, <1>5, <2>2 DEF Sure, Prompt, Prepared, Concludes, HasClaim, At
  <2>. QED
    BY <2>1, <2>2
<1>7. Sure(r)' /\ Prompt(r)' /\ Prepared(r)' /\ Concludes(r)'
  <2>1. /\ n.pc \in {"acquire", "stale"} => ~x.intent
        /\ n.pc \in {"stale", "recover"} => x.claim > 0
        /\ n.pc = "recover" => ~x.terminal
        /\ n.pc \in {"acquire", "stale", "recover", "done"} /\ x.owner = r
        /\ n.catch # "preflightFailed"
    BY DEF Owning
  <2>. QED
    BY <1>2, <2>1 DEF Sure, Prompt, Prepared, Concludes, HasClaim, At, Undispatched, Preparing,
       Recorded, Judging, Engaged
<1>8. ASSUME NEW t \in Task PROVE Covered(t)'
  <2>1. n.pc \notin Withdrawing
    BY DEF Owning, Withdrawing
  <2>2. Unresolved(exec'[t]) => Unresolved(exec[t])
    BY <1>2 DEF Owning, Unresolved
  <2>3. \A y \in records : run[y.owner].pc \notin Withdrawing => run'[y.owner].pc \notin Withdrawing
    <3>1. \A y \in records : y.owner \in Owner
      BY DEF Secured, Inv, StoreInv, StoreTyped, LockRecord
    <3>. QED
      BY <1>2, <2>1, <3>1
  <2>4. Covered(t)
    BY DEF Secured, LockInv
  <2>. QED
    BY <1>4, <2>2, <2>3, <2>4 DEF Covered, Wanted
<1>9. \A t \in Task : exec'[t].terminal => Exists(exec'[t])
  <2>1. Exists(x)
    BY ExecutorAssumption DEF Owning, Exists
  <2>. QED
    BY <1>1, <1>2, <2>1 DEF Secured, LockInv
<1>10. Final
  BY <1>1, <1>2 DEF Final, Owning
<1>. QED
  BY <1>6, <1>7, <1>8, <1>9, <1>10 DEF LockInv

\* Who has no record yet is neither ended nor dispatched.
LEMMA Blank ==
  ASSUME Secured, NEW r \in Owner, ~Exists(Rec(r)) PROVE ~Rec(r).terminal /\ Rec(r).intent = FALSE
BY RecordTyped DEF ExecutionRecord, Secured, LockInv, Inv, IntentHasOwner, Rec

\* The first claim.
LEMMA CreateFits == ASSUME Secured, NEW r \in Owner, Create(r) PROVE LockInv' /\ Final
<1> DEFINE x == [NoRecord EXCEPT !.owner = r, !.claim = ClaimTicks]
<1>1. x.owner = r /\ x.claim = ClaimTicks /\ x.intent = FALSE /\ ~x.terminal /\ ClaimTicks > 0
  BY ExecutorAssumption DEF NoRecord
<1>2. To(r, "acquire").pc = "acquire" /\ To(r, "acquire").catch = run[r].catch
  BY Standing, RunForms DEF Steps
<1>3. run[r].pc = "done" /\ run[r].catch # "preflightFailed"
  BY Standing DEF Create, Fresh, At, Sure
<1>4. ~Rec(r).terminal /\ Rec(r).intent = FALSE /\ ~Exists(Rec(r))
  BY Blank DEF Create
<1>5. /\ exec' = [exec EXCEPT ![TaskOf[r]] = x] /\ run' = [run EXCEPT ![r] = To(r, "acquire")]
      /\ UNCHANGED storeVars
  BY DEF Create, storeVars
<1> HIDE DEF x
<1>6. Owning(r, To(r, "acquire"), x)
  BY <1>1, <1>2, <1>3, <1>4, <1>5 DEF Owning, At
<1>. QED
  BY <1>6, OwningKeeps

\* Declared work nobody claimed in time.
LEMMA MaterializeFits ==
  ASSUME Secured, NEW r \in Owner, Materialize(r) PROVE LockInv' /\ Final
<1> DEFINE x == Ended([NoRecord EXCEPT !.owner = r], "failed_pre_dispatch")
<1>1. x.owner = r /\ x.intent = FALSE
  BY DEF NoRecord, Ended
<1>2. run[r].pc = "done" /\ run[r].catch # "preflightFailed"
  BY Standing DEF Materialize, Fresh, At, Sure
<1>3. ~Rec(r).terminal /\ Rec(r).intent = FALSE /\ ~Exists(Rec(r))
  BY Blank DEF Materialize
<1>4. /\ exec' = [exec EXCEPT ![TaskOf[r]] = x] /\ run' = [run EXCEPT ![r] = run[r]]
      /\ UNCHANGED storeVars
  BY DEF Materialize, storeVars, Secured, Inv, ExecutorTyped
<1> HIDE DEF x
<1>5. Owning(r, run[r], x)
  BY <1>1, <1>2, <1>3, <1>4 DEF Owning, At
<1>. QED
  BY <1>5, OwningKeeps

\* An expired claim passes on.
LEMMA TakeOverFits == ASSUME Secured, NEW r \in Owner, TakeOver(r) PROVE LockInv' /\ Final
<1> DEFINE x == exec'[TaskOf[r]]
           n == IF Rec(r).intent
                  THEN [NotRunning EXCEPT !.pc = "recover", !.part = "recovering",
                                          !.tokens = Rec(r).tokens]
                  ELSE To(r, "stale")
<1>1. /\ Rec(r) \in ExecutionRecord /\ exec \in [Task -> ExecutionRecord]
      /\ TaskOf[r] \in Task
  BY Standing, RecordTyped DEF Secured, Inv, ExecutorTyped
<1>2. exec' = [exec EXCEPT ![TaskOf[r]] = x]
  BY <1>1 DEF TakeOver
<1>3. /\ x.owner = r /\ x.claim = ClaimTicks /\ ClaimTicks > 0
      /\ x.intent = Rec(r).intent /\ x.terminal = Rec(r).terminal
  BY <1>1, ExecutorAssumption DEF TakeOver, ExecutionRecord, Rec
<1>4. run[r].pc = "done" /\ run[r].catch # "preflightFailed"
  BY Standing DEF TakeOver, Fresh, At, Sure
<1>5. /\ Rec(r).intent => n.pc = "recover"
      /\ ~Rec(r).intent => n.pc = "stale"
      /\ n.catch # "preflightFailed"
  BY <1>4, Standing, RunForms DEF NotRunning, Steps
<1>6. /\ ~Rec(r).terminal /\ Rec(r).claim = 0 /\ run' = [run EXCEPT ![r] = n]
      /\ UNCHANGED storeVars
  BY DEF TakeOver, storeVars
<1> HIDE DEF x, n
<1>7. Owning(r, n, x)
  BY <1>1, <1>2, <1>3, <1>4, <1>5, <1>6 DEF Owning, At, ExecutionRecord
<1>. QED
  BY <1>7, OwningKeeps

\* A step that leaves the runs alone and keeps every lock.
LEMMA RestKeeps ==
  ASSUME Secured, StoreStep, run' = run, \A y \in records : Kept(y),
         \A t \in Task :
           /\ exec'[t].owner = exec[t].owner /\ exec'[t].intent = exec[t].intent
           /\ \/ exec'[t].terminal = exec[t].terminal /\ exec'[t].outcome = exec[t].outcome
              \/ ~exec[t].intent /\ ~exec[t].terminal /\ Exists(exec[t]),
         \A r \in Owner : run[r].pc \in {"stale", "recover"} => Rec(r)'.claim = Rec(r).claim
  PROVE  LockInv' /\ Final
<1>1. \A r \in Owner :
        /\ TaskOf[r] \in Task /\ (HasClaim(r)' <=> HasClaim(r))
        /\ Rec(r)'.intent = Rec(r).intent
        /\ \/ Rec(r)'.terminal = Rec(r).terminal /\ Rec(r)'.outcome = Rec(r).outcome
           \/ ~Rec(r).intent /\ ~Rec(r).terminal
  BY OwnerAssumption DEF Rec, HasClaim
<1>2. \A r \in Owner : Sure(r) /\ Prompt(r) /\ Prepared(r) /\ Concludes(r)
  BY DEF Secured, LockInv
<1>3. \A r \in Owner : (Owns(r) => Owns(r)') /\ (Covers(r) => Covers(r)')
  BY OwnsStays, CoversStays DEF Secured, Inv, StoreStep
<1>4. \A r \in Owner : Sure(r)' /\ Prompt(r)'
  BY <1>1, <1>2 DEF Sure, Prompt, At
<1>5. \A r \in Owner : Prepared(r)'
  BY <1>1, <1>2, <1>3 DEF Prepared
<1>6. \A r \in Owner : Concludes(r)'
  BY <1>1, <1>2, <1>3 DEF Concludes
<1>7. ASSUME NEW t \in Task PROVE Covered(t)'
  <2>1. Unresolved(exec'[t]) => Unresolved(exec[t])
    BY DEF Unresolved
  <2>2. Covered(t)
    BY DEF Secured, LockInv
  <2>. QED
    BY <2>1, <2>2 DEF Covered, Wanted, Kept, AmendmentOf
<1>8. \A t \in Task : exec'[t].terminal => Exists(exec'[t])
  BY DEF Secured, LockInv, Exists
<1>9. Final
  BY DEF Final
<1>. QED
  BY <1>4, <1>5, <1>6, <1>7, <1>8, <1>9 DEF LockInv

\* terminalize_expired_claim_pre_dispatch.
LEMMA RejectExpiredFits ==
  ASSUME Secured, NEW t \in Task, RejectExpired(t) PROVE LockInv' /\ Final
<1>1. StoreStep /\ \A y \in records : Kept(y)
  BY Untouched DEF RejectExpired, storeVars, Secured, KeptUsable, Kept
<1>2. exec \in [Task -> ExecutionRecord]
  BY DEF Secured, Inv, ExecutorTyped
<1>3. \A u \in Task : /\ exec'[u].owner = exec[u].owner /\ exec'[u].intent = exec[u].intent
                      /\ exec'[u].claim = exec[u].claim
                      /\ u # t => exec'[u] = exec[u]
  BY <1>2 DEF RejectExpired, Ended, ExecutionRecord
<1>4. \A r \in Owner : Rec(r)'.claim = Rec(r).claim
  BY <1>3, OwnerAssumption DEF Rec
<1>. QED
  BY <1>1, <1>3, <1>4, RestKeeps DEF RejectExpired

\* The lease renewer.
LEMMA RenewerFits == ASSUME Secured, NEW r \in Owner, Renewer(r) PROVE LockInv' /\ Final
<1>1. StoreStep /\ \A y \in records : Kept(y)
  BY RenewerTouches DEF Secured, KeptUsable, Kept
<1>. QED
  BY <1>1, RestKeeps DEF Renewer, execVars, Rec

\* A step that changes nothing.
LEMMA StutterFits == ASSUME Secured, UNCHANGED vars PROVE LockInv' /\ Final
<1>1. StoreStep /\ \A y \in records : Kept(y)
  BY Untouched DEF vars, storeVars, Secured, KeptUsable, Kept
<1>. QED
  BY <1>1, RestKeeps DEF vars, Rec

\* Time does not overtake a run that is about to touch the locks of another.
LEMMA TickFits == ASSUME Secured, Tick PROVE LockInv' /\ Final
<1>1. StoreStep
  BY PassLeasesKeeps DEF Tick, Secured, Inv
<1>2. \A y \in records : Kept(y)
  <2>1. \A y \in records : Aged(y) \in records' /\ AmendmentOf(Aged(y), y)
    BY Amendments DEF Tick, PassLeases, Secured, Inv, StoreInv, StoreTyped
  <2>. QED
    BY <2>1 DEF Kept
<1>3. ASSUME NEW t \in Task
      PROVE  /\ exec'[t].owner = exec[t].owner /\ exec'[t].intent = exec[t].intent
             /\ exec'[t].terminal = exec[t].terminal /\ exec'[t].outcome = exec[t].outcome
  <2>1. /\ exec[t] \in ExecutionRecord
        /\ exec'[t] = [exec[t] EXCEPT !.claim = Decreased(@), !.deadline = Decreased(@)]
    BY DEF Tick, Secured, Inv, ExecutorTyped
  <2>. QED
    BY <2>1 DEF ExecutionRecord
<1>4. \A r \in Owner : run[r].pc \notin {"stale", "recover"}
  BY DEF Tick, Secured, Timely
<1>. QED
  BY <1>1, <1>2, <1>3, <1>4, RestKeeps DEF Tick

\* Every step of a run keeps the locks of the unresolved effects.
LEMMA RunStepFits == ASSUME Secured, NEW r \in Owner, RunStep(r) PROVE LockInv' /\ Final
<1>1. CASE BeforeIntent(r)
  BY <1>1, ReleaseStaleFits, AcquireLocksFits, ConflictFits, RecordLocksFits, FailLocksFits,
     CleanupFits, PreflightFits, RecordPreflightFits, NoopFits, RejectFits,
     PreflightFailedFits, AuthorityFits, RefusedFits DEF BeforeIntent
<1>2. CASE AtBoundary(r)
  BY <1>2, DispatchFits, ApproveFits, CommitFits, SendFits, ConfirmedFits, SentFits,
     FailedFits DEF AtBoundary
<1>3. CASE AfterIntent(r)
  BY <1>3, ObserveFits, ObservingFits, ObserveFailedFits, VerifyFits, VerifyFailedFits,
     HoldFits, ReviewFits, HoldAfterReviewFits, RenewLocksFits, YieldClaimFits,
     RecoverHandleFits, ReplaceLocksFits, ReleaseLocksFits, SettleFits DEF AfterIntent
<1>. QED
  BY <1>1, <1>2, <1>3 DEF RunStep

\* So does everything else.
LEMMA LockInvStep == ASSUME Secured, [Next]_vars PROVE LockInv' /\ Final
<1>1. ASSUME NEW r \in Owner, Execute(r) PROVE LockInv' /\ Final
  BY <1>1, CreateFits, JoinTerminalFits, TakeOverFits DEF Execute
<1>2. ASSUME NEW r \in Owner, Renewer(r) \/ Cancel(r) \/ Materialize(r) \/ Crash(r)
      PROVE  LockInv' /\ Final
  BY <1>2, RenewerFits, CancelFits, MaterializeFits, CrashFits
<1>. QED
  BY <1>1, <1>2, RunStepFits, RejectExpiredFits, TickFits, StutterFits DEF Next

\* At the start there is nothing to cover.
LEMMA LockInvInit == Init => LockInv
<1> SUFFICES ASSUME Init PROVE LockInv
  OBVIOUS
<1>1. \A r \in Owner : run[r].pc = "done" /\ run[r].catch = "none"
  BY DEF Init, NotRunning
<1>2. \A t \in Task : ~exec[t].intent /\ ~exec[t].terminal
  BY DEF Init, NoRecord
<1>3. "done" \notin Undispatched \union Preparing \union Judging \union {"stale", "recover"}
  BY DEF Undispatched, Preparing, Recorded, Judging
<1>. QED
  BY <1>1, <1>2, <1>3 DEF LockInv, Sure, Prompt, Prepared, Concludes, Covered, Unresolved

\* The invariant of a timely execution.
LEMMA SecuredAlways == Timely => (Spec => [](Inv /\ SendInv /\ LockInv))
<1> SUFFICES ASSUME Timely PROVE Spec => [](Inv /\ SendInv /\ LockInv)
  OBVIOUS
<1>1. Init => Inv /\ SendInv /\ LockInv
  BY InitInv, SendInvInit, LockInvInit
<1>2. Inv /\ SendInv /\ LockInv /\ [Next]_vars => (Inv /\ SendInv /\ LockInv)'
  BY InvStep, SendInvStep, LockInvStep DEF Secured
<1>. QED
  BY <1>1, <1>2, PTL DEF Spec

\* "Deadline or process loss never authorizes silent lock release" (ADR-013): for
\* any number of tasks, runs, keys, deaths and stalls, while the effect of a task
\* is unresolved every key it must keep has a record of that task, if the storage
\* does not fail and no timer overtakes a claim before it touches the locks.
THEOREM UnresolvedKeeps == Timely => (Spec => []UnresolvedKeepsLocks)
<1> SUFFICES ASSUME Timely PROVE Spec => []UnresolvedKeepsLocks
  OBVIOUS
<1>1. LockInv => UnresolvedKeepsLocks
  BY DEF LockInv, Covered, UnresolvedKeepsLocks, RecordsOn
<1>. QED
  BY <1>1, SecuredAlways, PTL

\* Under the same conditions a terminal outcome is never replaced or reopened,
\* although record_verification does not ask whether the record has ended.
THEOREM TerminalStays == Timely => (Spec => TerminalIsFinal)
<1> SUFFICES ASSUME Timely PROVE Spec => TerminalIsFinal
  OBVIOUS
<1>1. Inv /\ SendInv /\ LockInv /\ [Next]_vars =>
         [\A t \in Task : exec[t].terminal =>
            exec'[t].terminal /\ exec'[t].outcome = exec[t].outcome]_vars
  BY LockInvStep DEF Secured, Final
<1>. QED
  BY <1>1, SecuredAlways, PTL DEF Spec, TerminalIsFinal

\* So a key never stands under the unresolved effects of two tasks, if what a task
\* retains it asked for exclusively: its target, and not what it shares with others
\* (the service, the reload domain, the provider).
THEOREM OneEffect ==
  Timely /\ (\A t \in Task : \A k \in HoldKeys[t] :
               [key |-> k, mode |-> "exclusive"] \in Requests[t])
    => (Spec => []OneEffectPerKey)
<1> SUFFICES ASSUME Timely,
                    \A t \in Task : \A k \in HoldKeys[t] :
                      [key |-> k, mode |-> "exclusive"] \in Requests[t]
             PROVE  Spec => []OneEffectPerKey
  OBVIOUS
<1>1. \A t \in Task : \A k \in HoldKeys[t] : Wanted(t, k) = "exclusive"
  BY ExecutorAssumption DEF Wanted, NormalizeLockRequests
<1>2. ASSUME Inv, LockInv PROVE OneEffectPerKey
  <2> SUFFICES ASSUME NEW t \in Task, NEW u \in Task, t # u, Unresolved(exec[t]),
                      Unresolved(exec[u]), NEW k \in HoldKeys[t] \intersect HoldKeys[u]
               PROVE  FALSE
    BY DEF OneEffectPerKey
  <2>1. PICK x \in records : x.key = k /\ x.mode = "exclusive" /\ TaskOf[x.owner] = t
    BY <1>1, <1>2 DEF LockInv, Covered
  <2>2. PICK y \in records : y.key = k /\ y.mode = "exclusive" /\ TaskOf[y.owner] = u
    BY <1>1, <1>2 DEF LockInv, Covered
  <2>. QED
    BY <1>2, <2>1, <2>2 DEF Inv, StoreInv, Compatible
<1>3. Inv /\ SendInv /\ LockInv => OneEffectPerKey
  BY <1>2
<1>. QED
  BY <1>3, SecuredAlways, PTL
=============================================================================
