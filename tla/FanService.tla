----------------------------- MODULE FanService -----------------------------
(***************************************************************************)
(* FanService (fan/service.py, with the power and helper services that     *)
(* specialise it) over the shared lock store: declarations, the executions *)
(* a process runs, the read-only recovery of what a process left behind,   *)
(* and the release of manual-review holds on an administrator's decision.  *)
(*                                                                         *)
(* Several processes share the files; a process dies at any point.  A step *)
(* is one durable write with the memory that changes beside it.  The steps *)
(* inside an execution are those of F3Executor, seen here at the records   *)
(* the service reads; the owner ids of one task's claims are one owner,    *)
(* and leases do not age (an expired lease blocks like a live one).        *)
(***************************************************************************)
EXTENDS DurableLockStore

CONSTANTS
  Process,        \* processes that serve the same root
  NoProcess,      \* a claim that is free, a call not yet made
  Lost,           \* a claim whose owner no longer runs, a call that is over
  Call, TaskFor,  \* control calls, and the task each one's operation ID names
  EntityKey,      \* the key of the entity a task controls
  CoreKey,        \* home_assistant:core, shared by all
  Before,         \* the order of the task files in a sweep: an injection to Nat
  MaxActive,      \* MAX_ACTIVE
  MaxRecords,     \* MAX_RECORDS
  SweepLimit,     \* declarations one recovery pass visits
  MaxFaults,      \* bound: crashes, failed writes, lost claims
  MaxRotations    \* bound: rotations of the audit log

ASSUME FanAssumption ==
  /\ Owner = Task /\ TaskOf = [t \in Task |-> t] /\ IsFiniteSet(Task)
  /\ CoreKey \in Key /\ EntityKey \in [Task -> Key \ {CoreKey}]
  /\ Before \in [Task -> Nat]
  /\ \A t, u \in Task : Before[t] = Before[u] => t = u
  /\ {NoProcess, Lost} \intersect Process = {} /\ NoProcess # Lost
  /\ IsFiniteSet(Call) /\ TaskFor \in [Call -> Task]
  /\ MaxActive \in Nat /\ MaxRecords \in Nat /\ SweepLimit \in Nat \ {0}
  /\ MaxFaults \in Nat /\ MaxRotations \in Nat

VARIABLES
  declared,    \* tasks with a declaration file
  expired,     \* tasks whose operation ID is no longer fresh
  record,      \* the execution record of each task
  release,     \* the release sidecar of each task
  call,        \* the process that prepares each call
  active,      \* tasks each process executes
  deciding,    \* release requests that have their fresh readback
  transaction, \* who finishes which release inside the declaration lock
  audit,       \* how often the current and the rotated file tell of a release
  enabled,     \* whether the audit logger of a process is enabled
  logged,      \* history only: releases the log was ever told of
  left         \* what is left of each bound

releases == <<release, audit, logged>>
vars == <<storeVars, declared, expired, record, releases, call, active, deciding,
          transaction, enabled, left>>

\* "locked": its lock tokens are recorded; "intent": its one dispatch intent.
\* locks: whether the tokens of the record name the locks the task has, and for
\* the owner that has the claim ("own"), or for an earlier owner ("old"); or the
\* locks have passed to the owner of the claim and the record is yet to say so
\* ("moved"); or nobody can say so any more ("lost").
RecordState == {"none", "claimed", "locked", "intent", "review", "done"}
Nonterminal == {"claimed", "locked", "intent"}
NoRecord == [state |-> "none", claim |-> NoProcess, late |-> FALSE, locks |-> "own"]
NoTransaction == [step |-> "free"]
Free == transaction = NoTransaction

Init ==
  /\ StoreInit
  /\ declared = {} /\ expired = {}
  /\ record = [t \in Task |-> NoRecord]
  /\ release = [t \in Task |-> "none"]
  /\ call = [c \in Call |-> NoProcess]
  /\ active = [p \in Process |-> {}]
  /\ deciding = [p \in Process |-> {}]
  /\ transaction = NoTransaction
  /\ audit = [current |-> [t \in Task |-> 0], rotated |-> [t \in Task |-> 0]]
  /\ enabled = [p \in Process |-> TRUE]
  /\ logged = {}
  /\ left = [faults |-> MaxFaults, rotations |-> MaxRotations]

Spend(bound) == left[bound] > 0 /\ left' = [left EXCEPT ![bound] = @ - 1]
SetRecord(t, state, claim) ==
  record' = [record EXCEPT ![t] =
    [state |-> state, claim |-> claim, late |-> @.late /\ state = "intent",
     locks |-> @.locks]]
Drop(f, p, t) == [f EXCEPT ![p] = @ \ {t}]
Put(f, p, t) == [f EXCEPT ![p] = @ \union {t}]

(***************************************************************************)
(* Control: a call prepares, declares its task and starts the execution.   *)
(***************************************************************************)
Preparing(p) == {c \in Call : call[c] = p}

\* Mutant: calls in preparation take no place.
HasRoomForActive(p) == Cardinality(active[p]) < MaxActive
HasRoom(p) == Cardinality(active[p]) + Cardinality(Preparing(p)) < MaxActive

\* A task that is declared already is only reconciled.
Control(p, c) ==
  /\ call[c] = NoProcess
  /\ TaskFor[c] \notin declared \union expired
  /\ HasRoom(p)
  /\ call' = [call EXCEPT ![c] = p]
  /\ UNCHANGED <<storeVars, declared, expired, record, releases, active, deciding,
                 transaction, enabled, left>>

\* Preparation, the late freshness check or the capacity of save refuses.
PrepareFails(c) ==
  /\ call[c] \in Process
  /\ call' = [call EXCEPT ![c] = Lost]
  /\ UNCHANGED <<storeVars, declared, expired, record, releases, active, deciding,
                 transaction, enabled, left>>

Starts(p, t) == t \notin active[p] /\ record[t].state = "none"

\* Mutant: a failed save does not keep the execution from starting.
DeclareUnsaved(p, c) ==
  LET t == TaskFor[c]
  IN /\ call[c] = p /\ t \notin expired /\ Free
     /\ t \notin declared => Cardinality(declared) < MaxRecords
     /\ declared' \in {declared, declared \union {t}}
     /\ active' = IF Starts(p, t) THEN Put(active, p, t) ELSE active
     /\ call' = [call EXCEPT ![c] = Lost]
     /\ UNCHANGED <<storeVars, expired, record, releases, deciding,
                    transaction, enabled, left>>

\* save, and what follows it without an await.
Declare(p, c) ==
  LET t == TaskFor[c]
  IN /\ call[c] = p /\ t \notin expired /\ Free
     /\ t \notin declared => Cardinality(declared) < MaxRecords
     /\ declared' = declared \union {t}
     /\ active' = IF Starts(p, t) THEN Put(active, p, t) ELSE active
     /\ call' = [call EXCEPT ![c] = Lost]
     /\ UNCHANGED <<storeVars, expired, record, releases, deciding,
                    transaction, enabled, left>>

(***************************************************************************)
(* Execution: what the shared executor writes for a task.                  *)
(***************************************************************************)
\* Mutant: two tasks may control one entity.
SharedRequests(t) == {[key |-> k, mode |-> "shared"] : k \in {EntityKey[t], CoreKey}}
LockRequests(t) == {[key |-> EntityKey[t], mode |-> "exclusive"],
                    [key |-> CoreKey, mode |-> "shared"]}
Handle(t) == HandleOf(t, HeldBy(t))
Terminal(t) == record[t].state \in {"review", "done"}
Owns(p, t, states) == record[t].claim = p /\ record[t].state \in states

\* FanLockStore.hold_settled: of the task's locks the entity's hold remains.
HoldSettled(t) == \E r \in records : HeldBy(t) = {r} /\ r.hold /\ r.key = EntityKey[t]
Settled(t) ==
  \/ record[t].state = "done" /\ HeldBy(t) = {}
  \/ record[t].state = "review" /\ (release[t] # "none" \/ HoldSettled(t))

Executing == UNCHANGED <<declared, expired, releases, call, deciding, transaction, enabled>>

Claim(p, t) ==
  /\ t \in active[p] /\ record[t].state = "none"
  /\ SetRecord(t, "claimed", p)
  /\ UNCHANGED <<storeVars, active, left>> /\ Executing

Acquire(p, t) ==
  /\ Owns(p, t, {"claimed"})
  /\ AcquireOnce(t, LockRequests(t))
  /\ SetRecord(t, "locked", p)
  /\ UNCHANGED <<active, left>> /\ Executing

\* A lock conflict, a refused preflight, authorization or dispatch, a no-op.  A
\* terminal record keeps its last owner on disk; nobody reads it as a claim.
Refuse(p, t) ==
  /\ Owns(p, t, {"claimed", "locked"})
  /\ SetRecord(t, "done", NoProcess)
  /\ UNCHANGED <<storeVars, active, left>> /\ Executing

\* The connector's authorization is checked once more before the intent.
Commit(p, t) ==
  /\ t \in active[p] /\ Owns(p, t, {"locked"}) /\ t \notin expired
  /\ SetRecord(t, "intent", p)
  /\ UNCHANGED <<storeVars, active, left>> /\ Executing

\* The verdict of an observation; after the evidence deadline there is one.
Verdict(p, t) ==
  /\ Owns(p, t, {"intent"}) /\ record[t].locks = "own"
  /\ \/ SetRecord(t, "done", NoProcess)
     \/ SetRecord(t, "review", NoProcess)
     \/ ~record[t].late /\ SetRecord(t, "intent", NoProcess)
  /\ UNCHANGED <<storeVars, active, left>> /\ Executing

\* FanLockStore.promote_to_conflict_hold keeps the entity only.
Retained(t) == {EntityKey[t]}

\* Locks after a terminal record.
SettleLocks(t) ==
  /\ Terminal(t) /\ ~Settled(t) /\ HeldBy(t) # {}
  /\ IF record[t].state = "done" THEN Release(Handle(t), FALSE)
     ELSE PromoteConflictHold(Handle(t), Retained(t))

Ended(p, t) == active' = Drop(active, p, t)

\* The last step of a run: it settles its locks, or they are settled, or
\* another run has its claim.
End(p, t) ==
  /\ t \in active[p]
  /\ \/ SettleLocks(t)
     \/ /\ record[t].claim # p /\ record[t].state # "none"
        /\ Terminal(t) => Settled(t)
        /\ UNCHANGED storeVars
  /\ Ended(p, t)
  /\ UNCHANGED <<record, left>> /\ Executing

\* An error ends a run anywhere, also one that only recovers.
Fail(p, t) ==
  /\ t \in active[p] \/ record[t].claim = p
  /\ Spend("faults")
  /\ Ended(p, t)
  /\ record' = [record EXCEPT ![t].claim = IF @ = p THEN Lost ELSE @]
  /\ UNCHANGED storeVars /\ Executing

(***************************************************************************)
(* Recovery: a call about a declared task, or the sweep, reconciles it.    *)
(***************************************************************************)
CanReconcile(p, t) == t \in declared /\ t \notin active[p]

Ownerless(t) == record[t].state = "none" /\ t \in expired
\* Cancel a declaration nobody claimed, or a claim that ran out before intent.
Cancel(p, t) ==
  /\ CanReconcile(p, t)
  /\ \/ Ownerless(t)
     \/ record[t].claim = NoProcess /\ record[t].state \in {"claimed", "locked"}
  /\ SetRecord(t, "done", NoProcess)
  /\ UNCHANGED <<storeVars, active, left>> /\ Executing

Bind(t, claim, locks) ==
  /\ record' = [record EXCEPT ![t].claim = claim, ![t].locks = locks]
  /\ UNCHANGED <<storeVars, active, left>> /\ Executing

\* Read-only recovery of a dispatched task whose claim ran out.  A transfer that
\* nobody recorded stays unrecorded: its owner is no longer the one of the claim.
TakeOver(p, t) ==
  /\ CanReconcile(p, t)
  /\ record[t].state = "intent" /\ record[t].claim = NoProcess
  /\ Bind(t, p, IF record[t].locks \in {"moved", "lost"} THEN "lost" ELSE "old")

\* _recovery_handle: the locks pass to the owner of the claim in one transaction
\* of the lock store (a new owner id and generation, which are not told apart
\* here), and the record gets their tokens in one of the repository.
TransferLocks(p, t) ==
  Owns(p, t, {"intent"}) /\ record[t].locks = "old" /\ Bind(t, p, "moved")
RecordTransfer(p, t) ==
  Owns(p, t, {"intent"}) /\ record[t].locks = "moved" /\ Bind(t, p, "own")
\* It yields its claim while a lease of the earlier owner runs, which it no longer
\* does after the evidence deadline, and for ever if no lock matches.
AwaitLease(p, t) ==
  /\ Owns(p, t, {"intent"})
  /\ record[t].locks = "lost" \/ (record[t].locks = "old" /\ ~record[t].late)
  /\ Bind(t, NoProcess, record[t].locks)

\* reconcile_terminal_hold retries the settlement of an interrupted review.  For
\* any other outcome the reconciliation that ended the task, or a later call
\* about it, gives the locks back; nothing here promises that it comes.
Settle(p, t) ==
  /\ CanReconcile(p, t)
  /\ SettleLocks(t)
  /\ UNCHANGED <<record, active, left>> /\ Executing

\* Reconciliation of a released task only finishes the release.
Finish(p, t) ==
  /\ CanReconcile(p, t) /\ Free
  /\ release[t] = "decided" \/ (release[t] = "released" /\ enabled[p])
  /\ transaction' = [process |-> p, task |-> t,
                     step |-> IF release[t] = "decided" THEN "clear" ELSE "audit"]
  /\ UNCHANGED <<storeVars, declared, expired, record, releases, call, active, deciding,
                 enabled, left>>

Reconcile(p, t) == Cancel(p, t) \/ TakeOver(p, t) \/ Settle(p, t) \/ Finish(p, t)

\* _hold_settled.  (Mutant: a release is settled as soon as its hold is gone.)
SettledOnceCleared(p, t) ==
  IF release[t] = "none" THEN HoldSettled(t) ELSE HeldBy(t) = {}
ReleaseSettled(p, t) ==
  IF release[t] = "none" THEN HoldSettled(t)
  ELSE /\ release[t] # "decided" /\ HeldBy(t) = {}
       /\ release[t] = "audited" \/ ~enabled[p]

\* recover_once visits the first candidates in the order of their files.
\* (Mutant: a declaration without a record is none.)
Recorded(p) ==
  {t \in declared : \/ record[t].state \in Nonterminal
                    \/ record[t].state = "review" /\ ~ReleaseSettled(p, t)}
Candidates(p) ==
  {t \in declared : \/ record[t].state \in Nonterminal \union {"none"}
                    \/ record[t].state = "review" /\ ~ReleaseSettled(p, t)}
Visits(p, t) ==
  /\ t \in Candidates(p)
  /\ Cardinality({u \in Candidates(p) : Before[u] < Before[t]}) < SweepLimit

(***************************************************************************)
(* The release of a hold: review, decision, and its durable completion.    *)
(***************************************************************************)
\* hold_release_item.  The bound facts of a terminal record and of its one
\* hold do not change while the item exists.
Releasable(p, t) ==
  /\ t \in declared /\ t \notin active[p]
  /\ record[t].state = "review" /\ release[t] = "none" /\ HoldSettled(t)

Panel == UNCHANGED <<storeVars, declared, expired, record, audit, logged, call, active,
                     transaction, enabled, left>>

\* release_hold up to the fresh readback, which shows the state the
\* administrator reviewed; otherwise the request is refused.
ReadBack(p, t) ==
  /\ Releasable(p, t)
  /\ deciding' = Put(deciding, p, t)
  /\ UNCHANGED release /\ Panel

\* Mutant: the facts checked before the readback are not checked again.
DecidableUnchecked(p, t) == t \in deciding[p]
Decidable(p, t) == t \in deciding[p] /\ Releasable(p, t)

\* The decision becomes durable under the declaration lock, or is refused.
Decide(p, t) ==
  /\ t \in deciding[p] /\ Free
  /\ release' = IF Decidable(p, t) THEN [release EXCEPT ![t] = "decided"] ELSE release
  /\ deciding' = Drop(deciding, p, t)
  /\ Panel

Finishing(p, t, step) == transaction = [process |-> p, task |-> t, step |-> step]
Then(step) == transaction' = [transaction EXCEPT !.step = step]
Leave == transaction' = NoTransaction
Completing == UNCHANGED <<declared, expired, record, call, active, deciding, enabled>>

\* _finish_hold_release, one durable step after the other.
ClearHold(p, t) ==
  /\ Finishing(p, t, "clear")
  /\ IF HeldBy(t) = {} THEN UNCHANGED storeVars
     ELSE ReleaseConflictHold(t, Handle(t).tokens)
  /\ Then("mark")
  /\ UNCHANGED <<releases, left>> /\ Completing

MarkReleased(p, t) ==
  /\ Finishing(p, t, "mark")
  /\ release' = [release EXCEPT ![t] = "released"]
  /\ Then("audit")
  /\ UNCHANGED <<storeVars, audit, logged, left>> /\ Completing

\* Mutant: an entry is looked for in the current file only.
KnownInCurrent(t) == audit.current[t] > 0
\* write_batch drops an entry whose ID a retained file has.
Known(t) == audit.current[t] + audit.rotated[t] > 0
Append(t) ==
  /\ audit' = [audit EXCEPT !.current[t] = @ + 1]
  /\ logged' = logged \union {t}

\* Mutant: a disabled logger, which reports success, is believed.
AnyLogger(p) == TRUE
AuditEnabled(p) == enabled[p]

WriteEntry(p, t) ==
  /\ Finishing(p, t, "audit") /\ AuditEnabled(p)
  /\ IF Known(t) \/ ~enabled[p] THEN UNCHANGED <<audit, logged>> ELSE Append(t)
  /\ Then("record")
  /\ UNCHANGED <<storeVars, release, left>> /\ Completing

\* A failed write may have reached the file; a disabled logger writes nothing.
LeaveUnaudited(p, t) ==
  /\ Finishing(p, t, "audit")
  /\ \/ ~AuditEnabled(p) /\ UNCHANGED <<audit, logged, left>>
     \/ /\ AuditEnabled(p) /\ ~Known(t) /\ Spend("faults")
        /\ Append(t) \/ UNCHANGED <<audit, logged>>
  /\ Leave
  /\ UNCHANGED <<storeVars, release>> /\ Completing

RecordAudit(p, t) ==
  /\ Finishing(p, t, "record")
  /\ release' = [release EXCEPT ![t] = "audited"]
  /\ Leave
  /\ UNCHANGED <<storeVars, audit, logged, left>> /\ Completing

\* A write of the sidecar or of the lock file fails.
Interrupt ==
  /\ ~Free /\ Spend("faults")
  /\ Leave
  /\ UNCHANGED <<storeVars, releases>> /\ Completing

(***************************************************************************)
(* The environment: time, deaths, and the other writers of the audit log.  *)
(***************************************************************************)
\* Nothing asks for the freshness of an operation after its intent.
Expire(t) ==
  /\ t \notin expired /\ record[t].state \in {"none", "claimed", "locked"}
  /\ expired' = expired \union {t}
  /\ UNCHANGED <<storeVars, declared, record, releases, call, active, deciding,
                 transaction, enabled, left>>

PassDeadline(t) ==
  /\ record[t].state = "intent" /\ ~record[t].late
  /\ record' = [record EXCEPT ![t].late = TRUE]
  /\ UNCHANGED <<storeVars, active, left>> /\ Executing

\* The claim of a dead owner runs out; that of a stalled one may.
ClaimRunsOut(t) ==
  /\ record[t].claim # NoProcess
  /\ IF record[t].claim = Lost THEN UNCHANGED left ELSE Spend("faults")
  /\ record' = [record EXCEPT ![t].claim = NoProcess]
  /\ UNCHANGED <<storeVars, active>> /\ Executing

\* A process dies and is started again, perhaps with another audit setting.
Crash(p) ==
  /\ Spend("faults")
  /\ record' = [t \in Task |-> IF record[t].claim = p THEN [record[t] EXCEPT !.claim = Lost]
                                                    ELSE record[t]]
  /\ call' = [c \in Call |-> IF call[c] = p THEN Lost ELSE call[c]]
  /\ active' = [active EXCEPT ![p] = {}]
  /\ deciding' = [deciding EXCEPT ![p] = {}]
  /\ transaction' = IF Free THEN NoTransaction
                    ELSE IF transaction.process = p THEN NoTransaction ELSE transaction
  /\ \E on \in BOOLEAN : enabled' = [enabled EXCEPT ![p] = on]
  /\ UNCHANGED <<storeVars, declared, expired, releases>>

\* A rotation that moves no entry of a release changes nothing here.
Rotate ==
  /\ \E t \in Task : audit.current[t] > 0
  /\ Spend("rotations")
  /\ audit' = [current |-> [t \in Task |-> 0], rotated |-> audit.current]
  /\ UNCHANGED <<storeVars, declared, expired, record, release, logged, call, active, deciding,
                 transaction, enabled>>

-----------------------------------------------------------------------------
Execution(p, t) ==
  \/ Claim(p, t) \/ Acquire(p, t) \/ Refuse(p, t) \/ Commit(p, t) \/ Verdict(p, t)
  \/ TransferLocks(p, t) \/ RecordTransfer(p, t) \/ AwaitLease(p, t) \/ End(p, t)
Completion(p, t) ==
  \/ ClearHold(p, t) \/ MarkReleased(p, t) \/ WriteEntry(p, t)
  \/ LeaveUnaudited(p, t) \/ RecordAudit(p, t)
Decision(p, t) == ReadBack(p, t) \/ Decide(p, t)

Next ==
  \/ \E p \in Process, c \in Call : Control(p, c) \/ Declare(p, c)
  \/ \E c \in Call : PrepareFails(c)
  \/ \E p \in Process, t \in Task :
       Execution(p, t) \/ Fail(p, t) \/ Reconcile(p, t) \/ Decision(p, t) \/ Completion(p, t)
  \/ \E t \in Task : Expire(t) \/ PassDeadline(t) \/ ClaimRunsOut(t)
  \/ \E p \in Process : Crash(p)
  \/ Interrupt \/ Rotate

Spec == Init /\ [][Next]_vars

Sweep(p, t) == Visits(p, t) /\ Reconcile(p, t)
TimePasses(t) ==
  Expire(t) \/ PassDeadline(t) \/ (record[t].claim = Lost /\ ClaimRunsOut(t))

\* The runs of a task and the one finisher go on, every process sweeps again and
\* again (application._supervise_f3_recovery, every 30 s), and time passes.
Fairness ==
  /\ \A t \in Task : WF_vars(\E p \in Process : Execution(p, t))
  /\ WF_vars(\E p \in Process, t \in Task : Completion(p, t))
  /\ \A p \in Process : WF_vars(\E t \in Task : Sweep(p, t))
  /\ WF_vars(\E t \in Task : TimePasses(t))
FairSpec == Spec /\ Fairness

-----------------------------------------------------------------------------
(* Properties.                                                             *)

\* Every variable keeps its shape, and only what has a declaration on disk
\* executes: a process that dies leaves nothing the sweep does not know of.
TypeOK ==
  /\ records \subseteq LockRecord /\ nextGeneration \in Nat \ {0}
  /\ declared \subseteq Task /\ expired \subseteq Task
  /\ record \in [Task -> [state : RecordState, claim : Process \union {NoProcess, Lost},
                          late : BOOLEAN, locks : {"own", "old", "moved", "lost"}]]
  /\ release \in [Task -> {"none", "decided", "released", "audited"}]
  /\ call \in [Call -> Process \union {NoProcess, Lost}]
  /\ \A f \in {active, deciding} : f \in [Process -> SUBSET Task]
  /\ \A p \in Process : active[p] \subseteq declared
  /\ transaction \in {NoTransaction} \union
       [process : Process, task : Task, step : {"clear", "mark", "audit", "record"}]
  /\ audit \in [current : [Task -> Nat], rotated : [Task -> Nat]]
  /\ enabled \in [Process -> BOOLEAN]
  /\ logged \subseteq Task
  /\ left \in [faults : Nat, rotations : Nat]

\* The capacity counts what is preparing and what executes: no order of calls,
\* declarations and ends takes a process beyond MAX_ACTIVE.
WithinCapacity ==
  \A p \in Process : Cardinality(active[p]) + Cardinality(Preparing(p)) <= MaxActive

\* While the effect of a task is unresolved and no administrator has decided
\* about it, no other task controls the entity, whichever processes died
\* between the verdict, its hold and the release.
EntityReusedAfterDecision ==
  \A t, u \in Task :
    /\ t # u /\ EntityKey[t] = EntityKey[u]
    /\ record[t].state \in {"intent", "review"} /\ release[t] = "none"
    => record[u].state # "intent"

\* The retained log tells of a release once, although the entry and the flag
\* in the sidecar are two writes, in whichever process they happen.
ToldOnce == \A t \in Task : audit.current[t] + audit.rotated[t] <= 1

\* audit_recorded is never claimed for an entry that was not written, also not
\* with a disabled logger, which reports success for every batch.
AuditFlagIsTrue == \A t \in Task : release[t] = "audited" => t \in logged

\* A run died, or its write failed, between the transfer of the locks and its
\* recording: the record's tokens match nothing, and no recovery gets past that
\* (executor.py:1083; the run lost_transfer of F3Executor).
Stranded(t) ==
  /\ record[t].state = "intent"
  /\ record[t].locks = "lost" \/ (record[t].locks = "moved" /\ record[t].claim \notin Process)
\* Stranded declarations are candidates for ever: as many as one pass visits
\* starve all that follow them.
Starved == Cardinality({t \in Task : Stranded(t)}) >= SweepLimit

\* "A crash or audit failure after any step leaves a state the next recovery
\* pass completes": a decision leads to a cleared, marked and audited release,
\* unless the passes come to visit stranded declarations only.
DecisionCompletes ==
  \A t \in Task : release[t] = "decided" ~>
    \/ /\ HeldBy(t) = {}
       /\ release[t] = "audited" \/ (release[t] = "released" /\ \E p \in Process : ~enabled[p])
    \/ Starved

\* Every declaration ends, and every review comes to hold its entity and nothing
\* else, wherever a process died or a write failed, unless one fell between the
\* transfer and its recording: of the task, or of enough others to fill a pass.
DeclarationsEnd ==
  \A t \in Task :
    t \in declared ~> \/ Terminal(t) /\ (record[t].state = "review" => Settled(t))
                      \/ Stranded(t) \/ Starved

\* The promise this implements.
HoldOf(t) == {r \in HeldBy(t) : r.hold}
StageOf(t) ==
  CASE release[t] \in {"released", "audited"} -> "released"
    [] release[t] = "decided" -> IF HoldOf(t) = {} THEN "lifted" ELSE "decided"
    [] OTHER -> IF HoldOf(t) = {} THEN "open" ELSE "held"
HR == INSTANCE HoldRelease WITH stage <- [t \in Task |-> StageOf(t)]

\* A hold is lifted after one durable decision about it, never again decided,
\* and the log tells of completed releases only.
ReleaseSpec == HR!Spec
=============================================================================
