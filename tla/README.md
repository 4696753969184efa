# A verification development of the F3 execution core and what surrounds it

`hass-mcp-admin` is a Home Assistant add-on through which an AI client changes a
home: configuration, dashboards, helpers, and one fan, light or switch at a time.
Its promise is that a change is applied **once**, is verified by read-back, and
that a target whose last change is uncertain is closed to the next one.  The code
that keeps the promise is the F3 core (`hass_mcp_engineering_beta/ha_mcp_engineering/f3`):
a durable lock store, a durable execution repository and the executor that
drives both across crashes, stalls and several processes.  Around the core stand
the services that declare tasks and let an administrator release what is under
review (`fan/`, specialised by `power/`), the runtime that applies an approved plan
of several operations and recovers it (`f3_runtime/` with the tasks of
`governance/`), and the readmission of Home Assistant Core
(`ha_core_readmission`), which decides when a changed or restarted Core may be
written to again.  These are modelled here and model-checked with TLC; the
safety of all five is proved with TLAPS for every number of tasks, processes,
requests, deaths and steps; where it rests on a condition on time or storage, the
theorem names it.

Paths below are relative to `ha_mcp_engineering/`.

## Inventory

| Component | State | Operations | What makes it correct |
|---|---|---|---|
| Durable lock store, `f3/locks.py` | one file: lock records, `next_generation` | acquire, renew, release, transfer_complete, settle_unrecorded, promote, release_conflict_hold, recover_expired | incompatible holders never share a key; a lost token stays lost; expiry never frees a key |
| Execution repository, `f3/persistence.py` | one file per task: claim, outcome, lock tokens, intent, attempts, events | claim, record_*, commit_dispatch_intent, terminalize_*, cancel, materialize, yield | a claim fences every write; an intent is written once; terminal outcomes stay |
| Shared executor, `f3/executor.py` | locals of a run, lease renewer, per-task asyncio lock | execute, recover, observe and verify, settle, cancel | at most one provider call; unresolved work keeps its locks and ends |
| Fan and power services, `fan/`, `power/` | declarations, active set, hold-release sidecars | control, reconcile, release_hold | a request is declared once; a hold release is authorised once and finishes after a crash |
| F3 runtime, `f3_runtime/` | child declarations, runtime envelopes, recovery checkpoint and cursors, back-off | apply, consume the approval, execute children, project, cancel, recover, reconcile orphans, read back under ended tasks | operations run in order under one witnessed approval; an ended task sends nothing; what was sent is followed to its outcome |
| Governance, `governance/` | plans, approvals, tasks with append-only history | propose, approve, apply, sweep, cancel, verify, roll back | an approval is used once and for the plan it was given for; a task ends once, in the state its children justify |
| Readmission, `ha_core_readmission/`, `ha_mcp_readmission/` | published generation, leases, commits | observe, decide, acquire, commit, retire | a retired generation authorises nothing |
| Signed registry, providers, analysis, audit, tools | caches, documents | read, project, log | mostly stateless; listed in `PROJECT.json` with the reason each is left out |

How they interact: a service (fan, power, or the runtime for a governed plan)
prepares an operation and calls `execute` with a new owner id, an approval
callback and a dispatch-authority guard.  The executor claims the task's record,
takes the locks, asks the adapter for a preflight, and passes the adapter a
callback (`before_dispatch`) that checks the locks, consumes the approval and
writes the intent just before the provider is called.  Afterwards only observation
is allowed.  A sweep (`application.py`, every 30 s) executes unfinished tasks
again.  For a governed plan the runtime stands in between: `apply` holds the plan's
asyncio lock and runs the children one after another, while the recovery pass
(`recover_once`, then the sweep of the tasks) runs without that lock in another
coroutine; plan, task and children are three stores.  Lock store and repository
are shared by processes through `flock`; the
per-task asyncio lock serialises runs only inside one executor object, so two
processes (an update, a restart that overlaps) may run one task at a time that
neither of them chooses.

Hard behaviours: two stores and no common transaction; leases and claims that
run out under a process which still runs; deaths between any two writes; writes
that are reported failed but happened; awaits between a check and its use.
`PROJECT.json` lists the hazards, each at its line, with the properties that
would catch it going wrong.

## Modules

| Module | What it is |
|---|---|
| `DurableLockStore` | the lock store: one operator per transaction, no next-state relation of its own |
| `F3Locks` | the store under arbitrary callers that keep every handle they were ever given |
| `LockService` | the abstract lock service: grants of keys to tasks, without owners, leases, generations |
| `F3Executor` | executor and execution repository on top of `DurableLockStore` |
| `MCF3Locks`, `MCF3Executor` | the instances TLC checks |
| `FanService` | declarations, executions, sweep and hold release of the fan service (and the services that inherit it), over `DurableLockStore` |
| `HoldRelease` | the abstract specification of a hold's release |
| `CoreCoordinator` | generations, route leases and dispatch commits: one operator per locked operation |
| `CoreRuntime` | verification attempts, lifecycle watcher, restoration gate, registry and requests, on top of `CoreCoordinator` |
| `GovernedPlan` | one plan, its task and its children under an apply, a recovery pass and a cancellation |
| `MCFanService`, `MCCoreRuntime`, `MCGovernedPlan` | the instances of the last three components |
| `DurableLockStoreProofs` | what each store transaction preserves (lemmas shared by the next three) |
| `F3LocksProofs`, `LockServiceProofs`, `F3ExecutorProofs`, `FanServiceProofs` | the theorems about the store and what runs on it |
| `F3ExecutorLocksProofs` | the theorems about the executor's locks and terminal outcomes |
| `CoreRuntimeProofs` | the theorems about the readmission of Core, with the coordinator it runs on |
| `GovernedPlanProofs` | the theorems about one plan, its task and its children |

### The lock store

`records` and `nextGeneration` are the state file.  A public method is one
transaction (`_transact`: flock, read, mutate, write), therefore one operator; a
method that raises writes nothing, therefore its operator is not enabled.  Time
is relative: a record carries the ticks its lease has left and is expired at 0.
`renewed` and `amended` stand for "last_renewed_at is later than acquired_at" and
"the evidence of the acquisition was added to", the only facts about those fields
that a guard reads.  A `LockOwner` has five parts; operation and attempt follow
from the task, so an owner here is an identity with a task and a plan.

### The executor

A *run* is one call of `execute`.  Its `pc` names the repository or lock-store
transaction, or the adapter call, that it makes next; every transaction is one
step, and nothing else is, so other runs may act between any two.  `part` says
whether the run is inside the dispatch block (its error handler and its lease
renewer are active), in that handler, or recovering; `catch` says which inner
handler an error reaches.  `exec` holds the execution records with what guards
and properties read: claim and owner, outcome and terminality, recorded tokens,
preflight, intent and its deadline, result, attempts.  `sends` counts provider
calls and exists only for the properties.

* `Save` is `mutate_claimed`: the write happens, is refused (claim lost, or the
  record would be invalid), or fails with a storage fault *before or after* the
  file was replaced.  `Call` is the same for the lock store.
* Adapter, authority and approval answers are nondeterministic, including
  exceptions and contradictory results.
* An owner id is a fresh uuid4 for each run and never claims twice.  The model
  reuses an identity only when no record, no lock and no live run knows it, and
  the pair (owner id, claim generation) that fences a claim is the owner.
* `failed_pre_dispatch` stands for the four refusals and `verification_mismatch`
  also for `failed_post_dispatch`: the code treats them alike.
* `ReleaseStale` and `RecoverHandle` read the records and change them in one step; the
  code does it in two transactions without an await between them, and the second
  looks for each key and generation again and checks owner and expiry.
* `FailLocks` and `Cleanup` are one flock section in the code; they are two
  steps so that a death can come between them.

Read faults, corrupted files and the number of history events are left out.

### The fan service

`FanService` is the service as its files and its memory see it.  Files: the
declaration (`declared`), the execution record (`record`, the six states the
service tells apart), the locks (`DurableLockStore`), the release sidecar
(`release`: decided, released, audited) and the audit log with its rotated
predecessor (`audit`).  Memory, which a crash empties: calls in preparation,
`active`, release requests that wait for their readback (`deciding`), the finisher
inside the declaration lock (`transaction`).

* `Control` .. `Declare` is `control`: the capacity check and the preparing
  count come before the awaited preparation, the save and the start of the
  execution after it, without an await.
* `Claim` .. `End` are the executor's writes as far as the service reads them.
  Owner ids of the claims of one task are one owner here, leases do not age (an
  expired lease blocks like a live one), and a lost claim costs a fault.
* `Cancel`, `TakeOver`, `Settle`, `Finish` are the branches of a reconciliation.  After
  `TakeOver` the locks of the earlier owner pass to the new one in two stores
  (`TransferLocks`, `RecordTransfer`), or the claim is yielded (`AwaitLease`); the
  field `locks` of a record says how far that came, and a death or a failed write
  between the two leaves it `lost`.
  `Sweep` is one visited by `recover_once`: of the candidates, in the order of
  their file names, only the first `SweepLimit`.
* `ReadBack` and `Decide` are `release_hold` around its await; `ClearHold`,
  `MarkReleased`, `WriteEntry`, `RecordAudit` are the durable steps of
  `_finish_hold_release`, each of which may be the last before a crash.
* `LeaveUnaudited` is an audit write that is reported failed, written or not, or
  is not attempted since the logger is disabled.

An entry is deduplicated against the current and the rotated file.  After two
rotations between the append and `audit_recorded` it could be written again; one
rotation is the bound of the instance, and the claim is about the retained log.

### Core readmission

`CoreCoordinator` has one operator per operation under the coordinator's lock.
`CoreRuntime` gives each process an attempt whose `pc` names the answer it awaits:
the first and second probe, the registry refresh, the watcher's attachment, the
publication.  A step is the code between two awaits.  `rt` holds the runtime's
fields, `monitor` the lifecycle watcher, `world` the Core that really runs
(version, connection, registry selections).  `auditor` is history only: it counts
confirmations the way an observer of the outcomes would, independently of the
code's counter.

* Every reader of authority calls `_sync_registry_authority` first
  (`SyncRegistry`): a moved registry withdraws the authority instead of serving it.
* A request plans, optionally verifies on demand, acquires leases, commits them,
  revalidates before every provider call, and finishes.
* `Configure` replaces coordinator, lock and source; attempts in flight end at
  their next resumption (`Discard`).
* Whether the last restoration is recent enough to count as a flap is the
  clock's choice (`Flaps`).

Targets, adapters and profiles of a lease, health projections, the contents of
probes and the timing of back-off are left out.

### The governed plan

`plan`, `task` and `child` are what is stored: the plan's status and whether its
approval is consumed; the task's state, its attempts (`dispatched`) and the witness
of the consumption; for each operation the execution record with the reference to
the consumption that the runtime keeps beside it.  `preflight` stands for `created`
and `preflight`, `observing` also for `verifying`.

Three workers act: `apply`, `pass`, `cancel`.  They are coroutines of one event
loop, so `Turn` lets a worker step only when every other one stands at an await
(`Awaiting`).  What a worker does from one await to the next is still a sequence of
durable writes, and a death (`Crash`) may come between any two.

* `ApplyFirst`, `Declare`, `ApplyAgain` are `service.apply` and `_apply`.  `PlanLockFree`
  is the plan's asyncio lock, held from the first step of an apply to its last.
  `Abort` is the cancellation of the request by its client: nothing shields an
  apply, and whatever it claimed or sent stays.
* `Loaded` .. `Observe` are `_load_prepared` and `_execute_child`, the executor's
  work at its durable steps: claim, preflight, consumption of the approval in three
  writes (`Consume`, `Reference`, `Witness`), intent, verdict.
* `Attempts`, `ProjectOutcome`, `SavePlan` are `_project`.  A worker projects a copy of
  the plan: an apply reads it again just before, a pass uses the one it loaded
  before its awaits.
* `Cancel`, `CancelTask` are `cancel_execution_task`.
* `PassStarts` .. `Sweep` are one recovery pass: the checkpointed child, the candidate
  it discovers, the children of ended tasks, then `reconcile_execution_tasks`.
* `clock` is what expiries compare: the approval (valid, expired, past the retry
  window of 600 s) and the 24 hours since the first dispatch.

There is one task, so a pass has one candidate, and its work on a candidate and on
children of ended tasks never meet.  Each operation depends on the one before it.  A
skipped turn (back-off, budget) looks like a failed one.  The readback under an
ended task is one step, and is for the operations of `ReadBackOps`, whose families
`_terminal_parent_readback_operations` lists.  Reading a
plan does not expire it here; an expired approval is refused where it is used.

## Runs

| Run | Question | Result |
|---|---|---|
| `locks` | Do six properties of the store hold under any callers? | hold |
| `stalls` | At most one provider call when timers may overtake anything, a run may die anywhere and a write may fail either way? | holds |
| `exec_locks` | Does an unresolved effect keep its key, is the provider called under live locks, does a terminal outcome stay, with a death at any step? | hold |
| `pair` | Can two tasks have unresolved effects on one entity? | no |
| `live` | Does every dispatched task end, and do duplicates make a resolved one give its locks back? | yes |
| `lost_transfer` | The same, with a death between the transfer of the locks and its recording | violated |
| `fan` | Is the fan reused, released, told and swept as promised, across two processes and a fault? | yes |
| `core_readmission` | Does lost authority return only through the gate, does it return, and is every call made under the authority it was planned for? | yes |
| `core_new_version` | Does a new Core version always pass the restoration gate, also when signed authority expires and is renewed? | violated |
| `gov` | Do the operations of a plan run in order under a witnessed approval, does an ended task send nothing, and do tasks and sent changes end? | yes |
| `gov_consumed_twice` | Does a consumed approval stay consumed? | violated |
| `gov_failed_pre` | Has a task that ended before dispatch sent nothing? | violated |

The properties:

* `HoldersCompatible`, `GenerationsUnique`, `Fencing`, `ClosedKeys` (`F3Locks`):
  two records on a key are both shared; generations are never reissued; a handle
  that once failed the ownership check fails it for ever, even when the same
  owner takes the key again; while a key carries a hold or an expired lease no
  other task gets onto it.
* `ServiceSpec`: the store implements `LockService`.  A record is seen as a grant
  to its task, a hold as a frozen grant.  Renewal, expiry and transfers between
  processes of one task become stuttering.
* `AtMostOneSend`: no blind redispatch.
* `UnresolvedKeepsLocks`, `OneEffectPerKey`: an intent whose outcome is unknown
  or under review keeps the target closed.
* `SendUnderLock`: the locks checked at the start of `before_dispatch` are still
  live when the provider is called, after an awaited approval and a write.
* `TerminalIsFinal`: nothing replaces a terminal outcome.
* `EveryDispatchResolves`: under fairness, every dispatched task ends, after however
  many recoveries the read-back stays open for.
* `DuplicateReleases`: a task that ended and is asked for again and again gives back
  its locks, unless it is under review.  The sweep alone does not see to that:
  `recover_once` passes over every terminal record but a review.

* `WithinCapacity`: what prepares and what executes never exceeds `MAX_ACTIVE`.
* `EntityReusedAfterDecision`: between a dispatch and the administrator's decision
  no other task dispatches on the entity, whoever dies in between.
* `ReleaseSpec`: the service implements `HoldRelease`; with `ToldOnce` and
  `AuditFlagIsTrue`: the release is decided once, then lifted, then told, once.
* `DecisionCompletes`, `DeclarationsEnd`: under fairness, a decided release
  completes (audited, or waiting for an enabled logger), and every declaration
  ends with its review, if there is one, holding exactly its entity.  Both leave out
  what the violation `lost_transfer` does to the service: a task whose locks were
  transferred by a process that died before recording them (`Stranded`) never ends,
  and as many of those as one pass visits starve all that follow (`Starved`).
* `AdmissionAgrees`, `GenerationHasItsObservation`: the runtime's flag and
  observation never part from what the coordinator publishes.  The flag decides
  whether a publication must pass the gate, so parting would open it.
* `LeasesHaveOwners`: no lease outlives its generation, none is leaked.
* `RestorationGated`: lost authority comes back only after the required
  confirmations in a row, except for the first boot.
* `ObservedUnderWatch`: what is published was observed after its watcher attached.
* `CallsUnderOnePlan`: a call is made only if no authority changed since the plan
  of its request, and what it needs is admitted and still selected.
* `AuthorityReturns`: once Core and registry rest, authority comes back for good.
* `IntentIsWitnessed`: a child that may have called the provider holds the
  consumption reference, and the task the witness, wherever a death cut the three
  writes apart and whoever went on.
* `InOrder`: nobody claims an operation before those ahead of it are verified.
* `CancelledSendsNothing`, `SucceededIsVerified`: what the task reports of its
  children is true, although a pass holds no plan lock.
* `TaskEndsOnce`, `EndedSendsNothing`: an ended task keeps its state, and no
  operation becomes durable as dispatched under it.
* `TaskEnds`, `SentEnds`: under fairness, every task ends, and every change that may
  have been made is followed to its outcome, if its family is among those that
  `_terminal_parent_readback_operations` lists (`ReadBackOps`).  A change of another
  family below an ended task stays open.

### The four violations

1. `lost_transfer`.  `_recovery_handle` transfers expired locks (lock store) and
   then records their tokens (repository).  After a death in between, the recorded
   tokens match nothing; each recovery yields `recovery_waiting_for_lock_lease`
   and the task is never resolved nor held for review.  The locks themselves stay.
2. `core_new_version`.  The signed entry of the admitted version expires after an
   attempt has synchronised the registry; `refresh_for_missing_release` therefore
   fetches, and brings the same entry in a new document.  Nothing is withdrawn, since
   the selection is what it was, but the collection token has changed, so the attempt
   collects a second time and skips the check for a changed version that its first
   collection passed.  If Core changed its version in between, and its watcher has
   not noticed yet, the new version is admitted under the admission of the old one,
   without confirmations.
3. `gov_consumed_twice`.  A recovery pass loads the plan, runs a child whose
   `before_dispatch` loads and saves a newer copy with the approval consumed, and
   then projects: it saves its first copy over the newer one.  The next child
   consumes the approval again.
4. `gov_failed_pre`.  A request cancelled after the durable intent leaves a task
   without an attempt.  While the child's claim lives a pass projects nothing, and the
   sweep of the same pass ends the task as `failed_pre_dispatch`, though the change
   may have been made.

Each finding in `PROJECT.json` quotes the document it contradicts.

Three more configurations of the executor are kept for reference.
`MCF3ExecStaleRelease.cfg` shows `UnresolvedKeepsLocks` violated when timers may
overtake any step: the release of expired pre-dispatch locks compares task and
attempt but not the claim, and a process that stalls for a claim and a lease between
claiming and releasing frees locks that a later run has dispatched under.
`MCF3ExecLostTokens.cfg` shows
`PreDispatchReleases` violated: a task cancelled by another process between the
acquisition of its locks and `record_locks` ends as cancelled, and
`fail_lock_acquisition` refuses the terminal record before it reaches its cleanup.
The configuration runtime has `settle_unrecorded` for this, the fan and power
services have not.  `MCF3ExecReopened.cfg` shows `VerifiedSurvives` violated: an
error from the directory fsync after `os.replace` sends a verified task through the
verification handler again, which does not look at `terminal`.

### Bounds

Leases and claims last one tick, two in `exec_locks`, where a renewal must be
able to come before the expiry; every order of lease, claim and deadline
expiry occurs, because a tick may fall between any two steps of a run unless
`PromptAt` says otherwise.  `PromptAt` is empty in `stalls`.  In `exec_locks` and
`pair` it is `Synchronous`: a tick comes only where the code awaits, because between
two other steps a run does not leave its coroutine.  Two identities run a task in
`stalls` and `pair`, three in the other runs: the owner of the record, the owner of
the locks and a newcomer can all differ, and by the freshness condition an identity
returns after its run is forgotten.  The two tasks of `pair`
share one entity key; it has no deaths (with one, 3.8 million states, it passes as
well).  `MaxGeneration` bounds fencing generations: four in `locks` (a set of
two keys acquired, and acquired, transferred or recovered once more), three in the
executor runs (an acquisition and two transfers), nine in `live` and six in
`lost_transfer`, where `LastAcquisition` = 2 keeps the rest for recovery so that the
bound never stands in the way of the two deaths.  One observation and one
verification attempt reach every branch on their exhaustion in the safety runs.
`live` has every verdict, observing included, three ticks to the evidence deadline
with claims and leases of one tick, so that a task is recovered several times before
the deadline decides, and two attempts; `AttemptLimit` = 8 is the code's 32, above
what these recoveries use up.
`MaxFaults` is one storage fault, `MaxCrashes` one
or two deaths.  `CHECK_DEADLOCK FALSE` is stated because a bounded behaviour ends:
all timers at 0, all runs done.

`exec_locks` assumes that the renewer keeps a live lease of a run in its dispatch block
(`PromptRenewal`): it renews every 20 of 120 s (10 of 30 s for the fan), so a lease
runs out under it only in a stall, which `stalls` covers for the property that must
survive one.  `SendUnderLock` is claimed, and proved, under that condition only.
`UnresolvedKeepsLocks` needs less, that no timer comes between a claim and the release
or the recovery of earlier locks that follows it without an await (`Timely`, below);
`MCF3ExecStaleRelease.cfg` shows that it fails when one does.

`fan` has two processes and two tasks on one fan, `MaxActive` and `SweepLimit` 1,
so that a second call meets a full process and a declaration hides behind another
in the sweep; one fault (an error, a failed write, a death or a lost claim) and
one rotation (`Rotate` happens only when the current file has an entry of a release:
other rotations change nothing that is modelled).  The safety properties were also
checked with two faults.
`core_readmission` has one request, a compiled version and one without authority, one
capability, two configurations and two moves (of Core, of the registry, or a
failing probe or watcher).  `MaxSession`, `MaxGeneration` and `MaxLease` are
above what two moves can use, so they cut nothing off.  `core_new_version` has no
request and three moves: of Core, of the signed entry that expires, of its renewal.  Confirmations are 2, after a flap 3, as in the code
their order matters, not their size.

`gov` has two operations, the least for which order, a shared approval and a partial
sequence mean something, both of a family that is read back, two apply requests, one of them cancelled, one fault (a
failed preparation, or a readback that stays open) and one death.  Passes are not
bounded.  It was also checked with only the first
operation of such a family, with two deaths, with two faults and two cancelled
requests, and with three operations and one apply.  The two violations need no
death and no fault.

### Fairness

* `WF(RunStep(r))`: a process that is not dead takes its next step.
* `WF(Sweep(t))`: the sweep recovers a dispatched task that has not ended, or is
  under review, every 30 s for as long as the add-on runs.  It does not come to a task
  that ended otherwise (`fan/service.py:862-883`), so nothing is fair about the
  duplicates that settle its locks: `DuplicateReleases` has them as a premise.
* `SF(Tick)`: time goes on; strong, because a run that is between two steps
  disables the tick in these runs (`PromptAt` = every step), and runs recur.

* `fan`: the execution of a task goes on in some process (`WF` per task), so does the
  finisher of a release (`WF`, there is one transaction), every process sweeps again
  and again (`WF` per process; `application.py`, every 30 s), and deadlines and lost
  claims run out.  Calls, decisions, rotations and deaths are not fair.
* `core_readmission`: the serving task runs on and awaited answers come, since
  probes and attachments have timeouts (`WF` per process); a closed socket is
  noticed by its watcher (`WF(MonitorFires)`).  Moves and requests are not fair.

* `gov`: the supervisor runs pass after pass (`WF`), a started cancellation and an
  apply go on.  The apply has `SF`: a pass that is between two writes disables it,
  but between passes and at every await the event loop runs what is ready.  Expiries
  and lost claims come (`WF`).  Requests, cancellations, deaths and faults are not
  fair: a task must end without anybody asking again.

Nothing is fair about deaths, cancellations or the renewer.  `live` uses
`FinalReadAtDeadline` (the fan and power executors read once more at the deadline) and
leaves out the one step in which a death is known to be fatal (`lost_transfer`, which
needs neither that reading nor an open verdict).

## Theorems

All for arbitrary keys, owners, tasks, plans, request lists, leases, bounds,
verdicts and sets of steps at which runs die or timers wait.  Assumptions are the
named `ASSUME`s: keys are finite with an injective rank, owners have tasks, tasks
have plans, what a task must retain it asked for (`fan/adapter.py:87`,
`f3_runtime/runtime.py:2918`; `f3/locks.py:823` refuses anything else), `NoOwner`
is not an owner, limits are natural numbers; for the Core, at
least one confirmation is asked for and at least as many after a flap, a request
needs something, and `None` (Python's `None`) is none of the values it stands beside;
for a plan, it has an operation.

* `F3LocksProofs`: `TypeCorrect`, `UniqueGenerations`, `MutualExclusion`,
  `FencingHolds`, `ClosedKeysHold`.
* `LockServiceProofs!Implements`: `Spec => ServiceSpec`.
* `F3ExecutorProofs`: `TypeCorrect`, `NoBlindRedispatch` (`AtMostOneSend`).
* `F3ExecutorLocksProofs`, each under a condition on the constants that its run meets:
  `SentUnderLock` (`SendUnderLock`) if the renewer of a dispatch block is never overtaken
  (`PromptRenewal`), whatever else stalls, dies or fails; `UnresolvedKeeps`
  (`UnresolvedKeepsLocks`), `TerminalStays` (`TerminalIsFinal`) and `OneEffect`
  (`OneEffectPerKey`) if the storage does not fail and no timer comes between a claim and
  its `stale` or `recover` step (`Timely`), for any deaths and any stalls elsewhere.
  `OneEffect` is about keys every task asks for exclusively: its target.  What an
  inverse sequence keeps with the target (provider, domain) it may share.
* `FanServiceProofs`: `TypeCorrect`, `CapacityHolds`, `EntityReserved`,
  `FlagIsTrue`, `EntryOnce` and `KeepsPromise` (`Spec => ReleaseSpec`), for any
  processes, tasks, calls, capacities and numbers of faults and rotations.
* `CoreRuntimeProofs`: every safety property of `core_readmission`, for any
  workers, requests, versions, capabilities, moves and configurations: `CoreTyped`,
  `CoreAdmissionAgrees`, `CoreGenerationHasItsObservation`, `CoreLeasesHaveOwners`, and
  the action properties `CoreObservedUnderWatch`, `CoreCallsUnderOnePlan`,
  `CoreRestorationGated`.
* `GovernedPlanProofs`: every safety property of `gov`, for plans of any length and any
  number of requests, faults and deaths: `PlanTyped`, `PlanIntentIsWitnessed`,
  `PlanInOrder`, `PlanCancelledSendsNothing`, `PlanSucceededIsVerified`, and the action
  properties `PlanTaskEndsOnce`, `PlanEndedSendsNothing`.

### The lock store, the executor and the fan service

`StoreInv` joins the types of the store, "every generation in the
store is below `nextGeneration`, no two records share one" (`Issued`) and
"two records on a key are shared" (`Compatible`).  `HoldersCompatible` alone is not
inductive: a transfer or a recovery removes the records it selected by token, and
without unique generations a token could select a stranger's record.
`DurableLockStoreProofs` has one lemma per transaction that it preserves
`StoreInv`; `F3LocksProofs` adds that handles carry issued generations only, from
which fencing follows: a fresh generation is above every one in circulation.

For the executor `Inv` adds the types of records and runs and four facts:

* `SendIsFirst`: a run about to call the provider belongs to a task that has an
  intent and has not been sent;
* `SendIsAlone`: two runs of a task are never both about to call;
* `IntentHasOwner`: a record with an intent exists, so it is not created anew;
* `AtMostOneSend` itself.

The intent is never taken back, `Commit` is the only way to `send` and needs its
absence; every other step either leaves `intent` and `sends` alone (the lemmas
about harmless updates) or does not lead to `send`.

The properties about the executor's locks relate three things that are written one after
the other: the store, the tokens in the task's record, the tokens in a run's memory.
Their invariants are in `F3ExecutorLocksProofs`.  `SendInv` holds under any faults:

* `KnownLocks`: what a token of a task matches, now or later, is a lock of that task.
  It rests on the generations again, and with it a run touches the locks of other
  owners only in the steps `Touches` names: settling a resolved record, or removing or
  replacing what is held or expired.
* `Placed`: the run that holds the claim has in memory the tokens its record has.
* `Ready`, `Sending`: from the check of the locks to the intent they are live, unless the
  claim is lost or the record ended; then the intent is refused.  From the intent to
  the call every other run of the task is `Aside`: no step it is at reaches these
  locks, although the claim may pass on.

`LockInv` adds, under `Timely`:

* `Sure`, `Prompt`: a claimant that takes itself to be before the dispatch finds no
  intent, and a run that touches locks of an earlier one has a claim that has not
  expired;
* `Prepared`: the claimant has a lock on all it must retain before it commits;
* `Concludes`: after the intent it has its locks, and once the record ended only the
  promotion of a review is left, which is why `TerminalIsFinal` holds although
  `record_verification` does not look at `terminal`;
* `Covered`: every retained key of an unresolved effect is under a lock of the mode
  asked for, whose owner is not about to release it.

`UnresolvedKeepsLocks` is `Covered` without the last clause, without which it is
not inductive: a run that lost its claim may still stand before its own release.
`OneEffectPerKey` is then `Compatible`.  `MCF3ExecStaleRelease.cfg` and
`MCF3ExecReopened.cfg` show that neither half of `Timely` can be dropped.  TLC checked
`LockInv` on instances with deaths before the proof.

For the fan service `Inv` joins `TypeOK`, `StoreInv` and `Linked`: who is inside
the transaction fits the sidecar it works on (`Transacts`), and the locks of a
task fit its record (`LocksOf`: a claimed task has none; a task with an intent, or a review nobody has
decided, has the exclusive record on its entity; only a review carries a hold; a
released one has no lock left).  The entity is then protected by `Compatible` alone.  The refinement
maps each step through `StageOf`; the interesting ones are `ClearHold`, which finds
the hold or its earlier release, and `SettleLocks`, which turns an open stage into
a held one.

### The readmission of Core

The invariant is built in layers.  Each is a theorem of its own and is inductive
relative to those before it, so that a step is looked at once for each layer and
not once for all of them.

| Layer | What it says | What needs it |
|---|---|---|
| `Shape` | types, and which fields an attempt has at which `pc` | everything |
| `EpochInv` | an attempt's fence, and the session of what it saw, are epochs that were, in this order | a publication whose fence is the current epoch publishes an observation of the current session |
| `GenerationInv` | the published generation is the allocator's last, admits what its observation and authority give, and the runtime's fields are those it was published with | `GenerationHasItsObservation`, `AdmissionAgrees`, and that a new lease is of the current session |
| `OneAttempt` | one attempt of a configuration is between its lock and its end | the watcher attaches for the attempt that waits for it |
| `WatchInv` | what was seen under an open watcher was seen on its connection or a later one | `ObservedUnderWatch` |
| `LeaseInv`, `Owned` | the leases of a request cover what it needs and are counted as a whole or not at all; those of two requests are apart; what is counted has a holder | `LeasesHaveOwners` |
| `PassedInv` | a plan that a change of authority passed is outdated, or its leases are of another generation | `CallsUnderOnePlan` |
| `GateInv` | what was settled spent the boot exemption; the auditor counts at least what the runtime counts | `RestorationGated` |

Two of them are why the plain properties are not inductive.  A new coordinator
(`Configure`) starts its counters of generations and leases again, so a lease held from
the old one may have the number of a new one: `LeaseInv` separates them by their
session, which is below the new epoch.  And the runtime's own counter of
confirmations says nothing about its past: `GateInv` ties it to the auditor's.

The lemma `StepIs` puts every step in one of a few kinds: it withdraws, marks,
fails, holds or publishes authority while requests rest, it replaces the
configuration, or it moves one request.  `AttemptsGo` and `MonitorsGo` say as little of
attempts and of the watcher.  Every layer argues from the kinds and never from
the actions, of which there are many more.

### The governed plan

`IInv` joins the types, the properties and what they rest on:

* `OneWriter`: of two workers one is at an await.  `Turn` keeps it, and with it what a
  worker read is still so when it writes, up to its next await.
* `ChildInv`: a child is claimed only behind verified ones, its claim is over when it
  has an outcome, and what was sent has its reference and witness.
* `WorkInv`, for the apply and for the pass: the children ahead of the chosen one
  are verified (`Ahead`); the claim is held, or a pass finds its child cancelled
  (`HoldsClaim`); the papers are complete as far as the worker has come (`Papers`), which
  gives `IntentIsWitnessed` when `Commit` writes the intent; the task goes on unless
  a pass works on a child that ended (`TaskGoesOn`), which gives `EndedSendsNothing`.
* `Exclusive`: apply and pass never work on the same child.
* `CancelUnderway`: between the two writes of a cancellation nothing was sent and
  the first child that is not verified has ended, so nothing behind it can be
  claimed (by `Ahead`), and `CancelTask` ends a task that sends nothing later.
* `EndInv`: the stored plan, and every worker's copy of it, is called applied only when
  every operation is verified, and so is a task that succeeded.

That some operation is the first which is not verified needs a least element,
which TLAPS has only by an induction over a predicate; `LeastElement` gets it from the
well-foundedness of the strict inclusion between finite sets.  TLC checked `IInv` as an
invariant of `gov` and with three operations (1.04 million states) before the
proof.

### Only model-checked

* Liveness, as `ENABLED` is outside TLAPS's reach: `EveryDispatchResolves`,
  `DuplicateReleases`, `DecisionCompletes`, `DeclarationsEnd`, `AuthorityReturns`,
  `TaskEnds`, `SentEnds`.
* The four violations, by their nature.

## Not modelled

* The executor's event history (at most 128 events a record), corrupted files and
  read faults; result receipts.
* In the runtime: the locks of the children, inverse and rollback sequences, back-off,
  time budgets and the cursors over many tasks, the projected facts and their audit.
* In governance: proposal, review and approval, planning and validation of each
  operation, the legacy executions and operational plans, the stores' formats and their
  races between processes, the transition of a plan to `expired` when it is read.
* In the Core readmission: the shutdown of the supervisor, back-off timing, the
  profile of each capability.
* `ha_mcp_readmission`: its generations and leases follow the pattern of
  `CoreCoordinator`.
* The signed registry's cryptography, providers and clients, the analysis engines,
  snapshots, tools and request models: pure functions over documents, or I/O, without
  a protocol between actors.  They are most of the repository's lines, which is why
  the modelled share of the lines is small.

## Plan

Done: the lock store, the executor with its repository, the fan service, the Core
readmission and the governed plan, with their runs; the theorems above, which
state every safety property the passing runs check.

Left, in this order:

1. The bounded event history: how many recoveries a record can take before
   `append_execution_event` refuses, against a day-long evidence deadline.
2. `TaskStore`: append-only saves by two processes, a fault after the replacement,
   idempotent submission; then the locks of governed children with
   `settle_unrecorded` and the writes of the orphan reconciliation.
3. The readmission of ha-mcp, on the operators of `CoreCoordinator`.
