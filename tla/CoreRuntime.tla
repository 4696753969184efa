----------------------------- MODULE CoreRuntime -----------------------------
(***************************************************************************)
(* CoreRuntime (ha_core_readmission/runtime.py): verification attempts of  *)
(* a serving worker and of requests, the lifecycle watcher that bounds a   *)
(* verified connection, the restoration gate, and the requests that lease, *)
(* commit and use authority.  A step is one block under the runtime lock,  *)
(* or one answer an await returns with; attempts hold the reconciliation   *)
(* lock of their configuration.                                            *)
(***************************************************************************)
EXTENDS CoreCoordinator

CONSTANTS
  Request,                  \* the requests that use Core authority
  Needs,                    \* the capabilities a request requires
  Compiled,                 \* versions with compiled exact authority
  Signed,                   \* what the registry first selects for the others
  RegistryEnabled,          \* ha_core_release_registry_enabled
  Confirmations,            \* CORE_RECOVERY_CONFIRMATIONS
  FlapConfirmations,        \* CORE_RECOVERY_FLAP_CONFIRMATIONS
  MaxConfig,                \* bound: calls of configure
  MaxMoves,                 \* bound: moves of Core and of the registry, probe
                            \* and watcher faults
  MaxCalls                  \* bound: provider calls of a request

Worker == 1..MaxConfig      \* the serving task of each configuration

ASSUME RuntimeAssumption ==
  /\ Needs \in SUBSET Capability /\ Needs # {}
  /\ Compiled \in SUBSET Version /\ Signed \in SUBSET Capability
  /\ RegistryEnabled \in BOOLEAN
  /\ Confirmations \in Nat \ {0} /\ FlapConfirmations \in Nat
  /\ Confirmations <= FlapConfirmations
  /\ MaxConfig \in Nat \ {0} /\ MaxMoves \in Nat /\ MaxCalls \in Nat
  /\ \A o \in Observation : o # None
  /\ \A a \in Authority : a # None
  /\ \A k \in [version : Version \union {None}, token : Authority \union {None},
               admits : Authority] : k # None
  /\ Request \intersect Worker = {}

Proc == Worker \union Request

VARIABLES
  world,     \* Home Assistant: its version, which connection it is, the
             \* registry's content (revision, selections), faults left
  rt,        \* the fields of the runtime; the observer session of the source
             \* is named by the connection epoch, which moves with it
  monitor,   \* the lifecycle watcher task
  attempt,   \* the verification attempt of each process
  request,   \* the life of each request
  auditor    \* history only: what an observer of the outcomes would count
vars == <<coordinatorVars, world, rt, monitor, attempt, request, auditor>>

NoMonitor == [st |-> "none", version |-> None, epoch |-> 0, conn |-> 0]
NoAttempt == [pc |-> "idle", boot |-> FALSE, epoch |-> 0, revision |-> 0,
              then |-> "none", conn |-> 0, observation |-> None]
FailedProbe == [version |-> None, session |-> 0, complete |-> FALSE, evidence |-> {}]

Init ==
  /\ CoordinatorInit
  /\ \E v \in Version : world =
       [version |-> v, conn |-> 1, revision |-> 0, moves |-> MaxMoves,
        selected |-> [u \in Version |-> IF u \in Compiled THEN Capability
                                       ELSE IF RegistryEnabled THEN Signed ELSE {}]]
  /\ rt = [config |-> 1, phase |-> "boot", epoch |-> 1, observation |-> None,
           token |-> None, admitted |-> FALSE, bootSpent |-> FALSE,
           active |-> FALSE, required |-> Confirmations, confirms |-> 0,
           key |-> None, restored |-> FALSE, outdated |-> {}]
  /\ monitor = NoMonitor
  /\ attempt = [p \in Proc |-> NoAttempt]
  /\ request = [r \in Request |->
                 [phase |-> "plan", leases |-> {}, calls |-> 0]]
  /\ auditor = [run |-> 0, key |-> None, settled |-> FALSE, passed |-> {}]

(***************************************************************************)
(* The runtime's recovery bookkeeping, as functions of its fields.         *)
(***************************************************************************)
Spend(s) == [s EXCEPT !.bootSpent = TRUE]
ResetCount(s) == [s EXCEPT !.confirms = 0, !.key = None]

\* _enter_recovery_locked.  Whether the last restoration is recent enough to
\* make this a flap is the clock's choice.
EnterRecovery(s, flap) ==
  LET armed == [s EXCEPT !.active = TRUE,
                         !.required = IF flap THEN FlapConfirmations ELSE Confirmations]
  IN ResetCount(Spend(IF s.active THEN s ELSE armed))
Flaps == IF rt.restored THEN BOOLEAN ELSE {FALSE}

\* Mutant: a failed verification does not end the streak.
FailureKeepsStreak(s) == Spend(s)
\* _record_failure_locked.
RecordFailure(s) == ResetCount(Spend(s))

\* A material change of authority moves the cutoff past every plan there is.
Plans == {r \in Request : request[r].phase \notin {"plan", "done"}}
Changed(s) == [s EXCEPT !.outdated = Plans]

\* Mutant: the admission flag survives the retirement.
WithdrawnUnnoticed(s, retired, flap) == ResetCount(Changed(s))
\* _material_retirement_locked, after the caller dropped the authority.
Withdrawn(s, retired, flap) ==
  LET dropped == ResetCount([Changed(s) EXCEPT !.admitted = FALSE])
  IN IF ~retired THEN dropped
     ELSE IF s.admitted THEN EnterRecovery(dropped, flap) ELSE Spend(dropped)

\* History: an outcome that ends a streak; it settles the first boot when it
\* is a failure or takes a published generation away, and passes the plans
\* there are when it changes authority.
Disturbed(failure, change) ==
  auditor' = [run |-> 0, key |-> None,
              passed |-> IF change THEN Plans ELSE auditor.passed,
              settled |-> auditor.settled \/ failure \/ published # None]
Fault == world.moves > 0 /\ world' = [world EXCEPT !.moves = @ - 1]
\* Mutant: the runtime drops its observation, the coordinator is not told.
RetireNothing == UNCHANGED coordinatorVars
RetireIfPublished == IF published # None THEN Retire ELSE UNCHANGED coordinatorVars

(***************************************************************************)
(* request_reconciliation(connection_changed=True).                        *)
(***************************************************************************)
AfterMove(flap) ==
  LET dropped == [Changed(rt) EXCEPT !.epoch = @ + 1, !.observation = None,
                                     !.admitted = FALSE]
      counted == IF published # None
                   THEN IF rt.admitted \/ rt.active THEN EnterRecovery(dropped, flap)
                                                    ELSE Spend(dropped)
                   ELSE IF rt.confirms > 0 /\ rt.active THEN EnterRecovery(dropped, flap)
                                                        ELSE dropped
  IN ResetCount(counted)

ConnectionChanged ==
  /\ rt.epoch < MaxSession
  /\ RetireIfPublished
  /\ monitor' = NoMonitor

(***************************************************************************)
(* _sync_registry_authority, which every reader of authority calls first.  *)
(***************************************************************************)
RegistryMoved ==
  /\ RegistryEnabled
  /\ rt.token # None
  /\ rt.observation # None
  /\ world.selected[rt.observation.version] # rt.token

Synced(flap) == Withdrawn([rt EXCEPT !.token = None], published # None, flap)
SyncRegistry ==
  /\ RegistryMoved
  /\ RetireIfPublished
  /\ \E flap \in Flaps : rt' = Synced(flap)
  /\ Disturbed(FALSE, TRUE)

(***************************************************************************)
(* One attempt: _reconcile and _reconcile_serialized.                      *)
(***************************************************************************)
At(p, pc) == attempt[p].pc = pc
Goto(p, pc) == attempt' = [attempt EXCEPT ![p].pc = pc]
\* Supervisor-paced attempts are the only ones that confirm.
Background(p) == p \in Worker /\ rt.phase = "loop"

\* The attempt is over; a request goes on to its lease.
Leave(p) ==
  /\ attempt' = [attempt EXCEPT ![p] = NoAttempt]
  /\ request' = IF p \in Request THEN [request EXCEPT ![p].phase = "acquire"] ELSE request
\* Mutant: after its boot sequence the worker is never a supervisor.
EndedInBoot(p, s) == IF p \in Worker THEN Spend(s) ELSE s
\* The first attempt of a configuration is its boot sequence: with it the
\* boot exemption is over, so reconcile_until_initialized never retries.
Ended(p, s) ==
  IF p \in Worker /\ s.phase = "boot" THEN [Spend(s) EXCEPT !.phase = "loop"] ELSE s

\* The work stamp.
Begin(p) ==
  attempt' = [attempt EXCEPT ![p] =
    [NoAttempt EXCEPT !.pc = "lock", !.boot = p \in Worker /\ ~rt.bootSpent]]

\* The worker of the current configuration: its boot sequence, then supervise.
Start(p) ==
  /\ p \in Worker /\ p = rt.config
  /\ attempt[p].pc = "idle"
  /\ Begin(p)
  /\ UNCHANGED <<coordinatorVars, world, rt, monitor, request, auditor>>

\* _stale_work: an attempt of a replaced configuration ends at its next
\* resumption, whatever its await answers.
Discard(p) ==
  /\ At(p, "superseded")
  /\ Leave(p)
  /\ UNCHANGED <<coordinatorVars, world, rt, monitor, auditor>>

LockFree(p) ==
  \A q \in Proc \ {p} : attempt[q].pc \in {"idle", "lock", "superseded"}

\* After refresh_if_due: the fences are sampled, and the exemption is spent by
\* an attempt that cannot claim it.
Sample(p) ==
  /\ At(p, "lock") /\ LockFree(p)
  /\ \/ /\ SyncRegistry
        /\ UNCHANGED attempt
     \/ /\ ~RegistryMoved
        /\ attempt' = [attempt EXCEPT ![p].pc = "first", ![p].then = "observed",
                         ![p].epoch = rt.epoch, ![p].revision = world.revision]
        /\ rt' = IF attempt[p].boot \/ (p \in Worker /\ rt.phase = "boot") THEN rt ELSE Spend(rt)
        /\ UNCHANGED <<coordinatorVars, auditor>>
  /\ UNCHANGED <<world, monitor, request>>

\* CoreObservationCollector.collect takes two snapshots; an exception in
\* either gives the failed observation.
ProbeFails(p) ==
  /\ At(p, "first") \/ At(p, "second")
  /\ Fault
  /\ attempt' = [attempt EXCEPT ![p].pc = attempt[p].then, ![p].observation = FailedProbe]
  /\ UNCHANGED <<coordinatorVars, rt, monitor, request, auditor>>

FirstSnapshot(p) ==
  /\ At(p, "first")
  /\ attempt' = [attempt EXCEPT ![p].pc = "second", ![p].conn = world.conn, ![p].observation =
       [version |-> world.version, session |-> rt.epoch, complete |-> FALSE, evidence |-> {}]]
  /\ UNCHANGED <<coordinatorVars, world, rt, monitor, request, auditor>>

\* stable_observation: complete when the snapshots agree.  A timed-out probe
\* of one capability withholds that capability only.
SecondSnapshot(p) ==
  /\ At(p, "second")
  /\ \E evidence \in SUBSET Capability :
       /\ evidence = Capability \/ world.moves > 0
       /\ world' = IF evidence = Capability THEN world ELSE [world EXCEPT !.moves = @ - 1]
       /\ attempt' = [attempt EXCEPT ![p].pc = attempt[p].then,
            ![p].observation.evidence = evidence,
            ![p].observation.complete =
               world.version = attempt[p].observation.version
               /\ rt.epoch = attempt[p].observation.session]
  /\ UNCHANGED <<coordinatorVars, rt, monitor, request, auditor>>

\* _retire_observed_version_change withdraws what another version earned.
VersionMoved(o) ==
  /\ rt.observation # None /\ o.version # None
  /\ rt.observation.version # o.version
  /\ RegistryEnabled \/ rt.admitted

\* With a registry, a version without compiled authority.
Uncompiled(o) == RegistryEnabled /\ o.version \notin Compiled \union {None}
\* refresh_for_missing_release asks only for a version it has no current entry of;
\* an entry that selects nothing, or was revoked, ends there too.
Missing(o) == Uncompiled(o) /\ world.selected[o.version] = {}

\* What another version earned is withdrawn; then, unless the registry is asked
\* first, its authority is synchronised in the same block.
Observed(p) ==
  LET o == attempt[p].observation IN
  /\ At(p, "observed")
  /\ Goto(p, IF Missing(o) THEN "missing" ELSE "monitor")
  /\ IF VersionMoved(o)
       THEN /\ RetireIfPublished
            /\ \E flap \in Flaps : rt' =
                 Withdrawn([rt EXCEPT !.token = None, !.observation = None],
                           published # None, flap)
            /\ Disturbed(FALSE, TRUE)
       ELSE IF Uncompiled(o) /\ ~Missing(o) /\ RegistryMoved
         THEN SyncRegistry
         ELSE UNCHANGED <<coordinatorVars, rt, auditor>>
  /\ UNCHANGED <<world, monitor, request>>

\* After refresh_for_missing_release: when it fetched, and the registry moved since
\* the collection began, Core is collected once more, and that observation goes
\* straight to its watcher.  A fetch that is refused (it was asked within the last
\* minute) or fails lets the attempt go on.
Refreshed(p) ==
  /\ At(p, "missing")
  /\ \/ /\ SyncRegistry
        /\ UNCHANGED attempt
     \/ /\ ~RegistryMoved
        /\ \/ Goto(p, "monitor")
           \/ /\ world.revision # attempt[p].revision
              /\ attempt' = [attempt EXCEPT ![p].pc = "first", ![p].then = "monitor",
                               ![p].revision = world.revision]
        /\ UNCHANGED <<coordinatorVars, rt, auditor>>
  /\ UNCHANGED <<world, monitor, request>>

(***************************************************************************)
(* _ensure_connection_monitor and the watcher task.                        *)
(***************************************************************************)
Watched(v) == monitor.st = "open" /\ monitor.version = v /\ monitor.epoch = rt.epoch

\* The attempt has no watcher: its failure counts as a moved connection.
MonitorUnavailable(p) ==
  /\ ConnectionChanged
  /\ \E flap \in Flaps : rt' = Ended(p, RecordFailure(AfterMove(flap)))
  /\ Leave(p)
  /\ Disturbed(TRUE, TRUE)

EnsureMonitor(p) ==
  LET o == attempt[p].observation IN
  /\ At(p, "monitor")
  /\ \/ /\ ~o.complete
        /\ MonitorUnavailable(p)
     \/ /\ o.complete /\ Watched(o.version)
        /\ Goto(p, "publish")
        /\ UNCHANGED <<coordinatorVars, rt, monitor, request, auditor>>
     \/ /\ o.complete /\ ~Watched(o.version)
        /\ monitor' = [st |-> "attaching", version |-> o.version, epoch |-> rt.epoch, conn |-> 0]
        /\ Goto(p, "attach")
        /\ UNCHANGED <<coordinatorVars, rt, request, auditor>>
  /\ UNCHANGED world

\* on_attached: the socket authenticated against the expected version.
MonitorAttaches ==
  /\ monitor.st = "attaching"
  /\ monitor.version = world.version /\ monitor.epoch = rt.epoch
  /\ monitor' = [monitor EXCEPT !.st = "open", !.conn = world.conn]
  /\ UNCHANGED <<coordinatorVars, world, rt, attempt, request, auditor>>

\* Mutant: the evidence collected before the watcher attached is published.
PublishOldEvidence(p) == Goto(p, "publish")
\* The evidence is collected again under the fence of the new watcher.
Recollect(p) == attempt' = [attempt EXCEPT ![p].pc = "first", ![p].then = "publish"]

\* A watcher that attached makes the attempt collect again;
\* one that is gone, finds another version or times out ends it.
Attached(p) ==
  LET version == attempt[p].observation.version IN
  /\ At(p, "attach")
  /\ \/ /\ Watched(version)
        /\ Recollect(p)
        /\ UNCHANGED <<coordinatorVars, world, rt, monitor, request, auditor>>
     \/ /\ ~Watched(version) /\ (monitor.st # "attaching" \/ world.version # version)
        /\ MonitorUnavailable(p)
        /\ UNCHANGED world
     \/ /\ ~Watched(version)
        /\ MonitorUnavailable(p)
        /\ Fault

\* The watched socket closed with its connection, or fails on its own.
MonitorEnds ==
  /\ monitor.st = "open"
  /\ ConnectionChanged
  /\ \E flap \in Flaps : rt' = AfterMove(flap)
  /\ Disturbed(FALSE, TRUE)
  /\ UNCHANGED <<attempt, request>>
MonitorFires == monitor.conn # world.conn /\ MonitorEnds /\ UNCHANGED world
MonitorFails == Fault /\ MonitorEnds

(***************************************************************************)
(* The publication block.  No await separates the selection from it.       *)
(***************************************************************************)
Selections(v) == IF v = None THEN {} ELSE world.selected[v]
SelectionToken(v) == IF RegistryEnabled /\ v # None THEN world.selected[v] ELSE None
Preview(o) == Admits(o, Selections(o.version))
Key(o) == [version |-> o.version, token |-> SelectionToken(o.version), admits |-> Preview(o)]

Claims(p) == attempt[p].boot /\ ~rt.admitted
Gated(p) == ~rt.admitted /\ ~Claims(p)
MovedDuringProbe(p) == RegistryEnabled /\ world.revision # attempt[p].revision
Exempt(p) == Claims(p) => ~rt.bootSpent
Fenced(p) == attempt[p].epoch = rt.epoch /\ Watched(attempt[p].observation.version)

\* The confirmations after this verification.
Counted(p) ==
  LET o == attempt[p].observation
      kept == IF rt.key # None /\ rt.key # Key(o) /\ o.complete THEN ResetCount(rt) ELSE rt
  IN IF Gated(p) /\ Preview(o) # {} /\ Background(p)
       THEN [kept EXCEPT !.key = Key(o), !.confirms = @ + 1]
       ELSE IF Gated(p) THEN kept ELSE rt
\* Mutant: one confirmation too many.
HeldBackOnceMore(p) ==
  /\ Gated(p) /\ Preview(attempt[p].observation) # {}
  /\ Background(p) => Counted(p).confirms <= rt.required
\* Held back: on demand never restores, and in background not yet.
HeldBack(p) ==
  /\ Gated(p) /\ Preview(attempt[p].observation) # {}
  /\ Background(p) => Counted(p).confirms < rt.required

\* History: background verifications in a row that saw the same.
Confirmed(p) ==
  LET key == Key(attempt[p].observation)
      same == key = auditor.key
  IN auditor' =
       [run |-> IF ~Background(p) THEN IF same THEN auditor.run ELSE 0
                ELSE IF ~same THEN 1
                ELSE IF auditor.run < FlapConfirmations THEN auditor.run + 1 ELSE auditor.run,
        key |-> IF Background(p) \/ same THEN key ELSE None,
        passed |-> IF HeldBack(p) THEN auditor.passed ELSE Plans,
        settled |-> TRUE]

Failed(p) ==
  /\ rt' = Ended(p, RecordFailure(rt))
  /\ Disturbed(TRUE, FALSE)
  /\ UNCHANGED coordinatorVars

Refused(p) ==
  \/ /\ MovedDuringProbe(p)
     /\ \/ /\ RegistryMoved
           /\ RetireIfPublished
           /\ \E flap \in Flaps : rt' = Ended(p, RecordFailure(Synced(flap)))
           /\ Disturbed(TRUE, TRUE)
        \/ ~RegistryMoved /\ Failed(p)
     /\ UNCHANGED world
  \/ /\ ~MovedDuringProbe(p) /\ ~Exempt(p)
     /\ rt' = Ended(p, rt)
     /\ UNCHANGED <<coordinatorVars, world, auditor>>
  \/ /\ ~MovedDuringProbe(p) /\ Exempt(p) /\ ~Fenced(p)
     /\ Failed(p)
     /\ UNCHANGED world
  \/ /\ ~MovedDuringProbe(p) /\ Exempt(p) /\ Fenced(p)
     /\ RegistryEnabled      \* it moves between the two reads of the token
     /\ Failed(p)
     /\ Fault

Publication(p, flap) ==
  LET o == attempt[p].observation
      selected == Selections(o.version)
      seen == [(IF Unchanged(o, selected) THEN Counted(p) ELSE Changed(Counted(p)))
                 EXCEPT !.observation = o, !.token = SelectionToken(o.version),
                        !.admitted = Preview(o) # {}]
      admitting == ResetCount(Spend(
                     IF Gated(p) THEN [seen EXCEPT !.active = FALSE, !.restored = TRUE]
                                 ELSE seen))
      withheld == RecordFailure(IF rt.admitted THEN EnterRecovery(seen, flap) ELSE seen)
  IN IF Preview(o) # {} THEN admitting ELSE withheld

Publish(p) ==
  LET o == attempt[p].observation IN
  /\ At(p, "publish")
  /\ \/ Refused(p)
     \/ /\ ~MovedDuringProbe(p) /\ Exempt(p) /\ Fenced(p) /\ HeldBack(p)
        /\ rt' = Ended(p, Counted(p))
        /\ Confirmed(p)
        /\ UNCHANGED <<coordinatorVars, world>>
     \/ /\ ~MovedDuringProbe(p) /\ Exempt(p) /\ Fenced(p) /\ ~HeldBack(p)
        /\ IF Unchanged(o, Selections(o.version))
             THEN UNCHANGED coordinatorVars
             ELSE Reconcile(o, Selections(o.version))
        /\ \E flap \in Flaps : rt' = Ended(p, Publication(p, flap))
        /\ IF Preview(o) = {} THEN Disturbed(TRUE, ~Unchanged(o, Selections(o.version)))
           ELSE IF rt.admitted /\ Unchanged(o, Selections(o.version)) THEN UNCHANGED auditor
           ELSE Confirmed(p)
        /\ UNCHANGED world
  /\ Leave(p)
  /\ UNCHANGED monitor

(***************************************************************************)
(* configure: a new coordinator, source session, owner and boot sequence;  *)
(* the recovery state survives once the boot exemption is spent.           *)
(* Attempts in flight are superseded: every await of theirs is followed by *)
(* a stale check, so what they have collected is dead, and their           *)
(* reconciliation lock is not the new one.                                 *)
(***************************************************************************)
Superseded == [p \in Proc |-> IF attempt[p].pc = "idle" THEN NoAttempt
                              ELSE [NoAttempt EXCEPT !.pc = "superseded"]]

Configure ==
  /\ rt.config < MaxConfig /\ rt.epoch < MaxSession
  /\ Fault
  /\ \E flap \in Flaps :
       LET fresh == ResetCount(
             [rt EXCEPT !.config = @ + 1, !.phase = "boot", !.epoch = @ + 1,
                !.observation = None, !.token = None, !.admitted = FALSE, !.outdated = {}])
           unspent == [fresh EXCEPT !.active = FALSE, !.required = Confirmations,
                                    !.restored = FALSE]
       IN rt' = IF ~rt.bootSpent THEN unspent
                ELSE IF rt.admitted THEN EnterRecovery(fresh, flap) ELSE fresh
  /\ published' = None /\ lastGen' = 0 /\ issued' = {} /\ commits' = {} /\ lastLease' = 0
  /\ monitor' = NoMonitor
  /\ Disturbed(FALSE, TRUE)
  /\ attempt' = Superseded
  /\ UNCHANGED request

(***************************************************************************)
(* Requests: acquire, consume, revalidate before each call, finish.        *)
(***************************************************************************)
Close(r) ==
  request' = [request EXCEPT ![r] = [phase |-> "done", leases |-> {}, calls |-> 0]]
\* Mutant: any plan will do.
PlanAnyTime(r) == r \in Request
PlanIsCurrent(r) == r \notin rt.outdated

\* A plan is made; a mutation then verifies Core once more on demand, a
\* delegated read does not.
Plan(r) ==
  /\ request[r].phase = "plan"
  /\ \/ request' = [request EXCEPT ![r].phase = "verifying"] /\ Begin(r)
     \/ request' = [request EXCEPT ![r].phase = "acquire"] /\ UNCHANGED attempt
  /\ UNCHANGED <<coordinatorVars, world, rt, monitor, auditor>>

AcquireLeases(r) ==
  /\ request[r].phase = "acquire"
  /\ \/ SyncRegistry /\ UNCHANGED request
     \/ /\ ~RegistryMoved
        /\ rt.observation # None /\ PlanIsCurrent(r)
        /\ Acquire(Needs, rt.observation.session)
        /\ request' = [request EXCEPT ![r].phase = "leased", ![r].leases = NewLeases(Needs)]
        /\ UNCHANGED <<rt, auditor>>
     \/ /\ ~RegistryMoved
        /\ \/ rt.observation = None
           \/ ~PlanIsCurrent(r)
           \/ ~CanAcquire(Needs, rt.observation.session)
        /\ Close(r)
        /\ UNCHANGED <<coordinatorVars, rt, auditor>>
  /\ UNCHANGED <<world, monitor, attempt>>

Consume(r) ==
  LET leases == request[r].leases
      granted == rt.observation # None /\ CanCommit(leases, rt.observation)
  IN
  /\ request[r].phase = "leased"
  /\ \/ SyncRegistry /\ UNCHANGED request
     \/ /\ ~RegistryMoved /\ granted
        /\ Commit(leases, rt.observation)
        /\ request' = [request EXCEPT ![r].phase = "committed"]
        /\ UNCHANGED <<rt, auditor>>
     \/ /\ ~RegistryMoved /\ ~granted
        /\ Release(leases)
        /\ Close(r)
        /\ UNCHANGED <<rt, auditor>>
  /\ UNCHANGED <<world, monitor, attempt>>

\* A refusal between the lease and its commit.
GiveUp(r) ==
  /\ request[r].phase = "leased"
  /\ Release(request[r].leases)
  /\ Close(r)
  /\ UNCHANGED <<world, rt, monitor, attempt, auditor>>

Call(r) ==
  /\ request[r].phase = "committed"
  /\ \/ SyncRegistry /\ UNCHANGED request
     \/ /\ ~RegistryMoved /\ request[r].calls < MaxCalls
        /\ rt.observation # None /\ ValidCommits(request[r].leases, rt.observation)
        /\ request' = [request EXCEPT ![r].calls = @ + 1]
        /\ UNCHANGED <<coordinatorVars, rt, auditor>>
  /\ UNCHANGED <<world, monitor, attempt>>

\* The calls are over, or a revalidation refused the next one.
FinishCalls(r) ==
  /\ request[r].phase = "committed"
  /\ Finish(request[r].leases)
  /\ Close(r)
  /\ UNCHANGED <<world, rt, monitor, attempt, auditor>>

(***************************************************************************)
(* Home Assistant and the registry.                                        *)
(***************************************************************************)
CoreMoves ==
  /\ world.moves > 0
  /\ \E v \in Version :
       world' = [world EXCEPT !.moves = @ - 1, !.version = v, !.conn = @ + 1]
  /\ UNCHANGED <<coordinatorVars, rt, monitor, attempt, request, auditor>>

RegistryMoves ==
  /\ RegistryEnabled /\ world.moves > 0
  /\ \E v \in Version : \E selected \in (SUBSET Capability) \ {world.selected[v]} :
       world' = [world EXCEPT !.moves = @ - 1, !.revision = @ + 1, !.selected[v] = selected]
  /\ UNCHANGED <<coordinatorVars, rt, monitor, attempt, request, auditor>>

Attempting(p) ==
  \/ Discard(p) \/ Sample(p)
  \/ ProbeFails(p) \/ FirstSnapshot(p) \/ SecondSnapshot(p)
  \/ Observed(p) \/ Refreshed(p) \/ EnsureMonitor(p) \/ Attached(p) \/ Publish(p)
Requesting(r) ==
  Plan(r) \/ AcquireLeases(r) \/ Consume(r) \/ GiveUp(r) \/ Call(r) \/ FinishCalls(r)

Next ==
  \/ \E p \in Proc : Start(p) \/ Attempting(p)
  \/ \E r \in Request : Requesting(r)
  \/ MonitorAttaches \/ MonitorFires \/ MonitorFails
  \/ Configure \/ CoreMoves \/ RegistryMoves

\* The serving task runs on, awaited probes and attachments answer within
\* their timeouts, and a closed socket is noticed.
Fairness ==
  /\ \A p \in Proc : WF_vars(Start(p) \/ Attempting(p))
  /\ WF_vars(MonitorAttaches)
  /\ WF_vars(MonitorFires)

Spec == Init /\ [][Next]_vars
FairSpec == Spec /\ Fairness

(***************************************************************************)
(* Properties.                                                             *)
(***************************************************************************)
\* Every variable keeps its shape; bounds are those of the constants.
TypeOK ==
  /\ CoordinatorTypeOK
  /\ world \in [version : Version, conn : Nat, revision : Nat, moves : Nat,
                selected : [Version -> SUBSET Capability]]
  /\ rt.config \in Worker /\ rt.phase \in {"boot", "loop"} /\ rt.epoch \in 1..MaxSession
  /\ rt.observation \in Observation \union {None}
  /\ rt.token \in Authority \union {None}
  /\ {rt.admitted, rt.bootSpent, rt.active, rt.restored} \subseteq BOOLEAN
  /\ rt.required \in {Confirmations, FlapConfirmations}
  /\ rt.confirms \in Nat /\ rt.confirms < rt.required
  /\ rt.outdated \subseteq Request /\ auditor.passed \subseteq Request
  /\ monitor \in [st : {"none", "attaching", "open"}, version : Version \union {None},
                  epoch : 0..MaxSession, conn : Nat]
  /\ \A p \in Proc : attempt[p].pc \in
       {"idle", "lock", "first", "second", "observed", "missing", "monitor", "attach",
        "publish", "superseded"}
  /\ \A r \in Request :
       /\ request[r].phase \in {"plan", "verifying", "acquire", "leased",
                                "committed", "done"}
       /\ request[r].leases \in SUBSET Lease

\* The runtime's admission flag, which decides whether a publication is gated,
\* never parts from what the coordinator really publishes.
AdmissionAgrees == rt.admitted <=> published # None /\ published.admits # {}

\* Health and routes never pair a generation with another observation.
GenerationHasItsObservation == published # None => rt.observation = published.observation

\* No unused lease outlives its generation, and every lease and commit the
\* coordinator counts belongs to a request that will give it back.
LeasesHaveOwners ==
  /\ \A l \in issued : \E r \in Request :
       request[r].phase = "leased" /\ l \in request[r].leases
  /\ \A l \in commits : \E r \in Request :
       request[r].phase = "committed" /\ l \in request[r].leases
  /\ \A l \in issued : published # None /\ l.gen = published.gen

\* Authority that was lost is admitted again only after the required number of
\* supervisor-paced verifications in a row that saw the same, unless nothing
\* was ever settled before: the first boot.
RestorationGated ==
  [][~rt.admitted /\ rt'.admitted => ~auditor.settled \/ auditor'.run >= rt.required]_vars

\* An admitted Core version gives way to another only by being withdrawn, so
\* that the new version passes the restoration gate.
NewVersionPassesGate ==
  [][rt.admitted /\ rt'.admitted =>
       rt'.observation.version = rt.observation.version]_vars

\* What is admitted was observed after its watcher attached: a replacement of
\* Core cannot inherit authority observed on an earlier connection.
ObservedUnderWatch ==
  [][published' # published /\ published' # None /\ published'.admits # {} =>
       /\ monitor.st = "open" /\ monitor.epoch = rt.epoch
       /\ \E p \in Proc :
            /\ attempt[p].pc = "publish"
            /\ attempt[p].observation = published'.observation
            /\ monitor.conn <= attempt[p].conn]_vars

\* A provider is called only while no authority changed since the request's
\* plan, and what the call needs is admitted and still selected for its version.
CallsUnderOnePlan ==
  [][\A r \in Request : request'[r].calls > request[r].calls =>
       /\ r \notin auditor.passed
       /\ published # None /\ Needs \subseteq published.admits
       /\ RegistryEnabled =>
            Needs \subseteq world.selected[published.observation.version]]_vars

\* Once Core and the registry rest and select authority for the version Core
\* runs, that authority is admitted for good.
AuthorityReturns == <>[](world.selected[world.version] # {}) => <>[]rt.admitted
=============================================================================
