--------------------------- MODULE CoreRuntimeProofs ---------------------------
(***************************************************************************)
(* The safety of CoreRuntime, for any number of requests, configurations,  *)
(* moves of Core and of the registry.                                      *)
(***************************************************************************)
EXTENDS CoreRuntime, TLAPS

-----------------------------------------------------------------------------
(* The shape of the state.                                                 *)

Keys ==
  [version : Version \union {None}, token : Authority \union {None},
   admits : SUBSET Capability]
Rt ==
  [config : Worker, phase : {"boot", "loop"}, epoch : 1..MaxSession,
   observation : Observation \union {None}, token : Authority \union {None},
   admitted : BOOLEAN, bootSpent : BOOLEAN, active : BOOLEAN,
   required : {Confirmations, FlapConfirmations}, confirms : Nat,
   key : Keys \union {None}, restored : BOOLEAN, outdated : SUBSET Request]

\* Where an attempt does not hold the reconciliation lock, and where it has an
\* observation.
Parked == {"idle", "lock", "superseded"}
Seen == {"second", "observed", "missing", "monitor", "attach", "publish"}
Attempt ==
  [pc : Parked \union Seen \union {"first"}, boot : BOOLEAN, epoch : 0..MaxSession,
   revision : Nat, then : {"none", "observed", "monitor", "publish"}, conn : Nat,
   observation : Observation \union {None}]
RequestState ==
  [phase : {"plan", "verifying", "acquire", "leased", "committed", "done"},
   leases : SUBSET Lease, calls : Nat]
World ==
  [version : Version, conn : Nat, revision : Nat, moves : Nat,
   selected : [Version -> SUBSET Capability]]
Monitor ==
  [st : {"none", "attaching", "open"}, version : Version \union {None},
   epoch : 0..MaxSession, conn : Nat]
Auditor ==
  [run : Nat, key : Keys \union {None}, settled : BOOLEAN, passed : SUBSET Request]

\* An attempt is one of these, with an observation and a way on where it needs
\* them.
WellFormed(a) ==
  /\ a \in Attempt
  /\ a.pc \in Seen => a.observation \in Observation
  /\ a.pc \in {"first", "second"} => a.then # "none"

RtShape == rt \in Rt /\ rt.confirms < rt.required
AttemptsShape ==
  /\ attempt \in [Proc -> Attempt] /\ \A p \in Proc : WellFormed(attempt[p])
  /\ request \in [Request -> RequestState]
  /\ \A r \in Request : attempt[r].pc # "idle" => request[r].phase = "verifying"
Shape ==
  /\ CoordinatorTypeOK
  /\ world \in World /\ monitor \in Monitor /\ auditor \in Auditor
  /\ RtShape
  /\ AttemptsShape

-----------------------------------------------------------------------------
(* The inductive invariants, each one relative to those before it.         *)

\* An attempt's fence and a complete observation are of this epoch or before.
EpochInv ==
  \A p \in Proc :
    /\ attempt[p].pc \notin Parked => attempt[p].epoch <= rt.epoch
    /\ attempt[p].pc \in Seen /\ (attempt[p].pc = "second" \/ attempt[p].observation.complete) =>
           /\ attempt[p].epoch <= attempt[p].observation.session
           /\ attempt[p].observation.session <= rt.epoch

\* The published generation is the allocator's last, what it admits follows
\* from its material, and the runtime's fields are those it was published with.
GenerationInv ==
  published # None =>
    /\ published.gen = lastGen
    /\ published.admits = Admits(published.observation, published.authority)
    /\ rt.observation = published.observation
    /\ published.observation.complete => published.observation.session = rt.epoch
    /\ rt.bootSpent
    /\ IF RegistryEnabled /\ published.observation.version # None
         THEN rt.token = published.authority
         ELSE published.observation.version = None => published.authority = {}

\* One attempt holds the reconciliation lock of its configuration.
OneAttempt ==
  \A p, q \in Proc :
    attempt[p].pc \notin Parked /\ attempt[q].pc \notin Parked => p = q

\* A watcher attaches for the attempt that waits for it; what was observed
\* under an open one was observed on its connection or a later one.
WatchInv ==
  /\ monitor.conn <= world.conn
  /\ monitor.st = "attaching" => \E p \in Proc : attempt[p].pc = "attach"
  /\ monitor.st = "open" =>
       \A p \in Proc :
         attempt[p].pc \in Seen \ {"attach"}
           /\ (attempt[p].pc = "second" \/ attempt[p].observation.complete) =>
             monitor.conn <= attempt[p].conn

\* A request has leases of one acquisition, for what it needs, all of them
\* counted or none; a lease that another coordinator issued is of an earlier
\* session.
Holds(r) == request[r].phase \in {"leased", "committed"}
LeaseInv ==
  /\ \A r \in Request : Holds(r) =>
       /\ {l.capability : l \in request[r].leases} = Needs
       /\ \A l \in request[r].leases :
            /\ l.observation.complete /\ l.observation.session <= rt.epoch
            /\ l.observation.session < rt.epoch \/ (l.id <= lastLease /\ l.gen <= lastGen)
  /\ \A r \in Request :
       LET counted == IF request[r].phase = "leased" THEN issued ELSE commits IN
       Holds(r) => \/ request[r].leases \subseteq counted
                   \/ request[r].leases \intersect counted = {}
  /\ \A q, r \in Request :
       Holds(q) /\ Holds(r) /\ q # r => request[q].leases \intersect request[r].leases = {}

\* A plan that a change of authority passed is outdated once there is a
\* generation, and its leases are of another one.
PassedInv ==
  \A r \in auditor.passed :
    /\ request[r].phase # "plan"
    /\ published # None /\ request[r].phase # "done" /\ ~Holds(r) => r \in rt.outdated
    /\ Holds(r) => \A l \in request[r].leases :
         published = None \/ l.gen # published.gen \/ l.observation # published.observation

\* What was settled spent the boot exemption, and the auditor counts at least
\* what the runtime counts.
GateInv ==
  /\ auditor.settled => rt.bootSpent
  /\ \A p \in Proc :
       /\ p \in Worker /\ attempt[p].pc \notin {"idle", "superseded"} =>
            attempt[p].boot \/ rt.bootSpent
       /\ attempt[p].pc \notin Parked => attempt[p].boot \/ rt.bootSpent
  /\ rt.confirms > 0 =>
       rt.key # None /\ auditor.key = rt.key /\ auditor.run >= rt.confirms

-----------------------------------------------------------------------------

(***************************************************************************)
(* The recovery bookkeeping, field by field.                               *)
(***************************************************************************)

\* t says of the authority what s says.
SameAuthority(s, t) ==
  /\ t.config = s.config /\ t.epoch = s.epoch /\ t.observation = s.observation
  /\ t.token = s.token /\ t.outdated = s.outdated /\ t.admitted = s.admitted

\* Spend changes the exemption.
LEMMA SpendDoes ==
  ASSUME NEW s \in Rt
  PROVE  /\ Spend(s) \in Rt /\ SameAuthority(s, Spend(s)) /\ Spend(s).bootSpent
         /\ Spend(s).phase = s.phase /\ Spend(s).required = s.required
         /\ Spend(s).confirms = s.confirms /\ Spend(s).key = s.key
BY DEF Rt, Spend, SameAuthority

\* ResetCount changes the count.
LEMMA ResetCountDoes ==
  ASSUME NEW s \in Rt
  PROVE  /\ ResetCount(s) \in Rt /\ SameAuthority(s, ResetCount(s))
         /\ ResetCount(s).bootSpent = s.bootSpent /\ ResetCount(s).phase = s.phase
         /\ ResetCount(s).required = s.required /\ ResetCount(s).confirms = 0
BY DEF Rt, ResetCount, SameAuthority

\* RecordFailure changes both.
LEMMA RecordFailureDoes ==
  ASSUME NEW s \in Rt
  PROVE  /\ RecordFailure(s) \in Rt /\ SameAuthority(s, RecordFailure(s))
         /\ RecordFailure(s).bootSpent /\ RecordFailure(s).phase = s.phase
         /\ RecordFailure(s).confirms = 0
BY SpendDoes, ResetCountDoes DEF RecordFailure, SameAuthority

\* EnterRecovery too, and the number of confirmations it asks for.
LEMMA EnterRecoveryDoes ==
  ASSUME NEW s \in Rt, NEW flap \in BOOLEAN
  PROVE  /\ EnterRecovery(s, flap) \in Rt /\ SameAuthority(s, EnterRecovery(s, flap))
         /\ EnterRecovery(s, flap).bootSpent /\ EnterRecovery(s, flap).phase = s.phase
         /\ EnterRecovery(s, flap).confirms = 0
<1> DEFINE t == [s EXCEPT !.active = TRUE,
                          !.required = IF flap THEN FlapConfirmations ELSE Confirmations]
           u == IF s.active THEN s ELSE t
<1>1. t \in Rt /\ SameAuthority(s, t) /\ t.phase = s.phase
  BY DEF Rt, SameAuthority
<1>2. u \in Rt /\ SameAuthority(s, u) /\ u.phase = s.phase
  BY <1>1 DEF SameAuthority
<1>3. EnterRecovery(s, flap) = ResetCount(Spend(u))
  BY DEF EnterRecovery
<1> HIDE DEF u
<1>4. Spend(u) \in Rt
  BY <1>2, SpendDoes
<1> QED BY <1>2, <1>3, <1>4, SpendDoes, ResetCountDoes DEF SameAuthority

\* The plans there are.
LEMMA PlansAre == Plans \in SUBSET Request
BY DEF Plans

\* The end of an attempt keeps all but the boot.
LEMMA EndedDoes ==
  ASSUME NEW s \in Rt, NEW p
  PROVE  /\ Ended(p, s) \in Rt /\ SameAuthority(s, Ended(p, s))
         /\ s.bootSpent => Ended(p, s).bootSpent
         /\ Ended(p, s).required = s.required
         /\ Ended(p, s).confirms = s.confirms /\ Ended(p, s).key = s.key
<1>1. ASSUME NEW t \in Rt
      PROVE  LET u == [t EXCEPT !.phase = "loop"] IN
             /\ u \in Rt /\ SameAuthority(t, u) /\ u.bootSpent = t.bootSpent
             /\ u.required = t.required /\ u.confirms = t.confirms /\ u.key = t.key
  BY DEF Rt, SameAuthority
<1>2. CASE p \in Worker /\ s.phase = "boot"
  <2>1. Ended(p, s) = [Spend(s) EXCEPT !.phase = "loop"]
    BY <1>2 DEF Ended
  <2>2. Spend(s) \in Rt
    BY SpendDoes
  <2> QED BY <1>1, <2>1, <2>2, SpendDoes DEF SameAuthority
<1>3. CASE ~(p \in Worker /\ s.phase = "boot")
  BY <1>3 DEF Ended, SameAuthority
<1> QED BY <1>2, <1>3

\* A withdrawal ends the admission and outdates the plans.
LEMMA DroppedDoes ==
  ASSUME NEW s \in Rt, NEW d, d = ResetCount([Changed(s) EXCEPT !.admitted = FALSE])
  PROVE  /\ d \in Rt /\ d.config = s.config /\ d.epoch = s.epoch
         /\ d.observation = s.observation /\ ~d.admitted /\ d.outdated = Plans
         /\ d.confirms = 0 /\ d.bootSpent = s.bootSpent
<1>1. PICK c : c = [Changed(s) EXCEPT !.admitted = FALSE]
  OBVIOUS
<1>2. /\ c \in Rt /\ c.config = s.config /\ c.epoch = s.epoch /\ c.observation = s.observation
      /\ ~c.admitted /\ c.outdated = Plans /\ c.bootSpent = s.bootSpent
  BY <1>1, PlansAre DEF Rt, Changed
<1> QED BY <1>1, <1>2, ResetCountDoes DEF SameAuthority

\* It spends the exemption when there was a generation.
LEMMA WithdrawnDoes ==
  ASSUME NEW s \in Rt, NEW flap \in BOOLEAN,
         NEW w, w = Withdrawn(s, published # None, flap)
  PROVE  /\ w \in Rt /\ w.config = s.config /\ w.epoch = s.epoch
         /\ w.observation = s.observation /\ ~w.admitted
         /\ w.outdated = Plans /\ w.confirms = 0
         /\ s.bootSpent \/ published # None => w.bootSpent
<1>1. PICK d : d = ResetCount([Changed(s) EXCEPT !.admitted = FALSE])
  OBVIOUS
<1>2. /\ d \in Rt /\ d.config = s.config /\ d.epoch = s.epoch
      /\ d.observation = s.observation /\ ~d.admitted /\ d.outdated = Plans
      /\ d.confirms = 0 /\ d.bootSpent = s.bootSpent
  BY <1>1, DroppedDoes
<1>3. CASE published = None
  <2>1. w = d
    BY <1>1, <1>3 DEF Withdrawn
  <2> QED BY <1>2, <1>3, <2>1
<1>4. CASE published # None /\ s.admitted
  <2>1. w = EnterRecovery(d, flap)
    BY <1>1, <1>4 DEF Withdrawn
  <2>2. /\ w \in Rt /\ SameAuthority(d, w) /\ w.bootSpent /\ w.confirms = 0
    BY <1>2, <2>1, EnterRecoveryDoes
  <2> QED BY <1>2, <2>2 DEF SameAuthority
<1>5. CASE published # None /\ ~s.admitted
  <2>1. w = Spend(d)
    BY <1>1, <1>5 DEF Withdrawn
  <2>2. /\ w \in Rt /\ SameAuthority(d, w) /\ w.bootSpent /\ w.confirms = d.confirms
    BY <1>2, <2>1, SpendDoes
  <2> QED BY <1>2, <2>2 DEF SameAuthority
<1> QED BY <1>3, <1>4, <1>5

(***************************************************************************)
(* The state's parts, one step at a time.                                  *)
(***************************************************************************)

\* A step moves one attempt, and no request.
LEMMA AttemptMoves ==
  ASSUME AttemptsShape, NEW p \in Proc, NEW t, WellFormed(t),
         attempt[p].pc # "idle",
         attempt' = [attempt EXCEPT ![p] = t], request' = request
  PROVE  AttemptsShape'
<1>1. attempt' \in [Proc -> Attempt]
  BY DEF AttemptsShape, WellFormed
<1>2. \A q \in Proc : attempt'[q] = IF q = p THEN t ELSE attempt[q]
  BY DEF AttemptsShape
<1>3. \A q \in Proc : WellFormed(attempt'[q])
  BY <1>2 DEF AttemptsShape
<1>4. \A r \in Request : attempt'[r].pc # "idle" => request'[r].phase = "verifying"
  BY <1>2 DEF AttemptsShape, Proc
<1>5. (\A q \in Proc : WellFormed(attempt[q]))' <=> \A q \in Proc : WellFormed(attempt'[q])
  BY DEF WellFormed
<1> QED BY <1>1, <1>3, <1>4, <1>5 DEF AttemptsShape

\* No attempt is well formed.
LEMMA NoAttemptIs == WellFormed(NoAttempt)
BY CoordinatorAssumption DEF WellFormed, NoAttempt, Attempt, Parked, Seen

\* An attempt that ends leaves its request at its lease.
LEMMA LeaveDoes ==
  ASSUME AttemptsShape, NEW p \in Proc, attempt[p].pc # "idle", Leave(p)
  PROVE  AttemptsShape'
<1>1. \A q \in Proc : attempt'[q] = IF q = p THEN NoAttempt ELSE attempt[q]
  BY DEF AttemptsShape, Leave
<1>2. attempt' \in [Proc -> Attempt]
  BY NoAttemptIs DEF AttemptsShape, Leave, WellFormed
<1>3. request' \in [Request -> RequestState]
  BY DEF AttemptsShape, Leave, RequestState
<1>4. \A q \in Proc : WellFormed(attempt'[q])
  BY <1>1, NoAttemptIs DEF AttemptsShape
<1>5. \A r \in Request : attempt'[r].pc # "idle" => request'[r].phase = "verifying"
  BY <1>1 DEF AttemptsShape, Leave, Proc, NoAttempt
<1>6. (\A q \in Proc : WellFormed(attempt[q]))' <=> \A q \in Proc : WellFormed(attempt'[q])
  BY DEF WellFormed
<1> QED BY <1>2, <1>3, <1>4, <1>5, <1>6 DEF AttemptsShape

\* A fault is one of the world's moves.
LEMMA FaultDoes ==
  ASSUME world \in World, Fault
  PROVE  world' \in World /\ world'.version = world.version /\ world'.conn = world.conn
           /\ world'.revision = world.revision /\ world'.selected = world.selected
BY DEF World, Fault

\* A history that an outcome disturbed.
LEMMA DisturbedDoes ==
  ASSUME auditor \in Auditor, NEW failure \in BOOLEAN, NEW change \in BOOLEAN,
         Disturbed(failure, change)
  PROVE  /\ auditor' \in Auditor
         /\ auditor'.passed = IF change THEN Plans ELSE auditor.passed
         /\ auditor'.settled <=> auditor.settled \/ failure \/ published # None
BY PlansAre DEF Auditor, Disturbed

\* What the registry selects, and what a publication would be.
LEMMA KeyIs ==
  ASSUME world \in World, NEW o \in Observation
  PROVE  /\ Selections(o.version) \in Authority
         /\ SelectionToken(o.version) \in Authority \union {None}
         /\ Preview(o) \in SUBSET Capability
         /\ Key(o) \in Keys /\ Key(o) # None
<1>1. Selections(o.version) \in Authority
  BY DEF World, Observation, Selections, Authority
<1>2. SelectionToken(o.version) \in Authority \union {None}
  BY DEF World, Observation, SelectionToken, Authority
<1>3. Preview(o) \in SUBSET Capability
  BY DEF Observation, Preview, Admits
<1>4. Key(o) \in Keys
  BY <1>2, <1>3 DEF Key, Keys, Observation
<1> QED BY <1>1, <1>2, <1>3, <1>4, RuntimeAssumption DEF Keys, Authority

(***************************************************************************)
(* The kinds of steps: how they change the authority.                      *)
(***************************************************************************)

\* A withdrawal takes the generation away with its unused leases.
Withdrawing ==
  /\ published' = None /\ UNCHANGED <<lastGen, commits, lastLease>>
  /\ issued' = IF published # None THEN {} ELSE issued
  /\ rt' \in Rt /\ rt'.config = rt.config /\ rt.epoch <= rt'.epoch
  /\ ~rt'.admitted /\ rt'.confirms = 0 /\ rt'.outdated = Plans
  /\ rt.bootSpent \/ published # None => rt'.bootSpent
  /\ auditor' \in Auditor /\ auditor'.passed = Plans
  /\ auditor'.settled => auditor.settled \/ rt'.bootSpent

\* The authority stays.
Keeping ==
  /\ UNCHANGED coordinatorVars
  /\ RtShape' /\ SameAuthority(rt, rt')
  /\ rt.bootSpent => rt'.bootSpent
  /\ auditor' \in Auditor /\ auditor'.passed = auditor.passed

\* The clock's choice is a Boolean.
LEMMA FlapsAre == Flaps \in SUBSET BOOLEAN
BY DEF Flaps

\* A runtime that counts nothing counts less than it asks for.
LEMMA NothingCounted ==
  ASSUME NEW s \in Rt, s.confirms = 0
  PROVE  s.confirms < s.required
BY RuntimeAssumption DEF Rt

\* A generation that was published is gone, its unused leases with it.
LEMMA RetireIfPublishedDoes ==
  ASSUME RetireIfPublished
  PROVE  /\ published' = None /\ UNCHANGED <<lastGen, commits, lastLease>>
         /\ issued' = IF published # None THEN {} ELSE issued
BY DEF RetireIfPublished, Retire, coordinatorVars

\* A moved connection is a withdrawal in a later epoch.
LEMMA AfterMoveDoes ==
  ASSUME rt \in Rt, rt.epoch < MaxSession, NEW flap \in BOOLEAN
  PROVE  /\ AfterMove(flap) \in Rt /\ AfterMove(flap).config = rt.config
         /\ AfterMove(flap).epoch = rt.epoch + 1 /\ ~AfterMove(flap).admitted
         /\ AfterMove(flap).outdated = Plans /\ AfterMove(flap).confirms = 0
         /\ rt.bootSpent \/ published # None => AfterMove(flap).bootSpent
<1> DEFINE d == [Changed(rt) EXCEPT !.epoch = @ + 1, !.observation = None, !.admitted = FALSE]
           c == IF published # None
                  THEN IF rt.admitted \/ rt.active THEN EnterRecovery(d, flap) ELSE Spend(d)
                  ELSE IF rt.confirms > 0 /\ rt.active THEN EnterRecovery(d, flap) ELSE d
<1>1. /\ d \in Rt /\ d.config = rt.config /\ d.epoch = rt.epoch + 1 /\ ~d.admitted
      /\ d.outdated = Plans /\ d.bootSpent = rt.bootSpent
  <2>1. PICK e : e = Changed(rt)
    OBVIOUS
  <2>2. /\ e \in Rt /\ e.config = rt.config /\ e.epoch = rt.epoch /\ e.outdated = Plans
        /\ e.bootSpent = rt.bootSpent
    BY <2>1, PlansAre DEF Rt, Changed
  <2>3. PICK n : n = e.epoch + 1
    OBVIOUS
  <2>4. d = [e EXCEPT !.epoch = n, !.observation = None, !.admitted = FALSE]
    BY <2>1, <2>3
  <2>5. n \in 1..MaxSession /\ n = rt.epoch + 1
    BY <2>2, <2>3, CoordinatorAssumption DEF Rt
  <2> QED BY <2>2, <2>4, <2>5 DEF Rt
<1>2. AfterMove(flap) = ResetCount(c)
  BY DEF AfterMove
<1> HIDE DEF d
<1>3. c = EnterRecovery(d, flap) \/ c = Spend(d) \/ (c = d /\ published = None)
  OBVIOUS
<1> HIDE DEF c
<1>4. /\ EnterRecovery(d, flap) \in Rt /\ SameAuthority(d, EnterRecovery(d, flap))
      /\ EnterRecovery(d, flap).bootSpent
  BY <1>1, EnterRecoveryDoes
<1>5. Spend(d) \in Rt /\ SameAuthority(d, Spend(d)) /\ Spend(d).bootSpent
  BY <1>1, SpendDoes
<1>6. /\ c \in Rt /\ SameAuthority(d, c)
      /\ rt.bootSpent \/ published # None => c.bootSpent
  BY <1>1, <1>3, <1>4, <1>5 DEF SameAuthority
<1>7. /\ ResetCount(c) \in Rt /\ SameAuthority(c, ResetCount(c))
      /\ ResetCount(c).bootSpent = c.bootSpent /\ ResetCount(c).confirms = 0
  BY <1>6, ResetCountDoes
<1> QED BY <1>1, <1>2, <1>6, <1>7 DEF SameAuthority

\* What a lost selection of the registry leaves of the runtime.
LEMMA SyncedDoes ==
  ASSUME rt \in Rt, NEW flap \in BOOLEAN
  PROVE  /\ Synced(flap) \in Rt /\ Synced(flap).config = rt.config
         /\ Synced(flap).epoch = rt.epoch /\ ~Synced(flap).admitted
         /\ Synced(flap).outdated = Plans /\ Synced(flap).confirms = 0
         /\ rt.bootSpent \/ published # None => Synced(flap).bootSpent
<1> DEFINE s == [rt EXCEPT !.token = None]
<1>1. s \in Rt /\ s.config = rt.config /\ s.epoch = rt.epoch /\ (s.bootSpent <=> rt.bootSpent)
  BY DEF Rt
<1>2. Synced(flap) = Withdrawn(s, published # None, flap)
  BY DEF Synced
<1> HIDE DEF s
<1> QED BY <1>1, <1>2, WithdrawnDoes

\* A registry that moved withdraws.
LEMMA SyncWithdraws ==
  ASSUME Shape, SyncRegistry
  PROVE  Withdrawing /\ RtShape' /\ CoordinatorTypeOK'
<1>1. PICK flap \in Flaps : rt' = Synced(flap)
  BY DEF SyncRegistry
<1>2. flap \in BOOLEAN
  BY FlapsAre
<1>3. /\ auditor' \in Auditor /\ auditor'.passed = Plans
      /\ auditor'.settled <=> auditor.settled \/ published # None
  BY DisturbedDoes DEF SyncRegistry, Shape
<1>4. /\ published' = None /\ UNCHANGED <<lastGen, commits, lastLease>>
      /\ issued' = IF published # None THEN {} ELSE issued
  BY RetireIfPublishedDoes DEF SyncRegistry
<1>5. rt \in Rt
  BY DEF Shape, RtShape
<1>6. Withdrawing
  BY <1>1, <1>2, <1>3, <1>4, <1>5, SyncedDoes DEF Withdrawing, Rt
<1>7. RtShape'
  BY <1>6, NothingCounted DEF Withdrawing, RtShape
<1>8. CoordinatorTypeOK'
  BY <1>4 DEF Shape, CoordinatorTypeOK
<1> QED BY <1>6, <1>7, <1>8

\* So does an observed version that is not the one authority was earned for.
LEMMA ObservedWithdraws ==
  ASSUME Shape, NEW flap \in BOOLEAN, RetireIfPublished,
         rt' = Withdrawn([rt EXCEPT !.token = None, !.observation = None],
                         published # None, flap),
         Disturbed(FALSE, TRUE)
  PROVE  Withdrawing /\ RtShape' /\ CoordinatorTypeOK'
<1> DEFINE s == [rt EXCEPT !.token = None, !.observation = None]
<1>1. s \in Rt /\ s.config = rt.config /\ s.epoch = rt.epoch /\ (s.bootSpent <=> rt.bootSpent)
  BY DEF Rt, Shape, RtShape
<1>2. rt' = Withdrawn(s, published # None, flap)
  OBVIOUS
<1> HIDE DEF s
<1>3. /\ rt' \in Rt /\ rt'.config = s.config /\ rt'.epoch = s.epoch /\ ~rt'.admitted
      /\ rt'.outdated = Plans /\ rt'.confirms = 0
      /\ s.bootSpent \/ published # None => rt'.bootSpent
  BY <1>1, <1>2, WithdrawnDoes
<1>4. /\ auditor' \in Auditor /\ auditor'.passed = Plans
      /\ auditor'.settled <=> auditor.settled \/ published # None
  BY DisturbedDoes DEF Shape
<1>5. /\ published' = None /\ UNCHANGED <<lastGen, commits, lastLease>>
      /\ issued' = IF published # None THEN {} ELSE issued
  BY RetireIfPublishedDoes
<1>6. Withdrawing
  BY <1>1, <1>3, <1>4, <1>5 DEF Withdrawing, Rt
<1>7. RtShape'
  BY <1>6, NothingCounted DEF Withdrawing, RtShape
<1>8. CoordinatorTypeOK'
  BY <1>5 DEF Shape, CoordinatorTypeOK
<1> QED BY <1>6, <1>7, <1>8

\* A moved connection, noticed by its watcher or by an attempt without one.
LEMMA MoveWithdraws ==
  ASSUME Shape, ConnectionChanged, NEW flap \in BOOLEAN, NEW p,
         \/ rt' = AfterMove(flap) /\ Disturbed(FALSE, TRUE)
         \/ rt' = Ended(p, RecordFailure(AfterMove(flap))) /\ Disturbed(TRUE, TRUE)
  PROVE  Withdrawing /\ RtShape' /\ CoordinatorTypeOK' /\ monitor' \in Monitor
<1> DEFINE m == AfterMove(flap)
<1>1. rt \in Rt /\ rt.epoch < MaxSession
  BY DEF Shape, RtShape, ConnectionChanged
<1>2. /\ m \in Rt /\ m.config = rt.config /\ m.epoch = rt.epoch + 1 /\ ~m.admitted
      /\ m.outdated = Plans /\ m.confirms = 0
      /\ rt.bootSpent \/ published # None => m.bootSpent
  BY <1>1, AfterMoveDoes
<1> HIDE DEF m
<1>3. /\ RecordFailure(m) \in Rt /\ SameAuthority(m, RecordFailure(m))
      /\ RecordFailure(m).bootSpent /\ RecordFailure(m).confirms = 0
  BY <1>2, RecordFailureDoes
<1>4. /\ Ended(p, RecordFailure(m)) \in Rt
      /\ SameAuthority(RecordFailure(m), Ended(p, RecordFailure(m)))
      /\ Ended(p, RecordFailure(m)).bootSpent /\ Ended(p, RecordFailure(m)).confirms = 0
  BY <1>3, EndedDoes
<1>5. \/ rt' = m /\ Disturbed(FALSE, TRUE)
      \/ rt' = Ended(p, RecordFailure(m)) /\ Disturbed(TRUE, TRUE)
  BY DEF m
<1>6. /\ rt' \in Rt /\ rt'.config = rt.config /\ rt'.epoch = rt.epoch + 1 /\ ~rt'.admitted
      /\ rt'.outdated = Plans /\ rt'.confirms = 0
      /\ rt.bootSpent \/ published # None => rt'.bootSpent
  BY <1>2, <1>3, <1>4, <1>5 DEF SameAuthority
<1>7. /\ auditor' \in Auditor /\ auditor'.passed = Plans
      /\ auditor'.settled => auditor.settled \/ published # None \/ rt'.bootSpent
  <2>1. CASE Disturbed(FALSE, TRUE)
    BY <2>1, DisturbedDoes DEF Shape
  <2>2. CASE rt' = Ended(p, RecordFailure(m)) /\ Disturbed(TRUE, TRUE)
    BY <2>2, <1>4, DisturbedDoes DEF Shape
  <2> QED BY <1>5, <2>1, <2>2
<1>8. /\ published' = None /\ UNCHANGED <<lastGen, commits, lastLease>>
      /\ issued' = IF published # None THEN {} ELSE issued
  BY RetireIfPublishedDoes DEF ConnectionChanged
<1>9. Withdrawing
  BY <1>1, <1>6, <1>7, <1>8 DEF Withdrawing, Rt
<1>10. RtShape'
  BY <1>9, NothingCounted DEF Withdrawing, RtShape
<1>11. CoordinatorTypeOK' /\ monitor' \in Monitor
  BY <1>8, CoordinatorAssumption
  DEF Shape, CoordinatorTypeOK, ConnectionChanged, NoMonitor, Monitor
<1> QED BY <1>9, <1>10, <1>11

\* A failed verification keeps the authority and spends the exemption.
Failing == Keeping /\ rt'.bootSpent /\ rt'.confirms = 0

\* A failure of an attempt.
LEMMA FailedKeeps ==
  ASSUME Shape, NEW p, Failed(p)
  PROVE  Failing /\ CoordinatorTypeOK'
<1>1. rt \in Rt
  BY DEF Shape, RtShape
<1>2. PICK s : s = RecordFailure(rt)
  OBVIOUS
<1>3. s \in Rt /\ SameAuthority(rt, s) /\ s.bootSpent /\ s.confirms = 0
  BY <1>1, <1>2, RecordFailureDoes
<1>4. rt' = Ended(p, s)
  BY <1>2 DEF Failed
<1>5. /\ rt' \in Rt /\ SameAuthority(s, rt') /\ rt'.bootSpent /\ rt'.confirms = 0
  BY <1>3, <1>4, EndedDoes
<1>6. auditor' \in Auditor /\ auditor'.passed = auditor.passed
  BY DisturbedDoes DEF Failed, Shape
<1>7. SameAuthority(rt, rt')
  BY <1>3, <1>5 DEF SameAuthority
<1>8. RtShape'
  BY <1>5, NothingCounted DEF RtShape
<1>9. UNCHANGED coordinatorVars
  BY DEF Failed
<1>10. CoordinatorTypeOK'
  BY <1>9 DEF Shape, CoordinatorTypeOK, coordinatorVars
<1> QED BY <1>5, <1>6, <1>7, <1>8, <1>9, <1>10 DEF Failing, Keeping

\* The confirmations an attempt would have.
LEMMA CountedDoes ==
  ASSUME rt \in Rt, rt.confirms < rt.required, world \in World, NEW p,
         attempt[p].observation \in Observation, NEW c, c = Counted(p)
  PROVE  /\ c \in Rt /\ SameAuthority(rt, c) /\ (c.bootSpent <=> rt.bootSpent)
         /\ c.required = rt.required /\ c.phase = rt.phase
         /\ Background(p) \/ c.confirms < c.required
         /\ c.confirms <= rt.confirms + 1
         /\ c.confirms > 0 =>
              \/ c.key = rt.key /\ c.confirms = rt.confirms
              \/ /\ Background(p) /\ c.key = Key(attempt[p].observation)
                 /\ \/ c.confirms = 1
                    \/ ~attempt[p].observation.complete
                    \/ rt.key = None
                    \/ rt.key = c.key /\ c.confirms = rt.confirms + 1
<1> DEFINE o == attempt[p].observation
<1>1. PICK kept : kept = IF rt.key # None /\ rt.key # Key(o) /\ o.complete
                           THEN ResetCount(rt) ELSE rt
  OBVIOUS
<1>2. /\ kept \in Rt /\ SameAuthority(rt, kept) /\ (kept.bootSpent <=> rt.bootSpent)
      /\ kept.required = rt.required /\ kept.phase = rt.phase
      /\ \/ kept = rt
         \/ kept.confirms = 0
  BY <1>1, ResetCountDoes DEF SameAuthority
<1>3. /\ kept.confirms \in Nat /\ kept.confirms <= rt.confirms /\ rt.confirms \in Nat
      /\ kept.required \in Nat
  BY <1>2, RuntimeAssumption DEF Rt
<1>4. CASE Gated(p) /\ Preview(o) # {} /\ Background(p)
  <2>1. PICK n, k : n = kept.confirms + 1 /\ k = Key(o)
    OBVIOUS
  <2>2. c = [kept EXCEPT !.key = k, !.confirms = n]
    BY <1>1, <1>4, <2>1 DEF Counted
  <2>3. k \in Keys
    BY <2>1, KeyIs
  <2>4. /\ c \in Rt /\ SameAuthority(kept, c) /\ (c.bootSpent <=> kept.bootSpent)
        /\ c.required = kept.required /\ c.phase = kept.phase
        /\ c.key = k /\ c.confirms = n
    <3>1. n \in Nat
      BY <1>3, <2>1
    <3> QED BY <1>2, <2>2, <2>3, <3>1 DEF Rt, SameAuthority
  <2>5. kept.confirms = 0 \/ ~o.complete \/ rt.key = None \/ (rt.key = Key(o) /\ kept = rt)
    BY <1>1, <1>2, ResetCountDoes
  <2> QED BY <1>2, <1>3, <1>4, <2>1, <2>4, <2>5 DEF SameAuthority
<1>5. CASE ~(Gated(p) /\ Preview(o) # {} /\ Background(p))
  <2>1. c = kept \/ c = rt
    BY <1>1, <1>5 DEF Counted
  <2> QED BY <1>2, <1>3, <2>1 DEF SameAuthority
<1> QED BY <1>4, <1>5

\* History: what a confirmation is counted as.
LEMMA ConfirmedDoes ==
  ASSUME auditor \in Auditor, world \in World, NEW p,
         attempt[p].observation \in Observation, Confirmed(p)
  PROVE  /\ auditor' \in Auditor
         /\ auditor'.passed = IF HeldBack(p) THEN auditor.passed ELSE Plans
<1>1. PICK k : k = Key(attempt[p].observation)
  OBVIOUS
<1>2. k \in Keys
  BY <1>1, KeyIs
<1>3. PICK run : run = IF ~Background(p) THEN IF k = auditor.key THEN auditor.run ELSE 0
                       ELSE IF k # auditor.key THEN 1
                       ELSE IF auditor.run < FlapConfirmations THEN auditor.run + 1
                       ELSE auditor.run
  OBVIOUS
<1>4. run \in Nat
  BY <1>3, RuntimeAssumption DEF Auditor
<1>5. PICK key : key = IF Background(p) \/ k = auditor.key THEN k ELSE None
  OBVIOUS
<1>6. key \in Keys \union {None}
  BY <1>2, <1>5
<1>7. auditor' = [run |-> run, key |-> key,
                  passed |-> IF HeldBack(p) THEN auditor.passed ELSE Plans,
                  settled |-> TRUE]
  BY <1>1, <1>3, <1>5 DEF Confirmed
<1> QED BY <1>4, <1>6, <1>7, PlansAre DEF Auditor

\* A verification that is held back keeps the authority and counts.
Holding(p) ==
  /\ Keeping
  /\ attempt[p].pc = "publish" /\ HeldBack(p) /\ rt' = Ended(p, Counted(p)) /\ Confirmed(p)

\* A held back verification.
LEMMA HeldKeeps ==
  ASSUME Shape, NEW p \in Proc, attempt[p].pc = "publish", HeldBack(p),
         rt' = Ended(p, Counted(p)), Confirmed(p), UNCHANGED coordinatorVars
  PROVE  Holding(p) /\ CoordinatorTypeOK'
<1>1. attempt[p].observation \in Observation
  BY DEF Shape, AttemptsShape, WellFormed, Seen
<1>2. /\ rt \in Rt /\ rt.confirms < rt.required /\ world \in World
  BY DEF Shape, RtShape
<1>3. PICK c : c = Counted(p)
  OBVIOUS
<1>4. /\ c \in Rt /\ SameAuthority(rt, c) /\ (c.bootSpent <=> rt.bootSpent)
      /\ c.required = rt.required /\ c.phase = rt.phase
      /\ Background(p) \/ c.confirms < c.required
  BY <1>1, <1>2, <1>3, CountedDoes
<1>5. c.confirms < c.required
  BY <1>3, <1>4 DEF HeldBack
<1>6. /\ rt' \in Rt /\ SameAuthority(c, rt') /\ rt'.confirms = c.confirms
      /\ rt'.required = c.required
  BY <1>3, <1>4, EndedDoes
<1>7. RtShape' /\ SameAuthority(rt, rt')
  BY <1>4, <1>5, <1>6 DEF RtShape, SameAuthority
<1>8. auditor' \in Auditor /\ auditor'.passed = auditor.passed
  BY <1>1, <1>2, ConfirmedDoes DEF Shape
<1>9. CoordinatorTypeOK'
  BY DEF Shape, CoordinatorTypeOK, coordinatorVars
<1>10. rt.bootSpent => rt'.bootSpent
  BY <1>4, <1>3, EndedDoes
<1> QED BY <1>7, <1>8, <1>9, <1>10 DEF Holding, Keeping

\* An attempt that is not to publish only ends.
Marking == Keeping /\ UNCHANGED auditor /\ rt'.confirms = rt.confirms /\ rt'.key = rt.key

\* The end of an attempt, or an exemption that is spent, marks the runtime.
LEMMA EndMarks ==
  ASSUME Shape, NEW p, rt' = Ended(p, rt) \/ rt' = Spend(rt) \/ rt' = rt,
         UNCHANGED <<coordinatorVars, auditor>>
  PROVE  Marking /\ CoordinatorTypeOK'
<1>1. rt \in Rt /\ rt.confirms < rt.required /\ auditor \in Auditor
  BY DEF Shape, RtShape
<1>2. /\ rt' \in Rt /\ SameAuthority(rt, rt') /\ rt'.confirms = rt.confirms
      /\ rt'.required = rt.required /\ rt'.key = rt.key
  BY <1>1, EndedDoes, SpendDoes DEF SameAuthority
<1>3. rt.bootSpent => rt'.bootSpent
  BY <1>1, EndedDoes, SpendDoes
<1>4. CoordinatorTypeOK'
  BY DEF Shape, CoordinatorTypeOK, coordinatorVars
<1>5. RtShape'
  BY <1>1, <1>2 DEF RtShape
<1>6. auditor' \in Auditor /\ auditor'.passed = auditor.passed
  BY <1>1
<1> QED BY <1>2, <1>3, <1>4, <1>5, <1>6 DEF Marking, Keeping

\* A publication sets the runtime to what it publishes.
LEMMA PublicationDoes ==
  ASSUME Shape, NEW p \in Proc, attempt[p].pc = "publish", NEW flap \in BOOLEAN,
         NEW o, o = attempt[p].observation, NEW u, u = Publication(p, flap)
  PROVE  /\ u \in Rt /\ u.config = rt.config /\ u.epoch = rt.epoch
         /\ u.observation = o /\ u.token = SelectionToken(o.version)
         /\ u.admitted <=> Preview(o) # {}
         /\ u.bootSpent /\ u.confirms = 0
         /\ u.outdated = IF Unchanged(o, Selections(o.version)) THEN rt.outdated ELSE Plans
<1>1. /\ o \in Observation /\ rt \in Rt /\ rt.confirms < rt.required /\ world \in World
  BY DEF Shape, RtShape, AttemptsShape, WellFormed, Seen
<1>2. PICK c : c = Counted(p)
  OBVIOUS
<1>3. c \in Rt /\ SameAuthority(rt, c)
  BY <1>1, <1>2, CountedDoes
<1>4. PICK m : m = IF Unchanged(o, Selections(o.version)) THEN c ELSE Changed(c)
  OBVIOUS
<1>5. /\ m \in Rt /\ m.config = rt.config /\ m.epoch = rt.epoch
      /\ m.outdated = IF Unchanged(o, Selections(o.version)) THEN rt.outdated ELSE Plans
  BY <1>3, <1>4, PlansAre DEF Rt, SameAuthority, Changed
<1>6. PICK tok, adm : tok = SelectionToken(o.version) /\ adm = (Preview(o) # {})
  OBVIOUS
<1>7. tok \in Authority \union {None} /\ adm \in BOOLEAN
  BY <1>1, <1>6, KeyIs
<1>8. PICK s : s = [m EXCEPT !.observation = o, !.token = tok, !.admitted = adm]
  OBVIOUS
<1>9. /\ s \in Rt /\ s.config = rt.config /\ s.epoch = rt.epoch /\ s.observation = o
      /\ s.token = tok /\ (s.admitted <=> adm)
      /\ s.outdated = m.outdated
  BY <1>1, <1>5, <1>7, <1>8 DEF Rt
<1>10. CASE Preview(o) # {}
  <2>1. PICK g : g = IF Gated(p) THEN [s EXCEPT !.active = FALSE, !.restored = TRUE] ELSE s
    OBVIOUS
  <2>2. g \in Rt /\ SameAuthority(s, g)
    BY <1>9, <2>1 DEF Rt, SameAuthority
  <2>3. u = ResetCount(Spend(g))
    BY <1>2, <1>4, <1>6, <1>8, <1>10, <2>1 DEF Publication
  <2>4. PICK x : x = Spend(g)
    OBVIOUS
  <2>5. x \in Rt /\ SameAuthority(g, x) /\ x.bootSpent
    BY <2>2, <2>4, SpendDoes
  <2>6. u \in Rt /\ SameAuthority(x, u) /\ u.bootSpent /\ u.confirms = 0
    BY <2>3, <2>4, <2>5, ResetCountDoes
  <2>7. SameAuthority(s, u)
    BY <2>2, <2>5, <2>6 DEF SameAuthority
  <2> QED BY <1>5, <1>6, <1>9, <2>6, <2>7 DEF SameAuthority
<1>11. CASE Preview(o) = {}
  <2>1. PICK g : g = IF rt.admitted THEN EnterRecovery(s, flap) ELSE s
    OBVIOUS
  <2>2. g \in Rt /\ SameAuthority(s, g)
    BY <1>9, <2>1, EnterRecoveryDoes DEF SameAuthority
  <2>3. u = RecordFailure(g)
    BY <1>2, <1>4, <1>6, <1>8, <1>11, <2>1 DEF Publication
  <2>4. u \in Rt /\ SameAuthority(g, u) /\ u.bootSpent /\ u.confirms = 0
    BY <2>2, <2>3, RecordFailureDoes
  <2>5. SameAuthority(s, u)
    BY <2>2, <2>4 DEF SameAuthority
  <2> QED BY <1>5, <1>6, <1>9, <2>4, <2>5 DEF SameAuthority
<1> QED BY <1>10, <1>11

\* A publication makes the generation and the runtime agree.
Publishing(p, o) ==
  /\ attempt[p].pc = "publish" /\ o = attempt[p].observation
  /\ Exempt(p) /\ Fenced(p) /\ ~HeldBack(p)
  /\ IF Unchanged(o, Selections(o.version)) THEN UNCHANGED coordinatorVars
                                            ELSE Reconcile(o, Selections(o.version))
  /\ rt' \in Rt /\ rt'.config = rt.config /\ rt'.epoch = rt.epoch
  /\ rt'.observation = o /\ rt'.token = SelectionToken(o.version)
  /\ rt'.admitted <=> Preview(o) # {}
  /\ rt'.bootSpent /\ rt'.confirms = 0
  /\ rt'.outdated = IF Unchanged(o, Selections(o.version)) THEN rt.outdated ELSE Plans
  /\ auditor' \in Auditor
  /\ auditor'.passed = IF Unchanged(o, Selections(o.version)) /\ (rt.admitted \/ Preview(o) = {})
                         THEN auditor.passed ELSE Plans
  /\ \/ Preview(o) = {}
     \/ rt.admitted
     \/ Confirmed(p)

\* The publication block.
LEMMA PublishPublishes ==
  ASSUME Shape, NEW p \in Proc, attempt[p].pc = "publish",
         NEW o, o = attempt[p].observation,
         Exempt(p), Fenced(p), ~HeldBack(p),
         IF Unchanged(o, Selections(o.version)) THEN UNCHANGED coordinatorVars
                                                ELSE Reconcile(o, Selections(o.version)),
         NEW flap \in BOOLEAN, rt' = Ended(p, Publication(p, flap)),
         IF Preview(o) = {} THEN Disturbed(TRUE, ~Unchanged(o, Selections(o.version)))
         ELSE IF rt.admitted /\ Unchanged(o, Selections(o.version)) THEN UNCHANGED auditor
         ELSE Confirmed(p)
  PROVE  Publishing(p, o) /\ RtShape' /\ CoordinatorTypeOK'
<1>1. o \in Observation /\ world \in World /\ auditor \in Auditor
  BY DEF Shape, AttemptsShape, WellFormed, Seen
<1>2. PICK u : u = Publication(p, flap)
  OBVIOUS
<1>3. /\ u \in Rt /\ u.config = rt.config /\ u.epoch = rt.epoch
      /\ u.observation = o /\ u.token = SelectionToken(o.version)
      /\ u.admitted <=> Preview(o) # {}
      /\ u.bootSpent /\ u.confirms = 0
      /\ u.outdated = IF Unchanged(o, Selections(o.version)) THEN rt.outdated ELSE Plans
  BY <1>2, PublicationDoes
<1>4. rt' \in Rt /\ SameAuthority(u, rt') /\ rt'.bootSpent /\ rt'.confirms = 0
  BY <1>2, <1>3, EndedDoes
<1>5. /\ rt' \in Rt /\ rt'.config = rt.config /\ rt'.epoch = rt.epoch
      /\ rt'.observation = o /\ rt'.token = SelectionToken(o.version)
      /\ rt'.admitted <=> Preview(o) # {}
      /\ rt'.bootSpent /\ rt'.confirms = 0
      /\ rt'.outdated = IF Unchanged(o, Selections(o.version)) THEN rt.outdated ELSE Plans
  BY <1>3, <1>4 DEF SameAuthority
<1>6. RtShape'
  BY <1>4, NothingCounted DEF RtShape
<1>7. CoordinatorTypeOK'
  <2>1. CASE Unchanged(o, Selections(o.version))
    BY <2>1 DEF Shape, CoordinatorTypeOK, coordinatorVars
  <2>2. CASE ~Unchanged(o, Selections(o.version))
    <3>1. PICK a : a = Selections(o.version)
      OBVIOUS
    <3>2. a \in Authority
      BY <1>1, <3>1, KeyIs
    <3>3. Reconcile(o, a)
      BY <2>2, <3>1
    <3>4. Admits(o, a) \in SUBSET Capability
      BY <1>1 DEF Admits, Observation
    <3>5. lastGen \in 0..MaxGeneration /\ lastGen + 1 \in 1..MaxGeneration
      BY <3>3, CoordinatorAssumption DEF Shape, CoordinatorTypeOK, Reconcile
    <3>6. published' \in Generation
      BY <1>1, <3>2, <3>3, <3>4, <3>5 DEF Reconcile, Generation
    <3> QED BY <3>3, <3>5, <3>6 DEF Shape, CoordinatorTypeOK, Reconcile
  <2> QED BY <2>1, <2>2
<1>8. /\ auditor' \in Auditor
      /\ auditor'.passed = IF Unchanged(o, Selections(o.version))
                                /\ (rt.admitted \/ Preview(o) = {})
                             THEN auditor.passed ELSE Plans
  <2>1. CASE Preview(o) = {} /\ Unchanged(o, Selections(o.version))
    <3>1. Disturbed(TRUE, FALSE)
      BY <2>1
    <3> QED BY <1>1, <2>1, <3>1, DisturbedDoes
  <2>2. CASE Preview(o) = {} /\ ~Unchanged(o, Selections(o.version))
    <3>1. Disturbed(TRUE, TRUE)
      BY <2>2
    <3> QED BY <1>1, <2>2, <3>1, DisturbedDoes
  <2>3. CASE Preview(o) # {} /\ rt.admitted /\ Unchanged(o, Selections(o.version))
    BY <1>1, <2>3
  <2>4. CASE Preview(o) # {} /\ ~(rt.admitted /\ Unchanged(o, Selections(o.version)))
    BY <1>1, <2>4, ConfirmedDoes
  <2> QED BY <2>1, <2>2, <2>3, <2>4
<1>9. \/ Preview(o) = {} \/ rt.admitted \/ Confirmed(p)
  OBVIOUS
<1> QED BY <1>5, <1>6, <1>7, <1>8, <1>9 DEF Publishing

\* A new configuration starts over, in a later epoch.
Configuring ==
  /\ published' = None /\ lastGen' = 0 /\ issued' = {} /\ commits' = {} /\ lastLease' = 0
  /\ rt' \in Rt /\ rt'.epoch = rt.epoch + 1
  /\ ~rt'.admitted /\ rt'.outdated = {} /\ rt'.confirms = 0
  /\ rt.bootSpent => rt'.bootSpent
  /\ auditor' \in Auditor /\ auditor'.passed = Plans
  /\ auditor'.settled => auditor.settled \/ published # None
  /\ attempt' = Superseded /\ UNCHANGED request

\* configure keeps every part's shape.
LEMMA ConfigureConfigures ==
  ASSUME Shape, Configure
  PROVE  Configuring /\ Shape'
<1>1. rt \in Rt /\ auditor \in Auditor /\ rt.config < MaxConfig /\ rt.epoch < MaxSession
  BY DEF Shape, RtShape, Configure
<1>2. PICK flap \in Flaps :
       LET fresh == ResetCount(
             [rt EXCEPT !.config = @ + 1, !.phase = "boot", !.epoch = @ + 1,
                !.observation = None, !.token = None, !.admitted = FALSE, !.outdated = {}])
           unspent == [fresh EXCEPT !.active = FALSE, !.required = Confirmations,
                                    !.restored = FALSE]
       IN rt' = IF ~rt.bootSpent THEN unspent
                ELSE IF rt.admitted THEN EnterRecovery(fresh, flap) ELSE fresh
  BY DEF Configure
<1>3. PICK n, e : n = rt.config + 1 /\ e = rt.epoch + 1
  OBVIOUS
<1>4. n \in Worker /\ e \in 1..MaxSession
  BY <1>1, <1>3, CoordinatorAssumption, RuntimeAssumption DEF Rt, Worker
<1>5. PICK z : z = [rt EXCEPT !.config = n, !.phase = "boot", !.epoch = e,
                !.observation = None, !.token = None, !.admitted = FALSE, !.outdated = {}]
  OBVIOUS
<1>6. /\ z \in Rt /\ z.epoch = e /\ ~z.admitted /\ z.outdated = {}
      /\ (z.bootSpent <=> rt.bootSpent)
  BY <1>1, <1>4, <1>5 DEF Rt
<1>7. PICK f : f = ResetCount(z)
  OBVIOUS
<1>8. /\ f \in Rt /\ f.epoch = e /\ ~f.admitted /\ f.outdated = {} /\ f.confirms = 0
      /\ (f.bootSpent <=> rt.bootSpent)
  BY <1>6, <1>7, ResetCountDoes DEF SameAuthority
<1>9. rt' = IF ~rt.bootSpent
              THEN [f EXCEPT !.active = FALSE, !.required = Confirmations, !.restored = FALSE]
              ELSE IF rt.admitted THEN EnterRecovery(f, flap) ELSE f
  BY <1>2, <1>3, <1>5, <1>7
<1>10. /\ rt' \in Rt /\ rt'.epoch = e /\ ~rt'.admitted /\ rt'.outdated = {}
       /\ rt'.confirms = 0
       /\ rt.bootSpent => rt'.bootSpent
  <2>1. CASE ~rt.bootSpent
    BY <1>8, <1>9, <2>1 DEF Rt
  <2>2. CASE rt.bootSpent /\ rt.admitted
    BY <1>8, <1>9, <2>2, FlapsAre, EnterRecoveryDoes DEF SameAuthority
  <2>3. CASE rt.bootSpent /\ ~rt.admitted
    BY <1>8, <1>9, <2>3
  <2> QED BY <2>1, <2>2, <2>3
<1>11. /\ auditor' \in Auditor /\ auditor'.passed = Plans
       /\ auditor'.settled => auditor.settled \/ published # None
  BY <1>1, DisturbedDoes DEF Configure
<1>12. Configuring
  BY <1>3, <1>10, <1>11 DEF Configuring, Configure
<1>13. RtShape'
  BY <1>10, NothingCounted DEF RtShape
<1>14. CoordinatorTypeOK' /\ monitor' \in Monitor /\ world' \in World
  BY CoordinatorAssumption, FaultDoes
  DEF Configure, Shape, CoordinatorTypeOK, NoMonitor, Monitor
<1>15. AttemptsShape'
  <2>1. WellFormed([NoAttempt EXCEPT !.pc = "superseded"])
    <3>1. NoAttempt \in Attempt
      BY NoAttemptIs DEF WellFormed
    <3>2. PICK w : w = [NoAttempt EXCEPT !.pc = "superseded"]
      OBVIOUS
    <3>3. w \in Attempt /\ w.pc = "superseded"
      BY <3>1, <3>2 DEF Attempt, Parked
    <3> QED BY <3>2, <3>3 DEF WellFormed, Seen
  <2>2. \A q \in Proc : WellFormed(attempt'[q])
    BY <2>1, NoAttemptIs DEF Configure, Superseded
  <2>3. attempt' \in [Proc -> Attempt]
    BY <2>1, NoAttemptIs DEF Configure, Superseded, WellFormed
  <2>4. \A r \in Request : attempt'[r].pc # "idle" => attempt[r].pc # "idle"
    BY DEF Configure, Superseded, NoAttempt, Proc
  <2>5. (\A q \in Proc : WellFormed(attempt[q]))' <=> \A q \in Proc : WellFormed(attempt'[q])
    BY DEF WellFormed
  <2>6. request' = request
    BY DEF Configure
  <2> QED BY <2>2, <2>3, <2>4, <2>5, <2>6 DEF Shape, AttemptsShape
<1> QED BY <1>11, <1>12, <1>13, <1>14, <1>15 DEF Shape

(***************************************************************************)
(* Each action keeps the shape and is one of the kinds.                    *)
(***************************************************************************)

\* The requests are left alone, but for one whose attempt is over.
RequestsRest ==
  \A r \in Request :
    /\ request'[r].leases = request[r].leases /\ request'[r].calls = request[r].calls
    /\ \/ request'[r].phase = request[r].phase
       \/ request[r].phase = "verifying" /\ request'[r].phase = "acquire"

AuthorityMoves ==
  \/ Withdrawing \/ Marking \/ Failing
  \/ \E p \in Proc : Holding(p)
  \/ \E p \in Proc, o \in Observation : Publishing(p, o)
Done == Shape' /\ RequestsRest /\ AuthorityMoves

\* The end of an attempt.
LEMMA LeaveRests ==
  ASSUME AttemptsShape, NEW p \in Proc, attempt[p].pc # "idle", Leave(p)
  PROVE  RequestsRest
BY DEF AttemptsShape, RequestState, Leave, RequestsRest

\* Nothing that a request is.
LEMMA UnchangedRests == ASSUME request' = request PROVE RequestsRest
BY DEF RequestsRest

\* An attempt begins.
LEMMA StartDone == ASSUME Shape, NEW p \in Proc, Start(p) PROVE Done
<1>1. PICK a : a = [NoAttempt EXCEPT !.pc = "lock", !.boot = p \in Worker /\ ~rt.bootSpent]
  OBVIOUS
<1>2. WellFormed(a)
  BY <1>1, NoAttemptIs DEF WellFormed, Attempt, Parked, Seen
<1>3. attempt' = [attempt EXCEPT ![p] = a]
  BY <1>1 DEF Start, Begin
<1>4. \A q \in Proc : attempt'[q] = IF q = p THEN a ELSE attempt[q]
  BY <1>3 DEF Shape, AttemptsShape
<1>5. attempt' \in [Proc -> Attempt]
  BY <1>2, <1>3 DEF Shape, AttemptsShape, WellFormed
<1>6. \A q \in Proc : WellFormed(attempt'[q])
  BY <1>2, <1>4 DEF Shape, AttemptsShape
<1>7. p \notin Request /\ request' = request
  BY RuntimeAssumption DEF Start
<1>8. \A r \in Request : attempt'[r].pc # "idle" => request'[r].phase = "verifying"
  BY <1>4, <1>7 DEF Shape, AttemptsShape, Proc
<1>9. (\A q \in Proc : WellFormed(attempt[q]))' <=> \A q \in Proc : WellFormed(attempt'[q])
  BY DEF WellFormed
<1>10. AttemptsShape'
  BY <1>5, <1>6, <1>7, <1>8, <1>9 DEF Shape, AttemptsShape
<1>11. Marking /\ CoordinatorTypeOK'
  BY EndMarks DEF Start
<1> QED BY <1>7, <1>10, <1>11, UnchangedRests
        DEF Start, Shape, Done, AuthorityMoves, Marking, Keeping

\* A superseded attempt ends.
LEMMA DiscardDone == ASSUME Shape, NEW p \in Proc, Discard(p) PROVE Done
<1>1. attempt[p].pc # "idle" /\ Leave(p) /\ AttemptsShape
  BY DEF Discard, At, Shape
<1>2. Marking /\ CoordinatorTypeOK'
  BY EndMarks DEF Discard
<1> QED BY <1>1, <1>2, LeaveDoes, LeaveRests
        DEF Discard, Shape, Done, AuthorityMoves, Marking, Keeping

\* The fences are sampled.
LEMMA SampleDone == ASSUME Shape, NEW p \in Proc, Sample(p) PROVE Done
<1>1. CASE SyncRegistry /\ UNCHANGED attempt
  <2>1. Withdrawing /\ RtShape' /\ CoordinatorTypeOK'
    BY <1>1, SyncWithdraws
  <2>2. AttemptsShape'
    BY <1>1 DEF Sample, Shape, AttemptsShape, WellFormed
  <2> QED BY <1>1, <2>1, <2>2, UnchangedRests
          DEF Sample, Shape, Done, AuthorityMoves, Withdrawing
<1>2. CASE ~(SyncRegistry /\ UNCHANGED attempt)
  <2>1. PICK a : a = [attempt[p] EXCEPT !.pc = "first", !.then = "observed",
                        !.epoch = rt.epoch, !.revision = world.revision]
    OBVIOUS
  <2>2. attempt' = [attempt EXCEPT ![p] = a]
    BY <1>2, <2>1 DEF Sample
  <2>3. rt.epoch \in 0..MaxSession /\ world.revision \in Nat
    BY DEF Shape, RtShape, Rt, World
  <2>4. WellFormed(a)
    BY <2>1, <2>3 DEF WellFormed, Shape, AttemptsShape, Attempt, Parked, Seen
  <2>5. attempt[p].pc # "idle" /\ UNCHANGED <<coordinatorVars, auditor, world, monitor, request>>
    BY <1>2 DEF Sample, At
  <2>6. AttemptsShape'
    BY <2>2, <2>4, <2>5, AttemptMoves DEF Shape
  <2>7. rt' = rt \/ rt' = Spend(rt)
    BY <1>2 DEF Sample
  <2>8. Marking /\ CoordinatorTypeOK'
    BY <2>5, <2>7, EndMarks
  <2> QED BY <2>5, <2>6, <2>8, UnchangedRests
          DEF Shape, Done, AuthorityMoves, Marking, Keeping
<1> QED BY <1>1, <1>2

\* A probe fails.
LEMMA ProbeFailsDone == ASSUME Shape, NEW p \in Proc, ProbeFails(p) PROVE Done
<1>1. PICK a : a = [attempt[p] EXCEPT !.pc = attempt[p].then, !.observation = FailedProbe]
  OBVIOUS
<1>2. attempt' = [attempt EXCEPT ![p] = a]
  BY <1>1 DEF ProbeFails
<1>3. attempt[p].then \in {"observed", "monitor", "publish"}
  BY DEF Shape, AttemptsShape, WellFormed, Attempt, ProbeFails, At
<1>4. FailedProbe \in Observation
  BY CoordinatorAssumption DEF FailedProbe, Observation
<1>5. WellFormed(a)
  BY <1>1, <1>3, <1>4 DEF WellFormed, Shape, AttemptsShape, Attempt, Parked, Seen
<1>6. attempt[p].pc # "idle" /\ UNCHANGED <<coordinatorVars, rt, auditor, monitor, request>>
  BY DEF ProbeFails, At
<1>7. AttemptsShape'
  BY <1>2, <1>5, <1>6, AttemptMoves DEF Shape
<1>8. Marking /\ CoordinatorTypeOK'
  BY <1>6, EndMarks
<1>9. world' \in World
  BY FaultDoes DEF ProbeFails, Shape
<1> QED BY <1>6, <1>7, <1>8, <1>9, UnchangedRests
        DEF Shape, Done, AuthorityMoves, Marking, Keeping

\* The first snapshot.
LEMMA FirstSnapshotDone == ASSUME Shape, NEW p \in Proc, FirstSnapshot(p) PROVE Done
<1>1. PICK o : o = [version |-> world.version, session |-> rt.epoch, complete |-> FALSE,
                    evidence |-> {}]
  OBVIOUS
<1>2. PICK a : a = [attempt[p] EXCEPT !.pc = "second", !.conn = world.conn, !.observation = o]
  OBVIOUS
<1>3. attempt' = [attempt EXCEPT ![p] = a]
  BY <1>1, <1>2 DEF FirstSnapshot
<1>4. o \in Observation /\ world.conn \in Nat
  BY <1>1 DEF Shape, World, RtShape, Rt, Observation
<1>5. WellFormed(a)
  BY <1>2, <1>4 DEF WellFormed, Shape, AttemptsShape, Attempt, Parked, Seen, FirstSnapshot, At
<1>6. attempt[p].pc # "idle" /\ UNCHANGED <<coordinatorVars, rt, auditor, monitor, request, world>>
  BY DEF FirstSnapshot, At
<1>7. AttemptsShape'
  BY <1>3, <1>5, <1>6, AttemptMoves DEF Shape
<1>8. Marking /\ CoordinatorTypeOK'
  BY <1>6, EndMarks
<1> QED BY <1>6, <1>7, <1>8, UnchangedRests
        DEF Shape, Done, AuthorityMoves, Marking, Keeping

\* The second one completes the observation when it agrees with the first.
LEMMA SecondSnapshotDone == ASSUME Shape, NEW p \in Proc, SecondSnapshot(p) PROVE Done
<1>1. PICK evidence \in SUBSET Capability :
        /\ evidence = Capability \/ world.moves > 0
        /\ world' = IF evidence = Capability THEN world ELSE [world EXCEPT !.moves = @ - 1]
        /\ attempt' = [attempt EXCEPT ![p].pc = attempt[p].then,
             ![p].observation.evidence = evidence,
             ![p].observation.complete =
                world.version = attempt[p].observation.version
                /\ rt.epoch = attempt[p].observation.session]
  BY DEF SecondSnapshot
<1>2. PICK complete : complete = (world.version = attempt[p].observation.version
                                  /\ rt.epoch = attempt[p].observation.session)
  OBVIOUS
<1>3. PICK o : o = [attempt[p].observation EXCEPT !.evidence = evidence, !.complete = complete]
  OBVIOUS
<1>4. attempt[p].observation \in Observation /\ complete \in BOOLEAN
  BY <1>2 DEF SecondSnapshot, At, Shape, AttemptsShape, WellFormed, Seen
<1>5. o \in Observation
  BY <1>3, <1>4 DEF Observation
<1>6. PICK a : a = [attempt[p] EXCEPT !.pc = attempt[p].then, !.observation = o]
  OBVIOUS
<1>7. attempt' = [attempt EXCEPT ![p] = a]
  BY <1>1, <1>2, <1>3, <1>6
<1>8. attempt[p].then \in {"observed", "monitor", "publish"}
  BY DEF Shape, AttemptsShape, WellFormed, Attempt, SecondSnapshot, At
<1>9. WellFormed(a)
  BY <1>5, <1>6, <1>8 DEF WellFormed, Shape, AttemptsShape, Attempt, Parked, Seen
<1>10. attempt[p].pc # "idle" /\ UNCHANGED <<coordinatorVars, rt, auditor, monitor, request>>
  BY DEF SecondSnapshot, At
<1>11. AttemptsShape'
  BY <1>7, <1>9, <1>10, AttemptMoves DEF Shape
<1>12. Marking /\ CoordinatorTypeOK'
  BY <1>10, EndMarks
<1>13. world' \in World
  BY <1>1 DEF Shape, World
<1> QED BY <1>10, <1>11, <1>12, <1>13, UnchangedRests
        DEF Shape, Done, AuthorityMoves, Marking, Keeping

\* Going on needs what is there.
LEMMA GotoKeeps ==
  ASSUME AttemptsShape, NEW p \in Proc, attempt[p].pc \in Seen,
         NEW pc \in Seen \ {"second"}, Goto(p, pc), request' = request
  PROVE  AttemptsShape'
<1>1. PICK a : a = [attempt[p] EXCEPT !.pc = pc]
  OBVIOUS
<1>2. attempt' = [attempt EXCEPT ![p] = a]
  BY <1>1 DEF Goto
<1>3. WellFormed(a) /\ attempt[p].pc # "idle"
  BY <1>1 DEF WellFormed, AttemptsShape, Attempt, Parked, Seen
<1> QED BY <1>2, <1>3, AttemptMoves

\* Collecting again starts over.
LEMMA AgainKeeps ==
  ASSUME AttemptsShape, NEW p \in Proc, attempt[p].pc \in Seen,
         NEW then \in {"monitor", "publish"}, NEW revision \in Nat,
         attempt' = [attempt EXCEPT ![p] =
           [attempt[p] EXCEPT !.pc = "first", !.then = then, !.revision = revision]],
         request' = request
  PROVE  AttemptsShape'
<1>1. PICK a : a = [attempt[p] EXCEPT !.pc = "first", !.then = then, !.revision = revision]
  OBVIOUS
<1>2. WellFormed(a) /\ attempt[p].pc # "idle"
  BY <1>1 DEF WellFormed, AttemptsShape, Attempt, Parked, Seen
<1> QED BY <1>1, <1>2, AttemptMoves

\* The observed version is compared.
LEMMA ObservedDone == ASSUME Shape, NEW p \in Proc, Observed(p) PROVE Done
<1>1. PICK pc \in {"missing", "monitor"} : Goto(p, pc)
  BY DEF Observed
<1>2. attempt[p].pc \in Seen /\ pc \in Seen \ {"second"}
  BY DEF Observed, At, Seen
<1>3. AttemptsShape'
  BY <1>1, <1>2, GotoKeeps DEF Observed, Shape
<1>4. UNCHANGED <<world, monitor, request>>
  BY DEF Observed
<1>5. CASE VersionMoved(attempt[p].observation)
  <2>1. PICK flap \in Flaps : rt' =
                 Withdrawn([rt EXCEPT !.token = None, !.observation = None],
                           published # None, flap)
    BY <1>5 DEF Observed
  <2>2. Withdrawing /\ RtShape' /\ CoordinatorTypeOK'
    BY <1>5, <2>1, FlapsAre, ObservedWithdraws DEF Observed
  <2> QED BY <1>3, <1>4, <2>2, UnchangedRests DEF Shape, Done, AuthorityMoves, Withdrawing
<1>6. CASE ~VersionMoved(attempt[p].observation)
  <2>1. SyncRegistry \/ UNCHANGED <<coordinatorVars, rt, auditor>>
    BY <1>6 DEF Observed
  <2>2. CASE SyncRegistry
    <3>1. Withdrawing /\ RtShape' /\ CoordinatorTypeOK'
      BY <2>2, SyncWithdraws
    <3> QED BY <1>3, <1>4, <3>1, UnchangedRests DEF Shape, Done, AuthorityMoves, Withdrawing
  <2>3. CASE UNCHANGED <<coordinatorVars, rt, auditor>>
    <3>1. Marking /\ CoordinatorTypeOK'
      BY <2>3, EndMarks
    <3> QED BY <1>3, <1>4, <3>1, UnchangedRests DEF Shape, Done, AuthorityMoves, Marking, Keeping
  <2> QED BY <2>1, <2>2, <2>3
<1> QED BY <1>5, <1>6

\* A version without compiled authority was looked up again.
LEMMA RefreshedDone == ASSUME Shape, NEW p \in Proc, Refreshed(p) PROVE Done
<1>1. UNCHANGED <<world, monitor, request>> /\ attempt[p].pc \in Seen
  BY DEF Refreshed, At, Seen
<1>2. CASE SyncRegistry /\ UNCHANGED attempt
  <2>1. Withdrawing /\ RtShape' /\ CoordinatorTypeOK'
    BY <1>2, SyncWithdraws
  <2>2. AttemptsShape'
    BY <1>1, <1>2 DEF Shape, AttemptsShape, WellFormed
  <2> QED BY <1>1, <2>1, <2>2, UnchangedRests DEF Shape, Done, AuthorityMoves, Withdrawing
<1>3. CASE ~(SyncRegistry /\ UNCHANGED attempt)
  <2>1. UNCHANGED <<coordinatorVars, rt, auditor>>
    BY <1>3 DEF Refreshed
  <2>2. Marking /\ CoordinatorTypeOK'
    BY <2>1, EndMarks
  <2>3. AttemptsShape'
    <3>1. CASE Goto(p, "monitor")
      BY <1>1, <3>1, GotoKeeps DEF Shape, Seen
    <3>2. CASE attempt' = [attempt EXCEPT ![p].pc = "first", ![p].then = "monitor",
                             ![p].revision = world.revision]
      <4>1. attempt' = [attempt EXCEPT ![p] = [attempt[p] EXCEPT !.pc = "first",
                          !.then = "monitor", !.revision = world.revision]]
        BY <3>2
      <4>2. world.revision \in Nat
        BY DEF Shape, World
      <4> QED BY <1>1, <4>1, <4>2, AgainKeeps DEF Shape
    <3> QED BY <1>3, <3>1, <3>2 DEF Refreshed
  <2> QED BY <1>1, <2>2, <2>3, UnchangedRests DEF Shape, Done, AuthorityMoves, Marking, Keeping
<1> QED BY <1>2, <1>3

\* An attempt without its watcher ends.
LEMMA UnavailableDone ==
  ASSUME Shape, NEW p \in Proc, attempt[p].pc \in Seen, MonitorUnavailable(p), world' \in World
  PROVE  Done
<1>1. PICK flap \in Flaps : rt' = Ended(p, RecordFailure(AfterMove(flap)))
  BY DEF MonitorUnavailable
<1>2. Withdrawing /\ RtShape' /\ CoordinatorTypeOK' /\ monitor' \in Monitor
  BY <1>1, FlapsAre, MoveWithdraws DEF MonitorUnavailable
<1>3. attempt[p].pc # "idle" /\ Leave(p) /\ AttemptsShape
  BY DEF Seen, MonitorUnavailable, Shape
<1> QED BY <1>2, <1>3, LeaveDoes, LeaveRests DEF Shape, Done, AuthorityMoves, Withdrawing

\* The watcher is there, is started, or cannot be.
LEMMA EnsureMonitorDone == ASSUME Shape, NEW p \in Proc, EnsureMonitor(p) PROVE Done
<1>1. UNCHANGED world /\ attempt[p].pc \in Seen
  BY DEF EnsureMonitor, At, Seen
<1>2. CASE MonitorUnavailable(p)
  BY <1>1, <1>2, UnavailableDone DEF Shape
<1>3. CASE ~MonitorUnavailable(p)
  <2>1. UNCHANGED <<coordinatorVars, rt, request, auditor>>
    BY <1>3 DEF EnsureMonitor
  <2>2. Goto(p, "publish") \/ Goto(p, "attach")
    BY <1>3 DEF EnsureMonitor
  <2>3. AttemptsShape'
    BY <1>1, <2>1, <2>2, GotoKeeps DEF Shape, Seen
  <2>4. attempt[p].observation \in Observation
    BY <1>1 DEF Shape, AttemptsShape, WellFormed
  <2>5. monitor' \in Monitor
    <3>1. \/ monitor' = monitor
          \/ monitor' = [st |-> "attaching", version |-> attempt[p].observation.version,
                         epoch |-> rt.epoch, conn |-> 0]
      BY <1>3 DEF EnsureMonitor
    <3> QED BY <2>4, <3>1 DEF Shape, RtShape, Rt, Monitor, Observation
  <2>6. Marking /\ CoordinatorTypeOK'
    BY <2>1, EndMarks
  <2> QED BY <1>1, <2>1, <2>3, <2>5, <2>6, UnchangedRests
          DEF Shape, Done, AuthorityMoves, Marking, Keeping
<1> QED BY <1>2, <1>3

\* The attempt resumes after its watcher.
LEMMA AttachedDone == ASSUME Shape, NEW p \in Proc, Attached(p) PROVE Done
<1>1. attempt[p].pc \in Seen /\ world' \in World
  BY FaultDoes DEF Attached, At, Seen, Shape
<1>2. CASE MonitorUnavailable(p)
  BY <1>1, <1>2, UnavailableDone
<1>3. CASE ~MonitorUnavailable(p)
  <2>1. Recollect(p) /\ UNCHANGED <<coordinatorVars, world, rt, monitor, request, auditor>>
    BY <1>3 DEF Attached
  <2>2. attempt' = [attempt EXCEPT ![p] = [attempt[p] EXCEPT !.pc = "first",
                      !.then = "publish", !.revision = attempt[p].revision]]
    <3>1. [attempt[p] EXCEPT !.pc = "first", !.then = "publish",
                             !.revision = attempt[p].revision]
          = [attempt[p] EXCEPT !.pc = "first", !.then = "publish"]
      BY DEF Shape, AttemptsShape, Attempt
    <3> QED BY <2>1, <3>1 DEF Recollect
  <2>3. attempt[p].revision \in Nat
    BY DEF Shape, AttemptsShape, Attempt
  <2>4. AttemptsShape'
    BY <1>1, <2>1, <2>2, <2>3, AgainKeeps DEF Shape
  <2>5. Marking /\ CoordinatorTypeOK'
    BY <2>1, EndMarks
  <2> QED BY <2>1, <2>4, <2>5, UnchangedRests
          DEF Shape, Done, AuthorityMoves, Marking, Keeping
<1> QED BY <1>2, <1>3

\* The watcher's own steps.
LEMMA MonitorDone ==
  ASSUME Shape, MonitorAttaches \/ MonitorFires \/ MonitorFails
  PROVE  Done
<1>1. CASE MonitorAttaches
  <2>1. monitor' \in Monitor
    BY <1>1 DEF Shape, World, Monitor, MonitorAttaches
  <2>2. AttemptsShape'
    BY <1>1 DEF Shape, AttemptsShape, WellFormed, MonitorAttaches
  <2>3. Marking /\ CoordinatorTypeOK'
    BY <1>1, EndMarks DEF MonitorAttaches
  <2> QED BY <1>1, <2>1, <2>2, <2>3, UnchangedRests
          DEF Shape, Done, AuthorityMoves, Marking, Keeping, MonitorAttaches
<1>2. CASE MonitorEnds /\ world' \in World
  <2>1. PICK flap \in Flaps : rt' = AfterMove(flap)
    BY <1>2 DEF MonitorEnds
  <2>2. Withdrawing /\ RtShape' /\ CoordinatorTypeOK' /\ monitor' \in Monitor
    BY <1>2, <2>1, FlapsAre, MoveWithdraws DEF MonitorEnds
  <2>3. AttemptsShape'
    BY <1>2 DEF Shape, AttemptsShape, WellFormed, MonitorEnds
  <2> QED BY <1>2, <2>2, <2>3, UnchangedRests
          DEF Shape, Done, AuthorityMoves, Withdrawing, MonitorEnds
<1>3. world \in World
  BY DEF Shape
<1> QED BY <1>1, <1>2, <1>3, FaultDoes DEF MonitorFires, MonitorFails

\* Home Assistant and the registry move, or nothing does.
LEMMA WorldDone ==
  ASSUME Shape, CoreMoves \/ RegistryMoves \/ UNCHANGED vars
  PROVE  Done
<1>1. UNCHANGED <<coordinatorVars, rt, monitor, attempt, request, auditor>>
  BY DEF CoreMoves, RegistryMoves, vars
<1>2. world' \in World
  <2>1. CASE CoreMoves
    <3>0. PICK m, n : m = world.moves - 1 /\ n = world.conn + 1
      OBVIOUS
    <3>1. PICK v \in Version :
            world' = [world EXCEPT !.moves = m, !.version = v, !.conn = n]
      BY <2>1, <3>0 DEF CoreMoves
    <3>2. m \in Nat /\ n \in Nat
      <4>1. world.moves \in Nat /\ world.conn \in Nat /\ world.moves > 0
        BY <2>1 DEF CoreMoves, Shape, World
      <4> QED BY <3>0, <4>1
    <3> QED BY <3>1, <3>2 DEF Shape, World
  <2>2. CASE RegistryMoves
    <3>1. PICK v \in Version, selected \in SUBSET Capability :
            world' = [world EXCEPT !.moves = @ - 1, !.revision = @ + 1,
                                   !.selected[v] = selected]
      BY <2>2 DEF RegistryMoves
    <3>2. PICK f : f = [world.selected EXCEPT ![v] = selected]
      OBVIOUS
    <3>3. world.selected \in [Version -> SUBSET Capability] /\ f \in [Version -> SUBSET Capability]
      BY <3>2 DEF Shape, World
    <3>4. PICK m, n : m = world.moves - 1 /\ n = world.revision + 1
      OBVIOUS
    <3>5. world' = [world EXCEPT !.moves = m, !.revision = n, !.selected = f]
      BY <3>1, <3>2, <3>4
    <3>6. m \in Nat /\ n \in Nat
      <4>1. world.moves \in Nat /\ world.revision \in Nat /\ world.moves > 0
        BY <2>2 DEF RegistryMoves, Shape, World
      <4> QED BY <3>4, <4>1
    <3> QED BY <3>3, <3>5, <3>6 DEF Shape, World
  <2>3. CASE UNCHANGED vars
    BY <2>3 DEF vars, Shape
  <2> QED BY <2>1, <2>2, <2>3
<1>3. AttemptsShape'
  BY <1>1 DEF Shape, AttemptsShape, WellFormed
<1>4. Marking /\ CoordinatorTypeOK'
  BY <1>1, EndMarks
<1> QED BY <1>1, <1>2, <1>3, <1>4, UnchangedRests
        DEF Shape, Done, AuthorityMoves, Marking, Keeping

\* A verification that is not published.
LEMMA RefusedMoves ==
  ASSUME Shape, NEW p \in Proc, Refused(p)
  PROVE  (Withdrawing \/ Failing \/ Marking) /\ RtShape' /\ CoordinatorTypeOK' /\ world' \in World
<1>1. world' \in World
  BY FaultDoes DEF Refused, Shape
<1>2. CASE Failed(p)
  BY <1>1, <1>2, FailedKeeps DEF Failing, Keeping
<1>3. CASE rt' = Ended(p, rt) /\ UNCHANGED <<coordinatorVars, world, auditor>>
  BY <1>1, <1>3, EndMarks DEF Marking, Keeping
<1>4. CASE /\ RegistryMoved /\ RetireIfPublished /\ Disturbed(TRUE, TRUE)
           /\ \E flap \in Flaps : rt' = Ended(p, RecordFailure(Synced(flap)))
  <2>1. PICK flap \in Flaps : rt' = Ended(p, RecordFailure(Synced(flap)))
    BY <1>4
  <2>2. PICK m : m = Synced(flap)
    OBVIOUS
  <2>3. /\ m \in Rt /\ m.config = rt.config /\ m.epoch = rt.epoch /\ ~m.admitted
        /\ m.outdated = Plans
    BY <2>2, FlapsAre, SyncedDoes DEF Shape, RtShape
  <2>4. PICK f : f = RecordFailure(m)
    OBVIOUS
  <2>5. f \in Rt /\ SameAuthority(m, f) /\ f.bootSpent /\ f.confirms = 0
    BY <2>3, <2>4, RecordFailureDoes
  <2>6. rt' \in Rt /\ SameAuthority(f, rt') /\ rt'.bootSpent /\ rt'.confirms = 0
    BY <2>1, <2>2, <2>4, <2>5, EndedDoes
  <2>7. /\ rt'.config = rt.config /\ rt'.epoch = rt.epoch /\ ~rt'.admitted
        /\ rt'.outdated = Plans
    BY <2>3, <2>5, <2>6 DEF SameAuthority
  <2>8. auditor' \in Auditor /\ auditor'.passed = Plans
    BY <1>4, DisturbedDoes DEF Shape
  <2>9. /\ published' = None /\ UNCHANGED <<lastGen, commits, lastLease>>
        /\ issued' = IF published # None THEN {} ELSE issued
    BY <1>4, RetireIfPublishedDoes
  <2>10. rt.epoch <= rt'.epoch
    BY <2>6, <2>7 DEF Rt
  <2>11. Withdrawing
    BY <2>6, <2>7, <2>8, <2>9, <2>10 DEF Withdrawing
  <2>12. RtShape'
    BY <2>6, NothingCounted DEF RtShape
  <2>13. CoordinatorTypeOK'
    BY <2>9 DEF Shape, CoordinatorTypeOK
  <2> QED BY <1>1, <2>11, <2>12, <2>13
<1> QED BY <1>2, <1>3, <1>4 DEF Refused

\* The publication block.
LEMMA PublishDone == ASSUME Shape, NEW p \in Proc, Publish(p) PROVE Done
<1>1. /\ attempt[p].pc = "publish" /\ Leave(p) /\ AttemptsShape /\ UNCHANGED monitor
  BY DEF Publish, At, Shape
<1>2. AttemptsShape' /\ RequestsRest
  BY <1>1, LeaveDoes, LeaveRests
<1>3. PICK o : o = attempt[p].observation
  OBVIOUS
<1>4. o \in Observation /\ world \in World
  BY <1>1, <1>3 DEF Shape, AttemptsShape, WellFormed, Seen
<1>5. CASE Refused(p)
  BY <1>1, <1>2, <1>5, RefusedMoves
  DEF Shape, Done, AuthorityMoves, Withdrawing, Failing, Marking, Keeping
<1>6. CASE /\ HeldBack(p) /\ rt' = Ended(p, Counted(p)) /\ Confirmed(p)
           /\ UNCHANGED <<coordinatorVars, world>>
  <2>1. Holding(p) /\ CoordinatorTypeOK'
    BY <1>1, <1>6, HeldKeeps
  <2> QED BY <1>1, <1>2, <1>4, <1>6, <2>1 DEF Shape, Done, AuthorityMoves, Holding, Keeping
<1>7. CASE /\ Exempt(p) /\ Fenced(p) /\ ~HeldBack(p) /\ UNCHANGED world
           /\ IF Unchanged(o, Selections(o.version)) THEN UNCHANGED coordinatorVars
              ELSE Reconcile(o, Selections(o.version))
           /\ \E flap \in Flaps : rt' = Ended(p, Publication(p, flap))
           /\ IF Preview(o) = {} THEN Disturbed(TRUE, ~Unchanged(o, Selections(o.version)))
              ELSE IF rt.admitted /\ Unchanged(o, Selections(o.version)) THEN UNCHANGED auditor
              ELSE Confirmed(p)
  <2>1. Publishing(p, o) /\ RtShape' /\ CoordinatorTypeOK'
    BY <1>1, <1>3, <1>7, FlapsAre, PublishPublishes
  <2> QED BY <1>1, <1>2, <1>4, <1>7, <2>1 DEF Shape, Done, AuthorityMoves, Publishing
<1> QED BY <1>3, <1>5, <1>6, <1>7 DEF Publish

(***************************************************************************)
(* The steps of the requests.                                              *)
(***************************************************************************)

\* A request with what it holds, in a phase.
Becomes(r, phase, leases, calls) ==
  /\ request' = [request EXCEPT ![r] = [phase |-> phase, leases |-> leases, calls |-> calls]]
  /\ UNCHANGED <<rt, auditor>>
Planning(r) ==
  /\ request[r].phase = "plan"
  /\ \E phase \in {"verifying", "acquire"} :
       Becomes(r, phase, request[r].leases, request[r].calls)
  /\ UNCHANGED coordinatorVars
Acquiring(r) ==
  /\ request[r].phase = "acquire"
  /\ rt.observation # None /\ PlanIsCurrent(r)
  /\ Acquire(Needs, rt.observation.session)
  /\ Becomes(r, "leased", NewLeases(Needs), request[r].calls)
Committing(r) ==
  /\ request[r].phase = "leased"
  /\ Commit(request[r].leases, rt.observation)
  /\ Becomes(r, "committed", request[r].leases, request[r].calls)
Calling(r) ==
  /\ request[r].phase = "committed" /\ ~RegistryMoved
  /\ rt.observation # None /\ ValidCommits(request[r].leases, rt.observation)
  /\ Becomes(r, "committed", request[r].leases, request[r].calls + 1)
  /\ UNCHANGED <<coordinatorVars, world>>
Closing(r) ==
  /\ Becomes(r, "done", {}, 0)
  /\ \/ request[r].phase = "acquire" /\ UNCHANGED coordinatorVars
     \/ request[r].phase = "leased" /\ Release(request[r].leases)
     \/ request[r].phase = "committed" /\ Finish(request[r].leases)
RequestMoves(r) ==
  Planning(r) \/ Acquiring(r) \/ Committing(r) \/ Calling(r) \/ Closing(r)

\* A request that becomes something else, without an attempt of its own.
LEMMA BecomesKeeps ==
  ASSUME AttemptsShape, NEW r \in Request,
         NEW phase \in {"plan", "verifying", "acquire", "leased", "committed", "done"},
         NEW leases \in SUBSET Lease, NEW calls \in Nat, Becomes(r, phase, leases, calls),
         UNCHANGED attempt, attempt[r].pc = "idle" \/ phase = "verifying"
  PROVE  AttemptsShape'
<1>1. PICK x : x = [phase |-> phase, leases |-> leases, calls |-> calls]
  OBVIOUS
<1>2. x \in RequestState /\ x.phase = phase
  BY <1>1 DEF RequestState
<1>3. request' = [request EXCEPT ![r] = x]
  BY <1>1 DEF Becomes
<1>4. request' \in [Request -> RequestState]
  BY <1>2, <1>3 DEF AttemptsShape
<1>5. \A q \in Request : request'[q] = IF q = r THEN x ELSE request[q]
  BY <1>3 DEF AttemptsShape
<1> QED BY <1>2, <1>4, <1>5 DEF AttemptsShape, WellFormed

\* A request in another phase.
LEMMA WithPhase ==
  ASSUME NEW x \in RequestState, NEW phase
  PROVE  [x EXCEPT !.phase = phase]
           = [phase |-> phase, leases |-> x.leases, calls |-> x.calls]
BY DEF RequestState

\* A request with another count.
LEMMA WithCalls ==
  ASSUME NEW x \in RequestState, NEW calls
  PROVE  [x EXCEPT !.calls = calls]
           = [phase |-> x.phase, leases |-> x.leases, calls |-> calls]
BY DEF RequestState

\* A request in another phase with other leases.
LEMMA WithLeases ==
  ASSUME NEW x \in RequestState, NEW phase, NEW leases
  PROVE  [x EXCEPT !.phase = phase, !.leases = leases]
           = [phase |-> phase, leases |-> leases, calls |-> x.calls]
<1>1. PICK y : y = [x EXCEPT !.phase = phase]
  OBVIOUS
<1>2. y = [phase |-> phase, leases |-> x.leases, calls |-> x.calls]
  BY <1>1, WithPhase
<1>3. [x EXCEPT !.phase = phase, !.leases = leases] = [y EXCEPT !.leases = leases]
  BY <1>1
<1> QED BY <1>2, <1>3

\* A step of a request, or a withdrawal that its read of the registry makes.
LEMMA RequestingMoves ==
  ASSUME Shape, NEW r \in Request, Requesting(r)
  PROVE  Shape' /\ ((RequestsRest /\ Withdrawing) \/ RequestMoves(r))
<1> DEFINE x == request[r]
<1>1. /\ x \in RequestState /\ x.leases \in SUBSET Lease /\ x.calls \in Nat
      /\ x = [phase |-> x.phase, leases |-> x.leases, calls |-> x.calls]
      /\ x.phase # "verifying" => attempt[r].pc = "idle"
  BY DEF Shape, AttemptsShape, RequestState
<1>2. UNCHANGED <<world, monitor>> /\ world \in World /\ monitor \in Monitor
  BY DEF Requesting, Plan, AcquireLeases, Consume, GiveUp, Call, FinishCalls, Shape
<1>3. CASE SyncRegistry /\ UNCHANGED request
  <2>1. Withdrawing /\ RtShape' /\ CoordinatorTypeOK'
    BY <1>3, SyncWithdraws
  <2>2. UNCHANGED attempt \/ Begin(r)
    BY DEF Requesting, Plan, AcquireLeases, Consume, GiveUp, Call, FinishCalls
  <2>3. CASE UNCHANGED attempt
    <3>1. AttemptsShape'
      BY <1>3, <2>3 DEF Shape, AttemptsShape, WellFormed
    <3> QED BY <1>2, <1>3, <2>1, <3>1, UnchangedRests DEF Shape, Withdrawing
  <2>4. CASE ~UNCHANGED attempt
    BY <1>1, <1>3, <2>4
    DEF Requesting, Plan, AcquireLeases, Consume, GiveUp, Call, FinishCalls,
        Shape, AttemptsShape
  <2> QED BY <2>3, <2>4
<1>4. CASE ~(SyncRegistry /\ UNCHANGED request)
  <2>1. UNCHANGED <<rt, auditor>> /\ RtShape' /\ auditor' \in Auditor
    BY <1>4 DEF Requesting, Plan, AcquireLeases, Consume, GiveUp, Call, FinishCalls,
                Shape, RtShape
  <2>2. CASE Plan(r)
    <3>1. x.phase = "plan" /\ UNCHANGED coordinatorVars
      BY <2>2 DEF Plan
    <3>2. PICK phase \in {"verifying", "acquire"} :
            /\ request' = [request EXCEPT ![r].phase = phase]
            /\ UNCHANGED attempt \/ (phase = "verifying" /\ Begin(r))
      BY <2>2 DEF Plan
    <3>3. Becomes(r, phase, x.leases, x.calls)
      BY <1>1, <2>1, <3>2, WithPhase DEF Becomes
    <3>4. AttemptsShape'
      <4>1. CASE UNCHANGED attempt
        BY <1>1, <3>1, <3>3, <4>1, BecomesKeeps DEF Shape
      <4>2. CASE phase = "verifying" /\ Begin(r)
        <5>1. PICK a : a = [NoAttempt EXCEPT !.pc = "lock",
                                             !.boot = r \in Worker /\ ~rt.bootSpent]
          OBVIOUS
        <5>2. WellFormed(a)
          BY <5>1, NoAttemptIs DEF WellFormed, Attempt, Parked, Seen
        <5>3. attempt' = [attempt EXCEPT ![r] = a]
          BY <4>2, <5>1 DEF Begin
        <5>4. attempt' \in [Proc -> Attempt]
          BY <5>2, <5>3 DEF Shape, AttemptsShape, WellFormed
        <5>5. \A q \in Proc : attempt'[q] = IF q = r THEN a ELSE attempt[q]
          BY <5>3 DEF Shape, AttemptsShape
        <5>6. \A q \in Proc : WellFormed(attempt'[q])
          BY <5>2, <5>5 DEF Shape, AttemptsShape
        <5>7. request' \in [Request -> RequestState]
          BY <3>2 DEF Shape, AttemptsShape, RequestState
        <5>8. \A q \in Request : attempt'[q].pc # "idle" => request'[q].phase = "verifying"
          BY <3>2, <4>2, <5>5 DEF Shape, AttemptsShape, Proc, RequestState
        <5>9. (\A q \in Proc : WellFormed(attempt[q]))'
                <=> \A q \in Proc : WellFormed(attempt'[q])
          BY DEF WellFormed
        <5> QED BY <5>4, <5>6, <5>7, <5>8, <5>9 DEF AttemptsShape
      <4> QED BY <3>2, <4>1, <4>2
    <3>5. CoordinatorTypeOK'
      BY <3>1 DEF Shape, CoordinatorTypeOK, coordinatorVars
    <3> QED BY <1>2, <2>1, <3>1, <3>3, <3>4, <3>5 DEF Shape, RequestMoves, Planning
  <2>3. CASE ~Plan(r)
    <3>1. UNCHANGED attempt /\ attempt[r].pc = "idle"
      BY <1>1, <2>3 DEF Requesting, AcquireLeases, Consume, GiveUp, Call, FinishCalls
    <3>2. CASE /\ x.phase = "acquire" /\ rt.observation # None /\ PlanIsCurrent(r)
               /\ Acquire(Needs, rt.observation.session)
               /\ request' = [request EXCEPT ![r].phase = "leased",
                                             ![r].leases = NewLeases(Needs)]
      <4>1. Becomes(r, "leased", NewLeases(Needs), x.calls)
        <5>1. PICK ls : ls = NewLeases(Needs)
          OBVIOUS
        <5>2. [x EXCEPT !.phase = "leased", !.leases = ls]
                = [phase |-> "leased", leases |-> ls, calls |-> x.calls]
          BY <1>1, WithLeases
        <5> QED BY <1>1, <2>1, <3>2, <5>1, <5>2 DEF Becomes
      <4>2. /\ published \in Generation /\ lastLease \in Nat /\ lastLease + 1 \in 1..MaxLease
        BY <3>2, CoordinatorAssumption
        DEF Acquire, CanAcquire, Shape, CoordinatorTypeOK
      <4>3. \A c \in Needs : [id |-> lastLease + 1, capability |-> c, gen |-> published.gen,
              observation |-> published.observation] \in Lease
        BY <4>2, RuntimeAssumption DEF Lease, Generation
      <4>4. NewLeases(Needs) \in SUBSET Lease
        BY <4>3 DEF NewLeases
      <4>5. AttemptsShape'
        BY <1>1, <3>1, <4>1, <4>4, BecomesKeeps DEF Shape
      <4>6. CoordinatorTypeOK'
        BY <3>2, <4>2, <4>4 DEF Shape, CoordinatorTypeOK, Acquire
      <4> QED BY <1>2, <2>1, <3>2, <4>1, <4>5, <4>6 DEF Shape, RequestMoves, Acquiring
    <3>3. CASE /\ x.phase = "leased" /\ Commit(x.leases, rt.observation)
               /\ request' = [request EXCEPT ![r].phase = "committed"]
      <4>1. Becomes(r, "committed", x.leases, x.calls)
        BY <1>1, <2>1, <3>3, WithPhase DEF Becomes
      <4>2. AttemptsShape'
        BY <1>1, <3>1, <4>1, BecomesKeeps DEF Shape
      <4>3. CoordinatorTypeOK'
        BY <1>1, <3>3 DEF Shape, CoordinatorTypeOK, Commit
      <4> QED BY <1>2, <2>1, <3>3, <4>1, <4>2, <4>3 DEF Shape, RequestMoves, Committing
    <3>4. CASE /\ x.phase = "committed" /\ ~RegistryMoved
               /\ rt.observation # None /\ ValidCommits(x.leases, rt.observation)
               /\ request' = [request EXCEPT ![r].calls = @ + 1]
               /\ UNCHANGED coordinatorVars
      <4>1. Becomes(r, "committed", x.leases, x.calls + 1)
        BY <1>1, <2>1, <3>4, WithCalls DEF Becomes
      <4>2. AttemptsShape'
        BY <1>1, <3>1, <4>1, BecomesKeeps DEF Shape
      <4>3. CoordinatorTypeOK'
        BY <3>4 DEF Shape, CoordinatorTypeOK, coordinatorVars
      <4> QED BY <1>2, <2>1, <3>4, <4>1, <4>2, <4>3 DEF Shape, RequestMoves, Calling
    <3>5. CASE /\ Close(r)
               /\ \/ x.phase = "acquire" /\ UNCHANGED coordinatorVars
                  \/ x.phase = "leased" /\ Release(x.leases)
                  \/ x.phase = "committed" /\ Finish(x.leases)
      <4>1. Becomes(r, "done", {}, 0)
        BY <2>1, <3>5 DEF Becomes, Close
      <4>2. AttemptsShape'
        BY <1>1, <3>1, <4>1, BecomesKeeps DEF Shape
      <4>3. CoordinatorTypeOK'
        BY <3>5 DEF Shape, CoordinatorTypeOK, coordinatorVars, Release, Finish
      <4> QED BY <1>2, <2>1, <3>5, <4>1, <4>2, <4>3 DEF Shape, RequestMoves, Closing
    <3> QED BY <1>4, <2>3, <3>2, <3>3, <3>4, <3>5
            DEF Requesting, AcquireLeases, Consume, GiveUp, Call, FinishCalls
  <2> QED BY <2>2, <2>3
<1> QED BY <1>3, <1>4

\* Every step is of one kind, and keeps the shape.
LEMMA StepIs ==
  ASSUME Shape, [Next]_vars
  PROVE  /\ Shape'
         /\ \/ RequestsRest /\ AuthorityMoves
            \/ Configuring
            \/ \E r \in Request : RequestMoves(r)
<1>1. CASE Done
  BY <1>1 DEF Done
<1>2. ASSUME NEW p \in Proc, Start(p) \/ Attempting(p) PROVE Done
  BY <1>2, StartDone, DiscardDone, SampleDone, ProbeFailsDone, FirstSnapshotDone,
     SecondSnapshotDone, ObservedDone, RefreshedDone, EnsureMonitorDone, AttachedDone,
     PublishDone
  DEF Attempting
<1>3. CASE Configure
  BY <1>3, ConfigureConfigures
<1>4. ASSUME NEW r \in Request, Requesting(r)
      PROVE  Shape' /\ ((RequestsRest /\ AuthorityMoves) \/ RequestMoves(r))
  BY <1>4, RequestingMoves DEF AuthorityMoves
<1>5. CASE MonitorAttaches \/ MonitorFires \/ MonitorFails \/ CoreMoves \/ RegistryMoves
            \/ UNCHANGED vars
  BY <1>5, MonitorDone, WorldDone DEF Done
<1> QED BY <1>1, <1>2, <1>3, <1>4, <1>5 DEF Next

-----------------------------------------------------------------------------
(* The shape holds.                                                        *)

\* The initial shape.
LEMMA InitShape == Init => Shape
<1> SUFFICES ASSUME Init PROVE Shape
  OBVIOUS
<1>1. CoordinatorTypeOK
  BY CoordinatorAssumption DEF Init, CoordinatorInit, CoordinatorTypeOK
<1>2. world \in World
  <2>1. PICK v \in Version : world =
       [version |-> v, conn |-> 1, revision |-> 0, moves |-> MaxMoves,
        selected |-> [u \in Version |-> IF u \in Compiled THEN Capability
                                       ELSE IF RegistryEnabled THEN Signed ELSE {}]]
    BY DEF Init
  <2>2. PICK f : f = [u \in Version |-> IF u \in Compiled THEN Capability
                                       ELSE IF RegistryEnabled THEN Signed ELSE {}]
    OBVIOUS
  <2>3. f \in [Version -> SUBSET Capability]
    BY <2>2, RuntimeAssumption
  <2>4. world = [version |-> v, conn |-> 1, revision |-> 0, moves |-> MaxMoves, selected |-> f]
    BY <2>1, <2>2
  <2> QED BY <2>3, <2>4, RuntimeAssumption DEF World
<1>3. monitor \in Monitor
  BY CoordinatorAssumption DEF Init, NoMonitor, Monitor
<1>4. auditor \in Auditor
  BY DEF Init, Auditor
<1>5. RtShape
  BY CoordinatorAssumption, RuntimeAssumption DEF Init, RtShape, Rt, Worker
<1>6. AttemptsShape
  <2>1. \A p \in Proc : attempt[p] = NoAttempt
    BY DEF Init
  <2>2. attempt \in [Proc -> Attempt]
    BY NoAttemptIs DEF Init, WellFormed
  <2>3. request \in [Request -> RequestState]
    BY DEF Init, RequestState
  <2> QED BY <2>1, <2>2, <2>3, NoAttemptIs DEF AttemptsShape, NoAttempt, Proc
<1> QED BY <1>1, <1>2, <1>3, <1>4, <1>5, <1>6 DEF Shape

\* The state is always one of the runtime's: the shape that the invariants below
\* rest on.
THEOREM ShapeHolds == Spec => []Shape
<1>1. Shape /\ [Next]_vars => Shape'
  BY StepIs
<1> QED BY <1>1, InitShape, PTL DEF Spec

\* The shape is the type invariant of the runs.
LEMMA ShapeTyped == Shape => TypeOK
<1> SUFFICES ASSUME Shape PROVE TypeOK
  OBVIOUS
<1>1. /\ rt.config \in Worker /\ rt.phase \in {"boot", "loop"} /\ rt.epoch \in 1..MaxSession
      /\ rt.observation \in Observation \union {None}
      /\ rt.token \in Authority \union {None}
      /\ {rt.admitted, rt.bootSpent, rt.active, rt.restored} \subseteq BOOLEAN
      /\ rt.required \in {Confirmations, FlapConfirmations}
      /\ rt.confirms \in Nat /\ rt.confirms < rt.required
      /\ rt.outdated \subseteq Request
  BY DEF Shape, RtShape, Rt
<1>2. auditor.passed \subseteq Request
  BY DEF Shape, Auditor
<1>3. \A p \in Proc : attempt[p].pc \in
       {"idle", "lock", "first", "second", "observed", "missing", "monitor", "attach",
        "publish", "superseded"}
  BY DEF Shape, AttemptsShape, Attempt, Parked, Seen
<1>4. \A r \in Request :
       /\ request[r].phase \in {"plan", "verifying", "acquire", "leased",
                                "committed", "done"}
       /\ request[r].leases \in SUBSET Lease
  BY DEF Shape, AttemptsShape, RequestState
<1> QED BY <1>1, <1>2, <1>3, <1>4 DEF Shape, TypeOK, World, Monitor

\* Type correctness: configurations and epochs stay within their bounds, the
\* count below what is asked for, and leases are leases.
THEOREM CoreTyped == Spec => []TypeOK
BY ShapeHolds, ShapeTyped, PTL

(***************************************************************************)
(* How attempts and the watcher move.                                      *)
(***************************************************************************)

\* An attempt that has the reconciliation lock, or takes it, goes on.
Advances(q, a, b) ==
  /\ a.pc \notin {"idle", "superseded"} /\ b.boot = a.boot
  /\ \/ /\ a.pc = "lock" /\ b.pc = "first" /\ b.epoch = rt.epoch
        /\ \A z \in Proc \ {q} : attempt'[z].pc \in Parked
        /\ b.boot \/ rt'.bootSpent \/ q \in Worker
     \/ a.pc \notin Parked /\ b.epoch = a.epoch /\ b.pc = "first"
     \/ /\ a.pc = "first" /\ b.epoch = a.epoch /\ b.pc = "second"
        /\ b.observation.session = rt.epoch /\ b.conn = world.conn
     \/ /\ a.pc \notin Parked /\ b.epoch = a.epoch
        /\ b.pc \in Seen \ {"second"} /\ ~b.observation.complete
     \/ /\ a.pc = "second" /\ b.epoch = a.epoch /\ b.pc \in Seen \ {"second"}
        /\ b.observation.session = a.observation.session /\ b.conn = a.conn
     \/ /\ a.pc \in Seen \ {"second", "attach"} /\ b.pc \in Seen \ {"second"}
        /\ b = [a EXCEPT !.pc = b.pc]
Begins(q, a, b) ==
  a.pc = "idle" /\ b.pc = "lock" /\ (b.boot <=> (q \in Worker /\ ~rt.bootSpent))
Goes(q) ==
  \/ attempt'[q] = attempt[q]
  \/ attempt'[q].pc \in {"idle", "superseded"}
  \/ Begins(q, attempt[q], attempt'[q])
  \/ Advances(q, attempt[q], attempt'[q])

\* A step changes the attempt of one process.
OnlyMoves(p) == \A q \in Proc \ {p} : attempt'[q] = attempt[q]

\* What a step makes of an attempt.
LEMMA AttemptGoes ==
  ASSUME Shape, NEW p \in Proc, Start(p) \/ Attempting(p)
  PROVE  OnlyMoves(p) /\ Goes(p)
<1> DEFINE a == attempt[p]
<1>1. attempt \in [Proc -> Attempt] /\ a \in Attempt
  BY DEF Shape, AttemptsShape
<1>2. CASE Leave(p)
  BY <1>1, <1>2 DEF Leave, OnlyMoves, Goes, NoAttempt
<1>3. CASE Start(p)
  <2>1. PICK b : b = [NoAttempt EXCEPT !.pc = "lock", !.boot = p \in Worker /\ ~rt.bootSpent]
    OBVIOUS
  <2>2. b.pc = "lock" /\ (b.boot <=> (p \in Worker /\ ~rt.bootSpent))
    BY <2>1 DEF NoAttempt
  <2>3. attempt' = [attempt EXCEPT ![p] = b] /\ a.pc = "idle"
    BY <1>3, <2>1 DEF Start, Begin
  <2> QED BY <1>1, <2>2, <2>3 DEF OnlyMoves, Goes, Begins
<1>4. CASE UNCHANGED attempt
  BY <1>4 DEF OnlyMoves, Goes
<1>5. CASE Sample(p) /\ ~UNCHANGED attempt
  <2>1. PICK b : b = [a EXCEPT !.pc = "first", !.then = "observed",
                        !.epoch = rt.epoch, !.revision = world.revision]
    OBVIOUS
  <2>2. attempt' = [attempt EXCEPT ![p] = b] /\ a.pc = "lock" /\ LockFree(p)
    BY <1>5, <2>1 DEF Sample, At
  <2>3. rt' = IF a.boot \/ (p \in Worker /\ rt.phase = "boot") THEN rt ELSE Spend(rt)
    BY <1>5 DEF Sample
  <2>4. a.boot \/ rt'.bootSpent \/ p \in Worker
    BY <2>3, SpendDoes DEF Shape, RtShape
  <2>5. b.pc = "first" /\ b.epoch = rt.epoch /\ b.boot = a.boot
    BY <1>1, <2>1 DEF Attempt
  <2>6. attempt'[p] = b /\ \A z \in Proc \ {p} : attempt'[z] = attempt[z]
    BY <1>1, <2>2
  <2>7. \A z \in Proc \ {p} : attempt'[z].pc \in Parked
    BY <2>2, <2>6 DEF LockFree, Parked
  <2> QED BY <2>2, <2>4, <2>5, <2>6, <2>7 DEF OnlyMoves, Goes, Advances
<1>6. CASE ProbeFails(p)
  <2>1. PICK b : b = [a EXCEPT !.pc = a.then, !.observation = FailedProbe]
    OBVIOUS
  <2>2. attempt' = [attempt EXCEPT ![p] = b] /\ a.pc \in {"first", "second"}
    BY <1>6, <2>1 DEF ProbeFails, At
  <2>3. a.then \in Seen \ {"second"}
    BY <2>2 DEF Shape, AttemptsShape, WellFormed, Attempt, Seen
  <2>4. b.pc \in Seen \ {"second"} /\ ~b.observation.complete /\ b.epoch = a.epoch
        /\ b.boot = a.boot
    BY <1>1, <2>1, <2>3 DEF Attempt, FailedProbe
  <2> QED BY <1>1, <2>2, <2>4 DEF OnlyMoves, Goes, Advances, Parked
<1>7. CASE FirstSnapshot(p)
  <2>1. PICK o : o = [version |-> world.version, session |-> rt.epoch, complete |-> FALSE,
                      evidence |-> {}]
    OBVIOUS
  <2>2. PICK b : b = [a EXCEPT !.pc = "second", !.conn = world.conn, !.observation = o]
    OBVIOUS
  <2>3. attempt' = [attempt EXCEPT ![p] = b] /\ a.pc = "first"
    BY <1>7, <2>1, <2>2 DEF FirstSnapshot, At
  <2>4. /\ b.pc = "second" /\ b.observation.session = rt.epoch /\ b.conn = world.conn
        /\ b.epoch = a.epoch /\ b.boot = a.boot
    BY <1>1, <2>1, <2>2 DEF Attempt
  <2> QED BY <1>1, <2>3, <2>4 DEF OnlyMoves, Goes, Advances
<1>8. CASE SecondSnapshot(p)
  <2>1. PICK evidence \in SUBSET Capability, complete \in BOOLEAN :
        attempt' = [attempt EXCEPT ![p].pc = a.then,
             ![p].observation.evidence = evidence, ![p].observation.complete = complete]
    BY <1>8 DEF SecondSnapshot
  <2>2. PICK o : o = [a.observation EXCEPT !.evidence = evidence, !.complete = complete]
    OBVIOUS
  <2>3. PICK b : b = [a EXCEPT !.pc = a.then, !.observation = o]
    OBVIOUS
  <2>4. attempt' = [attempt EXCEPT ![p] = b] /\ a.pc = "second"
    <3>1. a.pc = "second"
      BY <1>8 DEF SecondSnapshot, At
    <3> QED BY <2>1, <2>2, <2>3, <3>1
  <2>5. a.then \in Seen \ {"second"} /\ a.observation \in Observation
    BY <2>4 DEF Shape, AttemptsShape, WellFormed, Attempt, Seen
  <2>6. o.session = a.observation.session
    BY <2>2, <2>5 DEF Observation
  <2>7. /\ b.pc \in Seen \ {"second"} /\ b.observation.session = a.observation.session
        /\ b.conn = a.conn /\ b.epoch = a.epoch /\ b.boot = a.boot
    BY <1>1, <2>3, <2>5, <2>6 DEF Attempt
  <2> QED BY <1>1, <2>4, <2>7 DEF OnlyMoves, Goes, Advances
<1>9. ASSUME NEW pc \in Seen \ {"second"}, Goto(p, pc), a.pc \in Seen \ {"second", "attach"}
      PROVE  OnlyMoves(p) /\ Goes(p)
  <2>1. PICK b : b = [a EXCEPT !.pc = pc]
    OBVIOUS
  <2>2. attempt' = [attempt EXCEPT ![p] = b]
    BY <1>9, <2>1 DEF Goto
  <2>3. b.pc = pc /\ b.boot = a.boot /\ b = [a EXCEPT !.pc = b.pc]
    BY <1>1, <2>1 DEF Attempt
  <2> QED BY <1>1, <1>9, <2>2, <2>3 DEF OnlyMoves, Goes, Advances, Seen
<1>10. ASSUME NEW then, NEW revision, a.pc \in Seen,
              attempt' = [attempt EXCEPT ![p].pc = "first", ![p].then = then,
                                         ![p].revision = revision]
       PROVE  OnlyMoves(p) /\ Goes(p)
  <2>1. PICK b : b = [a EXCEPT !.pc = "first", !.then = then, !.revision = revision]
    OBVIOUS
  <2>2. attempt' = [attempt EXCEPT ![p] = b]
    BY <1>10, <2>1
  <2>3. b.pc = "first" /\ b.boot = a.boot /\ b.epoch = a.epoch
    BY <1>1, <2>1 DEF Attempt
  <2> QED BY <1>1, <1>10, <2>2, <2>3 DEF OnlyMoves, Goes, Advances, Seen, Parked
<1>11. CASE Recollect(p) /\ a.pc = "attach"
  <2>1. PICK b : b = [a EXCEPT !.pc = "first", !.then = "publish"]
    OBVIOUS
  <2>2. attempt' = [attempt EXCEPT ![p] = b]
    BY <1>11, <2>1 DEF Recollect
  <2>3. b.pc = "first" /\ b.boot = a.boot /\ b.epoch = a.epoch
    BY <1>1, <2>1 DEF Attempt
  <2> QED BY <1>1, <1>11, <2>2, <2>3 DEF OnlyMoves, Goes, Advances, Parked
<1>12. CASE Observed(p)
  BY <1>9, <1>12 DEF Observed, At, Seen
<1>13. CASE Refreshed(p)
  <2>1. a.pc \in Seen \ {"second", "attach"} /\ "monitor" \in Seen \ {"second"}
    BY <1>13 DEF Refreshed, At, Seen
  <2>2. CASE Goto(p, "monitor")
    BY <1>9, <2>1, <2>2
  <2>3. CASE attempt' = [attempt EXCEPT ![p].pc = "first", ![p].then = "monitor",
                                        ![p].revision = world.revision]
    BY <1>10, <2>1, <2>3
  <2> QED BY <1>4, <1>13, <2>2, <2>3 DEF Refreshed
<1>14. CASE EnsureMonitor(p)
  BY <1>2, <1>9, <1>14 DEF EnsureMonitor, MonitorUnavailable, At, Seen
<1>15. CASE Attached(p)
  BY <1>2, <1>11, <1>15 DEF Attached, MonitorUnavailable, At
<1> QED BY <1>2, <1>3, <1>4, <1>5, <1>6, <1>7, <1>8, <1>12, <1>13, <1>14, <1>15
        DEF Attempting, Discard, Publish

\* What any step makes of the attempts.
LEMMA AttemptsGo ==
  ASSUME Shape, [Next]_vars
  PROVE  \A q \in Proc : Goes(q)
<1>1. ASSUME NEW p \in Proc, Start(p) \/ Attempting(p)
      PROVE  \A q \in Proc : Goes(q)
  BY <1>1, AttemptGoes DEF OnlyMoves, Goes
<1>2. CASE UNCHANGED attempt
  BY <1>2 DEF Goes
<1>3. CASE Configure
  BY <1>3 DEF Configure, Superseded, NoAttempt, Goes
<1>4. ASSUME NEW r \in Request, Plan(r), ~UNCHANGED attempt
      PROVE  \A q \in Proc : Goes(q)
  <2>1. PICK b : b = [NoAttempt EXCEPT !.pc = "lock", !.boot = r \in Worker /\ ~rt.bootSpent]
    OBVIOUS
  <2>2. b.pc = "lock" /\ (b.boot <=> (r \in Worker /\ ~rt.bootSpent))
    BY <2>1 DEF NoAttempt
  <2>3. attempt' = [attempt EXCEPT ![r] = b] /\ attempt[r].pc = "idle"
    BY <1>4, <2>1 DEF Plan, Begin, Shape, AttemptsShape
  <2>4. \A q \in Proc : attempt'[q] = IF q = r THEN b ELSE attempt[q]
    BY <2>3 DEF Shape, AttemptsShape
  <2> QED BY <2>2, <2>3, <2>4 DEF Goes, Begins
<1> QED BY <1>1, <1>2, <1>3, <1>4
        DEF Next, Requesting, AcquireLeases, Consume, GiveUp, Call, FinishCalls,
            MonitorAttaches, MonitorFires, MonitorFails, MonitorEnds, CoreMoves,
            RegistryMoves, vars

-----------------------------------------------------------------------------
(* Generations.                                                            *)

\* The connection epoch only grows, and the exemption is spent for good.
LEMMA EpochGrows ==
  ASSUME Shape, [Next]_vars
  PROVE  rt.epoch <= rt'.epoch /\ rt.epoch \in Nat /\ rt'.epoch \in Nat
<1>1. rt \in Rt
  BY DEF Shape, RtShape
<1>2. CASE Configuring
  BY <1>1, <1>2, CoordinatorAssumption DEF Configuring, Rt
<1>3. CASE \E r \in Request : RequestMoves(r)
  BY <1>1, <1>3
  DEF RequestMoves, Planning, Acquiring, Committing, Calling, Closing, Becomes, Rt
<1>4. CASE AuthorityMoves
  <2>1. CASE Withdrawing
    BY <1>1, <2>1 DEF Withdrawing, Rt
  <2>2. CASE Keeping
    BY <1>1, <2>2 DEF Keeping, SameAuthority, Rt
  <2>3. ASSUME NEW p \in Proc, NEW o \in Observation, Publishing(p, o)
        PROVE  rt.epoch <= rt'.epoch /\ rt.epoch \in Nat /\ rt'.epoch \in Nat
    BY <1>1, <2>3 DEF Publishing, Rt
  <2> QED BY <1>4, <2>1, <2>2, <2>3 DEF AuthorityMoves, Marking, Failing, Holding
<1> QED BY <1>2, <1>3, <1>4, StepIs

\* Attempts are fenced by epochs that were.
LEMMA EpochStep ==
  ASSUME Shape, EpochInv, [Next]_vars
  PROVE  EpochInv'
<1>1. rt.epoch <= rt'.epoch /\ rt.epoch \in Nat /\ rt'.epoch \in Nat
  BY EpochGrows
<1> SUFFICES ASSUME NEW q \in Proc, attempt'[q].pc \notin Parked
             PROVE  /\ attempt'[q].epoch <= rt'.epoch
                    /\ attempt'[q].pc \in Seen
                       /\ (attempt'[q].pc = "second" \/ attempt'[q].observation.complete) =>
                         /\ attempt'[q].epoch <= attempt'[q].observation.session
                         /\ attempt'[q].observation.session <= rt'.epoch
  BY DEF EpochInv, Parked, Seen
<1>2. PICK a, b : a = attempt[q] /\ b = attempt'[q]
  OBVIOUS
<1>3. a \in Attempt /\ (a.pc \in Seen => a.observation \in Observation)
  BY <1>2 DEF Shape, AttemptsShape, WellFormed
<1>4. a.epoch \in Nat /\ (a.pc \in Seen => a.observation.session \in Nat)
  BY <1>3, CoordinatorAssumption DEF Attempt, Observation
<1>5. /\ a.pc \notin Parked => a.epoch <= rt.epoch
      /\ a.pc \in Seen /\ (a.pc = "second" \/ a.observation.complete) =>
             a.epoch <= a.observation.session /\ a.observation.session <= rt.epoch
  BY <1>2 DEF EpochInv
<1>6. CASE b = a
  BY <1>1, <1>2, <1>4, <1>5, <1>6
<1>7. CASE Advances(q, a, b)
  <2>1. CASE b.pc = "first"
    BY <1>1, <1>2, <1>4, <1>5, <1>7, <2>1 DEF Advances, Seen, Parked
  <2>2. CASE b.pc = "second"
    BY <1>1, <1>2, <1>4, <1>5, <1>7, <2>2 DEF Advances, Parked, Seen
  <2>3. CASE a.pc \in Seen \ {"second", "attach"} /\ b = [a EXCEPT !.pc = b.pc]
    <3>1. b.epoch = a.epoch /\ b.observation = a.observation
      BY <1>3, <2>3 DEF Attempt
    <3>2. a.pc \notin Parked /\ (b.pc # "second" \/ ~(b.pc \in Seen))
      BY <1>7, <2>3 DEF Advances, Parked, Seen
    <3> QED BY <1>1, <1>2, <1>4, <1>5, <2>3, <2>2, <3>1, <3>2
  <2>4. CASE a.pc \notin Parked /\ b.epoch = a.epoch /\ b.pc # "second"
             /\ ~b.observation.complete
    BY <1>1, <1>2, <1>4, <1>5, <2>4
  <2>5. CASE a.pc = "second" /\ b.epoch = a.epoch
             /\ b.observation.session = a.observation.session
    BY <1>1, <1>2, <1>4, <1>5, <2>5 DEF Parked, Seen
  <2> QED BY <1>7, <2>1, <2>2, <2>3, <2>4, <2>5 DEF Advances
<1>8. CASE b.pc \in Parked
  BY <1>2, <1>8
<1>9. Goes(q)
  BY AttemptsGo
<1> QED BY <1>2, <1>6, <1>7, <1>8, <1>9 DEF Goes, Begins, Parked

\* The fences of every attempt, and what it saw, are of epochs that were: a
\* publication whose fence is the current epoch publishes an observation of it.
THEOREM EpochsHold == Spec => []EpochInv
<1>1. Init => EpochInv
  BY DEF Init, EpochInv, NoAttempt, Parked, Seen
<1>2. Shape /\ EpochInv /\ [Next]_vars => EpochInv'
  BY EpochStep
<1> QED BY <1>1, <1>2, ShapeHolds, PTL DEF Spec

\* What a publication publishes is of the current epoch.
LEMMA FencedIsCurrent ==
  ASSUME Shape, EpochInv, NEW p \in Proc, NEW o, Publishing(p, o), o.complete
  PROVE  o.session = rt.epoch
<1>1. attempt[p].pc \in Seen /\ attempt[p].pc \notin Parked /\ o = attempt[p].observation
  BY DEF Publishing, Seen, Parked
<1>2. o \in Observation /\ rt.epoch \in Nat /\ o.session \in Nat
  BY <1>1, CoordinatorAssumption
  DEF Shape, AttemptsShape, WellFormed, RtShape, Rt, Observation
<1>3. attempt[p].epoch = rt.epoch
  BY DEF Publishing, Fenced
<1> QED BY <1>1, <1>2, <1>3 DEF EpochInv

\* A new generation of what was verified.
LEMMA PublishedIs ==
  ASSUME Shape, EpochInv, NEW p \in Proc, NEW o, Publishing(p, o),
         ~Unchanged(o, Selections(o.version))
  PROVE  /\ published' = [gen |-> lastGen', observation |-> o,
                          authority |-> Selections(o.version),
                          admits |-> Preview(o)]
         /\ published' # None /\ lastGen' = lastGen + 1
<1>1. Reconcile(o, Selections(o.version))
  BY DEF Publishing
<1>2. published' \in Generation
  <2>1. o \in Observation /\ world \in World
    BY DEF Shape, AttemptsShape, WellFormed, Seen, Publishing
  <2>2. Selections(o.version) \in Authority
    BY <2>1, KeyIs
  <2>3. Admits(o, Selections(o.version)) \in SUBSET Capability
    BY <2>1 DEF Admits, Observation
  <2>4. lastGen + 1 \in 1..MaxGeneration
    BY <1>1, CoordinatorAssumption DEF Shape, CoordinatorTypeOK, Reconcile
  <2> QED BY <1>1, <2>1, <2>2, <2>3, <2>4 DEF Reconcile, Generation
<1>3. published' # None
  BY <1>2, CoordinatorAssumption
<1> QED BY <1>1, <1>3 DEF Reconcile, Preview

\* The generation follows from its material and the runtime from it.
LEMMA GenerationStep ==
  ASSUME Shape, EpochInv, GenerationInv, [Next]_vars
  PROVE  GenerationInv'
<1>1. CASE published' = None
  BY <1>1 DEF GenerationInv
<1>2. CASE UNCHANGED <<published, lastGen>> /\ SameAuthority(rt, rt')
           /\ (rt.bootSpent => rt'.bootSpent)
  BY <1>2 DEF GenerationInv, SameAuthority
<1>3. ASSUME NEW p \in Proc, NEW o \in Observation, Publishing(p, o)
      PROVE  GenerationInv'
  <2>1. o.complete => o.session = rt.epoch
    BY <1>3, FencedIsCurrent
  <2>2. /\ rt'.epoch = rt.epoch /\ rt'.observation = o /\ rt'.bootSpent
        /\ rt'.token = SelectionToken(o.version)
    BY <1>3 DEF Publishing
  <2>3. PICK a : a = Selections(o.version)
    OBVIOUS
  <2>4. /\ RegistryEnabled /\ o.version # None => SelectionToken(o.version) = a
        /\ o.version = None => a = {}
    BY <2>3 DEF Selections, SelectionToken
  <2>5. CASE Unchanged(o, a)
    <3>1. published' = published /\ lastGen' = lastGen /\ published # None
          /\ published.observation = o /\ published.authority = a
      BY <1>3, <2>3, <2>5 DEF Publishing, Unchanged, coordinatorVars
    <3>2. published.gen = lastGen /\ published.admits = Admits(o, a)
      BY <3>1 DEF GenerationInv
    <3> QED BY <2>1, <2>2, <2>4, <3>1, <3>2 DEF GenerationInv
  <2>6. CASE ~Unchanged(o, a)
    <3>1. published' = [gen |-> lastGen', observation |-> o, authority |-> a,
                        admits |-> Admits(o, a)]
      BY <1>3, <2>3, <2>6, PublishedIs DEF Preview
    <3>2. /\ published'.gen = lastGen' /\ published'.observation = o
          /\ published'.authority = a /\ published'.admits = Admits(o, a)
      BY <3>1
    <3> QED BY <2>1, <2>2, <2>4, <3>2 DEF GenerationInv
  <2> QED BY <2>5, <2>6
<1>4. CASE \E r \in Request : RequestMoves(r)
  BY <1>2, <1>4
  DEF RequestMoves, Planning, Acquiring, Committing, Calling, Closing, Becomes,
      Acquire, Commit, Release, Finish, coordinatorVars, SameAuthority
<1>5. CASE AuthorityMoves
  BY <1>1, <1>2, <1>3, <1>5
  DEF AuthorityMoves, Withdrawing, Marking, Failing, Holding, Keeping, coordinatorVars
<1> QED BY <1>1, <1>4, <1>5, StepIs DEF Configuring

\* The runtime's fields are those the generation was published with, and what it
\* admits is what its observation and authority give.
THEOREM GenerationsHold == Spec => []GenerationInv
<1>1. Init => GenerationInv
  BY DEF Init, CoordinatorInit, GenerationInv
<1>2. Shape /\ EpochInv /\ GenerationInv /\ [Next]_vars => GenerationInv'
  BY GenerationStep
<1> QED BY <1>1, <1>2, ShapeHolds, EpochsHold, PTL DEF Spec

\* Health and routes never pair a generation with another observation: the
\* runtime's observation changes only with what it publishes or withdraws.
THEOREM CoreGenerationHasItsObservation == Spec => []GenerationHasItsObservation
<1>1. GenerationInv => GenerationHasItsObservation
  BY DEF GenerationInv, GenerationHasItsObservation
<1> QED BY <1>1, GenerationsHold, PTL

\* The admission flag, step by step.
LEMMA AdmissionStep ==
  ASSUME Shape, EpochInv, GenerationInv, AdmissionAgrees, [Next]_vars
  PROVE  AdmissionAgrees'
<1>1. CASE published' = None /\ ~rt'.admitted
  BY <1>1 DEF AdmissionAgrees
<1>2. CASE published' = published /\ SameAuthority(rt, rt')
  BY <1>2 DEF AdmissionAgrees, SameAuthority
<1>3. ASSUME NEW p \in Proc, NEW o \in Observation, Publishing(p, o)
      PROVE  AdmissionAgrees'
  <2>1. rt'.admitted <=> Preview(o) # {}
    BY <1>3 DEF Publishing
  <2>2. CASE Unchanged(o, Selections(o.version))
    <3>1. published' = published /\ published # None /\ published.observation = o
          /\ published.authority = Selections(o.version)
      BY <1>3, <2>2 DEF Publishing, Unchanged, coordinatorVars
    <3>2. published.admits = Preview(o)
      BY <3>1 DEF GenerationInv, Preview
    <3> QED BY <2>1, <3>1, <3>2 DEF AdmissionAgrees
  <2>3. CASE ~Unchanged(o, Selections(o.version))
    <3>1. published' # None /\ published'.admits = Preview(o)
      BY <1>3, <2>3, PublishedIs
    <3> QED BY <2>1, <3>1 DEF AdmissionAgrees
  <2> QED BY <2>2, <2>3
<1>4. CASE \E r \in Request : RequestMoves(r)
  BY <1>2, <1>4
  DEF RequestMoves, Planning, Acquiring, Committing, Calling, Closing, Becomes,
      Acquire, Commit, Release, Finish, coordinatorVars, SameAuthority
<1>5. CASE AuthorityMoves
  BY <1>1, <1>2, <1>3, <1>5
  DEF AuthorityMoves, Withdrawing, Marking, Failing, Holding, Keeping, coordinatorVars
<1> QED BY <1>1, <1>4, <1>5, StepIs DEF Configuring

\* The flag that decides whether a publication is gated never parts from what
\* the coordinator publishes.
THEOREM CoreAdmissionAgrees == Spec => []AdmissionAgrees
<1>1. Init => AdmissionAgrees
  BY DEF Init, CoordinatorInit, AdmissionAgrees
<1>2. Shape /\ EpochInv /\ GenerationInv /\ AdmissionAgrees /\ [Next]_vars => AdmissionAgrees'
  BY AdmissionStep
<1> QED BY <1>1, <1>2, ShapeHolds, EpochsHold, GenerationsHold, PTL DEF Spec

-----------------------------------------------------------------------------
(* The watcher.                                                            *)

\* How the watcher moves with the attempts.
MonitorGoes ==
  \/ /\ monitor' = monitor
     /\ \A p \in Proc : attempt[p].pc = "attach" =>
          attempt'[p] = attempt[p] \/ monitor.st # "attaching"
  \/ monitor' = NoMonitor
  \/ /\ monitor'.st = "attaching" /\ monitor'.conn = 0
     /\ \E p \in Proc : attempt'[p].pc = "attach"
  \/ /\ monitor.st = "attaching" /\ UNCHANGED attempt
     /\ monitor' = [monitor EXCEPT !.st = "open", !.conn = world.conn]

\* What any step makes of the watcher.
LEMMA MonitorsGo ==
  ASSUME Shape, [Next]_vars
  PROVE  MonitorGoes
<1>1. CASE monitor' = NoMonitor
  BY <1>1 DEF MonitorGoes
<1>2. CASE UNCHANGED <<monitor, attempt>>
  BY <1>2 DEF MonitorGoes
<1>3. ASSUME NEW p \in Proc, UNCHANGED monitor, attempt[p].pc # "attach" \/ monitor.st # "attaching",
             OnlyMoves(p)
      PROVE  MonitorGoes
  BY <1>3 DEF MonitorGoes, OnlyMoves
<1>4. ASSUME NEW p \in Proc, Start(p) \/ Attempting(p)
      PROVE  MonitorGoes
  <2>1. OnlyMoves(p)
    BY <1>4, AttemptGoes
  <2>2. CASE Attached(p)
    BY <1>1, <1>3, <2>1, <2>2
    DEF Attached, MonitorUnavailable, ConnectionChanged, Watched
  <2>3. CASE EnsureMonitor(p)
    <3>1. CASE MonitorUnavailable(p)
      BY <1>1, <3>1 DEF MonitorUnavailable, ConnectionChanged
    <3>2. CASE UNCHANGED monitor
      BY <1>3, <2>1, <2>3, <3>2 DEF EnsureMonitor, At
    <3>3. CASE /\ monitor' = [st |-> "attaching", version |-> attempt[p].observation.version,
                              epoch |-> rt.epoch, conn |-> 0]
               /\ Goto(p, "attach")
      <4>1. attempt'[p].pc = "attach"
        BY <3>3 DEF Goto, Shape, AttemptsShape, Attempt
      <4> QED BY <3>3, <4>1 DEF MonitorGoes
    <3> QED BY <2>3, <3>1, <3>2, <3>3 DEF EnsureMonitor
  <2>4. CASE Start(p) \/ Discard(p) \/ Sample(p) \/ ProbeFails(p) \/ FirstSnapshot(p)
              \/ SecondSnapshot(p) \/ Observed(p) \/ Refreshed(p) \/ Publish(p)
    BY <1>3, <2>1, <2>4
    DEF Start, Discard, Sample, ProbeFails, FirstSnapshot, SecondSnapshot, Observed,
        Refreshed, Publish, At
  <2> QED BY <1>4, <2>2, <2>3, <2>4 DEF Attempting
<1>5. ASSUME NEW r \in Request, Plan(r)
      PROVE  MonitorGoes
  <2>1. UNCHANGED monitor /\ attempt[r].pc = "idle" /\ (UNCHANGED attempt \/ Begin(r))
    BY <1>5 DEF Plan, Shape, AttemptsShape
  <2>2. \A q \in Proc \ {r} : attempt'[q] = attempt[q]
    BY <2>1 DEF Begin, Shape, AttemptsShape
  <2> QED BY <1>3, <2>1, <2>2 DEF OnlyMoves, Proc
<1>6. CASE MonitorAttaches
  BY <1>6 DEF MonitorAttaches, MonitorGoes
<1>7. CASE MonitorFires \/ MonitorFails \/ Configure
  BY <1>1, <1>7 DEF MonitorFires, MonitorFails, MonitorEnds, ConnectionChanged, Configure
<1> QED BY <1>2, <1>4, <1>5, <1>6, <1>7
        DEF Next, Requesting, AcquireLeases, Consume, GiveUp, Call, FinishCalls,
            CoreMoves, RegistryMoves, vars

\* Connections are numbered upwards.
LEMMA ConnectionsGrow ==
  ASSUME Shape, [Next]_vars
  PROVE  world.conn <= world'.conn /\ world.conn \in Nat /\ world'.conn \in Nat
<1>1. world \in World /\ world.conn \in Nat
  BY DEF Shape, World
<1>2. CASE world'.conn = world.conn
  BY <1>1, <1>2
<1>3. CASE CoreMoves
  BY <1>1, <1>3 DEF CoreMoves, World
<1>4. CASE RegistryMoves
  BY <1>1, <1>4 DEF RegistryMoves, World
<1>5. CASE Fault
  BY <1>1, <1>5, FaultDoes
<1>6. ASSUME NEW p \in Proc, SecondSnapshot(p)
      PROVE  world'.conn = world.conn
  BY <1>1, <1>6 DEF SecondSnapshot, World
<1>7. ASSUME NEW p \in Proc, Start(p) \/ Attempting(p)
      PROVE  world' = world \/ Fault \/ SecondSnapshot(p)
  BY <1>7 DEF Attempting, Start, Discard, Sample, ProbeFails, FirstSnapshot, Observed,
              Refreshed, EnsureMonitor, Attached, Publish, Refused
<1>8. ASSUME NEW r \in Request, Requesting(r)
      PROVE  world' = world
  BY <1>8 DEF Requesting, Plan, AcquireLeases, Consume, GiveUp, Call, FinishCalls
<1> QED BY <1>2, <1>3, <1>4, <1>5, <1>6, <1>7, <1>8
        DEF Next, MonitorAttaches, MonitorFires, MonitorFails, Configure, vars

\* The reconciliation lock keeps attempts apart.
LEMMA OneAttemptStep ==
  ASSUME Shape, OneAttempt, [Next]_vars
  PROVE  OneAttempt'
<1> SUFFICES ASSUME NEW p \in Proc, NEW q \in Proc,
                    attempt'[p].pc \notin Parked, attempt'[q].pc \notin Parked
             PROVE  p = q
  BY DEF OneAttempt, Parked
<1>1. ASSUME NEW z \in Proc, attempt'[z].pc \notin Parked
      PROVE  attempt[z].pc \notin Parked \/ \A y \in Proc \ {z} : attempt'[y].pc \in Parked
  <2>1. Goes(z)
    BY AttemptsGo
  <2> QED BY <1>1, <2>1 DEF Goes, Begins, Advances, Parked, Seen
<1> QED BY <1>1 DEF OneAttempt

\* At most one attempt of a configuration is between its lock and its end.
THEOREM OneAttemptHolds == Spec => []OneAttempt
<1>1. Init => OneAttempt
  BY DEF Init, OneAttempt, NoAttempt, Parked
<1>2. Shape /\ OneAttempt /\ [Next]_vars => OneAttempt'
  BY OneAttemptStep
<1> QED BY <1>1, <1>2, ShapeHolds, PTL DEF Spec

\* An open watcher is older than what was seen under it.
LEMMA WatchStep ==
  ASSUME Shape, OneAttempt, WatchInv, [Next]_vars
  PROVE  WatchInv'
<1>1. world.conn <= world'.conn /\ world.conn \in Nat /\ world'.conn \in Nat
  BY ConnectionsGrow
<1>2. MonitorGoes /\ monitor \in Monitor /\ monitor.conn \in Nat
  BY MonitorsGo DEF Shape, Monitor
<1>3. monitor'.conn <= world'.conn
  <2>1. CASE monitor' = monitor
    BY <1>1, <1>2, <2>1 DEF WatchInv
  <2>2. CASE monitor'.conn = 0
    BY <1>1, <2>2
  <2>3. CASE monitor' = [monitor EXCEPT !.st = "open", !.conn = world.conn]
    <3>1. monitor'.conn = world.conn
      BY <1>2, <2>3 DEF Monitor
    <3> QED BY <1>1, <3>1
  <2> QED BY <1>2, <2>1, <2>2, <2>3 DEF MonitorGoes, NoMonitor
<1>4. monitor'.st = "attaching" => \E p \in Proc : attempt'[p].pc = "attach"
  BY <1>2 DEF MonitorGoes, WatchInv, Monitor, NoMonitor
<1>5. ASSUME monitor'.st = "open", NEW p \in Proc, attempt'[p].pc \in Seen \ {"attach"},
             attempt'[p].pc = "second" \/ attempt'[p].observation.complete
      PROVE  monitor'.conn <= attempt'[p].conn
  <2>1. CASE /\ monitor.st = "attaching" /\ UNCHANGED attempt
    <3>1. PICK q \in Proc : attempt[q].pc = "attach"
      BY <2>1 DEF WatchInv
    <3>2. p = q
      BY <1>5, <2>1, <3>1 DEF OneAttempt, Parked, Seen
    <3> QED BY <1>5, <2>1, <3>1, <3>2
  <2>2. CASE monitor' = monitor
    <3>1. PICK a, b : a = attempt[p] /\ b = attempt'[p]
      OBVIOUS
    <3>2. a \in Attempt /\ a.conn \in Nat
      BY <3>1 DEF Shape, AttemptsShape, Attempt
    <3>3. a.pc \in Seen \ {"attach"} /\ (a.pc = "second" \/ a.observation.complete)
            => monitor.conn <= a.conn
      BY <1>5, <2>2, <3>1 DEF WatchInv
    <3>4. CASE b = a
      BY <1>5, <2>2, <3>1, <3>3, <3>4
    <3>5. CASE b.pc = "second" /\ b.conn = world.conn
      BY <2>2, <3>1, <3>5 DEF WatchInv
    <3>6. CASE a.pc = "second" /\ b.conn = a.conn
      BY <2>2, <3>1, <3>3, <3>6 DEF Seen
    <3>7. CASE a.pc \in Seen \ {"second", "attach"} /\ b = [a EXCEPT !.pc = b.pc]
               /\ b.pc # "second"
      <4>1. b.observation = a.observation /\ b.conn = a.conn
        BY <3>2, <3>7 DEF Attempt
      <4> QED BY <1>5, <2>2, <3>1, <3>3, <3>7, <4>1
    <3>8. Goes(p)
      BY AttemptsGo
    <3> QED BY <1>5, <3>1, <3>4, <3>5, <3>6, <3>7, <3>8 DEF Goes, Begins, Advances, Seen
  <2> QED BY <1>2, <1>5, <2>1, <2>2 DEF MonitorGoes, NoMonitor
<1> QED BY <1>3, <1>4, <1>5 DEF WatchInv

\* A watcher attaches for the one attempt that waits for it, and what an attempt
\* saw while it was open is of its connection or a later one.
THEOREM WatchHolds == Spec => []WatchInv
<1>1. Init => WatchInv
  BY DEF Init, WatchInv, NoMonitor
<1>2. Shape /\ OneAttempt /\ WatchInv /\ [Next]_vars => WatchInv'
  BY WatchStep
<1> QED BY <1>1, <1>2, ShapeHolds, OneAttemptHolds, PTL DEF Spec

\* Only a publication publishes.
LEMMA NewGeneration ==
  ASSUME Shape, [Next]_vars, published' # published, published' # None
  PROVE  \E p \in Proc, o \in Observation :
           Publishing(p, o) /\ ~Unchanged(o, Selections(o.version))
<1>1. ~(\E r \in Request : RequestMoves(r))
  BY DEF RequestMoves, Planning, Acquiring, Committing, Calling, Closing,
         Acquire, Commit, Release, Finish, coordinatorVars
<1>2. AuthorityMoves
  BY <1>1, StepIs DEF Configuring
<1> QED BY <1>2
        DEF AuthorityMoves, Withdrawing, Marking, Failing, Holding, Keeping, Publishing,
            coordinatorVars

\* What is admitted was observed after its watcher attached: a replacement of
\* Core cannot inherit authority observed on an earlier connection.
THEOREM CoreObservedUnderWatch == Spec => ObservedUnderWatch
<1>1. ASSUME Shape, EpochInv, WatchInv, [Next]_vars
      PROVE  [published' # published /\ published' # None /\ published'.admits # {} =>
               /\ monitor.st = "open" /\ monitor.epoch = rt.epoch
               /\ \E p \in Proc :
                    /\ attempt[p].pc = "publish"
                    /\ attempt[p].observation = published'.observation
                    /\ monitor.conn <= attempt[p].conn]_vars
  <2> SUFFICES ASSUME published' # published, published' # None, published'.admits # {}
               PROVE  /\ monitor.st = "open" /\ monitor.epoch = rt.epoch
                      /\ \E p \in Proc :
                           /\ attempt[p].pc = "publish"
                           /\ attempt[p].observation = published'.observation
                           /\ monitor.conn <= attempt[p].conn
    OBVIOUS
  <2>1. PICK p \in Proc, o \in Observation :
          Publishing(p, o) /\ ~Unchanged(o, Selections(o.version))
    BY <1>1, NewGeneration
  <2>2. published'.observation = o /\ published'.admits = Preview(o)
    BY <1>1, <2>1, PublishedIs
  <2>3. o.complete
    BY <2>2 DEF Preview, Admits
  <2>4. /\ attempt[p].pc = "publish" /\ o = attempt[p].observation
        /\ monitor.st = "open" /\ monitor.epoch = rt.epoch
    BY <2>1 DEF Publishing, Fenced, Watched
  <2>5. monitor.conn <= attempt[p].conn
    BY <1>1, <2>3, <2>4 DEF WatchInv, Seen
  <2> QED BY <2>2, <2>4, <2>5
<1> QED BY <1>1, ShapeHolds, EpochsHold, WatchHolds, PTL DEF Spec, ObservedUnderWatch

-----------------------------------------------------------------------------
(* Leases.                                                                 *)

\* What the coordinator counts, it counts for a request that holds it; unused
\* leases are of the published generation.
Owned ==
  /\ \A l \in issued : \E r \in Request :
       request[r].phase = "leased" /\ l \in request[r].leases
  /\ \A l \in commits : \E r \in Request :
       request[r].phase = "committed" /\ l \in request[r].leases
  /\ \A l \in issued : published # None /\ l.gen = published.gen

\* What the lease invariant says of one request.
Known(r) ==
  Holds(r) =>
    /\ {l.capability : l \in request[r].leases} = Needs
    /\ \A l \in request[r].leases :
         /\ l.observation.complete /\ l.observation.session <= rt.epoch
         /\ l.observation.session < rt.epoch \/ (l.id <= lastLease /\ l.gen <= lastGen)
Whole(r) ==
  LET counted == IF request[r].phase = "leased" THEN issued ELSE commits IN
  Holds(r) => request[r].leases \subseteq counted \/ request[r].leases \intersect counted = {}
Apart(q, r) ==
  Holds(q) /\ Holds(r) /\ q # r => request[q].leases \intersect request[r].leases = {}

\* The lease invariant, request by request.
LEMMA LeaseParts ==
  LeaseInv <=> /\ \A r \in Request : Known(r) /\ Whole(r)
               /\ \A q, r \in Request : Apart(q, r)
BY DEF LeaseInv, Known, Whole, Apart

\* Shapes of leases.
LEMMA LeasesAre ==
  ASSUME Shape, NEW r \in Request, NEW l \in request[r].leases
  PROVE  /\ l \in Lease /\ l.id \in Nat /\ l.gen \in Nat /\ l.observation.session \in Nat
         /\ lastLease \in Nat /\ lastGen \in Nat /\ rt.epoch \in Nat
<1>1. l \in Lease
  BY DEF Shape, AttemptsShape, RequestState
<1>2. l.id \in Nat /\ l.gen \in Nat /\ l.observation \in Observation
  BY <1>1, CoordinatorAssumption DEF Lease
<1>3. lastLease \in Nat /\ lastGen \in Nat /\ rt.epoch \in Nat
  BY CoordinatorAssumption DEF Shape, CoordinatorTypeOK, RtShape, Rt
<1> QED BY <1>1, <1>2, <1>3, CoordinatorAssumption DEF Observation

\* While the requests rest, leases keep what they know.
LEMMA RestKeepsKnown ==
  ASSUME Shape, RequestsRest, NEW r \in Request, Known(r), Holds(r)',
         \/ rt.epoch <= rt'.epoch /\ rt'.epoch \in Nat /\ lastLease' = lastLease
              /\ (lastGen' = lastGen \/ lastGen' = lastGen + 1)
         \/ rt'.epoch = rt.epoch + 1
  PROVE  Known(r)'
<1>1. Holds(r) /\ request'[r].leases = request[r].leases
  BY DEF RequestsRest, Holds
<1>2. ASSUME NEW l \in request[r].leases
      PROVE  /\ l.observation.complete /\ l.observation.session <= rt'.epoch
             /\ l.observation.session < rt'.epoch \/ (l.id <= lastLease' /\ l.gen <= lastGen')
  <2>1. /\ l.id \in Nat /\ l.gen \in Nat /\ l.observation.session \in Nat
        /\ lastLease \in Nat /\ lastGen \in Nat /\ rt.epoch \in Nat
    BY LeasesAre
  <2>2. /\ l.observation.complete /\ l.observation.session <= rt.epoch
        /\ l.observation.session < rt.epoch \/ (l.id <= lastLease /\ l.gen <= lastGen)
    BY <1>1 DEF Known
  <2> QED BY <2>1, <2>2
<1> QED BY <1>1, <1>2 DEF Known

\* A step of the authority keeps them whole, apart and owned.
LEMMA RestKeepsLeases ==
  ASSUME Shape, LeaseInv, Owned, RequestsRest,
         \/ /\ issued' = issued /\ commits' = commits /\ published' = published
            /\ lastLease' = lastLease /\ lastGen' = lastGen
            /\ rt.epoch <= rt'.epoch /\ rt'.epoch \in Nat
         \/ /\ issued' = {} /\ commits' = commits
            /\ lastLease' = lastLease /\ (lastGen' = lastGen \/ lastGen' = lastGen + 1)
            /\ rt.epoch <= rt'.epoch /\ rt'.epoch \in Nat
         \/ issued' = {} /\ commits' = {} /\ rt'.epoch = rt.epoch + 1
  PROVE  (LeaseInv /\ Owned)'
<1>1. \A r \in Request : Known(r) /\ Whole(r)
  BY LeaseParts
<1>2. \A q, r \in Request : Apart(q, r)
  BY LeaseParts
<1>3. \A r \in Request : /\ request'[r].leases = request[r].leases
                         /\ Holds(r)' <=> Holds(r)
                         /\ Holds(r) => request'[r].phase = request[r].phase
  BY DEF RequestsRest, Holds
<1>4. \A r \in Request : Known(r)'
  <2> SUFFICES ASSUME NEW r \in Request PROVE Known(r)'
    OBVIOUS
  <2>1. CASE ~Holds(r)'
    BY <2>1 DEF Known
  <2>2. CASE Holds(r)'
    BY <1>1, <2>2, RestKeepsKnown
  <2> QED BY <2>1, <2>2
<1>5. \A r \in Request : Whole(r)'
  BY <1>1, <1>3 DEF Whole
<1>6. \A q, r \in Request : Apart(q, r)'
  BY <1>2, <1>3 DEF Apart
<1>7. LeaseInv'
  BY <1>4, <1>5, <1>6 DEF LeaseInv, Known, Whole, Apart
<1>8. Owned'
  <2>1. issued' \in {issued, {}} /\ commits' \in {commits, {}}
    OBVIOUS
  <2>2. \A r \in Request : request[r].phase = "leased" \/ request[r].phase = "committed"
          => request'[r].phase = request[r].phase /\ request'[r].leases = request[r].leases
    BY DEF RequestsRest
  <2>3. issued' = {} \/ published' = published
    OBVIOUS
  <2> QED BY <2>1, <2>2, <2>3 DEF Owned
<1> QED BY <1>7, <1>8

\* What a new acquisition gives is of the current generation and of no one else.
LEMMA AcquiringKeeps ==
  ASSUME Shape, GenerationInv, LeaseInv, Owned, NEW r \in Request, Acquiring(r)
  PROVE  (LeaseInv /\ Owned)'
<1>1. PICK new : new = NewLeases(Needs)
  OBVIOUS
<1>2. /\ published # None /\ Needs \subseteq published.admits
      /\ published.observation.session = rt.observation.session
      /\ lastLease < MaxLease /\ issued' = issued \union new /\ lastLease' = lastLease + 1
      /\ UNCHANGED <<published, lastGen, commits, rt>>
  BY <1>1 DEF Acquiring, Acquire, CanAcquire, Becomes
<1>3. /\ request'[r].phase = "leased" /\ request'[r].leases = new
      /\ \A q \in Request \ {r} : request'[q] = request[q]
  BY <1>1 DEF Acquiring, Becomes, Shape, AttemptsShape
<1>4. \A q \in Request \ {r} : (Holds(q)' <=> Holds(q))
  BY <1>3 DEF Holds
<1>5. lastLease \in Nat /\ lastGen \in Nat /\ rt.epoch \in Nat
  BY CoordinatorAssumption DEF Shape, CoordinatorTypeOK, RtShape, Rt
<1>6. PICK n : n = lastLease + 1
  OBVIOUS
<1>7. new = {[id |-> n, capability |-> c, gen |-> published.gen,
              observation |-> published.observation] : c \in Needs}
  BY <1>1, <1>6 DEF NewLeases
<1>8. /\ {l.capability : l \in new} = Needs
      /\ \A l \in new : l.id = n /\ l.gen = published.gen
                        /\ l.observation = published.observation
  <2>1. \A l \in new : /\ l.id = n /\ l.gen = published.gen
                       /\ l.observation = published.observation /\ l.capability \in Needs
    BY <1>7
  <2>2. \A c \in Needs : \E l \in new : l.capability = c
    <3>1. TAKE c \in Needs
    <3>2. PICK l : l = [id |-> n, capability |-> c, gen |-> published.gen,
                        observation |-> published.observation]
      OBVIOUS
    <3>3. l \in new /\ l.capability = c
      BY <1>7, <3>2
    <3> QED BY <3>3
  <2> QED BY <2>1, <2>2
<1>9. published.observation.complete /\ published.observation.session = rt.epoch
      /\ published.gen = lastGen
  BY <1>2, RuntimeAssumption DEF GenerationInv, Admits
<1>10. \A q \in Request : Known(q) /\ Whole(q)
  BY LeaseParts
<1>11. \A q, z \in Request : Apart(q, z)
  BY LeaseParts
<1>12. ASSUME NEW q \in Request, Holds(q)
       PROVE  request[q].leases \intersect new = {}
  <2>1. ASSUME NEW l \in request[q].leases, l \in new
        PROVE  FALSE
    <3>1. l.id \in Nat /\ l.observation.session \in Nat
      BY <2>1, LeasesAre
    <3>2. l.observation.session < rt.epoch \/ l.id <= lastLease
      BY <1>10, <1>12, <2>1 DEF Known
    <3> QED BY <1>5, <1>6, <1>8, <1>9, <2>1, <3>1, <3>2
  <2> QED BY <2>1
<1>13. ASSUME NEW q \in Request PROVE Known(q)'
  <2>1. CASE q = r
    <3>1. \A l \in new : /\ l.observation.complete /\ l.observation.session <= rt.epoch
                         /\ l.id <= lastLease' /\ l.gen <= lastGen
      BY <1>2, <1>5, <1>6, <1>8, <1>9
    <3> QED BY <1>2, <1>3, <1>8, <2>1, <3>1 DEF Known
  <2>2. CASE q # r /\ Holds(q)
    <3>1. \A l \in request[q].leases : l.id \in Nat
      BY LeasesAre
    <3>2. Known(q) /\ request'[q] = request[q]
      BY <1>3, <1>10, <2>2
    <3> QED BY <1>2, <1>5, <2>2, <3>1, <3>2 DEF Known
  <2>3. CASE q # r /\ ~Holds(q)
    BY <1>4, <2>3 DEF Known
  <2> QED BY <2>1, <2>2, <2>3
<1>14. ASSUME NEW q \in Request PROVE Whole(q)'
  <2>1. CASE q = r
    BY <1>2, <1>3, <2>1 DEF Whole
  <2>2. CASE q # r /\ Holds(q)
    BY <1>2, <1>3, <1>10, <1>12, <2>2 DEF Whole
  <2>3. CASE q # r /\ ~Holds(q)
    BY <1>4, <2>3 DEF Whole
  <2> QED BY <2>1, <2>2, <2>3
<1>15. ASSUME NEW q \in Request, NEW z \in Request PROVE Apart(q, z)'
  <2>1. CASE q # r /\ z # r
    BY <1>3, <1>4, <1>11, <2>1 DEF Apart
  <2>2. CASE q = r \/ z = r
    BY <1>3, <1>4, <1>12, <2>2 DEF Apart
  <2> QED BY <2>1, <2>2
<1>16. LeaseInv'
  BY <1>13, <1>14, <1>15 DEF LeaseInv, Known, Whole, Apart
<1>17. Owned'
  <2>1. request[r].phase = "acquire"
    BY DEF Acquiring
  <2>2. \A l \in issued' : \E q \in Request :
          request'[q].phase = "leased" /\ l \in request'[q].leases
    BY <1>2, <1>3, <2>1 DEF Owned
  <2>3. \A l \in commits' : \E q \in Request :
          request'[q].phase = "committed" /\ l \in request'[q].leases
    BY <1>2, <1>3, <2>1 DEF Owned
  <2>4. \A l \in issued' : published' # None /\ l.gen = published'.gen
    BY <1>2, <1>8 DEF Owned
  <2> QED BY <2>2, <2>3, <2>4 DEF Owned
<1> QED BY <1>16, <1>17

\* What one request commits or gives back is no one else's.
LEMMA SpendingKeeps ==
  ASSUME Shape, LeaseInv, Owned, NEW r \in Request, Committing(r) \/ Calling(r) \/ Closing(r)
  PROVE  (LeaseInv /\ Owned)'
<1> DEFINE mine == request[r].leases
<1>1. UNCHANGED <<published, lastGen, lastLease, rt>>
  BY DEF Committing, Calling, Closing, Becomes, Commit, Release, Finish, coordinatorVars
<1>2. \A q \in Request \ {r} : request'[q] = request[q]
  BY DEF Committing, Calling, Closing, Becomes, Shape, AttemptsShape
<1>3. \A q \in Request \ {r} : (Holds(q)' <=> Holds(q))
  BY <1>2 DEF Holds
<1>4. \/ /\ Committing(r) /\ mine \subseteq issued
         /\ request[r].phase = "leased" /\ request'[r].phase = "committed"
         /\ request'[r].leases = mine
         /\ issued' = issued \ mine /\ commits' = commits \union mine
      \/ /\ request[r].phase = "committed" /\ request'[r].phase = "committed"
         /\ request'[r].leases = mine /\ UNCHANGED <<issued, commits>>
      \/ /\ request'[r].phase = "done" /\ request[r].phase = "acquire"
         /\ UNCHANGED <<issued, commits>>
      \/ /\ request'[r].phase = "done" /\ request[r].phase = "leased"
         /\ UNCHANGED commits
         /\ issued' = IF mine \subseteq issued THEN issued \ mine ELSE issued
      \/ /\ request'[r].phase = "done" /\ request[r].phase = "committed"
         /\ UNCHANGED issued
         /\ commits' = IF mine \subseteq commits THEN commits \ mine ELSE commits
  BY DEF Committing, Calling, Closing, Becomes, Commit, CanCommit, Release, Finish,
         coordinatorVars, Shape, AttemptsShape
<1>5. \A q \in Request : Known(q) /\ Whole(q)
  BY LeaseParts
<1>6. \A q, z \in Request : Apart(q, z)
  BY LeaseParts
<1>7. Holds(r)' => Holds(r) /\ request'[r].leases = mine
  BY <1>4 DEF Holds
<1>8. \A q \in Request : Holds(q)' => Holds(q) /\ request'[q].leases = request[q].leases
  BY <1>2, <1>3, <1>7
<1>9. \A q \in Request \ {r} : Holds(q) /\ Holds(r) => request[q].leases \intersect mine = {}
  BY <1>6 DEF Apart
<1>10. ASSUME NEW q \in Request PROVE Known(q)'
  BY <1>1, <1>5, <1>8 DEF Known
<1>11. ASSUME NEW q \in Request, NEW z \in Request PROVE Apart(q, z)'
  BY <1>6, <1>8 DEF Apart
<1>12. ASSUME NEW q \in Request PROVE Whole(q)'
  <2>1. CASE q = r
    BY <1>4, <1>5, <2>1 DEF Whole, Holds
  <2>2. CASE q # r /\ Holds(q)
    <3>1. issued' = issued \/ (issued' = issued \ mine /\ Holds(r))
      BY <1>4 DEF Holds
    <3>2. \/ commits' = commits
          \/ Holds(r) /\ (commits' = commits \ mine \/ commits' = commits \union mine)
      BY <1>4 DEF Holds
    <3> QED BY <1>2, <1>5, <1>9, <2>2, <3>1, <3>2 DEF Whole
  <2>3. CASE q # r /\ ~Holds(q)
    BY <1>3, <2>3 DEF Whole
  <2> QED BY <2>1, <2>2, <2>3
<1>13. LeaseInv'
  BY <1>10, <1>11, <1>12 DEF LeaseInv, Known, Whole, Apart
<1>14. Owned'
  <2>1. issued' \subseteq issued
    BY <1>4
  <2>2. \A l \in issued' : \E q \in Request :
          request'[q].phase = "leased" /\ l \in request'[q].leases
    <3>1. request[r].phase = "leased" => issued' \intersect mine = {}
      BY <1>4, <1>5 DEF Whole, Holds
    <3> QED BY <1>2, <2>1, <3>1 DEF Owned
  <2>3. \A l \in commits' : \E q \in Request :
          request'[q].phase = "committed" /\ l \in request'[q].leases
    <3>1. CASE request'[r].phase = "committed"
      BY <1>2, <1>4, <3>1 DEF Owned
    <3>2. CASE request'[r].phase = "done"
      <4>1. commits' \subseteq commits
        BY <1>4, <3>2
      <4>2. request[r].phase = "committed" => commits' \intersect mine = {}
        BY <1>4, <1>5, <3>2 DEF Whole, Holds
      <4> QED BY <1>2, <4>1, <4>2 DEF Owned
    <3> QED BY <1>4, <3>1, <3>2
  <2>4. \A l \in issued' : published' # None /\ l.gen = published'.gen
    BY <1>1, <2>1 DEF Owned
  <2> QED BY <2>2, <2>3, <2>4 DEF Owned
<1> QED BY <1>13, <1>14

\* Leases, step by step.
LEMMA LeaseStep ==
  ASSUME Shape, EpochInv, GenerationInv, LeaseInv, Owned, [Next]_vars
  PROVE  (LeaseInv /\ Owned)'
<1>1. rt.epoch <= rt'.epoch /\ rt.epoch \in Nat /\ rt'.epoch \in Nat
  BY EpochGrows
<1>2. CASE RequestsRest /\ Withdrawing
  <2>1. published = None => issued = {}
    BY DEF Owned
  <2>2. issued' = {} /\ commits' = commits /\ lastLease' = lastLease /\ lastGen' = lastGen
    BY <1>2, <2>1 DEF Withdrawing
  <2> QED BY <1>1, <1>2, <2>2, RestKeepsLeases
<1>3. CASE RequestsRest /\ Keeping
  BY <1>1, <1>3, RestKeepsLeases DEF Keeping, coordinatorVars
<1>4. ASSUME RequestsRest, NEW p \in Proc, NEW o \in Observation, Publishing(p, o)
      PROVE  (LeaseInv /\ Owned)'
  <2>1. CASE Unchanged(o, Selections(o.version))
    BY <1>1, <1>4, <2>1, RestKeepsLeases DEF Publishing, coordinatorVars
  <2>2. CASE ~Unchanged(o, Selections(o.version))
    BY <1>1, <1>4, <2>2, RestKeepsLeases DEF Publishing, Reconcile
  <2> QED BY <2>1, <2>2
<1>5. CASE Configuring
  BY <1>1, <1>5, UnchangedRests, RestKeepsLeases DEF Configuring
<1>6. ASSUME NEW r \in Request, Planning(r)
      PROVE  (LeaseInv /\ Owned)'
  <2>1. \A q \in Request :
          /\ request'[q].leases = request[q].leases
          /\ \/ request'[q] = request[q]
             \/ request[q].phase = "plan" /\ request'[q].phase \in {"verifying", "acquire"}
    BY <1>6 DEF Planning, Becomes, Shape, AttemptsShape
  <2>2. UNCHANGED <<coordinatorVars, rt>>
    BY <1>6 DEF Planning, Becomes
  <2>3. LeaseInv'
    <3>1. \A q \in Request : Holds(q)' => Holds(q) /\ request'[q] = request[q]
      BY <2>1 DEF Holds
    <3>2. \A q \in Request : Known(q)' /\ Whole(q)'
      BY <2>2, <3>1, LeaseParts DEF Known, Whole, coordinatorVars
    <3>3. \A q, z \in Request : Apart(q, z)'
      BY <3>1, LeaseParts DEF Apart
    <3> QED BY <3>2, <3>3 DEF LeaseInv, Known, Whole, Apart
  <2>4. Owned'
    BY <2>1, <2>2 DEF Owned, coordinatorVars
  <2> QED BY <2>3, <2>4
<1>7. CASE \E r \in Request : RequestMoves(r)
  BY <1>6, <1>7, AcquiringKeeps, SpendingKeeps DEF RequestMoves
<1>8. CASE RequestsRest /\ AuthorityMoves
  BY <1>2, <1>3, <1>4, <1>8 DEF AuthorityMoves, Marking, Failing, Holding
<1> QED BY <1>5, <1>7, <1>8, StepIs

\* Leases have one owner each, know the generation and the session they are of,
\* and are counted as a whole or not at all.
THEOREM LeasesHold == Spec => [](LeaseInv /\ Owned)
<1>1. Init => LeaseInv /\ Owned
  BY DEF Init, CoordinatorInit, LeaseInv, Owned, Holds
<1>2. Shape /\ EpochInv /\ GenerationInv /\ (LeaseInv /\ Owned) /\ [Next]_vars
        => (LeaseInv /\ Owned)'
  BY LeaseStep
<1> QED BY <1>1, <1>2, ShapeHolds, EpochsHold, GenerationsHold, PTL DEF Spec

\* No unused lease outlives its generation, and every lease and commit that is
\* counted belongs to a request that will give it back.
THEOREM CoreLeasesHaveOwners == Spec => []LeasesHaveOwners
<1>1. Owned => LeasesHaveOwners
  BY DEF Owned, LeasesHaveOwners
<1> QED BY <1>1, LeasesHold, PTL

-----------------------------------------------------------------------------
(* Plans.                                                                  *)

\* What the plan invariant says of one request.
PassedPlan(r) ==
  /\ request[r].phase # "plan"
  /\ published # None /\ request[r].phase # "done" /\ ~Holds(r) => r \in rt.outdated
  /\ Holds(r) => \A l \in request[r].leases :
       published = None \/ l.gen # published.gen \/ l.observation # published.observation

\* Every plan that was is passed by what takes the generation away.
LEMMA WithdrawnPasses ==
  ASSUME PassedInv, RequestsRest \/ UNCHANGED request, published' = None,
         auditor'.passed = Plans
  PROVE  PassedInv'
<1>1. ASSUME NEW r \in Plans
      PROVE  request'[r].phase # "plan"
  <2>1. r \in Request /\ request[r].phase # "plan"
    BY DEF Plans
  <2> QED BY <2>1 DEF RequestsRest
<1> QED BY <1>1 DEF PassedInv

\* A plan that was passed stays so while authority stays.
LEMMA StayingKeepsPassed ==
  ASSUME Shape, PassedInv, RequestsRest, published' = published, rt'.outdated = rt.outdated,
         auditor'.passed = auditor.passed
  PROVE  PassedInv'
<1> SUFFICES ASSUME NEW r \in auditor'.passed PROVE PassedPlan(r)'
  BY DEF PassedInv, PassedPlan
<1>1. r \in auditor.passed /\ r \in Request
  BY DEF Shape, Auditor
<1>2. PassedPlan(r)
  BY <1>1 DEF PassedInv, PassedPlan
<1>3. /\ request'[r].leases = request[r].leases
      /\ \/ request'[r].phase = request[r].phase
         \/ request[r].phase = "verifying" /\ request'[r].phase = "acquire"
  BY <1>1 DEF RequestsRest
<1> QED BY <1>2, <1>3 DEF PassedPlan, Holds

\* A new generation passes every plan there was.
LEMMA PublishingPasses ==
  ASSUME Shape, EpochInv, GenerationInv, AdmissionAgrees, LeaseInv, PassedInv, RequestsRest,
         NEW p \in Proc, NEW o \in Observation, Publishing(p, o)
  PROVE  PassedInv'
<1>1. CASE Unchanged(o, Selections(o.version))
  <2>1. published' = published /\ rt'.outdated = rt.outdated
    BY <1>1 DEF Publishing, coordinatorVars
  <2>2. rt.admitted \/ Preview(o) = {}
    BY <1>1 DEF AdmissionAgrees, GenerationInv, Unchanged, Preview
  <2>3. auditor'.passed = auditor.passed
    BY <1>1, <2>2 DEF Publishing
  <2> QED BY <2>1, <2>3, StayingKeepsPassed
<1>2. CASE ~Unchanged(o, Selections(o.version))
  <2>1. rt'.outdated = Plans /\ auditor'.passed = Plans
    BY <1>2 DEF Publishing
  <2>2. /\ published'.gen = lastGen + 1 /\ published'.observation = o
    BY <1>2, PublishedIs
  <2>3. o.complete => o.session = rt.epoch
    BY FencedIsCurrent
  <2> SUFFICES ASSUME NEW r \in Plans PROVE PassedPlan(r)'
    BY <2>1 DEF PassedInv, PassedPlan
  <2>4. r \in Request /\ request[r].phase \notin {"plan", "done"}
    BY DEF Plans
  <2>5. /\ request'[r].leases = request[r].leases
        /\ \/ request'[r].phase = request[r].phase
           \/ request[r].phase = "verifying" /\ request'[r].phase = "acquire"
    BY <2>4 DEF RequestsRest
  <2>6. ASSUME Holds(r)', NEW l \in request[r].leases
        PROVE  l.gen # published'.gen \/ l.observation # published'.observation
    <3>1. Holds(r)
      BY <2>5, <2>6 DEF Holds
    <3>2. /\ l.observation.complete
          /\ l.observation.session < rt.epoch \/ l.gen <= lastGen
      BY <2>4, <3>1 DEF LeaseInv
    <3>3. l.gen \in Nat /\ l.observation.session \in Nat /\ lastGen \in Nat /\ rt.epoch \in Nat
      BY <2>4, LeasesAre
    <3> QED BY <2>2, <2>3, <3>2, <3>3
  <2> QED BY <2>1, <2>4, <2>5, <2>6 DEF PassedPlan
<1> QED BY <1>1, <1>2

\* A request whose plan was passed acquires nothing.
LEMMA RequestKeepsPassed ==
  ASSUME Shape, PassedInv, NEW r \in Request, RequestMoves(r)
  PROVE  PassedInv'
<1>1. UNCHANGED <<rt, auditor, published>>
  BY DEF RequestMoves, Planning, Acquiring, Committing, Calling, Closing, Becomes,
         Acquire, Commit, Release, Finish, coordinatorVars
<1>2. \A q \in Request \ {r} : request'[q] = request[q]
  BY DEF RequestMoves, Planning, Acquiring, Committing, Calling, Closing, Becomes,
         Shape, AttemptsShape
<1> SUFFICES ASSUME NEW q \in auditor.passed PROVE PassedPlan(q)'
  BY <1>1 DEF PassedInv, PassedPlan
<1>3. q \in Request /\ PassedPlan(q)
  BY DEF Shape, Auditor, PassedInv, PassedPlan
<1>4. CASE q # r
  BY <1>1, <1>2, <1>3, <1>4 DEF PassedPlan, Holds
<1>5. CASE q = r
  <2>1. ~Planning(r)
    BY <1>3, <1>5 DEF PassedPlan, Planning
  <2>2. ~Acquiring(r)
    BY <1>3, <1>5 DEF PassedPlan, Acquiring, Acquire, CanAcquire, PlanIsCurrent, Holds
  <2>3. CASE Committing(r) \/ Calling(r)
    <3>1. Holds(r) /\ request'[r].leases = request[r].leases /\ request'[r].phase = "committed"
      BY <2>3 DEF Committing, Calling, Becomes, Holds, Shape, AttemptsShape
    <3> QED BY <1>1, <1>3, <1>5, <3>1 DEF PassedPlan, Holds
  <2>4. CASE Closing(r)
    <3>1. request'[r].phase = "done"
      BY <2>4 DEF Closing, Becomes, Shape, AttemptsShape
    <3> QED BY <1>5, <3>1 DEF PassedPlan, Holds
  <2> QED BY <2>1, <2>2, <2>3, <2>4 DEF RequestMoves
<1> QED BY <1>4, <1>5

\* Plans, step by step.
LEMMA PassedStep ==
  ASSUME Shape, EpochInv, GenerationInv, AdmissionAgrees, LeaseInv, PassedInv, [Next]_vars
  PROVE  PassedInv'
<1>1. CASE RequestsRest /\ Withdrawing
  BY <1>1, WithdrawnPasses DEF Withdrawing
<1>2. CASE RequestsRest /\ Keeping
  BY <1>2, StayingKeepsPassed DEF Keeping, coordinatorVars, SameAuthority
<1>3. ASSUME RequestsRest, NEW p \in Proc, NEW o \in Observation, Publishing(p, o)
      PROVE  PassedInv'
  BY <1>3, PublishingPasses
<1>4. CASE Configuring
  BY <1>4, WithdrawnPasses DEF Configuring
<1>5. CASE \E r \in Request : RequestMoves(r)
  BY <1>5, RequestKeepsPassed
<1>6. CASE RequestsRest /\ AuthorityMoves
  BY <1>1, <1>2, <1>3, <1>6 DEF AuthorityMoves, Marking, Failing, Holding
<1> QED BY <1>4, <1>5, <1>6, StepIs

\* A plan that a change of authority passed acquires nothing more, and what it
\* holds is of another generation.
THEOREM PassedHolds == Spec => []PassedInv
<1>1. Init => PassedInv
  BY DEF Init, PassedInv
<1>2. /\ Shape /\ EpochInv /\ GenerationInv /\ AdmissionAgrees /\ (LeaseInv /\ Owned)
      /\ PassedInv /\ [Next]_vars
      => PassedInv'
  BY PassedStep
<1> QED BY <1>1, <1>2, ShapeHolds, EpochsHold, GenerationsHold, CoreAdmissionAgrees,
           LeasesHold, PTL DEF Spec

\* What a call is made with.
LEMMA CallIsCovered ==
  ASSUME Shape, GenerationInv, LeaseInv, PassedInv, NEW r \in Request, Calling(r)
  PROVE  /\ r \notin auditor.passed
         /\ published # None /\ Needs \subseteq published.admits
         /\ RegistryEnabled =>
              Needs \subseteq world.selected[published.observation.version]
<1>1. Holds(r)
  BY DEF Calling, Holds
<1>2. {l.capability : l \in request[r].leases} = Needs
  BY <1>1 DEF LeaseInv
<1>3. PICK l : l \in request[r].leases
  BY <1>2, RuntimeAssumption
<1>4. /\ published # None
      /\ \A k \in request[r].leases :
           /\ k.capability \in published.admits /\ k.gen = published.gen
           /\ k.observation = published.observation
  BY <1>3 DEF Calling, ValidCommits, Current
<1>5. r \notin auditor.passed
  BY <1>1, <1>3, <1>4 DEF PassedInv
<1>6. Needs \subseteq published.admits
  BY <1>2, <1>4
<1>7. ASSUME RegistryEnabled
      PROVE  Needs \subseteq world.selected[published.observation.version]
  <2>1. published \in Generation /\ published.authority \in Authority
    BY <1>4 DEF Shape, CoordinatorTypeOK, Generation
  <2>2. published.admits \subseteq published.authority
    BY <1>4 DEF GenerationInv, Admits
  <2>3. published.observation.version # None
    BY <1>4, <1>6, <2>2, RuntimeAssumption DEF GenerationInv
  <2>4. rt.token = published.authority /\ rt.observation = published.observation
    BY <1>4, <1>7, <2>3 DEF GenerationInv
  <2>5. rt.token # None
    BY <2>1, <2>4, RuntimeAssumption
  <2>6. world.selected[rt.observation.version] = rt.token
    BY <1>7, <2>5 DEF Calling, RegistryMoved
  <2> QED BY <1>6, <2>2, <2>4, <2>6
<1> QED BY <1>4, <1>5, <1>6, <1>7

\* A provider is called only while no authority changed since the request's plan,
\* and what the call needs is admitted and still selected for its version.
THEOREM CoreCallsUnderOnePlan == Spec => CallsUnderOnePlan
<1>1. ASSUME Shape, GenerationInv, LeaseInv, PassedInv, [Next]_vars
      PROVE  [\A r \in Request : request'[r].calls > request[r].calls =>
                /\ r \notin auditor.passed
                /\ published # None /\ Needs \subseteq published.admits
                /\ RegistryEnabled =>
                     Needs \subseteq world.selected[published.observation.version]]_vars
  <2> SUFFICES ASSUME NEW r \in Request, request'[r].calls > request[r].calls
               PROVE  /\ r \notin auditor.passed
                      /\ published # None /\ Needs \subseteq published.admits
                      /\ RegistryEnabled =>
                           Needs \subseteq world.selected[published.observation.version]
    OBVIOUS
  <2>1. request[r].calls \in Nat
    BY <1>1 DEF Shape, AttemptsShape, RequestState
  <2>2. ~RequestsRest /\ ~Configuring
    BY <2>1 DEF RequestsRest, Configuring
  <2>3. PICK q \in Request : RequestMoves(q)
    BY <1>1, <2>2, StepIs
  <2>4. q = r
    BY <1>1, <2>1, <2>3
    DEF RequestMoves, Planning, Acquiring, Committing, Calling, Closing, Becomes,
        Shape, AttemptsShape
  <2>5. Calling(r)
    BY <1>1, <2>1, <2>3, <2>4
    DEF RequestMoves, Planning, Acquiring, Committing, Closing, Becomes,
        Shape, AttemptsShape
  <2> QED BY <1>1, <2>5, CallIsCovered
<1> QED BY <1>1, ShapeHolds, GenerationsHold, LeasesHold, PassedHolds, PTL
        DEF Spec, CallsUnderOnePlan

-----------------------------------------------------------------------------
(* The restoration gate.                                                   *)

\* The runtime's count, and the auditor's.
Counts == rt.confirms > 0 =>
            rt.key # None /\ auditor.key = rt.key /\ auditor.run >= rt.confirms
Exempted(p) ==
  /\ p \in Worker /\ attempt[p].pc \notin {"idle", "superseded"} =>
       attempt[p].boot \/ rt.bootSpent
  /\ attempt[p].pc \notin Parked => attempt[p].boot \/ rt.bootSpent

\* Once spent, the boot exemption stays so.
LEMMA SpentStays ==
  ASSUME Shape, [Next]_vars, rt.bootSpent
  PROVE  rt'.bootSpent
<1>1. CASE \E r \in Request : RequestMoves(r)
  BY <1>1
  DEF RequestMoves, Planning, Acquiring, Committing, Calling, Closing, Becomes
<1>2. CASE AuthorityMoves
  BY <1>2
  DEF AuthorityMoves, Withdrawing, Marking, Failing, Holding, Keeping, Publishing
<1> QED BY <1>1, <1>2, StepIs DEF Configuring

\* An attempt has the exemption or finds it spent.
LEMMA ExemptedStep ==
  ASSUME Shape, \A p \in Proc : Exempted(p), [Next]_vars
  PROVE  \A p \in Proc : Exempted(p)'
<1> SUFFICES ASSUME NEW p \in Proc PROVE Exempted(p)'
  OBVIOUS
<1>1. Exempted(p) /\ Goes(p) /\ (rt.bootSpent => rt'.bootSpent)
  BY AttemptsGo, SpentStays
<1>2. CASE attempt'[p] = attempt[p] \/ attempt'[p].pc \in {"idle", "superseded"}
  BY <1>1, <1>2 DEF Exempted, Parked
<1>3. CASE Begins(p, attempt[p], attempt'[p])
  BY <1>1, <1>3 DEF Exempted, Begins, Parked
<1>4. CASE Advances(p, attempt[p], attempt'[p])
  <2>1. attempt[p].pc = "lock" \/ attempt[p].pc \notin Parked
    BY <1>4 DEF Advances, Parked
  <2>2. attempt'[p].boot = attempt[p].boot
    BY <1>4 DEF Advances
  <2>3. CASE attempt[p].pc \notin Parked
    BY <1>1, <2>2, <2>3 DEF Exempted
  <2>4. CASE attempt[p].pc = "lock"
    BY <1>1, <1>4, <2>2, <2>4 DEF Exempted, Advances, Seen, Parked
  <2> QED BY <2>1, <2>3, <2>4
<1> QED BY <1>1, <1>2, <1>3, <1>4 DEF Goes

\* The count that the gate asks for, exactly.
LEMMA GatedCount ==
  ASSUME Shape, NEW p \in Proc, attempt[p].pc = "publish",
         NEW o, o = attempt[p].observation, Gated(p), Preview(o) # {},
         NEW c, c = Counted(p)
  PROVE  /\ Background(p) =>
              /\ c.key = Key(o)
              /\ \/ c.confirms = 1
                 \/ c.confirms = rt.confirms + 1 /\ rt.key \in {None, Key(o)}
         /\ ~Background(p) =>
              \/ c.confirms = 0
              \/ c.confirms = rt.confirms /\ c.key = rt.key /\ rt.key \in {None, Key(o)}
<1>1. PICK k : k = Key(o)
  OBVIOUS
<1>2. o.complete
  BY DEF Preview, Admits
<1>3. PICK kept : kept = IF rt.key # None /\ rt.key # k THEN ResetCount(rt) ELSE rt
  OBVIOUS
<1>4. c = IF Background(p) THEN [kept EXCEPT !.key = k, !.confirms = @ + 1] ELSE kept
  BY <1>1, <1>2, <1>3 DEF Counted
<1>5. kept \in Rt /\ kept.confirms \in Nat
      /\ (kept.confirms = 0 \/ (kept = rt /\ rt.key \in {None, k}))
  <2>1. rt \in Rt
    BY DEF Shape, RtShape
  <2>2. CASE rt.key # None /\ rt.key # k
    BY <1>3, <2>1, <2>2, ResetCountDoes DEF Rt
  <2>3. CASE ~(rt.key # None /\ rt.key # k)
    BY <1>3, <2>1, <2>3 DEF Rt
  <2> QED BY <2>2, <2>3
<1>6. CASE Background(p)
  <2>1. PICK n : n = kept.confirms + 1
    OBVIOUS
  <2>2. c = [kept EXCEPT !.key = k, !.confirms = n]
    BY <1>4, <1>6, <2>1
  <2>3. c.key = k /\ c.confirms = n
    BY <1>5, <2>2 DEF Rt
  <2> QED BY <1>1, <1>5, <1>6, <2>1, <2>3
<1>7. CASE ~Background(p)
  BY <1>1, <1>4, <1>5, <1>7
<1> QED BY <1>6, <1>7

\* The auditor counts what the gate counts.
LEMMA ConfirmedCounts ==
  ASSUME Shape, Counts, NEW p \in Proc, attempt[p].pc = "publish",
         NEW o, o = attempt[p].observation, Gated(p), Preview(o) # {},
         NEW c, c = Counted(p), c.confirms > 0, c.confirms <= FlapConfirmations,
         Confirmed(p)
  PROVE  c.key # None /\ auditor'.key = c.key /\ auditor'.run >= c.confirms
<1>1. PICK k : k = Key(o)
  OBVIOUS
<1>2. o \in Observation /\ world \in World /\ rt \in Rt /\ rt.confirms < rt.required
  BY DEF Shape, RtShape, AttemptsShape, WellFormed, Seen
<1>3. k # None
  BY <1>1, <1>2, KeyIs
<1>4. rt.confirms \in Nat /\ FlapConfirmations \in Nat /\ auditor.run \in Nat
  BY <1>2, RuntimeAssumption DEF Rt, Shape, Auditor
<1>5. /\ auditor'.run = IF ~Background(p) THEN IF k = auditor.key THEN auditor.run ELSE 0
                        ELSE IF k # auditor.key THEN 1
                        ELSE IF auditor.run < FlapConfirmations THEN auditor.run + 1
                        ELSE auditor.run
      /\ auditor'.key = IF Background(p) \/ k = auditor.key THEN k ELSE None
  BY <1>1 DEF Confirmed
<1>6. CASE Background(p)
  <2>1. /\ c.key = k
        /\ \/ c.confirms = 1
           \/ c.confirms = rt.confirms + 1 /\ rt.key \in {None, k}
    BY <1>1, <1>6, GatedCount
  <2>2. c.confirms = 1 \/ (rt.confirms > 0 /\ rt.key = k /\ c.confirms = rt.confirms + 1)
    BY <1>4, <2>1 DEF Counts
  <2>3. CASE c.confirms = 1
    BY <1>3, <1>4, <1>5, <1>6, <2>1, <2>3
  <2>4. CASE rt.confirms > 0 /\ rt.key = k /\ c.confirms = rt.confirms + 1
    <3>1. auditor.key = k /\ auditor.run >= rt.confirms
      BY <2>4 DEF Counts
    <3> QED BY <1>3, <1>4, <1>5, <1>6, <2>1, <2>4, <3>1
  <2> QED BY <2>2, <2>3, <2>4
<1>7. CASE ~Background(p)
  <2>1. c.confirms = rt.confirms /\ c.key = rt.key /\ rt.key \in {None, k}
    BY <1>1, <1>4, <1>7, GatedCount
  <2>2. rt.key # None /\ auditor.key = rt.key /\ auditor.run >= rt.confirms
    BY <2>1 DEF Counts
  <2> QED BY <1>5, <1>7, <2>1, <2>2
<1> QED BY <1>6, <1>7

\* What a held back verification counts, the auditor counts.
LEMMA HoldingCounts ==
  ASSUME Shape, Counts, NEW p \in Proc, Holding(p)
  PROVE  Counts'
<1>1. PICK o, c : o = attempt[p].observation /\ c = Counted(p)
  OBVIOUS
<1>2. /\ attempt[p].pc = "publish" /\ HeldBack(p) /\ rt' = Ended(p, c) /\ Confirmed(p)
  BY <1>1 DEF Holding
<1>3. /\ o \in Observation /\ world \in World /\ rt \in Rt /\ rt.confirms < rt.required
  BY <1>1, <1>2 DEF Shape, RtShape, AttemptsShape, WellFormed, Seen
<1>4. c \in Rt /\ c.required = rt.required /\ (Background(p) \/ c.confirms < c.required)
  BY <1>1, <1>3, CountedDoes
<1>5. Gated(p) /\ Preview(o) # {} /\ c.confirms < c.required
  BY <1>1, <1>2, <1>4 DEF HeldBack
<1>6. c.confirms \in Nat /\ c.confirms <= FlapConfirmations
  BY <1>4, <1>5, RuntimeAssumption DEF Rt
<1>7. rt'.confirms = c.confirms /\ rt'.key = c.key
  BY <1>2, <1>4, EndedDoes
<1>8. c.confirms > 0 => c.key # None /\ auditor'.key = c.key /\ auditor'.run >= c.confirms
  BY <1>1, <1>2, <1>5, <1>6, ConfirmedCounts
<1> QED BY <1>7, <1>8 DEF Counts

\* A verification that the gate held back spent the exemption before.
LEMMA HoldingSpent ==
  ASSUME \A p \in Proc : Exempted(p), NEW p \in Proc, attempt[p].pc = "publish", Gated(p)
  PROVE  rt.bootSpent
BY DEF Exempted, Gated, Claims, Parked

\* The gate, step by step.
LEMMA GateStep ==
  ASSUME Shape, GenerationInv, GateInv, [Next]_vars
  PROVE  GateInv'
<1>1. /\ auditor.settled => rt.bootSpent
      /\ \A p \in Proc : Exempted(p)
      /\ Counts
  BY DEF GateInv, Exempted, Counts
<1>2. \A p \in Proc : Exempted(p)'
  BY <1>1, ExemptedStep
<1>3. rt.bootSpent => rt'.bootSpent
  BY SpentStays
<1>4. (auditor'.settled => rt'.bootSpent) /\ Counts'
  <2>1. CASE Withdrawing
    BY <1>1, <1>3, <2>1 DEF Withdrawing, Counts
  <2>2. CASE Marking
    BY <1>1, <1>3, <2>2 DEF Marking, Counts
  <2>3. CASE Failing
    BY <2>3 DEF Failing, Counts
  <2>4. ASSUME NEW p \in Proc, Holding(p)
        PROVE  (auditor'.settled => rt'.bootSpent) /\ Counts'
    <3>1. rt.bootSpent
      BY <1>1, <2>4, HoldingSpent DEF Holding, HeldBack
    <3> QED BY <1>1, <1>3, <2>4, <3>1, HoldingCounts
  <2>5. ASSUME NEW p \in Proc, NEW o \in Observation, Publishing(p, o)
        PROVE  (auditor'.settled => rt'.bootSpent) /\ Counts'
    BY <2>5 DEF Publishing, Counts
  <2>6. CASE Configuring
    BY <1>1, <1>3, <2>6 DEF Configuring, Counts, GenerationInv
  <2>7. CASE \E r \in Request : RequestMoves(r)
    BY <1>1, <2>7
    DEF RequestMoves, Planning, Acquiring, Committing, Calling, Closing, Becomes, Counts
  <2> QED BY <2>1, <2>2, <2>3, <2>4, <2>5, <2>6, <2>7, StepIs DEF AuthorityMoves
<1> QED BY <1>2, <1>4 DEF GateInv, Exempted, Counts

\* What was settled spent the boot exemption, and the runtime never counts more
\* confirmations than there were.
THEOREM GateHolds == Spec => []GateInv
<1>1. Init => GateInv
  BY DEF Init, GateInv, NoAttempt, Parked
<1>2. Shape /\ GenerationInv /\ GateInv /\ [Next]_vars => GateInv'
  BY GateStep
<1> QED BY <1>1, <1>2, ShapeHolds, GenerationsHold, PTL DEF Spec

\* Authority that was lost is admitted again only after the required number of
\* supervisor-paced verifications in a row that saw the same, unless nothing was
\* ever settled before: the first boot.
THEOREM CoreRestorationGated == Spec => RestorationGated
<1>1. ASSUME Shape, GateInv, [Next]_vars
      PROVE  [~rt.admitted /\ rt'.admitted =>
                ~auditor.settled \/ auditor'.run >= rt.required]_vars
  <2> SUFFICES ASSUME ~rt.admitted, rt'.admitted, auditor.settled
               PROVE  auditor'.run >= rt.required
    OBVIOUS
  <2>1. Counts /\ rt.bootSpent
    BY <1>1 DEF GateInv, Counts
  <2>2. PICK p \in Proc, o \in Observation : Publishing(p, o)
    <3>1. ~(\E r \in Request : RequestMoves(r))
      BY DEF RequestMoves, Planning, Acquiring, Committing, Calling, Closing, Becomes
    <3>2. AuthorityMoves
      BY <1>1, <3>1, StepIs DEF Configuring
    <3> QED BY <3>2
            DEF AuthorityMoves, Withdrawing, Marking, Failing, Holding, Keeping, SameAuthority
  <2>3. /\ attempt[p].pc = "publish" /\ o = attempt[p].observation
        /\ Preview(o) # {} /\ Exempt(p) /\ ~HeldBack(p) /\ Confirmed(p)
    BY <2>2 DEF Publishing
  <2>4. Gated(p)
    BY <2>1, <2>3 DEF Exempt, Gated
  <2>5. PICK c : c = Counted(p)
    OBVIOUS
  <2>6. Background(p) /\ ~(c.confirms < rt.required)
    BY <2>3, <2>4, <2>5 DEF HeldBack
  <2>7. /\ rt \in Rt /\ rt.confirms < rt.required /\ world \in World
        /\ attempt[p].observation \in Observation
    BY <1>1, <2>3 DEF Shape, RtShape, AttemptsShape, WellFormed, Seen
  <2>8. c \in Rt /\ c.confirms <= rt.confirms + 1
    BY <2>5, <2>7, CountedDoes
  <2>9. /\ c.confirms \in Nat /\ rt.confirms \in Nat /\ rt.required \in Nat
        /\ rt.required > 0 /\ rt.required <= FlapConfirmations
    BY <2>7, <2>8, RuntimeAssumption DEF Rt
  <2>10. c.confirms = rt.required
    BY <2>6, <2>7, <2>8, <2>9
  <2>11. auditor'.run >= c.confirms
    BY <1>1, <2>1, <2>3, <2>4, <2>5, <2>9, <2>10, ConfirmedCounts
  <2> QED BY <2>10, <2>11
<1> QED BY <1>1, ShapeHolds, GateHolds, PTL DEF Spec, RestorationGated
====
