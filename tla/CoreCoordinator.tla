--------------------------- MODULE CoreCoordinator ---------------------------
(***************************************************************************)
(* CoreReadmissionCoordinator (ha_core_readmission/coordinator.py): one    *)
(* published decision generation, the single-use leases issued under it    *)
(* and the dispatch commits made from them.  Every operation runs under    *)
(* the coordinator's lock and is one step.  Targets, adapters and profiles *)
(* of a lease are left out: a lease is compared whole.                     *)
(***************************************************************************)
EXTENDS Integers, FiniteSets

CONSTANTS
  Capability, Version,
  None,                   \* no generation, version, token, plan or cutoff
  MaxIssued, MaxCommits,  \* MAX_ISSUED_LEASES, MAX_ACTIVE_COMMITS
  MaxSession,             \* bound: observer sessions
  MaxGeneration, MaxLease \* bounds: generations and acquisitions

\* The sessions of successful probes are 1, 2, ...; a failed one has its own.
Observation ==
  [version : Version \union {None}, session : 0..MaxSession, complete : BOOLEAN,
   evidence : SUBSET Capability]
\* The capabilities that positive authority selects for the observed version.
Authority == SUBSET Capability

\* _evaluate: a capability is admitted when the observation as a whole is
\* complete, its evidence matches its contract and authority selects it.
Admits(o, a) == IF o.complete THEN o.evidence \intersect a ELSE {}

Generation ==
  [gen : 1..MaxGeneration, observation : Observation, authority : Authority,
   admits : SUBSET Capability]
Lease ==
  [id : 1..MaxLease, capability : Capability, gen : 1..MaxGeneration,
   observation : Observation]

ASSUME CoordinatorAssumption ==
  /\ MaxIssued \in Nat \ {0} /\ MaxCommits \in Nat \ {0}
  /\ MaxGeneration \in Nat \ {0} /\ MaxLease \in Nat \ {0} /\ MaxSession \in Nat \ {0}
  /\ None \notin Version /\ \A g \in Generation : g # None

VARIABLES
  published,   \* _published with its material fingerprint, or None
  lastGen,     \* the allocator's value
  issued,      \* _issued_leases
  commits,     \* _active_commits
  lastLease    \* _lease_counter, one per acquired set
coordinatorVars == <<published, lastGen, issued, commits, lastLease>>

CoordinatorInit ==
  /\ published = None
  /\ lastGen = 0
  /\ issued = {}
  /\ commits = {}
  /\ lastLease = 0

\* The reconciliation material is the one already published.
Unchanged(o, a) ==
  /\ published # None
  /\ published.observation = o
  /\ published.authority = a

\* begin_reconciliation and complete_reconciliation, which reconcile calls
\* back to back: the same material is idempotent, anything else retires the
\* prior generation with its unused leases and publishes a new one.
Reconcile(o, a) ==
  /\ ~Unchanged(o, a)
  /\ lastGen < MaxGeneration
  /\ lastGen' = lastGen + 1
  /\ published' = [gen |-> lastGen + 1, observation |-> o, authority |-> a,
                   admits |-> Admits(o, a)]
  /\ issued' = {}
  /\ UNCHANGED <<commits, lastLease>>

\* Mutant: retirement leaves the unused leases issued.
RetireKeepingLeases ==
  /\ published # None
  /\ published' = None
  /\ UNCHANGED <<lastGen, issued, commits, lastLease>>
\* _retire_locked: committed dispatches stay active, unused leases go.
Retire ==
  /\ published # None
  /\ published' = None
  /\ issued' = {}
  /\ UNCHANGED <<lastGen, commits, lastLease>>

\* acquire_routes can issue the whole ordered set of leases.
CanAcquire(C, session) ==
  /\ published # None
  /\ C \subseteq published.admits
  /\ published.observation.session = session
  /\ Cardinality(issued) + Cardinality(C) <= MaxIssued
\* The leases of one acquisition share its number: a lease is named by the
\* number and its capability.  Numbers a refused acquisition burns in the
\* counter are left out, since a lease number only has to be fresh.
NewLeases(C) ==
  {[id |-> lastLease + 1, capability |-> c, gen |-> published.gen,
    observation |-> published.observation] : c \in C}

Acquire(C, session) ==
  /\ C # {}
  /\ CanAcquire(C, session)
  /\ lastLease < MaxLease
  /\ issued' = issued \union NewLeases(C)
  /\ lastLease' = lastLease + 1
  /\ UNCHANGED <<published, lastGen, commits>>

\* _valid_lease_locked, and the same comparison in validate_commits.
Current(lease, o) ==
  /\ published # None
  /\ lease.capability \in published.admits
  /\ lease.gen = published.gen
  /\ o = published.observation
  /\ lease.observation = published.observation

CanCommit(leases, o) ==
  /\ leases # {}
  /\ \A l \in leases : l \in issued /\ Current(l, o)
  /\ Cardinality(commits) + Cardinality(leases) <= MaxCommits

\* commit_routes: the whole set is consumed, or none of it.
Commit(leases, o) ==
  /\ CanCommit(leases, o)
  /\ issued' = issued \ leases
  /\ commits' = commits \union leases
  /\ UNCHANGED <<published, lastGen, lastLease>>

ValidCommits(leases, o) ==
  /\ leases # {}
  /\ \A l \in leases : l \in commits /\ Current(l, o)

\* release_routes: refused when a lease of the set is no longer issued.
Release(leases) ==
  /\ issued' = IF leases \subseteq issued THEN issued \ leases ELSE issued
  /\ UNCHANGED <<published, lastGen, commits, lastLease>>

Finish(leases) ==
  /\ commits' = IF leases \subseteq commits THEN commits \ leases ELSE commits
  /\ UNCHANGED <<published, lastGen, issued, lastLease>>

CoordinatorTypeOK ==
  /\ published \in Generation \union {None}
  /\ lastGen \in 0..MaxGeneration
  /\ issued \in SUBSET Lease
  /\ commits \in SUBSET Lease
  /\ lastLease \in 0..MaxLease
=============================================================================
