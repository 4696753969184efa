--------------------------- MODULE DurableLockStore --------------------------
(***************************************************************************)
(* The durable lock store: class DurableLockStore of f3/locks.py, with the *)
(* selective promotion that the fan and the runtime stores call.  Every    *)
(* public operation is one transaction (_transact: flock, read, mutate,    *)
(* write), so every operation is one action here; a refusal raises before  *)
(* the write and leaves the store as it was, so the action is not enabled. *)
(*                                                                         *)
(* Time is discrete.  A lease is stored as the ticks it has left: a record *)
(* is expired exactly when its lease is 0.                                 *)
(*                                                                         *)
(* A LockOwner is (owner_id, task, plan, operation, attempt).  Operation   *)
(* and attempt are fixed by the task's execution record, so an owner here  *)
(* is an element of Owner that has a task, and a task has a plan.          *)
(***************************************************************************)
EXTENDS Integers, FiniteSets

CONSTANTS
  Key,            \* lock keys
  Rank,           \* the byte order of the keys: an injection from Key to Nat
  Owner,          \* LockOwner identities
  Task, TaskOf,   \* the task of an owner
  Plan, PlanOf,   \* the plan of a task
  LeaseTicks,     \* LockTiming.lease_seconds
  MaxGeneration   \* bound: fencing generations a behaviour may issue

Mode == {"shared", "exclusive"}
LockRequest == [key : Key, mode : Mode]

ASSUME KeyAssumption ==
  /\ IsFiniteSet(Key)
  /\ Rank \in [Key -> Nat]
  /\ \A j, k \in Key : Rank[j] = Rank[k] => j = k
ASSUME OwnerAssumption ==
  /\ TaskOf \in [Owner -> Task]
  /\ PlanOf \in [Task -> Plan]
ASSUME BoundAssumption ==
  /\ LeaseTicks \in Nat \ {0}
  /\ MaxGeneration \in Nat

VARIABLES
  records,         \* the LockRecords in the state file
  nextGeneration   \* next_generation in the state file

storeVars == <<records, nextGeneration>>

LockToken == [key : Key, generation : Nat, mode : Mode]
LockHandle == [owner : Owner, tokens : SUBSET LockToken]

\* renewed : last_renewed_at is later than acquired_at.
\* amended : a reason code was added to the evidence of the acquisition.
LockRecord == [key : Key, mode : Mode, owner : Owner, generation : Nat,
               lease : 0..LeaseTicks, renewed : BOOLEAN, amended : BOOLEAN,
               hold : BOOLEAN]

-----------------------------------------------------------------------------
(* Reading the state.                                                      *)

\* Duplicate requests merge; one exclusive request makes its key exclusive.
NormalizeLockRequests(requests) ==
  [k \in {r.key : r \in requests} |->
     IF [key |-> k, mode |-> "exclusive"] \in requests THEN "exclusive"
                                                       ELSE "shared"]

Active(r) == r.hold \/ r.lease > 0
HeldBy(o) == {r \in records : r.owner = o}
RecordsOn(k) == {r \in records : r.key = k}
TokenOf(r) == [key |-> r.key, generation |-> r.generation, mode |-> r.mode]
HandleOf(o, R) == [owner |-> o, tokens |-> {TokenOf(r) : r \in R}]

\* Mutants of HolderBlocks: an exclusive request ignores shared holders, an
\* expired lease frees its key, a conflict hold does not block readers.
SharedNeverBlocks(holder, mode) ==
  holder.hold \/ holder.mode = "exclusive" \/ ~Active(holder)
ExpiryFrees(holder, mode) ==
  holder.hold \/ (Active(holder) /\ (mode = "exclusive" \/ holder.mode = "exclusive"))
HoldAdmitsReaders(holder, mode) ==
  mode = "exclusive" \/ holder.mode = "exclusive" \/ ~Active(holder)

\* The one acquisition predicate: an expired lease still blocks.
HolderBlocks(holder, mode) ==
  \/ holder.hold
  \/ mode = "exclusive"
  \/ holder.mode = "exclusive"
  \/ ~Active(holder)

\* Mutant of Matches: the fencing generation is not compared.
MatchesKey(token) == RecordsOn(token.key)

Matches(token) ==
  {r \in records : r.key = token.key /\ r.generation = token.generation}

\* The fencing check every operation on a handle starts with.
OwnsAll(o, tokens) ==
  \A t \in tokens : \E r \in records : Matches(t) = {r} /\ r.owner = o
Selected(tokens) == UNION {Matches(t) : t \in tokens}

\* R holds exactly what the normalized requests ask for, reasons included.
MeetsContract(R, wanted) ==
  /\ {r.key : r \in R} = DOMAIN wanted
  /\ \A r \in R : r.mode = wanted[r.key] /\ ~r.amended

\* Fresh generations are consecutive in the byte order of the keys.
Position(k, S) == Cardinality({j \in S : Rank[j] < Rank[k]})
\* (Mutant: one generation for the whole set.)
GenerationPerCall(k, S) == nextGeneration
FreshGeneration(k, S) == nextGeneration + Position(k, S)
MayIssue(S) == nextGeneration + Cardinality(S) <= MaxGeneration + 1

NewRecord(k, mode, o, generation) ==
  [key |-> k, mode |-> mode, owner |-> o, generation |-> generation,
   lease |-> LeaseTicks, renewed |-> FALSE, amended |-> FALSE, hold |-> FALSE]

\* What a transaction may do to a record it keeps.  (Mutant of Renewed: the new
\* lease counts from the end of the old one, not from now.)
RenewedOnTop(r) == [r EXCEPT !.lease = @ + LeaseTicks, !.renewed = TRUE]
Renewed(r) == [r EXCEPT !.lease = LeaseTicks, !.renewed = TRUE]
Held(r) == [r EXCEPT !.hold = TRUE, !.amended = TRUE]
Aged(r) == [r EXCEPT !.lease = IF @ > 0 THEN @ - 1 ELSE 0]
\* A recovered record passes to o among the records of keys S.
Recovered(r, o, S) ==
  [NewRecord(r.key, r.mode, o, FreshGeneration(r.key, S)) EXCEPT !.amended = TRUE]

-----------------------------------------------------------------------------
StoreInit ==
  /\ records = {}
  /\ nextGeneration = 1

\* acquire_once for an owner without records: all keys of the set or none.
AcquireOnce(o, requests) ==
  LET wanted == NormalizeLockRequests(requests)
      S == DOMAIN wanted
      new == {NewRecord(k, wanted[k], o, FreshGeneration(k, S)) : k \in S}
  IN /\ HeldBy(o) = {}
     /\ \A k \in S : \A holder \in RecordsOn(k) : ~HolderBlocks(holder, wanted[k])
     /\ MayIssue(S)
     /\ records' = records \union new
     /\ nextGeneration' = nextGeneration + Cardinality(S)

\* acquire_once for an owner that already holds exactly this live set.
AcquireAgain(o, requests) ==
  /\ HeldBy(o) # {}
  /\ MeetsContract(HeldBy(o), NormalizeLockRequests(requests))
  /\ \A r \in HeldBy(o) : Active(r)
  /\ UNCHANGED storeVars

\* transfer_complete: a successor task of the same plan takes the whole live
\* set of its predecessor under fresh generations.
TransferComplete(predecessor, o, requests) ==
  LET old == HeldBy(predecessor.owner)
      S == {r.key : r \in old}
      new == {NewRecord(r.key, r.mode, o, FreshGeneration(r.key, S)) : r \in old}
  IN /\ TaskOf[o] # TaskOf[predecessor.owner]
     /\ PlanOf[TaskOf[o]] = PlanOf[TaskOf[predecessor.owner]]
     /\ old # {}
     /\ HandleOf(predecessor.owner, old) = predecessor
     /\ MeetsContract(old, NormalizeLockRequests(requests))
     /\ HeldBy(o) = {}
     /\ \A r \in old :
          /\ ~r.hold
          /\ r.lease > 0
          /\ \A other \in RecordsOn(r.key) \ old : ~HolderBlocks(other, r.mode)
     /\ MayIssue(S)
     /\ records' = (records \ old) \union new
     /\ nextGeneration' = nextGeneration + Cardinality(S)

\* renew: every token, or none.
Renew(h) ==
  LET mine == Selected(h.tokens)
  IN /\ OwnsAll(h.owner, h.tokens)
     /\ \A r \in mine : ~r.hold /\ r.lease > 0
     /\ records' = (records \ mine) \union {Renewed(r) : r \in mine}
     /\ UNCHANGED nextGeneration

\* release: exact ownership is enough, expired or held; the pre-dispatch
\* cleanup variant refuses a hold.
Release(h, preDispatchCleanup) ==
  LET mine == Selected(h.tokens)
  IN /\ OwnsAll(h.owner, h.tokens)
     /\ preDispatchCleanup => \A r \in mine : ~r.hold
     /\ records' = records \ mine
     /\ UNCHANGED nextGeneration

\* settle_unrecorded: an acquisition its caller died before recording.  The
\* tokens are persisted first (persisted), then the records removed (removed);
\* process loss between the two leaves the records with their tokens known.
SettleUnrecorded(o, requests, removed) ==
  LET mine == {r \in records : TaskOf[r.owner] = TaskOf[o]}
      S == {r.key : r \in mine}
  IN /\ mine # {}
     /\ \A r \in mine : r.owner = o /\ ~r.hold /\ r.lease = 0 /\ ~r.renewed
     /\ \E first \in {r.generation : r \in mine} :
          \A r \in mine : r.generation = first + Position(r.key, S)
     /\ MeetsContract(mine, NormalizeLockRequests(requests))
     /\ records' = IF removed THEN records \ mine ELSE records
     /\ UNCHANGED nextGeneration

\* promote_selective_conflict_hold; promote_to_conflict_hold retains all keys.
PromoteConflictHold(h, retained) ==
  LET mine == Selected(h.tokens)
  IN /\ retained # {} /\ retained \subseteq {t.key : t \in h.tokens}
     /\ OwnsAll(h.owner, h.tokens)
     /\ records' = (records \ mine) \union
          {Held(r) : r \in {m \in mine : m.key \in retained}}
     /\ UNCHANGED nextGeneration

\* release_conflict_hold: governed reconciliation of exact held records.
ReleaseConflictHold(o, tokens) ==
  /\ tokens # {}
  /\ OwnsAll(o, tokens)
  /\ \A r \in Selected(tokens) : r.hold
  /\ records' = records \ Selected(tokens)
  /\ UNCHANGED nextGeneration

\* recover_expired: one decision per chosen record, in one transaction.  The
\* transfer owner is an identity of the same task.  HeldBy(o) = {} is no check of
\* the code: every caller transfers to an owner id it has just drawn (uuid4).
RecoverExpired(released, held, transferred, o) ==
  LET S == {r.key : r \in transferred}
      new == {Recovered(r, o, S) : r \in transferred}
      chosen == released \union held \union transferred
  IN /\ \A r \in chosen : ~r.hold /\ r.lease = 0
     /\ transferred # {} => HeldBy(o) = {}
     /\ \A r \in transferred : TaskOf[r.owner] = TaskOf[o]
     /\ \A r, s \in transferred : r.key = s.key => r = s
     /\ MayIssue(S)
     /\ records' = (records \ chosen) \union {Held(r) : r \in held} \union new
     /\ nextGeneration' = nextGeneration + Cardinality(S)

\* One unit of time passes for every lease.
PassLeases ==
  /\ records' = {Aged(r) : r \in records}
  /\ UNCHANGED nextGeneration
=============================================================================
