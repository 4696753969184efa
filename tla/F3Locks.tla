------------------------------- MODULE F3Locks -------------------------------
(***************************************************************************)
(* The lock store under arbitrary callers: any owner submits any request   *)
(* list, and a caller keeps every handle it was ever given and may use it  *)
(* at any later time, whatever became of its records.                      *)
(***************************************************************************)
EXTENDS DurableLockStore

CONSTANT RequestLists   \* the lists of lock requests callers submit

ASSUME RequestAssumption == RequestLists \subseteq (SUBSET LockRequest) \ {{}}

VARIABLE handles        \* every LockHandle returned to some caller

vars == <<records, nextGeneration, handles>>

\* The call returns what its owner now holds (or held, for a settlement); a
\* caller that died before it got the handle never uses it.
Returned(o, R) == handles' = handles \union {HandleOf(o, R)}

Init ==
  /\ StoreInit
  /\ handles = {}

Acquire(o, requests) ==
  /\ AcquireOnce(o, requests) \/ AcquireAgain(o, requests)
  /\ Returned(o, HeldBy(o)')

Transfer(predecessor, o, requests) ==
  /\ TransferComplete(predecessor, o, requests)
  /\ Returned(o, HeldBy(o)')

\* The tokens are persisted through the callback, so a later caller has them.
Settle(o, requests) ==
  /\ \E removed \in BOOLEAN : SettleUnrecorded(o, requests, removed)
  /\ Returned(o, HeldBy(o))

\* A sweep decides on some of the expired records, each its own way.
Recover(released, held, transferred, o) ==
  /\ released \union held \union transferred # {}
  /\ RecoverExpired(released, held, transferred, o)
  /\ IF transferred = {} THEN UNCHANGED handles ELSE Returned(o, HeldBy(o)')

Use(h) ==
  /\ \/ Renew(h)
     \/ \E cleanup \in BOOLEAN : Release(h, cleanup)
     \/ \E retained \in SUBSET Key : PromoteConflictHold(h, retained)
  /\ UNCHANGED handles

\* Governed reconciliation names some of an owner's held records.
ReleaseHold(o, R) ==
  /\ ReleaseConflictHold(o, {TokenOf(r) : r \in R})
  /\ UNCHANGED handles

Tick ==
  /\ \E r \in records : r.lease > 0
  /\ PassLeases
  /\ UNCHANGED handles

Next ==
  \/ \E o \in Owner, requests \in RequestLists :
       \/ Acquire(o, requests)
       \/ Settle(o, requests)
       \/ \E h \in handles : Transfer(h, o, requests)
  \/ \E h \in handles : Use(h)
  \/ \E o \in Owner, R \in SUBSET records : ReleaseHold(o, R)
  \/ \E o \in Owner : \E A \in SUBSET records : \E B \in SUBSET (records \ A) :
       \E C \in SUBSET (records \ (A \union B)) : Recover(A, B, C, o)
  \/ Tick

Spec == Init /\ [][Next]_vars

-----------------------------------------------------------------------------
(* Properties.                                                             *)

\* The store holds well-formed records: no renewal, transfer or recovery makes a
\* lease longer than LockTiming.lease_seconds, and what callers keep are handles.
TypeOK ==
  /\ records \subseteq LockRecord
  /\ nextGeneration \in Nat \ {0}
  /\ handles \subseteq LockHandle

\* Two records on one key are both shared, whatever expiries, transfers,
\* recoveries and selective holds came between: acquire_once and
\* transfer_complete are the only ways onto a key, and each checks holder_blocks.
HoldersCompatible ==
  \A r, s \in records : r # s /\ r.key = s.key => r.mode = "shared" /\ s.mode = "shared"

\* Generations are globally unique and below next_generation, and no handle
\* carries one that was not issued: what the fencing comparison rests on.
GenerationsUnique ==
  /\ \A r, s \in records : r.generation = s.generation => r = s
  /\ \A r \in records : r.generation < nextGeneration
  /\ \A h \in handles : \A t \in h.tokens : t.generation < nextGeneration

\* A caller whose token was taken away (released, transferred, recovered) is
\* fenced for ever: its handle never passes the ownership check again, even
\* when the same owner acquires the same key later.
Fencing ==
  [][\A h \in handles : \A t \in h.tokens :
       ~OwnsAll(h.owner, {t}) => ~OwnsAll(h.owner, {t})']_vars

\* While a key carries a conflict hold or an expired lease no other task gets
\* a record on it: "expiry alone never frees a key, even between shared
\* holders" (holder_blocks), and a hold waits for governed reconciliation.
ClosedKeys ==
  [][\A k \in Key :
       (\E r \in RecordsOn(k) : r.hold \/ r.lease = 0)
         => {TaskOf[r.owner] : r \in RecordsOn(k)'}
              \subseteq {TaskOf[r.owner] : r \in RecordsOn(k)}]_vars


\* The service the store implements: records seen as grants, a hold as frozen.
GrantOf(r) ==
  [key |-> r.key, mode |-> r.mode, task |-> TaskOf[r.owner], frozen |-> r.hold]
Service == INSTANCE LockService WITH grants <- {GrantOf(r) : r \in records}

\* Every transaction grants a complete compatible set, passes a live set on
\* within its plan, or ends and freezes grants; renewals, expiry and transfers
\* to another process of the same task are invisible to the tasks.
ServiceSpec == Service!Spec
=============================================================================
