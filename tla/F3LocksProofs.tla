---------------------------- MODULE F3LocksProofs ----------------------------
(***************************************************************************)
(* F3Locks for any keys, owners, tasks and request lists: typing, unique   *)
(* generations, compatible holders, fencing and closed keys.               *)
(***************************************************************************)
EXTENDS F3Locks, DurableLockStoreProofs

\* A caller's handle carries tokens that were issued.
HandlesIssued ==
  /\ handles \subseteq LockHandle
  /\ \A h \in handles : \A t \in h.tokens : t.generation < nextGeneration

Inv == StoreInv /\ HandlesIssued

\* The inductive invariant is the conjunction of the three invariants the run of
\* F3Locks checks.
LEMMA InvProperties ==
  Inv <=> TypeOK /\ GenerationsUnique /\ HoldersCompatible
BY DEF Inv, StoreInv, StoreTyped, Issued, Compatible, HandlesIssued,
       TypeOK, GenerationsUnique, HoldersCompatible

\* The empty store, with no handle given out, satisfies it.
LEMMA InitInv == Init => Inv
BY DEF Init, StoreInit, Inv, StoreInv, StoreTyped, Issued, Compatible, HandlesIssued

\* The handle of an owner's records is a handle whose tokens were issued.
LEMMA HandleOfRecords ==
  ASSUME NEW S, S \subseteq LockRecord, NEW n, \A r \in S : r.generation < n, NEW o \in Owner
  PROVE  /\ HandleOf(o, S) \in LockHandle
         /\ \A t \in HandleOf(o, S).tokens : t.generation < n
<1> DEFINE tokens == {TokenOf(r) : r \in S}
<1>1. \A r \in S : TokenOf(r) \in LockToken /\ TokenOf(r).generation = r.generation
  BY DEF TokenOf, LockToken, LockRecord
<1>2. tokens \subseteq LockToken /\ \A t \in tokens : t.generation < n
  BY <1>1
<1>3. HandleOf(o, S) = [owner |-> o, tokens |-> tokens]
  BY DEF HandleOf
<1> HIDE DEF tokens
<1>. QED
  BY <1>2, <1>3 DEF LockHandle

\* A step of the store that returns at most one handle, of records that were
\* in the store before it or are after it, keeps the invariant.
GivesBack(o, S) ==
  /\ S \subseteq records' \/ S \subseteq records
  /\ handles' = handles \union {HandleOf(o, S)}

\* A transaction that returns a handle keeps it: the handle's tokens were issued.
LEMMA ReturnKeeps ==
  ASSUME Inv, StoreStep, NEW o \in Owner, NEW S, GivesBack(o, S)
  PROVE  Inv'
<1>1. nextGeneration \in Nat /\ nextGeneration' \in Nat /\ nextGeneration' >= nextGeneration
  BY DEF Inv, StoreStep, StoreInv, StoreTyped
<1>2. \A r \in S : r \in LockRecord /\ r.generation < nextGeneration'
  <2>1. CASE S \subseteq records'
    BY <2>1 DEF StoreStep, StoreInv, StoreTyped, Issued
  <2>2. CASE S \subseteq records
    BY <2>2, <1>1 DEF Inv, StoreInv, StoreTyped, Issued, LockRecord
  <2>. QED
    BY <2>1, <2>2 DEF GivesBack
<1>3. /\ HandleOf(o, S) \in LockHandle
      /\ \A t \in HandleOf(o, S).tokens : t.generation < nextGeneration'
  BY <1>2, HandleOfRecords
<1>4. \A h \in handles : \A t \in h.tokens : t.generation < nextGeneration'
  BY <1>1 DEF Inv, HandlesIssued, LockHandle, LockToken
<1>. QED
  BY <1>3, <1>4 DEF Inv, HandlesIssued, GivesBack, StoreStep

\* A transaction that returns nothing keeps it: generations never go back.
LEMMA NoReturnKeeps ==
  ASSUME Inv, StoreStep, handles' = handles
  PROVE  Inv'
<1>1. nextGeneration \in Nat /\ nextGeneration' \in Nat /\ nextGeneration' >= nextGeneration
  BY DEF Inv, StoreStep, StoreInv, StoreTyped
<1>2. \A h \in handles : \A t \in h.tokens : t.generation < nextGeneration'
  BY <1>1 DEF Inv, HandlesIssued, LockHandle, LockToken
<1>. QED
  BY <1>2 DEF Inv, HandlesIssued, StoreStep

\* What every step does: a step of the store, and the invariant again.
LEMMA Steps ==
  ASSUME Inv, Next
  PROVE  StoreStep /\ Inv'
<1>0. StoreInv
  BY DEF Inv
<1>a. ASSUME NEW o \in Owner, NEW requests \in RequestLists, Acquire(o, requests)
      PROVE  StoreStep /\ Inv'
  <2>1. requests \in SUBSET LockRequest
    BY RequestAssumption
  <2>2. StoreStep
    <3>1. CASE AcquireOnce(o, requests)
      BY <1>0, <2>1, <3>1, AcquireOnceKeeps
    <3>2. CASE AcquireAgain(o, requests)
      BY <1>0, <3>2, Removal DEF AcquireAgain, storeVars
    <3>. QED
      BY <1>a, <3>1, <3>2 DEF Acquire
  <2>3. GivesBack(o, HeldBy(o)')
    BY <1>a DEF Acquire, Returned, GivesBack, HeldBy
  <2>. QED
    BY <2>2, <2>3, ReturnKeeps
<1>b. ASSUME NEW o \in Owner, NEW requests \in RequestLists, Settle(o, requests)
      PROVE  StoreStep /\ Inv'
  <2>1. StoreStep
    BY <1>0, <1>b, SettleUnrecordedKeeps DEF Settle
  <2>2. GivesBack(o, HeldBy(o))
    BY <1>b DEF Settle, Returned, GivesBack, HeldBy
  <2>. QED
    BY <2>1, <2>2, ReturnKeeps
<1>c. ASSUME NEW o \in Owner, NEW requests \in RequestLists, NEW h \in handles,
             Transfer(h, o, requests)
      PROVE  StoreStep /\ Inv'
  <2>1. StoreStep
    BY <1>0, <1>c, TransferCompleteKeeps DEF Transfer
  <2>2. GivesBack(o, HeldBy(o)')
    BY <1>c DEF Transfer, Returned, GivesBack, HeldBy
  <2>. QED
    BY <2>1, <2>2, ReturnKeeps
<1>d. ASSUME NEW h \in handles, Use(h)
      PROVE  StoreStep /\ Inv'
  <2>1. StoreStep
    BY <1>0, <1>d, RenewKeeps, ReleaseKeeps, PromoteConflictHoldKeeps DEF Use
  <2>. QED
    BY <1>d, <2>1, NoReturnKeeps DEF Use
<1>e. ASSUME NEW o \in Owner, NEW R \in SUBSET records, ReleaseHold(o, R)
      PROVE  StoreStep /\ Inv'
  <2>1. StoreStep
    BY <1>0, <1>e, ReleaseConflictHoldKeeps DEF ReleaseHold
  <2>. QED
    BY <1>e, <2>1, NoReturnKeeps DEF ReleaseHold
<1>f. ASSUME NEW o \in Owner, NEW A \in SUBSET records, NEW B \in SUBSET (records \ A),
             NEW C \in SUBSET (records \ (A \union B)), Recover(A, B, C, o)
      PROVE  StoreStep /\ Inv'
  <2>1. StoreStep
    <3>1. B \in SUBSET records /\ C \in SUBSET (records \ B)
      OBVIOUS
    <3>. QED
      BY <1>0, <1>f, <3>1, RecoverExpiredKeeps DEF Recover
  <2>2. CASE C = {}
    BY <1>f, <2>1, <2>2, NoReturnKeeps DEF Recover
  <2>3. CASE C # {}
    <3>1. GivesBack(o, HeldBy(o)')
      BY <1>f, <2>3 DEF Recover, Returned, GivesBack, HeldBy
    <3>. QED
      BY <2>1, <3>1, ReturnKeeps
  <2>. QED
    BY <2>2, <2>3, <2>1
<1>g. ASSUME Tick PROVE StoreStep /\ Inv'
  BY <1>0, <1>g, PassLeasesKeeps, NoReturnKeeps DEF Tick
<1>. QED
  BY <1>a, <1>b, <1>c, <1>d, <1>e, <1>f, <1>g DEF Next

\* Every transaction of the store, by any caller, keeps the invariant.
LEMMA Invariance == Spec => []Inv
<1>1. Inv /\ [Next]_vars => Inv'
  <2>1. Inv /\ UNCHANGED vars => Inv'
    BY DEF vars, Inv, StoreInv, StoreTyped, Issued, Compatible, HandlesIssued
  <2>. QED
    BY <2>1, Steps
<1>. QED
  BY <1>1, InitInv, PTL DEF Spec

-----------------------------------------------------------------------------

\* The store only ever holds well-formed records and hands out well-formed
\* handles.
THEOREM TypeCorrect == Spec => []TypeOK
<1>1. Inv => TypeOK
  BY InvProperties
<1>. QED
  BY <1>1, Invariance, PTL

\* acquire_once, transfer_complete and recover_expired never issue a generation
\* twice, whatever the callers do.
THEOREM UniqueGenerations == Spec => []GenerationsUnique
<1>1. Inv => GenerationsUnique
  BY InvProperties
<1>. QED
  BY <1>1, Invariance, PTL

\* Mutual exclusion: holder_blocks keeps incompatible holders off every key.
THEOREM MutualExclusion == Spec => []HoldersCompatible
<1>1. Inv => HoldersCompatible
  BY InvProperties
<1>. QED
  BY <1>1, Invariance, PTL

\* A record whose generation was issued before a step was there before it, with
\* the same owner: what fences a stale handle for ever.
LEMMA StaysFenced ==
  ASSUME Inv, StoreStep, NEW o, NEW t, t.generation \in Nat, t.generation < nextGeneration,
         OwnsAll(o, {t})'
  PROVE  OwnsAll(o, {t})
<1>1. PICK r \in records' : /\ r.key = t.key /\ r.generation = t.generation
                            /\ r.owner = o
  BY DEF OwnsAll, Matches
<1>2. ~Admitted(r)
  BY <1>1 DEF Admitted, Inv, StoreInv, StoreTyped
<1>3. PICK y \in records : AmendmentOf(r, y)
  BY <1>2 DEF StoreStep, Amended
<1>4. y.key = t.key /\ y.generation = t.generation /\ y.owner = o
  BY <1>1, <1>3 DEF AmendmentOf
<1>5. Matches(t) = {y}
  BY <1>4 DEF Matches, Inv, StoreInv, Issued
<1>. QED
  BY <1>4, <1>5 DEF OwnsAll

\* A fenced handle stays fenced: no acquisition, transfer or recovery ever makes
\* an old token valid again.
THEOREM FencingHolds == Spec => Fencing
<1> DEFINE Fenced == \A h \in handles : \A t \in h.tokens :
                       ~OwnsAll(h.owner, {t}) => ~OwnsAll(h.owner, {t})'
<1>1. Inv /\ [Next]_vars => [Fenced]_vars
  <2> SUFFICES ASSUME Inv, Next, NEW h \in handles, NEW t \in h.tokens, OwnsAll(h.owner, {t})'
               PROVE  OwnsAll(h.owner, {t})
    OBVIOUS
  <2>1. t.generation \in Nat /\ t.generation < nextGeneration
    BY DEF Inv, HandlesIssued, LockHandle, LockToken
  <2>. QED
    BY <2>1, Steps, StaysFenced
<1>. QED
  BY <1>1, Invariance, PTL DEF Spec, Fencing

\* Behind a hold or an expired lease no further task gets onto the key.
THEOREM ClosedKeysHold == Spec => ClosedKeys
<1> DEFINE Waits(k) == (\E r \in RecordsOn(k) : r.hold \/ r.lease = 0)
                         => {TaskOf[r.owner] : r \in RecordsOn(k)'}
                              \subseteq {TaskOf[r.owner] : r \in RecordsOn(k)}
           AllWait == \A k \in Key : Waits(k)
<1>1. Inv /\ [Next]_vars => [AllWait]_vars
  <2> SUFFICES ASSUME Inv, Next, NEW k \in Key,
                      NEW c \in RecordsOn(k), c.hold \/ c.lease = 0, NEW x \in RecordsOn(k)'
               PROVE  \E r \in RecordsOn(k) : TaskOf[x.owner] = TaskOf[r.owner]
    OBVIOUS
  <2>1. x \in records' /\ x.key = k /\ c \in records /\ c.key = k /\ Closed(c)
    BY DEF RecordsOn, Closed
  <2>2. CASE Amended(x)
    BY <2>1, <2>2 DEF Amended, AmendmentOf, RecordsOn
  <2>3. CASE Entitled(x)
    BY <2>1, <2>3 DEF Entitled, RecordsOn
  <2>. QED
    BY <2>1, <2>2, <2>3, Steps DEF StoreStep, Admitted
<1>. QED
  BY <1>1, Invariance, PTL DEF Spec, ClosedKeys
=============================================================================
