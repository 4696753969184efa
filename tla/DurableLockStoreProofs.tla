------------------------ MODULE DurableLockStoreProofs ------------------------
(***************************************************************************)
(* What every transaction of the lock store keeps, for any keys, owners    *)
(* and tasks: well-typed records, unique generations below the next one,   *)
(* and compatible records on every key.                                    *)
(***************************************************************************)
EXTENDS DurableLockStore, FiniteSetTheorems, TLAPS

-----------------------------------------------------------------------------
(* Fresh generations.                                                      *)

\* A key's position among the keys of a set is below the size of the set.
LEMMA PositionRange ==
  ASSUME NEW S \in SUBSET Key, NEW k \in S
  PROVE  /\ Cardinality(S) \in Nat
         /\ Position(k, S) \in Nat
         /\ Position(k, S) < Cardinality(S)
<1> DEFINE P == {j \in S : Rank[j] < Rank[k]}
<1>1. IsFiniteSet(S) /\ Cardinality(S) \in Nat
  BY KeyAssumption, FS_Subset, FS_CardinalityType
<1>2. P \in SUBSET S /\ P # S
  BY KeyAssumption
<1>3. IsFiniteSet(P) /\ Cardinality(P) <= Cardinality(S) /\ Cardinality(P) # Cardinality(S)
  BY <1>1, <1>2, FS_Subset
<1>4. Cardinality(P) \in Nat
  BY <1>3, FS_CardinalityType
<1>. QED
  BY <1>1, <1>3, <1>4 DEF Position

\* A key of smaller rank has the smaller position.
LEMMA PositionMonotone ==
  ASSUME NEW S \in SUBSET Key, NEW j \in S, NEW k \in S, Rank[j] < Rank[k]
  PROVE  Position(j, S) < Position(k, S)
<1> DEFINE P == {i \in S : Rank[i] < Rank[j]}
           Q == {i \in S : Rank[i] < Rank[k]}
<1>1. IsFiniteSet(Q)
  <2>1. IsFiniteSet(S)
    BY KeyAssumption, FS_Subset
  <2>. QED
    BY <2>1, FS_Subset
<1>2. P \in SUBSET Q /\ P # Q
  BY KeyAssumption
<1>3. IsFiniteSet(P) /\ Cardinality(P) <= Cardinality(Q) /\ Cardinality(P) # Cardinality(Q)
  BY <1>1, <1>2, FS_Subset
<1>4. Cardinality(P) \in Nat /\ Cardinality(Q) \in Nat
  BY <1>1, <1>3, FS_CardinalityType
<1>. QED
  BY <1>3, <1>4 DEF Position

\* The generations issued for a set of keys are new, and differ from key to key.
LEMMA FreshGenerations ==
  ASSUME NEW S \in SUBSET Key, nextGeneration \in Nat \ {0}
  PROVE  /\ nextGeneration + Cardinality(S) \in Nat \ {0}
         /\ nextGeneration <= nextGeneration + Cardinality(S)
         /\ \A k \in S : /\ FreshGeneration(k, S) \in Nat
                         /\ FreshGeneration(k, S) >= nextGeneration
                         /\ FreshGeneration(k, S) < nextGeneration + Cardinality(S)
         /\ \A j, k \in S : FreshGeneration(j, S) = FreshGeneration(k, S) => j = k
<1>1. Cardinality(S) \in Nat
  BY KeyAssumption, FS_Subset, FS_CardinalityType
<1>2. \A k \in S : Position(k, S) \in Nat /\ Position(k, S) < Cardinality(S)
  BY PositionRange
<1>3. \A j, k \in S : Position(j, S) = Position(k, S) => j = k
  <2> SUFFICES ASSUME NEW j \in S, NEW k \in S, j # k
               PROVE  Position(j, S) # Position(k, S)
    OBVIOUS
  <2>1. Rank[j] < Rank[k] \/ Rank[k] < Rank[j]
    BY KeyAssumption
  <2>2. Position(j, S) < Position(k, S) \/ Position(k, S) < Position(j, S)
    BY <2>1, PositionMonotone
  <2>. QED
    BY <1>2, <2>2
<1>. QED
  BY <1>1, <1>2, <1>3 DEF FreshGeneration

-----------------------------------------------------------------------------
(* The invariant of the store.                                             *)

StoreTyped ==
  /\ records \subseteq LockRecord
  /\ nextGeneration \in Nat \ {0}

\* One generation, one record, and none issued yet beyond nextGeneration.
Issued ==
  /\ \A r, s \in records : r.generation = s.generation => r = s
  /\ \A r \in records : r.generation < nextGeneration

Compatible ==
  \A r, s \in records : r # s /\ r.key = s.key => r.mode = "shared" /\ s.mode = "shared"

StoreInv == StoreTyped /\ Issued /\ Compatible

\* Every transaction keeps some records, perhaps amended in lease, hold or
\* evidence, and adds records of fresh generations, one per key of S.
AmendmentOf(x, y) ==
  x.key = y.key /\ x.mode = y.mode /\ x.owner = y.owner /\ x.generation = y.generation
Amended(x) == \E y \in records : AmendmentOf(x, y)

\* A new record finds no hold or expired lease on its key, unless its own task
\* has a record there.
Closed(r) == r.hold \/ r.lease = 0
Entitled(x) ==
  \/ \A r \in records : r.key = x.key => ~Closed(r)
  \/ \E r \in records : r.key = x.key /\ TaskOf[r.owner] = TaskOf[x.owner]
Admitted(x) == x.generation >= nextGeneration /\ Entitled(x)

\* What every transaction does, for the users of the store.
StoreStep ==
  /\ StoreInv'
  /\ nextGeneration' >= nextGeneration
  /\ \A x \in records' : Amended(x) \/ Admitted(x)

Admits(kept, new, S) ==
  /\ kept \subseteq LockRecord /\ new \subseteq LockRecord /\ S \subseteq Key
  /\ \A x \in kept : Amended(x)
  /\ \A x, y \in kept : x.generation = y.generation => x = y
  /\ \A x \in new : Entitled(x)
  /\ \A x \in new : x.key \in S /\ x.generation = FreshGeneration(x.key, S)
  /\ \A x, y \in new : x.key = y.key => x = y
  /\ \A x \in new, y \in kept :
       x.key = y.key => x.mode = "shared" /\ y.mode = "shared"
  /\ records' = kept \union new
  /\ nextGeneration' = nextGeneration + Cardinality(S)

\* An admission is a step of the store: fresh generations keep them unique, and
\* compatible newcomers keep the holders of a key compatible.
LEMMA Admission ==
  ASSUME StoreInv, NEW kept, NEW new, NEW S, Admits(kept, new, S)
  PROVE  StoreStep
<1> USE DEF Admits
<1>1. /\ nextGeneration' \in Nat \ {0}
      /\ nextGeneration <= nextGeneration'
      /\ \A k \in S : /\ FreshGeneration(k, S) >= nextGeneration
                      /\ FreshGeneration(k, S) < nextGeneration'
      /\ \A j, k \in S : FreshGeneration(j, S) = FreshGeneration(k, S) => j = k
      /\ \A k \in S : FreshGeneration(k, S) \in Nat
  BY FreshGenerations DEF StoreInv, StoreTyped
<1>2. StoreTyped'
  BY <1>1 DEF StoreTyped
<1>3. \A x \in kept : x.generation \in Nat /\ x.generation < nextGeneration
  BY DEF StoreInv, StoreTyped, Issued, Amended, AmendmentOf, LockRecord
<1>4. \A x \in new : /\ x.generation \in Nat
                     /\ x.generation >= nextGeneration
                     /\ x.generation < nextGeneration'
  BY <1>1
<1>5. nextGeneration \in Nat
  BY DEF StoreInv, StoreTyped
<1>6. Issued'
  <2>1. \A x, y \in new : x.generation = y.generation => x = y
    BY <1>1
  <2>2. \A x \in kept, y \in new : x.generation # y.generation
    BY <1>3, <1>4, <1>5
  <2>3. \A x \in kept : x.generation < nextGeneration'
    BY <1>1, <1>3, <1>5
  <2>. QED
    BY <2>1, <2>2, <2>3, <1>4 DEF Issued
<1>7. Compatible'
  <2>1. \A x, y \in kept : x # y /\ x.key = y.key => x.mode = "shared" /\ y.mode = "shared"
    <3> SUFFICES ASSUME NEW x \in kept, NEW y \in kept, x # y, x.key = y.key
                 PROVE  x.mode = "shared" /\ y.mode = "shared"
      OBVIOUS
    <3>1. PICK u \in records, v \in records : AmendmentOf(x, u) /\ AmendmentOf(y, v)
      BY DEF Amended
    <3>2. u # v
      BY <3>1 DEF AmendmentOf
    <3>3. u.key = v.key
      BY <3>1 DEF AmendmentOf
    <3>4. u.mode = "shared" /\ v.mode = "shared"
      BY <3>2, <3>3 DEF StoreInv, Compatible
    <3>. QED
      BY <3>1, <3>4 DEF AmendmentOf
  <2>. QED
    BY <2>1 DEF Compatible
<1>8. \A x \in new : Admitted(x)
  BY <1>4 DEF Admitted
<1>9. nextGeneration' >= nextGeneration
  BY <1>1, <1>5
<1>. QED
  BY <1>2, <1>6, <1>7, <1>8, <1>9 DEF StoreInv, StoreStep

\* The same without new records.
Amends(kept) ==
  /\ kept \subseteq LockRecord
  /\ \A x \in kept : Amended(x)
  /\ \A x, y \in kept : x.generation = y.generation => x = y
  /\ records' = kept
  /\ nextGeneration' = nextGeneration

\* Amending records in place is a step of the store: it issues no generation.
LEMMA Amendment ==
  ASSUME StoreInv, NEW kept, Amends(kept)
  PROVE  StoreStep
<1>1. Cardinality({}) = 0
  BY FS_EmptySet
<1>2. Admits(kept, {}, {})
  BY <1>1 DEF Admits, Amends, StoreInv, StoreTyped
<1>. QED
  BY <1>2, Admission

\* Keeping some of the records unchanged.
LEMMA Removal ==
  ASSUME StoreInv, records' \subseteq records, nextGeneration' = nextGeneration
  PROVE  StoreStep
<1>1. StoreInv'
  BY DEF StoreInv, StoreTyped, Issued, Compatible
<1>2. \A x \in records' : Amended(x)
  BY DEF Amended, AmendmentOf
<1>. QED
  BY <1>1, <1>2 DEF StoreStep, StoreInv, StoreTyped
-----------------------------------------------------------------------------
(* One lemma per transaction.                                              *)

\* Requests normalize to a mode for each key they name.
LEMMA Normalized ==
  ASSUME NEW requests \in SUBSET LockRequest
  PROVE  /\ DOMAIN NormalizeLockRequests(requests) \in SUBSET Key
         /\ \A k \in DOMAIN NormalizeLockRequests(requests) :
              NormalizeLockRequests(requests)[k] \in Mode
BY DEF NormalizeLockRequests, LockRequest, Mode

\* A new record is well typed.
LEMMA NewRecordTyped ==
  ASSUME NEW k \in Key, NEW mode \in Mode, NEW o \in Owner, NEW generation \in Nat
  PROVE  NewRecord(k, mode, o, generation) \in LockRecord
<1>1. LeaseTicks \in 0..LeaseTicks
  BY BoundAssumption
<1>. QED
  BY <1>1 DEF NewRecord, LockRecord

\* Amendments of a record are records of the same key, mode and generation.
LEMMA Amendments ==
  ASSUME NEW r \in LockRecord
  PROVE  /\ Renewed(r) \in LockRecord /\ AmendmentOf(Renewed(r), r)
         /\ Held(r) \in LockRecord /\ AmendmentOf(Held(r), r)
         /\ Aged(r) \in LockRecord /\ AmendmentOf(Aged(r), r)
<1>1. LeaseTicks \in 0..LeaseTicks
  BY BoundAssumption
<1>2. Held(r) \in LockRecord /\ AmendmentOf(Held(r), r)
  BY DEF Held, LockRecord, AmendmentOf
<1>3. Renewed(r) \in LockRecord /\ AmendmentOf(Renewed(r), r)
  BY <1>1 DEF Renewed, LockRecord, AmendmentOf
<1>4. Aged(r) \in LockRecord /\ AmendmentOf(Aged(r), r)
  <2> DEFINE lease == IF r.lease > 0 THEN r.lease - 1 ELSE 0
  <2>1. lease \in 0..LeaseTicks
    BY BoundAssumption DEF LockRecord
  <2>2. Aged(r) = [r EXCEPT !.lease = lease]
    BY DEF Aged, LockRecord
  <2> HIDE DEF lease
  <2>. QED
    BY <2>1, <2>2 DEF LockRecord, AmendmentOf
<1>. QED
  BY <1>2, <1>3, <1>4

\* Some records go, some of these come back amended.
Rewrites(mine, kept, f) ==
  /\ mine \subseteq records /\ kept \subseteq mine
  /\ \A r \in kept : f[r] \in LockRecord /\ AmendmentOf(f[r], r)
  /\ records' = (records \ mine) \union {f[r] : r \in kept}
  /\ nextGeneration' = nextGeneration

\* Dropping some records and amending others is a step of the store.
LEMMA Rewriting ==
  ASSUME StoreInv, NEW mine, NEW kept, NEW f, Rewrites(mine, kept, f)
  PROVE  StoreStep
<1> DEFINE back == {f[r] : r \in kept}
           all == (records \ mine) \union back
<1>1. all \subseteq LockRecord
  BY DEF Rewrites, StoreInv, StoreTyped
<1>2. \A x \in all : Amended(x)
  BY DEF Rewrites, Amended, AmendmentOf
<1>3. \A x \in back : \E r \in kept : x = f[r] /\ x.generation = r.generation
  BY DEF Rewrites, AmendmentOf
<1>4. \A x, y \in back : x.generation = y.generation => x = y
  BY <1>3 DEF Rewrites, StoreInv, Issued
<1>5. \A x \in back, y \in records \ mine : x.generation # y.generation
  BY <1>3 DEF Rewrites, StoreInv, Issued
<1>6. \A x, y \in all : x.generation = y.generation => x = y
  BY <1>4, <1>5 DEF StoreInv, Issued
<1>7. Amends(all)
  BY <1>1, <1>2, <1>6 DEF Amends, Rewrites
<1>. QED
  BY <1>7, Amendment

\* acquire_once keeps the store's invariant: every new record passed holder_blocks.
LEMMA AcquireOnceKeeps ==
  ASSUME StoreInv, NEW o \in Owner, NEW requests \in SUBSET LockRequest,
         AcquireOnce(o, requests)
  PROVE  StoreStep
<1> DEFINE wanted == NormalizeLockRequests(requests)
           S == DOMAIN wanted
           new == {NewRecord(k, wanted[k], o, FreshGeneration(k, S)) : k \in S}
<1>1. S \in SUBSET Key /\ \A k \in S : wanted[k] \in Mode
  BY Normalized
<1>2. \A k \in S : FreshGeneration(k, S) \in Nat
  BY <1>1, FreshGenerations DEF StoreInv, StoreTyped
<1>3. new \subseteq LockRecord
  <2> SUFFICES ASSUME NEW k \in S
               PROVE  NewRecord(k, wanted[k], o, FreshGeneration(k, S)) \in LockRecord
    OBVIOUS
  <2>1. k \in Key /\ wanted[k] \in Mode /\ FreshGeneration(k, S) \in Nat
    BY <1>1, <1>2
  <2> HIDE DEF wanted
  <2>. QED
    BY <2>1, NewRecordTyped
<1>4. \A k \in S : \A y \in records :
        y.key = k => wanted[k] = "shared" /\ y.mode = "shared"
  BY <1>1 DEF AcquireOnce, HolderBlocks, RecordsOn, StoreInv, StoreTyped, LockRecord, Mode
<1>5. \A x \in new : /\ x.key \in S
                     /\ x.generation = FreshGeneration(x.key, S)
                     /\ x = NewRecord(x.key, wanted[x.key], o, x.generation)
  BY DEF NewRecord
<1>6. \A x \in new, y \in records : x.key = y.key => x.mode = "shared" /\ y.mode = "shared"
  BY <1>4 DEF NewRecord
<1>7. \A x, y \in new : x.key = y.key => x = y
  BY <1>5
<1>8. records' = records \union new /\ nextGeneration' = nextGeneration + Cardinality(S)
  BY DEF AcquireOnce
<1>9. \A x \in new : Entitled(x)
  <2>1. \A k \in S : \A r \in records : r.key = k => ~Closed(r)
    BY DEF AcquireOnce, HolderBlocks, RecordsOn, Closed, Active
  <2>. QED
    BY <1>5, <2>1 DEF Entitled
<1>10. \A x \in records : Amended(x)
  BY DEF Amended, AmendmentOf
<1>11. Admits(records, new, S)
  BY <1>1, <1>3, <1>5, <1>6, <1>7, <1>8, <1>9, <1>10
     DEF Admits, StoreInv, StoreTyped, Issued
<1>. QED
  BY <1>11, Admission

\* transfer_complete replaces records of the predecessor, key for key.
LEMMA TransferCompleteKeeps ==
  ASSUME StoreInv, NEW predecessor, NEW o \in Owner, NEW requests,
         TransferComplete(predecessor, o, requests)
  PROVE  StoreStep
<1> DEFINE old == HeldBy(predecessor.owner)
           wanted == NormalizeLockRequests(requests)
           S == {r.key : r \in old}
           new == {NewRecord(r.key, r.mode, o, FreshGeneration(r.key, S)) : r \in old}
<1>1. old \subseteq records /\ \A r \in old : r \in LockRecord /\ r.key \in Key /\ r.mode \in Mode
  BY DEF HeldBy, StoreInv, StoreTyped, LockRecord
<1>2. S \in SUBSET Key
  BY <1>1
<1>3. \A k \in S : FreshGeneration(k, S) \in Nat
  BY <1>2, FreshGenerations DEF StoreInv, StoreTyped
<1>4. new \subseteq LockRecord
  <2> SUFFICES ASSUME NEW r \in old
               PROVE  NewRecord(r.key, r.mode, o, FreshGeneration(r.key, S)) \in LockRecord
    OBVIOUS
  <2>1. r.key \in Key /\ r.mode \in Mode /\ FreshGeneration(r.key, S) \in Nat
    BY <1>1, <1>3
  <2> HIDE DEF old
  <2>. QED
    BY <2>1, NewRecordTyped
<1>5. \A r \in old : r.mode = wanted[r.key]
  BY DEF TransferComplete, MeetsContract
<1>6. \A x \in new : /\ x.key \in S
                     /\ x.generation = FreshGeneration(x.key, S)
                     /\ x = NewRecord(x.key, wanted[x.key], o, x.generation)
  BY <1>5 DEF NewRecord
<1>7. \A x \in new, y \in records \ old :
        x.key = y.key => x.mode = "shared" /\ y.mode = "shared"
  <2>1. \A x \in new : \E r \in old : x.key = r.key /\ x.mode = r.mode
    <3>1. \A r \in old : /\ NewRecord(r.key, r.mode, o, FreshGeneration(r.key, S)).key = r.key
                          /\ NewRecord(r.key, r.mode, o, FreshGeneration(r.key, S)).mode = r.mode
      BY DEF NewRecord
    <3>. QED
      BY <3>1
  <2>2. \A r \in old, y \in records \ old :
          r.key = y.key => r.mode = "shared" /\ y.mode = "shared"
    BY <1>1 DEF StoreInv, Compatible
  <2>. QED
    BY <2>1, <2>2
<1>8. records' = (records \ old) \union new /\ nextGeneration' = nextGeneration + Cardinality(S)
  BY DEF TransferComplete
<1>9. \A x, y \in new : x.key = y.key => x = y
  BY <1>6
<1>10. \A x \in new : Entitled(x)
  <2>1. \A k \in S : \A r \in records : r.key = k => ~Closed(r)
    <3> SUFFICES ASSUME NEW q \in old, NEW r \in records, r.key = q.key
                 PROVE  ~Closed(r)
      OBVIOUS
    <3>1. CASE r \in old
      BY <3>1, <1>1 DEF TransferComplete, Closed, LockRecord
    <3>2. CASE r \notin old
      BY <3>2 DEF TransferComplete, Closed, RecordsOn, HolderBlocks, Active
    <3>. QED
      BY <3>1, <3>2
  <2>. QED
    BY <1>6, <2>1 DEF Entitled
<1>11. \A x \in records \ old : Amended(x)
  BY DEF Amended, AmendmentOf
<1>12. Admits(records \ old, new, S)
  BY <1>2, <1>4, <1>6, <1>7, <1>8, <1>9, <1>10, <1>11
     DEF Admits, StoreInv, StoreTyped, Issued
<1>. QED
  BY <1>12, Admission

\* What a handle selects are records of the store.
LEMMA SelectedRecords ==
  ASSUME NEW tokens PROVE Selected(tokens) \subseteq records
BY DEF Selected, Matches

\* renew keeps the records, with fresh leases.
LEMMA RenewKeeps ==
  ASSUME StoreInv, NEW h, Renew(h)
  PROVE  StoreStep
<1> DEFINE mine == Selected(h.tokens)
           f == [r \in mine |-> Renewed(r)]
<1>1. mine \subseteq records
  BY SelectedRecords
<1>2. \A r \in mine : f[r] = Renewed(r) /\ f[r] \in LockRecord /\ AmendmentOf(f[r], r)
  BY <1>1, Amendments DEF StoreInv, StoreTyped
<1>3. {Renewed(r) : r \in mine} = {f[r] : r \in mine}
  BY <1>2
<1>4. Rewrites(mine, mine, f)
  BY <1>1, <1>2, <1>3 DEF Rewrites, Renew
<1>. QED
  BY <1>4, Rewriting

\* release, settlement and hold release only remove records.
LEMMA ReleaseKeeps ==
  ASSUME StoreInv, NEW h, NEW cleanup, Release(h, cleanup)
  PROVE  StoreStep
BY Removal DEF Release

\* settle_unrecorded removes one owner's expired records, or nothing.
LEMMA SettleUnrecordedKeeps ==
  ASSUME StoreInv, NEW o, NEW requests, NEW removed, SettleUnrecorded(o, requests, removed)
  PROVE  StoreStep
BY Removal DEF SettleUnrecorded

\* release_conflict_hold removes exact held records.
LEMMA ReleaseConflictHoldKeeps ==
  ASSUME StoreInv, NEW o, NEW tokens, ReleaseConflictHold(o, tokens)
  PROVE  StoreStep
BY Removal DEF ReleaseConflictHold

\* A promotion removes some records of the handle and marks the others held.
LEMMA PromoteConflictHoldKeeps ==
  ASSUME StoreInv, NEW h, NEW retained, PromoteConflictHold(h, retained)
  PROVE  StoreStep
<1> DEFINE mine == Selected(h.tokens)
           kept == {m \in mine : m.key \in retained}
           f == [r \in mine |-> Held(r)]
<1>1. mine \subseteq records
  BY SelectedRecords
<1>2. \A r \in mine : f[r] = Held(r) /\ f[r] \in LockRecord /\ AmendmentOf(f[r], r)
  BY <1>1, Amendments DEF StoreInv, StoreTyped
<1>3. {Held(r) : r \in kept} = {f[r] : r \in kept}
  BY <1>2
<1>4. Rewrites(mine, kept, f)
  BY <1>1, <1>2, <1>3 DEF Rewrites, PromoteConflictHold
<1>. QED
  BY <1>4, Rewriting

\* What recovery writes for a record has its key and mode and a fresh generation.
LEMMA RecoveredTyped ==
  ASSUME NEW r \in LockRecord, NEW o \in Owner, NEW S, FreshGeneration(r.key, S) \in Nat
  PROVE  /\ Recovered(r, o, S) \in LockRecord
         /\ Recovered(r, o, S).key = r.key /\ Recovered(r, o, S).mode = r.mode
         /\ Recovered(r, o, S).generation = FreshGeneration(r.key, S)
         /\ Recovered(r, o, S).owner = o
<1> DEFINE x == NewRecord(r.key, r.mode, o, FreshGeneration(r.key, S))
<1>1. r.key \in Key /\ r.mode \in Mode
  BY DEF LockRecord
<1>2. x \in LockRecord
  BY <1>1, NewRecordTyped
<1>3. /\ x.key = r.key /\ x.mode = r.mode
      /\ x.generation = FreshGeneration(r.key, S) /\ x.owner = o
  BY DEF NewRecord
<1>4. Recovered(r, o, S) = [x EXCEPT !.amended = TRUE]
  BY DEF Recovered
<1> HIDE DEF x
<1>. QED
  BY <1>2, <1>3, <1>4 DEF LockRecord

\* recover_expired: what is transferred gets fresh generations on its own keys.
LEMMA RecoverExpiredKeeps ==
  ASSUME StoreInv, NEW released, NEW held \in SUBSET records,
         NEW transferred \in SUBSET (records \ held), NEW o \in Owner,
         RecoverExpired(released, held, transferred, o)
  PROVE  StoreStep
<1> DEFINE S == {r.key : r \in transferred}
           new == {Recovered(r, o, S) : r \in transferred}
           chosen == released \union held \union transferred
           frozen == {Held(r) : r \in held}
           kept == (records \ chosen) \union frozen
<1>1. \A r \in records : r \in LockRecord /\ r.key \in Key
  BY DEF StoreInv, StoreTyped, LockRecord
<1>2. S \in SUBSET Key
  BY <1>1
<1>3. \A k \in S : FreshGeneration(k, S) \in Nat
  BY <1>2, FreshGenerations DEF StoreInv, StoreTyped
<1>4. \A r \in transferred :
        /\ Recovered(r, o, S) \in LockRecord
        /\ Recovered(r, o, S).key = r.key /\ Recovered(r, o, S).mode = r.mode
        /\ Recovered(r, o, S).generation = FreshGeneration(r.key, S)
        /\ Recovered(r, o, S).owner = o
  <2> SUFFICES ASSUME NEW r \in transferred
               PROVE  /\ Recovered(r, o, S) \in LockRecord
                      /\ Recovered(r, o, S).key = r.key /\ Recovered(r, o, S).mode = r.mode
                      /\ Recovered(r, o, S).generation = FreshGeneration(r.key, S)
                      /\ Recovered(r, o, S).owner = o
    OBVIOUS
  <2>1. r \in LockRecord /\ FreshGeneration(r.key, S) \in Nat
    BY <1>1, <1>3
  <2> HIDE DEF S
  <2>. QED
    BY <2>1, RecoveredTyped
<1>5. \A r \in held : Held(r) \in LockRecord /\ AmendmentOf(Held(r), r)
  BY <1>1, Amendments
<1>6. kept \subseteq LockRecord
  BY <1>1, <1>5
<1>7. \A x \in kept : \E y \in records \ transferred : AmendmentOf(x, y)
  BY <1>5 DEF AmendmentOf
<1>8. \A x \in frozen : \E r \in held : x = Held(r) /\ x.generation = r.generation
  BY <1>5 DEF AmendmentOf
<1>9. \A x, y \in kept : x.generation = y.generation => x = y
  <2>1. \A x, y \in frozen : x.generation = y.generation => x = y
    BY <1>8 DEF StoreInv, Issued
  <2>2. \A x \in frozen, y \in records \ chosen : x.generation # y.generation
    BY <1>8 DEF StoreInv, Issued
  <2>. QED
    BY <2>1, <2>2 DEF StoreInv, Issued
<1>10. \A r, s \in transferred : r.key = s.key => r = s
  BY DEF RecoverExpired
<1>11. \A x \in new : \E r \in transferred :
        /\ x = Recovered(r, o, S) /\ x \in LockRecord
        /\ x.key = r.key /\ x.mode = r.mode /\ x.generation = FreshGeneration(r.key, S)
        /\ x.owner = o
  BY <1>4
<1> HIDE DEF new
<1>12. \A x \in new : /\ x \in LockRecord /\ x.key \in S
                      /\ x.generation = FreshGeneration(x.key, S)
  <2> SUFFICES ASSUME NEW x \in new
               PROVE  x \in LockRecord /\ x.key \in S /\ x.generation = FreshGeneration(x.key, S)
    OBVIOUS
  <2>1. PICK r \in transferred :
          x \in LockRecord /\ x.key = r.key /\ x.generation = FreshGeneration(r.key, S)
    BY <1>11
  <2>2. x.key \in S
    BY <2>1
  <2> HIDE DEF S
  <2>. QED
    BY <2>1, <2>2
<1>13. \A x, y \in new : x.key = y.key => x = y
  <2> SUFFICES ASSUME NEW x \in new, NEW y \in new, x.key = y.key
               PROVE  x = y
    OBVIOUS
  <2>1. PICK r \in transferred : x = Recovered(r, o, S) /\ x.key = r.key
    BY <1>11
  <2>2. PICK s \in transferred : y = Recovered(s, o, S) /\ y.key = s.key
    BY <1>11
  <2> HIDE DEF S
  <2>. QED
    BY <2>1, <2>2, <1>10
<1>14. \A x \in new, y \in kept : x.key = y.key => x.mode = "shared" /\ y.mode = "shared"
  <2> SUFFICES ASSUME NEW x \in new, NEW y \in kept, x.key = y.key
               PROVE  x.mode = "shared" /\ y.mode = "shared"
    OBVIOUS
  <2>1. PICK r \in transferred : x.key = r.key /\ x.mode = r.mode
    BY <1>11
  <2>2. PICK u \in records \ transferred : AmendmentOf(y, u)
    BY <1>7
  <2>3. r \in records /\ u \in records /\ r # u /\ r.key = u.key
    BY <2>1, <2>2 DEF AmendmentOf
  <2>4. r.mode = "shared" /\ u.mode = "shared"
    BY <2>3 DEF StoreInv, Compatible
  <2>. QED
    BY <2>1, <2>2, <2>4 DEF AmendmentOf
<1>15. records' = kept \union new /\ nextGeneration' = nextGeneration + Cardinality(S)
  BY DEF RecoverExpired, new
<1>16. Admits(kept, new, S)
  <2>1. \A x \in kept : Amended(x)
    BY <1>7 DEF Amended
  <2>2. \A x \in new : Entitled(x)
    <3>1. \A r \in transferred : r \in records /\ TaskOf[r.owner] = TaskOf[o]
      BY DEF RecoverExpired
    <3> SUFFICES ASSUME NEW x \in new PROVE Entitled(x)
      OBVIOUS
    <3>2. PICK r \in transferred : x.key = r.key /\ x.owner = o
      BY <1>11
    <3>. QED
      BY <3>1, <3>2 DEF Entitled
  <2> HIDE DEF kept, S
  <2>. QED
    BY <1>2, <1>6, <1>9, <1>12, <1>13, <1>14, <1>15, <2>1, <2>2 DEF Admits
<1>. QED
  BY <1>16, Admission

\* Time only lowers leases.
LEMMA PassLeasesKeeps ==
  ASSUME StoreInv, PassLeases
  PROVE  StoreStep
<1> DEFINE f == [r \in records |-> Aged(r)]
<1>1. \A r \in records : f[r] = Aged(r) /\ f[r] \in LockRecord /\ AmendmentOf(f[r], r)
  BY Amendments DEF StoreInv, StoreTyped
<1>2. {Aged(r) : r \in records} = {f[r] : r \in records}
  BY <1>1
<1>3. Rewrites(records, records, f)
  BY <1>1, <1>2 DEF Rewrites, PassLeases
<1>. QED
  BY <1>3, Rewriting
=============================================================================
