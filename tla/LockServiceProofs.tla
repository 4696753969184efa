-------------------------- MODULE LockServiceProofs --------------------------
(***************************************************************************)
(* F3Locks implements LockService: whatever the callers do, the records    *)
(* behave as grants that are given out whole, handed over within a plan,   *)
(* and otherwise only end or freeze.                                       *)
(***************************************************************************)
EXTENDS F3LocksProofs

Grants == {GrantOf(r) : r \in records}

\* A record stands for the grant of an earlier one, unchanged or frozen.
Continues(x) ==
  \E y \in records : /\ x.key = y.key /\ x.mode = y.mode /\ TaskOf[x.owner] = TaskOf[y.owner]
                     /\ x.hold = y.hold \/ x.hold = TRUE

\* If every record left continues an earlier one, grants only ended or froze.
LEMMA Resolution ==
  ASSUME \A x \in records' : Continues(x)
  PROVE  Service!Next
<1>1. \A x \in records' : \E y \in records : GrantOf(x) \in {GrantOf(y), Service!Freeze(GrantOf(y))}
  <2> SUFFICES ASSUME NEW x \in records'
               PROVE  \E y \in records : GrantOf(x) \in {GrantOf(y), Service!Freeze(GrantOf(y))}
    OBVIOUS
  <2>1. PICK y \in records :
          /\ x.key = y.key /\ x.mode = y.mode /\ TaskOf[x.owner] = TaskOf[y.owner]
          /\ x.hold = y.hold \/ x.hold = TRUE
    BY DEF Continues
  <2>2. Service!Freeze(GrantOf(y)) =
          [key |-> y.key, mode |-> y.mode, task |-> TaskOf[y.owner], frozen |-> TRUE]
    BY DEF Service!Freeze, GrantOf
  <2>3. GrantOf(x) \in {GrantOf(y), Service!Freeze(GrantOf(y))}
    BY <2>1, <2>2 DEF GrantOf
  <2>. QED
    BY <2>3
<1>2. Service!Resolve
  BY <1>1 DEF Service!Resolve
<1>. QED
  BY <1>2 DEF Service!Next

\* acquire_once grants the task a whole compatible set.
LEMMA AcquireGrants ==
  ASSUME StoreInv, NEW o \in Owner, NEW requests \in SUBSET LockRequest,
         AcquireOnce(o, requests)
  PROVE  Service!Next
<1> DEFINE wanted == NormalizeLockRequests(requests)
           S == DOMAIN wanted
           new == {NewRecord(k, wanted[k], o, FreshGeneration(k, S)) : k \in S}
           t == TaskOf[o]
           granted == {[key |-> k, mode |-> wanted[k], task |-> t, frozen |-> FALSE] : k \in S}
<1>1. S \in SUBSET Key /\ wanted \in [S -> Service!Mode] /\ t \in Task
  BY Normalized, OwnerAssumption DEF NormalizeLockRequests, Service!Mode, Mode
<1>2. ASSUME NEW k \in S, NEW g \in Grants, g.key = k
      PROVE  ~g.frozen /\ g.mode = "shared" /\ wanted[k] = "shared"
  <2>1. PICK r \in records : g = GrantOf(r)
    BY DEF Grants
  <2>2. r \in RecordsOn(k) /\ g.frozen = r.hold /\ g.mode = r.mode
    BY <1>2, <2>1 DEF GrantOf, RecordsOn
  <2>3. ~HolderBlocks(r, wanted[k])
    BY <2>2 DEF AcquireOnce
  <2>. QED
    BY <1>1, <2>2, <2>3 DEF HolderBlocks, StoreInv, StoreTyped, LockRecord, Mode, Service!Mode, RecordsOn
<1>3. \A k \in S : Service!Joins(Grants, k, wanted[k])
  BY <1>2 DEF Service!Joins
<1>4. {GrantOf(r) : r \in new} = granted
  <2>1. \A k \in S : GrantOf(NewRecord(k, wanted[k], o, FreshGeneration(k, S)))
                       = [key |-> k, mode |-> wanted[k], task |-> t, frozen |-> FALSE]
    BY DEF GrantOf, NewRecord
  <2>. QED
    BY <2>1
<1>5. records' = records \union new
  BY DEF AcquireOnce
<1>6. {GrantOf(r) : r \in records'} = Grants \union granted
  BY <1>4, <1>5 DEF Grants
<1>7. Service!Grant(t, wanted)
  BY <1>3, <1>6 DEF Service!Grant, Grants
<1> HIDE DEF wanted, S, t
<1>. QED
  BY <1>1, <1>7 DEF Service!Next

\* transfer_complete hands the predecessor's grants over within the plan.
LEMMA TransferHandsOver ==
  ASSUME StoreInv, NEW predecessor, predecessor.owner \in Owner, NEW o \in Owner,
         NEW requests, TransferComplete(predecessor, o, requests)
  PROVE  Service!Next
<1> DEFINE old == HeldBy(predecessor.owner)
           S == {r.key : r \in old}
           new == {NewRecord(r.key, r.mode, o, FreshGeneration(r.key, S)) : r \in old}
           t == TaskOf[predecessor.owner]
           u == TaskOf[o]
           M == {GrantOf(r) : r \in old}
           kept == {GrantOf(r) : r \in records \ old}
           W == M \ kept
<1>1. old \subseteq records /\ t \in Task /\ u \in Task /\ PlanOf[t] = PlanOf[u]
  BY OwnerAssumption DEF HeldBy, TransferComplete
<1>2. M \in SUBSET Grants /\ W \in SUBSET M /\ Grants = kept \union M
  BY <1>1 DEF Grants
<1>3. \A r \in old : ~r.hold /\ r.owner = predecessor.owner
  BY DEF TransferComplete, HeldBy
<1>4. ASSUME NEW g \in M
      PROVE  g.task = t /\ ~g.frozen /\ Service!Joins(Grants \ M, g.key, g.mode)
  <2>1. PICK r \in old : g = GrantOf(r)
    OBVIOUS
  <2>2. g.task = t /\ ~g.frozen /\ g.key = r.key /\ g.mode = r.mode
    BY <1>3, <2>1 DEF GrantOf
  <2>3. ASSUME NEW h \in Grants \ M, h.key = g.key
        PROVE  ~h.frozen /\ h.mode = "shared" /\ g.mode = "shared"
    <3>1. PICK s \in records \ old : h = GrantOf(s)
      BY <1>2, <2>3
    <3>2. s.key = r.key /\ h.frozen = s.hold /\ h.mode = s.mode
      BY <2>2, <2>3, <3>1 DEF GrantOf
    <3>3. ~HolderBlocks(s, r.mode)
      BY <3>2 DEF TransferComplete, RecordsOn
    <3>4. s.mode \in Mode /\ r.mode \in Mode
      BY <1>1 DEF StoreInv, StoreTyped, LockRecord
    <3>. QED
      BY <2>2, <3>2, <3>3, <3>4 DEF HolderBlocks, Mode
  <2>. QED
    BY <2>2, <2>3 DEF Service!Joins
<1>5. {GrantOf(r) : r \in new} = {Service!Move(g, u) : g \in M}
  <2>1. ASSUME NEW r \in old
        PROVE  GrantOf(NewRecord(r.key, r.mode, o, FreshGeneration(r.key, S)))
                 = Service!Move(GrantOf(r), u)
    <3>1. r.hold = FALSE
      BY <1>1, <1>3 DEF StoreInv, StoreTyped, LockRecord
    <3>2. GrantOf(NewRecord(r.key, r.mode, o, FreshGeneration(r.key, S)))
            = [key |-> r.key, mode |-> r.mode, task |-> u, frozen |-> r.hold]
      BY <3>1 DEF GrantOf, NewRecord
    <3>. QED
      BY <3>2 DEF GrantOf, Service!Move
  <2> HIDE DEF S
  <2>. QED
    BY <2>1
<1>6. records' = (records \ old) \union new
  BY DEF TransferComplete
<1>7. {GrantOf(r) : r \in records'} = kept \union {Service!Move(g, u) : g \in M}
  BY <1>5, <1>6
<1>8. kept = Grants \ W
  BY <1>2
<1> HIDE DEF M, W, kept, t, u
<1>9. {GrantOf(r) : r \in records'} = (Grants \ W) \union {Service!Move(g, u) : g \in M}
  BY <1>7, <1>8
<1>10. Service!HandOver(t, u, M)
  BY <1>1, <1>2, <1>4, <1>9 DEF Service!HandOver, Grants
<1>. QED
  BY <1>1, <1>2, <1>10 DEF Service!Next, Grants

\* Every other transaction resolves.
LEMMA RenewResolves ==
  ASSUME StoreInv, NEW h, Renew(h) PROVE Service!Next
<1>1. \A r \in records : /\ Renewed(r).key = r.key /\ Renewed(r).mode = r.mode
                         /\ Renewed(r).owner = r.owner /\ Renewed(r).hold = r.hold
  BY DEF Renewed, StoreInv, StoreTyped, LockRecord
<1>2. \A x \in records' : Continues(x)
  BY <1>1, SelectedRecords DEF Renew, Continues
<1>. QED
  BY <1>2, Resolution

\* release, the settlements and release_conflict_hold only end grants.
LEMMA RemovalResolves ==
  ASSUME records' \subseteq records PROVE Service!Next
<1>1. \A x \in records' : Continues(x)
  BY DEF Continues
<1>. QED
  BY <1>1, Resolution

\* A promotion freezes the retained grants and ends the handle's others.
LEMMA PromoteResolves ==
  ASSUME StoreInv, NEW h, NEW retained, PromoteConflictHold(h, retained) PROVE Service!Next
<1>1. \A r \in records : /\ Held(r).key = r.key /\ Held(r).mode = r.mode
                         /\ Held(r).owner = r.owner /\ Held(r).hold = TRUE
  BY DEF Held, StoreInv, StoreTyped, LockRecord
<1>2. \A x \in records' : Continues(x)
  BY <1>1, SelectedRecords DEF PromoteConflictHold, Continues
<1>. QED
  BY <1>2, Resolution

\* A recovery ends, freezes, or passes to another process of the same task, which
\* the service does not see.
LEMMA RecoverResolves ==
  ASSUME StoreInv, NEW released, NEW held \in SUBSET records,
         NEW transferred \in SUBSET records, NEW o \in Owner,
         RecoverExpired(released, held, transferred, o)
  PROVE  Service!Next
<1> DEFINE S == {r.key : r \in transferred}
<1>1. \A r \in held : /\ Held(r).key = r.key /\ Held(r).mode = r.mode
                      /\ Held(r).owner = r.owner /\ Held(r).hold = TRUE
  BY DEF Held, StoreInv, StoreTyped, LockRecord
<1>2. \A r \in transferred : /\ Recovered(r, o, S).key = r.key /\ Recovered(r, o, S).mode = r.mode
                             /\ Recovered(r, o, S).owner = o /\ Recovered(r, o, S).hold = FALSE
  BY DEF Recovered, NewRecord
<1>3. \A r \in transferred : r.hold = FALSE /\ TaskOf[r.owner] = TaskOf[o]
  BY DEF RecoverExpired, StoreInv, StoreTyped, LockRecord
<1>4. \A r \in held : Continues(Held(r))
  BY <1>1 DEF Continues
<1>5. \A r \in transferred : Continues(Recovered(r, o, S))
  BY <1>2, <1>3 DEF Continues
<1>6. \A r \in records : Continues(r)
  BY DEF Continues
<1>7. records' \subseteq records \union {Held(r) : r \in held}
                           \union {Recovered(r, o, S) : r \in transferred}
  BY DEF RecoverExpired
<1>8. \A x \in records' : Continues(x)
  BY <1>4, <1>5, <1>6, <1>7
<1>. QED
  BY <1>8, Resolution

\* Time changes no grant: an expired lease is still a grant.
LEMMA PassLeasesResolves ==
  ASSUME StoreInv, PassLeases PROVE Service!Next
<1>1. \A r \in records : /\ Aged(r).key = r.key /\ Aged(r).mode = r.mode
                         /\ Aged(r).owner = r.owner /\ Aged(r).hold = r.hold
  BY DEF Aged, StoreInv, StoreTyped, LockRecord
<1>2. \A x \in records' : Continues(x)
  BY <1>1 DEF PassLeases, Continues
<1>. QED
  BY <1>2, Resolution

\* Every step of the store is a step of the service.
LEMMA StepImplements ==
  ASSUME Inv, Next PROVE Service!Next
<1>0. StoreInv
  BY DEF Inv
<1>1. ASSUME NEW o \in Owner, NEW requests \in RequestLists, Acquire(o, requests)
      PROVE  Service!Next
  <2>1. requests \in SUBSET LockRequest
    BY RequestAssumption
  <2>2. CASE AcquireOnce(o, requests)
    BY <1>0, <2>1, <2>2, AcquireGrants
  <2>3. CASE AcquireAgain(o, requests)
    BY <2>3, RemovalResolves DEF AcquireAgain, storeVars
  <2>. QED
    BY <1>1, <2>2, <2>3 DEF Acquire
<1>2. ASSUME NEW o \in Owner, NEW requests \in RequestLists, Settle(o, requests)
      PROVE  Service!Next
  BY <1>2, RemovalResolves DEF Settle, SettleUnrecorded
<1>3. ASSUME NEW o \in Owner, NEW requests \in RequestLists, NEW h \in handles,
             Transfer(h, o, requests)
      PROVE  Service!Next
  <2>1. h.owner \in Owner
    BY DEF Inv, HandlesIssued, LockHandle
  <2>. QED
    BY <1>0, <1>3, <2>1, TransferHandsOver DEF Transfer
<1>4. ASSUME NEW h \in handles, Use(h)
      PROVE  Service!Next
  <2>1. CASE Renew(h)
    BY <1>0, <2>1, RenewResolves
  <2>2. CASE \E cleanup \in BOOLEAN : Release(h, cleanup)
    BY <2>2, RemovalResolves DEF Release
  <2>3. CASE \E retained \in SUBSET Key : PromoteConflictHold(h, retained)
    BY <1>0, <2>3, PromoteResolves
  <2>. QED
    BY <1>4, <2>1, <2>2, <2>3 DEF Use
<1>5. ASSUME NEW o \in Owner, NEW R \in SUBSET records, ReleaseHold(o, R)
      PROVE  Service!Next
  BY <1>5, RemovalResolves DEF ReleaseHold, ReleaseConflictHold
<1>6. ASSUME NEW o \in Owner, NEW A \in SUBSET records, NEW B \in SUBSET (records \ A),
             NEW C \in SUBSET (records \ (A \union B)), Recover(A, B, C, o)
      PROVE  Service!Next
  <2>1. B \in SUBSET records /\ C \in SUBSET records
    OBVIOUS
  <2>. QED
    BY <1>0, <1>6, <2>1, RecoverResolves DEF Recover
<1>7. ASSUME Tick PROVE Service!Next
  BY <1>0, <1>7, PassLeasesResolves DEF Tick
<1>. QED
  BY <1>1, <1>2, <1>3, <1>4, <1>5, <1>6, <1>7 DEF Next

\* The store implements the lock service, for any callers.
THEOREM Implements == Spec => ServiceSpec
<1>1. Init => Service!Init
  BY DEF Init, StoreInit, Service!Init
<1>2. Inv /\ [Next]_vars => [Service!Next]_Grants
  <2>1. Inv /\ Next => Service!Next
    BY StepImplements
  <2>2. UNCHANGED vars => UNCHANGED Grants
    BY DEF vars, Grants
  <2>. QED
    BY <2>1, <2>2
<1>. QED
  BY <1>1, <1>2, Invariance, PTL DEF Spec, ServiceSpec, Service!Spec, Grants
=============================================================================
