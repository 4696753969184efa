-------------------------- MODULE GovernedPlanProofs ---------------------------
(***************************************************************************)
(* The safety of GovernedPlan, for plans of any length and any number of   *)
(* requests, faults and crashes.                                           *)
(***************************************************************************)
EXTENDS GovernedPlan, FiniteSetTheorems, WellFoundedInduction, TLAPS

-----------------------------------------------------------------------------
(* The inductive invariant.                                                *)

Executor == {"apply", "pass"}
\* Between the claim of a child and its verdict.
Working == {"preflight", "consume", "event", "reference", "witness", "commit", "send",
            "readback"}
\* A worker that has chosen a child; a recovery pass chooses before it loads.
Underway(p) ==
  worker[p].pc \in Working \union (IF p = "apply" THEN {"enter"} ELSE {"load", "enter", "retry"})

\* Only one worker is between two writes.
OneWriter ==
  \A p, q \in Process : p # q /\ worker[p].pc \in Writing => worker[q].pc \in Awaiting

\* The claim of a child is over when it has an outcome; what was sent was claimed.
ChildrenAgree ==
  \A i \in Op : /\ Ended(i) <=> child[i].claim = "over"
                /\ child[i].intent => child[i].claim # "none"

\* No child is claimed before its task is stored.
Blank == task.state = "absent" => \A i \in Op : child[i].claim = "none"

ChildInv == ChildrenAgree /\ Blank /\ InOrder /\ IntentIsWitnessed

\* What an apply has before it enters its first child.
ApplyBegins ==
  /\ worker["apply"].pc \in {"idle", "declare", "load"} => worker["apply"].op = 1
  /\ At("apply", "declare") => task.state = "absent"

\* All children ahead of the chosen one are verified.
Ahead(p) ==
  Underway(p) =>
    /\ \A j \in Op : j < Current(p) => Verified(j)
    /\ p = "pass" => Current(p) \in Op

\* The claim is held; only a pass may find its child cancelled, and only when
\* it awaits its preflight.
HoldsClaim(p) ==
  worker[p].pc \in Working =>
    /\ Current(p) \in Op
    /\ \/ child[Current(p)].claim = "live"
       \/ p = "pass" /\ At(p, "preflight") /\ Ended(Current(p))

\* What is durable before the next of the writes of the boundary.
Papers(p) ==
  /\ worker[p].pc \in {"witness", "commit"} => child[Current(p)].ref
  /\ At(p, "commit") => task.witness
  /\ worker[p].pc \in {"send", "readback"} => child[Current(p)].intent

\* The task of a chosen child goes on, unless a pass has a child that ended.
TaskGoesOn(p) ==
  /\ Underway(p) /\ ~Active => p = "pass" /\ Ended(Current(p))
  /\ At(p, "outcome") => Active

WorkInv(p) == Ahead(p) /\ HoldsClaim(p) /\ Papers(p) /\ TaskGoesOn(p)

\* No child is worked on twice at a time.
Exclusive ==
  worker["apply"].pc \in Working /\ worker["pass"].pc \in Working
    => Current("apply") # Current("pass")

\* The first child that is not verified has ended.
FrontEnded ==
  \A i \in Op : (\A j \in Op : j < i => Verified(j)) => Ended(i)
CancelUnderway ==
  At("cancel", "event") =>
    At("apply", "idle") /\ task.state = "preflight" /\ Intents = {} /\ FrontEnded

\* The plan is called applied when all is verified, stored or about to be.
AppliedIsVerified ==
  /\ plan.status = "applied" => AllVerified
  /\ \A p \in Process : worker[p].copy.status = "applied" => AllVerified

EndInv == AppliedIsVerified /\ CancelledSendsNothing /\ SucceededIsVerified

IInv ==
  /\ TypeOK /\ OneWriter /\ ChildInv /\ ApplyBegins
  /\ WorkInv("apply") /\ WorkInv("pass") /\ Exclusive /\ CancelUnderway /\ EndInv

-----------------------------------------------------------------------------
USE PlanAssumption DEF Op, Process, Executor, Awaiting, Writing, Final, TaskState, At,
                       Current, Ended, Open, Verified

\* Every set of natural numbers that is not empty has a least element.
LEMMA LeastElement ==
  ASSUME NEW S \in SUBSET Nat, S # {}
  PROVE  \E i \in S : \A j \in S : i <= j
<1> DEFINE T == {1..i : i \in S}
<1>1. T \subseteq FiniteSubsetsOf(Nat)
  BY FS_Interval DEF FiniteSubsetsOf
<1>2. IsWellFoundedOn(StrictSubsetOrdering(Nat), FiniteSubsetsOf(Nat))
  BY FS_StrictSubsetOrderingWellFounded
<1>3. T # {}
  OBVIOUS
<1>4. PICK x \in T : \A y \in T : <<y, x>> \notin StrictSubsetOrdering(Nat)
  <2> HIDE DEF T
  <2> QED BY <1>1, <1>2, <1>3, WFMin
<1>5. PICK i \in S : x = 1..i
  BY <1>4
<1>6. ASSUME NEW j \in S PROVE i <= j
  <2>1. SUFFICES ASSUME j < i PROVE FALSE
    OBVIOUS
  <2>2. 1..j \in T /\ 1..j \in SUBSET Nat /\ 1..i \in SUBSET Nat
    OBVIOUS
  <2>3. 1..j \subseteq 1..i /\ 1..j # 1..i
    <3>1. i \in 1..i /\ i \notin 1..j
      BY <2>1
    <3> QED BY <2>1, <3>1
  <2>4. <<1..j, x>> \in StrictSubsetOrdering(Nat)
    BY <1>5, <2>2, <2>3 DEF StrictSubsetOrdering
  <2> QED BY <1>4, <2>2, <2>4
<1> QED BY <1>6

\* First is the least operation of a set that has one.
LEMMA FirstIsLeast ==
  ASSUME NEW S \in SUBSET Op, S # {}
  PROVE  First(S) \in S /\ \A j \in S : First(S) <= j
<1>1. \E i \in S : \A j \in S : i <= j
  BY LeastElement
<1> QED BY <1>1 DEF First

-----------------------------------------------------------------------------
(* What a step does to the workers.                                        *)

\* p goes to pc with an operation and a copy of the plan; the others stay.
Moves(p, pc, op, copy) ==
  /\ worker' \in [Process -> Worker]
  /\ worker'[p].pc = pc /\ worker'[p].op = op /\ worker'[p].copy = copy
  /\ \A q \in Process : q # p => worker'[q] = worker[q]

\* The state of one worker is replaced.
LEMMA RecordMoves ==
  ASSUME TypeOK, NEW p \in Process, NEW w \in Worker, worker' = [worker EXCEPT ![p] = w]
  PROVE  Moves(p, w.pc, w.op, w.copy)
BY DEF TypeOK, Moves

\* Goto keeps the operation and the copy.
LEMMA GotoMoves ==
  ASSUME TypeOK, NEW p \in Process, NEW pc \in Awaiting \union Writing, Goto(p, pc)
  PROVE  Moves(p, pc, worker[p].op, worker[p].copy)
<1> DEFINE w == [worker[p] EXCEPT !.pc = pc]
<1>1. worker[p] \in Worker
  BY DEF TypeOK
<1>2. w \in Worker /\ w.pc = pc /\ w.op = worker[p].op /\ w.copy = worker[p].copy
  BY <1>1 DEF Worker
<1>3. worker' = [worker EXCEPT ![p] = w]
  BY DEF Goto
<1> HIDE DEF w
<1> QED BY <1>2, <1>3, RecordMoves

\* Leave forgets them.
LEMMA LeaveMoves ==
  ASSUME TypeOK, NEW p \in Process, Leave(p)
  PROVE  Moves(p, "idle", 1, Approved)
<1>1. Idle \in Worker /\ Idle.pc = "idle" /\ Idle.op = 1 /\ Idle.copy = Approved
  BY DEF Idle, Approved, Worker, Plan
<1> QED BY <1>1, RecordMoves DEF Leave

\* The projection takes the stored plan for an apply.
LEMMA ProjectMoves ==
  ASSUME TypeOK, NEW p \in Process, Project(p)
  PROVE  Moves(p, "attempts", worker[p].op, IF p = "apply" THEN plan ELSE worker[p].copy)
<1> DEFINE copy == IF p = "apply" THEN plan ELSE worker[p].copy
           w == [worker[p] EXCEPT !.pc = "attempts", !.copy = copy]
<1>1. worker[p] \in Worker /\ plan \in Plan
  BY DEF TypeOK
<1>2. w \in Worker /\ w.pc = "attempts" /\ w.op = worker[p].op /\ w.copy = copy
  BY <1>1 DEF Worker
<1>3. worker' = [worker EXCEPT ![p] = w]
  BY <1>1 DEF Project, TypeOK, Worker
<1> HIDE DEF w
<1> QED BY <1>2, <1>3, RecordMoves

\* A pass that settles goes on with its next turn.
LEMMA SettleMoves ==
  ASSUME TypeOK, Settle
  PROVE  /\ \E pc \in {"discover", "history", "sweep"} : Moves("pass", pc, 1, Approved)
         /\ checkpoint' = 0
<1> DEFINE pc == AfterTurn[worker["pass"].turn]
           w == [Idle EXCEPT !.pc = pc]
<1>1. worker["pass"].turn \in {"checkpointed", "priority", "preintent"}
  BY DEF TypeOK, Worker
<1>2. pc \in {"discover", "history", "sweep"}
  BY <1>1 DEF AfterTurn
<1>3. worker' = [worker EXCEPT !["pass"] = w] /\ checkpoint' = 0
  BY DEF Settle
<1> HIDE DEF pc
<1>4. w \in Worker /\ w.pc = pc /\ w.op = 1 /\ w.copy = Approved
  <2>1. Idle \in Worker /\ Idle.op = 1 /\ Idle.copy = Approved
    BY DEF Idle, Approved, Worker, Plan
  <2> QED BY <1>2, <2>1 DEF Worker
<1> HIDE DEF w
<1>5. Moves("pass", pc, 1, Approved)
  BY <1>3, <1>4, RecordMoves
<1> QED BY <1>2, <1>3, <1>5

\* An error sends an apply away and a pass to its retry.
LEMMA FailMoves ==
  ASSUME TypeOK, NEW p \in Executor, Fail(p)
  PROVE  \/ p = "apply" /\ Moves(p, "idle", 1, Approved)
         \/ p = "pass" /\ Moves(p, "retry", worker[p].op, worker[p].copy)
BY LeaveMoves, GotoMoves DEF Fail

\* A projection that is over.
LEMMA ProjectedMoves ==
  ASSUME TypeOK, NEW p \in Executor, Projected(p)
  PROVE  /\ \E pc \in {"idle", "discover", "history", "sweep"} : Moves(p, pc, 1, Approved)
         /\ checkpoint' \in 0..Operations
BY LeaveMoves, SettleMoves DEF Projected, TypeOK

\* Where the others await, a step of p leaves one writer.
LEMMA OneWriterAfter ==
  ASSUME TypeOK, NEW p \in Process, NEW pc, Turn(p, pc),
         \A q \in Process : q # p => worker'[q] = worker[q]
  PROVE  OneWriter'
BY DEF Turn, OneWriter

-----------------------------------------------------------------------------
(* What a step does to the children.                                       *)

\* Every change of a child keeps an outcome, a reference and an intent, claims
\* only behind verified operations, and makes an intent durable only with its
\* papers.
Grows ==
  /\ child' \in [Op -> Child]
  /\ \A i \in Op :
       /\ Ended(i) => child'[i].outcome = child[i].outcome
       /\ Ended(i)' <=> child'[i].claim = "over"
       /\ child[i].intent => child'[i].intent
       /\ child[i].ref => child'[i].ref
       /\ child'[i].intent => child'[i].claim # "none"
       /\ child'[i].intent => child[i].intent \/ (child'[i].ref /\ task'.witness)
       /\ child'[i].claim # "none" =>
            child[i].claim # "none" \/ \A j \in Op : j < i => Verified(j)

\* Only child i changes, its claim to claim.
Claims(i, claim) ==
  /\ child'[i].claim = claim
  /\ \A j \in Op : j # i => child'[j] = child[j]

\* Nothing changes.
LEMMA SameGrows ==
  ASSUME TypeOK, ChildInv, UNCHANGED child
  PROVE  Grows
BY DEF TypeOK, ChildInv, ChildrenAgree, Grows

\* The parts of one child.
LEMMA ChildType ==
  ASSUME TypeOK, NEW i \in Op
  PROVE  /\ child[i] \in Child /\ child[i].claim \in {"none", "live", "lapsed", "over"}
         /\ child[i].intent \in BOOLEAN /\ child[i].outcome \in Outcome
         /\ child[i].ref \in BOOLEAN
BY DEF TypeOK, Child

\* One child is replaced by one that keeps what it had.
LEMMA OneGrows ==
  ASSUME TypeOK, ChildInv, NEW i \in Op, NEW c \in Child,
         child' = [child EXCEPT ![i] = c],
         Ended(i) => c.outcome = child[i].outcome,
         c.outcome # "none" <=> c.claim = "over",
         child[i].intent => c.intent,
         child[i].ref => c.ref,
         c.intent => c.claim # "none",
         c.intent => child[i].intent \/ (c.ref /\ task'.witness),
         c.claim # "none" => child[i].claim # "none" \/ \A j \in Op : j < i => Verified(j)
  PROVE  Grows /\ child'[i] = c /\ \A j \in Op : j # i => child'[j] = child[j]
<1>1. child' \in [Op -> Child] /\ child'[i] = c /\ \A j \in Op : j # i => child'[j] = child[j]
  BY DEF TypeOK
<1>2. Grows
  BY <1>1 DEF Grows, ChildInv, ChildrenAgree
<1> QED BY <1>1, <1>2

\* An open child, or one whose turn it is, ends.
LEMMA EndGrows ==
  ASSUME TypeOK, ChildInv, NEW i \in Op, NEW o \in Outcome \ {"none"}, End(i, o), ~Ended(i),
         child[i].claim # "none" \/ \A j \in Op : j < i => Verified(j)
  PROVE  Grows /\ Claims(i, "over") /\ child'[i].outcome = o /\ Intents' = Intents
<1> DEFINE c == [child[i] EXCEPT !.claim = "over", !.outcome = o]
<1>1. child[i] \in Child
  BY ChildType
<1>2. /\ c \in Child /\ c.claim = "over" /\ c.outcome = o
      /\ c.intent = child[i].intent /\ c.ref = child[i].ref
  BY <1>1 DEF Child, Outcome
<1>3. child' = [child EXCEPT ![i] = c]
  BY <1>1 DEF End, TypeOK, Child
<1> HIDE DEF c
<1>4. Grows /\ child'[i] = c /\ \A j \in Op : j # i => child'[j] = child[j]
  <2>1. /\ ~Ended(i)
        /\ c.outcome # "none" <=> c.claim = "over"
        /\ c.claim # "none"
        /\ child[i].intent => c.intent
        /\ child[i].ref => c.ref
        /\ c.intent => child[i].intent
    BY <1>2
  <2> QED BY <1>2, <1>3, <2>1, OneGrows
<1>5. Intents' = Intents
  BY <1>2, <1>4 DEF Intents
<1> QED BY <1>2, <1>4, <1>5 DEF Claims

\* The claim of a child that has not ended is taken, or lapses.
LEMMA ClaimGrows ==
  ASSUME TypeOK, ChildInv, NEW i \in Op, NEW claim \in {"live", "lapsed"}, ~Ended(i),
         child' = [child EXCEPT ![i].claim = claim],
         child[i].claim # "none" \/ \A j \in Op : j < i => Verified(j)
  PROVE  /\ Grows /\ Claims(i, claim) /\ Intents' = Intents
         /\ child'[i].intent = child[i].intent
<1> DEFINE c == [child[i] EXCEPT !.claim = claim]
<1>1. child[i] \in Child
  BY ChildType
<1>2. /\ c \in Child /\ c.claim = claim /\ c.outcome = child[i].outcome
      /\ c.intent = child[i].intent /\ c.ref = child[i].ref
  BY <1>1 DEF Child
<1>3. child' = [child EXCEPT ![i] = c]
  OBVIOUS
<1> HIDE DEF c
<1>4. Grows /\ child'[i] = c /\ \A j \in Op : j # i => child'[j] = child[j]
  <2>1. /\ ~Ended(i)
        /\ c.outcome # "none" <=> c.claim = "over"
        /\ c.claim # "none"
        /\ child[i].intent => c.intent
        /\ child[i].ref => c.ref
        /\ c.intent => child[i].intent
    BY <1>2
  <2> QED BY <1>2, <1>3, <2>1, OneGrows
<1>5. Intents' = Intents
  BY <1>2, <1>4 DEF Intents
<1> QED BY <1>2, <1>4, <1>5 DEF Claims

\* A claimed child gets its reference.
LEMMA ReferenceGrows ==
  ASSUME TypeOK, ChildInv, NEW i \in Op, child' = [child EXCEPT ![i].ref = TRUE]
  PROVE  Grows /\ Claims(i, child[i].claim) /\ Intents' = Intents /\ child'[i].ref
<1> DEFINE c == [child[i] EXCEPT !.ref = TRUE]
<1>1. child[i] \in Child
  BY ChildType
<1>2. /\ c \in Child /\ c.claim = child[i].claim /\ c.outcome = child[i].outcome
      /\ c.intent = child[i].intent /\ c.ref
  BY <1>1 DEF Child
<1>3. child' = [child EXCEPT ![i] = c]
  OBVIOUS
<1>4. /\ c.outcome # "none" <=> c.claim = "over"
      /\ c.intent => c.claim # "none"
  BY <1>2 DEF ChildInv, ChildrenAgree
<1> HIDE DEF c
<1>5. Grows /\ child'[i] = c /\ \A j \in Op : j # i => child'[j] = child[j]
  BY <1>2, <1>3, <1>4, OneGrows
<1>6. Intents' = Intents
  BY <1>2, <1>5 DEF Intents
<1> QED BY <1>2, <1>5, <1>6 DEF Claims

\* A claimed child with its papers gets its intent.
LEMMA IntentGrows ==
  ASSUME TypeOK, ChildInv, NEW i \in Op, child' = [child EXCEPT ![i].intent = TRUE],
         child[i].claim = "live", child[i].ref, task'.witness
  PROVE  Grows /\ Claims(i, "live") /\ child'[i].intent /\ child'[i].ref
<1> DEFINE c == [child[i] EXCEPT !.intent = TRUE]
<1>1. child[i] \in Child
  BY ChildType
<1>2. /\ c \in Child /\ c.claim = "live" /\ c.outcome = child[i].outcome
      /\ c.intent /\ c.ref
  BY <1>1 DEF Child
<1>3. child' = [child EXCEPT ![i] = c]
  OBVIOUS
<1>4. c.outcome = "none"
  BY <1>2 DEF ChildInv, ChildrenAgree
<1> HIDE DEF c
<1>5. Grows /\ child'[i] = c /\ \A j \in Op : j # i => child'[j] = child[j]
  BY <1>2, <1>3, <1>4, OneGrows
<1> QED BY <1>2, <1>5 DEF Claims

-----------------------------------------------------------------------------
(* What such steps keep.                                                   *)

\* What is verified stays so.
LEMMA VerifiedStays ==
  ASSUME Grows
  PROVE  /\ \A i \in Op : Verified(i) => Verified(i)'
         /\ \A i \in Op : Ended(i) => Ended(i)'
         /\ AllVerified => AllVerified'
BY DEF Grows, AllVerified, Unverified

\* The children agree, are in order and have their papers after every such step.
LEMMA ChildInvStays ==
  ASSUME TypeOK, ChildInv, Grows, task.witness => task'.witness,
         task'.state = "absent" => \A i \in Op : child'[i].claim = "none"
  PROVE  ChildInv'
<1>1. ChildrenAgree'
  BY DEF Grows, ChildrenAgree
<1>2. Blank'
  BY DEF Blank
<1>3. InOrder'
  BY VerifiedStays DEF ChildInv, InOrder, Grows
<1>4. IntentIsWitnessed'
  BY DEF ChildInv, IntentIsWitnessed, Intents, Grows
<1> QED BY <1>1, <1>2, <1>3, <1>4 DEF ChildInv

\* A worker that does not move keeps what it relies on, when its claim is left
\* to it, or it is a pass in its preflight whose child is ended, and its task
\* goes on.
LEMMA WorkStays ==
  ASSUME NEW q \in Executor, TypeOK, ChildInv, WorkInv(q), Grows, worker'[q] = worker[q],
         task.witness => task'.witness,
         worker[q].pc \in Working =>
           \/ child'[Current(q)].claim = child[Current(q)].claim
           \/ q = "pass" /\ At(q, "preflight") /\ Ended(Current(q))',
         Underway(q) /\ Active /\ ~Active' => q = "pass" /\ Ended(Current(q))',
         At(q, "outcome") => Active'
  PROVE  WorkInv(q)'
<1>1. /\ Underway(q)' <=> Underway(q)
      /\ Current(q)' = Current(q)
  BY DEF Underway, Working
<1>2. Ahead(q)'
  BY <1>1, VerifiedStays DEF WorkInv, Ahead
<1>3. HoldsClaim(q)'
  <2>1. SUFFICES ASSUME worker[q].pc \in Working
                 PROVE  /\ Current(q) \in Op
                        /\ \/ child'[Current(q)].claim = "live"
                           \/ q = "pass" /\ At(q, "preflight") /\ Ended(Current(q))'
    BY DEF HoldsClaim, Working
  <2>2. /\ Current(q) \in Op
        /\ \/ child[Current(q)].claim = "live"
           \/ q = "pass" /\ At(q, "preflight") /\ Ended(Current(q))
    BY <2>1 DEF WorkInv, HoldsClaim
  <2> QED BY <2>1, <2>2, VerifiedStays
<1>4. Papers(q)'
  BY DEF WorkInv, Papers, Grows, HoldsClaim, Working
<1>5. TaskGoesOn(q)'
  BY <1>1, VerifiedStays DEF WorkInv, TaskGoesOn, Ahead, Active
<1> QED BY <1>2, <1>3, <1>4, <1>5 DEF WorkInv

\* A worker that has not chosen a child, or has only to project it.
LEMMA NotUnderway ==
  ASSUME NEW q \in Executor,
         worker'[q].pc \notin Working \union {"load", "enter", "retry", "outcome"}
  PROVE  WorkInv(q)'
BY DEF WorkInv, Ahead, HoldsClaim, Papers, TaskGoesOn, Underway, Working

\* What is left of the bounds.
LEMMA UseType ==
  ASSUME TypeOK, NEW r \in {"applies", "aborts", "faults", "crashes"}, Use(r)
  PROVE  left' \in [applies : 0..MaxApplies, aborts : 0..MaxAborts,
                    faults : 0..MaxFaults, crashes : 0..MaxCrashes]
BY DEF TypeOK, Use

\* The part of the type of a step that seldom changes.
RestType ==
  /\ checkpoint \in 0..Operations
  /\ clock \in [approval : {"valid", "expired", "past"}, overdue : BOOLEAN]
  /\ serving \in BOOLEAN
  /\ left \in [applies : 0..MaxApplies, aborts : 0..MaxAborts,
               faults : 0..MaxFaults, crashes : 0..MaxCrashes]
TaskType == task \in [state : TaskState, dispatched : BOOLEAN, witness : BOOLEAN]

\* The invariant after a step of p, from what the step does to p's own part,
\* to the children and to the task.
LEMMA Assemble ==
  ASSUME IInv, NEW p \in Process, NEW pc, NEW from, NEW op, NEW copy,
         Turn(p, from), Moves(p, pc, op, copy), Grows,
         RestType', TaskType', plan' \in Plan,
         task.witness => task'.witness,
         task'.state = "absent" => \A i \in Op : child'[i].claim = "none",
         \A q \in Executor : q # p =>
           /\ worker[q].pc \in Working =>
                \/ child'[Current(q)].claim = child[Current(q)].claim
                \/ q = "pass" /\ At(q, "preflight") /\ Ended(Current(q))'
           /\ Underway(q) /\ Active /\ ~Active' => q = "pass" /\ Ended(Current(q))',
         p # "apply" /\ At("apply", "declare") => task'.state = "absent",
         p = "apply" => ApplyBegins',
         p \in Executor => WorkInv(p)',
         Exclusive',
         p = "cancel" => CancelUnderway',
         plan'.status = "applied" => AllVerified',
         copy.status = "applied" => AllVerified',
         CancelledSendsNothing', SucceededIsVerified'
  PROVE  IInv'
<1>1. TypeOK'
  BY DEF TypeOK, RestType, TaskType, Moves, Grows
<1>2. OneWriter'
  BY OneWriterAfter DEF IInv, Moves
<1>3. ChildInv'
  BY ChildInvStays DEF IInv
<1>4. ApplyBegins'
  BY DEF IInv, ApplyBegins, Moves
<1>5. ASSUME NEW q \in Executor
      PROVE  WorkInv(q)'
  <2>1. CASE q = p
    BY <2>1
  <2>2. CASE q # p
    <3>1. worker'[q] = worker[q] /\ worker[q].pc \in Awaiting
      BY <2>2 DEF Moves, Turn
    <3>2. ~At(q, "outcome")
      BY <3>1
    <3>3. WorkInv(q)
      BY DEF IInv
    <3> QED BY <2>2, <3>1, <3>2, <3>3, WorkStays DEF IInv
  <2> QED BY <2>1, <2>2
<1>6. CancelUnderway'
  <2>1. CASE p # "cancel"
    BY <2>1 DEF Turn, Moves, CancelUnderway
  <2> QED BY <2>1
<1>7. AppliedIsVerified'
  BY VerifiedStays DEF IInv, EndInv, AppliedIsVerified, Moves
<1> QED BY <1>1, <1>2, <1>3, <1>4, <1>5, <1>6, <1>7 DEF IInv, EndInv

\* A step that moves only p, without a claim.
LEMMA PlainStep ==
  ASSUME IInv, NEW p \in Process, NEW pc, NEW from, NEW op, NEW copy \in Plan,
         Turn(p, from), Moves(p, pc, op, copy), RestType', UNCHANGED <<plan, task, child>>,
         copy.status = "applied" => AllVerified,
         p = "apply" => ApplyBegins',
         p = "cancel" => pc # "event",
         p \in Executor => WorkInv(p)' /\ (pc \in Working => worker[p].pc \in Working /\ op = worker[p].op)
  PROVE  IInv'
<1>1. Grows
  BY SameGrows DEF IInv
<1>2. TaskType' /\ plan' \in Plan
  BY DEF IInv, TypeOK, TaskType
<1>3. Active' = Active /\ AllVerified' = AllVerified /\ Intents' = Intents
  BY DEF Active, AllVerified, Unverified, Intents
<1>4. Exclusive'
  BY DEF IInv, Exclusive, Moves, Working
<1>5. CancelledSendsNothing' /\ SucceededIsVerified'
  BY <1>3 DEF IInv, EndInv, CancelledSendsNothing, SucceededIsVerified
<1>6. p = "cancel" => CancelUnderway'
  BY DEF CancelUnderway, Moves
<1>7. plan'.status = "applied" => AllVerified'
  BY <1>3 DEF IInv, EndInv, AppliedIsVerified
<1>8. task'.state = "absent" => \A i \in Op : child'[i].claim = "none"
  BY DEF IInv, ChildInv, Blank
<1>9. p # "apply" /\ At("apply", "declare") => task'.state = "absent"
  BY DEF IInv, ApplyBegins
<1> QED BY <1>1, <1>2, <1>3, <1>4, <1>5, <1>6, <1>7, <1>8, <1>9, Assemble

\* The copy a worker has of the plan, and what it may become.
LEMMA Copies ==
  ASSUME IInv, NEW p \in Process
  PROVE  /\ plan \in Plan /\ worker[p].copy \in Plan /\ Approved \in Plan
         /\ worker[p].op \in 1..(Operations + 1) /\ worker[p].pc \in Awaiting \union Writing
         /\ plan.status = "applied" => AllVerified
         /\ worker[p].copy.status = "applied" => AllVerified
         /\ Approved.status # "applied"
<1>1. worker[p] \in Worker /\ plan \in Plan
  BY DEF IInv, TypeOK
<1>2. worker[p].copy \in Plan /\ worker[p].op \in 1..(Operations + 1)
      /\ worker[p].pc \in Awaiting \union Writing
  BY <1>1 DEF Worker
<1>3. Approved \in Plan /\ Approved.status # "applied"
  BY DEF Approved, Plan
<1> QED BY <1>1, <1>2, <1>3 DEF IInv, EndInv, AppliedIsVerified

\* The worker is done: with an apply that leaves, a pass that settles.
LEMMA DoneStep ==
  ASSUME IInv, NEW p \in Executor, NEW pc \in {"idle", "discover", "history", "sweep"}, NEW from,
         Turn(p, from), Moves(p, pc, 1, Approved), RestType', UNCHANGED <<plan, task, child>>
  PROVE  IInv'
<1>1. worker'[p].pc = pc /\ worker'[p].op = 1
  BY DEF Moves
<1>2. WorkInv(p)'
  BY <1>1, NotUnderway DEF Working
<1>3. p = "apply" => ApplyBegins'
  BY <1>1 DEF ApplyBegins
<1> QED BY <1>2, <1>3, Copies, PlainStep DEF Working

\* The types, one by one.
LEMMA Types ==
  ASSUME IInv
  PROVE  /\ RestType /\ TaskType
         /\ UNCHANGED <<clock, serving, left>> /\ checkpoint' \in 0..Operations => RestType'
         /\ UNCHANGED <<checkpoint, clock, serving>>
              => \A r \in {"applies", "aborts", "faults", "crashes"} : Use(r) => RestType'
<1>1. RestType /\ TaskType
  BY DEF IInv, TypeOK, RestType, TaskType
<1>2. ASSUME UNCHANGED <<clock, serving, left>>, checkpoint' \in 0..Operations
      PROVE  RestType'
  BY <1>1, <1>2 DEF RestType
<1>3. ASSUME UNCHANGED <<checkpoint, clock, serving>>,
             NEW r \in {"applies", "aborts", "faults", "crashes"}, Use(r)
      PROVE  RestType'
  BY <1>1, <1>3, UseType DEF RestType, IInv
<1> QED BY <1>1, <1>2, <1>3

\* Nothing but the worker and a bound.
LEMMA RestKept ==
  ASSUME IInv, UNCHANGED <<checkpoint, clock, serving, left>>
  PROVE  RestType'
BY Types DEF RestType

-----------------------------------------------------------------------------
(* The steps of a request.                                                 *)

\* A first apply finds no task.
LEMMA ApplyFirstKeeps ==
  ASSUME IInv, ApplyFirst
  PROVE  IInv'
<1>1. Moves("apply", "declare", worker["apply"].op, worker["apply"].copy)
  BY GotoMoves DEF IInv, ApplyFirst
<1>2. RestType'
  BY Types DEF ApplyFirst
<1>3. WorkInv("apply")'
  BY <1>1, NotUnderway DEF Moves, Working
<1>4. ApplyBegins'
  BY <1>1 DEF IInv, ApplyBegins, ApplyFirst, Turn, Moves
<1> QED BY <1>1, <1>2, <1>3, <1>4, Copies, PlainStep DEF ApplyFirst, Working

\* A later apply loads.
LEMMA ApplyAgainKeeps ==
  ASSUME IInv, ApplyAgain
  PROVE  IInv'
<1>1. Moves("apply", "load", worker["apply"].op, worker["apply"].copy)
  BY GotoMoves DEF IInv, ApplyAgain
<1>2. RestType'
  BY Types DEF ApplyAgain
<1>3. WorkInv("apply")'
  BY <1>1 DEF Moves, Working, WorkInv, Ahead, HoldsClaim, Papers, TaskGoesOn, Underway
<1>4. ApplyBegins'
  BY <1>1 DEF IInv, ApplyBegins, ApplyAgain, Turn, Moves
<1> QED BY <1>1, <1>2, <1>3, <1>4, Copies, PlainStep DEF ApplyAgain, Working

\* A cancelled request leaves.
LEMMA AbortKeeps ==
  ASSUME IInv, Abort
  PROVE  IInv'
<1>1. Moves("apply", "idle", 1, Approved)
  BY LeaveMoves DEF IInv, Abort
<1>2. RestType'
  BY Types DEF Abort
<1> QED BY <1>1, <1>2, DoneStep DEF Abort

\* The declared task has children that are not claimed.
LEMMA DeclareKeeps ==
  ASSUME IInv, Declare
  PROVE  IInv'
<1>1. Moves("apply", "enter", 1, worker["apply"].copy)
  BY GotoMoves DEF IInv, Declare, Turn, ApplyBegins
<1>2. RestType' /\ Grows
  BY RestKept, SameGrows DEF Declare, IInv
<1>3. task'.state = "preflight" /\ TaskType' /\ task'.witness = task.witness
  BY Types DEF Declare, TaskType
<1>4. Active'
  BY <1>3 DEF Active
<1>5. WorkInv("apply")'
  BY <1>1, <1>4 DEF Moves, Working, WorkInv, Ahead, HoldsClaim, Papers, TaskGoesOn, Underway
<1>6. ApplyBegins' /\ Exclusive'
  BY <1>1 DEF Moves, ApplyBegins, Exclusive, Working
<1>7. CancelledSendsNothing' /\ SucceededIsVerified'
  BY <1>3 DEF CancelledSendsNothing, SucceededIsVerified
<1>8. plan'.status = "applied" => AllVerified'
  BY Copies DEF Declare, AllVerified, Unverified
<1>9. worker["apply"].copy.status = "applied" => AllVerified'
  BY Copies DEF Declare, AllVerified, Unverified
<1>10. plan' \in Plan
  BY Copies DEF Declare
<1> QED BY <1>1, <1>2, <1>3, <1>4, <1>5, <1>6, <1>7, <1>8, <1>9, <1>10, Assemble DEF Declare

-----------------------------------------------------------------------------
(* The steps both workers have.                                            *)

\* What has been loaded is entered, or projected.
LEMMA LoadedKeeps ==
  ASSUME IInv, NEW p \in Executor, Loaded(p)
  PROVE  IInv'
<1>1. Turn(p, "load") /\ RestType' /\ UNCHANGED <<plan, task, child>>
  BY RestKept DEF Loaded
<1>2. worker[p].copy \in Plan
  BY Copies
<1>3. CASE p = "apply" /\ ~Active
  BY <1>1, <1>3, LeaveMoves, DoneStep DEF IInv, Loaded
<1>4. CASE Goto(p, "attempts")
  <2>1. Moves(p, "attempts", worker[p].op, worker[p].copy)
    BY <1>4, GotoMoves DEF IInv
  <2>2. WorkInv(p)'
    BY <2>1, NotUnderway DEF Moves, Working
  <2>3. p = "apply" => ApplyBegins'
    BY <2>1 DEF Moves, ApplyBegins
  <2> QED BY <1>1, <2>1, <2>2, <2>3, Copies, PlainStep DEF Working
<1>5. CASE Goto(p, "enter") /\ (p = "apply" => Active)
  <2>1. Moves(p, "enter", worker[p].op, worker[p].copy)
    BY <1>5, GotoMoves DEF IInv
  <2>2. /\ Ahead(p)'
        /\ TaskGoesOn(p)'
    <3>1. CASE p = "apply"
      <4>1. worker[p].op = 1
        BY <1>1, <3>1 DEF IInv, ApplyBegins, Turn
      <4> QED BY <1>1, <1>5, <2>1, <3>1, <4>1 DEF Moves, Ahead, TaskGoesOn, Underway, Working, Active
    <3>2. CASE p = "pass"
      <4>1. Underway(p) /\ WorkInv(p)
        BY <1>1, <3>2 DEF IInv, Turn, Underway
      <4> QED BY <1>1, <2>1, <3>2, <4>1 DEF Moves, Ahead, TaskGoesOn, WorkInv, Underway, Working, Active
    <3> QED BY <3>1, <3>2
  <2>3. HoldsClaim(p)' /\ Papers(p)'
    BY <2>1 DEF Moves, HoldsClaim, Papers, Working
  <2>4. p = "apply" => ApplyBegins'
    BY <2>1 DEF Moves, ApplyBegins
  <2> QED BY <1>1, <2>1, <2>2, <2>3, <2>4, Copies, PlainStep DEF Working, WorkInv
<1> QED BY <1>3, <1>4, <1>5 DEF Loaded

\* A pass that fails to load retries, an apply leaves.
LEMMA LoadFailsKeeps ==
  ASSUME IInv, NEW p \in Executor, LoadFails(p)
  PROVE  IInv'
<1>1. Turn(p, "load") /\ UNCHANGED <<plan, task, child>> /\ Fail(p)
  BY DEF LoadFails
<1>2. RestType'
  BY RestKept, Types DEF LoadFails
<1>3. CASE p = "apply"
  BY <1>1, <1>2, <1>3, FailMoves, DoneStep DEF IInv
<1>4. CASE p = "pass"
  <2>1. Moves(p, "retry", worker[p].op, worker[p].copy)
    BY <1>1, <1>4, FailMoves DEF IInv
  <2>2. Underway(p) /\ WorkInv(p)
    BY <1>1, <1>4 DEF IInv, Turn, Underway
  <2>3. WorkInv(p)'
    BY <1>1, <1>4, <2>1, <2>2
    DEF Moves, Ahead, TaskGoesOn, WorkInv, HoldsClaim, Papers, Underway, Working, Active
  <2> QED BY <1>1, <1>2, <1>4, <2>1, <2>3, Copies, PlainStep DEF Working
<1> QED BY <1>3, <1>4

\* An apply goes on to the next operation.
LEMMA NextMoves ==
  ASSUME TypeOK, NEW p \in Process, Current(p) \in Op, worker' = [worker EXCEPT ![p].op = @ + 1]
  PROVE  Moves(p, worker[p].pc, worker[p].op + 1, worker[p].copy)
<1> DEFINE w == [worker[p] EXCEPT !.op = @ + 1]
<1>1. worker[p] \in Worker
  BY DEF TypeOK
<1>2. w \in Worker /\ w.pc = worker[p].pc /\ w.op = worker[p].op + 1 /\ w.copy = worker[p].copy
  BY <1>1 DEF Worker
<1>3. worker' = [worker EXCEPT ![p] = w]
  BY <1>1 DEF Worker, TypeOK
<1> HIDE DEF w
<1> QED BY <1>2, <1>3, RecordMoves

\* A projection starts without a claim.
LEMMA ProjectStep ==
  ASSUME IInv, NEW p \in Executor, NEW from, Turn(p, from), Project(p), RestType',
         UNCHANGED <<plan, task, child>>
  PROVE  IInv'
<1> DEFINE copy == IF p = "apply" THEN plan ELSE worker[p].copy
<1>1. Moves(p, "attempts", worker[p].op, copy)
  BY ProjectMoves DEF IInv
<1>2. copy \in Plan /\ (copy.status = "applied" => AllVerified)
  BY Copies
<1> HIDE DEF copy
<1>3. WorkInv(p)'
  BY <1>1, NotUnderway DEF Moves, Working
<1>4. p = "apply" => ApplyBegins'
  BY <1>1 DEF Moves, ApplyBegins
<1> QED BY <1>1, <1>2, <1>3, <1>4, PlainStep DEF Working

\* What a worker about to enter a child knows.
LEMMA EnterFacts ==
  ASSUME IInv, NEW p \in Executor, Turn(p, "enter")
  PROVE  /\ \A j \in Op : j < Current(p) => Verified(j)
         /\ p = "pass" => Current(p) \in Op
         /\ Active \/ (p = "pass" /\ Ended(Current(p)))
BY DEF IInv, Turn, Underway, WorkInv, Ahead, TaskGoesOn

\* The claim of an executor.
LEMMA EnterKeeps ==
  ASSUME IInv, NEW p \in Executor, Enter(p)
  PROVE  IInv'
<1> DEFINE i == Current(p)
<1>1. Turn(p, "enter") /\ UNCHANGED <<plan, task, clock, serving, left>>
  BY DEF Enter
<1>2. CASE Project(p) /\ UNCHANGED <<child, checkpoint>>
  BY <1>1, <1>2, RestKept, ProjectStep
<1>3. CASE /\ p = "apply" /\ i \in Op /\ Ended(i) /\ GoesOn(i)
           /\ worker' = [worker EXCEPT ![p].op = @ + 1]
           /\ UNCHANGED <<child, checkpoint>>
  <2>1. Moves(p, "enter", worker[p].op + 1, worker[p].copy)
    BY <1>1, <1>3, NextMoves DEF IInv, Turn
  <2>2. Ahead(p)'
    BY <1>3, <1>1, <2>1, EnterFacts DEF Moves, Ahead, Underway, Working, GoesOn
  <2>3. HoldsClaim(p)' /\ Papers(p)' /\ ApplyBegins'
    BY <1>3, <2>1 DEF Moves, HoldsClaim, Papers, ApplyBegins, Working
  <2>4. TaskGoesOn(p)'
    BY <1>1, <1>3, <2>1, EnterFacts DEF Moves, TaskGoesOn, Active
  <2> QED BY <1>1, <1>3, <2>1, <2>2, <2>3, <2>4, RestKept, Copies, PlainStep DEF Working, WorkInv
<1>4. CASE p = "apply" /\ Leave(p) /\ UNCHANGED <<checkpoint, child>>
  BY <1>1, <1>4, LeaveMoves, RestKept, DoneStep DEF IInv
<1>5. CASE p = "pass" /\ Settle /\ UNCHANGED child
  <2>1. RestType'
    BY <1>1, <1>5, SettleMoves, Types DEF IInv
  <2> QED BY <1>1, <1>5, <2>1, SettleMoves, DoneStep DEF IInv
<1>6. CASE /\ i \in Op /\ child[i].claim \in {"none", "lapsed"}
           /\ child' = [child EXCEPT ![i].claim = "live"]
           /\ Goto(p, IF child[i].intent THEN "readback" ELSE "preflight")
           /\ UNCHANGED checkpoint
  <2> DEFINE pc == IF child[i].intent THEN "readback" ELSE "preflight"
  <2>1. Moves(p, pc, worker[p].op, worker[p].copy)
    BY <1>6, GotoMoves DEF IInv
  <2>2. ~Ended(i) /\ Active
    BY <1>1, <1>6, EnterFacts DEF IInv, ChildInv, ChildrenAgree
  <2>3. Grows /\ Claims(i, "live") /\ Intents' = Intents /\ child'[i].intent = child[i].intent
    BY <1>1, <1>6, <2>2, EnterFacts, ClaimGrows DEF IInv
  <2>4. RestType' /\ TaskType' /\ plan' \in Plan
    BY <1>1, <1>6, RestKept, Types, Copies DEF TaskType
  <2>5. WorkInv(p)'
    <3>1. worker'[p].pc = pc /\ worker'[p].op = i
      BY <2>1 DEF Moves
    <3>2. Ahead(p)'
      BY <1>1, <1>6, <2>3, <3>1, EnterFacts, VerifiedStays DEF Ahead
    <3>3. HoldsClaim(p)'
      BY <1>6, <2>3, <3>1 DEF HoldsClaim, Claims
    <3>4. Papers(p)'
      BY <2>3, <3>1 DEF Papers
    <3>5. TaskGoesOn(p)'
      BY <1>1, <2>2, <3>1 DEF TaskGoesOn, Active
    <3> QED BY <3>2, <3>3, <3>4, <3>5 DEF WorkInv
  <2>6. ASSUME NEW q \in Executor, q # p, worker[q].pc \in Working
        PROVE  /\ Current(q) # i \/ (q = "pass" /\ At(q, "preflight") /\ Ended(Current(q))')
               /\ \/ child'[Current(q)].claim = child[Current(q)].claim
                  \/ q = "pass" /\ At(q, "preflight") /\ Ended(Current(q))'
    BY <1>6, <2>2, <2>3, <2>6 DEF IInv, WorkInv, HoldsClaim, Claims, Grows
  <2>7. Exclusive'
    <3>1. ASSUME NEW q \in Executor, q # p, worker[q].pc \in Working
          PROVE  Current(q) # i
      BY <1>6, <2>2, <3>1 DEF IInv, WorkInv, HoldsClaim
    <3> QED BY <2>1, <3>1 DEF Exclusive, Moves
  <2>8. ApplyBegins'
    BY <1>1, <2>1 DEF IInv, ApplyBegins, Moves
  <2>9. CancelledSendsNothing' /\ SucceededIsVerified'
    BY <1>1, <2>2 DEF CancelledSendsNothing, SucceededIsVerified, Active
  <2>10. /\ plan'.status = "applied" => AllVerified'
         /\ worker[p].copy.status = "applied" => AllVerified'
    BY <1>1, <2>3, Copies, VerifiedStays
  <2>11. task'.state # "absent" /\ Active' /\ task'.witness = task.witness
    BY <1>1, <2>2 DEF Active
  <2>12. p # "apply" /\ At("apply", "declare") => task'.state = "absent"
    BY <1>1 DEF IInv, ApplyBegins
  <2> HIDE DEF i, pc
  <2> QED BY <1>1, <2>1, <2>3, <2>4, <2>5, <2>6, <2>7, <2>8, <2>9, <2>10, <2>11, <2>12, Assemble
<1> QED BY <1>2, <1>3, <1>4, <1>5, <1>6 DEF Enter

\* What a worker that holds a claim knows.
LEMMA HeldFacts ==
  ASSUME IInv, NEW p \in Executor, worker[p].pc \in Working
  PROVE  /\ Current(p) \in Op
         /\ \A j \in Op : j < Current(p) => Verified(j)
         /\ \/ child[Current(p)].claim = "live" /\ ~Ended(Current(p)) /\ Active
            \/ p = "pass" /\ At(p, "preflight") /\ Ended(Current(p))
         /\ Papers(p)
         /\ \A q \in Executor : q # p /\ worker[q].pc \in Working => Current(q) # Current(p)
<1>1. Underway(p) /\ WorkInv(p)
  BY DEF Underway, IInv
<1>2. Current(p) \in Op /\ (child[Current(p)].claim = "live" => ~Ended(Current(p)))
  BY <1>1 DEF WorkInv, HoldsClaim, IInv, ChildInv, ChildrenAgree
<1>3. \A q \in Executor : q # p /\ worker[q].pc \in Working => Current(q) # Current(p)
  BY DEF IInv, Exclusive
<1> QED BY <1>1, <1>2, <1>3 DEF WorkInv, Ahead, HoldsClaim, TaskGoesOn

\* The invariant after a step of the worker that holds a claim, when the task
\* is not ended and the plan not called applied by it.
LEMMA HeldStep ==
  ASSUME IInv, NEW p \in Executor, NEW pc, NEW from \in Working, NEW op, NEW copy,
         Turn(p, from), Moves(p, pc, op, copy), Grows,
         pc \in Working => op = Current(p),
         \A j \in Op : j # Current(p) => child'[j] = child[j],
         UNCHANGED <<checkpoint, clock, serving>>, RestType', TaskType', plan' \in Plan,
         task'.state = task.state, task.witness => task'.witness,
         Intents' = Intents \/ Active,
         p = "apply" => ApplyBegins',
         WorkInv(p)',
         plan'.status = plan.status \/ plan'.status # "applied",
         copy.status = "applied" => AllVerified
  PROVE  IInv'
<1>1. worker[p].pc \in Working
  BY DEF Turn
<1>2. Current(p) \in Op /\ child[Current(p)].claim # "none"
  BY <1>1, HeldFacts DEF IInv, ChildInv, ChildrenAgree
<1>3. task'.state # "absent" /\ Active' = Active
  BY <1>2 DEF IInv, ChildInv, Blank, Active
<1>4. \A q \in Executor : q # p /\ worker[q].pc \in Working =>
        Current(q) # Current(p) /\ child'[Current(q)].claim = child[Current(q)].claim
  BY <1>1, HeldFacts DEF IInv, WorkInv, HoldsClaim
<1>5. Exclusive'
  BY <1>4 DEF Moves, Exclusive
<1>6. CancelledSendsNothing' /\ SucceededIsVerified'
  BY VerifiedStays DEF IInv, EndInv, CancelledSendsNothing, SucceededIsVerified, Active,
     AllVerified, Unverified
<1>7. /\ plan'.status = "applied" => AllVerified'
      /\ copy.status = "applied" => AllVerified'
  BY Copies, VerifiedStays
<1>8. p # "apply" /\ At("apply", "declare") => task'.state = "absent"
  BY DEF IInv, ApplyBegins
<1> QED BY <1>3, <1>4, <1>5, <1>6, <1>7, <1>8, Assemble

\* The preflight ends the child, or lets the dispatch begin.
LEMMA PreflightKeeps ==
  ASSUME IInv, NEW p \in Executor, Preflight(p)
  PROVE  IInv'
<1> DEFINE i == Current(p)
<1>1. Turn(p, "preflight") /\ worker[p].pc \in Working /\ "preflight" \in Working
  BY DEF Preflight, Turn, Working
<1>2. /\ RestType' /\ TaskType' /\ plan' \in Plan
      /\ UNCHANGED <<plan, task, checkpoint, clock, serving, left>>
  BY RestKept, Types, Copies DEF Preflight, TaskType
<1>3. /\ i \in Op
      /\ \A j \in Op : j < i => Verified(j)
      /\ \/ child[i].claim = "live" /\ ~Ended(i) /\ Active
         \/ p = "pass" /\ Ended(i)
  BY <1>1, HeldFacts
<1>4. Ended(i) => UNCHANGED child
  BY DEF Preflight
<1>5. /\ Grows /\ Intents' = Intents
      /\ \A j \in Op : j # i => child'[j] = child[j]
  <2>1. CASE UNCHANGED child
    BY <2>1, SameGrows DEF IInv, Intents
  <2>2. CASE ~Ended(i) /\ \E o \in {"refused", "verified"} : End(i, o)
    BY <1>3, <2>2, EndGrows DEF IInv, Claims, Outcome
  <2> QED BY <2>1, <2>2 DEF Preflight
<1>6. ASSUME Goto(p, "enter")
      PROVE  IInv'
  <2>1. Moves(p, "enter", i, worker[p].copy)
    BY <1>6, GotoMoves DEF IInv
  <2>2. WorkInv(p)'
    <3>1. Ahead(p)'
      BY <2>1, <1>3, <1>5, VerifiedStays DEF Moves, Ahead
    <3>2. HoldsClaim(p)' /\ Papers(p)'
      BY <2>1 DEF Moves, HoldsClaim, Papers, Working
    <3>3. TaskGoesOn(p)'
      BY <2>1, <1>2, <1>3, <1>4 DEF Moves, TaskGoesOn, Active
    <3> QED BY <3>1, <3>2, <3>3 DEF WorkInv
  <2>3. p = "apply" => ApplyBegins'
    BY <2>1 DEF Moves, ApplyBegins
  <2> QED BY <1>1, <1>2, <1>5, <2>1, <2>2, <2>3, Copies, HeldStep DEF Working
<1>7. ASSUME ~Ended(i), Goto(p, "consume"), UNCHANGED child
      PROVE  IInv'
  <2>1. Moves(p, "consume", i, worker[p].copy)
    BY <1>7, GotoMoves DEF IInv
  <2>2. WorkInv(p)'
    <3>1. Ahead(p)'
      BY <2>1, <1>3, <1>5, VerifiedStays DEF Moves, Ahead
    <3>2. HoldsClaim(p)' /\ Papers(p)'
      BY <1>3, <1>7, <2>1 DEF Moves, HoldsClaim, Papers
    <3>3. TaskGoesOn(p)'
      BY <2>1, <1>2, <1>3, <1>7 DEF Moves, TaskGoesOn, Active
    <3> QED BY <3>1, <3>2, <3>3 DEF WorkInv
  <2>3. p = "apply" => ApplyBegins'
    BY <2>1 DEF Moves, ApplyBegins
  <2> QED BY <1>1, <1>2, <1>5, <2>1, <2>2, <2>3, Copies, HeldStep
<1> QED BY <1>6, <1>7 DEF Preflight

\* A step past the preflight, to the next of the writes.
LEMMA BoundaryStep ==
  ASSUME IInv, NEW p \in Executor, NEW from \in Working \ {"preflight"},
         NEW pc \in Working \ {"preflight"}, Turn(p, from), Goto(p, pc), Grows,
         child'[Current(p)].claim = "live",
         \A j \in Op : j # Current(p) => child'[j] = child[j],
         UNCHANGED <<checkpoint, clock, serving, left>>, TaskType', plan' \in Plan,
         task'.state = task.state, task.witness => task'.witness,
         plan'.status # "applied" \/ plan' = plan,
         pc \in {"witness", "commit"} => child'[Current(p)].ref,
         pc = "commit" => task'.witness,
         pc \in {"send", "readback"} => child'[Current(p)].intent
  PROVE  IInv'
<1>1. Moves(p, pc, Current(p), worker[p].copy)
  BY GotoMoves DEF IInv, Working
<1>2. worker[p].pc \in Working /\ ~At(p, "preflight")
  BY DEF Turn
<1>3. /\ Current(p) \in Op /\ Active
      /\ \A j \in Op : j < Current(p) => Verified(j)
  BY <1>2, HeldFacts
<1>4. WorkInv(p)'
  <2>1. Ahead(p)'
    BY <1>1, <1>3, VerifiedStays DEF Moves, Ahead
  <2>2. HoldsClaim(p)' /\ Papers(p)'
    BY <1>1, <1>3 DEF Moves, HoldsClaim, Papers
  <2>3. TaskGoesOn(p)'
    BY <1>1, <1>3 DEF Moves, TaskGoesOn, Active, Working
  <2> QED BY <2>1, <2>2, <2>3 DEF WorkInv
<1>5. p = "apply" => ApplyBegins'
  BY <1>1 DEF Moves, ApplyBegins, Working
<1> QED BY <1>1, <1>3, <1>4, <1>5, Copies, RestKept, HeldStep

\* Past the preflight the claim is held.
LEMMA Beyond ==
  ASSUME IInv, NEW p \in Executor, NEW from \in Working \ {"preflight"}, Turn(p, from)
  PROVE  /\ Current(p) \in Op /\ child[Current(p)].claim = "live" /\ ~Ended(Current(p))
         /\ Active /\ Papers(p) /\ worker[p].pc = from
BY HeldFacts DEF Turn

\* The claim lapses when its worker gives it up.
LEMMA LapseStep ==
  ASSUME IInv, NEW p \in Executor, NEW from \in Working \ {"preflight"}, Turn(p, from),
         child' = [child EXCEPT ![Current(p)].claim = "lapsed"],
         NEW pc \in (Awaiting \union Writing) \ Working, NEW op, NEW copy,
         Moves(p, pc, op, copy), copy.status = "applied" => AllVerified,
         pc \in {"idle", "attempts"} \/ (p = "pass" /\ pc = "retry" /\ op = Current(p)),
         p = "apply" => (pc = "idle" /\ op = 1) \/ pc = "attempts",
         UNCHANGED <<plan, task, checkpoint, clock, serving>>, RestType'
  PROVE  IInv'
<1> DEFINE i == Current(p)
<1>1. i \in Op /\ child[i].claim = "live" /\ ~Ended(i) /\ Active /\ worker[p].pc = from
  BY Beyond
<1>2. Grows /\ Claims(i, "lapsed") /\ Intents' = Intents
  BY <1>1, ClaimGrows DEF IInv
<1>3. WorkInv(p)'
  <2>1. CASE pc \in {"idle", "attempts"}
    BY <2>1, NotUnderway DEF Moves, Working
  <2>2. CASE p = "pass" /\ pc = "retry" /\ op = i
    <3>1. \A j \in Op : j < i => Verified(j)
      BY <1>1, HeldFacts
    <3>2. Ahead(p)'
      BY <1>1, <1>2, <2>2, <3>1, VerifiedStays DEF Moves, Ahead
    <3>3. HoldsClaim(p)' /\ Papers(p)'
      BY <2>2 DEF Moves, HoldsClaim, Papers, Working
    <3>4. TaskGoesOn(p)'
      BY <1>1, <2>2 DEF Moves, TaskGoesOn, Active
    <3> QED BY <3>2, <3>3, <3>4 DEF WorkInv
  <2> QED BY <2>1, <2>2
<1>4. p = "apply" => ApplyBegins'
  BY DEF Moves, ApplyBegins
<1>5. TaskType' /\ plan' \in Plan
  BY Types, Copies DEF TaskType
<1> QED BY <1>1, <1>2, <1>3, <1>4, <1>5, HeldStep DEF Claims

\* The approval is consumed, found consumed, or refused.
LEMMA ConsumeKeeps ==
  ASSUME IInv, NEW p \in Executor, Consume(p)
  PROVE  IInv'
<1>1. Turn(p, "consume") /\ UNCHANGED <<task, checkpoint, clock, serving, left>>
  BY DEF Consume
<1>2. "consume" \in Working \ {"preflight"}
  BY DEF Working
<1>3. Current(p) \in Op /\ child[Current(p)].claim = "live"
  BY <1>1, <1>2, Beyond
<1>4. TaskType'
  BY <1>1, Types DEF TaskType
<1>5. ASSUME NEW pc \in {"event", "reference"}, Goto(p, pc), UNCHANGED child,
             plan' = plan \/ plan' = [status |-> "applying", consumed |-> TRUE]
      PROVE  IInv'
  <2>1. plan' \in Plan /\ (plan'.status # "applied" \/ plan' = plan)
    <3>1. CASE plan' = plan
      BY <3>1, Copies
    <3>2. CASE plan' = [status |-> "applying", consumed |-> TRUE]
      BY <3>2 DEF Plan
    <3> QED BY <1>5, <3>1, <3>2
  <2>2. Grows
    BY <1>5, SameGrows DEF IInv
  <2> QED BY <1>1, <1>2, <1>3, <1>4, <1>5, <2>1, <2>2, BoundaryStep DEF Working
<1>6. ASSUME child' = [child EXCEPT ![Current(p)].claim = "lapsed"], Fail(p), UNCHANGED plan
      PROVE  IInv'
  <2>1. \/ p = "apply" /\ Moves(p, "idle", 1, Approved)
        \/ p = "pass" /\ Moves(p, "retry", Current(p), worker[p].copy)
    BY <1>6, FailMoves DEF IInv
  <2>2. RestType'
    BY <1>1, RestKept
  <2>3. CASE p = "apply" /\ Moves(p, "idle", 1, Approved)
    BY <1>1, <1>2, <1>6, <2>2, <2>3, Copies, LapseStep DEF Working
  <2>4. CASE p = "pass" /\ Moves(p, "retry", Current(p), worker[p].copy)
    BY <1>1, <1>2, <1>6, <2>2, <2>4, Copies, LapseStep DEF Working
  <2> QED BY <2>1, <2>3, <2>4
<1> QED BY <1>5, <1>6 DEF Consume

\* The reference of the child.
LEMMA ReferenceKeeps ==
  ASSUME IInv, NEW p \in Executor, Reference(p)
  PROVE  IInv'
<1>1. /\ Turn(p, "reference") /\ UNCHANGED <<plan, task, checkpoint, clock, serving, left>>
      /\ child' = [child EXCEPT ![Current(p)].ref = TRUE]
      /\ Goto(p, "witness")
  BY DEF Reference
<1>2. Current(p) \in Op /\ child[Current(p)].claim = "live"
  BY <1>1, Beyond DEF Working
<1>3. Grows /\ Claims(Current(p), "live") /\ child'[Current(p)].ref
  BY <1>1, <1>2, ReferenceGrows DEF IInv
<1>4. TaskType' /\ plan' \in Plan
  BY <1>1, Types, Copies DEF TaskType
<1> QED BY <1>1, <1>2, <1>3, <1>4, BoundaryStep DEF Working, Claims

\* The witness in the public task.
LEMMA WitnessKeeps ==
  ASSUME IInv, NEW p \in Executor, Witness(p)
  PROVE  IInv'
<1>1. PICK from \in {"event", "witness"} : Turn(p, from)
  BY DEF Witness
<1>2. /\ UNCHANGED <<plan, child, checkpoint, clock, serving, left>>
      /\ Goto(p, IF At(p, "event") THEN "reference" ELSE "commit")
      /\ task' = [task EXCEPT !.witness = TRUE]
  BY DEF Witness
<1>3. /\ Current(p) \in Op /\ child[Current(p)].claim = "live" /\ worker[p].pc = from
      /\ from = "witness" => child[Current(p)].ref
  BY <1>1, Beyond DEF Working, Papers
<1>4. Grows
  BY <1>2, SameGrows DEF IInv
<1>5. TaskType' /\ plan' \in Plan /\ task'.witness /\ task'.state = task.state
  BY <1>2, Types, Copies DEF TaskType
<1>6. CASE from = "event"
  <2>1. Goto(p, "reference")
    BY <1>2, <1>3, <1>6
  <2> QED BY <1>1, <1>2, <1>3, <1>4, <1>5, <2>1, BoundaryStep DEF Working
<1>7. CASE from = "witness"
  <2>1. Goto(p, "commit")
    BY <1>2, <1>3, <1>7
  <2> QED BY <1>1, <1>2, <1>3, <1>4, <1>5, <1>7, <2>1, BoundaryStep DEF Working
<1> QED BY <1>6, <1>7

\* The durable intent.
LEMMA CommitKeeps ==
  ASSUME IInv, NEW p \in Executor, Commit(p)
  PROVE  IInv'
<1>1. /\ Turn(p, "commit") /\ UNCHANGED <<plan, task, checkpoint, clock, serving, left>>
      /\ child' = [child EXCEPT ![Current(p)].intent = TRUE]
      /\ Goto(p, "send")
  BY DEF Commit
<1>2. /\ Current(p) \in Op /\ child[Current(p)].claim = "live"
      /\ child[Current(p)].ref /\ task.witness
  BY <1>1, Beyond DEF Working, Papers
<1>3. Grows /\ Claims(Current(p), "live") /\ child'[Current(p)].intent
  BY <1>1, <1>2, IntentGrows DEF IInv
<1>4. TaskType' /\ plan' \in Plan
  BY <1>1, Types, Copies DEF TaskType
<1> QED BY <1>1, <1>2, <1>3, <1>4, BoundaryStep DEF Working, Claims

\* The verdict, or one more observation.
LEMMA ObserveKeeps ==
  ASSUME IInv, NEW p \in Executor, Observe(p)
  PROVE  IInv'
<1>1. PICK from \in {"send", "readback"} : Turn(p, from)
  BY DEF Observe
<1>2. UNCHANGED <<plan, task, checkpoint, clock, serving>>
  BY DEF Observe
<1>3. from \in Working \ {"preflight"}
  BY DEF Working
<1>4. /\ Current(p) \in Op /\ child[Current(p)].claim = "live" /\ ~Ended(Current(p))
      /\ Active /\ worker[p].pc = from
  BY <1>1, <1>3, Beyond
<1>5. TaskType' /\ plan' \in Plan
  BY <1>2, Types, Copies DEF TaskType
<1>6. ASSUME NEW o \in {"verified", "failed", "review"}, End(Current(p), o),
             Goto(p, "enter"), UNCHANGED left
      PROVE  IInv'
  <2>1. Moves(p, "enter", Current(p), worker[p].copy)
    BY <1>6, GotoMoves DEF IInv
  <2>2. Grows /\ Claims(Current(p), "over")
    BY <1>4, <1>6, EndGrows DEF IInv, Outcome
  <2>3. \A j \in Op : j < Current(p) => Verified(j)
    BY <1>3, <1>4, HeldFacts
  <2>4. WorkInv(p)'
    <3>1. Ahead(p)'
      BY <1>4, <2>1, <2>2, <2>3, VerifiedStays DEF Moves, Ahead
    <3>2. HoldsClaim(p)' /\ Papers(p)'
      BY <2>1 DEF Moves, HoldsClaim, Papers, Working
    <3>3. TaskGoesOn(p)'
      BY <1>2, <1>4, <2>1 DEF Moves, TaskGoesOn, Active
    <3> QED BY <3>1, <3>2, <3>3 DEF WorkInv
  <2>5. p = "apply" => ApplyBegins'
    BY <2>1 DEF Moves, ApplyBegins
  <2>6. RestType'
    BY <1>2, <1>6, RestKept
  <2> QED BY <1>1, <1>2, <1>3, <1>4, <1>5, <2>1, <2>2, <2>4, <2>5, <2>6, Copies, HeldStep
          DEF Claims, Working
<1>7. ASSUME Use("faults"), child' = [child EXCEPT ![Current(p)].claim = "lapsed"],
             Leave(p), p = "apply"
      PROVE  IInv'
  <2>1. Moves(p, "idle", 1, Approved) /\ RestType'
    BY <1>2, <1>7, LeaveMoves, Types DEF IInv
  <2> QED BY <1>1, <1>2, <1>3, <1>7, <2>1, Copies, LapseStep DEF Working
<1>8. ASSUME Use("faults"), child' = [child EXCEPT ![Current(p)].claim = "lapsed"], Project(p)
      PROVE  IInv'
  <2> DEFINE copy == IF p = "apply" THEN plan ELSE worker[p].copy
  <2>1. Moves(p, "attempts", Current(p), copy) /\ RestType'
    BY <1>2, <1>8, ProjectMoves, Types DEF IInv
  <2>2. copy.status = "applied" => AllVerified
    BY Copies
  <2> HIDE DEF copy
  <2> QED BY <1>1, <1>2, <1>3, <1>8, <2>1, <2>2, LapseStep DEF Working
<1> QED BY <1>6, <1>7, <1>8 DEF Observe

-----------------------------------------------------------------------------
(* The projection.                                                         *)

\* The children's state reaches the task, or the task has ended.
LEMMA AttemptsKeeps ==
  ASSUME IInv, NEW p \in Executor, Attempts(p)
  PROVE  IInv'
<1>1. Turn(p, "attempts") /\ UNCHANGED <<plan, child, clock, serving, left>>
  BY DEF Attempts
<1>2. CASE Projected(p) /\ UNCHANGED task
  BY <1>1, <1>2, ProjectedMoves, Types, DoneStep DEF IInv
<1>3. CASE /\ Active
           /\ Goto(p, "outcome")
           /\ \E d \in BOOLEAN :
                task' = [task EXCEPT !.dispatched = d,
                           !.state = IF @ = "preflight" /\ d THEN "dispatching" ELSE @]
           /\ UNCHANGED checkpoint
  <2>1. Moves(p, "outcome", Current(p), worker[p].copy)
    BY <1>3, GotoMoves DEF IInv
  <2>2. TaskType' /\ task'.witness = task.witness /\ task'.state \notin Final \union {"absent"}
    BY <1>3, Types DEF TaskType, Active
  <2>3. RestType' /\ Grows /\ plan' \in Plan /\ Active'
    BY <1>1, <1>3, <2>2, RestKept, SameGrows, Copies DEF IInv, Active
  <2>4. WorkInv(p)'
    BY <2>1, <2>3 DEF Moves, WorkInv, Ahead, HoldsClaim, Papers, TaskGoesOn, Underway, Working
  <2>5. (p = "apply" => ApplyBegins') /\ Exclusive'
    BY <2>1 DEF Moves, ApplyBegins, Exclusive, IInv, Working
  <2>6. CancelledSendsNothing' /\ SucceededIsVerified'
    BY <2>2 DEF CancelledSendsNothing, SucceededIsVerified
  <2>7. /\ plan'.status = "applied" => AllVerified'
        /\ worker[p].copy.status = "applied" => AllVerified'
    BY <1>1, <2>3, Copies, VerifiedStays
  <2>8. p # "apply" /\ At("apply", "declare") => task'.state = "absent"
    BY <1>3 DEF IInv, ApplyBegins, Active
  <2> QED BY <1>1, <2>1, <2>2, <2>3, <2>4, <2>5, <2>6, <2>7, <2>8, Assemble
<1>4. \E d \in BOOLEAN : d = (task.dispatched \/ Intents # {})
  BY Types DEF TaskType
<1> QED BY <1>2, <1>3, <1>4 DEF Attempts

\* What a verdict says: success when all is verified, an end only when nothing
\* is open and something has stopped, a cancellation only without an intent.
LEMMA VerdictSays ==
  ASSUME IInv, Active, NEW copy \in {"approved", "applying", "verifying", "applied", "failed", "review"}
  PROVE  /\ Verdict(copy)[1] \in TaskState \ {"absent"}
         /\ Verdict(copy)[2] \in {"approved", "applying", "verifying", "applied", "failed", "review"}
         /\ Verdict(copy)[1] = "succeeded" => AllVerified
         /\ Verdict(copy)[2] = "applied" => AllVerified \/ copy = "applied"
         /\ Verdict(copy)[1] = "cancelled" => Intents = {}
         /\ Verdict(copy)[1] \in Final =>
              AllVerified \/ ((\A i \in Op : ~Open(i)) /\ (\E i \in Op : Ended(i) /\ ~Verified(i)))
<1> DEFINE open == \E i \in Op : Open(i)
           stopped == {i \in Op : Ended(i) /\ ~Verified(i)}
           f == First(stopped)
<1>1. task.state \in {"preflight", "dispatching", "observing"}
  BY Types DEF TaskType, Active
<1>2. CASE AllVerified
  <2>1. Verdict(copy) = <<"succeeded", "applied">>
    BY <1>2 DEF Verdict
  <2> QED BY <1>2, <2>1
<1>3. CASE ~AllVerified /\ open
  <2>1. Verdict(copy) = <<IF task.state = "dispatching" THEN "observing" ELSE task.state, "verifying">>
    BY <1>3 DEF Verdict
  <2> QED BY <1>1, <2>1
<1>4. CASE ~AllVerified /\ ~open /\ stopped # {}
  <2>1. \/ Verdict(copy) = <<"cancelled", copy>> /\ Intents = {}
        \/ Verdict(copy) \in {<<"failed_pre", "failed">>, <<"failed_post", "failed">>,
                              <<"review", "review">>}
    BY <1>4 DEF Verdict
  <2> QED BY <1>4, <2>1
<1>5. CASE ~AllVerified /\ ~open /\ stopped = {}
  <2>1. Verdict(copy) = <<task.state, copy>>
    BY <1>5 DEF Verdict
  <2> QED BY <1>1, <2>1
<1> QED BY <1>2, <1>3, <1>4, <1>5

\* When something has stopped, the first child that is not verified has.
LEMMA StoppedAtFront ==
  ASSUME IInv, AllVerified \/ \E i \in Op : Ended(i) /\ ~Verified(i)
  PROVE  FrontEnded
<1>1. CASE AllVerified
  BY <1>1 DEF AllVerified, Unverified, FrontEnded
<1>2. ASSUME NEW i \in Op, Ended(i), ~Verified(i)
      PROVE  FrontEnded
  <2>1. \A j \in Op : j < i => Verified(j)
    BY <1>2 DEF IInv, ChildInv, ChildrenAgree, InOrder
  <2>2. SUFFICES ASSUME NEW k \in Op, \A j \in Op : j < k => Verified(j)
                 PROVE  Ended(k)
    BY DEF FrontEnded
  <2>3. k < i \/ k = i \/ i < k
    OBVIOUS
  <2> QED BY <1>2, <2>1, <2>2, <2>3
<1> QED BY <1>1, <1>2

\* The children's state decides about the task, then about the plan.
LEMMA ProjectOutcomeKeeps ==
  ASSUME IInv, NEW p \in Executor, ProjectOutcome(p)
  PROVE  IInv'
<1> DEFINE verdict == Verdict(worker[p].copy.status)
<1>1. /\ Turn(p, "outcome") /\ UNCHANGED <<plan, child, clock, serving, left>>
      /\ task' = [task EXCEPT !.state = verdict[1]]
  BY DEF ProjectOutcome
<1>2. Active
  BY <1>1 DEF IInv, Turn, WorkInv, TaskGoesOn
<1>3. /\ worker[p].copy \in Plan
      /\ worker[p].copy.status \in
           {"approved", "applying", "verifying", "applied", "failed", "review"}
  BY Copies DEF Plan
<1>4. /\ verdict[1] \in TaskState \ {"absent"}
      /\ verdict[2] \in {"approved", "applying", "verifying", "applied", "failed", "review"}
      /\ verdict[1] = "succeeded" => AllVerified
      /\ verdict[2] = "applied" => AllVerified
      /\ verdict[1] = "cancelled" => Intents = {}
      /\ verdict[1] \in Final =>
           AllVerified \/ ((\A i \in Op : ~Open(i)) /\ (\E i \in Op : Ended(i) /\ ~Verified(i)))
  BY <1>2, <1>3, VerdictSays, Copies
<1>5. \/ /\ Projected(p)
      \/ /\ worker' = [worker EXCEPT ![p].pc = "save", ![p].copy.status = verdict[2]]
         /\ UNCHANGED checkpoint
  BY DEF ProjectOutcome
<1> HIDE DEF verdict
<1>6. TaskType' /\ task'.state = verdict[1] /\ task'.witness = task.witness
  BY <1>1, <1>4, Types DEF TaskType
<1>7. Grows /\ plan' \in Plan /\ Intents' = Intents /\ AllVerified' = AllVerified
  BY <1>1, SameGrows, Copies DEF IInv, Intents, AllVerified, Unverified
<1>8. \A q \in Process : q # p => worker'[q] = worker[q]
  BY <1>5, ProjectedMoves DEF IInv, Moves, TypeOK
<1>9. ASSUME NEW q \in Executor, q # p, Underway(q), ~Active'
      PROVE  q = "pass" /\ Ended(Current(q))'
  <2>1. verdict[1] \in Final
    BY <1>4, <1>6, <1>9 DEF Active
  <2>2. FrontEnded
    BY <1>4, <2>1, StoppedAtFront
  <2>3. CASE q = "apply"
    <3>1. worker[q].pc \in Working
      BY <1>1, <1>9, <2>3 DEF Turn, Underway
    <3>2. Current(q) \in Op /\ child[Current(q)].claim = "live" /\ ~Ended(Current(q))
      BY <2>3, <3>1, HeldFacts
    <3> QED BY <1>4, <2>1, <3>2 DEF AllVerified, Unverified
  <2>4. CASE q = "pass"
    <3>1. Current(q) \in Op /\ \A j \in Op : j < Current(q) => Verified(j)
      BY <1>9, <2>4 DEF IInv, WorkInv, Ahead
    <3>2. Ended(Current(q))
      BY <2>2, <3>1 DEF FrontEnded
    <3> QED BY <1>7, <1>9, <1>8, <2>4, <3>1, <3>2, VerifiedStays
  <2> QED BY <2>3, <2>4
<1>10. CancelledSendsNothing' /\ SucceededIsVerified'
  BY <1>4, <1>6, <1>7 DEF CancelledSendsNothing, SucceededIsVerified, AllVerified, Unverified
<1>11. plan'.status = "applied" => AllVerified'
  BY <1>1, <1>7, Copies
<1>12. ASSUME NEW pc \in {"idle", "discover", "history", "sweep", "save"}, NEW op,
              NEW copy, Moves(p, pc, op, copy), copy.status = "applied" => AllVerified,
              pc \in {"idle", "declare", "load"} => op = 1, RestType'
       PROVE  IInv'
  <2>1. WorkInv(p)' /\ (p = "apply" => ApplyBegins') /\ Exclusive'
    BY <1>12, NotUnderway DEF Moves, Working, ApplyBegins, Exclusive
  <2>2. task'.state # "absent"
    BY <1>4, <1>6
  <2>3. p # "apply" /\ At("apply", "declare") => task'.state = "absent"
    BY <1>2 DEF IInv, ApplyBegins, Active
  <2>4. \A q \in Executor : q # p =>
           /\ worker[q].pc \in Working => child'[Current(q)].claim = child[Current(q)].claim
           /\ Underway(q) /\ Active /\ ~Active' => q = "pass" /\ Ended(Current(q))'
    BY <1>1, <1>9
  <2> QED BY <1>1, <1>6, <1>7, <1>10, <1>11, <1>12, <2>1, <2>2, <2>3, <2>4, Assemble
<1>13. CASE Projected(p)
  <2>1. RestType'
    BY <1>1, <1>13, ProjectedMoves, Types DEF IInv
  <2> QED BY <1>12, <1>13, <2>1, ProjectedMoves, Copies DEF IInv
<1>14. CASE /\ worker' = [worker EXCEPT ![p].pc = "save", ![p].copy.status = verdict[2]]
            /\ UNCHANGED checkpoint
  <2> DEFINE copy == [worker[p].copy EXCEPT !.status = verdict[2]]
             w == [worker[p] EXCEPT !.pc = "save", !.copy = copy]
  <2>1. worker[p] \in Worker /\ worker[p].copy \in Plan
    BY Copies DEF IInv, TypeOK
  <2>2. copy \in Plan /\ copy.status = verdict[2]
    BY <1>4, <2>1 DEF Plan
  <2>3. worker' = [worker EXCEPT ![p] = w]
    BY <1>14, <2>1 DEF IInv, TypeOK, Worker
  <2> HIDE DEF copy
  <2>4. w \in Worker /\ w.pc = "save" /\ w.op = worker[p].op /\ w.copy = copy
    BY <2>1, <2>2 DEF Worker
  <2> HIDE DEF w
  <2>5. Moves(p, "save", worker[p].op, copy)
    BY <2>3, <2>4, RecordMoves DEF IInv
  <2>6. RestType'
    BY <1>1, <1>14, RestKept
  <2> QED BY <1>4, <1>12, <2>2, <2>5, <2>6
<1> QED BY <1>5, <1>13, <1>14

\* The plan is saved.
LEMMA SavePlanKeeps ==
  ASSUME IInv, NEW p \in Executor, SavePlan(p)
  PROVE  IInv'
<1>1. /\ Turn(p, "save") /\ UNCHANGED <<task, child, clock, serving, left>>
      /\ plan' = worker[p].copy
      /\ Projected(p)
  BY DEF SavePlan
<1>2. PICK pc \in {"idle", "discover", "history", "sweep"} : Moves(p, pc, 1, Approved)
  BY <1>1, ProjectedMoves DEF IInv
<1>3. RestType' /\ TaskType' /\ plan' \in Plan
  BY <1>1, ProjectedMoves, Types, Copies DEF IInv, TaskType
<1>4. Grows /\ Active' = Active /\ AllVerified' = AllVerified /\ Intents' = Intents
  BY <1>1, SameGrows DEF IInv, Active, AllVerified, Unverified, Intents
<1>5. WorkInv(p)' /\ (p = "apply" => ApplyBegins') /\ Exclusive'
  BY <1>2, NotUnderway DEF Moves, Working, ApplyBegins, Exclusive
<1>6. CancelledSendsNothing' /\ SucceededIsVerified'
  BY <1>1, <1>4 DEF IInv, EndInv, CancelledSendsNothing, SucceededIsVerified
<1>7. /\ plan'.status = "applied" => AllVerified'
      /\ Approved.status = "applied" => AllVerified'
  BY <1>1, <1>4, Copies
<1>8. task'.state = "absent" => \A i \in Op : child'[i].claim = "none"
  BY <1>1 DEF IInv, ChildInv, Blank
<1>9. p # "apply" /\ At("apply", "declare") => task'.state = "absent"
  BY <1>1 DEF IInv, ApplyBegins
<1> QED BY <1>1, <1>2, <1>3, <1>4, <1>5, <1>6, <1>7, <1>8, <1>9, Assemble

-----------------------------------------------------------------------------
(* A cancellation.                                                         *)

\* The first child that is not verified.
LEMMA FirstUnverified ==
  ASSUME Unverified # {}
  PROVE  /\ First(Unverified) \in Op /\ ~Verified(First(Unverified))
         /\ \A j \in Op : j < First(Unverified) => Verified(j)
<1>1. PICK f : f = First(Unverified)
  OBVIOUS
<1>2. f \in Unverified /\ \A j \in Unverified : f <= j
  BY <1>1, FirstIsLeast DEF Unverified
<1>3. f \in Op /\ ~Verified(f) /\ \A j \in Op : ~Verified(j) => f <= j
  BY <1>2 DEF Unverified
<1>4. \A j \in Op : j < f => Verified(j)
  BY <1>3
<1> QED BY <1>1, <1>3, <1>4

\* The child is cancelled: a pass may find that in its preflight, where it has
\* sent nothing.
LEMMA CancelKeeps ==
  ASSUME IInv, Cancel
  PROVE  IInv'
<1>0. PICK f : f = First(Unverified)
  OBVIOUS
<1>1. /\ Turn("cancel", "idle") /\ PlanLockFree /\ task.state = "preflight" /\ Intents = {}
      /\ UNCHANGED <<plan, task, checkpoint, clock, serving, left>> /\ Goto("cancel", "event")
  BY DEF Cancel
<1>2. Moves("cancel", "event", worker["cancel"].op, worker["cancel"].copy)
  BY <1>1, GotoMoves DEF IInv
<1>3. RestType' /\ TaskType' /\ plan' \in Plan
  BY <1>1, RestKept, Types, Copies DEF TaskType
<1>4. \/ UNCHANGED child /\ (Unverified # {} => Ended(f))
      \/ Unverified # {} /\ ~Ended(f) /\ End(f, "cancelled")
  BY <1>0 DEF Cancel, CancelChild
<1>5. Unverified # {} =>
        f \in Op /\ ~Verified(f) /\ \A j \in Op : j < f => Verified(j)
  BY <1>0, FirstUnverified
<1>6. /\ Grows /\ Intents' = Intents
      /\ Unverified # {} => Ended(f)' /\ \A j \in Op : j # f => child'[j] = child[j]
      /\ Unverified = {} => UNCHANGED child
  <2>1. CASE UNCHANGED child /\ (Unverified # {} => Ended(f))
    BY <2>1, SameGrows DEF IInv, Intents
  <2>2. CASE Unverified # {} /\ ~Ended(f) /\ End(f, "cancelled")
    BY <1>5, <2>2, EndGrows DEF IInv, Outcome, Claims
  <2> QED BY <1>4, <2>1, <2>2
<1>7. FrontEnded'
  <2>1. CASE Unverified = {}
    BY <1>6, <2>1 DEF FrontEnded, Unverified
  <2>2. CASE Unverified # {}
    <3>1. SUFFICES ASSUME NEW i \in Op, \A j \in Op : j < i => Verified(j)'
                   PROVE  Ended(i)'
      BY DEF FrontEnded
    <3>2. CASE i < f
      BY <1>5, <1>6, <2>2, <3>2, VerifiedStays
    <3>3. CASE i = f
      BY <1>6, <2>2, <3>3
    <3>4. CASE f < i
      <4>1. Ended(f)' /\ Verified(f)'
        BY <1>5, <1>6, <2>2, <3>1, <3>4
      <4>2. ~Verified(f)'
        BY <1>4, <1>5, <1>6, <2>2, EndGrows DEF IInv, Outcome
      <4> QED BY <4>1, <4>2
    <3> QED BY <1>5, <2>2, <3>2, <3>3, <3>4
  <2> QED BY <2>1, <2>2
<1>8. CancelUnderway'
  BY <1>1, <1>2, <1>6, <1>7 DEF CancelUnderway, PlanLockFree, Moves
<1>9. ASSUME NEW q \in Executor, worker[q].pc \in Working
      PROVE  \/ child'[Current(q)].claim = child[Current(q)].claim
             \/ q = "pass" /\ At(q, "preflight") /\ Ended(Current(q))'
  <2>1. q = "pass"
    BY <1>1, <1>9 DEF PlanLockFree, Working
  <2>2. Current(q) \in Op /\ Papers(q)
    BY <1>9, HeldFacts
  <2>3. At(q, "preflight")
    BY <1>1, <1>9, <2>1, <2>2 DEF Turn, Papers, Working, Intents
  <2> QED BY <1>2, <1>6, <2>1, <2>2, <2>3 DEF Moves
<1>10. CancelledSendsNothing' /\ SucceededIsVerified' /\ Active' /\ task'.state # "absent"
  BY <1>1 DEF CancelledSendsNothing, SucceededIsVerified, Active
<1>11. /\ plan'.status = "applied" => AllVerified'
       /\ worker["cancel"].copy.status = "applied" => AllVerified'
  BY <1>1, <1>6, Copies, VerifiedStays
<1>12. Exclusive'
  BY <1>2 DEF IInv, Exclusive, Moves
<1>13. "cancel" # "apply" /\ At("apply", "declare") => task'.state = "absent"
  BY <1>1 DEF PlanLockFree
<1> QED BY <1>1, <1>2, <1>3, <1>6, <1>8, <1>9, <1>10, <1>11, <1>12, <1>13, Assemble

\* The task follows: what a pass has chosen meanwhile has ended.
LEMMA CancelTaskKeeps ==
  ASSUME IInv, CancelTask
  PROVE  IInv'
<1>1. /\ Turn("cancel", "event") /\ Leave("cancel")
      /\ task' = [task EXCEPT !.state = "cancelled"]
      /\ UNCHANGED <<plan, child, checkpoint, clock, serving, left>>
  BY DEF CancelTask
<1>2. At("apply", "idle") /\ task.state = "preflight" /\ Intents = {} /\ FrontEnded
  BY <1>1 DEF IInv, CancelUnderway, Turn
<1>3. Moves("cancel", "idle", 1, Approved)
  BY <1>1, LeaveMoves DEF IInv
<1>4. /\ RestType' /\ TaskType' /\ plan' \in Plan
      /\ task'.state = "cancelled" /\ task'.witness = task.witness
  BY <1>1, RestKept, Types, Copies DEF TaskType
<1>5. Grows /\ Intents' = Intents /\ AllVerified' = AllVerified
  BY <1>1, SameGrows DEF IInv, Intents, AllVerified, Unverified
<1>6. ASSUME NEW q \in Executor, Underway(q)
      PROVE  q = "pass" /\ Ended(Current(q))'
  <2>1. q = "pass"
    BY <1>2, <1>6 DEF Underway, Working
  <2>2. Current(q) \in Op /\ \A j \in Op : j < Current(q) => Verified(j)
    BY <1>6, <2>1 DEF IInv, WorkInv, Ahead
  <2>3. Ended(Current(q))
    BY <1>2, <2>2 DEF FrontEnded
  <2> QED BY <1>3, <1>5, <2>1, <2>2, <2>3, VerifiedStays DEF Moves
<1>7. CancelledSendsNothing' /\ SucceededIsVerified' /\ CancelUnderway' /\ Exclusive'
  BY <1>1, <1>2, <1>3, <1>4, <1>5
  DEF CancelledSendsNothing, SucceededIsVerified, CancelUnderway, IInv, Exclusive, Moves
<1>8. /\ plan'.status = "applied" => AllVerified'
      /\ Approved.status = "applied" => AllVerified'
  BY <1>1, <1>5, Copies
<1>9. "cancel" # "apply" /\ At("apply", "declare") => task'.state = "absent"
  BY <1>2
<1> QED BY <1>1, <1>3, <1>4, <1>5, <1>6, <1>7, <1>8, <1>9, Assemble

-----------------------------------------------------------------------------
(* A recovery pass.                                                        *)

\* A pass starts.
LEMMA PassStartsKeeps ==
  ASSUME IInv, PassStarts
  PROVE  IInv'
<1>1. /\ Turn("pass", "idle") /\ UNCHANGED <<plan, task, child>> /\ RestType'
      /\ Moves("pass", "checkpoint", worker["pass"].op, worker["pass"].copy)
  BY RestKept, GotoMoves DEF IInv, PassStarts
<1>2. WorkInv("pass")'
  BY <1>1, NotUnderway DEF Moves, Working
<1> QED BY <1>1, <1>2, Copies, PlainStep DEF Working

\* A pass between two candidates.
LEMMA BetweenStep ==
  ASSUME IInv, NEW from, Turn("pass", from), NEW pc \in {"discover", "history"},
         Goto("pass", pc), UNCHANGED <<plan, task, child>>, RestType'
  PROVE  IInv'
<1>1. Moves("pass", pc, worker["pass"].op, worker["pass"].copy)
  BY GotoMoves DEF IInv
<1>2. WorkInv("pass")'
  BY <1>1, NotUnderway DEF Moves, Working
<1> QED BY <1>1, <1>2, Copies, PlainStep DEF Working

\* An expired child has not ended.
LEMMA ExpirableOpen ==
  ASSUME IInv, NEW i \in Op, Expirable(i)
  PROVE  ~Ended(i) /\ child[i].claim # "live"
BY DEF IInv, ChildInv, ChildrenAgree, Expirable

\* A pass ends an expired child.
LEMMA ExpireStep ==
  ASSUME IInv, NEW i \in Op, \A j \in Op : j < i => Verified(j), Active,
         NEW from, Turn("pass", from), Expirable(i), End(i, "refused"),
         Moves("pass", "attempts", i, plan),
         UNCHANGED <<plan, task>>, RestType'
  PROVE  IInv'
<1>1. ~Ended(i) /\ child[i].claim # "live"
  BY ExpirableOpen
<1>2. Grows /\ Claims(i, "over") /\ Intents' = Intents
  BY <1>1, EndGrows DEF IInv, Outcome
<1>3. WorkInv("pass")' /\ Exclusive'
  BY NotUnderway DEF Moves, Working, Exclusive
<1>4. \A q \in Executor : q # "pass" /\ worker[q].pc \in Working =>
        child'[Current(q)].claim = child[Current(q)].claim
  BY <1>1, <1>2 DEF IInv, WorkInv, HoldsClaim, Claims
<1>5. /\ TaskType' /\ plan' \in Plan /\ Active' /\ task'.state # "absent"
      /\ CancelledSendsNothing' /\ SucceededIsVerified'
  BY Types, Copies DEF TaskType, Active, CancelledSendsNothing, SucceededIsVerified
<1>6. plan.status = "applied" => AllVerified'
  BY <1>2, Copies, VerifiedStays
<1>7. At("apply", "declare") => task'.state = "absent"
  BY DEF IInv, ApplyBegins
<1> QED BY <1>2, <1>3, <1>4, <1>5, <1>6, <1>7, Assemble

\* A pass takes a child behind verified ones.
LEMMA TakeStep ==
  ASSUME IInv, NEW i \in Op, \A j \in Op : j < i => Verified(j), Active,
         NEW from, Turn("pass", from),
         NEW turn \in {"checkpointed", "priority", "preintent"}, Take(i, turn),
         UNCHANGED <<plan, task, clock, serving, left>>, checkpoint' \in 0..Operations
  PROVE  IInv'
<1> DEFINE expires == turn = "preintent" /\ Expirable(i)
           pc == IF Ended(i) \/ CancelRecorded \/ expires THEN "attempts" ELSE "load"
           w == [pc |-> pc, op |-> i, copy |-> plan, turn |-> turn]
<1>1. worker' = [worker EXCEPT !["pass"] = w]
  BY DEF Take
<1>2. IF expires THEN End(i, "refused") ELSE UNCHANGED child
  BY DEF Take
<1>3. w \in Worker
  BY Copies DEF Worker
<1>4. Moves("pass", pc, i, plan)
  <2>1. w.pc = pc /\ w.op = i /\ w.copy = plan
    OBVIOUS
  <2> HIDE DEF w
  <2> QED BY <1>1, <1>3, <2>1, RecordMoves DEF IInv
<1>5. RestType'
  BY Types
<1>6. CASE expires
  BY <1>2, <1>4, <1>5, <1>6, ExpireStep
<1>7. CASE ~expires
  <2>1. UNCHANGED child
    BY <1>2, <1>7
  <2> HIDE DEF expires
  <2>2. WorkInv("pass")'
    <3>1. worker'["pass"].pc \in {"attempts", "load"} /\ worker'["pass"].op = i
      BY <1>4 DEF Moves
    <3>2. \A j \in Op : Verified(j)' = Verified(j)
      BY <2>1
    <3>3. Ahead("pass")'
      BY <3>1, <3>2 DEF Ahead
    <3>4. Active'
      BY DEF Active
    <3> QED BY <3>1, <3>3, <3>4 DEF WorkInv, HoldsClaim, Papers, TaskGoesOn, Working
  <2>3. pc \in {"attempts", "load"}
    OBVIOUS
  <2> HIDE DEF pc
  <2> QED BY <1>4, <1>5, <2>1, <2>2, <2>3, Copies, PlainStep DEF Working
<1> QED BY <1>6, <1>7

\* The child that was selected before.
LEMMA TakeCheckpointedKeeps ==
  ASSUME IInv, TakeCheckpointed
  PROVE  IInv'
<1>1. Turn("pass", "checkpoint") /\ UNCHANGED <<plan, task, clock, serving, left>>
  BY DEF TakeCheckpointed
<1>2. CASE /\ checkpoint # 0 /\ Active /\ (child[checkpoint].intent \/ Ended(checkpoint))
           /\ Take(checkpoint, "checkpointed") /\ UNCHANGED checkpoint
  <2>1. checkpoint \in Op /\ checkpoint \in 0..Operations
    BY <1>2, Types DEF RestType
  <2>2. child[checkpoint].claim # "none"
    BY <1>2, <2>1 DEF IInv, ChildInv, ChildrenAgree
  <2>3. \A j \in Op : j < checkpoint => Verified(j)
    BY <2>1, <2>2 DEF IInv, ChildInv, InOrder
  <2> QED BY <1>1, <1>2, <2>1, <2>3, TakeStep
<1>3. CASE Goto("pass", "discover") /\ checkpoint' = 0 /\ UNCHANGED child
  <2>1. RestType'
    BY <1>1, <1>3, Types
  <2> QED BY <1>1, <1>3, <2>1, BetweenStep
<1> QED BY <1>2, <1>3 DEF TakeCheckpointed

\* The child that is next.
LEMMA CandidateIsNext == Candidate \in Op /\ \A j \in Op : j < Candidate => Verified(j)
<1>1. CASE Unverified = {}
  BY <1>1 DEF Candidate, Unverified
<1>2. CASE Unverified # {}
  BY <1>2, FirstUnverified DEF Candidate
<1> QED BY <1>1, <1>2

\* A pass discovers it.
LEMMA DiscoverKeeps ==
  ASSUME IInv, Discover
  PROVE  IInv'
<1>1. PICK i : i = Candidate
  OBVIOUS
<1>2. /\ Turn("pass", "discover") /\ UNCHANGED <<plan, task, clock, serving, left>>
      /\ \/ Goto("pass", "history") /\ UNCHANGED <<child, checkpoint>>
         \/ Active /\ Take(i, "priority") /\ checkpoint' = i
         \/ Active /\ Take(i, "preintent") /\ UNCHANGED checkpoint
  BY <1>1 DEF Discover
<1>3. i \in Op /\ \A j \in Op : j < i => Verified(j)
  BY <1>1, CandidateIsNext
<1>4. checkpoint \in 0..Operations
  BY Types DEF RestType
<1>5. CASE Goto("pass", "history") /\ UNCHANGED <<child, checkpoint>>
  BY <1>2, <1>5, RestKept, BetweenStep
<1>6. CASE Active /\ Take(i, "priority") /\ checkpoint' = i
  BY <1>2, <1>3, <1>6, TakeStep
<1>7. CASE Active /\ Take(i, "preintent") /\ UNCHANGED checkpoint
  BY <1>2, <1>3, <1>4, <1>7, TakeStep
<1> QED BY <1>2, <1>5, <1>6, <1>7

\* After an error the expired child ends, or the pass goes on.
LEMMA RetryKeeps ==
  ASSUME IInv, Retry
  PROVE  IInv'
<1> DEFINE i == Current("pass")
<1>1. /\ Turn("pass", "retry") /\ UNCHANGED <<plan, task>> /\ RestType'
  BY RestKept DEF Retry
<1>2. i \in Op /\ (\A j \in Op : j < i => Verified(j)) /\ (~Ended(i) => Active)
  BY <1>1 DEF IInv, Turn, Underway, WorkInv, Ahead, TaskGoesOn
<1>3. worker["pass"] \in Worker /\ plan \in Plan
  BY DEF IInv, TypeOK
<1>4. CASE /\ Expirable(i) /\ End(i, "refused")
           /\ worker' = [worker EXCEPT !["pass"].pc = "attempts", !["pass"].copy = plan]
  <2> DEFINE w == [worker["pass"] EXCEPT !.pc = "attempts", !.copy = plan]
  <2>1. worker' = [worker EXCEPT !["pass"] = w]
    BY <1>3, <1>4 DEF Worker, IInv, TypeOK
  <2>2. w \in Worker /\ w.pc = "attempts" /\ w.op = i /\ w.copy = plan
    BY <1>3 DEF Worker
  <2> HIDE DEF w
  <2>3. Moves("pass", "attempts", i, plan)
    BY <2>1, <2>2, RecordMoves DEF IInv
  <2>4. Active
    BY <1>2, <1>4, ExpirableOpen
  <2> QED BY <1>1, <1>2, <1>4, <2>3, <2>4, ExpireStep
<1>5. CASE /\ worker' = [worker EXCEPT !["pass"] = [Idle EXCEPT !.pc =
                IF worker["pass"].turn = "preintent" THEN "sweep" ELSE "history"]]
           /\ UNCHANGED child
  <2> DEFINE pc == IF worker["pass"].turn = "preintent" THEN "sweep" ELSE "history"
             w == [Idle EXCEPT !.pc = pc]
  <2>1. pc \in {"history", "sweep"}
    OBVIOUS
  <2>2. worker' = [worker EXCEPT !["pass"] = w]
    BY <1>5
  <2> HIDE DEF pc
  <2>3. Idle \in Worker /\ Idle.op = 1 /\ Idle.copy = Approved
    BY DEF Idle, Approved, Worker, Plan
  <2>4. w \in Worker /\ w.pc = pc /\ w.op = 1 /\ w.copy = Approved
    BY <2>1, <2>3 DEF Worker
  <2> HIDE DEF w
  <2>5. Moves("pass", pc, 1, Approved)
    BY <2>2, <2>4, RecordMoves DEF IInv
  <2> QED BY <1>1, <1>5, <2>1, <2>5, DoneStep
<1> QED BY <1>4, <1>5 DEF Retry

\* Below an ended task a child ends: nobody works on it any more.
LEMMA HistoryKeeps ==
  ASSUME IInv, History
  PROVE  IInv'
<1>1. /\ Turn("pass", "history") /\ Goto("pass", "sweep")
      /\ UNCHANGED <<plan, task, checkpoint, clock, serving, left>> /\ RestType'
  BY RestKept DEF History
<1>2. Moves("pass", "sweep", worker["pass"].op, worker["pass"].copy)
  BY <1>1, GotoMoves DEF IInv
<1>3. WorkInv("pass")' /\ Exclusive'
  BY <1>2, NotUnderway DEF Moves, Working, Exclusive
<1>4. CASE UNCHANGED child
  BY <1>1, <1>2, <1>3, <1>4, Copies, PlainStep DEF Working
<1>5. ASSUME NEW i \in Op, Open(i), ~Active, NEW o \in Outcome \ {"none"}, End(i, o)
      PROVE  IInv'
  <2>1. ~Ended(i) /\ child[i].claim # "none"
    BY <1>5 DEF IInv, ChildInv, ChildrenAgree
  <2>2. Grows /\ Claims(i, "over") /\ Intents' = Intents
    BY <1>5, <2>1, EndGrows DEF IInv
  <2>3. task.state # "absent"
    BY <2>1 DEF IInv, ChildInv, Blank
  <2>4. \A q \in Executor : q # "pass" => worker[q].pc \notin Working /\ ~Underway(q)
    BY <1>5 DEF IInv, WorkInv, TaskGoesOn, Underway
  <2>5. CancelledSendsNothing' /\ SucceededIsVerified'
    BY <1>1, <2>2, VerifiedStays
    DEF IInv, EndInv, CancelledSendsNothing, SucceededIsVerified
  <2>6. /\ plan'.status = "applied" => AllVerified'
        /\ worker["pass"].copy.status = "applied" => AllVerified'
    BY <1>1, <2>2, Copies, VerifiedStays
  <2>7. TaskType' /\ plan' \in Plan
    BY <1>1, Types, Copies DEF TaskType
  <2>8. At("apply", "declare") => task'.state = "absent"
    BY <1>1 DEF IInv, ApplyBegins
  <2> QED BY <1>1, <1>2, <1>3, <2>2, <2>3, <2>4, <2>5, <2>6, <2>7, <2>8, Assemble
<1> QED BY <1>4, <1>5 DEF History, Readable, Open, Outcome

\* The sweep ends a task no apply works on.
LEMMA SweepKeeps ==
  ASSUME IInv, Sweep
  PROVE  IInv'
<1>1. /\ Turn("pass", "sweep") /\ Leave("pass")
      /\ UNCHANGED <<plan, child, checkpoint, clock, left>>
  BY DEF Sweep
<1>2. Moves("pass", "idle", 1, Approved)
  BY <1>1, LeaveMoves DEF IInv
<1>3. WorkInv("pass")' /\ Exclusive'
  BY <1>2, NotUnderway DEF Moves, Working, Exclusive
<1>4. RestType'
  BY <1>1, Types DEF RestType, Sweep
<1>5. CASE ~Sweepable
  <2>1. UNCHANGED task
    BY <1>5 DEF Sweep
  <2> QED BY <1>1, <1>2, <1>3, <1>4, <2>1, DoneStep
<1>6. CASE Sweepable
  <2>1. /\ Active /\ At("apply", "idle") /\ task' = [task EXCEPT !.state = Swept]
    BY <1>6 DEF Sweepable, PlanLockFree, Sweep
  <2>2. task.state \in {"preflight", "dispatching", "observing"}
    BY <2>1, Types DEF TaskType, Active
  <2>3. plan.status \in {"approved", "applying", "verifying", "applied", "failed", "review"}
    BY DEF IInv, TypeOK, Plan
  <2>4. /\ Swept \in TaskState \ {"absent", "cancelled"}
        /\ Swept = "succeeded" => plan.status = "applied"
    BY <2>2, <2>3 DEF Swept
  <2>5. /\ TaskType' /\ plan' \in Plan /\ task'.witness = task.witness
        /\ task'.state = Swept
    BY <1>1, <2>1, <2>4, Types, Copies DEF TaskType
  <2>6. Grows /\ AllVerified' = AllVerified
    BY <1>1, SameGrows DEF IInv, AllVerified, Unverified
  <2>7. plan.status = "applied" => AllVerified'
    BY <2>6, Copies
  <2>8. CancelledSendsNothing' /\ SucceededIsVerified'
    BY <2>4, <2>5, <2>7 DEF CancelledSendsNothing, SucceededIsVerified, AllVerified, Unverified
  <2>9. \A q \in Executor : q # "pass" => worker[q].pc \notin Working /\ ~Underway(q)
    BY <2>1 DEF Underway, Working
  <2>10. /\ task'.state # "absent" /\ ~At("apply", "declare")
         /\ Approved.status = "applied" => AllVerified'
    BY <2>1, <2>4, <2>5, Copies
  <2> QED BY <1>1, <1>2, <1>3, <1>4, <2>5, <2>6, <2>7, <2>8, <2>9, <2>10, Assemble
<1> QED BY <1>5, <1>6

-----------------------------------------------------------------------------
(* Time, and the process.                                                  *)

\* Nothing the invariant speaks of changes but clocks and bounds.
LEMMA StillStep ==
  ASSUME IInv, UNCHANGED <<plan, task, child, worker>>, RestType'
  PROVE  IInv'
<1>1. TypeOK'
  BY DEF IInv, TypeOK, RestType
<1>2. Grows
  BY SameGrows DEF IInv
<1>3. Active' = Active /\ AllVerified' = AllVerified /\ Intents' = Intents
  BY DEF Active, AllVerified, Unverified, Intents
<1>4. OneWriter' /\ ApplyBegins' /\ Exclusive'
  BY DEF IInv, OneWriter, ApplyBegins, Exclusive
<1>5. ChildInv'
  BY <1>2, ChildInvStays DEF IInv, ChildInv, Blank
<1>6. \A q \in Executor : WorkInv(q)'
  BY <1>2, <1>3, WorkStays DEF IInv, WorkInv, TaskGoesOn
<1>7. CancelUnderway'
  BY <1>3 DEF IInv, CancelUnderway, FrontEnded
<1>8. EndInv'
  BY <1>3 DEF IInv, EndInv, AppliedIsVerified, CancelledSendsNothing, SucceededIsVerified
<1> QED BY <1>1, <1>4, <1>5, <1>6, <1>7, <1>8 DEF IInv

\* The approval expires.
LEMMA ApprovalExpiresKeeps ==
  ASSUME IInv, ApprovalExpires
  PROVE  IInv'
BY Types, StillStep DEF ApprovalExpires, RestType

\* A day has passed.
LEMMA OverdueKeeps ==
  ASSUME IInv, Overdue
  PROVE  IInv'
BY Types, StillStep DEF Overdue, RestType

\* A claim nobody renews lapses.
LEMMA ClaimLapsesKeeps ==
  ASSUME IInv, NEW i \in Op, ClaimLapses(i)
  PROVE  IInv'
<1>1. /\ child[i].claim = "live" /\ child' = [child EXCEPT ![i].claim = "lapsed"]
      /\ UNCHANGED <<plan, task, worker, checkpoint, clock, serving, left>>
      /\ \A q \in Executor : worker[q].pc \in Working => Current(q) # i
  BY DEF ClaimLapses, Working
<1>2. ~Ended(i)
  BY <1>1 DEF IInv, ChildInv, ChildrenAgree
<1>3. Grows /\ Claims(i, "lapsed") /\ Intents' = Intents
  BY <1>1, <1>2, ClaimGrows DEF IInv
<1>4. TypeOK' /\ OneWriter' /\ ApplyBegins' /\ Exclusive' /\ Active' = Active
  BY <1>1, <1>3 DEF IInv, TypeOK, OneWriter, ApplyBegins, Exclusive, Grows, Active
<1>5. ChildInv'
  <2>1. task.state # "absent"
    BY <1>1 DEF IInv, ChildInv, Blank
  <2> QED BY <1>1, <1>3, <2>1, ChildInvStays DEF IInv
<1>6. ASSUME NEW q \in Executor PROVE WorkInv(q)'
  <2>1. worker[q].pc \in Working => child'[Current(q)].claim = child[Current(q)].claim
    BY <1>1, <1>3, HeldFacts DEF Claims
  <2>2. WorkInv(q)
    BY DEF IInv
  <2>3. worker'[q] = worker[q] /\ task' = task
    BY <1>1
  <2>4. At(q, "outcome") => Active'
    BY <1>4, <2>2 DEF WorkInv, TaskGoesOn
  <2> QED BY <1>3, <1>4, <2>1, <2>2, <2>3, <2>4, WorkStays DEF IInv
<1>7. \A j \in Op : child'[j].outcome = child[j].outcome
  BY <1>1, ChildType DEF Child, IInv, TypeOK
<1>8. CancelUnderway' /\ EndInv'
  BY <1>1, <1>3, <1>7 DEF IInv, CancelUnderway, FrontEnded, EndInv, AppliedIsVerified,
     CancelledSendsNothing, SucceededIsVerified, AllVerified, Unverified
<1> QED BY <1>4, <1>5, <1>6, <1>8 DEF IInv

\* The workers are gone; what is stored stays, but for a plan being applied.
LEMMA CrashKeeps ==
  ASSUME IInv, Crash
  PROVE  IInv'
<1>1. /\ worker' = [p \in Process |-> Idle] /\ UNCHANGED <<task, child, checkpoint, clock>>
      /\ plan' = [plan EXCEPT !.status = IF @ = "applying" THEN "failed" ELSE @]
      /\ serving' = FALSE /\ Use("crashes")
  BY DEF Crash
<1>2. Idle \in Worker /\ Idle.pc = "idle" /\ Idle.op = 1 /\ Idle.copy.status # "applied"
  BY DEF Idle, Approved, Worker, Plan
<1>3. worker' \in [Process -> Worker] /\ \A p \in Process : worker'[p] = Idle
  BY <1>1, <1>2
<1>4. plan' \in Plan /\ (plan'.status = "applied" => plan.status = "applied")
  BY <1>1 DEF IInv, TypeOK, Plan
<1>5. TypeOK'
  BY <1>1, <1>3, <1>4, UseType DEF IInv, TypeOK
<1>6. OneWriter' /\ ApplyBegins' /\ Exclusive' /\ CancelUnderway'
  BY <1>2, <1>3 DEF OneWriter, ApplyBegins, Exclusive, CancelUnderway, Working
<1>7. ChildInv'
  <2>1. Grows
    BY <1>1, SameGrows DEF IInv
  <2> QED BY <1>1, <2>1, ChildInvStays DEF IInv, ChildInv, Blank
<1>8. \A q \in Executor : WorkInv(q)'
  BY <1>2, <1>3, NotUnderway DEF Working
<1>9. EndInv'
  BY <1>1, <1>2, <1>3, <1>4 DEF IInv, EndInv, AppliedIsVerified, CancelledSendsNothing,
     SucceededIsVerified, AllVerified, Unverified, Intents
<1> QED BY <1>5, <1>6, <1>7, <1>8, <1>9 DEF IInv

-----------------------------------------------------------------------------
(* The invariant.                                                          *)

\* It holds at first.
LEMMA InitIInv == ASSUME Init PROVE IInv
<1>1. Idle \in Worker /\ Idle.pc = "idle" /\ Idle.op = 1 /\ Idle.copy.status # "applied"
  BY DEF Idle, Approved, Worker, Plan
<1>2. \A p \in Process : worker[p] = Idle
  BY DEF Init
<1>3. TypeOK
  <2>1. plan \in Plan /\ worker \in [Process -> Worker]
    BY <1>1 DEF Init, Approved, Plan
  <2>2. child \in [Op -> Child]
    BY DEF Init, Child, Outcome
  <2>3. task \in [state : TaskState, dispatched : BOOLEAN, witness : BOOLEAN]
    BY DEF Init
  <2>4. checkpoint \in 0..Operations /\ serving \in BOOLEAN
    BY DEF Init
  <2>5. clock \in [approval : {"valid", "expired", "past"}, overdue : BOOLEAN]
    BY DEF Init
  <2>6. left \in [applies : 0..MaxApplies, aborts : 0..MaxAborts,
                  faults : 0..MaxFaults, crashes : 0..MaxCrashes]
    BY DEF Init
  <2> QED BY <2>1, <2>2, <2>3, <2>4, <2>5, <2>6 DEF TypeOK
<1>4. OneWriter /\ ApplyBegins /\ Exclusive /\ CancelUnderway
  BY <1>1, <1>2 DEF OneWriter, ApplyBegins, Exclusive, CancelUnderway, Working
<1>5. ChildInv
  BY DEF Init, ChildInv, ChildrenAgree, Blank, InOrder, IntentIsWitnessed, Intents
<1>6. \A q \in Executor : WorkInv(q)
  BY <1>1, <1>2 DEF WorkInv, Ahead, HoldsClaim, Papers, TaskGoesOn, Underway, Working
<1>7. EndInv
  BY <1>1, <1>2 DEF Init, Approved, EndInv, AppliedIsVerified, CancelledSendsNothing,
     SucceededIsVerified
<1> QED BY <1>3, <1>4, <1>5, <1>6, <1>7 DEF IInv

\* Every step keeps it.
LEMMA NextIInv == ASSUME IInv, [Next]_vars PROVE IInv'
<1>1. CASE Request
  BY <1>1, ApplyFirstKeeps, ApplyAgainKeeps, DeclareKeeps DEF Request
<1>2. CASE Abort
  BY <1>2, AbortKeeps
<1>3. CASE Cancel \/ CancelTask
  BY <1>3, CancelKeeps, CancelTaskKeeps
<1>4. ASSUME NEW p \in Executor, Execute(p) PROVE IInv'
  BY <1>4, LoadedKeeps, LoadFailsKeeps, EnterKeeps, PreflightKeeps, ConsumeKeeps,
     ReferenceKeeps, WitnessKeeps, CommitKeeps, ObserveKeeps, AttemptsKeeps,
     ProjectOutcomeKeeps, SavePlanKeeps DEF Execute
<1>5. CASE Pass
  BY <1>5, PassStartsKeeps, TakeCheckpointedKeeps, DiscoverKeeps, RetryKeeps, HistoryKeeps,
     SweepKeeps DEF Pass
<1>6. CASE Time
  BY <1>6, ApprovalExpiresKeeps, OverdueKeeps, ClaimLapsesKeeps DEF Time
<1>7. CASE Crash
  BY <1>7, CrashKeeps
<1>8. CASE UNCHANGED vars
  BY <1>8, Types, StillStep DEF vars, RestType
<1> QED BY <1>1, <1>2, <1>3, <1>4, <1>5, <1>6, <1>7, <1>8 DEF Next

\* The inductive invariant is one.
THEOREM IInvHolds == Spec => []IInv
<1>1. Init => IInv
  BY InitIInv
<1>2. IInv /\ [Next]_vars => IInv'
  BY NextIInv
<1> QED BY <1>1, <1>2, PTL DEF Spec

\* Every value of the state has its type, for plans of any length and any
\* number of requests, faults and crashes.
THEOREM PlanTyped == Spec => []TypeOK
<1>1. IInv => TypeOK
  BY DEF IInv
<1> QED BY <1>1, IInvHolds, PTL

\* What _execute_child may have sent has its consumption reference and the
\* witness of _ensure_public_approval_consumed, wherever a crash, an error or
\* the other worker cut the consumption off.
THEOREM PlanIntentIsWitnessed == Spec => []IntentIsWitnessed
<1>1. IInv => IntentIsWitnessed
  BY DEF IInv, ChildInv
<1> QED BY <1>1, IInvHolds, PTL

\* _apply and _recover_active_candidates claim an operation only behind
\* verified ones.
THEOREM PlanInOrder == Spec => []InOrder
<1>1. IInv => InOrder
  BY DEF IInv, ChildInv
<1> QED BY <1>1, IInvHolds, PTL

\* A task that cancel_execution_task, or a projection, calls cancelled has
\* sent nothing, now and later.
THEOREM PlanCancelledSendsNothing == Spec => []CancelledSendsNothing
<1>1. IInv => CancelledSendsNothing
  BY DEF IInv, EndInv
<1> QED BY <1>1, IInvHolds, PTL

\* _project_locked and the sweep call a task succeeded only when every
\* operation was verified.
THEOREM PlanSucceededIsVerified == Spec => []SucceededIsVerified
<1>1. IInv => SucceededIsVerified
  BY DEF IInv, EndInv
<1> QED BY <1>1, IInvHolds, PTL

\* The projections, the cancellation and the sweep write the state of a task
\* only while it is not terminal.
THEOREM PlanTaskEndsOnce == Spec => TaskEndsOnce
<1>1. ASSUME IInv, [Next]_vars, task.state \in Final
      PROVE  task'.state = task.state
  <2>1. ~Active
    BY <1>1 DEF Active
  <2>2. CASE Request
    BY <1>1, <2>1, <2>2 DEF Request, ApplyFirst, ApplyAgain, Declare, Turn, IInv, ApplyBegins
  <2>3. CASE Abort \/ Cancel
    BY <1>1, <2>3 DEF Abort, Cancel
  <2>4. CASE CancelTask
    BY <1>1, <2>4 DEF CancelTask, Turn, IInv, CancelUnderway
  <2>5. ASSUME NEW p \in Executor, Execute(p)
        PROVE  task'.state = task.state
    <3>1. CASE Loaded(p) \/ LoadFails(p) \/ Enter(p) \/ Preflight(p) \/ Consume(p)
      BY <3>1 DEF Loaded, LoadFails, Enter, Preflight, Consume
    <3>2. CASE Reference(p) \/ Commit(p) \/ Observe(p) \/ SavePlan(p)
      BY <3>2 DEF Reference, Commit, Observe, SavePlan
    <3>3. CASE Witness(p)
      BY <1>1, <3>3, Types DEF Witness, TaskType
    <3>4. CASE Attempts(p)
      BY <2>1, <3>4 DEF Attempts
    <3>5. CASE ProjectOutcome(p)
      BY <1>1, <2>1, <3>5 DEF ProjectOutcome, Turn, IInv, WorkInv, TaskGoesOn
    <3> QED BY <2>5, <3>1, <3>2, <3>3, <3>4, <3>5 DEF Execute
  <2>6. CASE Pass
    BY <2>1, <2>6 DEF Pass, PassStarts, TakeCheckpointed, Discover, Retry, History, Sweep,
       Sweepable
  <2>7. CASE Time \/ Crash \/ UNCHANGED vars
    BY <2>7 DEF Time, ApprovalExpires, Overdue, ClaimLapses, Crash, vars
  <2> QED BY <1>1, <2>2, <2>3, <2>4, <2>5, <2>6, <2>7 DEF Next
<1>2. IInv /\ [Next]_vars => [task.state \in Final => task'.state = task.state]_vars
  BY <1>1
<1> QED BY <1>2, IInvHolds, PTL DEF Spec, TaskEndsOnce

\* An end, a claim and a reference leave the intents as they are.
LEMMA IntentsStay ==
  ASSUME TypeOK, NEW i \in Op, NEW k
  PROVE  /\ \A o : End(k, o) => child'[i].intent = child[i].intent
         /\ \A c : child' = [child EXCEPT ![k].claim = c] => child'[i].intent = child[i].intent
         /\ child' = [child EXCEPT ![k].ref = TRUE] => child'[i].intent = child[i].intent
<1>1. child \in [Op -> Child]
  BY DEF TypeOK
<1>2. ASSUME NEW o, End(k, o) PROVE child'[i].intent = child[i].intent
  BY <1>1, <1>2 DEF Child, End
<1>3. ASSUME NEW c, child' = [child EXCEPT ![k].claim = c]
      PROVE  child'[i].intent = child[i].intent
  BY <1>1, <1>3 DEF Child
<1>4. ASSUME child' = [child EXCEPT ![k].ref = TRUE] PROVE child'[i].intent = child[i].intent
  BY <1>1, <1>4 DEF Child
<1> QED BY <1>2, <1>3, <1>4

\* Only Commit makes an intent durable, under a claim whose task goes on.
THEOREM PlanEndedSendsNothing == Spec => EndedSendsNothing
<1>1. ASSUME IInv, [Next]_vars, NEW i \in Op, child'[i].intent, ~child[i].intent
      PROVE  Active
  <2> TypeOK
    BY <1>1 DEF IInv
  <2> SUFFICES ASSUME child'[i].intent # child[i].intent, ~Active PROVE FALSE
    BY <1>1
  <2>1. CASE Request
    BY <2>1 DEF Request, ApplyFirst, ApplyAgain, Declare
  <2>2. CASE Abort \/ Cancel \/ CancelTask
    BY <2>2, IntentsStay DEF Abort, Cancel, CancelChild, CancelTask
  <2>3. ASSUME NEW p \in Executor, Execute(p)
        PROVE  FALSE
    <3>1. CASE Commit(p)
      BY <1>1, <3>1, Beyond DEF Commit, Working
    <3>2. CASE Loaded(p) \/ LoadFails(p) \/ Witness(p) \/ Attempts(p)
      BY <3>2 DEF Loaded, LoadFails, Witness, Attempts
    <3>3. CASE ProjectOutcome(p) \/ SavePlan(p)
      BY <3>3 DEF ProjectOutcome, SavePlan
    <3>4. CASE Enter(p)
      BY <3>4, IntentsStay DEF Enter
    <3>5. CASE Preflight(p)
      BY <3>5, IntentsStay DEF Preflight
    <3>6. CASE Consume(p)
      BY <3>6, IntentsStay DEF Consume
    <3>7. CASE Reference(p)
      BY <3>7, IntentsStay DEF Reference
    <3>8. CASE Observe(p)
      BY <3>8, IntentsStay DEF Observe
    <3> QED BY <2>3, <3>1, <3>2, <3>3, <3>4, <3>5, <3>6, <3>7, <3>8 DEF Execute
  <2>4. CASE Pass
    <3>1. \A k, turn : Take(k, turn) => child'[i].intent = child[i].intent
      BY IntentsStay DEF Take
    <3>2. CASE PassStarts \/ Sweep
      BY <3>2 DEF PassStarts, Sweep
    <3>3. CASE TakeCheckpointed \/ Discover
      BY <3>1, <3>3 DEF TakeCheckpointed, Discover
    <3>4. CASE Retry
      BY <3>4, IntentsStay DEF Retry
    <3>5. CASE History
      BY <3>5, IntentsStay DEF History
    <3> QED BY <2>4, <3>2, <3>3, <3>4, <3>5 DEF Pass
  <2>5. CASE Time
    BY <2>5, IntentsStay DEF Time, ApprovalExpires, Overdue, ClaimLapses
  <2>6. CASE Crash \/ UNCHANGED vars
    BY <2>6 DEF Crash, vars
  <2> QED BY <1>1, <2>1, <2>2, <2>3, <2>4, <2>5, <2>6 DEF Next
<1>2. IInv /\ [Next]_vars =>
        [\A i \in Op : child'[i].intent /\ ~child[i].intent => Active]_vars
  BY <1>1
<1> QED BY <1>2, IInvHolds, PTL DEF Spec, EndedSendsNothing
====
