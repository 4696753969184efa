----------------------------- MODULE HoldRelease ----------------------------
(***************************************************************************)
(* What the release of a manual-review hold promises, without processes,   *)
(* files or crashes: a hold is lifted only after a decision about it, the  *)
(* decision is made once, and the audit log tells of a completed release.  *)
(***************************************************************************)
CONSTANT Task

VARIABLES
  stage,   \* how far the release of each task's hold has come
  logged   \* tasks whose release the audit log has ever told of

Stages == {"open", "held", "decided", "lifted", "released"}

Init ==
  /\ stage = [t \in Task |-> "open"]
  /\ logged = {}

Advance(t, from, to) ==
  /\ stage[t] = from
  /\ stage' = [stage EXCEPT ![t] = to]
  /\ UNCHANGED logged

Log(t) ==
  /\ stage[t] = "released"
  /\ logged' = logged \union {t}
  /\ UNCHANGED stage

Next == \E t \in Task :
  \/ Advance(t, "open", "held")
  \/ Advance(t, "held", "decided")
  \/ Advance(t, "decided", "lifted")
  \/ Advance(t, "lifted", "released")
  \/ Log(t)

Spec == Init /\ [][Next]_<<stage, logged>>
=============================================================================
