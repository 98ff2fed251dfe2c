---------------------------- MODULE PlanProgress ----------------------------
(***************************************************************************)
(* What execute_plan promises about one plan, whatever calls, retries and  *)
(* crashes it takes: the steps are verified one at a time and in order,    *)
(* and the execution ends once, verified with all steps done or failed.    *)
(***************************************************************************)
EXTENDS Naturals

CONSTANT Steps  \* the steps of the plan are 1..Steps

VARIABLES done,   \* the steps that were executed and verified
          ended   \* "no", "verified" or "failed"

progress == <<done, ended>>

ProgressInit == done = {} /\ ended = "no"

Verify(s) ==
  /\ ended = "no"
  /\ done = 1..(s - 1)
  /\ done' = done \cup {s}
  /\ UNCHANGED ended

End ==
  /\ ended = "no"
  /\ \/ ended' = "verified" /\ done = 1..Steps
     \/ ended' = "failed" /\ done # 1..Steps
  /\ UNCHANGED done

ProgressNext == End \/ \E s \in 1..Steps : Verify(s)

ProgressSpec == ProgressInit /\ [][ProgressNext]_progress
=============================================================================
