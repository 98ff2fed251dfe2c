---------------------------- MODULE TaskLifecycle ----------------------------
(***************************************************************************)
(* What the durable task queue promises its clients, with no queue order,  *)
(* no workers and no files: a task runs only on an authorization.  Submit  *)
(* gives one; after an interruption nothing runs again until an operator   *)
(* confirms, which gives one more; a finished or cancelled task is final.  *)
(***************************************************************************)
EXTENDS Naturals

CONSTANT TaskId

VARIABLES state,   \* the state of each task, "absent" before it is submitted
          grants,  \* authorizations to run given so far
          runs     \* times the task was handed to a worker

lifecycle == <<state, grants, runs>>

LifeInit ==
  /\ state = [t \in TaskId |-> "absent"]
  /\ grants = [t \in TaskId |-> 0]
  /\ runs = [t \in TaskId |-> 0]

Move(t, from, to) == /\ state[t] \in from
                     /\ state' = [state EXCEPT ![t] = to]

Grant(t) == /\ grants' = [grants EXCEPT ![t] = @ + 1]
            /\ UNCHANGED runs

Submit(t)  == Move(t, {"absent"}, "pending") /\ Grant(t)
Confirm(t) == Move(t, {"recovery_required"}, "pending") /\ Grant(t)

HandOut(t) == /\ Move(t, {"pending"}, "running")
              /\ runs[t] < grants[t]
              /\ runs' = [runs EXCEPT ![t] = @ + 1]
              /\ UNCHANGED grants

Finish(t) == /\ \/ Move(t, {"running"}, "succeeded")
                \/ Move(t, {"running"}, "failed")
             /\ UNCHANGED <<grants, runs>>

Withdraw(t) == /\ Move(t, {"pending", "recovery_required"}, "cancelled")
               /\ UNCHANGED <<grants, runs>>

\* A restarting worker cannot tell how far any running task got.
Interrupt ==
  /\ state' = [t \in TaskId |-> IF state[t] = "running"
                                  THEN "recovery_required" ELSE state[t]]
  /\ UNCHANGED <<grants, runs>>

LifeNext ==
  \/ Interrupt
  \/ \E t \in TaskId :
       Submit(t) \/ Confirm(t) \/ HandOut(t) \/ Finish(t) \/ Withdraw(t)

LifeSpec == LifeInit /\ [][LifeNext]_lifecycle
=============================================================================
