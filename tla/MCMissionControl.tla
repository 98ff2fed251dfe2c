--------------------------- MODULE MCMissionControl ---------------------------
(***************************************************************************)
(* Missions and handler threads of MissionControl on small instances, and  *)
(* the loop of the worker below it (BackgroundWorker).  A mission is a DAG *)
(* of two steps that runs by itself, one that needs approvals, or a plain  *)
(* task that needs them; each behaviour drives what the initial state      *)
(* chooses.                                                                *)
(***************************************************************************)
EXTENDS MissionControl, TLC

CONSTANTS m1, c1, c2, w1, t1, t2

VARIABLES driven,   \* what this behaviour drives
          listed, leases, now, at, claim, expires, success, confirms, earned

loopVars == <<listed, leases, now, at, claim, expires, success, confirms, earned>>

Asking == INSTANCE MissionControl WITH Guarded <- Mission
Plain == INSTANCE MissionControl WITH Guarded <- Mission, Steps <- [m \in Mission |-> 0]

\* One worker, started again after every crash, and two tasks: what a scheduled,
\* a cancelled or a recovering task ahead in the queue does to the one behind it.
Loop == INSTANCE BackgroundWorker WITH
    Worker <- {w1}, TaskId <- {t1, t2}, NoTask <- None, UseLeases <- TRUE,
    MaxActive <- 1, Ttl <- 1, MaxTime <- 1, WorkersOverlap <- FALSE,
    LockTimeouts <- TRUE, tasks <- listed, pc <- at

SuccessIsOfThisAttempt == Loop!SuccessIsOfThisAttempt
DueTasksAreServed == Loop!DueTasksAreServed
ClaimedTasksEnd == Loop!ClaimedTasksEnd

ControlInit == /\ driven \in {"graph", "asking", "plain", "loop"}
               /\ Init /\ Loop!WorkerInit

\* What the chosen kind of mission does: A, B or C.
Does(A, B, C) == /\ \/ driven = "graph" /\ A
                    \/ driven = "asking" /\ B
                    \/ driven = "plain" /\ C
                 /\ UNCHANGED <<driven, loopVars>>
Loops(A) == driven = "loop" /\ A /\ UNCHANGED <<driven, vars>>

ControlNext == Does(Next, Asking!Next, Plain!Next) \/ Loops(Loop!WorkerNext)

\* Each part has the fairness its module states.
ControlSpec ==
    /\ ControlInit /\ [][ControlNext]_<<driven, vars, loopVars>>
    /\ WF_vars(Does(Works, Asking!Works, Plain!Works))
    /\ WF_vars(Does(Starts, Asking!Starts, Plain!Starts))
    /\ \A c \in Client : WF_vars(Does(Proceeds(c), Asking!Proceeds(c), Plain!Proceeds(c)))
    /\ WF_loopVars(Loops(Loop!Step(w1)))

-----------------------------------------------------------------------------
OneMission == {m1}
OneClient == {c1}
TwoClients == {c1, c2}
TwoSteps == [m \in {m1} |-> 2]
Ids2 == 1..2
=============================================================================
