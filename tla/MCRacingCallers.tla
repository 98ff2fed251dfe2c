--------------------------- MODULE MCRacingCallers ---------------------------
(***************************************************************************)
(* Two callers at a time: two coding commands for one finding and two      *)
(* approval commands (CodingRun), two handler threads of the server        *)
(* (MissionControl), two calls for one execution id (ExecutionEngine).     *)
(* The three share nothing here, so each behaviour drives the one chosen   *)
(* in the initial state. The server and the engine are instances of their  *)
(* proof modules, so that their theorems are theorems of this one.         *)
(***************************************************************************)
EXTENDS CodingRun, TLC

CONSTANTS a1, a2,   \* the callers
          r1, r2,   \* the coding commands
          m1, NoValue

VARIABLES driven,   \* what the callers do
          tasks, missions, asked, approval, taken, mode, todo, request, wpc, wtask,
          wmission, seen, known, latest, ended, privileged, owner,
          checkpoint, tmp, audit, at, call, outcome, executed, calls

missionVars == <<tasks, missions, asked, approval, taken, mode, todo, request, wpc, wtask,
                 wmission, seen, known, latest, ended, privileged, owner>>
engineVars == <<checkpoint, tmp, audit, at, call, outcome, executed, calls>>

TwoRuns == {r1, r2}
TwoCallers == {a1, a2}

\* One mission of two steps that needs two approvals; the worker may claim an
\* item before its mission is stored.
Server == INSTANCE MissionControlProofs WITH
    Mission <- {m1}, None <- NoValue, Guarded <- {m1}, Steps <- [m \in {m1} |-> 2],
    Client <- TwoCallers, TaskId <- 1..2, MaxTasks <- 2, MaxAttempts <- 2,
    MaxProposals <- 1, Overtake <- TRUE, Faults <- FALSE,
    claimed <- taken, call <- request, outcome <- ended

\* They share the name of the temporary file.
Engine == INSTANCE ExecutionEngineProofs WITH
    None <- NoValue, Runner <- TwoCallers, Identity <- {1}, Steps <- 2, MaxRetries <- 0,
    MaxCalls <- 3, Budget <- 2, pc <- at, runs <- executed

OneItemPerApproval == Server!OneItemPerApproval
StepsInOrder == Engine!StepsInOrder
VerifiedIsBacked == Engine!VerifiedIsBacked

RacingInit == /\ driven \in {"commands", "server", "engine"}
              /\ Init /\ Server!Init /\ Engine!Init

RacingNext ==
    \/ driven = "commands" /\ Next /\ UNCHANGED <<driven, missionVars, engineVars>>
    \/ driven = "server" /\ Server!Next /\ UNCHANGED <<driven, vars, engineVars>>
    \/ driven = "engine" /\ Engine!Next /\ UNCHANGED <<driven, vars, missionVars>>

RacingSpec == RacingInit /\ [][RacingNext]_<<driven, vars, missionVars, engineVars>>

\* Callers and commands are interchangeable.
Symmetric == Permutations(TwoCallers) \cup Permutations(TwoRuns)
=============================================================================
