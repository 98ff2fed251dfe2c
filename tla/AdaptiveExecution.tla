-------------------------- MODULE AdaptiveExecution --------------------------
(***************************************************************************)
(* execute_adaptive_plan (autonomous_agent/adaptive_execution.py): a plan  *)
(* is executed step by step, every attempt at a step is an execute_plan of *)
(* its own (a child, with its own audit log and checkpoint), and a step    *)
(* that failed for good may be replaced by steps of a replanner.           *)
(*                                                                         *)
(* Only the children and the chain of the adaptive audit survive the       *)
(* process.  A call for the same execution id starts again with the plan   *)
(* as it was and finds the children of the call before under their names.  *)
(* What execute_plan leaves behind when it is cut off is ExecutionEngine's *)
(* subject; here it is a state of the child.                               *)
(***************************************************************************)
EXTENDS Naturals, Sequences, FiniteSets

CONSTANTS Plans,            \* the plans of the callers: sequences of steps
          Tools,            \* the registry: read_write_mode of each tool
          Replacements,     \* the sequences of steps a replanner may answer
          RetryBounds,      \* max_retries_per_step of a call, clamped
          ReplanBounds,     \* max_replans of a call, clamped
          ReplacementLimit, \* MAX_REPLACEMENT_STEPS
          MaxAdaptiveCalls  \* bound on the calls made, for model checking

\* The steps that callers and replanners may name.
PlanStep == UNION {{p[i] : i \in DOMAIN p} : p \in Plans \cup Replacements}

ASSUME AdaptiveAssumption ==
  /\ Plans \cup Replacements \subseteq Seq(PlanStep)
  /\ RetryBounds \subseteq Nat /\ ReplanBounds \subseteq Nat
  /\ ReplacementLimit \in Nat /\ MaxAdaptiveCalls \in Nat

VARIABLES plan,        \* the plan of this execution id
          children,    \* what is on disk of each child that was begun
          chain,       \* the adaptive audit verifies
          run,         \* the local variables of the call
          result,      \* what the last call returned
          adaptations, \* history: calls made
          proved,      \* history: steps whose tool ran and was verified in this call
          replaced     \* history: failed steps a replan took out in this call

adaptiveVars == <<plan, children, chain, run, result, adaptations, proved, replaced>>

-----------------------------------------------------------------------------
\* A child that was cut off: begun (its audit has begun, no checkpoint),
\* started (a running checkpoint), recorded (the verified result is in the audit),
\* unproved (a verified checkpoint without its record), torn (half a line).
ChildState == {"absent", "begun", "started", "recorded", "unproved", "verified",
               "failed", "torn"}

Ended == {"verified", "failed", "blocked", "recovery_required"}

\* replan_count, step and attempt are in the name of a child.
ChildId == [replans : Nat, step : PlanStep, attempt : Nat]

Outside == [place |-> "idle", steps |-> <<>>, index |-> 1, attempt |-> 1, replans |-> 0,
            retries |-> 0, allowed |-> 0, approved |-> FALSE, replanner |-> FALSE,
            state |-> "none", success |-> FALSE]

AdaptiveTypeOK ==
  /\ plan \in Plans
  /\ DOMAIN children \subseteq ChildId
  /\ \A c \in DOMAIN children : children[c].state \in ChildState
  /\ chain \in BOOLEAN
  /\ run.place \in {"idle", "child", "observed", "exhausted"}
  /\ result \in Ended \cup {"none"}
  /\ adaptations \in 0..MaxAdaptiveCalls

AdaptiveInit ==
  /\ plan \in Plans
  /\ children = [c \in {} |-> Outside]
  /\ chain = TRUE /\ run = Outside /\ result = "none"
  /\ adaptations = 0 /\ proved = {} /\ replaced = {}

Ends(state) == /\ run' = [run EXCEPT !.place = "idle"]
               /\ result' = state

\* AutonomousTaskCore.execute_adaptive: every parameter is the caller's choice.
AdaptiveCall ==
  /\ run.place = "idle" /\ adaptations < MaxAdaptiveCalls
  /\ adaptations' = adaptations + 1
  /\ proved' = {} /\ replaced' = {}
  /\ \E retries \in RetryBounds, allowed \in ReplanBounds, approved, replanner \in BOOLEAN :
        run' = [Outside EXCEPT !.place = IF chain THEN "child" ELSE "idle", !.steps = plan,
                               !.retries = retries, !.allowed = allowed,
                               !.approved = approved, !.replanner = replanner]
  /\ result' = IF chain THEN "none" ELSE "blocked"
  /\ UNCHANGED <<plan, children, chain>>

-----------------------------------------------------------------------------
\* The child of this attempt.

Step == run.steps[run.index]
ThisChild == [replans |-> run.replans, step |-> Step, attempt |-> run.attempt]

OnDisk == IF ThisChild \in DOMAIN children THEN children[ThisChild].state ELSE "absent"

\* The authorization digest in the child's checkpoint is of this call.
SameAuthorization ==
  OnDisk \notin {"absent", "begun", "torn"} => children[ThisChild].approved = run.approved

InLoop == run.place = "child" /\ run.index <= Len(run.steps)

Leaves(state) ==
  children' = [c \in DOMAIN children \cup {ThisChild} |->
                 IF c = ThisChild THEN [state |-> state, approved |-> run.approved]
                 ELSE children[c]]

\* _safe_observation: a child that returns no result is no success.
Observes(state, success) ==
  run' = [run EXCEPT !.place = "observed", !.state = state, !.success = success]

Executable == OnDisk \in {"absent", "started"} /\ SameAuthorization

\* What execute_plan refuses whatever its caller says.
Admissible(step, approved) ==
  step.tool \in DOMAIN Tools /\ (Tools[step.tool] = "read_only" \/ approved)

\* The child runs its tool, once: max_retries is zero.
ChildRuns ==
  /\ InLoop /\ Executable /\ Admissible(Step, run.approved)
  /\ \E success \in BOOLEAN :
        LET state == IF success THEN "verified" ELSE "failed"
        IN  /\ Leaves(state) /\ Observes(state, success)
            /\ proved' = IF success THEN proved \cup {Step} ELSE proved
  /\ UNCHANGED <<plan, chain, result, adaptations, replaced>>

\* A policy, a grant or the trust of a replanned step stands against the tool; the
\* running checkpoint stays.
ChildRefuses ==
  /\ InLoop /\ Executable
  /\ Leaves("started") /\ Observes("blocked", FALSE)
  /\ UNCHANGED <<plan, chain, result, adaptations, proved, replaced>>

\* The child of an earlier call answers from its files: nothing is run and there
\* is no result.
Recalled ==
  CASE OnDisk = "torn" \/ ~SameAuthorization    -> "blocked"
    [] OnDisk \in {"recorded", "verified"}      -> "verified"
    [] OTHER                                    -> "recovery_required"

ChildRecalls ==
  /\ InLoop /\ ~Executable
  /\ IF Recalled = "verified" THEN Leaves("verified") ELSE UNCHANGED children
  /\ Observes(Recalled, FALSE)
  /\ UNCHANGED <<plan, chain, result, adaptations, proved, replaced>>

-----------------------------------------------------------------------------
\* What the call makes of the observation.

\* A verified child without a result of its own is not taken for a success.
StepVerified ==
  /\ run.place = "observed" /\ run.state = "verified" /\ run.success
  /\ run' = [run EXCEPT !.place = "child", !.index = @ + 1, !.attempt = 1]
  /\ UNCHANGED <<plan, children, chain, result, adaptations, proved, replaced>>

\* Neither is retried nor shown to the replanner.
AdaptationBlocked ==
  /\ run.place = "observed" /\ run.state \in {"blocked", "recovery_required"}
  /\ Ends(run.state)
  /\ UNCHANGED <<plan, children, chain, adaptations, proved, replaced>>

Unsuccessful == /\ run.place = "observed"
                /\ run.state \in {"verified", "failed"} /\ ~run.success

Retry ==
  /\ Unsuccessful
  /\ run' = IF run.attempt <= run.retries
              THEN [run EXCEPT !.place = "child", !.attempt = @ + 1]
              ELSE [run EXCEPT !.place = "exhausted"]
  /\ UNCHANGED <<plan, children, chain, result, adaptations, proved, replaced>>

NoReplan ==
  /\ run.place = "exhausted" /\ (~run.replanner \/ run.replans >= run.allowed)
  /\ Ends("failed")
  /\ UNCHANGED <<plan, children, chain, adaptations, proved, replaced>>

-----------------------------------------------------------------------------
\* A replacement is checked in this order; the failed step's own id may be used again.

IdsOf(seq) == {seq[i].id : i \in DOMAIN seq}

Collides(seq) == \E i \in DOMAIN run.steps :
                    run.steps[i].id \in IdsOf(seq) \ {Step.id}

Checked(seq) ==
  CASE seq = <<>>                                                  -> "failed"
    [] \E i \in DOMAIN seq : ~Admissible(seq[i], run.approved)     -> "blocked"
    [] Len(seq) > ReplacementLimit                                 -> "failed"
    [] Cardinality(IdsOf(seq)) < Len(seq) \/ Collides(seq)         -> "failed"
    [] OTHER                                                       -> "accepted"

\* Mutant: the replacement is written over as many steps as it has.
BugSplice(seq) == SubSeq(run.steps, 1, run.index - 1) \o seq
                  \o SubSeq(run.steps, run.index + Len(seq), Len(run.steps))

\* steps[index:index + 1] = replacement
Splice(seq) == SubSeq(run.steps, 1, run.index - 1) \o seq
               \o SubSeq(run.steps, run.index + 1, Len(run.steps))

Replan ==
  /\ run.place = "exhausted" /\ run.replanner /\ run.replans < run.allowed
  /\ \E seq \in Replacements :
        IF Checked(seq) = "accepted"
          THEN /\ run' = [run EXCEPT !.place = "child", !.steps = Splice(seq),
                                     !.attempt = 1, !.replans = @ + 1]
               /\ replaced' = replaced \cup {Step}
               /\ UNCHANGED result
          ELSE /\ Ends(Checked(seq))
               /\ UNCHANGED replaced
  /\ UNCHANGED <<plan, children, chain, adaptations, proved>>

TaskCompleted ==
  /\ run.place = "child" /\ run.index > Len(run.steps)
  /\ Ends("verified")
  /\ UNCHANGED <<plan, children, chain, adaptations, proved, replaced>>

-----------------------------------------------------------------------------
\* Where a child can stand when the process dies under it, with or without an
\* effect of its tool.
CutOff(state) ==
  LET first == IF state = "absent" THEN {"begun", "started", "torn"} ELSE {"started", "torn"}
      done == {"recorded", "unproved", "verified"}
  IN  CASE state \in {"absent", "started"} ->
             IF Admissible(Step, run.approved) THEN first \cup done \cup {"failed"} ELSE first
        [] state = "recorded" -> done \cup {"torn"}
        [] OTHER              -> {state}

\* The process dies in the child, or with half a line in the adaptive audit, or
\* an exception goes through (a replanner that answers None is one).
AdaptiveCrash ==
  /\ run.place # "idle"
  /\ Ends("none")
  /\ \/ /\ InLoop /\ SameAuthorization
        /\ \E state \in CutOff(OnDisk) : Leaves(state)
        /\ UNCHANGED chain
     \/ /\ chain' \in {FALSE, chain}
        /\ UNCHANGED children
  /\ UNCHANGED <<plan, adaptations, proved, replaced>>

AdaptiveNext ==
  \/ AdaptiveCall
  \/ ChildRuns \/ ChildRefuses \/ ChildRecalls
  \/ StepVerified \/ AdaptationBlocked \/ Retry
  \/ NoReplan \/ Replan \/ TaskCompleted
  \/ AdaptiveCrash

AdaptiveSpec == AdaptiveInit /\ [][AdaptiveNext]_adaptiveVars

-----------------------------------------------------------------------------
\* A call works on a step only after every earlier step of what the plan has become
\* ran and was verified in this very call, and it reports verified only when
\* each planned step was verified so or taken out by a replan: no retry, splice or
\* answer of an old child lets the index run ahead (execute_adaptive_plan).
AdaptedPlanIsVerified ==
  /\ run.place # "idle" => \A i \in 1..(run.index - 1) : run.steps[i] \in proved
  /\ result = "verified" =>
        /\ \A i \in DOMAIN run.steps : run.steps[i] \in proved
        /\ \A i \in DOMAIN plan : plan[i] \in proved \cup replaced
=============================================================================
