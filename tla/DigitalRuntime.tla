---------------------------- MODULE DigitalRuntime ----------------------------
(***************************************************************************)
(* The digital agent runtime: a goal is routed to declared capabilities,   *)
(* the plan is authorized, and every step is executed, observed, verified  *)
(* and recorded in the audit of the execution; a resumed run skips the     *)
(* steps its checkpoint and the audit both know as verified.               *)
(*                                                                         *)
(* A goal is the set of vocabulary words that occur in its text.  A digest *)
(* is what it is computed from.  One process runs at a time; it may crash  *)
(* between any two durable writes.                                         *)
(***************************************************************************)
EXTENDS Integers, Sequences, FiniteSets

CONSTANTS
    Catalog,        \* capability -> its descriptor and registered tool
    DomainWords,    \* domain -> the words that call for it
    Defaults,       \* domain -> the capabilities it falls back to
    BlockedWords,   \* the words of destructive goals
    Goals,          \* goals the user may state
    Grants,         \* permission sets a caller may pass; {} asks for the default
    DeniedPermissions,  \* never granted
    ValidFor,       \* arguments of a call -> the capabilities whose schema they match
    Executions,     \* execution identities
    MaxFreshCalls, MaxAudit, MaxDigitalCrashes   \* bounds of the model

VARIABLES
    audit,          \* the records of the execution audit
    chainValid,     \* the audit's hash chain verifies
    checkpoint,     \* the file of the checkpoint store
    run,            \* the run in progress, or the last one
    attempts,       \* history: every attempt of a step
    interruptions,  \* history: the steps a crash cut off
    freshCalls, digitalCrashes

digitalVars == <<audit, chainValid, checkpoint, run, attempts, interruptions,
                 freshCalls, digitalCrashes>>

Capabilities == DOMAIN Catalog
NoCheckpoint == [execution |-> "none", plan |-> <<>>, authorization |-> <<>>, completed |-> {}]
NoRun == [execution |-> "none", resume |-> FALSE, plan |-> <<>>, inputs |-> "none",
          authorization |-> <<>>, at |-> 0, attempt |-> 0, done |-> {}, state |-> "idle"]

DigitalInit ==
    /\ audit = <<>> /\ chainValid = TRUE /\ checkpoint = NoCheckpoint /\ run = NoRun
    /\ attempts = <<>> /\ interruptions = {} /\ freshCalls = 0 /\ digitalCrashes = 0

-----------------------------------------------------------------------------
\* Routing

ReadOnly(c) == Catalog[c].mode = "read_only"

\* place is the rank of a capability by its stage and its id; the defaults are
\* registered and read-only (DEFAULT_CAPABILITIES).
ASSUME DigitalAssumption ==
    /\ IsFiniteSet(Capabilities)
    /\ \A c \in Capabilities : Catalog[c].place \in Int
    /\ \A c, d \in Capabilities : Catalog[c].place = Catalog[d].place => c = d
    /\ \A d \in DOMAIN DomainWords : Defaults[d] \subseteq {c \in Capabilities : ReadOnly(c)}

InDomain(d) == {c \in Capabilities : Catalog[c].domain = d}
Available(c) == Catalog[c].available
Matched(goal) == {d \in DOMAIN DomainWords : DomainWords[d] \cap goal # {}}
Usable(d) == \E c \in InDomain(d) : Available(c)
BySignal(goal, d) == {c \in InDomain(d) : Available(c) /\ Catalog[c].words \cap goal # {}}
BugByDefault(goal, d) == IF BySignal(goal, d) = {} THEN InDomain(d) ELSE {}

\* A domain none of whose capabilities was called for by a word of its own falls
\* back to its declared defaults.
ByDefault(goal, d) == IF BySignal(goal, d) = {} THEN Defaults[d] ELSE {}

\* A destructive goal selects nothing, nor does one that needs a domain no
\* available capability serves.
Route(goal) ==
    IF goal \cap BlockedWords # {} \/ \E d \in Matched(goal) : ~Usable(d) THEN {}
    ELSE UNION {BySignal(goal, d) \cup ByDefault(goal, d) : d \in Matched(goal)}

-----------------------------------------------------------------------------
\* Authorization

Permission(c) == Catalog[c].permission
RequiredPermissions(cs) == {Permission(c) : c \in cs}
AutonomousPermissions(cs) == RequiredPermissions({c \in cs : Catalog[c].safe})
NarrowGrants(cs, requested) == (requested \ DeniedPermissions) \cap RequiredPermissions(cs)

\* The consequence-aware policy: a side effect, a high risk, a registered
\* approval and a tool not marked safe need a person.
RequiresApproval(c) ==
    \/ ~ReadOnly(c) \/ Catalog[c].risk \in {"high", "critical"}
    \/ Catalog[c].approval # "none" \/ ~Catalog[c].safe

\* The tool registry's decision.
RegistryAllows(c, granted, approved, sandbox) ==
    /\ Permission(c) \in granted
    /\ Catalog[c].sandbox => sandbox
    /\ Catalog[c].approval # "none" => approved

Authorized(c, granted, approved, sandbox) ==
    /\ RequiresApproval(c) => approved
    /\ RegistryAllows(c, granted, approved, sandbox)

UpTo(cs, c) == {d \in cs : Catalog[d].place <= Catalog[c].place}
InOrder(cs) == [i \in 1 .. Cardinality(cs) |-> CHOOSE c \in cs : Cardinality(UpTo(cs, c)) = i]

GoalRequest == [goal : Goals, permissions : Grants, approved : BOOLEAN, sandbox : BOOLEAN]

\* The plan of a goal: the selected capabilities in the order of their stage.  It
\* depends on nothing but the request.
PlanOf == [r \in GoalRequest |->
    LET selected == Route(r.goal)
        asked == IF r.permissions = {} THEN AutonomousPermissions(selected) ELSE r.permissions
        granted == NarrowGrants(selected, asked)
    IN [goal |-> r.goal, granted |-> granted, steps |-> InOrder(selected),
        executable |-> /\ selected # {}
                       /\ \A c \in selected : Authorized(c, granted, r.approved, r.sandbox),
        requiresApproval |-> ~r.approved /\ \E c \in selected : RequiresApproval(c)]]

BugAuthorizationDigest(plan, approved, inputs) == <<plan.granted, approved, plan.steps, "any">>

\* What a checkpoint may be reused under: the grants, the approval, the steps and
\* the arguments of every one of them.
AuthorizationDigest(plan, approved, inputs) == <<plan.granted, approved, plan.steps, inputs>>

-----------------------------------------------------------------------------
\* The audit

Event(e, event, step, state) ==
    [execution |-> e, event |-> event, step |-> step, state |-> state]
Appended(record) == audit' = IF chainValid THEN Append(audit, record) ELSE audit
EndStates == {"verified", "failed", "blocked", "requires_approval"}
RecordsOf(e) == {i \in DOMAIN audit : audit[i].execution = e}
BugUnfinished(e) ==
    \E i \in RecordsOf(e) : /\ \A j \in RecordsOf(e) : j <= i
                            /\ audit[i].state \notin EndStates \cup {"recovery_required"}

\* The last record of the execution leaves it in no end state.
Unfinished(e) ==
    \E i \in RecordsOf(e) : /\ \A j \in RecordsOf(e) : j <= i
                            /\ audit[i].state \notin EndStates
VerifiedSteps(e) ==
    {audit[i].step : i \in {k \in RecordsOf(e) : /\ audit[k].event = "capability_result"
                                                 /\ audit[k].state = "verified"}}

\* Progress is taken over from an identical plan under an identical authorization.
Resumable(e, plan, authorization) ==
    IF /\ checkpoint.execution = e /\ checkpoint.plan = plan
       /\ checkpoint.authorization = authorization
    THEN VerifiedSteps(e) \cap checkpoint.completed \cap DOMAIN plan.steps
    ELSE {}

-----------------------------------------------------------------------------
\* The run

Running == run.state \in {"stepping", "attempting", "tried", "recorded"}
NextStep(r) == CHOOSE i \in 1 .. Len(r.plan.steps) + 1 :
                 /\ i \notin r.done
                 /\ \A j \in 1 .. i - 1 : j \in r.done

EndsRun(r, event, state) ==
    /\ Appended(Event(r.execution, event, 0, state))
    /\ run' = [r EXCEPT !.state = state]

\* A call is refused on an invalid chain and, resuming, on an unfinished
\* execution; a plan that is not authorized ends it.
RunCall(e, request, inputs, resume) ==
    LET plan == PlanOf[request]
        authorization == AuthorizationDigest(plan, request.approved, inputs)
        called == [NoRun EXCEPT !.execution = e, !.resume = resume]
        started == [called EXCEPT !.plan = plan, !.authorization = authorization,
                      !.inputs = inputs, !.state = "stepping",
                      !.done = IF resume THEN Resumable(e, plan, authorization) ELSE {}]
    IN /\ ~Running
       /\ freshCalls' = freshCalls + (IF resume THEN 0 ELSE 1)
       /\ CASE ~chainValid -> EndsRun(called, "run_blocked", "blocked")
            [] chainValid /\ resume /\ Unfinished(e) ->
                 EndsRun(called, "run_blocked", "recovery_required")
            [] chainValid /\ ~(resume /\ Unfinished(e)) /\ ~plan.executable ->
                 EndsRun(called, "plan_blocked",
                      IF plan.requiresApproval THEN "requires_approval" ELSE "blocked")
            [] OTHER -> run' = [started EXCEPT !.at = NextStep(started)] /\ UNCHANGED audit
       /\ UNCHANGED <<chainValid, checkpoint, attempts, interruptions, digitalCrashes>>

StepToRun == run.plan.steps[run.at]
StepsLeft == run.at <= Len(run.plan.steps)

\* Authorization held for the plan and depends on nothing that has changed since;
\* the arguments are checked against the tool's schema here.
BeginStep ==
    /\ run.state = "stepping" /\ StepsLeft
    /\ IF StepToRun \in ValidFor[run.inputs]
       THEN /\ Appended(Event(run.execution, "capability_started", run.at, "running"))
            /\ run' = [run EXCEPT !.state = "attempting", !.attempt = 0]
       ELSE EndsRun(run, "step_blocked", "blocked")
    /\ UNCHANGED <<chainValid, checkpoint, attempts, interruptions, freshCalls, digitalCrashes>>

\* One attempt: executed over the sandbox boundary, observed, verified.  The
\* attempt verifies only if it succeeded with evidence and was observed.
Attempt(succeeds, evidence, observed) ==
    LET verified == succeeds /\ evidence /\ observed
    IN /\ run.state = "attempting"
       /\ attempts' = Append(attempts,
            [execution |-> run.execution, capability |-> StepToRun, step |-> run.at,
             plan |-> run.plan, approved |-> run.authorization[2], inputs |-> run.inputs,
             resume |-> run.resume, fresh |-> freshCalls, verified |-> verified])
       /\ run' = [run EXCEPT !.attempt = @ + 1,
                    !.done = IF verified THEN @ \cup {run.at} ELSE @,
                    !.state = IF verified \/ run.attempt + 1 >= Catalog[StepToRun].maxAttempts
                              THEN "tried" ELSE "attempting"]
       /\ UNCHANGED <<audit, chainValid, checkpoint, interruptions, freshCalls, digitalCrashes>>

RecordResult ==
    /\ run.state = "tried"
    /\ Appended(Event(run.execution, "capability_result", run.at,
                      IF run.at \in run.done THEN "verified" ELSE "failed"))
    /\ run' = [run EXCEPT !.state = "recorded"]
    /\ UNCHANGED <<chainValid, checkpoint, attempts, interruptions, freshCalls, digitalCrashes>>

Saved == checkpoint' = [execution |-> run.execution, plan |-> run.plan,
                        authorization |-> run.authorization, completed |-> run.done]

\* The progress is saved; a step that did not verify ends the run.
SaveProgress ==
    /\ run.state = "recorded"
    /\ Saved
    /\ IF run.at \in run.done
       THEN run' = [run EXCEPT !.at = NextStep(run), !.state = "stepping"] /\ UNCHANGED audit
       ELSE EndsRun(run, "run_failed", "failed")
    /\ UNCHANGED <<chainValid, attempts, interruptions, freshCalls, digitalCrashes>>

\* The last save repeats the one before it.
FinishRun ==
    /\ run.state = "stepping" /\ ~StepsLeft
    /\ Saved /\ EndsRun(run, "run_verified", "verified")
    /\ UNCHANGED <<chainValid, attempts, interruptions, freshCalls, digitalCrashes>>

CrashRun ==
    /\ Running /\ digitalCrashes < MaxDigitalCrashes
    /\ digitalCrashes' = digitalCrashes + 1
    /\ interruptions' = IF run.state \in {"attempting", "tried"}
                        THEN interruptions \cup {[execution |-> run.execution,
                                                  fresh |-> freshCalls, length |-> Len(attempts)]}
                        ELSE interruptions
    /\ run' = NoRun
    /\ UNCHANGED <<audit, chainValid, checkpoint, attempts, freshCalls>>

\* Another program damages the audit file.
DamageAudit == /\ ~Running /\ audit # <<>> /\ chainValid' = FALSE
               /\ UNCHANGED <<audit, checkpoint, run, attempts, interruptions, freshCalls,
                              digitalCrashes>>

DigitalNext ==
    \/ /\ Len(audit) < MaxAudit
       /\ \E e \in Executions, request \in GoalRequest, inputs \in DOMAIN ValidFor,
             resume \in BOOLEAN :
            /\ resume \/ freshCalls < MaxFreshCalls
            /\ RunCall(e, request, inputs, resume)
    \/ BeginStep \/ RecordResult \/ SaveProgress \/ FinishRun
    \/ \E succeeds, evidence, observed \in BOOLEAN : Attempt(succeeds, evidence, observed)
    \/ CrashRun \/ DamageAudit

DigitalSpec == DigitalInit /\ [][DigitalNext]_digitalVars

-----------------------------------------------------------------------------
SameWork(k, r, i) ==
    /\ attempts[k].execution = r.execution /\ attempts[k].plan = r.plan
    /\ attempts[k].inputs = r.inputs /\ attempts[k].step = i

\* A run reported verified has, for every step of its plan, a verified attempt of
\* the same execution under the same plan and the same arguments, its own or one
\* taken over from before a restart (runtime.py, _resumable_steps).
VerifiedRunIsEarned ==
    run.state = "verified" =>
        \A i \in DOMAIN run.plan.steps :
            \E k \in DOMAIN attempts : SameWork(k, run, i) /\ attempts[k].verified

\* A capability with a side effect is attempted only for a goal that holds one of
\* its own words, in a call a person approved: neither a domain's defaults nor a
\* resumed run bring it in (catalog.py route, rule 4).
WritesAreAskedFor ==
    \A k \in DOMAIN attempts :
        ~ReadOnly(attempts[k].capability) =>
            /\ attempts[k].approved
            /\ Catalog[attempts[k].capability].words \cap attempts[k].plan.goal # {}

\* After a crash cut a step off, no resumed run of that execution attempts
\* anything until somebody has called anew: replay is not automatic
\* (runtime.py, run and _unfinished).
InterruptionsNeedAFreshCall ==
    \A k \in DOMAIN attempts, cut \in interruptions :
        attempts[k].resume /\ attempts[k].execution = cut.execution =>
            \/ attempts[k].fresh # cut.fresh
            \/ k <= cut.length
===============================================================================
