-------------------------- MODULE CrossDomainWorkflow --------------------------
(***************************************************************************)
(* The cross-domain workflow connector: a declared pipeline of steps and   *)
(* handoffs is validated and pinned to a session; steps are executed once  *)
(* their dependencies are verified and a human has approved the ones that  *)
(* ask for it; artifacts move over declared handoffs, their trust only     *)
(* ever going down; and the session can be checkpointed and restored.  Two *)
(* backends exist: the in-memory one, and the one over workspace files,    *)
(* which other programs change as well.                                    *)
(***************************************************************************)
EXTENDS Integers, Sequences, FiniteSets, FiniteSetsExt

CONSTANTS
    Pipelines,      \* what callers submit: digest -> the declared pipeline
    Backends,       \* "mock", and the workspace adapters "read" and "write"
    WfBudget,       \* MAX_WORKFLOW_ACTION_BUDGET
    FileContents, InitialContent,       \* the workspace file
    MaxWfCalls, MaxWfLives              \* bounds of the model

\* Every step costs something, and there are finitely many.
ASSUME WfAssumption ==
    /\ WfBudget \in Nat /\ "none" \notin DOMAIN Pipelines
    /\ \A id \in DOMAIN Pipelines :
         LET p == Pipelines[id] IN
         /\ p.budget \in Nat /\ IsFiniteSet(DOMAIN p.steps)
         /\ \A s \in DOMAIN p.steps : p.steps[s].cost \in Nat \ {0}
         /\ \A h \in p.handoffs : h.trust \in Nat

VARIABLES
    wfKind,         \* the backend configured
    wfPipe,         \* connector: the validated pipeline, or none
    wf,             \* the session
    wfKeys,         \* the replay protector
    wfArtifacts,    \* connector: artifact key -> what is held under it
    wfDrafts,       \* drafted steps -> trust of the draft
    envelopes,      \* workspace backend: steps whose identity is used
    file,           \* the workspace file
    wfSaved,        \* the last checkpoint of session and backend
    wfRuns,         \* ghost: keys of the mutations this process had a backend take on
    wfInputs,       \* ghost: how each input of an executed step had come to it
    wfCalls, wfLives        \* ghost: operations called, processes started

backendVars == <<envelopes, file>>
wfVars == <<wfKind, wfPipe, wf, wfKeys, wfArtifacts, wfDrafts, envelopes, file, wfSaved,
            wfRuns, wfInputs, wfCalls, wfLives>>

-----------------------------------------------------------------------------
\* Trust.  A level is its rank; EXTERNAL is the lowest.

EXTERNAL == 0
TOOL_RESULT == 1
UntrustedSources == {"web", "browser", "email", "documents", "communication"}
SensitiveSinks == {"application", "calendar", "communication", "computer", "documents",
                   "email", "filesystem", "github", "shell"}
BlockedSinks == {"shell", "computer"}

DomainTrust(domain) == IF domain \in UntrustedSources THEN EXTERNAL ELSE TOOL_RESULT

-----------------------------------------------------------------------------
\* Validation of a declared pipeline

StepsOf(p) == DOMAIN p.steps

\* Steps that must complete before s may run.
Before(p, s) ==
    LET reach[n \in 0..Cardinality(StepsOf(p))] ==
            IF n = 0 THEN p.steps[s].deps
            ELSE reach[n - 1] \cup UNION {p.steps[t].deps :
                                            t \in reach[n - 1] \cap StepsOf(p)}
    IN  reach[Cardinality(StepsOf(p))]

NeedsApproval(step) == step.consequential \/ (step.mutating /\ step.domain \in SensitiveSinks)

StepValid(p, s) ==
    /\ p.steps[s].writes => p.steps[s].mutating
    /\ NeedsApproval(p.steps[s]) => p.steps[s].approval

KnownDependencies(p) == \A s \in StepsOf(p): p.steps[s].deps \subseteq StepsOf(p)
Ordered(p) == \A s \in StepsOf(p): s \notin Before(p, s)

HandoffValid(p, h) ==
    /\ h.from # h.to /\ {h.from, h.to} \subseteq StepsOf(p)
    /\ h.key \in p.steps[h.from].produces \cap p.steps[h.to].consumes
    /\ h.from \in Before(p, h.to)
    /\ DomainTrust(p.steps[h.from].domain) = EXTERNAL => h.trust = EXTERNAL
    /\ h.trust = EXTERNAL =>
         /\ p.steps[h.to].domain \notin BlockedSinks
         /\ h.kind = "file_path" => p.steps[h.to].approval
         /\ NeedsApproval(p.steps[h.to]) => p.steps[h.to].approval

\* Costs of the steps only: the handoffs are not counted.
DeclaredCost(p) == MapThenSumSet(LAMBDA s: p.steps[s].cost, StepsOf(p))

PipelineValid(p) ==
    /\ \A s \in StepsOf(p): StepValid(p, s)
    /\ KnownDependencies(p) /\ Ordered(p)
    /\ \A h \in p.handoffs: HandoffValid(p, h)
    /\ \A s \in StepsOf(p): \A key \in p.steps[s].consumes:
         \E h \in p.handoffs: h.to = s /\ h.key = key
    /\ DeclaredCost(p) <= p.budget

\* Trust propagated through the declared pipeline.
TrustOf(p, s) ==
    LET chain == {s} \cup Before(p, s)
    IN  Min({DomainTrust(p.steps[t].domain) : t \in chain}
            \cup {h.trust : h \in {g \in p.handoffs : g.to \in chain}})

-----------------------------------------------------------------------------
\* Session, artifacts and identities

FreshSession == [state |-> "open", pinned |-> "none", limit |-> WfBudget, used |-> 0,
                 completed |-> {}, verified |-> {}, handoffs |-> <<>>, mutations |-> {},
                 approved |-> {}]

WfInit ==
    /\ wfKind \in Backends
    /\ wfPipe = "none" /\ wf = FreshSession /\ wfKeys = {}
    /\ wfArtifacts = <<>> /\ wfDrafts = <<>>
    /\ envelopes = {} /\ file = InitialContent
    /\ wfSaved = [session |-> FreshSession, envelopes |-> {}]
    /\ wfRuns = <<>> /\ wfInputs = {} /\ wfCalls = 0 /\ wfLives = 0

Active == wf.state \in {"open", "resumed"}
Pipe == Pipelines[wfPipe]
Bound == wfPipe # "none" /\ wf.limit <= Pipe.budget
Step(s) == Pipe.steps[s]
Handed(key) == wfArtifacts[key]

\* The digest of a payload: what produced it, and whether it is quarantined.
Digest(s, inbound, wrapped) == [by |-> s, from |-> inbound, wrapped |-> wrapped]

Inbound(s) == {<<key, Handed(key).sha>> : key \in Step(s).consumes}
WfKey(kind, s, inbound) == [kind |-> kind, at |-> <<s>>, from |-> inbound]
StepKey(s) == WfKey("step", s, Inbound(s))
WfMutationKey(s) == WfKey("mutation", s, Inbound(s))
HandoffKey(h, sha) == [kind |-> "handoff", at |-> <<h.from, h.to, h.key>>, from |-> {<<h.key, sha>>}]

Put(f, key, value) == [k \in DOMAIN f \cup {key} |-> IF k = key THEN value ELSE f[k]]

\* One more operation of the connector.
Called == /\ wfCalls < MaxWfCalls /\ wfCalls' = wfCalls + 1
          /\ UNCHANGED <<wfKind, wfSaved, wfLives>>

-----------------------------------------------------------------------------
\* Operations on the workflow and its session

\* The definition is pinned on the first bind; its budget narrows the
\* session's.
Validate(id) ==
    /\ Called /\ Active /\ PipelineValid(Pipelines[id])
    /\ wf.pinned \in {"none", id}
    /\ wfPipe' = id
    /\ LET budget == Min({wf.limit, Pipelines[id].budget})
       IN  wf' = [wf EXCEPT !.pinned = id, !.limit = budget, !.used = Min({@, budget})]
    /\ UNCHANGED <<wfKeys, wfArtifacts, wfDrafts, backendVars, wfRuns, wfInputs>>

\* A human's approval reaches the session also when the execution it came with
\* is refused.
Approve(s) ==
    /\ Called /\ Bound /\ s \in StepsOf(Pipe) \ wf.approved
    /\ wf' = [wf EXCEPT !.approved = @ \cup {s}]
    /\ UNCHANGED <<wfPipe, wfKeys, wfArtifacts, wfDrafts, backendVars, wfRuns, wfInputs>>

SetState(state) ==
    /\ Called /\ wf.state # state
    /\ CASE state = "closed" -> TRUE
         [] state = "suspended" -> Active
         [] state = "resumed" -> wf.state = "suspended"
    /\ wf' = [wf EXCEPT !.state = state]
    /\ UNCHANGED <<wfPipe, wfKeys, wfArtifacts, wfDrafts, backendVars, wfRuns, wfInputs>>

-----------------------------------------------------------------------------
\* Execution of a step

BugDependenciesReady(s) == Step(s).deps = {} \/ Step(s).deps \cap wf.verified # {}

DependenciesReady(s) == Step(s).deps \subseteq wf.verified
InboundPresent(s) == Step(s).consumes \subseteq DOMAIN wfArtifacts

Ready(s) ==
    /\ Bound /\ Active /\ s \in StepsOf(Pipe) \ wf.verified
    /\ DependenciesReady(s) /\ InboundPresent(s)
    /\ Step(s).approval => s \in wf.approved
    /\ StepKey(s) \notin wfKeys
    /\ Step(s).mutating => WfMutationKey(s) \notin wfKeys
    /\ wf.used + Step(s).cost <= wf.limit

\* What the backend made of the step: refused by an exception, rejected,
\* accepted but not confirmed by reading back, or verified.
Outcomes == {"refused", "rejected", "unconfirmed", "verified"}

\* The in-memory backend does what it says; it refuses a mutation that nobody
\* approved, whatever the step declares.
MockOutcome(s, outcome) ==
    /\ outcome = IF Step(s).mutating /\ s \notin wf.approved THEN "refused" ELSE "verified"
    /\ UNCHANGED backendVars

\* Each workspace adapter offers one operation, and takes no inbound artifacts.
Described(s) == /\ Step(s).domain = "filesystem" /\ Step(s).consumes = {}
                /\ Step(s).writes = Step(s).mutating /\ Step(s).writes = (wfKind = "write")

\* The identity is the step, its inputs and its precondition, none of which vary.
IdentityUsed(s) == s \in envelopes

\* The file is read before it is written: it must hold what the step names.
PreconditionMet(s) == IF Step(s).mutating THEN file = Step(s).precondition ELSE file # "absent"
Result(s) == IF Step(s).mutating THEN Step(s).content ELSE file

\* Every result of the provider has one artifact.
ContractKept(s) == Step(s).produces = {"result"}

\* The file is read again.  Other programs may have changed it by then.
Confirms(s, found) == found = Result(s)
ReadBack(s, outcome) ==
    /\ file' \in FileContents
    /\ outcome = IF Confirms(s, file') THEN "verified" ELSE "unconfirmed"

\* An identity is used up once the provider has answered; declared outputs are
\* compared with the result only after the write.
WorkspaceOutcome(s, outcome) ==
    IF ~Described(s) \/ IdentityUsed(s) THEN outcome = "refused" /\ UNCHANGED backendVars
    ELSE IF PreconditionMet(s) /\ ~ContractKept(s)
    THEN outcome = "refused" /\ file' = Result(s) /\ UNCHANGED envelopes
    ELSE /\ envelopes' = envelopes \cup {s}
         /\ IF PreconditionMet(s) THEN ReadBack(s, outcome)
                                  ELSE outcome = "rejected" /\ UNCHANGED file

Backend(s, outcome) == IF wfKind = "mock" THEN MockOutcome(s, outcome)
                       ELSE WorkspaceOutcome(s, outcome)

\* Did the backend take the mutation on: answer it, or write before it failed?
TakenOn(s, outcome) == Step(s).mutating /\ (outcome # "refused" \/ file' # file)

BugMade(s) ==
    [trust |-> DomainTrust(Step(s).domain), sha |-> Digest(s, Inbound(s), FALSE),
     sources |-> {Step(s).domain} \cup UNION {Handed(k).sources : k \in Step(s).consumes}]

\* Artifacts made by a step: no more trusted than what it was made from.
Made(s) ==
    [trust |-> Min({DomainTrust(Step(s).domain)} \cup {Handed(k).trust : k \in Step(s).consumes}),
     sha |-> Digest(s, Inbound(s), FALSE),
     sources |-> {Step(s).domain} \cup UNION {Handed(k).sources : k \in Step(s).consumes}]

AfterExecution(s, outcome) ==
    [wf EXCEPT !.used = @ + Step(s).cost,
               !.mutations = IF Step(s).mutating /\ outcome # "refused"
                             THEN @ \cup {WfMutationKey(s)} ELSE @,
               !.completed = IF outcome = "verified"
                             THEN @ \cup {WfKey("digest", s, Inbound(s))} ELSE @,
               !.verified = IF outcome = "verified" THEN @ \cup {s} ELSE @]

ExecuteStep(s) ==
    /\ Called /\ Ready(s)
    /\ \E outcome \in Outcomes:
         /\ Backend(s, outcome)
         /\ wf' = AfterExecution(s, outcome)
         /\ wfKeys' = wfKeys \cup (wf'.mutations \ wf.mutations)
                             \cup (IF outcome = "verified" THEN {StepKey(s)} ELSE {})
         /\ wfArtifacts' = IF outcome = "verified"
                           THEN [k \in DOMAIN wfArtifacts \cup Step(s).produces |->
                                   IF k \in Step(s).produces THEN Made(s) ELSE Handed(k)]
                           ELSE wfArtifacts
         /\ wfRuns' = IF TakenOn(s, outcome) THEN Append(wfRuns, WfMutationKey(s)) ELSE wfRuns
    /\ wfInputs' = wfInputs \cup {[step |-> s, key |-> k,
                                   delivered |-> \E h \in DOMAIN wf.handoffs: h.to = s /\ h.key = k] :
                                     k \in Step(s).consumes}
    /\ UNCHANGED <<wfPipe, wfDrafts>>

-----------------------------------------------------------------------------
\* Handoffs and drafts

\* What arrives at the consumer: trust can only go down, and untrusted content
\* is quarantined (once).
Arriving(h) ==
    LET held == Handed(h.key)
        trust == Min({held.trust, h.trust})
    IN  [held EXCEPT !.trust = trust,
                     !.sha = IF trust = EXTERNAL THEN [@ EXCEPT !.wrapped = TRUE] ELSE @]

\* Only a declared handoff can be named.
Declared(h) == h \in Pipe.handoffs

Handoff(h) ==
    /\ Called /\ Bound /\ Active /\ wfKind = "mock"
    /\ Declared(h) /\ h \notin DOMAIN wf.handoffs
    /\ h.from \in wf.verified /\ h.key \in DOMAIN wfArtifacts
    /\ Arriving(h).trust = EXTERNAL => Step(h.to).domain \notin BlockedSinks
    /\ HandoffKey(h, Arriving(h).sha) \notin wfKeys
    /\ wf.used < wf.limit
    /\ wf' = [wf EXCEPT !.used = @ + 1, !.handoffs = Put(@, h, HandoffKey(h, Arriving(h).sha))]
    /\ wfKeys' = wfKeys \cup {HandoffKey(h, Arriving(h).sha)}
    /\ wfArtifacts' = Put(wfArtifacts, h.key, Arriving(h))
    /\ UNCHANGED <<wfPipe, wfDrafts, backendVars, wfRuns, wfInputs>>

DraftTrust(s) ==
    Min({TrustOf(Pipe, s)} \cup {Handed(k).trust : k \in Step(s).consumes \cap DOMAIN wfArtifacts})

\* A step has one draft; a later one takes its place.
Drafted(s) == Put(wfDrafts, s, DraftTrust(s))

\* The action is paid for before the workspace backend refuses to draft.
CreateDraft(s) ==
    /\ Called /\ Bound /\ Active /\ s \in StepsOf(Pipe)
    /\ Step(s).approval => s \in wf.approved
    /\ wf.used < wf.limit
    /\ wf' = [wf EXCEPT !.used = @ + 1]
    /\ wfDrafts' = IF wfKind # "mock" THEN wfDrafts
                   ELSE Drafted(s)
    /\ UNCHANGED <<wfPipe, wfKeys, wfArtifacts, backendVars, wfRuns, wfInputs>>

-----------------------------------------------------------------------------
\* Checkpoint, restart and the world outside

Checkpoint ==
    /\ wfSaved' = [session |-> wf, envelopes |-> envelopes]
    /\ wfSaved' # wfSaved
    /\ UNCHANGED <<wfKind, wfPipe, wf, wfKeys, wfArtifacts, wfDrafts, envelopes, file,
                   wfRuns, wfInputs, wfCalls, wfLives>>

\* A new process has the session's digests and none of its payloads.  What the
\* checkpoint records has been paid for, whatever it claims.
Restored(session) ==
    [session EXCEPT
        !.used = Min({Max({@, Cardinality(session.completed)
                                 + Cardinality(DOMAIN session.handoffs)}), session.limit}),
        !.state = IF @ = "suspended" THEN "resumed" ELSE @]

\* The identities a checkpoint holds: a handoff's is kept with its digest, a
\* completed step's is its input digest.
RestoredKeys(session) ==
    session.completed \cup session.mutations
    \cup {session.handoffs[h] : h \in DOMAIN session.handoffs}

Restart ==
    /\ wfLives < MaxWfLives /\ wfLives' = wfLives + 1
    /\ wf' = Restored(wfSaved.session)
    /\ wfKeys' = RestoredKeys(wfSaved.session)
    /\ envelopes' = wfSaved.envelopes
    /\ wfPipe' = "none" /\ wfArtifacts' = <<>> /\ wfDrafts' = <<>>
    /\ wfRuns' = <<>> /\ wfInputs' = {}
    /\ UNCHANGED <<wfKind, file, wfSaved, wfCalls>>

\* Another program saves the workspace file.
FileChanges ==
    /\ Called /\ wfKind # "mock" /\ file' \in FileContents \ {file}
    /\ UNCHANGED <<wfPipe, wf, wfKeys, wfArtifacts, wfDrafts, envelopes, wfRuns, wfInputs>>

StepIds == UNION {StepsOf(Pipelines[id]) : id \in DOMAIN Pipelines}
Edges == UNION {Pipelines[id].handoffs : id \in DOMAIN Pipelines}

WfNext ==
    \/ \E id \in DOMAIN Pipelines: Validate(id)
    \/ \E s \in StepIds: Approve(s) \/ ExecuteStep(s) \/ CreateDraft(s)
    \/ \E h \in Edges: Handoff(h)
    \/ \E state \in {"closed", "suspended", "resumed"}: SetState(state)
    \/ Checkpoint \/ Restart \/ FileChanges

WfSpec == WfInit /\ [][WfNext]_wfVars

-----------------------------------------------------------------------------
\* Content that stems from a domain others write to stays marked as such on
\* every path through the steps: whatever was made from it, however many steps
\* later, is held as untrusted, and is quarantined once handed over.
TaintFlowsDown ==
    \A key \in DOMAIN wfArtifacts:
        Handed(key).sources \cap UntrustedSources # {} =>
            /\ Handed(key).trust = EXTERNAL
            /\ (\E h \in DOMAIN wf.handoffs: h.key = key /\ h.from = Handed(key).sha.by)
                 => Handed(key).sha.wrapped

\* A step is verified only when everything it transitively depends on is, and
\* only with its mutation on record: also in a session that was rebuilt from a
\* checkpoint.
VerifiedRestsOnVerified ==
    \A s \in wf.verified:
        /\ Before(Pipelines[wf.pinned], s) \subseteq wf.verified
        /\ Pipelines[wf.pinned].steps[s].mutating => \E m \in wf.mutations: m.at = <<s>>

\* "consumes artifact ..., which has not been handed over": a step runs on the
\* artifacts its declared handoffs delivered to it.
ConsumedIsHandedOver == \A input \in wfInputs: input.delivered
=============================================================================
