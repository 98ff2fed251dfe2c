--------------------------- MODULE CodingRunProofs ---------------------------
(***************************************************************************)
(* Proofs about coding runs, for any number of coding and approval         *)
(* commands: a run is executed at most once, the worker's branch has every *)
(* authority behind it, and a run that says executed has its draft.        *)
(***************************************************************************)
EXTENDS MCRacingCallers, FiniteSetTheorems, TLAPS

\* The worker's calls, those after the token is used up, and the ledger's
\* states from the claim on.
HubPc == {"prepare", "claim", "branch", "commit", "push", "open"}
UsedPc == {"branch", "commit", "push", "open"}
After == {"claimed", "executed", "blocked"}
Blockable == {"policy_checked", "approved", "claimed"}
ItemStatus == {"pending", "blocked", "approved", "rejected"}

-----------------------------------------------------------------------------
\* The invariant.

QueueT == /\ items \in Seq(ItemStatus)
          /\ lastAudit \in {None, "approved", "rejected"} /\ record \in Nat
TokenT == /\ expired \subseteq 1..record /\ claimed \subseteq 1..record
          /\ \A p \in Cli : tok[p] \in 0..record
RunT == /\ run \in [Run -> RunState \cup {None}]
        /\ marker \in [Run -> BOOLEAN] /\ began \in [Run -> Nat]
StageT == stage \in LifecycleState \cup {None}
HubT == /\ base \in {"expected", "moved"}
        /\ branch \in {None, "base", "committed", "foreign"} /\ pulls \in 0..1
CoderT == cpc \in [Run -> CoderPc]

\* Which locals a command has where.
CliT ==
  /\ pc \in [Cli -> CliPc]
  /\ work \in [Cli -> Run \cup {None}] /\ goal \in [Cli -> Goal \cup {None}]
  /\ tok \in [Cli -> Nat] /\ saw \in [Cli -> LifecycleState \cup {None}]
  /\ \A p \in Cli : pc[p] \notin {"idle", "issue", "find"} => work[p] \in Run
  /\ \A p \in Cli : pc[p] \in {"issue", "find", "load", "mark", "write"} =>
                      goal[p] \in Goal
  /\ \A p \in Cli : pc[p] = "mark" => goal[p] = "executing"
  /\ \A p \in Cli : pc[p] = "ledger" =>
                      goal[p] \in {"approved", "executing", "executed"}
  /\ \A p \in Cli : pc[p] \in HubPc => goal[p] = "executing"
  /\ \A p \in Cli : pc[p] = "block" => saw[p] \in Blockable
  /\ \A p \in Cli : pc[p] \in HubPc \ {"prepare"} => tok[p] # 0

Typed == QueueT /\ TokenT /\ RunT /\ StageT /\ HubT /\ CoderT /\ CliT

\* A command about to write that its run is executing has the run's marker to
\* itself, and the run has not been executing before.
Begins(p) == pc[p] = "write" /\ goal[p] = "executing"

MarkersExclude ==
  /\ \A r \in Run : began[r] = 0 \/ (began[r] = 1 /\ marker[r])
  /\ \A p \in Cli : Begins(p) => marker[work[p]] /\ began[work[p]] = 0
  /\ \A p, q \in Cli : Begins(p) /\ Begins(q) /\ work[p] = work[q] => p = q

\* There is an approved item; a token was given for one.
Approved == \E i \in DOMAIN items : items[i] = "approved"

Authorities ==
  /\ record # 0 => Approved
  /\ \A p \in Cli : pc[p] = "issue" /\ goal[p] = "approved" => Approved
  /\ \A p \in Cli : pc[p] = "issue" => goal[p] = "approved"
  /\ \A p \in Cli : goal[p] = "executing" /\ pc[p] \in HubPc \cup {"ledger"} =>
                      marker[work[p]] /\ began[work[p]] = 1
  /\ \A p \in Cli : pc[p] \in HubPc => stage \in After
  /\ \A p \in Cli : pc[p] \in UsedPc => claimed # {}
  /\ branch \in {"base", "committed"} =>
       /\ \E r \in Run : marker[r] /\ began[r] = 1
       /\ claimed # {} /\ stage \in After

Inv == Typed /\ MarkersExclude /\ Authorities

-----------------------------------------------------------------------------
\* Facts about the values.

LEMMA NoneIsNone == None = "none"
  BY DEF None

LEMMA States ==
  RunState = {"ready", "approved", "executing", "executed", "failed",
              "rejected", "invalidated"}
  BY DEF RunState, Allowed

LEMMA GoalStates == \A g \in Goal : Target(g) \in RunState
  BY States DEF Goal, Target

LEMMA StagesAre ==
  LifecycleState = {"proposed", "validated", "tested", "secured",
                    "policy_checked", "approved", "claimed", "executed",
                    "verified", "completed", "blocked"}
  BY DEF LifecycleState, NextStage

\* A recorded transition leads to a state of the lifecycle, and one from the
\* claim on stays there unless the action was executed.
LEMMA RecordedStage ==
  ASSUME NEW from, NEW to, Recorded(from, to)
  PROVE  /\ stage' = to /\ to \in LifecycleState
         /\ stage \in After /\ from # "executed" => stage' \in After
  <1>1. CanTransition(from, to) /\ stage' = to
    BY DEF Recorded, CanRecord
  <1>2. from \in DOMAIN NextStage /\ to \in {NextStage[from], "blocked"}
    BY <1>1 DEF CanTransition, Transitions
  <1>3. to \in LifecycleState
    BY <1>2, StagesAre DEF NextStage
  <1>4. stage = from \/ (stage = "none" /\ from = "proposed")
    BY DEF Recorded, CanRecord, None
  <1>5. ASSUME stage \in After, from # "executed" PROVE stage' \in After
    <2>1. from = stage /\ from = "claimed"
      BY <1>2, <1>4, <1>5 DEF After, NextStage
    <2> QED BY <2>1, <1>1, <1>2 DEF After, NextStage
  <1> QED BY <1>1, <1>3, <1>5

\* The states a ledger step of a command leaves from.
LEMMA LeftForStage ==
  \A g \in {"approved", "executing", "executed"} :
    /\ LeftFor[g] \in {"policy_checked", "approved", "claimed"}
    /\ g = "executing" => NextStage[LeftFor[g]] = "claimed"
  BY DEF LeftFor, NextStage

-----------------------------------------------------------------------------
\* What a step does to the locals of a command.

\* The other commands are where they were.
Others(p) ==
  \A q \in Cli \ {p} :
    /\ pc'[q] = pc[q] /\ work'[q] = work[q] /\ goal'[q] = goal[q]
    /\ tok'[q] = tok[q] /\ saw'[q] = saw[q]

LEMMA ReturnsLocals ==
  ASSUME CliT, NEW p \in Cli, Returns(p)
  PROVE  CliT' /\ Others(p) /\ pc'[p] = "idle" /\ tok'[p] = 0
  BY NoneIsNone DEF Returns, CliT, Others, CliPc, HubPc, Goal

LEMMA PursuesLocals ==
  ASSUME CliT, NEW p \in Cli, NEW g \in Goal, work[p] \in Run, Pursues(p, g)
  PROVE  CliT' /\ Others(p) /\ pc'[p] = "load" /\ tok'[p] = tok[p]
  BY DEF Pursues, CliT, Others, CliPc, HubPc

LEMMA MovesLocals ==
  ASSUME CliT, NEW p \in Cli, NEW here, NEW there \in CliPc,
         Moves(p, here, there), Stays,
         there \notin {"idle", "issue", "find"} => work[p] \in Run,
         there \in {"issue", "find", "load", "mark", "write"} => goal[p] \in Goal,
         there = "mark" => goal[p] = "executing",
         there = "ledger" => goal[p] \in {"approved", "executing", "executed"},
         there \in HubPc => goal[p] = "executing",
         there # "block",
         there \in HubPc \ {"prepare"} => tok[p] # 0
  PROVE  /\ CliT' /\ Others(p) /\ pc[p] = here /\ pc'[p] = there
         /\ goal'[p] = goal[p] /\ work'[p] = work[p] /\ tok'[p] = tok[p]
  BY DEF Moves, Stays, CliT, Others

-----------------------------------------------------------------------------
\* Steps that keep what the invariant says of the other commands.

\* No other command begins a run, and p does not either.
LEMMA QuietMarkers ==
  ASSUME MarkersExclude, NEW p \in Cli, Others(p),
         pc'[p] # "write" \/ goal'[p] # "executing",
         UNCHANGED <<marker, began>>
  PROVE  MarkersExclude'
  BY DEF MarkersExclude, Others, Begins

\* Authority is not lost, and p has what its new place asks for.
LEMMA AuthorityKept ==
  ASSUME Authorities, NEW p \in Cli, Others(p),
         record' # 0 => Approved', Approved => Approved',
         \A r \in Run : marker[r] /\ began[r] = 1 => marker'[r] /\ began'[r] = 1,
         \A q \in Cli : pc[q] \in HubPc \cup {"ledger"} => work[q] \in Run,
         stage \in After => stage' \in After,
         claimed # {} => claimed' # {},
         branch' \in {"base", "committed"} =>
           branch \in {"base", "committed"} \/ pc[p] \in UsedPc,
         branch' \in {"base", "committed"} /\ pc[p] \in UsedPc =>
           \E r \in Run : marker[r] /\ began[r] = 1,
         pc'[p] = "issue" => goal'[p] = "approved" /\ Approved',
         goal'[p] = "executing" /\ pc'[p] \in HubPc \cup {"ledger"} =>
           marker'[work'[p]] /\ began'[work'[p]] = 1,
         pc'[p] \in HubPc => stage' \in After,
         pc'[p] \in UsedPc => claimed' # {}
  PROVE  Authorities'
  <1>1. UsedPc \subseteq HubPc
    BY DEF UsedPc, HubPc
  <1>2. \A q \in Cli : pc'[q] = "issue" => goal'[q] = "approved" /\ Approved'
    BY DEF Authorities, Others
  <1>3. \A q \in Cli : goal'[q] = "executing" /\ pc'[q] \in HubPc \cup {"ledger"} =>
           marker'[work'[q]] /\ began'[work'[q]] = 1
    BY DEF Authorities, Others
  <1>4. \A q \in Cli : pc'[q] \in HubPc => stage' \in After
    BY DEF Authorities, Others
  <1>5. \A q \in Cli : pc'[q] \in UsedPc => claimed' # {}
    BY DEF Authorities, Others
  <1>6. branch' \in {"base", "committed"} =>
          /\ \E r \in Run : marker'[r] /\ began'[r] = 1
          /\ claimed' # {} /\ stage' \in After
    <2>1. CASE branch \in {"base", "committed"}
      BY <2>1 DEF Authorities
    <2>2. CASE pc[p] \in UsedPc
      BY <2>2, <1>1 DEF Authorities
    <2> QED BY <2>1, <2>2
  <1> QED BY <1>2, <1>3, <1>4, <1>5, <1>6 DEF Authorities

\* A step of a command that changes nothing but its locals.
LEMMA LocalStep ==
  ASSUME Inv, NEW p \in Cli, CliT', Others(p),
         UNCHANGED <<decisions, tokens, runs, stage, github, cpc>>,
         pc'[p] # "write" \/ goal'[p] # "executing",
         pc'[p] \notin {"issue", "ledger"},
         pc'[p] \in HubPc => pc[p] \in HubPc /\ work'[p] = work[p]
                             /\ goal[p] = "executing",
         pc'[p] \in UsedPc => pc[p] \in UsedPc,
         tok'[p] \in {0, tok[p], record}
  PROVE  Inv'
  <1> USE DEF decisions, tokens, runs, github
  <1>1. record \in Nat
    BY DEF Inv, Typed, QueueT
  <1>a. TokenT'
    BY <1>1 DEF Inv, Typed, TokenT, Others
  <1>t. Typed'
    BY <1>a DEF Inv, Typed, QueueT, RunT, StageT, HubT, CoderT
  <1>2. MarkersExclude'
    BY QuietMarkers DEF Inv
  <1>3. (Approved <=> Approved')
    BY DEF Approved
  <1>4. \A q \in Cli : pc[q] \in HubPc \cup {"ledger"} => work[q] \in Run
    BY DEF Inv, Typed, CliT, HubPc
  <1>5. pc[p] \in UsedPc => \E r \in Run : marker[r] /\ began[r] = 1
    BY <1>4 DEF Inv, Authorities, Typed, CliT, UsedPc, HubPc
  <1>6. Authorities'
    BY <1>3, <1>4, <1>5, AuthorityKept DEF Inv, Authorities
  <1> QED BY <1>t, <1>2, <1>6 DEF Inv

-----------------------------------------------------------------------------
\* The steps that change only locals.

\* p returns, or pursues a goal: it is idle or loading.
LEMMA SettledStep ==
  ASSUME Inv, NEW p \in Cli, Others(p), CliT', pc'[p] \in {"idle", "load"},
         tok'[p] \in {0, tok[p]},
         UNCHANGED <<decisions, tokens, runs, stage, github, cpc>>
  PROVE  Inv'
  BY LocalStep DEF HubPc, UsedPc

LEMMA ReturnsStep ==
  ASSUME Inv, NEW p \in Cli, Returns(p),
         UNCHANGED <<decisions, tokens, runs, stage, github, cpc>>
  PROVE  Inv'
  BY ReturnsLocals, SettledStep DEF Inv, Typed

LEMMA PursuesStep ==
  ASSUME Inv, NEW p \in Cli, NEW g \in Goal, work[p] \in Run, Pursues(p, g),
         UNCHANGED <<decisions, tokens, runs, stage, github, cpc>>
  PROVE  Inv'
  BY PursuesLocals, SettledStep DEF Inv, Typed

LEMMA GoalsAre ==
  Goal = {"ready", "approved", "executing", "executed", "failed", "rejected",
          "invalidated", "unclaimed"}
  BY States DEF Goal

LEMMA FailsStep ==
  ASSUME Inv, NEW p \in Cli, work[p] \in Run, Fails(p),
         UNCHANGED <<decisions, tokens, runs, stage, github, cpc>>
  PROVE  Inv'
  BY PursuesStep, GoalsAre DEF Fails

LEMMA ErrsStep ==
  ASSUME Inv, NEW p \in Cli, pc[p] \in {"load", "write"}, Errs(p),
         UNCHANGED <<decisions, tokens, runs, stage, github, cpc>>
  PROVE  Inv'
  <1>1. CASE goal[p] = "failed"
    <2>1. Moves(p, pc[p], "look") /\ Stays
      BY <1>1 DEF Errs
    <2>2. "look" \in CliPc /\ work[p] \in Run
      BY DEF CliPc, Inv, Typed, CliT
    <2>3. CliT' /\ Others(p) /\ pc'[p] = "look" /\ tok'[p] = tok[p]
      BY <2>1, <2>2, MovesLocals DEF Inv, Typed, HubPc
    <2> QED BY <2>3, LocalStep DEF HubPc, UsedPc
  <1>2. CASE goal[p] # "failed"
    BY <1>2, ReturnsStep DEF Errs
  <1> QED BY <1>1, <1>2

LEMMA FindInv ==
  ASSUME Inv, NEW p \in Cli, Find(p)
  PROVE  Inv'
  <1>1. pc[p] = "find" /\ goal[p] \in Goal
    BY DEF Find, Inv, Typed, CliT
  <1>2. UNCHANGED <<decisions, tokens, runs, stage, github, cpc>>
    BY DEF Find
  <1>3. CASE Returns(p)
    BY <1>2, <1>3, ReturnsStep
  <1>4. ASSUME NEW r \in Run, work' = [work EXCEPT ![p] = r],
               pc' = [pc EXCEPT ![p] = IF goal[p] = "approved" THEN "gate" ELSE "load"],
               UNCHANGED <<goal, tok, saw>>
        PROVE Inv'
    <2>1. CliT' /\ Others(p) /\ pc'[p] \in {"gate", "load"} /\ tok'[p] = tok[p]
      BY <1>1, <1>4 DEF Inv, Typed, CliT, Others, CliPc, HubPc
    <2> QED BY <2>1, <1>2, LocalStep DEF HubPc, UsedPc
  <1> QED BY <1>3, <1>4 DEF Find

LEMMA GateInv ==
  ASSUME Inv, NEW p \in Cli, Gate(p)
  PROVE  Inv'
  <1>1. work[p] \in Run
    BY DEF Gate, Inv, Typed, CliT
  <1> QED BY <1>1, PursuesStep, ReturnsStep, GoalsAre DEF Gate

LEMMA ExecuteInv ==
  ASSUME Inv, NEW p \in Cli, NEW r \in Run, Execute(p, r)
  PROVE  Inv'
  <1>1. CliT' /\ Others(p) /\ pc'[p] = "check" /\ tok'[p] = tok[p]
    BY DEF Execute, Moves, Inv, Typed, CliT, Others, CliPc, HubPc
  <1> QED BY <1>1, LocalStep DEF Execute, HubPc, UsedPc

LEMMA CheckInv ==
  ASSUME Inv, NEW p \in Cli, Check(p)
  PROVE  Inv'
  <1>1. work[p] \in Run
    BY DEF Check, Inv, Typed, CliT
  <1>2. UNCHANGED <<decisions, tokens, runs, stage, github, cpc>>
    BY DEF Check
  <1>3. CASE Pursues(p, "invalidated")
    BY <1>1, <1>2, <1>3, PursuesStep, GoalsAre
  <1>4. ASSUME tok' = [tok EXCEPT ![p] = record],
               pc' = [pc EXCEPT ![p] = "trust"], UNCHANGED <<work, goal, saw>>
        PROVE Inv'
    <2>1. record \in Nat
      BY DEF Inv, Typed, QueueT
    <2>2. CliT' /\ Others(p) /\ pc'[p] = "trust" /\ tok'[p] = record
      BY <1>1, <1>4, <2>1 DEF Inv, Typed, CliT, Others, CliPc, HubPc
    <2> QED BY <2>2, <1>2, LocalStep DEF HubPc, UsedPc
  <1> QED BY <1>3, <1>4 DEF Check

LEMMA TrustInv ==
  ASSUME Inv, NEW p \in Cli, Trust(p)
  PROVE  Inv'
  <1>1. work[p] \in Run
    BY DEF Trust, Inv, Typed, CliT
  <1> QED BY <1>1, PursuesStep, GoalsAre DEF Trust

LEMMA LoadInv ==
  ASSUME Inv, NEW p \in Cli, Load(p)
  PROVE  Inv'
  <1>1. pc[p] = "load" /\ work[p] \in Run /\ goal[p] \in Goal
    BY DEF Load, Inv, Typed, CliT
  <1>2. UNCHANGED <<decisions, tokens, runs, stage, github, cpc>>
    BY DEF Load
  <1>3. CASE Errs(p)
    BY <1>1, <1>2, <1>3, ErrsStep
  <1>4. ASSUME pc' = [pc EXCEPT ![p] = IF goal[p] = "executing" THEN "mark" ELSE "write"],
               Stays
        PROVE Inv'
    <2>1. /\ CliT' /\ Others(p) /\ tok'[p] = tok[p] /\ goal'[p] = goal[p]
          /\ pc'[p] = IF goal[p] = "executing" THEN "mark" ELSE "write"
      BY <1>1, <1>4 DEF Inv, Typed, CliT, Others, CliPc, HubPc, Stays
    <2> QED BY <2>1, <1>2, LocalStep DEF HubPc, UsedPc
  <1> QED BY <1>3, <1>4 DEF Load

LEMMA LookInv ==
  ASSUME Inv, NEW p \in Cli, Look(p)
  PROVE  Inv'
  <1>1. pc[p] = "look" /\ work[p] \in Run
    BY DEF Look, Inv, Typed, CliT
  <1>2. UNCHANGED <<decisions, tokens, runs, stage, github, cpc>>
    BY DEF Look
  <1>3. CASE Returns(p)
    BY <1>2, <1>3, ReturnsStep
  <1>4. ASSUME stage \in Blockable, saw' = [saw EXCEPT ![p] = stage],
               Moves(p, "look", "block"), UNCHANGED <<work, goal, tok>>
        PROVE Inv'
    <2>1. stage \in LifecycleState
      BY <1>4, StagesAre DEF Blockable
    <2>2. CliT' /\ Others(p) /\ tok'[p] = tok[p] /\ pc'[p] = "block"
      BY <1>1, <1>4, <2>1 DEF Inv, Typed, CliT, Others, CliPc, HubPc, Moves
    <2> QED BY <2>2, <1>2, LocalStep DEF HubPc, UsedPc
  <1> QED BY <1>3, <1>4 DEF Look, Blockable

\* What a command at one of the worker's calls has.
LEMMA AtHub ==
  ASSUME Inv, NEW p \in Cli, pc[p] \in HubPc
  PROVE  /\ work[p] \in Run /\ goal[p] = "executing" /\ goal[p] \in Goal
         /\ stage \in After
         /\ marker[work[p]] /\ began[work[p]] = 1
         /\ pc[p] # "prepare" => tok[p] # 0
         /\ pc[p] \in UsedPc => claimed # {}
  BY GoalsAre DEF Inv, Typed, CliT, Authorities, HubPc

LEMMA PrepareInv ==
  ASSUME Inv, NEW p \in Cli, Prepare(p)
  PROVE  Inv'
  <1>1. pc[p] = "prepare" /\ pc[p] \in HubPc
    BY DEF Prepare, HubPc
  <1>2. UNCHANGED <<decisions, tokens, runs, stage, github, cpc>>
    BY DEF Prepare
  <1>3. CASE Fails(p)
    BY <1>1, <1>2, <1>3, AtHub, FailsStep
  <1>4. ASSUME Live(tok[p]), Moves(p, "prepare", "claim"), Stays
        PROVE Inv'
    <2>1. CliT' /\ Others(p) /\ tok'[p] = tok[p] /\ pc'[p] = "claim"
             /\ work'[p] = work[p]
      BY <1>1, <1>4, AtHub, MovesLocals DEF Inv, Typed, CliPc, HubPc, Live
    <2> QED BY <1>1, <1>2, <2>1, AtHub, LocalStep DEF HubPc, UsedPc
  <1> QED BY <1>3, <1>4 DEF Prepare

LEMMA CheckParentInv ==
  ASSUME Inv, NEW p \in Cli, CheckParent(p)
  PROVE  Inv'
  <1>1. pc[p] = "commit" /\ pc[p] \in HubPc /\ pc[p] \in UsedPc
    BY DEF CheckParent, HubPc, UsedPc
  <1>2. UNCHANGED <<decisions, tokens, runs, stage, github, cpc>>
    BY DEF CheckParent
  <1>3. CASE Fails(p)
    BY <1>1, <1>2, <1>3, AtHub, FailsStep
  <1>4. ASSUME Moves(p, "commit", "push"), Stays
        PROVE Inv'
    <2>1. CliT' /\ Others(p) /\ tok'[p] = tok[p] /\ pc'[p] = "push"
             /\ work'[p] = work[p]
      BY <1>1, <1>4, AtHub, MovesLocals DEF Inv, Typed, CliPc, HubPc
    <2> QED BY <1>1, <1>2, <2>1, AtHub, LocalStep DEF HubPc, UsedPc
  <1> QED BY <1>3, <1>4 DEF CheckParent

LEMMA CliDiesInv ==
  ASSUME Inv, NEW p \in Cli, CliDies(p)
  PROVE  Inv'
  BY ReturnsStep DEF CliDies

-----------------------------------------------------------------------------
\* The steps that change the store, the ledger, the tokens or GitHub.

\* A step of p that leaves decisions, runs and coding commands alone, and ends
\* in a place where p does not begin a run.
LEMMA SharedStep ==
  ASSUME Inv, NEW p \in Cli, CliT', Others(p),
         decisions' = decisions, runs' = runs, expired' = expired, cpc' = cpc,
         pc'[p] \notin {"write", "issue", "ledger"}, tok'[p] \in {0, tok[p]},
         claimed' = claimed \/ (claimed' = claimed \cup {tok[p]} /\ tok[p] # 0),
         StageT', HubT', stage \in After => stage' \in After,
         branch' \in {"base", "committed"} =>
           branch \in {"base", "committed"} \/ pc[p] \in UsedPc,
         pc'[p] \in HubPc =>
           /\ work'[p] = work[p] /\ stage' \in After
           /\ marker[work[p]] /\ began[work[p]] = 1,
         pc'[p] \in UsedPc => claimed' # {}
  PROVE  Inv'
  <1> USE DEF decisions, runs
  <1>1. record \in Nat /\ record' = record /\ tok[p] \in 0..record
    BY DEF Inv, Typed, QueueT, TokenT
  <1>a. claimed' \subseteq 1..record
    <2>1. claimed \subseteq 1..record
      BY DEF Inv, Typed, TokenT
    <2>2. tok[p] # 0 => tok[p] \in 1..record
      BY <1>1
    <2> QED BY <2>1, <2>2
  <1>b. \A q \in Cli : tok'[q] \in 0..record
    BY <1>1 DEF Inv, Typed, TokenT, Others
  <1>2. TokenT'
    BY <1>1, <1>a, <1>b DEF Inv, Typed, TokenT
  <1>3. Typed'
    BY <1>2 DEF Inv, Typed, QueueT, RunT, CoderT
  <1>4. MarkersExclude'
    BY QuietMarkers DEF Inv
  <1>5. Approved <=> Approved'
    BY DEF Approved
  <1>6. \A q \in Cli : pc[q] \in HubPc \cup {"ledger"} => work[q] \in Run
    BY DEF Inv, Typed, CliT, HubPc
  <1>7. pc[p] \in UsedPc => \E r \in Run : marker[r] /\ began[r] = 1
    BY AtHub DEF HubPc, UsedPc
  <1>8. Authorities'
    BY <1>1, <1>5, <1>6, <1>7, AuthorityKept DEF Inv, Authorities
  <1> QED BY <1>3, <1>4, <1>8 DEF Inv

LEMMA ClaimInv ==
  ASSUME Inv, NEW p \in Cli, Claim(p)
  PROVE  Inv'
  <1>1. pc[p] = "claim" /\ pc[p] \in HubPc
    BY DEF Claim, HubPc
  <1>2. UNCHANGED <<decisions, expired, runs, stage, github, cpc>>
    BY DEF Claim
  <1>3. CASE Fails(p) /\ UNCHANGED claimed
    BY <1>1, <1>2, <1>3, AtHub, FailsStep DEF tokens
  <1>4. ASSUME claimed' = claimed \cup {tok[p]}, Moves(p, "claim", "branch"), Stays
        PROVE Inv'
    <2>1. CliT' /\ Others(p) /\ tok'[p] = tok[p] /\ pc'[p] = "branch"
             /\ work'[p] = work[p]
      BY <1>1, <1>4, AtHub, MovesLocals DEF Inv, Typed, CliPc, HubPc
    <2>2. StageT' /\ HubT'
      BY <1>2 DEF Inv, Typed, StageT, HubT, github
    <2>3. stage' = stage /\ branch' = branch
      BY <1>2 DEF github
    <2>4. claimed' # {} /\ tok[p] # 0
      BY <1>1, <1>4, AtHub
    <2> QED BY <1>1, <1>2, <1>4, <2>1, <2>2, <2>3, <2>4, AtHub, SharedStep DEF HubPc, UsedPc
  <1> QED BY <1>3, <1>4 DEF Claim

\* A request's outcomes: p at its next place, or failed.
LEMMA HubMove ==
  ASSUME Inv, NEW p \in Cli, pc[p] \in UsedPc, NEW there \in UsedPc,
         Moves(p, pc[p], there), Stays,
         UNCHANGED <<decisions, tokens, runs, stage, cpc>>, HubT'
  PROVE  Inv'
  <1>1. pc[p] \in HubPc /\ there \in HubPc /\ there \in CliPc
    BY DEF HubPc, UsedPc, CliPc
  <1>2. CliT' /\ Others(p) /\ tok'[p] = tok[p] /\ pc'[p] = there
           /\ work'[p] = work[p]
    BY <1>1, AtHub, MovesLocals DEF Inv, Typed, UsedPc
  <1>3. StageT' /\ stage' = stage /\ claimed' = claimed
    BY DEF Inv, Typed, StageT, tokens
  <1>4. there \notin {"write", "issue", "ledger"}
    BY DEF UsedPc
  <1>5. claimed' # {} /\ expired' = expired
    BY <1>1, <1>3, AtHub DEF tokens
  <1>6. decisions' = decisions /\ runs' = runs /\ cpc' = cpc
    OBVIOUS
  <1>7. /\ stage' \in After /\ marker[work[p]] /\ began[work[p]] = 1
        /\ stage \in After
    BY <1>1, <1>3, AtHub
  <1> QED BY <1>2, <1>3, <1>4, <1>5, <1>6, <1>7, SharedStep

LEMMA HubPursues ==
  ASSUME Inv, NEW p \in Cli, pc[p] \in UsedPc, NEW g \in Goal, Pursues(p, g),
         UNCHANGED <<decisions, tokens, runs, stage, cpc>>, HubT'
  PROVE  Inv'
  <1>1. pc[p] \in HubPc
    BY DEF HubPc, UsedPc
  <1>2. CliT' /\ Others(p) /\ tok'[p] = tok[p] /\ pc'[p] = "load"
    BY <1>1, AtHub, PursuesLocals DEF Inv, Typed
  <1>3. StageT' /\ stage' = stage /\ claimed' = claimed /\ expired' = expired
    BY DEF Inv, Typed, StageT, tokens
  <1>4. "load" \notin HubPc /\ "load" \notin UsedPc
    BY DEF HubPc, UsedPc
  <1>5. decisions' = decisions /\ runs' = runs /\ cpc' = cpc
    OBVIOUS
  <1> QED BY <1>2, <1>3, <1>4, <1>5, SharedStep

LEMMA CreateBranchInv ==
  ASSUME Inv, NEW p \in Cli, CreateBranch(p)
  PROVE  Inv'
  <1>1. pc[p] = "branch" /\ pc[p] \in UsedPc /\ "commit" \in UsedPc
    BY DEF CreateBranch, UsedPc
  <1>2. UNCHANGED <<decisions, tokens, runs, stage, base, pulls, cpc>>
    BY DEF CreateBranch
  <1>3. branch' = "base" \/ branch' = branch
    BY DEF CreateBranch, Request
  <1>4. HubT'
    BY <1>2, <1>3 DEF Inv, Typed, HubT
  <1>5. (Moves(p, "branch", "commit") /\ Stays) \/ Fails(p)
    BY DEF CreateBranch, Request
  <1> QED BY <1>1, <1>2, <1>4, <1>5, HubMove, HubPursues, GoalsAre DEF Fails

LEMMA PushInv ==
  ASSUME Inv, NEW p \in Cli, Push(p)
  PROVE  Inv'
  <1>1. pc[p] = "push" /\ pc[p] \in UsedPc /\ "open" \in UsedPc
    BY DEF Push, UsedPc
  <1>2. UNCHANGED <<decisions, tokens, runs, stage, base, pulls, cpc>>
    BY DEF Push
  <1>3. branch' = "committed" \/ branch' = branch
    BY DEF Push, Request
  <1>4. HubT'
    BY <1>2, <1>3 DEF Inv, Typed, HubT
  <1>5. (Moves(p, "push", "open") /\ Stays) \/ Fails(p)
    BY DEF Push, Request
  <1> QED BY <1>1, <1>2, <1>4, <1>5, HubMove, HubPursues, GoalsAre DEF Fails

LEMMA OpenDraftInv ==
  ASSUME Inv, NEW p \in Cli, OpenDraft(p)
  PROVE  Inv'
  <1>1. pc[p] = "open" /\ pc[p] \in UsedPc
    BY DEF OpenDraft, UsedPc
  <1>2. UNCHANGED <<decisions, tokens, runs, stage, base, branch, cpc>>
    BY DEF OpenDraft
  <1>3. pulls' = 1 \/ pulls' = pulls
    BY DEF OpenDraft, Request
  <1>4. HubT'
    BY <1>2, <1>3 DEF Inv, Typed, HubT
  <1>5. Pursues(p, "executed") \/ Fails(p)
    BY DEF OpenDraft, Request
  <1> QED BY <1>1, <1>2, <1>4, <1>5, HubPursues, GoalsAre DEF Fails

\* A ledger step of a command, recorded or not.
LEMMA StageStep ==
  ASSUME Inv, NEW from \in {"policy_checked", "approved", "claimed"}, NEW to,
         Recorded(from, to) \/ Unrecorded(from, to)
  PROVE  StageT' /\ (stage \in After => stage' \in After)
  <1>1. CASE Recorded(from, to)
    BY <1>1, RecordedStage DEF StageT
  <1>2. CASE Unrecorded(from, to)
    BY <1>2 DEF Unrecorded, Inv, Typed, StageT
  <1> QED BY <1>1, <1>2

LEMMA RecordStageInv ==
  ASSUME Inv, NEW p \in Cli, RecordStage(p)
  PROVE  Inv'
  <1> DEFINE from == LeftFor[goal[p]]
  <1>1. /\ pc[p] = "ledger" /\ work[p] \in Run
        /\ goal[p] \in {"approved", "executing", "executed"}
    BY DEF RecordStage, Inv, Typed, CliT
  <1>2. /\ from \in {"policy_checked", "approved", "claimed"}
        /\ goal[p] = "executing" => NextStage[from] = "claimed"
    BY <1>1, LeftForStage
  <1>3. UNCHANGED <<decisions, tokens, runs, github, cpc>>
    BY DEF RecordStage
  <1>4. Recorded(from, NextStage[from]) \/ Unrecorded(from, NextStage[from])
    BY DEF RecordStage
  <1> HIDE DEF from
  <1>5. StageT' /\ (stage \in After => stage' \in After)
    BY <1>2, <1>4, StageStep
  <1>6. /\ HubT' /\ claimed' = claimed /\ expired' = expired /\ branch' = branch
        /\ decisions' = decisions /\ runs' = runs /\ cpc' = cpc
    BY <1>3 DEF Inv, Typed, HubT, github, tokens
  <1>7. ASSUME CliT', Others(p), pc'[p] \in {"idle", "load"}, tok'[p] \in {0, tok[p]}
        PROVE Inv'
    <2>1. pc'[p] \notin HubPc \cup UsedPc \cup {"write", "issue", "ledger"}
      BY <1>7 DEF HubPc, UsedPc
    <2> QED BY <1>5, <1>6, <1>7, <2>1, SharedStep
  <1>8. CASE Returns(p)
    BY <1>7, <1>8, ReturnsLocals DEF Inv, Typed
  <1>9. CASE Pursues(p, "unclaimed")
    BY <1>1, <1>7, <1>9, PursuesLocals, GoalsAre DEF Inv, Typed
  <1>10. ASSUME goal[p] = "executing", Recorded(from, NextStage[from]),
                Moves(p, "ledger", "prepare"), Stays
         PROVE Inv'
    <2>1. CliT' /\ Others(p) /\ tok'[p] = tok[p] /\ pc'[p] = "prepare"
             /\ work'[p] = work[p]
      BY <1>1, <1>10, MovesLocals DEF Inv, Typed, CliPc, HubPc
    <2>2. stage' = "claimed" /\ stage' \in After
      BY <1>2, <1>10 DEF Recorded, After
    <2>3. marker[work[p]] /\ began[work[p]] = 1
      BY <1>1, <1>10 DEF Inv, Authorities
    <2>4. "prepare" \notin UsedPc /\ "prepare" \notin {"write", "issue", "ledger"}
      BY DEF UsedPc
    <2> QED BY <1>5, <1>6, <2>1, <2>2, <2>3, <2>4, SharedStep
  <1> QED BY <1>8, <1>9, <1>10 DEF RecordStage, from

LEMMA BlockInv ==
  ASSUME Inv, NEW p \in Cli, Block(p)
  PROVE  Inv'
  <1>1. pc[p] = "block" /\ saw[p] \in {"policy_checked", "approved", "claimed"}
    BY DEF Block, Inv, Typed, CliT, Blockable
  <1>2. UNCHANGED <<decisions, tokens, runs, github, cpc>> /\ Returns(p)
    BY DEF Block
  <1>3. StageT' /\ (stage \in After => stage' \in After)
    BY <1>1, StageStep DEF Block
  <1>4. CliT' /\ Others(p) /\ pc'[p] = "idle" /\ tok'[p] = 0
    BY <1>2, ReturnsLocals DEF Inv, Typed
  <1>5. /\ HubT' /\ claimed' = claimed /\ expired' = expired /\ branch' = branch
        /\ decisions' = decisions /\ runs' = runs /\ cpc' = cpc
    BY <1>2 DEF Inv, Typed, HubT, github, tokens
  <1>6. "idle" \notin HubPc \cup UsedPc \cup {"write", "issue", "ledger"}
    BY DEF HubPc, UsedPc
  <1> QED BY <1>3, <1>4, <1>5, <1>6, SharedStep

LEMMA MarkInv ==
  ASSUME Inv, NEW p \in Cli, Mark(p)
  PROVE  Inv'
  <1>1. /\ pc[p] = "mark" /\ work[p] \in Run
        /\ goal[p] = "executing" /\ goal[p] \in Goal
    BY DEF Mark, Inv, Typed, CliT
  <1>2. UNCHANGED <<decisions, tokens, run, began, stage, github, cpc>>
    BY DEF Mark
  <1>3. CASE Returns(p) /\ UNCHANGED marker
    BY <1>2, <1>3, ReturnsStep DEF runs
  <1>4. ASSUME ~marker[work[p]], marker' = [marker EXCEPT ![work[p]] = TRUE],
               Moves(p, "mark", "write"), Stays
        PROVE Inv'
    <2>1. /\ CliT' /\ Others(p) /\ tok'[p] = tok[p] /\ pc'[p] = "write"
          /\ work'[p] = work[p] /\ goal'[p] = goal[p]
      BY <1>1, <1>4, MovesLocals DEF Inv, Typed, CliPc, HubPc
    <2>2. /\ marker' \in [Run -> BOOLEAN] /\ marker'[work[p]]
          /\ \A r \in Run : marker[r] => marker'[r]
      BY <1>1, <1>4 DEF Inv, Typed, RunT
    <2>3. began' = began /\ record' = record /\ items' = items
      BY <1>2 DEF decisions
    <2>4. TokenT'
      BY <1>2, <2>1, <2>3 DEF Inv, Typed, TokenT, Others, tokens, QueueT
    <2>5. Typed'
      BY <1>2, <2>1, <2>2, <2>4
      DEF Inv, Typed, QueueT, RunT, StageT, HubT, CoderT, decisions, github
    <2>6. began[work[p]] = 0
      BY <1>1, <1>4 DEF Inv, MarkersExclude
    <2>7. \A q \in Cli \ {p} : Begins(q) => work[q] # work[p]
      BY <1>4 DEF Inv, MarkersExclude
    <2>8. \A q \in Cli \ {p} : /\ pc'[q] = pc[q] /\ goal'[q] = goal[q]
                               /\ work'[q] = work[q]
      BY <2>1 DEF Others
    <2>9. /\ \A r \in Run : began'[r] = 0 \/ (began'[r] = 1 /\ marker'[r])
          /\ \A q \in Cli : pc'[q] = "write" /\ goal'[q] = "executing" =>
               marker'[work'[q]] /\ began'[work'[q]] = 0
      <3>1. \A q \in Cli : Begins(q) => work[q] \in Run
        BY DEF Begins, Inv, Typed, CliT
      <3> QED BY <2>1, <2>2, <2>3, <2>6, <2>8, <3>1 DEF Inv, MarkersExclude, Begins
    <2>10. \A q, s \in Cli :
             /\ pc'[q] = "write" /\ goal'[q] = "executing"
             /\ pc'[s] = "write" /\ goal'[s] = "executing" /\ work'[q] = work'[s]
             => q = s
      BY <2>1, <2>7, <2>8 DEF Inv, MarkersExclude, Begins
    <2>11. MarkersExclude'
      BY <2>9, <2>10 DEF MarkersExclude, Begins
    <2>12. Approved <=> Approved'
      BY <2>3 DEF Approved
    <2>13. "write" \notin HubPc \cup {"issue", "ledger"} /\ "write" \notin UsedPc
           /\ pc[p] \notin UsedPc
      BY <1>1 DEF HubPc, UsedPc
    <2>14. \A q \in Cli : pc[q] \in HubPc \cup {"ledger"} => work[q] \in Run
      BY DEF Inv, Typed, CliT, HubPc
    <2>15. stage' = stage /\ claimed' = claimed /\ branch' = branch
      BY <1>2 DEF tokens, github
    <2>16. Authorities'
      BY <2>1, <2>2, <2>3, <2>12, <2>13, <2>14, <2>15, AuthorityKept
      DEF Inv, Authorities
    <2> QED BY <2>5, <2>11, <2>16 DEF Inv
  <1> QED BY <1>3, <1>4 DEF Mark

LEMMA WriteInv ==
  ASSUME Inv, NEW p \in Cli, Write(p)
  PROVE  Inv'
  <1>1. pc[p] = "write" /\ work[p] \in Run /\ goal[p] \in Goal
    BY DEF Write, Inv, Typed, CliT
  <1>2. UNCHANGED <<decisions, tokens, marker, stage, github, cpc>>
    BY DEF Write
  <1>3. CASE Errs(p) /\ UNCHANGED <<run, began>>
    BY <1>1, <1>2, <1>3, ErrsStep DEF runs
  <1>4. ASSUME run' = [run EXCEPT ![work[p]] = Target(goal[p])],
               began' = IF goal[p] = "executing"
                        THEN [began EXCEPT ![work[p]] = @ + 1] ELSE began,
               IF goal[p] = "unclaimed" THEN Returns(p)
               ELSE Moves(p, "write", Onward(p)) /\ Stays
        PROVE Inv'
    <2>1. Target(goal[p]) \in RunState
      BY <1>1, GoalStates
    <2>2. /\ CliT' /\ Others(p) /\ tok'[p] \in {0, tok[p]}
          /\ pc'[p] \in {"idle", "look", "ledger"}
          /\ pc'[p] = "ledger" => goal'[p] = goal[p] /\ work'[p] = work[p]
      <3>1. CASE goal[p] = "unclaimed"
        BY <1>4, <3>1, ReturnsLocals DEF Inv, Typed
      <3>2. CASE goal[p] # "unclaimed"
        <4>1. /\ Onward(p) \in {"ledger", "look"}
              /\ Onward(p) = "ledger" =>
                   goal[p] \in {"approved", "executing", "executed"}
          BY DEF Onward
        <4>2. Moves(p, "write", Onward(p)) /\ Stays
          BY <1>4, <3>2
        <4>3. Onward(p) \in CliPc /\ Onward(p) \notin HubPc
          BY <4>1 DEF CliPc, HubPc
        <4> HIDE DEF Onward
        <4>4. /\ CliT' /\ Others(p) /\ pc'[p] = Onward(p)
              /\ goal'[p] = goal[p] /\ work'[p] = work[p] /\ tok'[p] = tok[p]
          BY <1>1, <4>1, <4>2, <4>3, MovesLocals DEF Inv, Typed
        <4> QED BY <4>1, <4>4
      <3> QED BY <3>1, <3>2
    <2>3. record' = record /\ items' = items /\ tok[p] \in 0..record
      BY <1>2 DEF decisions, Inv, Typed, TokenT
    <2>4. TokenT'
      BY <1>2, <2>2, <2>3 DEF Inv, Typed, TokenT, Others, tokens, QueueT
    <2>5. run' \in [Run -> RunState \cup {None}] /\ began' \in [Run -> Nat]
      BY <1>1, <1>4, <2>1 DEF Inv, Typed, RunT
    <2>6. Typed'
      BY <1>2, <2>2, <2>4, <2>5
      DEF Inv, Typed, QueueT, RunT, StageT, HubT, CoderT, decisions, github
    <2>7. /\ \A r \in Run \ {work[p]} : began'[r] = began[r]
          /\ goal[p] # "executing" => began'[work[p]] = began[work[p]]
          /\ goal[p] = "executing" => /\ marker[work[p]]
                                      /\ began'[work[p]] = 1
                                      /\ began[work[p]] = 0
      BY <1>1, <1>4 DEF Inv, MarkersExclude, Begins, Typed, RunT
    <2>8. \A q \in Cli \ {p} : /\ pc'[q] = pc[q] /\ goal'[q] = goal[q]
                               /\ work'[q] = work[q]
      BY <2>2 DEF Others
    <2>9. \A q \in Cli \ {p} : Begins(q) => /\ work[q] \in Run
                                           /\ began'[work[q]] = began[work[q]]
      <3>1. \A q \in Cli : Begins(q) => work[q] \in Run
        BY DEF Begins, Inv, Typed, CliT
      <3>2. goal[p] = "executing" =>
              \A q \in Cli \ {p} : Begins(q) => work[q] # work[p]
        BY <1>1 DEF Inv, MarkersExclude, Begins
      <3> QED BY <2>7, <3>1, <3>2
    <2>10. MarkersExclude'
      <3>1. \A r \in Run : began'[r] = 0 \/ (began'[r] = 1 /\ marker'[r])
        BY <1>1, <1>2, <2>7 DEF Inv, MarkersExclude
      <3>2. \A q \in Cli : pc'[q] = "write" /\ goal'[q] = "executing" =>
              q # p /\ Begins(q) /\ work'[q] = work[q]
        BY <2>2, <2>8 DEF Begins
      <3>3. \A q \in Cli : pc'[q] = "write" /\ goal'[q] = "executing" =>
              marker'[work'[q]] /\ began'[work'[q]] = 0
        BY <1>2, <2>9, <3>2 DEF Inv, MarkersExclude
      <3>4. \A q, s \in Cli :
             /\ pc'[q] = "write" /\ goal'[q] = "executing"
             /\ pc'[s] = "write" /\ goal'[s] = "executing" /\ work'[q] = work'[s]
             => q = s
        BY <3>2 DEF Inv, MarkersExclude
      <3> QED BY <3>1, <3>3, <3>4 DEF MarkersExclude, Begins
    <2>11. Approved <=> Approved'
      BY <2>3 DEF Approved
    <2>12. /\ pc'[p] \notin HubPc \cup {"issue"} /\ pc'[p] \notin UsedPc
           /\ pc[p] \notin UsedPc
      BY <1>1, <2>2 DEF HubPc, UsedPc
    <2>13. \A q \in Cli : pc[q] \in HubPc \cup {"ledger"} => work[q] \in Run
      BY DEF Inv, Typed, CliT, HubPc
    <2>14. stage' = stage /\ claimed' = claimed /\ branch' = branch
           /\ marker' = marker
      BY <1>2 DEF tokens, github
    <2>15. \A r \in Run : marker[r] /\ began[r] = 1 => marker'[r] /\ began'[r] = 1
      BY <2>7, <2>14
    <2>16. goal'[p] = "executing" /\ pc'[p] \in HubPc \cup {"ledger"} =>
             marker'[work'[p]] /\ began'[work'[p]] = 1
      BY <2>2, <2>7, <2>12, <2>14
    <2>17. Authorities'
      BY <2>2, <2>3, <2>11, <2>12, <2>13, <2>14, <2>15, <2>16, AuthorityKept
      DEF Inv, Authorities
    <2> QED BY <2>6, <2>10, <2>17 DEF Inv
  <1> QED BY <1>3, <1>4 DEF Write

-----------------------------------------------------------------------------
\* Decisions.

\* Replacing the first item, which is not approved, loses no approval.
LEMMA FirstItem ==
  ASSUME QueueT, items # <<>>, Head(items) # "approved",
         NEW d \in {"approved", "rejected"}, items' = [items EXCEPT ![1] = d]
  PROVE  /\ items' \in Seq(ItemStatus)
         /\ Approved => Approved'
         /\ d = "approved" => Approved'
  <1>1. items \in Seq(ItemStatus) /\ 1 \in DOMAIN items /\ Head(items) = items[1]
    BY DEF QueueT
  <1>2. d \in ItemStatus
    BY DEF ItemStatus
  <1>3. items' \in Seq(ItemStatus)
    BY <1>1, <1>2
  <1>4. DOMAIN items' = DOMAIN items /\ items'[1] = d
        /\ \A i \in DOMAIN items \ {1} : items'[i] = items[i]
    BY <1>1
  <1>5. Approved => Approved'
    BY <1>1, <1>4 DEF Approved
  <1>6. d = "approved" => Approved'
    BY <1>1, <1>4 DEF Approved
  <1> QED BY <1>3, <1>5, <1>6

LEMMA DecideInv ==
  ASSUME Inv, NEW p \in Cli, NEW d \in {"approved", "rejected"}, Decide(p, d)
  PROVE  Inv'
  <1>1. pc[p] = "idle" /\ items # <<>> /\ Head(items) # "approved"
    BY DEF Decide
  <1>2. /\ goal' = [goal EXCEPT ![p] = d]
        /\ pc' = [pc EXCEPT ![p] = IF d = "approved" THEN "issue" ELSE "find"]
        /\ UNCHANGED <<record, tokens, runs, stage, github, cpc, work, tok, saw>>
        /\ lastAudit' = d
    BY DEF Decide
  <1>3. items' \in Seq(ItemStatus) /\ (Approved => Approved')
        /\ (d = "approved" => Approved')
    BY <1>1, FirstItem DEF Decide, Inv, Typed
  <1>4. /\ CliT' /\ Others(p) /\ tok' = tok /\ goal'[p] = d
        /\ pc'[p] = IF d = "approved" THEN "issue" ELSE "find"
    BY <1>2, GoalsAre DEF Inv, Typed, CliT, Others, CliPc, HubPc
  <1>5. Typed'
    BY <1>2, <1>3, <1>4
    DEF Inv, Typed, QueueT, TokenT, RunT, StageT, HubT, CoderT, tokens, runs, github
  <1>6. MarkersExclude'
    BY <1>2, <1>4, QuietMarkers DEF Inv, runs
  <1>7. record' = record /\ marker' = marker /\ began' = began /\ stage' = stage
        /\ claimed' = claimed /\ branch' = branch
    BY <1>2 DEF tokens, runs, github
  <1>8. \A q \in Cli : pc[q] \in HubPc \cup {"ledger"} => work[q] \in Run
    BY DEF Inv, Typed, CliT, HubPc
  <1>9. pc'[p] \notin HubPc \cup {"ledger"} /\ pc'[p] \notin UsedPc
        /\ pc[p] \notin UsedPc
    BY <1>1, <1>4 DEF HubPc, UsedPc
  <1>10. Authorities'
    BY <1>3, <1>4, <1>7, <1>8, <1>9, AuthorityKept DEF Inv, Authorities
  <1> QED BY <1>5, <1>6, <1>10 DEF Inv

LEMMA IssueInv ==
  ASSUME Inv, NEW p \in Cli, Issue(p)
  PROVE  Inv'
  <1>1. pc[p] = "issue" /\ goal[p] \in Goal
    BY DEF Issue, Moves, Inv, Typed, CliT
  <1>2. record' = record + 1 /\ items' = items
        /\ UNCHANGED <<items, lastAudit, tokens, runs, stage, github, cpc>>
    BY DEF Issue
  <1>3. CliT' /\ Others(p) /\ tok'[p] = tok[p] /\ pc'[p] = "find"
    BY <1>1, MovesLocals DEF Issue, Inv, Typed, CliPc, HubPc
  <1>4. record \in Nat /\ \A q \in Cli : tok[q] \in 0..record
    BY DEF Inv, Typed, QueueT, TokenT
  <1>5. TokenT'
    <2>1. \A q \in Cli : tok'[q] = tok[q]
      BY <1>3 DEF Others
    <2>2. expired' \subseteq 1..record /\ claimed' \subseteq 1..record
      BY <1>2 DEF Inv, Typed, TokenT, tokens
    <2>3. 0..record \subseteq 0..(record + 1) /\ 1..record \subseteq 1..(record + 1)
      BY <1>4
    <2> QED BY <1>2, <1>4, <2>1, <2>2, <2>3 DEF TokenT
  <1>6. Typed'
    BY <1>2, <1>3, <1>4, <1>5
    DEF Inv, Typed, QueueT, RunT, StageT, HubT, CoderT, runs, github
  <1>7. MarkersExclude'
    BY <1>2, <1>3, QuietMarkers DEF Inv, runs
  <1>8. Approved /\ Approved'
    BY <1>1, <1>2 DEF Inv, Authorities, Approved
  <1>9. marker' = marker /\ began' = began /\ stage' = stage
        /\ claimed' = claimed /\ branch' = branch
    BY <1>2 DEF tokens, runs, github
  <1>10. \A q \in Cli : pc[q] \in HubPc \cup {"ledger"} => work[q] \in Run
    BY DEF Inv, Typed, CliT, HubPc
  <1>11. "find" \notin HubPc \cup {"ledger"} /\ "find" \notin UsedPc
         /\ "issue" \notin UsedPc
    BY DEF HubPc, UsedPc
  <1>12. Authorities'
    BY <1>1, <1>3, <1>8, <1>9, <1>10, <1>11, AuthorityKept DEF Inv
  <1> QED BY <1>6, <1>7, <1>12 DEF Inv

-----------------------------------------------------------------------------
\* The steps of everybody else.

\* A step that is not a command's: it gives nothing and takes nothing away.
LEMMA OutsideStep ==
  ASSUME Inv, Typed', UNCHANGED <<marker, began, claimed, pc, work, goal, record>>,
         Approved => Approved', stage \in After => stage' \in After,
         branch' \in {"base", "committed"} => branch \in {"base", "committed"}
  PROVE  Inv'
  <1>1. MarkersExclude'
    BY DEF Inv, MarkersExclude, Begins
  <1>2. Authorities'
    BY DEF Inv, Authorities
  <1> QED BY <1>1, <1>2 DEF Inv

\* Putting a pending item first, or turning pending ones into blocked ones,
\* loses no approval.
LEMMA EnqueueQueue ==
  ASSUME QueueT, NEW r \in Run, Enqueue(r)
  PROVE  QueueT' /\ (Approved => Approved')
  <1>1. items \in Seq(ItemStatus) /\ record' = record /\ lastAudit' = lastAudit
    BY DEF QueueT, Enqueue
  <1>2. PICK stale \in BOOLEAN :
          LET kept == [i \in DOMAIN items |->
                        IF stale /\ items[i] = "pending" THEN "blocked" ELSE items[i]]
          IN  items' = IF \E i \in DOMAIN kept : kept[i] = "pending" THEN kept
                       ELSE <<"pending">> \o kept
    BY DEF Enqueue
  <1> DEFINE kept == [i \in DOMAIN items |->
                       IF stale /\ items[i] = "pending" THEN "blocked" ELSE items[i]]
  <1>3. DOMAIN items = 1..Len(items) /\ Len(items) \in Nat
        /\ \A i \in DOMAIN items : items[i] \in ItemStatus
    BY <1>1
  <1>4. kept \in [1..Len(items) -> ItemStatus]
    BY <1>3 DEF ItemStatus
  <1>5. kept \in Seq(ItemStatus) /\ Len(kept) = Len(items)
    BY <1>3, <1>4
  <1>6. Approved => \E i \in 1..Len(items) : kept[i] = "approved"
    BY <1>3 DEF Approved
  <1>7. items' = kept \/ items' = <<"pending">> \o kept
    BY <1>2
  <1> HIDE DEF kept
  <1>8. <<"pending">> \in Seq(ItemStatus) /\ Len(<<"pending">>) = 1
    BY DEF ItemStatus
  <1>9. CASE items' = kept
    BY <1>1, <1>5, <1>6, <1>9 DEF QueueT, Approved
  <1>10. CASE items' = <<"pending">> \o kept
    <2>1. items' \in Seq(ItemStatus) /\ Len(items') = Len(items) + 1
      BY <1>3, <1>5, <1>8, <1>10
    <2>2. \A i \in 1..Len(items) : items'[i + 1] = kept[i]
      BY <1>3, <1>5, <1>8, <1>10
    <2>3. Approved => Approved'
      <3>1. SUFFICES ASSUME Approved PROVE Approved'
        OBVIOUS
      <3>2. PICK i \in 1..Len(items) : kept[i] = "approved"
        BY <1>6, <3>1
      <3>3. i + 1 \in DOMAIN items' /\ items'[i + 1] = "approved"
        BY <1>3, <2>1, <2>2, <3>2
      <3> QED BY <3>3 DEF Approved
    <2> QED BY <1>1, <2>1, <2>3 DEF QueueT
  <1> QED BY <1>7, <1>9, <1>10

LEMMA CoderInv ==
  ASSUME Inv, NEW r \in Run, CoderStep(r) \/ CoderDies(r)
  PROVE  Inv'
  <1> USE DEF locals, decisions, tokens, runs, github
  <1>1. CASE Enqueue(r)
    <2>1. QueueT' /\ (Approved => Approved')
      BY <1>1, EnqueueQueue DEF Inv, Typed
    <2>2. Typed'
      BY <1>1, <2>1
      DEF Enqueue, CoderMoves, Inv, Typed, TokenT, RunT, StageT, HubT, CoderT,
          CliT, CoderPc
    <2> QED BY <1>1, <2>1, <2>2, OutsideStep DEF Enqueue
  <1>2. CASE Create(r)
    <2>1. Typed'
      BY <1>2, States
      DEF Create, CoderMoves, Inv, Typed, QueueT, TokenT, RunT, StageT, HubT,
          CoderT, CliT, CoderPc
    <2> QED BY <1>2, <2>1, OutsideStep DEF Create, Approved
  <1>3. CASE Register(r) \/ CoderDies(r)
    <2>1. Typed'
      BY <1>3
      DEF Register, CoderDies, CoderMoves, Inv, Typed, QueueT, TokenT, RunT,
          StageT, HubT, CoderT, CliT, CoderPc
    <2> QED BY <1>3, <2>1, OutsideStep DEF Register, CoderDies, Approved
  <1>4. CASE RecordGate(r)
    <2> DEFINE from == cpc[r]
    <2>1. from \in {"proposed", "validated", "tested", "secured"}
      BY <1>4 DEF RecordGate
    <2>2. Recorded(from, NextStage[from]) \/ Unrecorded(from, NextStage[from])
      BY <1>4 DEF RecordGate
    <2>3. StageT' /\ (stage \in After => stage' \in After)
      <3>1. CASE Recorded(from, NextStage[from])
        BY <2>1, <3>1, RecordedStage DEF StageT
      <3>2. CASE Unrecorded(from, NextStage[from])
        BY <3>2 DEF Unrecorded, Inv, Typed, StageT
      <3> QED BY <2>2, <3>1, <3>2
    <2>4. CoderT'
      BY <1>4, <2>1 DEF RecordGate, Inv, Typed, CoderT, CoderPc, NextStage
    <2>5. Typed'
      BY <1>4, <2>3, <2>4
      DEF RecordGate, Inv, Typed, QueueT, TokenT, RunT, HubT, CliT
    <2> QED BY <1>4, <2>3, <2>5, OutsideStep DEF RecordGate, Approved
  <1> QED BY <1>1, <1>2, <1>3, <1>4 DEF CoderStep

LEMMA WorldInv ==
  ASSUME Inv,
         (\E t \in 1..record : Expire(t)) \/ BaseMoves \/ SomeonePushes \/ Reconcile
  PROVE  Inv'
  <1> USE DEF locals, decisions, tokens, runs, github
  <1>1. Typed'
    BY StagesAre
    DEF Expire, BaseMoves, SomeonePushes, Reconcile, Inv, Typed, QueueT, TokenT,
        RunT, StageT, HubT, CoderT, CliT
  <1>2. stage' = stage \/ stage' = "blocked"
    BY DEF Expire, BaseMoves, SomeonePushes, Reconcile
  <1>3. stage \in After => stage' \in After
    BY <1>2 DEF After
  <1> QED BY <1>1, <1>3, OutsideStep
          DEF Expire, BaseMoves, SomeonePushes, Reconcile, Approved

-----------------------------------------------------------------------------
\* The theorems.

LEMMA InitInv == Init => Inv
  BY StagesAre DEF Init, Inv, Typed, QueueT, TokenT, RunT, StageT, HubT, CoderT,
     CliT, CoderPc, CliPc, HubPc, UsedPc, MarkersExclude, Begins, Authorities,
     ItemStatus, None

LEMMA StutterInv ==
  ASSUME Inv, UNCHANGED vars
  PROVE  Inv'
  BY DEF vars, locals, decisions, tokens, runs, github, Inv, Typed, QueueT,
     TokenT, RunT, StageT, HubT, CoderT, CliT, MarkersExclude, Begins,
     Authorities, Approved

LEMMA CliInv ==
  ASSUME Inv, NEW p \in Cli, CliStep(p)
  PROVE  Inv'
  BY IssueInv, FindInv, GateInv, CheckInv, TrustInv, LoadInv, MarkInv, WriteInv,
     RecordStageInv, LookInv, BlockInv, PrepareInv, ClaimInv, CreateBranchInv,
     CheckParentInv, PushInv, OpenDraftInv
  DEF CliStep

LEMMA NextInv == Inv /\ [Next]_vars => Inv'
  BY CoderInv, CliInv, CliDiesInv, DecideInv, ExecuteInv, WorldInv, StutterInv
  DEF Next

LEMMA InvAlways == Spec => []Inv
  BY InitInv, NextInv, PTL DEF Spec

\* The type invariant.
THEOREM TypeCorrect == Spec => []TypeOK
  <1>1. Inv => TypeOK
    BY DEF Inv, Typed, QueueT, TokenT, RunT, StageT, HubT, CoderT, CliT, TypeOK,
       ItemStatus
  <1> QED BY InvAlways, <1>1, PTL

\* A run becomes executing at most once, for any number of commands: what
\* begin_execution's marker is for (coding_run_store.py).
THEOREM ExecutedOnce == Spec => []BegunOnce
  <1>1. Inv => BegunOnce
    BY DEF Inv, MarkersExclude, BegunOnce, Typed, RunT
  <1> QED BY InvAlways, <1>1, PTL

\* The worker's branch has a begun run, a used token, an approved item and a
\* claimed action behind it (execute_persisted_approved_run).
THEOREM AuthorizedBranch == Spec => []BranchWasAuthorized
  <1>1. Inv => BranchWasAuthorized
    <2>1. SUFFICES ASSUME Inv, branch \in {"base", "committed"}
                   PROVE  BranchWasAuthorized
      BY DEF BranchWasAuthorized
    <2>2. /\ \E r \in Run : marker[r] /\ began[r] = 1
          /\ claimed # {} /\ stage \in After
      BY <2>1 DEF Inv, Authorities
    <2>3. record # 0
      <3>1. PICK t \in claimed : t \in 1..record
        BY <2>1, <2>2 DEF Inv, Typed, TokenT
      <3> QED BY <3>1
    <2>4. Approved
      BY <2>1, <2>3 DEF Inv, Authorities
    <2> QED BY <2>2, <2>4 DEF BranchWasAuthorized, Approved, After
  <1> QED BY InvAlways, <1>1, PTL

\* What somebody else pushed to the branch stays (commit_files).
THEOREM ForeignKept == Spec => ForeignWorkKept
  <1>1. [Next]_vars => [branch = "foreign" => branch' = "foreign"]_vars
    <2>1. SUFFICES ASSUME Next, branch = "foreign" PROVE branch' = "foreign"
      OBVIOUS
    <2>2. CASE \E p \in Cli : CreateBranch(p) \/ Push(p)
      BY <2>1, <2>2 DEF CreateBranch, Push, Request, None
    <2>3. CASE \E p \in Cli : OpenDraft(p)
      BY <2>1, <2>3 DEF OpenDraft
    <2>4. CASE \E p \in Cli : CliStep(p) /\ ~CreateBranch(p) /\ ~Push(p)
                               /\ ~OpenDraft(p)
      BY <2>1, <2>4
      DEF CliStep, Issue, Find, Gate, Check, Trust, Load, Mark, Write,
          RecordStage, Look, Block, Prepare, Claim, CheckParent, github
    <2>5. CASE \E r \in Run : CoderStep(r) \/ CoderDies(r)
      BY <2>1, <2>5
      DEF CoderStep, Enqueue, Create, Register, RecordGate, CoderDies, github
    <2>6. CASE \/ \E p \in Cli : CliDies(p)
               \/ \E p \in Cli, d \in {"approved", "rejected"} : Decide(p, d)
               \/ \E p \in Cli, r \in Run : Execute(p, r)
      BY <2>1, <2>6 DEF CliDies, Decide, Execute, github
    <2>7. CASE \/ \E t \in 1..record : Expire(t)
               \/ BaseMoves \/ SomeonePushes \/ Reconcile
      BY <2>1, <2>7 DEF Expire, BaseMoves, SomeonePushes, Reconcile, github
    <2> QED BY <2>1, <2>2, <2>3, <2>4, <2>5, <2>6, <2>7 DEF Next
  <1> QED BY <1>1, PTL DEF Spec, ForeignWorkKept

-----------------------------------------------------------------------------
\* Executed runs and their drafts.

\* Only a command whose draft was opened aims at an executed run.
Drafted ==
  /\ \A p \in Cli : goal[p] = "executed" => pulls = 1
  /\ \A r \in Run : run[r] = "executed" => pulls = 1

\* A step of a command after which it has another goal or none, or had one all
\* along, and that does not change a stored run.
LEMMA DraftedKept ==
  ASSUME Drafted, pulls' = pulls \/ pulls' = 1,
         \A r \in Run : run'[r] = "executed" => run[r] = "executed" \/ pulls' = 1,
         \A p \in Cli : goal'[p] = "executed" =>
                          goal[p] = "executed" \/ pulls' = 1
  PROVE  Drafted'
  BY DEF Drafted

\* Returning, pursuing another goal and erring do not make a command aim at an
\* executed run.
LEMMA GoalKept ==
  ASSUME CliT, NEW p \in Cli,
         \/ Returns(p) \/ Errs(p) \/ Stays \/ UNCHANGED goal
         \/ \E g \in Goal \ {"executed"} : Pursues(p, g)
  PROVE  \A q \in Cli : goal'[q] = "executed" => goal[q] = "executed"
  <1>1. None # "executed"
    BY DEF None
  <1>2. \E g : g # "executed" /\ (goal' = goal \/ goal' = [goal EXCEPT ![p] = g])
    BY <1>1 DEF Returns, Errs, Stays, Pursues
  <1> QED BY <1>2 DEF CliT

\* The steps that touch neither stored runs nor the drafts.
LEMMA LocalDrafted ==
  ASSUME Inv, Drafted, NEW p \in Cli,
         \/ Issue(p) \/ Find(p) \/ Gate(p) \/ Check(p) \/ Trust(p) \/ Load(p)
         \/ Mark(p) \/ RecordStage(p) \/ Look(p) \/ Block(p) \/ Prepare(p)
         \/ Claim(p) \/ CreateBranch(p) \/ CheckParent(p) \/ Push(p)
         \/ CliDies(p)
  PROVE  Drafted'
  <1>1. run' = run /\ pulls' = pulls
    BY DEF Issue, Find, Gate, Check, Trust, Load, Mark, RecordStage, Look, Block,
       Prepare, Claim, CreateBranch, CheckParent, Push, CliDies, runs, github
  <1>2. \/ Returns(p) \/ Errs(p) \/ Stays \/ UNCHANGED goal
        \/ \E g \in Goal \ {"executed"} : Pursues(p, g)
    BY GoalsAre
    DEF Issue, Find, Gate, Check, Trust, Load, Mark, RecordStage, Look, Block,
        Prepare, Claim, CreateBranch, CheckParent, Push, CliDies, Request, Fails
  <1> QED BY <1>1, <1>2, GoalKept, DraftedKept DEF Inv, Typed

\* _write stores "executed" only for a command that aims at it.
LEMMA WriteDrafted ==
  ASSUME Inv, Drafted, NEW p \in Cli, Write(p)
  PROVE  Drafted'
  <1>1. /\ pc[p] = "write" /\ work[p] \in Run /\ goal[p] \in Goal
        /\ pulls' = pulls /\ run \in [Run -> RunState \cup {None}] /\ CliT
    BY DEF Write, github, Inv, Typed, CliT, RunT
  <1>2. run' = run \/ run' = [run EXCEPT ![work[p]] = Target(goal[p])]
    BY DEF Write
  <1>3. \A r \in Run : run'[r] = "executed" => run[r] = "executed" \/ pulls' = 1
    BY <1>1, <1>2 DEF Drafted, Target
  <1>4. Returns(p) \/ Errs(p) \/ Stays
    BY DEF Write
  <1> QED BY <1>1, <1>3, <1>4, GoalKept, DraftedKept

LEMMA OpenDraftDrafted ==
  ASSUME Inv, Drafted, NEW p \in Cli, OpenDraft(p)
  PROVE  Drafted'
  <1>1. run' = run /\ CliT
    BY DEF OpenDraft, runs, Inv, Typed
  <1>2. CASE pulls' = 1
    BY <1>1, <1>2, DraftedKept
  <1>3. CASE pulls' = pulls /\ Pursues(p, "failed")
    BY <1>1, <1>3, GoalKept, GoalsAre, DraftedKept
  <1> QED BY <1>2, <1>3 DEF OpenDraft, Request, Fails

LEMMA OtherDrafted ==
  ASSUME Inv, Drafted,
         \/ \E r \in Run : CoderStep(r) \/ CoderDies(r)
         \/ \E p \in Cli, d \in {"approved", "rejected"} : Decide(p, d)
         \/ \E p \in Cli, r \in Run : Execute(p, r)
         \/ \E t \in 1..record : Expire(t)
         \/ BaseMoves \/ SomeonePushes \/ Reconcile
         \/ UNCHANGED vars
  PROVE  Drafted'
  <1> USE DEF runs, github, locals
  <1>1. pulls' = pulls /\ CliT /\ run \in [Run -> RunState \cup {None}]
    BY DEF CoderStep, Enqueue, Create, Register, RecordGate, CoderDies, Decide,
       Execute, Expire, BaseMoves, SomeonePushes, Reconcile, vars, Inv, Typed, RunT
  <1>2. run' = run \/ \E r \in Run : run' = [run EXCEPT ![r] = "ready"]
    BY DEF CoderStep, Enqueue, Create, Register, RecordGate, CoderDies, Decide,
       Execute, Expire, BaseMoves, SomeonePushes, Reconcile, vars
  <1>3. goal' = goal \/ \E p \in Cli, d \in {"approved", "rejected"} :
                          goal' = [goal EXCEPT ![p] = d]
    BY DEF CoderStep, Enqueue, Create, Register, RecordGate, CoderDies, Decide,
       Execute, Expire, BaseMoves, SomeonePushes, Reconcile, vars
  <1>4. \A q \in Cli : goal'[q] = "executed" => goal[q] = "executed"
    BY <1>1, <1>3 DEF CliT
  <1>5. \A r \in Run : run'[r] = "executed" => run[r] = "executed"
    BY <1>1, <1>2
  <1> QED BY <1>1, <1>4, <1>5, DraftedKept

\* A run that says executed has its draft: the command writes it only after
\* GitHub answered with one (execute_persisted_approved_run).
THEOREM DraftBehindExecuted == Spec => []ExecutedHasPullRequest
  <1>1. Init => Drafted
    BY DEF Init, Drafted, None
  <1>2. Inv /\ Drafted /\ [Next]_vars => Drafted'
    BY LocalDrafted, WriteDrafted, OpenDraftDrafted, OtherDrafted
    DEF Next, CliStep
  <1>3. Drafted => ExecutedHasPullRequest
    BY DEF Drafted, ExecutedHasPullRequest
  <1> QED BY <1>1, <1>2, <1>3, InvAlways, PTL DEF Spec

-----------------------------------------------------------------------------
(***************************************************************************)
(* Two callers at a time (MCRacingCallers). Its specification drives one   *)
(* component and leaves the others alone, so it implements each of them,   *)
(* and what is proved of the component is true here. NoValue is the None   *)
(* of both instances.                                                      *)
(***************************************************************************)

LEMMA RacingServer == RacingSpec => Server!Spec
<1>1. RacingInit => Server!Init
  BY DEF RacingInit
<1>2. [RacingNext]_<<driven, vars, missionVars, engineVars>> => [Server!Next]_(Server!vars)
  BY DEF RacingNext, missionVars, Server!vars, Server!files, Server!server, Server!working
<1> QED
  BY <1>1, <1>2, PTL DEF RacingSpec, Server!Spec

LEMMA RacingEngine == RacingSpec => Engine!Spec
<1>1. RacingInit => Engine!Init
  BY DEF RacingInit
<1>2. [RacingNext]_<<driven, vars, missionVars, engineVars>> => [Engine!Next]_(Engine!vars)
  BY DEF RacingNext, engineVars, Engine!vars, Engine!files
<1> QED
  BY <1>1, <1>2, PTL DEF RacingSpec, Engine!Spec

LEMMA ServerConstants ==
  ASSUME NoValue # m1, NoValue # 1
  PROVE  Server!MissionControlAssumption
<1>1. Server!IsFiniteSet(TwoCallers)
  <2>1. <<a1, a2>> \in Seq(TwoCallers) /\ \A x \in TwoCallers : \E n \in 1..2 : <<a1, a2>>[n] = x
    BY DEF TwoCallers
  <2> QED
    BY <2>1 DEF Server!IsFiniteSet
<1> QED
  BY <1>1 DEF Server!MissionControlAssumption

LEMMA EngineConstants ==
  ASSUME NoValue # 1
  PROVE  Engine!ExecutionEngineAssumption
  BY DEF Engine!ExecutionEngineAssumption

\* Two handlers that resume one mission, and a worker that may claim an item
\* before its mission is stored, still queue one item per decided approval.
THEOREM RacingHandlersQueueOnce ==
  ASSUME NoValue # m1, NoValue # 1
  PROVE  RacingSpec => []OneItemPerApproval
<1>1. Server!MissionControlAssumption
  BY ServerConstants
<1>2. Server!Spec => []Server!OneItemPerApproval
  BY <1>1, Server!QueuedPerApproval
<1> QED
  BY <1>2, RacingServer, PTL DEF OneItemPerApproval

\* Two calls of execute_plan for one execution id, which overwrite each
\* other's checkpoint, each run their own steps in the plan's order.
THEOREM RacingCallsKeepTheOrder ==
  ASSUME NoValue # 1
  PROVE  RacingSpec => []StepsInOrder
<1>1. Engine!ExecutionEngineAssumption
  BY EngineConstants
<1>2. Engine!Spec => []Engine!StepsInOrder
  BY <1>1, Engine!StepsRunInOrder
<1> QED
  BY <1>2, RacingEngine, PTL DEF StepsInOrder
=============================================================================
