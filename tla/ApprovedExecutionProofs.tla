---------------------- MODULE ApprovedExecutionProofs ----------------------
(***************************************************************************)
(* Proofs about the execution of approved actions, for any number of       *)
(* actions, tokens, proposers, deciders and executors: the ledger and the  *)
(* executions, then the audit log and the tokens, and the queue file and   *)
(* the decisions.  Only the last theorem about the decisions needs that no *)
(* proposal overlaps another write.  After them the two parts that         *)
(* MCApprovedExecution runs beside it: the improvement loop, for any       *)
(* providers, answers and checkout, and the memory of observations, for    *)
(* any pull requests and any bound on the memory.                          *)
(***************************************************************************)
EXTENDS ApprovedExecution, ImprovementLoop, ChangeMonitoring, FiniteSetTheorems,
        WellFoundedInduction, TLAPS

-----------------------------------------------------------------------------
\* The ledger as a value.

\* The states an action can be in once it was claimed.
FromClaimed == {"claimed", "executed", "verified", "completed", "blocked"}

LEMMA ClaimedIsLeftForward ==
  ASSUME NEW s, NEW t, CanTransition(s, t)
  PROVE  /\ t = "claimed" => s = "approved"
         /\ s \in FromClaimed => t \in FromClaimed
  BY DEF CanTransition, Transitions, NextStage, FromClaimed

LEMMA TransitionTyped ==
  ASSUME NEW s, NEW t, CanTransition(s, t)
  PROVE  s \in LifecycleState /\ t \in LifecycleState
  BY DEF CanTransition, Transitions, NextStage, LifecycleState

\* An accepted append adds one event to one action and keeps the rest.
LEMMA AppendedPointwise ==
  ASSUME NEW l \in Ledger, NEW a \in Action, NEW s, NEW t,
         s \in LifecycleState, t \in LifecycleState
  PROVE  LET m == Appended(l, a, s, t) IN
         /\ m \in Ledger
         /\ \A b \in Action : b # a => m[b] = l[b]
         /\ Len(m[a]) = Len(l[a]) + 1
         /\ m[a][Len(l[a]) + 1] = [from |-> s, to |-> t]
         /\ \A i \in 1..Len(l[a]) : m[a][i] = l[a][i]
<1>1. [from |-> s, to |-> t] \in Event
  BY DEF Event
<1>2. l[a] \in Seq(Event)
  BY DEF Ledger
<1> DEFINE x == [from |-> s, to |-> t]
<1>3. /\ Append(l[a], x) \in Seq(Event)
      /\ Len(Append(l[a], x)) = Len(l[a]) + 1
      /\ Append(l[a], x)[Len(l[a]) + 1] = x
      /\ \A i \in 1..Len(l[a]) : Append(l[a], x)[i] = l[a][i]
  BY <1>1, <1>2
<1>4. Appended(l, a, s, t)[a] = Append(l[a], x)
  BY DEF Appended, Ledger
<1> QED
  BY <1>3, <1>4 DEF Appended, Ledger

\* append_transition keeps what _verify_ledger_unlocked checks.
LEMMA AppendVerifies ==
  ASSUME NEW l \in Ledger, NEW a \in Action, NEW s, NEW t,
         Verifies(l), Accepts(l, a, s, t)
  PROVE  Verifies(Appended(l, a, s, t))
<1> DEFINE m == Appended(l, a, s, t)
           n == Len(l[a])
<1>1. CanTransition(s, t) /\ s \in LifecycleState /\ t \in LifecycleState
  BY TransitionTyped DEF Accepts
<1>2. /\ m \in Ledger
      /\ \A b \in Action : b # a => m[b] = l[b]
      /\ Len(m[a]) = n + 1
      /\ m[a][n + 1] = [from |-> s, to |-> t]
      /\ \A i \in 1..n : m[a][i] = l[a][i]
  BY <1>1, AppendedPointwise
<1>3. l[a] \in Seq(Event) /\ m[a] \in Seq(Event) /\ n \in Nat
  BY <1>2 DEF Ledger
<1> HIDE DEF m
<1> SUFFICES ASSUME NEW b \in Action, NEW i \in DOMAIN m[b]
             PROVE  /\ CanTransition(m[b][i].from, m[b][i].to)
                    /\ m[b][i].from = (IF i = 1 THEN "proposed"
                                                ELSE m[b][i - 1].to)
  BY DEF Verifies, m
<1>4. CASE b # a
  BY <1>2, <1>4 DEF Verifies
<1>5. CASE b = a /\ i \in 1..n
  <2>1. i \in DOMAIN l[a] /\ (i # 1 => i - 1 \in 1..n)
    BY <1>3, <1>5
  <2>2. /\ CanTransition(l[a][i].from, l[a][i].to)
        /\ l[a][i].from = (IF i = 1 THEN "proposed" ELSE l[a][i - 1].to)
    BY <2>1 DEF Verifies
  <2> QED
    BY <1>2, <1>5, <2>1, <2>2
<1>6. CASE b = a /\ i = n + 1
  <2>1. m[b][i].from = s /\ m[b][i].to = t
    BY <1>2, <1>6
  <2>2. CASE l[a] = <<>>
    BY <1>1, <1>3, <1>6, <2>1, <2>2 DEF Accepts
  <2>3. CASE l[a] # <<>>
    <3>1. n \in 1..n /\ n + 1 # 1 /\ n + 1 - 1 = n
      BY <1>3, <2>3
    <3>2. s = l[a][n].to
      BY <2>3 DEF Accepts, Latest
    <3> QED
      BY <1>1, <1>2, <1>6, <2>1, <3>1, <3>2
  <2> QED
    BY <2>2, <2>3
<1>7. b = a => i \in 1..n \/ i = n + 1
  BY <1>2, <1>3
<1> QED
  BY <1>4, <1>5, <1>6, <1>7

-----------------------------------------------------------------------------
\* What a step does to the ledger and to the executors.

Typed ==
  /\ ledger \in Ledger
  /\ claims \subseteq Token
  /\ issued \in [Token -> Action \cup {None}]
  /\ target \in [Decider -> Action \cup {None}]
  /\ epc \in [Executor -> EPc]
  /\ act \in [Executor -> Action \cup {None}]
  /\ tok \in [Executor -> Token \cup {None}]
  /\ starts \in Seq(Start)
  /\ reported \subseteq Action
  /\ \A e \in Executor : epc[e] # "idle" => act[e] \in Action /\ tok[e] \in Token

\* Nothing of the execution moves; at most a token is issued.
LEMMA QueueStepKeeps ==
  ASSUME Typed, QueueStep
  PROVE  /\ issued' \in [Token -> Action \cup {None}]
         /\ target' \in [Decider -> Action \cup {None}]
         /\ \A t \in Token : issued[t] # None => issued'[t] = issued[t]
<1>1. CASE \E d \in Decider, t \in Token : Issue(d, t)
  BY <1>1 DEF Issue, Idle, Typed
<1>2. CASE \E d \in Decider, a \in Action, v \in Decision : Call(d, a, v)
  BY <1>2 DEF Call, Typed, trail
<1>3. CASE \E d \in Decider :
             Refuse(d) \/ Audit(d) \/ AuditRefused(d) \/ DeciderCrash(d)
  BY <1>3 DEF Refuse, Audit, AuditRefused, DeciderCrash, Idle, Typed, trail
<1>4. CASE UNCHANGED <<issued, target>>
  BY <1>4 DEF Typed
<1>5. QueueStep => \/ \E d \in Decider, t \in Token : Issue(d, t)
                   \/ \E d \in Decider, a \in Action, v \in Decision : Call(d, a, v)
                   \/ \E d \in Decider :
                        Refuse(d) \/ Audit(d) \/ AuditRefused(d) \/ DeciderCrash(d)
                   \/ UNCHANGED <<issued, target>>
  BY DEF QueueStep, Propose, Truncate, Write, WriteOrphan, ProposerCrash,
         GrowOld, Load, Replace, trail, deciding
<1> QED
  BY <1>1, <1>2, <1>3, <1>4, <1>5

\* An executor's place and arguments stay typed, whatever it does.
LEMMA ExecuteTyped ==
  ASSUME Typed, NEW e \in Executor, Execute(e)
  PROVE  /\ epc' \in [Executor -> EPc]
         /\ act' \in [Executor -> Action \cup {None}]
         /\ tok' \in [Executor -> Token \cup {None}]
         /\ \A f \in Executor :
              epc'[f] # "idle" => act'[f] \in Action /\ tok'[f] \in Token
         /\ \A f \in Executor \ {e} :
              epc'[f] = epc[f] /\ act'[f] = act[f] /\ tok'[f] = tok[f]
<1>1. CASE \E a \in Action, t \in Token : CallExecute(e, a, t)
  BY <1>1 DEF CallExecute, At, Typed, EPc
<1>2. CASE Authorize(e) \/ Trust(e) \/ Persist(e)
  BY <1>2 DEF Authorize, Trust, Persist, At, Typed, EPc, args
<1>3. CASE Claim(e)
  BY <1>3 DEF Claim, Claiming, Typed, EPc, args
<1>4. CASE Returns(e)
  BY <1>4 DEF Returns, Typed, EPc
<1>5. CASE Fails(e)
  BY <1>4, <1>5 DEF Fails, Claiming, Typed, EPc, args
<1>6. CASE BlockFailed(e) \/ Finish(e) \/ Refused(e) \/ ExecutorCrash(e)
  BY <1>4, <1>6 DEF BlockFailed, Finish, Refused, ExecutorCrash
<1> QED
  BY <1>1, <1>2, <1>3, <1>5, <1>6 DEF Execute

\* The ledger, if it moves, moves by one accepted transition; only Persist
\* claims.
LEMMA ExecuteLedger ==
  ASSUME Typed, NEW e \in Executor, Execute(e)
  PROVE  \/ UNCHANGED ledger
         \/ /\ Persist(e) /\ CanRecord(act[e], "approved", "claimed")
            /\ ledger' = Appended(ledger, act[e], "approved", "claimed")
            /\ act[e] \in Action
         \/ \E t \in {"executed", "blocked"} :
              /\ CanRecord(act[e], "claimed", t)
              /\ ledger' = Appended(ledger, act[e], "claimed", t)
              /\ act[e] \in Action
  BY DEF Execute, CallExecute, Authorize, Trust, Persist, Claim, Fails, BlockFailed,
         Finish, Refused, ExecutorCrash, Record, At, Claiming, Typed

-----------------------------------------------------------------------------
\* The ledger: a claimed action never returns to a state it could be claimed
\* from.

ClaimedStays ==
  \A a \in Action :
    ClaimedIn(ledger, a) => ledger[a] # <<>> /\ Latest(ledger[a]) \in FromClaimed

Holds(events, x) == \E i \in DOMAIN events : events[i] = x

\* What one accepted transition does to the history of the actions.
LEMMA LedgerMoves ==
  ASSUME Typed, Verifies(ledger), ClaimedStays,
         NEW a \in Action, NEW s, NEW t,
         CanRecord(a, s, t), ledger' = Appended(ledger, a, s, t)
  PROVE  /\ ledger' \in Ledger /\ Verifies(ledger') /\ ClaimedStays'
         /\ \A b \in Action :
              ClaimedIn(ledger', b) <=> ClaimedIn(ledger, b) \/ (b = a /\ t = "claimed")
         /\ t = "claimed" => ~ClaimedIn(ledger, a)
         /\ \A b \in Action, x \in Event :
              Holds(ledger[b], x) => Holds(ledger'[b], x)
         /\ Holds(ledger'[a], [from |-> s, to |-> t])
<1> DEFINE n == Len(ledger[a])
<1>1. /\ Accepts(ledger, a, s, t) /\ CanTransition(s, t)
      /\ s \in LifecycleState /\ t \in LifecycleState
  BY TransitionTyped DEF CanRecord, Accepts
<1>2. /\ ledger' \in Ledger
      /\ \A b \in Action : b # a => ledger'[b] = ledger[b]
      /\ Len(ledger'[a]) = n + 1
      /\ ledger'[a][n + 1] = [from |-> s, to |-> t]
      /\ \A i \in 1..n : ledger'[a][i] = ledger[a][i]
  BY <1>1, AppendedPointwise DEF Typed
<1>3. Verifies(ledger')
  BY <1>1, AppendVerifies DEF Typed
<1>4. /\ ledger[a] \in Seq(Event) /\ ledger'[a] \in Seq(Event) /\ n \in Nat
      /\ DOMAIN ledger[a] = 1..n /\ DOMAIN ledger'[a] = 1..(n + 1)
  BY <1>2 DEF Typed, Ledger
<1>5. ledger'[a] # <<>> /\ Latest(ledger'[a]) = t
  BY <1>2, <1>4 DEF Latest
<1>6. \A b \in Action :
        ClaimedIn(ledger', b) <=> ClaimedIn(ledger, b) \/ (b = a /\ t = "claimed")
  <2>1. \A b \in Action : b # a => (ClaimedIn(ledger', b) <=> ClaimedIn(ledger, b))
    BY <1>2 DEF ClaimedIn
  <2>2. ClaimedIn(ledger', a) <=> \E i \in 1..(n + 1) : ledger'[a][i].to = "claimed"
    BY <1>4 DEF ClaimedIn
  <2>3. ClaimedIn(ledger, a) <=> \E i \in 1..n : ledger[a][i].to = "claimed"
    BY <1>4 DEF ClaimedIn
  <2>4. ledger'[a][n + 1].to = t
    BY <1>2
  <2>5. \A i \in 1..(n + 1) : i \in 1..n \/ i = n + 1
    BY <1>4
  <2>6. 1..n \subseteq 1..(n + 1) /\ n + 1 \in 1..(n + 1)
    BY <1>4
  <2>7. ClaimedIn(ledger', a) <=> ClaimedIn(ledger, a) \/ t = "claimed"
    BY <1>2, <2>2, <2>3, <2>4, <2>5, <2>6
  <2> QED
    BY <2>1, <2>7
<1>7. t = "claimed" => ~ClaimedIn(ledger, a)
  <2> SUFFICES ASSUME t = "claimed", ClaimedIn(ledger, a) PROVE FALSE
    OBVIOUS
  <2>1. ledger[a] # <<>> /\ Latest(ledger[a]) \in FromClaimed
    BY DEF ClaimedStays
  <2>2. s = Latest(ledger[a]) /\ s = "approved"
    BY <1>1, <2>1, ClaimedIsLeftForward DEF Accepts
  <2> QED
    BY <2>1, <2>2 DEF FromClaimed
<1>8. ClaimedStays'
  <2> SUFFICES ASSUME NEW b \in Action, ClaimedIn(ledger', b)
               PROVE  ledger'[b] # <<>> /\ Latest(ledger'[b]) \in FromClaimed
    BY DEF ClaimedStays
  <2>1. CASE b # a
    BY <1>2, <1>6, <2>1 DEF ClaimedStays
  <2>2. CASE b = a /\ t = "claimed"
    BY <1>5, <2>2 DEF FromClaimed
  <2>3. CASE b = a /\ ClaimedIn(ledger, a)
    <3>1. ledger[a] # <<>> /\ Latest(ledger[a]) \in FromClaimed
      BY <2>3 DEF ClaimedStays
    <3>2. s \in FromClaimed
      BY <1>1, <3>1 DEF Accepts
    <3> QED
      BY <1>1, <1>5, <2>3, <3>2, ClaimedIsLeftForward
  <2> QED
    BY <1>6, <2>1, <2>2, <2>3
<1>9. \A b \in Action, x \in Event : Holds(ledger[b], x) => Holds(ledger'[b], x)
  <2> SUFFICES ASSUME NEW b \in Action, NEW x, Holds(ledger[b], x)
               PROVE  Holds(ledger'[b], x)
    OBVIOUS
  <2>1. CASE b # a
    BY <1>2, <2>1
  <2>2. CASE b = a
    <3>1. PICK i \in 1..n : ledger[a][i] = x
      BY <1>4, <2>2 DEF Holds
    <3>2. i \in DOMAIN ledger'[a] /\ ledger'[a][i] = x
      BY <1>2, <1>4, <3>1
    <3> QED
      BY <2>2, <3>2 DEF Holds
  <2> QED
    BY <2>1, <2>2
<1>10. Holds(ledger'[a], [from |-> s, to |-> t])
  <2>1. n + 1 \in DOMAIN ledger'[a]
    BY <1>4
  <2> QED
    BY <1>2, <2>1 DEF Holds
<1> QED
  BY <1>2, <1>3, <1>6, <1>7, <1>8, <1>9, <1>10

\* Gates, blocking and reconciliation move the ledger, but never claim.
LEMMA OthersLedger ==
  ASSUME NEW a \in Action, NEW s \in LifecycleState,
         Gate(a, s) \/ Block(a, s) \/ Reconcile(a, s)
  PROVE  /\ \E t \in LifecycleState \ {"claimed"} :
              CanRecord(a, s, t) /\ ledger' = Appended(ledger, a, s, t)
         /\ UNCHANGED <<queueVars, claims, executing, starts, reported>>
  BY DEF Gate, Block, Reconcile, Record, Gates, NextStage, LifecycleState

-----------------------------------------------------------------------------
\* The inductive invariant.

LedgerInv == Verifies(ledger) /\ ClaimedStays

\* With the ledger: an executor that got past it has claimed the action, it is
\* the only one, and while it is at the claim no run of the action has begun.
ClaimInv ==
  UseLedger =>
    /\ \A e \in Executor : epc[e] \in TakenUp => ClaimedIn(ledger, act[e])
    /\ \A e, f \in Executor :
         epc[e] \in TakenUp /\ epc[f] \in TakenUp /\ act[e] = act[f] => e = f
    /\ \A i \in DOMAIN starts : ClaimedIn(ledger, starts[i].id)
    /\ \A e \in Executor : epc[e] = "persisted" =>
         \A i \in DOMAIN starts : starts[i].id # act[e]
    /\ \A i, j \in DOMAIN starts : starts[i].id = starts[j].id => i = j

\* Past its authorization an executor holds a token of its own action, and
\* every run that began left a marker.
TokenInv ==
  /\ \A e \in Executor : epc[e] \notin {"idle", "called"} =>
       issued[tok[e]] = act[e]
  /\ \A i \in DOMAIN starts : starts[i].token \in claims
  /\ ConsumedOnce

Inv == Typed /\ LedgerInv /\ ClaimInv /\ ReportedIsExecuted /\ TokenInv

LEMMA ExecInitInv == ExecInit => Inv
  BY DEF ExecInit, Init, Inv, Typed, Ledger, EPc, LedgerInv, Verifies, ClaimedStays,
         ClaimedIn, ClaimInv, TakenUp, ReportedIsExecuted, TokenInv, ConsumedOnce

\* A new entry at the end of the list of runs.
LEMMA StartsGrow ==
  ASSUME Typed, NEW e \in Executor, Claim(e)
  PROVE  LET n == Len(starts) IN
         /\ starts' \in Seq(Start) /\ n \in Nat
         /\ DOMAIN starts = 1..n /\ DOMAIN starts' = 1..(n + 1)
         /\ \A i \in DOMAIN starts' : i \in DOMAIN starts \/ i = n + 1
         /\ n + 1 \notin DOMAIN starts
         /\ starts'[n + 1] = [id |-> act[e], token |-> tok[e]]
         /\ \A i \in DOMAIN starts : starts'[i] = starts[i]
<1> DEFINE x == [id |-> act[e], token |-> tok[e]]
<1>1. x \in Start /\ starts \in Seq(Start)
  BY DEF Claim, Claiming, Typed, Start
<1>2. starts' = Append(starts, x)
  BY DEF Claim
<1> HIDE DEF x
<1>3. /\ Append(starts, x) \in Seq(Start) /\ Len(Append(starts, x)) = Len(starts) + 1
      /\ Append(starts, x)[Len(starts) + 1] = x
      /\ \A i \in 1..Len(starts) : Append(starts, x)[i] = starts[i]
      /\ DOMAIN starts = 1..Len(starts) /\ Len(starts) \in Nat
  BY <1>1
<1>4. /\ starts' \in Seq(Start) /\ Len(starts) \in Nat
      /\ DOMAIN starts = 1..Len(starts) /\ DOMAIN starts' = 1..(Len(starts) + 1)
      /\ starts'[Len(starts) + 1] = x
      /\ \A i \in DOMAIN starts : starts'[i] = starts[i]
  BY <1>2, <1>3
<1> QED
  BY <1>4 DEF x

\* Every step keeps the types.
LEMMA StepTyped ==
  ASSUME Inv, ExecNext
  PROVE  Typed'
<1> USE DEF Inv
<1>1. CASE QueueStep /\ UNCHANGED execVars
  BY <1>1, QueueStepKeeps DEF Typed, execVars, executing
<1>2. CASE \E a \in Action, s \in LifecycleState :
             Gate(a, s) \/ Block(a, s) \/ Reconcile(a, s)
  <2> PICK a \in Action, s \in LifecycleState :
             Gate(a, s) \/ Block(a, s) \/ Reconcile(a, s)
    BY <1>2
  <2>1. ledger' \in Ledger
    BY OthersLedger, LedgerMoves DEF LedgerInv
  <2> QED
    BY <2>1, OthersLedger DEF Typed, queueVars, executing, trail, deciding
<1>3. CASE \E t \in Token : Expire(t)
  BY <1>3 DEF Expire, Typed, queueVars, executing, trail, deciding
<1>4. CASE \E e \in Executor : Execute(e)
  <2> PICK e \in Executor : Execute(e)
    BY <1>4
  <2>1. ledger' \in Ledger
    <3>1. CASE UNCHANGED ledger
      BY <3>1 DEF Typed
    <3>2. CASE ~UNCHANGED ledger
      BY <3>2, ExecuteLedger, LedgerMoves DEF LedgerInv
    <3> QED
      BY <3>1, <3>2
  <2>2. starts' \in Seq(Start) /\ claims' \subseteq Token /\ reported' \subseteq Action
    <3>1. CASE Claim(e)
      BY <3>1, StartsGrow DEF Typed, Claim, Claiming
    <3>2. CASE ~Claim(e)
      BY <3>2 DEF Typed, Execute, CallExecute, Authorize, Trust, Persist, Fails,
         BlockFailed, Finish, Refused, ExecutorCrash, Claiming
    <3> QED
      BY <3>1, <3>2
  <2>3. UNCHANGED <<issued, target>>
    BY DEF Execute, CallExecute, Authorize, Trust, Persist, Claim, Fails, BlockFailed,
       Finish, Refused, ExecutorCrash, queueVars, trail, deciding
  <2> QED
    BY <2>1, <2>2, <2>3, ExecuteTyped DEF Typed
<1> QED
  BY <1>1, <1>2, <1>3, <1>4 DEF ExecNext

\* Every step keeps the ledger sound and forgets nothing; an action is newly
\* claimed only by Persist, which finds it unclaimed.
LEMMA StepLedger ==
  ASSUME Inv, ExecNext
  PROVE  /\ LedgerInv'
         /\ \A a \in Action : ClaimedIn(ledger, a) => ClaimedIn(ledger', a)
         /\ \A a \in Action, x \in Event : Holds(ledger[a], x) => Holds(ledger'[a], x)
<1> USE DEF Inv
<1>1. CASE UNCHANGED ledger
  BY <1>1 DEF LedgerInv, ClaimedStays, ClaimedIn
<1>2. CASE \E a \in Action, s, t \in LifecycleState :
             CanRecord(a, s, t) /\ ledger' = Appended(ledger, a, s, t)
  BY <1>2, LedgerMoves DEF LedgerInv
<1>3. UNCHANGED ledger \/ \E a \in Action, s, t \in LifecycleState :
             CanRecord(a, s, t) /\ ledger' = Appended(ledger, a, s, t)
  <2>1. CASE QueueStep /\ UNCHANGED execVars
    BY <2>1 DEF execVars
  <2>2. CASE \E a \in Action, s \in LifecycleState :
               Gate(a, s) \/ Block(a, s) \/ Reconcile(a, s)
    BY <2>2, OthersLedger
  <2>3. CASE \E t \in Token : Expire(t)
    BY <2>3 DEF Expire
  <2>4. CASE \E e \in Executor : Execute(e)
    <3>1. {"approved", "claimed", "executed", "blocked"} \subseteq LifecycleState
      BY DEF LifecycleState, NextStage
    <3> QED
      BY <2>4, <3>1, ExecuteLedger
  <2> QED
    BY <2>1, <2>2, <2>3, <2>4 DEF ExecNext
<1> QED
  BY <1>1, <1>2, <1>3

\* Apart from claiming the ledger and claiming the token, a step neither moves
\* an executor past the ledger nor begins a run.
LEMMA OnlyPersistAndClaim ==
  ASSUME Inv, ExecNext
  PROVE  \/ \E e \in Executor : Persist(e) \/ Claim(e)
         \/ /\ UNCHANGED starts
            /\ \A e \in Executor : epc'[e] \in TakenUp =>
                 epc'[e] = epc[e] /\ act'[e] = act[e]
<1> USE DEF Inv
<1>1. CASE UNCHANGED <<starts, executing>>
  BY <1>1 DEF executing
<1>2. CASE \E a \in Action, s \in LifecycleState :
             Gate(a, s) \/ Block(a, s) \/ Reconcile(a, s)
  BY <1>1, <1>2, OthersLedger
<1>3. ASSUME NEW e \in Executor, Execute(e), ~Persist(e), ~Claim(e)
      PROVE  UNCHANGED starts /\ epc'[e] \notin TakenUp
  BY <1>3 DEF Execute, CallExecute, Authorize, Trust, Fails, BlockFailed, Finish,
     Refused, ExecutorCrash, Returns, At, TakenUp, Typed
<1>4. ASSUME NEW e \in Executor, Execute(e)
      PROVE  \A f \in Executor \ {e} : epc'[f] = epc[f] /\ act'[f] = act[f]
  BY <1>4, ExecuteTyped
<1>5. CASE \E e \in Executor : Execute(e)
  BY <1>3, <1>4, <1>5
<1> QED
  BY <1>1, <1>2, <1>5 DEF ExecNext, execVars, Expire

LEMMA StepClaims ==
  ASSUME Inv, ExecNext
  PROVE  ClaimInv'
<1> USE DEF Inv
<1> SUFFICES ASSUME UseLedger
    PROVE  /\ \A e \in Executor : epc'[e] \in TakenUp => ClaimedIn(ledger', act'[e])
           /\ \A e, f \in Executor :
                epc'[e] \in TakenUp /\ epc'[f] \in TakenUp /\ act'[e] = act'[f] => e = f
           /\ \A i \in DOMAIN starts' : ClaimedIn(ledger', starts'[i].id)
           /\ \A e \in Executor : epc'[e] = "persisted" =>
                \A i \in DOMAIN starts' : starts'[i].id # act'[e]
           /\ \A i, j \in DOMAIN starts' : starts'[i].id = starts'[j].id => i = j
  BY DEF ClaimInv
<1>1. \A a \in Action : ClaimedIn(ledger, a) => ClaimedIn(ledger', a)
  BY StepLedger
<1>2. /\ \A i \in DOMAIN starts : starts[i] \in Start /\ starts[i].id \in Action
      /\ \A f \in Executor : epc[f] \in TakenUp => act[f] \in Action
  <2>1. starts \in Seq(Start) /\ \A x \in Start : x.id \in Action
    BY DEF Typed, Start
  <2>2. \A i \in DOMAIN starts : starts[i] \in Start
    BY <2>1
  <2> QED
    BY <2>1, <2>2 DEF Typed, TakenUp
<1>3. CASE \E e \in Executor : Persist(e)
  <2> PICK e \in Executor : Persist(e)
    BY <1>3
  <2>1. /\ act[e] \in Action /\ UNCHANGED <<act, starts>>
        /\ epc' = [epc EXCEPT ![e] = "persisted"] /\ epc[e] = "trusted"
        /\ CanRecord(act[e], "approved", "claimed")
        /\ ledger' = Appended(ledger, act[e], "approved", "claimed")
    BY DEF Persist, At, Record, Typed, args
  <2>2. ~ClaimedIn(ledger, act[e]) /\ ClaimedIn(ledger', act[e])
    BY <2>1, LedgerMoves DEF LedgerInv
  <2>3. \A f \in Executor : f # e /\ epc'[f] \in TakenUp =>
          epc[f] \in TakenUp /\ act[f] # act[e]
    BY <2>1, <2>2 DEF ClaimInv, Typed
  <2>4. \A i \in DOMAIN starts : starts[i].id # act[e]
    BY <2>2 DEF ClaimInv
  <2>5. \A f \in Executor : epc'[f] \in TakenUp => ClaimedIn(ledger', act'[f])
    <3> SUFFICES ASSUME NEW f \in Executor, epc'[f] \in TakenUp
                 PROVE  ClaimedIn(ledger', act'[f])
      OBVIOUS
    <3>1. CASE f = e
      BY <2>1, <2>2, <3>1
    <3>2. CASE f # e
      <4>1. epc[f] \in TakenUp
        BY <2>3, <3>2
      <4> QED
        BY <1>1, <1>2, <2>1, <4>1 DEF ClaimInv
    <3> QED
      BY <3>1, <3>2
  <2>6. \A f, g \in Executor :
          epc'[f] \in TakenUp /\ epc'[g] \in TakenUp /\ act'[f] = act'[g] => f = g
    BY <2>1, <2>3 DEF ClaimInv
  <2>7. \A i \in DOMAIN starts' : ClaimedIn(ledger', starts'[i].id)
    BY <1>1, <1>2, <2>1 DEF ClaimInv
  <2>8. \A f \in Executor : epc'[f] = "persisted" =>
          \A i \in DOMAIN starts' : starts'[i].id # act'[f]
    BY <2>1, <2>4 DEF ClaimInv, Typed
  <2> QED
    BY <2>1, <2>5, <2>6, <2>7, <2>8 DEF ClaimInv
<1>4. CASE \E e \in Executor : Claim(e)
  <2> PICK e \in Executor : Claim(e)
    BY <1>4
  <2> DEFINE n == Len(starts)
  <2>1. /\ epc[e] = "persisted" /\ epc' = [epc EXCEPT ![e] = "running"]
        /\ UNCHANGED <<act, ledger>> /\ act[e] \in Action
    BY DEF Claim, Claiming, Typed, args
  <2>2. /\ \A i \in DOMAIN starts' : i \in DOMAIN starts \/ i = n + 1
        /\ starts'[n + 1].id = act[e]
        /\ \A i \in DOMAIN starts : starts'[i] = starts[i]
    <3>1. /\ \A i \in DOMAIN starts' : i \in DOMAIN starts \/ i = n + 1
          /\ starts'[n + 1] = [id |-> act[e], token |-> tok[e]]
          /\ \A i \in DOMAIN starts : starts'[i] = starts[i]
      BY StartsGrow
    <3> QED
      BY <3>1
  <2> HIDE DEF n
  <2>3. ClaimedIn(ledger', act[e]) /\ \A i \in DOMAIN starts : starts[i].id # act[e]
    BY <1>1, <2>1 DEF ClaimInv, TakenUp
  <2>4. \A f \in Executor : epc'[f] \in TakenUp => epc[f] \in TakenUp
    BY <2>1 DEF Typed, TakenUp
  <2>5. \A f \in Executor : epc'[f] = "persisted" =>
          epc[f] = "persisted" /\ f # e /\ act[f] # act[e]
    BY <2>1 DEF Typed, ClaimInv, TakenUp
  <2>6. \A f \in Executor : epc'[f] \in TakenUp => ClaimedIn(ledger', act'[f])
    <3> SUFFICES ASSUME NEW f \in Executor, epc'[f] \in TakenUp
                 PROVE  ClaimedIn(ledger', act'[f])
      OBVIOUS
    <3> QED
      BY <1>1, <1>2, <2>1, <2>4 DEF ClaimInv
  <2>7. \A f, g \in Executor :
          epc'[f] \in TakenUp /\ epc'[g] \in TakenUp /\ act'[f] = act'[g] => f = g
    BY <2>1, <2>4 DEF ClaimInv
  <2>8. \A i \in DOMAIN starts' : ClaimedIn(ledger', starts'[i].id)
    <3> SUFFICES ASSUME NEW i \in DOMAIN starts' PROVE ClaimedIn(ledger', starts'[i].id)
      OBVIOUS
    <3>1. CASE i = n + 1
      BY <2>2, <2>3, <3>1
    <3>2. CASE i \in DOMAIN starts
      <4>1. starts'[i] = starts[i]
        BY <2>2, <3>2
      <4> QED
        BY <1>1, <1>2, <3>2, <4>1 DEF ClaimInv
    <3> QED
      BY <2>2, <3>1, <3>2
  <2>9. \A f \in Executor : epc'[f] = "persisted" =>
          \A i \in DOMAIN starts' : starts'[i].id # act'[f]
    BY <2>1, <2>2, <2>5 DEF ClaimInv
  <2>10. \A i, j \in DOMAIN starts' : starts'[i].id = starts'[j].id => i = j
    BY <2>2, <2>3 DEF ClaimInv
  <2> QED
    BY <2>6, <2>7, <2>8, <2>9, <2>10
<1>5. CASE /\ UNCHANGED starts
           /\ \A e \in Executor : epc'[e] \in TakenUp =>
                epc'[e] = epc[e] /\ act'[e] = act[e]
  <2>1. \A e \in Executor : epc'[e] \in TakenUp => ClaimedIn(ledger', act'[e])
    <3> SUFFICES ASSUME NEW e \in Executor, epc'[e] \in TakenUp
                 PROVE  ClaimedIn(ledger', act'[e])
      OBVIOUS
    <3>1. ClaimedIn(ledger, act[e]) /\ act[e] \in Action /\ act'[e] = act[e]
      BY <1>2, <1>5 DEF ClaimInv
    <3> QED
      BY <1>1, <3>1
  <2>2. \A i \in DOMAIN starts' : ClaimedIn(ledger', starts'[i].id)
    BY <1>1, <1>2, <1>5 DEF ClaimInv
  <2>3. "persisted" \in TakenUp
    BY DEF TakenUp
  <2> QED
    BY <1>5, <2>1, <2>2, <2>3 DEF ClaimInv
<1> QED
  BY <1>3, <1>4, <1>5, OnlyPersistAndClaim

LEMMA StepReported ==
  ASSUME Inv, ExecNext
  PROVE  ReportedIsExecuted'
<1> USE DEF Inv
<1> DEFINE done == [from |-> "claimed", to |-> "executed"]
<1>1. done \in Event
  BY DEF Event, LifecycleState, NextStage
<1>2. UseLedger => \A a \in reported : a \in Action /\ Holds(ledger[a], done)
  BY DEF ReportedIsExecuted, Holds, Typed
<1>3. UseLedger => \A a \in reported : Holds(ledger'[a], done)
  BY <1>1, <1>2, StepLedger
<1>4. CASE \E e \in Executor : Finish(e)
  <2> PICK e \in Executor : Finish(e)
    BY <1>4
  <2>1. UseLedger => Holds(ledger'[act[e]], done)
    <3> SUFFICES ASSUME UseLedger PROVE Holds(ledger'[act[e]], done)
      OBVIOUS
    <3>1. /\ act[e] \in Action /\ CanRecord(act[e], "claimed", "executed")
          /\ ledger' = Appended(ledger, act[e], "claimed", "executed")
      BY DEF Finish, Record, Typed
    <3> QED
      BY <3>1, LedgerMoves DEF LedgerInv
  <2>2. reported' = reported \cup {act[e]}
    BY DEF Finish
  <2>3. UseLedger => \A a \in reported' : Holds(ledger'[a], done)
    BY <1>3, <2>1, <2>2
  <2> QED
    BY <2>3 DEF ReportedIsExecuted, Holds
<1>5. CASE UNCHANGED reported
  BY <1>3, <1>5 DEF ReportedIsExecuted, Holds
<1>6. (\E e \in Executor : Finish(e)) \/ UNCHANGED reported
  BY OthersLedger DEF ExecNext, execVars, Expire, Execute, CallExecute, Authorize, Trust,
     Persist, Claim, Fails, BlockFailed, Refused, ExecutorCrash
<1> QED
  BY <1>4, <1>5, <1>6

LEMMA StepTokens ==
  ASSUME Inv, ExecNext
  PROVE  TokenInv'
<1> USE DEF Inv
<1>1. /\ \A i \in DOMAIN starts : starts[i] \in Start
      /\ \A i \in DOMAIN starts :
           starts[i].token \in Token /\ starts[i].id \in Action
  <2>1. starts \in Seq(Start) /\ \A x \in Start : x.token \in Token /\ x.id \in Action
    BY DEF Typed, Start
  <2>2. \A i \in DOMAIN starts : starts[i] \in Start
    BY <2>1
  <2> QED
    BY <2>1, <2>2
<1>2. None \notin Action
  BY ApprovalQueueAssumption
<1>3. \A t \in Token : issued[t] \in Action => issued'[t] = issued[t]
  <2>1. CASE QueueStep
    BY <1>2, <2>1, QueueStepKeeps
  <2>2. CASE UNCHANGED issued
    BY <2>2
  <2> QED
    BY <2>1, <2>2, OthersLedger DEF ExecNext, Expire, Execute, CallExecute, Authorize,
       Trust, Persist, Claim, Fails, BlockFailed, Finish, Refused, ExecutorCrash,
       queueVars, trail
<1>4. \A e \in Executor : epc[e] \notin {"idle", "called"} =>
        act[e] \in Action /\ tok[e] \in Token /\ issued'[tok[e]] = act[e]
  BY <1>3 DEF TokenInv, Typed
<1>5. \A e \in Executor : epc'[e] \notin {"idle", "called"} =>
        /\ act'[e] = act[e] /\ tok'[e] = tok[e]
        /\ epc[e] \notin {"idle", "called"} \/ Authorize(e)
  <2>1. CASE UNCHANGED executing
    BY <2>1 DEF executing
  <2>2. ASSUME NEW e \in Executor, Execute(e)
        PROVE  epc'[e] \notin {"idle", "called"} =>
                 /\ act'[e] = act[e] /\ tok'[e] = tok[e]
                 /\ epc[e] \notin {"idle", "called"} \/ Authorize(e)
    BY <2>2 DEF Execute, CallExecute, Authorize, Trust, Persist, Claim, Claiming, Fails,
       BlockFailed, Finish, Refused, ExecutorCrash, Returns, At, args, Typed
  <2>3. CASE \E e \in Executor : Execute(e)
    BY <2>2, <2>3, ExecuteTyped
  <2> QED
    BY <2>1, <2>3, OthersLedger DEF ExecNext, execVars, Expire
<1>6. \A e \in Executor : epc'[e] \notin {"idle", "called"} =>
        issued'[tok'[e]] = act'[e]
  <2> SUFFICES ASSUME NEW e \in Executor, epc'[e] \notin {"idle", "called"}
               PROVE  issued'[tok[e]] = act[e]
    BY <1>5
  <2>1. CASE Authorize(e)
    BY <2>1 DEF Authorize, Valid, queueVars, trail
  <2>2. CASE ~Authorize(e)
    BY <1>4, <1>5, <2>2
  <2> QED
    BY <2>1, <2>2
<1>7. CASE \E e \in Executor : Claim(e)
  <2> PICK e \in Executor : Claim(e)
    BY <1>7
  <2> DEFINE n == Len(starts)
             x == [id |-> act[e], token |-> tok[e]]
  <2>1. /\ \A i \in DOMAIN starts' : i \in DOMAIN starts \/ i = n + 1
        /\ starts'[n + 1] = x
        /\ \A i \in DOMAIN starts : starts'[i] = starts[i]
    BY StartsGrow
  <2> HIDE DEF n
  <2>2. x.id = act[e] /\ x.token = tok[e]
    OBVIOUS
  <2>3. tok[e] \notin claims /\ claims' = claims \cup {tok[e]}
    BY DEF Claim
  <2>4. issued'[tok[e]] = act[e]
    BY <1>4 DEF Claim, Claiming
  <2>5. \A i \in DOMAIN starts :
          starts[i].token \in claims /\ issued'[starts[i].token] = starts[i].id
    BY <1>1, <1>3 DEF TokenInv, ConsumedOnce
  <2> HIDE DEF x
  <2>6. \A i \in DOMAIN starts' :
          starts'[i].token \in claims' /\ issued'[starts'[i].token] = starts'[i].id
    BY <2>1, <2>2, <2>3, <2>4, <2>5
  <2>7. \A i, j \in DOMAIN starts' : starts'[i].token = starts'[j].token => i = j
    BY <2>1, <2>2, <2>3, <2>5 DEF TokenInv, ConsumedOnce
  <2> QED
    BY <1>6, <2>6, <2>7 DEF TokenInv, ConsumedOnce
<1>8. CASE UNCHANGED starts /\ claims \subseteq claims'
  <2>1. \A i \in DOMAIN starts :
          starts[i].token \in claims' /\ issued'[starts[i].token] = starts[i].id
    BY <1>1, <1>3, <1>8 DEF TokenInv, ConsumedOnce
  <2> QED
    BY <1>6, <1>8, <2>1 DEF TokenInv, ConsumedOnce
<1>9. (\E e \in Executor : Claim(e)) \/ (UNCHANGED starts /\ claims \subseteq claims')
  BY OthersLedger DEF ExecNext, execVars, Expire, Execute, CallExecute, Authorize, Trust,
     Persist, Fails, BlockFailed, Finish, Refused, ExecutorCrash
<1> QED
  BY <1>7, <1>8, <1>9

LEMMA StepInv == Inv /\ [ExecNext]_vars => Inv'
<1> SUFFICES ASSUME Inv, [ExecNext]_vars PROVE Inv'
  OBVIOUS
<1>1. CASE ExecNext
  BY <1>1, StepTyped, StepLedger, StepClaims, StepReported, StepTokens DEF Inv
<1>2. CASE UNCHANGED vars
  <2>1. UNCHANGED <<ledger, ledgerOk, claims, epc, act, tok, starts, reported, issued,
                    target>>
    BY <1>2 DEF vars, queueVars, execVars, executing, trail, deciding
  <2>2. Typed' /\ LedgerInv' /\ ReportedIsExecuted'
    BY <2>1 DEF Inv, Typed, LedgerInv, ClaimedStays, ClaimedIn, ReportedIsExecuted
  <2>3. ClaimInv' /\ TokenInv'
    BY <2>1 DEF Inv, ClaimInv, ClaimedIn, TokenInv, ConsumedOnce
  <2> QED
    BY <2>2, <2>3 DEF Inv
<1> QED
  BY <1>1, <1>2

THEOREM ExecutionInvariant == ExecSpec => []Inv
  BY ExecInitInv, StepInv, PTL DEF ExecSpec

-----------------------------------------------------------------------------
\* With the lifecycle ledger an action runs at most once, for any number of
\* executors, proposals, approvals, crashes and reconciliations.
THEOREM RunsOnce == ExecSpec => []OneRunPerAction
<1>1. Inv => OneRunPerAction
  BY DEF Inv, ClaimInv, OneRunPerAction
<1> QED
  BY <1>1, ExecutionInvariant, PTL

\* An approval is consumed by one run, of the action it was issued for; with
\* and without the ledger.
THEOREM TokensConsumedOnce == ExecSpec => []ConsumedOnce
<1>1. Inv => ConsumedOnce
  BY DEF Inv, TokenInv
<1> QED
  BY <1>1, ExecutionInvariant, PTL

\* What is reported as executed was executed according to the ledger.
THEOREM ReportsAreBacked == ExecSpec => []ReportedIsExecuted
<1>1. Inv => ReportedIsExecuted
  BY DEF Inv
<1> QED
  BY <1>1, ExecutionInvariant, PTL

\* The ledger always passes its own verification.
THEOREM LedgerStaysSound == ExecSpec => []LedgerVerifies
<1>1. Inv => LedgerVerifies
  BY DEF Inv, LedgerInv, LedgerVerifies
<1> QED
  BY <1>1, ExecutionInvariant, PTL

\* No executor takes up an action that was ever claimed, by it or another one.
THEOREM ClaimedIsNotReplayed == ExecSpec => CrashNeverReplays
<1> DEFINE NoReplay == UseLedger =>
              \A e \in Executor :
                epc[e] \notin TakenUp /\ epc'[e] \in TakenUp
                  => ~ClaimedIn(ledger, act[e])
<1>1. Inv /\ [ExecNext]_vars => [NoReplay]_vars
  <2> SUFFICES ASSUME Inv, ExecNext, UseLedger, NEW e \in Executor,
                      epc[e] \notin TakenUp, epc'[e] \in TakenUp
               PROVE  ~ClaimedIn(ledger, act[e])
    OBVIOUS
  <2>1. PICK f \in Executor : Persist(f) \/ Claim(f)
    BY OnlyPersistAndClaim
  <2>2. e = f
    BY <2>1 DEF Persist, Claim, At, Inv, Typed
  <2>3. ~Claim(e)
    BY DEF Claim, Claiming, TakenUp
  <2>4. /\ act[e] \in Action /\ CanRecord(act[e], "approved", "claimed")
        /\ ledger' = Appended(ledger, act[e], "approved", "claimed")
    BY <2>1, <2>2, <2>3 DEF Persist, At, Record, Inv, Typed
  <2> QED
    BY <2>4, LedgerMoves DEF Inv, LedgerInv
<1> QED
  BY <1>1, ExecutionInvariant, PTL DEF ExecSpec, CrashNeverReplays

-----------------------------------------------------------------------------
\* The audit log and the tokens.

\* The approvals of an action in the log, the tokens given for it, and the
\* deciders that have logged its approval and are about to draw a token.
Approvals(a) == {i \in DOMAIN audit : audit[i] = [id |-> a, decision |-> "approved"]}
Given(a) == {t \in Token : issued[t] = a}
Drawing(a) == {d \in Decider : dpc[d] = "audited" /\ target[d] = a}

TrailTyped ==
  /\ audit \in Seq([id : Action, decision : Decision])
  /\ issued \in [Token -> Action \cup {None}]
  /\ dpc \in [Decider -> {"idle", "called", "loaded", "written", "audited"}]
  /\ target \in [Decider -> Action \cup {None}]
  /\ ruling \in [Decider -> Decision \cup {None}]
  /\ \A d \in Decider : dpc[d] # "idle" => target[d] \in Action /\ ruling[d] \in Decision

\* Each approval in the log pays for one token, given or about to be drawn.
PaidFor ==
  \A a \in Action :
    /\ IsFiniteSet(Given(a)) /\ IsFiniteSet(Drawing(a))
    /\ Cardinality(Given(a)) + Cardinality(Drawing(a)) <= Cardinality(Approvals(a))

LEMMA TrailInit == Init => TrailTyped /\ PaidFor
<1> SUFFICES ASSUME Init PROVE TrailTyped /\ PaidFor
  OBVIOUS
<1>1. TrailTyped
  BY DEF Init, TrailTyped
<1>2. ASSUME NEW a \in Action
      PROVE  Given(a) = {} /\ Drawing(a) = {} /\ Approvals(a) = {}
  BY ApprovalQueueAssumption DEF Init, Given, Drawing, Approvals
<1>3. PaidFor
  BY <1>2, FS_EmptySet DEF PaidFor
<1> QED
  BY <1>1, <1>3

\* The approvals counted are some of the log's positions.
LEMMA ApprovalsFinite ==
  ASSUME TrailTyped, NEW a \in Action
  PROVE  IsFiniteSet(Approvals(a)) /\ Cardinality(Approvals(a)) \in Nat
<1>1. DOMAIN audit = 1..Len(audit) /\ Len(audit) \in Int /\ 1 \in Int
  BY DEF TrailTyped
<1>2. IsFiniteSet(1..Len(audit)) /\ Approvals(a) \in SUBSET (1..Len(audit))
  BY <1>1, FS_Interval DEF Approvals
<1> QED
  BY <1>2, FS_Subset, FS_CardinalityType

\* Fewer deciders drawing, the rest as it was.
LEMMA FewerDrawing ==
  ASSUME PaidFor, TrailTyped, audit' = audit, issued' = issued,
         \A a \in Action : Drawing(a)' \subseteq Drawing(a)
  PROVE  PaidFor'
<1> SUFFICES ASSUME NEW a \in Action
             PROVE  /\ IsFiniteSet(Given(a)') /\ IsFiniteSet(Drawing(a)')
                    /\ Cardinality(Given(a)') + Cardinality(Drawing(a)')
                         <= Cardinality(Approvals(a)')
  BY DEF PaidFor
<1>1. Given(a)' = Given(a) /\ Approvals(a)' = Approvals(a)
  BY DEF Given, Approvals
<1>2. /\ IsFiniteSet(Given(a)) /\ IsFiniteSet(Drawing(a))
      /\ Cardinality(Given(a)) + Cardinality(Drawing(a)) <= Cardinality(Approvals(a))
  BY DEF PaidFor
<1>3. /\ IsFiniteSet(Drawing(a)') /\ Cardinality(Drawing(a)') <= Cardinality(Drawing(a))
      /\ Cardinality(Drawing(a)') \in Nat /\ Cardinality(Drawing(a)) \in Nat
      /\ Cardinality(Given(a)) \in Nat
  BY <1>2, FS_Subset, FS_CardinalityType
<1>4. Cardinality(Approvals(a)) \in Nat
  BY ApprovalsFinite
<1> QED
  BY <1>1, <1>2, <1>3, <1>4

\* append_decision: one approval more in the log, at most one decider more.
LEMMA AuditPays ==
  ASSUME PaidFor, TrailTyped, TrailTyped', NEW d \in Decider, Audit(d)
  PROVE  PaidFor'
<1> DEFINE n == Len(audit)
           x == [id |-> target[d], decision |-> ruling[d]]
<1>1. /\ dpc[d] = "written" /\ target[d] \in Action /\ ruling[d] \in Decision
      /\ x \in [id : Action, decision : Decision]
  BY DEF Audit, TrailTyped
<1>2. /\ n \in Nat /\ DOMAIN audit = 1..n /\ DOMAIN audit' = 1..(n + 1)
      /\ audit'[n + 1] = x /\ \A i \in 1..n : audit'[i] = audit[i]
  BY <1>1 DEF Audit, TrailTyped
<1>3. issued' = issued
  BY DEF Audit
<1> SUFFICES ASSUME NEW a \in Action
             PROVE  /\ IsFiniteSet(Given(a)') /\ IsFiniteSet(Drawing(a)')
                    /\ Cardinality(Given(a)') + Cardinality(Drawing(a)')
                         <= Cardinality(Approvals(a)')
  BY DEF PaidFor
<1>4. Given(a)' = Given(a)
  BY <1>3 DEF Given
<1>5. /\ IsFiniteSet(Given(a)) /\ IsFiniteSet(Drawing(a))
      /\ Cardinality(Given(a)) + Cardinality(Drawing(a)) <= Cardinality(Approvals(a))
      /\ Cardinality(Given(a)) \in Nat /\ Cardinality(Drawing(a)) \in Nat
  BY FS_CardinalityType DEF PaidFor
<1>6. IsFiniteSet(Approvals(a)) /\ Cardinality(Approvals(a)) \in Nat
  BY ApprovalsFinite
<1>7. CASE ruling[d] = "approved" /\ target[d] = a
  <2>1. Approvals(a)' = Approvals(a) \cup {n + 1} /\ n + 1 \notin Approvals(a)
    BY <1>2, <1>7 DEF Approvals
  <2>2. Cardinality(Approvals(a)') = Cardinality(Approvals(a)) + 1
    BY <1>6, <2>1, FS_AddElement
  <2>3. Drawing(a)' = Drawing(a) \cup {d} /\ d \notin Drawing(a)
    BY <1>1, <1>7 DEF Audit, Drawing, TrailTyped
  <2>4. /\ IsFiniteSet(Drawing(a)')
        /\ Cardinality(Drawing(a)') = Cardinality(Drawing(a)) + 1
    BY <1>5, <2>3, FS_AddElement
  <2> QED
    BY <1>4, <1>5, <1>6, <2>2, <2>4
<1>8. CASE ~(ruling[d] = "approved" /\ target[d] = a)
  <2>1. Approvals(a)' = Approvals(a)
    BY <1>2, <1>8 DEF Approvals
  <2>2. Drawing(a)' \subseteq Drawing(a)
    BY <1>1, <1>8 DEF Audit, Idle, Drawing, TrailTyped
  <2>3. /\ IsFiniteSet(Drawing(a)') /\ Cardinality(Drawing(a)') \in Nat
        /\ Cardinality(Drawing(a)') <= Cardinality(Drawing(a))
    BY <1>5, <2>2, FS_Subset, FS_CardinalityType
  <2> QED
    BY <1>4, <1>5, <1>6, <2>1, <2>3
<1> QED
  BY <1>7, <1>8

\* A token is drawn: the decider that was about to, is so no more.
LEMMA IssuePays ==
  ASSUME PaidFor, TrailTyped, NEW d \in Decider, NEW t \in Token, Issue(d, t)
  PROVE  PaidFor'
<1>1. dpc[d] = "audited" /\ target[d] \in Action /\ issued[t] = None
  BY DEF Issue, TrailTyped
<1>2. target[d] # None
  BY <1>1, ApprovalQueueAssumption
<1> SUFFICES ASSUME NEW a \in Action
             PROVE  /\ IsFiniteSet(Given(a)') /\ IsFiniteSet(Drawing(a)')
                    /\ Cardinality(Given(a)') + Cardinality(Drawing(a)')
                         <= Cardinality(Approvals(a)')
  BY DEF PaidFor
<1>3. a # None
  BY ApprovalQueueAssumption
<1>4. Approvals(a)' = Approvals(a)
  BY DEF Issue, Approvals
<1>5. /\ IsFiniteSet(Given(a)) /\ IsFiniteSet(Drawing(a))
      /\ Cardinality(Given(a)) + Cardinality(Drawing(a)) <= Cardinality(Approvals(a))
      /\ Cardinality(Given(a)) \in Nat /\ Cardinality(Drawing(a)) \in Nat
  BY FS_CardinalityType DEF PaidFor
<1>6. Cardinality(Approvals(a)) \in Nat
  BY ApprovalsFinite
<1>7. Drawing(a)' = Drawing(a) \ {d}
  BY <1>1, <1>3 DEF Issue, Idle, Drawing, TrailTyped
<1>8. CASE target[d] = a
  <2>1. Given(a)' = Given(a) \cup {t} /\ t \notin Given(a) /\ d \in Drawing(a)
    BY <1>1, <1>3, <1>8 DEF Issue, Given, Drawing, TrailTyped
  <2>2. /\ IsFiniteSet(Given(a)') /\ IsFiniteSet(Drawing(a)')
        /\ Cardinality(Given(a)') = Cardinality(Given(a)) + 1
        /\ Cardinality(Drawing(a)') = Cardinality(Drawing(a)) - 1
    BY <1>5, <1>7, <2>1, FS_AddElement, FS_RemoveElement
  <2> QED
    BY <1>4, <1>5, <1>6, <2>2
<1>9. CASE target[d] # a
  <2>1. Given(a)' = Given(a) /\ Drawing(a)' = Drawing(a)
    BY <1>1, <1>3, <1>7, <1>9 DEF Issue, Given, Drawing, TrailTyped
  <2> QED
    BY <1>4, <1>5, <2>1
<1> QED
  BY <1>8, <1>9

LEMMA TrailStep ==
  ASSUME PaidFor, TrailTyped, QueueStep \/ UNCHANGED queueVars
  PROVE  TrailTyped' /\ PaidFor'
<1> USE DEF trail, deciding
<1>1. CASE \E d \in Decider, t \in Token : Issue(d, t)
  <2>1. PICK d \in Decider, t \in Token : Issue(d, t)
    BY <1>1
  <2>2. issued' \in [Token -> Action \cup {None}]
    BY <2>1 DEF Issue, TrailTyped
  <2>3. Idle(d) /\ audit' = audit
    BY <2>1 DEF Issue
  <2>4. TrailTyped'
    BY <2>2, <2>3 DEF Idle, TrailTyped
  <2> QED
    BY <2>1, <2>4, IssuePays
<1>2. CASE \E d \in Decider : Audit(d)
  <2>1. PICK d \in Decider : Audit(d)
    BY <1>2
  <2>2. [id |-> target[d], decision |-> ruling[d]] \in [id : Action, decision : Decision]
    BY <2>1 DEF Audit, TrailTyped
  <2>3. audit' \in Seq([id : Action, decision : Decision])
    BY <2>1, <2>2 DEF Audit, TrailTyped
  <2>4. issued' = issued
    BY <2>1 DEF Audit
  <2>5. \/ /\ dpc' = [dpc EXCEPT ![d] = "audited"] /\ dpc[d] = "written"
           /\ target' = target /\ ruling' = ruling
        \/ /\ dpc' = [dpc EXCEPT ![d] = "idle"]
           /\ target' = [target EXCEPT ![d] = None]
           /\ ruling' = [ruling EXCEPT ![d] = None]
    BY <2>1 DEF Audit, Idle
  <2>6. TrailTyped'
    BY <2>3, <2>4, <2>5 DEF TrailTyped
  <2> QED
    BY <2>1, <2>6, AuditPays
<1>3. ASSUME audit' = audit, issued' = issued, TrailTyped',
             \A d \in Decider : dpc'[d] = "audited" => dpc[d] = "audited"
                                                       /\ target'[d] = target[d]
      PROVE TrailTyped' /\ PaidFor'
  BY <1>3, FewerDrawing DEF Drawing
<1>4. CASE \E d \in Decider, a \in Action, v \in Decision : Call(d, a, v)
  BY <1>3, <1>4 DEF Call, TrailTyped
<1>5. CASE \E d \in Decider :
             Refuse(d) \/ AuditRefused(d) \/ DeciderCrash(d)
  BY <1>3, <1>5 DEF Refuse, AuditRefused, DeciderCrash, Idle, TrailTyped
<1>6. CASE \E d \in Decider : Load(d) \/ Replace(d)
  BY <1>3, <1>6 DEF Load, Replace, TrailTyped
<1>7. CASE UNCHANGED <<trail, deciding>>
  BY <1>3, <1>7 DEF TrailTyped
<1>8. CASE \/ UNCHANGED queueVars \/ \E a \in Action : GrowOld(a)
           \/ \E p \in Proposer :
                \/ \E a \in Action : Propose(p, a)
                \/ Truncate(p) \/ Write(p) \/ WriteOrphan(p) \/ ProposerCrash(p)
  <2>1. UNCHANGED <<trail, deciding>>
    BY <1>8 DEF queueVars, GrowOld, Propose, Truncate, Write, WriteOrphan, ProposerCrash
  <2> QED
    BY <1>7, <2>1
<1> QED
  BY <1>1, <1>2, <1>4, <1>5, <1>6, <1>8 DEF QueueStep

\* No token without an audited approval of its own, for any number of deciders
\* that race or crash between audit log and record (create_approval), with the
\* executors beside them.
THEOREM TokensHaveApprovals == ExecSpec => []TokensAreAudited
<1>1. ExecInit => TrailTyped /\ PaidFor
  BY TrailInit DEF ExecInit
<1>2. TrailTyped /\ PaidFor /\ [ExecNext]_vars => TrailTyped' /\ PaidFor'
  <2>1. [ExecNext]_vars => QueueStep \/ UNCHANGED queueVars
    BY DEF ExecNext, vars, Gate, Block, Reconcile, Expire, Execute, CallExecute,
       Authorize, Trust, Persist, Claim, Fails, BlockFailed, Finish, Refused,
       ExecutorCrash
  <2> QED
    BY <2>1, TrailStep
<1>3. TrailTyped /\ PaidFor => TokensAreAudited
  <2> SUFFICES ASSUME TrailTyped, PaidFor, NEW a \in Action
               PROVE  Cardinality(Given(a)) <= Cardinality(Approvals(a))
    BY DEF TokensAreAudited, Given, Approvals, Audited
  <2> QED
    BY ApprovalsFinite, FS_CardinalityType DEF PaidFor
<1> QED
  BY <1>1, <1>2, <1>3, PTL DEF ExecSpec

-----------------------------------------------------------------------------
\* A set of numbers has a least one, and a loop that keeps some of the entries
\* of a list computes something.

LEMMA LeastNatural ==
  ASSUME NEW T \in SUBSET Nat, T # {}
  PROVE  \E x \in T : \A y \in T : x <= y
<1>1. PICK x \in T : \A y \in T : <<y, x>> \notin OpToRel(<, Nat)
  BY NatLessThanWellFounded, WFMin
<1>2. \A n, m \in Nat : n < m => <<n, m>> \in OpToRel(<, Nat)
  <2>1. OpToRel(<, Nat) = {pair \in Nat \X Nat : pair[1] < pair[2]}
    BY Zenon DEF OpToRel
  <2>2. \A n, m \in Nat : n < m => <<n, m>> \in {pair \in Nat \X Nat : pair[1] < pair[2]}
    OBVIOUS
  <2> QED
    BY <2>1, <2>2, Zenon
<1>3. \A y \in T : ~(y < x)
  BY <1>1, <1>2, Zenon
<1> QED
  BY <1>3

\* What a loop that keeps the entries of s at some places has after n of them.
Sieve(s, keep, n, f) ==
  f = [i \in 0..n |-> IF i = 0 THEN <<>>
                      ELSE IF i \in keep THEN Append(f[i - 1], s[i]) ELSE f[i - 1]]

LEMMA SieveExists ==
  ASSUME NEW s, NEW keep, NEW N \in Nat
  PROVE  \E f : Sieve(s, keep, N, f)
<1> DEFINE Bad == {n \in Nat : ~ \E f : Sieve(s, keep, n, f)}
<1> SUFFICES ASSUME Bad # {} PROVE FALSE
  OBVIOUS
<1>0. Bad \in SUBSET Nat
  OBVIOUS
<1> HIDE DEF Bad
<1>1. PICK m \in Bad : \A k \in Bad : m <= k
  BY <1>0, LeastNatural
<1> USE DEF Bad
<1>2. m # 0
  <2> DEFINE f == [n \in 0..0 |-> <<>>]
  <2>1. Sieve(s, keep, 0, f)
    BY DEF Sieve
  <2> QED
    BY <2>1
<1>3. m - 1 \in Nat /\ m - 1 \notin Bad
  BY <1>1, <1>2
<1>4. PICK g : Sieve(s, keep, m - 1, g)
  BY <1>3
<1> DEFINE next(n) == IF n \in keep THEN Append(g[n - 1], s[n]) ELSE g[n - 1]
           f == [n \in 0..m |-> IF n = 0 THEN <<>> ELSE next(n)]
<1>5. ASSUME NEW n \in 0..(m - 1) PROVE f[n] = g[n]
  <2>1. n \in 0..m /\ f[n] = IF n = 0 THEN <<>> ELSE next(n)
    BY <1>3
  <2>2. g[n] = IF n = 0 THEN <<>> ELSE next(n)
    BY <1>4 DEF Sieve
  <2> QED
    BY <2>1, <2>2
<1>6. Sieve(s, keep, m, f)
  <2>1. ASSUME NEW n \in 0..m
        PROVE  f[n] = IF n = 0 THEN <<>>
                      ELSE IF n \in keep THEN Append(f[n - 1], s[n]) ELSE f[n - 1]
    <3>1. CASE n = 0
      BY <3>1
    <3>2. CASE n # 0
      <4>1. f[n - 1] = g[n - 1]
        <5>1. n - 1 \in 0..(m - 1)
          BY <1>3, <3>2
        <5> HIDE DEF f
        <5> QED
          BY <5>1, <1>5
      <4>2. f[n] = next(n)
        BY <3>2
      <4> QED
        BY <4>1, <4>2, <3>2
    <3> QED
      BY <3>1, <3>2
  <2> QED
    BY <2>1 DEF Sieve
<1> QED
  BY <1>1, <1>6

-----------------------------------------------------------------------------
\* The lists of the queue file. What counts is how many items are undecided.
Open(s) == {i \in DOMAIN s : s[i] \notin Decision}
Undecided(s) == Cardinality(Open(s))

LEMMA OpenFinite ==
  ASSUME NEW s \in Seq(Status)
  PROVE  IsFiniteSet(Open(s)) /\ Undecided(s) \in Nat
<1>1. DOMAIN s = 1..Len(s) /\ Len(s) \in Int /\ 1 \in Int
  OBVIOUS
<1>2. IsFiniteSet(1..Len(s)) /\ Open(s) \in SUBSET (1..Len(s))
  BY <1>1, FS_Interval DEF Open
<1> QED
  BY <1>2, FS_Subset, FS_CardinalityType DEF Undecided

LEMMA UndecidedAppend ==
  ASSUME NEW s \in Seq(Status), NEW x \in Status
  PROVE  /\ Append(s, x) \in Seq(Status)
         /\ Undecided(Append(s, x)) = Undecided(s) + (IF x \in Decision THEN 0 ELSE 1)
<1> DEFINE n == Len(s)
           t == Append(s, x)
<1>1. /\ n \in Nat /\ DOMAIN s = 1..n /\ t \in Seq(Status) /\ DOMAIN t = 1..(n + 1)
      /\ t[n + 1] = x /\ \A i \in 1..n : t[i] = s[i]
  OBVIOUS
<1> HIDE DEF n, t
<1>2. IsFiniteSet(Open(s)) /\ Undecided(s) \in Nat
  BY OpenFinite
<1>3. CASE x \in Decision
  <2>1. Open(t) = Open(s)
    BY <1>1, <1>3 DEF Open
  <2> QED
    BY <1>1, <1>2, <1>3, <2>1 DEF Undecided, t
<1>4. CASE x \notin Decision
  <2>1. Open(t) = Open(s) \cup {n + 1} /\ n + 1 \notin Open(s)
    BY <1>1, <1>4 DEF Open
  <2>2. Cardinality(Open(t)) = Cardinality(Open(s)) + 1
    BY <1>2, <2>1, FS_AddElement
  <2> QED
    BY <1>1, <1>4, <2>2 DEF Undecided, t
<1> QED
  BY <1>3, <1>4

LEMMA UndecidedConcat ==
  ASSUME NEW s \in Seq(Status), NEW t \in Seq(Status)
  PROVE  /\ s \o t \in Seq(Status)
         /\ Undecided(s \o t) = Undecided(s) + Undecided(t)
<1> DEFINE n == Len(s)
           m == Len(t)
           u == s \o t
           h == [i \in Open(t) |-> n + i]
           High == {n + i : i \in Open(t)}
<1>1. /\ n \in Nat /\ DOMAIN s = 1..n /\ m \in Nat /\ DOMAIN t = 1..m
      /\ u \in Seq(Status) /\ DOMAIN u = 1..(n + m)
      /\ \A i \in 1..n : u[i] = s[i]
      /\ \A i \in 1..m : u[n + i] = t[i]
  OBVIOUS
<1> HIDE DEF n, m, u
<1>2. IsFiniteSet(Open(s)) /\ IsFiniteSet(Open(t))
  BY OpenFinite
<1>3. \A i \in Open(t) : i \in 1..m /\ n + i \in 1..(n + m)
  BY <1>1 DEF Open
<1>4. h \in Bijection(Open(t), High)
  <2>1. \A i, j \in Open(t) : n + i = n + j => i = j
    BY <1>1, <1>3
  <2>2. \A i, j \in Open(t) : h[i] = h[j] => i = j
    BY <2>1
  <2> QED
    BY <2>2 DEF Bijection, Injection, Surjection, IsInjective
<1>5. IsFiniteSet(High) /\ Cardinality(High) = Cardinality(Open(t))
  BY <1>2, <1>4, FS_Bijection DEF ExistsBijection
<1>6. Open(u) = Open(s) \cup High
  <2>1. ASSUME NEW i \in Open(u) PROVE i \in Open(s) \cup High
    <3>1. i \in 1..(n + m) /\ u[i] \notin Decision
      BY <1>1 DEF Open
    <3>2. CASE i \in 1..n
      BY <1>1, <3>1, <3>2 DEF Open
    <3>3. CASE i \notin 1..n
      <4>1. i - n \in 1..m /\ n + (i - n) = i
        BY <1>1, <3>1, <3>3
      <4>2. t[i - n] = u[i]
        BY <1>1, <4>1
      <4> QED
        BY <1>1, <3>1, <4>1, <4>2 DEF Open
    <3> QED
      BY <3>2, <3>3
  <2>2. ASSUME NEW i \in Open(s) PROVE i \in Open(u)
    BY <1>1 DEF Open
  <2>3. ASSUME NEW i \in Open(t) PROVE n + i \in Open(u)
    BY <1>1, <1>3 DEF Open
  <2> QED
    BY <2>1, <2>2, <2>3
<1>7. Open(s) \cap High = {}
  <2>1. \A i \in Open(s) : i <= n
    BY <1>1 DEF Open
  <2>2. \A i \in High : ~(i <= n)
    BY <1>1, <1>3
  <2> QED
    BY <2>1, <2>2
<1> HIDE DEF High
<1>8. Cardinality(Open(u)) = Cardinality(Open(s)) + Cardinality(High)
  <2>1. Cardinality(Open(s) \cup High)
          = Cardinality(Open(s)) + Cardinality(High) - Cardinality(Open(s) \cap High)
    BY <1>2, <1>5, FS_Union
  <2>2. Cardinality(Open(s) \cap High) = 0
    BY <1>7, FS_EmptySet
  <2>3. Cardinality(Open(s)) \in Nat /\ Cardinality(High) \in Nat
    BY <1>2, <1>5, FS_CardinalityType
  <2> QED
    BY <1>6, <2>1, <2>2, <2>3
<1> QED
  BY <1>1, <1>5, <1>8 DEF Undecided, u

LEMMA ChosenIs ==
  ASSUME NEW s \in Seq(Status), NEW S \in SUBSET Status
  PROVE  /\ Chosen(s, S) \in Seq(S)
         /\ Undecided(Chosen(s, S)) = Cardinality({i \in Open(s) : s[i] \in S})
<1> DEFINE N == Len(s)
           keep == {i \in 1..N : s[i] \in S}
           Walks(g) == g = [n \in 0..N |->
                              IF n = 0 THEN <<>>
                              ELSE IF s[n] \in S THEN Append(g[n - 1], s[n]) ELSE g[n - 1]]
           f == CHOOSE g : Walks(g)
           upTo(n) == {i \in 1..n : s[i] \in S \ Decision}
           Bad == {n \in 0..N : ~(/\ f[n] \in Seq(S)
                                  /\ Undecided(f[n]) = Cardinality(upTo(n)))}
<1>1. N \in Nat /\ DOMAIN s = 1..N
  OBVIOUS
<1>2. Chosen(s, S) = f[N]
  BY DEF Chosen
<1>3. Sieve(s, keep, N, f)
  <2>1. PICK g : Sieve(s, keep, N, g)
    BY <1>1, SieveExists
  <2>2. \A n \in 0..N : n # 0 => (n \in keep <=> s[n] \in S)
    BY <1>1
  <2> HIDE DEF keep, N
  <2>3. [n \in 0..N |-> IF n = 0 THEN <<>>
                        ELSE IF n \in keep THEN Append(g[n - 1], s[n]) ELSE g[n - 1]]
          = [n \in 0..N |-> IF n = 0 THEN <<>>
                            ELSE IF s[n] \in S THEN Append(g[n - 1], s[n]) ELSE g[n - 1]]
    BY <2>2
  <2>4. Walks(g)
    BY <2>1, <2>3 DEF Sieve
  <2>5. Walks(f)
    BY <2>4, Zenon
  <2>6. \A n \in 0..N : f[n] = IF n = 0 THEN <<>>
                               ELSE IF n \in keep THEN Append(f[n - 1], s[n]) ELSE f[n - 1]
    <3> HIDE DEF f
    <3> QED
      BY <2>2, <2>5
  <2>7. f = [n \in 0..N |-> f[n]]
    <3> HIDE DEF f
    <3> QED
      BY <2>5
  <2> HIDE DEF f, Walks
  <2> QED
    BY <2>6, <2>7 DEF Sieve
<1> HIDE DEF N, keep, f, Bad
<1>4. \A n \in 0..N : f[n] = IF n = 0 THEN <<>>
                             ELSE IF n \in keep THEN Append(f[n - 1], s[n]) ELSE f[n - 1]
  BY <1>3 DEF Sieve
<1>5. Bad = {}
  <2> SUFFICES ASSUME Bad # {} PROVE FALSE
    OBVIOUS
  <2>1. Bad \in SUBSET Nat
    BY <1>1 DEF Bad
  <2>2. PICK m \in Bad : \A k \in Bad : m <= k
    BY <2>1, LeastNatural
  <2>3. m \in 0..N /\ ~(f[m] \in Seq(S) /\ Undecided(f[m]) = Cardinality(upTo(m)))
    BY <2>2 DEF Bad
  <2>4. m # 0
    <3>1. ASSUME m = 0 PROVE f[m] = <<>> /\ upTo(m) = {}
      BY <1>4, <2>3, <3>1
    <3>2. <<>> \in Seq(S) /\ Open(<<>>) = {}
      BY DEF Open
    <3> QED
      BY <2>3, <3>1, <3>2 DEF Undecided
  <2>5. m \in 1..N /\ m - 1 \in 0..N /\ ~(m <= m - 1)
    BY <1>1, <2>3, <2>4
  <2>6. m - 1 \notin Bad
    BY <2>2, <2>5
  <2>7. PICK r : r = f[m - 1]
    OBVIOUS
  <2>8. r \in Seq(S) /\ Undecided(r) = Cardinality(upTo(m - 1))
    BY <2>5, <2>6, <2>7 DEF Bad
  <2>9. f[m] = IF s[m] \in S THEN Append(r, s[m]) ELSE r
    BY <1>4, <2>4, <2>5, <2>7 DEF keep
  <2>10. r \in Seq(Status) /\ s[m] \in Status
    BY <1>1, <2>5, <2>8
  <2>11. CASE s[m] \notin S
    <3>1. upTo(m) = upTo(m - 1)
      BY <2>5, <2>11
    <3> QED
      BY <2>3, <2>8, <2>9, <2>11, <3>1
  <2>12. CASE s[m] \in S
    <3>1. Append(r, s[m]) \in Seq(S)
      BY <2>8, <2>12
    <3>2. Undecided(Append(r, s[m]))
            = Undecided(r) + (IF s[m] \in Decision THEN 0 ELSE 1)
      BY <2>10, UndecidedAppend
    <3>3. IsFiniteSet(upTo(m - 1)) /\ Cardinality(upTo(m - 1)) \in Nat
      <4>1. m - 1 \in Int /\ 1 \in Int
        BY <2>5
      <4>2. IsFiniteSet(1..(m - 1)) /\ upTo(m - 1) \in SUBSET (1..(m - 1))
        BY <4>1, FS_Interval
      <4> QED
        BY <4>2, FS_Subset, FS_CardinalityType
    <3>4. CASE s[m] \in Decision
      <4>1. upTo(m) = upTo(m - 1)
        BY <2>5, <3>4
      <4>2. Undecided(Append(r, s[m])) = Undecided(r)
        BY <2>8, <3>2, <3>3, <3>4
      <4> QED
        BY <2>3, <2>8, <2>9, <2>12, <3>1, <4>1, <4>2
    <3>5. CASE s[m] \notin Decision
      <4>1. upTo(m) = upTo(m - 1) \cup {m} /\ m \notin upTo(m - 1)
        BY <2>5, <2>12, <3>5
      <4>2. Cardinality(upTo(m)) = Cardinality(upTo(m - 1)) + 1
        BY <3>3, <4>1, FS_AddElement
      <4> QED
        BY <2>3, <2>8, <2>9, <2>12, <3>1, <3>2, <3>5, <4>2
    <3> QED
      BY <3>4, <3>5
  <2> QED
    BY <2>11, <2>12
<1>6. f[N] \in Seq(S) /\ Undecided(f[N]) = Cardinality(upTo(N))
  <2>1. N \in 0..N /\ N \notin Bad
    BY <1>1, <1>5
  <2> QED
    BY <2>1 DEF Bad
<1>7. upTo(N) = {i \in Open(s) : s[i] \in S}
  BY <1>1 DEF Open
<1> QED
  BY <1>2, <1>6, <1>7
\* The undecided items with a status in S, and the others, are all of them.
LEMMA SettledIs ==
  ASSUME NEW s \in Seq(Status)
  PROVE  /\ Settled(s) \in Seq(Status)
         /\ Undecided(Settled(s)) <= Undecided(s)
         /\ Has(s, "pending") => Undecided(Settled(s)) + 1 <= Undecided(s)
<1> DEFINE R == {i \in Open(s) : s[i] \in Status \ {"pending"}}
<1>1. /\ Settled(s) \in Seq(Status \ {"pending"})
      /\ Undecided(Settled(s)) = Cardinality(R)
  BY ChosenIs DEF Settled
<1>2. IsFiniteSet(Open(s)) /\ Cardinality(Open(s)) \in Nat
  BY OpenFinite DEF Undecided
<1>3. /\ IsFiniteSet(R) /\ Cardinality(R) \in Nat
      /\ Cardinality(R) <= Cardinality(Open(s))
      /\ Cardinality(R) = Cardinality(Open(s)) => R = Open(s)
  <2>1. R \in SUBSET Open(s)
    OBVIOUS
  <2> HIDE DEF R
  <2> QED
    BY <1>2, <2>1, FS_Subset, FS_CardinalityType
<1>4. Has(s, "pending") => R # Open(s)
  BY DEF Has, Open, Decision
<1> HIDE DEF R
<1>5. Settled(s) \in Seq(Status)
  BY <1>1
<1> QED
  BY <1>1, <1>2, <1>3, <1>4, <1>5 DEF Undecided

LEMMA PendingFirstIs ==
  ASSUME NEW s \in Seq(Status)
  PROVE  /\ PendingFirst(s) \in Seq(Status)
         /\ Undecided(PendingFirst(s)) = Undecided(s)
         /\ Has(s, "pending") => Has(PendingFirst(s), "pending")
<1> DEFINE P == {i \in Open(s) : s[i] \in {"pending"}}
           R == {i \in Open(s) : s[i] \in Status \ {"pending"}}
<1>0. PICK waiting, rest : waiting = Chosen(s, {"pending"}) /\ rest = Settled(s)
  OBVIOUS
<1>1. {"pending"} \in SUBSET Status
  BY DEF Status
<1>2. waiting \in Seq({"pending"}) /\ Undecided(waiting) = Cardinality(P)
  BY <1>0, <1>1, ChosenIs
<1>3. rest \in Seq(Status) /\ Undecided(rest) = Cardinality(R)
  BY <1>0, ChosenIs, SettledIs DEF Settled
<1>4. waiting \in Seq(Status)
  BY <1>1, <1>2
<1>5. /\ PendingFirst(s) = waiting \o rest
      /\ waiting \o rest \in Seq(Status)
      /\ Undecided(waiting \o rest) = Undecided(waiting) + Undecided(rest)
  BY <1>0, <1>3, <1>4, UndecidedConcat DEF PendingFirst
<1>6. P \cup R = Open(s) /\ P \cap R = {} /\ P \in SUBSET Open(s) /\ R \in SUBSET Open(s)
  BY DEF Open
<1>7. IsFiniteSet(Open(s))
  BY OpenFinite
<1> HIDE DEF P, R
<1>8. /\ IsFiniteSet(P) /\ IsFiniteSet(R)
      /\ Cardinality(P) \in Nat /\ Cardinality(R) \in Nat
  BY <1>6, <1>7, FS_Subset, FS_CardinalityType
<1>9. Cardinality(Open(s)) = Cardinality(P) + Cardinality(R)
  <2>1. Cardinality(P \cup R) = Cardinality(P) + Cardinality(R) - Cardinality(P \cap R)
    BY <1>8, FS_Union
  <2>2. Cardinality(P \cap R) = 0
    BY <1>6, FS_EmptySet
  <2>3. Cardinality(P \cup R) = Cardinality(P) + Cardinality(R)
    BY <1>8, <2>1, <2>2
  <2> QED
    BY <1>6, <2>3
<1>10. ASSUME Has(s, "pending") PROVE Has(waiting \o rest, "pending")
  <2>1. P # {}
    BY <1>10 DEF Has, P, Open, Decision
  <2>2. Cardinality(P) # 0
    BY <1>8, <2>1, FS_EmptySet
  <2>3. waiting # <<>>
    <3>1. Open(<<>>) = {}
      BY DEF Open
    <3> QED
      BY <1>2, <2>2, <3>1, FS_EmptySet DEF Undecided
  <2>4. 1 \in DOMAIN waiting /\ waiting[1] = "pending"
    BY <1>2, <2>3
  <2>5. 1 \in DOMAIN (waiting \o rest) /\ (waiting \o rest)[1] = "pending"
    BY <1>3, <1>4, <2>4
  <2> QED
    BY <2>5 DEF Has
<1> QED
  BY <1>2, <1>3, <1>5, <1>9, <1>10 DEF Undecided

LEMMA UnexpiredIs ==
  ASSUME NEW q \in QueueFile
  PROVE  /\ Unexpired(q) \in QueueFile
         /\ \A b \in Action : Undecided(Unexpired(q)[b]) = Undecided(q[b])
<1>1. ASSUME NEW b \in Action
      PROVE  /\ Unexpired(q)[b] \in Seq(Status)
             /\ Open(Unexpired(q)[b]) = Open(q[b])
  <2> DEFINE s == q[b]
             t == [i \in DOMAIN s |-> IF s[i] = "stale" THEN "blocked" ELSE s[i]]
  <2>1. Unexpired(q)[b] = t
    BY DEF Unexpired
  <2>2. s \in Seq(Status)
    BY DEF QueueFile
  <2> HIDE DEF s
  <2>3. DOMAIN s = 1..Len(s) /\ Len(s) \in Nat /\ \A i \in DOMAIN s : s[i] \in Status
    BY <2>2
  <2>4. t \in Seq(Status)
    BY <2>3 DEF Status
  <2>5. Open(t) = Open(s)
    BY <2>3 DEF Open, Status, Decision
  <2> QED
    BY <2>1, <2>4, <2>5 DEF s
<1>2. Unexpired(q) \in QueueFile
  BY <1>1 DEF Unexpired, QueueFile
<1> QED
  BY <1>1, <1>2 DEF Undecided

\* A list with the proposal of a holds at most one undecided item more, the proposed
\* one, unless the cap took it out.
LEMMA AfterProposalIs ==
  ASSUME NEW q \in QueueFile, NEW a \in Action
  PROVE  /\ AfterProposal(q, a) \in QueueFile
         /\ \A b \in Action :
              Undecided(AfterProposal(q, a)[b])
                <= Undecided(q[b])
                     + (IF b = a /\ Has(AfterProposal(q, a)[b], "pending") THEN 1 ELSE 0)
<1> DEFINE appended == [Unexpired(q) EXCEPT ![a] = Append(@, "pending")]
           dropped == Waiting(appended) \ Kept(Waiting(appended))
<1>1. Unexpired(q) \in QueueFile /\ \A b \in Action : Undecided(Unexpired(q)[b]) = Undecided(q[b])
  BY UnexpiredIs
<1>2. \A b \in Action : q[b] \in Seq(Status) /\ Undecided(q[b]) \in Nat
  BY OpenFinite DEF QueueFile
<1>3. ASSUME NEW b \in Action
      PROVE  /\ appended[b] \in Seq(Status)
             /\ Undecided(appended[b]) \in Nat
             /\ Undecided(appended[b]) = Undecided(q[b]) + (IF b = a THEN 1 ELSE 0)
             /\ b = a => Has(appended[b], "pending")
  <2>1. Unexpired(q)[b] \in Seq(Status) /\ "pending" \in Status /\ "pending" \notin Decision
    BY <1>1 DEF QueueFile, Status, Decision
  <2>2. CASE b = a
    <3>1. appended[b] = Append(Unexpired(q)[b], "pending")
      BY <1>1, <2>2 DEF QueueFile
    <3>2. PICK s : s = Unexpired(q)[b]
      OBVIOUS
    <3>3. s \in Seq(Status) /\ Undecided(s) = Undecided(q[b])
      BY <1>1, <2>1, <3>2
    <3>4. Append(s, "pending") \in Seq(Status)
          /\ Undecided(Append(s, "pending")) = Undecided(q[b]) + 1
      BY <2>1, <3>3, UndecidedAppend
    <3>5. Has(Append(s, "pending"), "pending")
      <4>1. Len(s) + 1 \in DOMAIN Append(s, "pending")
            /\ Append(s, "pending")[Len(s) + 1] = "pending"
        BY <3>3
      <4> QED
        BY <4>1 DEF Has
    <3> QED
      BY <1>2, <2>2, <3>1, <3>2, <3>4, <3>5
  <2>3. CASE b # a
    <3>1. appended[b] = Unexpired(q)[b]
      BY <1>1, <2>3 DEF QueueFile
    <3> QED
      BY <1>1, <1>2, <2>1, <2>3, <3>1
  <2> QED
    BY <2>2, <2>3
<1>4. AfterProposal(q, a) = [b \in Action |-> IF b \in dropped THEN Settled(appended[b])
                                              ELSE PendingFirst(appended[b])]
  BY DEF AfterProposal
<1> HIDE DEF appended, dropped
<1>5. ASSUME NEW b \in Action
      PROVE  /\ AfterProposal(q, a)[b] \in Seq(Status)
             /\ Undecided(AfterProposal(q, a)[b])
                  <= Undecided(q[b])
                       + (IF b = a /\ Has(AfterProposal(q, a)[b], "pending") THEN 1 ELSE 0)
  <2>1. PICK s : s = appended[b]
    OBVIOUS
  <2>2. /\ s \in Seq(Status) /\ Undecided(s) \in Nat /\ Undecided(q[b]) \in Nat
        /\ Undecided(s) = Undecided(q[b]) + (IF b = a THEN 1 ELSE 0)
        /\ b = a => Has(s, "pending")
    BY <1>2, <1>3, <2>1
  <2>3. CASE b \in dropped
    <3>1. AfterProposal(q, a)[b] = Settled(s)
      BY <1>4, <2>1, <2>3
    <3>2. /\ Settled(s) \in Seq(Status) /\ Undecided(Settled(s)) <= Undecided(s)
          /\ Has(s, "pending") => Undecided(Settled(s)) + 1 <= Undecided(s)
          /\ Undecided(Settled(s)) \in Nat
      BY <2>2, SettledIs, OpenFinite
    <3>3. Undecided(Settled(s)) <= Undecided(q[b])
      BY <2>2, <3>2
    <3> QED
      BY <2>2, <3>1, <3>2, <3>3
  <2>4. CASE b \notin dropped
    <3>1. AfterProposal(q, a)[b] = PendingFirst(s)
      BY <1>4, <2>1, <2>4
    <3>2. /\ PendingFirst(s) \in Seq(Status) /\ Undecided(PendingFirst(s)) = Undecided(s)
          /\ Has(s, "pending") => Has(PendingFirst(s), "pending")
      BY <2>2, PendingFirstIs
    <3> QED
      BY <2>2, <3>1, <3>2
  <2> QED
    BY <2>3, <2>4
<1>6. AfterProposal(q, a) \in QueueFile
  BY <1>4, <1>5 DEF QueueFile
<1> QED
  BY <1>5, <1>6
-----------------------------------------------------------------------------
\* The types of the queue's variables.
FileTyped ==
  /\ queue \in QueueFile /\ readable \in BOOLEAN /\ auditOk \in BOOLEAN
  /\ record \in [Action -> Token \cup {None}]
  /\ lock \in Decider \cup {None}
  /\ ppc \in [Proposer -> {"idle", "loaded", "writing", "orphaned"}]
  /\ draft \in [Proposer -> QueueFile]
  /\ subject \in [Proposer -> Action \cup {None}]
  /\ plan \in [Decider -> QueueFile]
  /\ proposals \in [Action -> Nat]
  /\ \A p \in Proposer : ppc[p] # "idle" => subject[p] \in Action

LEMMA NoItemsTyped == NoItems \in QueueFile
<1>1. <<>> \in Seq(Status)
  OBVIOUS
<1> QED
  BY <1>1 DEF NoItems, QueueFile

LEMMA LoadedTyped ==
  ASSUME FileTyped
  PROVE  Loaded \in QueueFile /\ (Loaded = queue \/ Loaded = NoItems)
  BY NoItemsTyped DEF Loaded, FileTyped

\* What a decider is going to write.
LEMMA PlanIs ==
  ASSUME FileTyped, NEW a \in Action, NEW v \in Decision, Decidable(Loaded[a])
  PROVE  LET q == [Loaded EXCEPT ![a] = <<v>> \o Tail(@)] IN
         /\ q \in QueueFile
         /\ \A b \in Action :
              Undecided(q[b]) + (IF b = a THEN 1 ELSE 0) <= Undecided(queue[b])
<1> DEFINE q == [Loaded EXCEPT ![a] = <<v>> \o Tail(@)]
<1>1. Loaded \in QueueFile /\ \A b \in Action : Loaded[b] \in Seq(Status)
  BY LoadedTyped DEF QueueFile
<1>2. Loaded = queue
  <2>1. Loaded # NoItems
    BY DEF Decidable, NoItems
  <2> QED
    BY <2>1, LoadedTyped
<1>3. PICK s : s = queue[a]
  OBVIOUS
<1>4. s \in Seq(Status) /\ s # <<>> /\ s[1] \notin Decision
  BY <1>1, <1>2, <1>3 DEF Decidable
<1>5. PICK t : t = <<v>> \o Tail(s)
  OBVIOUS
<1>6. /\ t \in Seq(Status) /\ Len(t) = Len(s) /\ t[1] = v
      /\ \A i \in 2..Len(s) : t[i] = s[i]
  <2>1. v \in Status
    BY DEF Decision, Status
  <2>2. /\ Tail(s) \in Seq(Status) /\ Len(Tail(s)) = Len(s) - 1 /\ Len(s) \in Nat \ {0}
        /\ \A i \in 1..(Len(s) - 1) : Tail(s)[i] = s[i + 1]
    BY <1>4
  <2>3. <<v>> \in Seq(Status) /\ Len(<<v>>) = 1 /\ <<v>>[1] = v
    BY <2>1
  <2>4. /\ t \in Seq(Status) /\ Len(t) = 1 + Len(Tail(s)) /\ t[1] = v
        /\ \A i \in 1..Len(Tail(s)) : t[1 + i] = Tail(s)[i]
    BY <1>5, <2>2, <2>3
  <2>5. ASSUME NEW i \in 2..Len(s) PROVE t[i] = s[i]
    <3>1. i - 1 \in 1..(Len(s) - 1) /\ 1 + (i - 1) = i /\ (i - 1) + 1 = i
      BY <2>2
    <3> QED
      BY <2>2, <2>4, <3>1
  <2> QED
    BY <2>2, <2>4, <2>5
<1>7. Open(t) = Open(s) \ {1} /\ 1 \in Open(s)
  <2>1. DOMAIN s = 1..Len(s) /\ DOMAIN t = 1..Len(s) /\ Len(s) \in Nat \ {0}
    BY <1>4, <1>6
  <2>2. \A i \in 1..Len(s) : i = 1 \/ i \in 2..Len(s)
    BY <2>1
  <2> QED
    BY <1>4, <1>6, <2>1, <2>2 DEF Open
<1>8. Undecided(t) + 1 = Undecided(s)
  <2>1. IsFiniteSet(Open(s)) /\ Cardinality(Open(s)) \in Nat
    BY <1>4, OpenFinite DEF Undecided
  <2>2. Cardinality(Open(s) \ {1}) = Cardinality(Open(s)) - 1
    BY <1>7, <2>1, FS_RemoveElement
  <2> QED
    BY <1>7, <2>1, <2>2 DEF Undecided
<1>9. q[a] = t /\ \A b \in Action : b # a => q[b] = queue[b]
  BY <1>1, <1>2, <1>3, <1>5 DEF QueueFile
<1>10. q \in QueueFile
  BY <1>1, <1>5, <1>6, <1>9, <1>2, <1>3 DEF QueueFile
<1>11. ASSUME NEW b \in Action
       PROVE  Undecided(q[b]) + (IF b = a THEN 1 ELSE 0) <= Undecided(queue[b])
  <2>1. Undecided(queue[b]) \in Nat
    BY <1>1, <1>2, OpenFinite
  <2> HIDE DEF q
  <2> QED
    BY <1>3, <1>8, <1>9, <2>1
<1> QED
  BY <1>10, <1>11

\* An item that grows old is as undecided as before.
LEMMA GrownOld ==
  ASSUME FileTyped, NEW a \in Action, GrowOld(a)
  PROVE  /\ queue' \in QueueFile
         /\ \A b \in Action : Undecided(queue'[b]) = Undecided(queue[b])
<1>1. PICK i \in DOMAIN queue[a] :
        queue[a][i] = "pending" /\ queue' = [queue EXCEPT ![a][i] = "stale"]
  BY DEF GrowOld
<1>2. PICK s, t : s = queue[a] /\ t = [s EXCEPT ![i] = "stale"]
  OBVIOUS
<1>3. s \in Seq(Status) /\ i \in 1..Len(s) /\ DOMAIN s = 1..Len(s)
  BY <1>2 DEF FileTyped, QueueFile
<1>4. t \in Seq(Status) /\ Open(t) = Open(s)
  <2>1. t \in Seq(Status)
    BY <1>2, <1>3 DEF Status
  <2>2. DOMAIN t = DOMAIN s /\ t[i] = "stale" /\ \A j \in DOMAIN s : j # i => t[j] = s[j]
    BY <1>2, <1>3
  <2>3. s[i] = "pending"
    BY <1>1, <1>2
  <2> QED
    BY <2>1, <2>2, <2>3 DEF Open, Decision
<1>5. queue'[a] = t /\ \A b \in Action : b # a => queue'[b] = queue[b]
  BY <1>1, <1>2 DEF FileTyped, QueueFile
<1>6. queue' \in QueueFile
  BY <1>1, <1>4, <1>5 DEF FileTyped, QueueFile
<1> QED
  BY <1>2, <1>4, <1>5, <1>6 DEF Undecided

LEMMA FileInit == Init => FileTyped
  BY NoItemsTyped DEF Init, FileTyped

LEMMA FileStep ==
  ASSUME FileTyped, TrailTyped, QueueStep \/ UNCHANGED queueVars
  PROVE  FileTyped'
<1> USE DEF proposing, deciding, trail
<1>1. ASSUME NEW p \in Proposer, Finished(p)
      PROVE  /\ ppc' \in [Proposer -> {"idle", "loaded", "writing", "orphaned"}]
             /\ draft' \in [Proposer -> QueueFile]
             /\ subject' \in [Proposer -> Action \cup {None}]
             /\ \A x \in Proposer : ppc'[x] # "idle" => subject'[x] \in Action
  BY <1>1, NoItemsTyped DEF Finished, FileTyped
<1>2. ASSUME NEW d \in Decider, Idle(d)
      PROVE  plan' \in [Decider -> QueueFile]
  BY <1>2, NoItemsTyped DEF Idle, FileTyped
<1>3. ASSUME NEW p \in Proposer, NEW a \in Action, Propose(p, a) PROVE FileTyped'
  <2>1. AfterProposal(Loaded, a) \in QueueFile
    BY LoadedTyped, AfterProposalIs
  <2> QED
    BY <1>3, <2>1 DEF Propose, FileTyped
<1>4. ASSUME NEW p \in Proposer, Truncate(p) PROVE FileTyped'
  BY <1>4 DEF Truncate, FileTyped
<1>5. ASSUME NEW p \in Proposer, Write(p) PROVE FileTyped'
  <2>1. queue' \in QueueFile /\ readable' \in BOOLEAN
    BY <1>5 DEF Write, FileTyped
  <2>2. proposals' \in [Action -> Nat]
    <3>1. subject[p] \in Action /\ proposals[subject[p]] + 1 \in Nat
      BY <1>5 DEF Write, FileTyped
    <3> QED
      BY <1>5, <3>1 DEF Write, FileTyped
  <2>3. UNCHANGED <<auditOk, record, lock, plan>>
    BY <1>5 DEF Write
  <2>4. Finished(p)
    BY <1>5 DEF Write
  <2> QED
    BY <1>1, <2>1, <2>2, <2>3, <2>4 DEF FileTyped
<1>6. ASSUME NEW p \in Proposer, WriteOrphan(p) \/ ProposerCrash(p) PROVE FileTyped'
  BY <1>1, <1>6 DEF WriteOrphan, ProposerCrash, FileTyped
<1>7. ASSUME NEW a \in Action, GrowOld(a) PROVE FileTyped'
  <2>1. queue' \in QueueFile
    BY <1>7, GrownOld
  <2> QED
    BY <1>7, <2>1 DEF GrowOld, FileTyped
<1>8. ASSUME NEW d \in Decider, Load(d) PROVE FileTyped'
  <2>1. target[d] \in Action /\ ruling[d] \in Decision
    BY <1>8 DEF Load, TrailTyped
  <2>2. [Loaded EXCEPT ![target[d]] = <<ruling[d]>> \o Tail(@)] \in QueueFile
    BY <1>8, <2>1, PlanIs DEF Load
  <2> QED
    BY <1>8, <2>2 DEF Load, FileTyped
<1>9. ASSUME NEW d \in Decider, Replace(d) PROVE FileTyped'
  BY <1>9 DEF Replace, FileTyped
<1>10. ASSUME NEW d \in Decider, Audit(d) PROVE FileTyped'
  <2>1. plan' \in [Decider -> QueueFile]
    BY <1>2, <1>10 DEF Audit, FileTyped
  <2> QED
    BY <1>10, <2>1 DEF Audit, FileTyped
<1>11. ASSUME NEW d \in Decider, NEW t \in Token, Issue(d, t) PROVE FileTyped'
  <2>1. plan' \in [Decider -> QueueFile]
    BY <1>2, <1>11 DEF Issue
  <2> QED
    BY <1>11, <2>1 DEF Issue, FileTyped
<1>12. ASSUME NEW d \in Decider, Refuse(d) \/ AuditRefused(d) \/ DeciderCrash(d)
       PROVE  FileTyped'
  <2>1. plan' \in [Decider -> QueueFile]
    BY <1>2, <1>12 DEF Refuse, AuditRefused, DeciderCrash
  <2>2. lock' \in {lock, None} /\ auditOk' \in BOOLEAN /\ UNCHANGED <<queue, readable, record, proposing, proposals>>
    BY <1>12 DEF Refuse, AuditRefused, DeciderCrash, FileTyped
  <2> QED
    BY <2>1, <2>2 DEF FileTyped
<1>13. ASSUME NEW d \in Decider, NEW a \in Action, NEW v \in Decision, Call(d, a, v)
       PROVE  FileTyped'
  BY <1>13 DEF Call, FileTyped
<1>14. CASE UNCHANGED queueVars
  BY <1>14 DEF queueVars, FileTyped
<1> QED
  BY <1>3, <1>4, <1>5, <1>6, <1>7, <1>8, <1>9, <1>10, <1>11, <1>12, <1>13, <1>14 DEF QueueStep
-----------------------------------------------------------------------------
(***************************************************************************)
(* Without a proposal that overlaps another write of the file (~Overlap) a *)
(* proposal is decided once. Undecided items, the decider that has written *)
(* its decision and not yet logged it, and the decisions in the log come   *)
(* each from a proposal of their own.                                      *)
(***************************************************************************)

\* Who has loaded the file to decide, or replaced it, holds the lock.
Held == \A d \in Decider : dpc[d] \in {"loaded", "written"} => lock = d

Alone ==
  /\ \A p, q \in Proposer : ppc[p] # "idle" /\ ppc[q] # "idle" => p = q
  /\ \A p \in Proposer, d \in Decider : ppc[p] # "idle" => dpc[d] # "loaded"

\* The lists about to be written, beside the file as it is.
DraftsFit ==
  \A p \in Proposer : ppc[p] \in {"loaded", "writing"} =>
    \A b \in Action :
      Undecided(draft[p][b])
        <= Undecided(queue[b])
             + (IF b = subject[p] /\ Has(draft[p][b], "pending") THEN 1 ELSE 0)
PlansFit ==
  \A d \in Decider : dpc[d] = "loaded" =>
    \A b \in Action :
      Undecided(plan[d][b]) + (IF b = target[d] THEN 1 ELSE 0) <= Undecided(queue[b])

Ruled(a) == {i \in DOMAIN audit : audit[i].id = a}
Unlogged(a) == \E d \in Decider : dpc[d] = "written" /\ target[d] = a
Balanced ==
  \A a \in Action :
    Undecided(queue[a]) + (IF Unlogged(a) THEN 1 ELSE 0) + Cardinality(Ruled(a))
      <= proposals[a]

LoneInv == Held /\ Alone /\ DraftsFit /\ PlansFit /\ Balanced

LEMMA RuledFinite ==
  ASSUME TrailTyped, NEW a \in Action
  PROVE  IsFiniteSet(Ruled(a)) /\ Cardinality(Ruled(a)) \in Nat
<1>1. DOMAIN audit = 1..Len(audit) /\ Len(audit) \in Int /\ 1 \in Int
  BY DEF TrailTyped
<1>2. IsFiniteSet(1..Len(audit)) /\ Ruled(a) \in SUBSET (1..Len(audit))
  BY <1>1, FS_Interval DEF Ruled
<1> QED
  BY <1>2, FS_Subset, FS_CardinalityType

LEMMA Counted ==
  ASSUME FileTyped, TrailTyped, NEW a \in Action
  PROVE  Undecided(queue[a]) \in Nat /\ Cardinality(Ruled(a)) \in Nat /\ proposals[a] \in Nat
  BY RuledFinite, OpenFinite DEF FileTyped, QueueFile

LEMMA HeldStep ==
  ASSUME Held, FileTyped, TrailTyped, QueueStep \/ UNCHANGED queueVars
  PROVE  Held'
<1> USE DEF Held, deciding
<1>1. CASE UNCHANGED <<dpc, lock>>
  BY <1>1
<1>2. ASSUME NEW d \in Decider, NEW a \in Action, NEW v \in Decision, Call(d, a, v)
      PROVE  Held'
  BY <1>2 DEF Call, TrailTyped
<1>3. ASSUME NEW d \in Decider, Load(d) PROVE Held'
  BY <1>3, ApprovalQueueAssumption DEF Load, TrailTyped
<1>4. ASSUME NEW d \in Decider, Refuse(d) \/ (\E t \in Token : Issue(d, t))
      PROVE  Held'
  BY <1>4 DEF Refuse, Issue, Idle, TrailTyped
<1>5. ASSUME NEW d \in Decider, Replace(d) PROVE Held'
  BY <1>5 DEF Replace, TrailTyped
<1>6. ASSUME NEW d \in Decider, Audit(d) \/ AuditRefused(d) PROVE Held'
  BY <1>6 DEF Audit, AuditRefused, Idle, TrailTyped
<1>7. ASSUME NEW d \in Decider, DeciderCrash(d) PROVE Held'
  BY <1>7 DEF DeciderCrash, Idle, TrailTyped
<1>8. ASSUME NEW p \in Proposer, NEW a \in Action,
             Propose(p, a) \/ Truncate(p) \/ Write(p) \/ WriteOrphan(p) \/ ProposerCrash(p)
               \/ GrowOld(a)
      PROVE  UNCHANGED <<dpc, lock>>
  BY <1>8 DEF Propose, Truncate, Write, WriteOrphan, ProposerCrash, GrowOld
<1>9. ASSUME NEW p \in Proposer,
             Truncate(p) \/ Write(p) \/ WriteOrphan(p) \/ ProposerCrash(p)
      PROVE  UNCHANGED <<dpc, lock>>
  BY <1>9 DEF Truncate, Write, WriteOrphan, ProposerCrash
<1>10. ASSUME NEW a \in Action, GrowOld(a)
       PROVE  UNCHANGED <<dpc, lock>>
  BY <1>10 DEF GrowOld
<1>11. UNCHANGED queueVars => UNCHANGED <<dpc, lock>>
  BY DEF queueVars
<1> HIDE DEF Held
<1> QED
  BY <1>1, <1>2, <1>3, <1>4, <1>5, <1>6, <1>7, <1>8, <1>9, <1>10, <1>11 DEF QueueStep

\* Nobody takes anything up, no list changes but for an item that grows old.
LEMMA CalmStep ==
  ASSUME LoneInv, FileTyped, TrailTyped,
         \A b \in Action : Undecided(queue'[b]) = Undecided(queue[b]),
         audit' = audit, proposals' = proposals,
         \A d \in Decider : dpc'[d] \in {"loaded", "written"} =>
           dpc'[d] = dpc[d] /\ target'[d] = target[d] /\ plan'[d] = plan[d],
         \A p \in Proposer : ppc'[p] # "idle" => ppc[p] # "idle",
         \A p \in Proposer : ppc'[p] \in {"loaded", "writing"} =>
           /\ ppc[p] \in {"loaded", "writing"}
           /\ draft'[p] = draft[p] /\ subject'[p] = subject[p]
  PROVE  Alone' /\ DraftsFit' /\ PlansFit' /\ Balanced'
<1>1. Alone'
  BY DEF LoneInv, Alone
<1>2. DraftsFit'
  BY DEF LoneInv, DraftsFit
<1>3. PlansFit'
  BY DEF LoneInv, PlansFit
<1>4. Balanced'
  <2> SUFFICES ASSUME NEW a \in Action
               PROVE  Undecided(queue[a]) + (IF Unlogged(a)' THEN 1 ELSE 0) + Cardinality(Ruled(a))
                        <= proposals[a]
    BY DEF Balanced, Ruled
  <2>1. Unlogged(a)' => Unlogged(a)
    BY DEF Unlogged
  <2>2. Undecided(queue[a]) + (IF Unlogged(a) THEN 1 ELSE 0) + Cardinality(Ruled(a))
          <= proposals[a]
    BY DEF LoneInv, Balanced
  <2> QED
    BY <2>1, <2>2, Counted
<1> QED
  BY <1>1, <1>2, <1>3, <1>4

LEMMA ProposeFits ==
  ASSUME ~Overlap, LoneInv, FileTyped, TrailTyped, NEW p \in Proposer, NEW a \in Action,
         Propose(p, a)
  PROVE  Alone' /\ DraftsFit' /\ PlansFit' /\ Balanced'
<1> USE DEF LoneInv, deciding, trail
<1>1. Quiet /\ UNCHANGED <<queue, audit, dpc, target, plan, proposals>>
  BY DEF Propose
<1>2. /\ ppc' = [ppc EXCEPT ![p] = "loaded"] /\ subject' = [subject EXCEPT ![p] = a]
      /\ draft' = [draft EXCEPT ![p] = AfterProposal(Loaded, a)]
  BY DEF Propose
<1>3. Alone'
  BY <1>1, <1>2 DEF Alone, Quiet, FileTyped
<1>4. DraftsFit'
  <2> SUFFICES ASSUME NEW q \in Proposer, ppc'[q] \in {"loaded", "writing"}, NEW b \in Action
               PROVE  Undecided(draft'[q][b])
                        <= Undecided(queue[b])
                             + (IF b = subject'[q] /\ Has(draft'[q][b], "pending") THEN 1 ELSE 0)
    BY <1>1 DEF DraftsFit
  <2>1. q = p
    BY <1>1, <1>2 DEF Quiet, FileTyped
  <2>2. draft'[q] = AfterProposal(Loaded, a) /\ subject'[q] = a
    BY <1>2, <2>1 DEF FileTyped
  <2>3. Loaded \in QueueFile /\ Undecided(queue[b]) \in Nat
    BY LoadedTyped, Counted
  <2>4. /\ AfterProposal(Loaded, a) \in QueueFile
        /\ Undecided(AfterProposal(Loaded, a)[b])
             <= Undecided(Loaded[b])
                  + (IF b = a /\ Has(AfterProposal(Loaded, a)[b], "pending") THEN 1 ELSE 0)
    BY <2>3, AfterProposalIs
  <2>5. Undecided(Loaded[b]) \in Nat /\ Undecided(Loaded[b]) <= Undecided(queue[b])
    <3>1. CASE Loaded = queue
      BY <2>3, <3>1
    <3>2. CASE Loaded = NoItems
      <4>1. Loaded[b] = <<>>
        BY <3>2 DEF NoItems
      <4>2. Open(<<>>) = {}
        BY DEF Open
      <4>3. Cardinality({}) = 0
        BY FS_EmptySet
      <4>4. Undecided(Loaded[b]) = 0
        BY <4>1, <4>2, <4>3 DEF Undecided
      <4> QED
        BY <2>3, <4>4
    <3> QED
      BY <3>1, <3>2, LoadedTyped
  <2>6. Undecided(AfterProposal(Loaded, a)[b]) \in Nat
    BY <2>4, OpenFinite DEF QueueFile
  <2> QED
    BY <2>2, <2>3, <2>4, <2>5, <2>6
<1>5. PlansFit'
  BY <1>1 DEF PlansFit
<1>6. Balanced'
  BY <1>1 DEF Balanced, Ruled, Unlogged
<1> QED
  BY <1>3, <1>4, <1>5, <1>6

LEMMA WriteFits ==
  ASSUME ~Overlap, LoneInv, FileTyped, TrailTyped, FileTyped', NEW p \in Proposer, Write(p)
  PROVE  Alone' /\ DraftsFit' /\ PlansFit' /\ Balanced'
<1> USE DEF LoneInv, deciding, trail
<1>1. /\ ppc[p] = "writing" /\ queue' = draft[p] /\ subject[p] \in Action
      /\ UNCHANGED <<audit, dpc, target, plan>>
  BY DEF Write, FileTyped
<1>2. \A q \in Proposer : ppc'[q] = "idle"
  BY <1>1 DEF Write, Finished, Alone, FileTyped
<1>3. Alone' /\ DraftsFit'
  BY <1>2 DEF Alone, DraftsFit
<1>4. PlansFit'
  BY <1>1 DEF Alone, PlansFit
<1>5. Balanced'
  <2> SUFFICES ASSUME NEW a \in Action
               PROVE  Undecided(draft[p][a]) + (IF Unlogged(a) THEN 1 ELSE 0)
                        + Cardinality(Ruled(a)) <= proposals'[a]
    BY <1>1 DEF Balanced, Ruled, Unlogged
  <2>1. Undecided(queue[a]) + (IF Unlogged(a) THEN 1 ELSE 0) + Cardinality(Ruled(a))
          <= proposals[a]
    BY DEF Balanced
  <2>2. Undecided(draft[p][a])
          <= Undecided(queue[a])
               + (IF a = subject[p] /\ Has(draft[p][a], "pending") THEN 1 ELSE 0)
    BY <1>1 DEF DraftsFit
  <2>3. proposals'[a] = proposals[a]
          + (IF a = subject[p] /\ Has(draft[p][a], "pending") THEN 1 ELSE 0)
    <3>1. proposals \in [Action -> Nat]
      BY DEF FileTyped
    <3> QED
      BY <1>1, <3>1 DEF Write
  <2>4. Undecided(draft[p][a]) \in Nat
    BY OpenFinite DEF FileTyped, QueueFile
  <2> QED
    BY <2>1, <2>2, <2>3, <2>4, Counted
<1> QED
  BY <1>3, <1>4, <1>5
LEMMA LoadFits ==
  ASSUME ~Overlap, LoneInv, FileTyped, TrailTyped, NEW d \in Decider, Load(d)
  PROVE  Alone' /\ DraftsFit' /\ PlansFit' /\ Balanced'
<1> USE DEF LoneInv, proposing, trail
<1>1. /\ lock = None /\ dpc[d] = "called" /\ target[d] \in Action /\ ruling[d] \in Decision
      /\ \A p \in Proposer : ppc[p] = "idle"
      /\ Decidable(Loaded[target[d]])
      /\ UNCHANGED <<queue, audit, ppc, draft, subject, target, proposals>>
  BY DEF Load, TrailTyped
<1>2. /\ dpc' = [dpc EXCEPT ![d] = "loaded"]
      /\ plan' = [plan EXCEPT ![d] = [Loaded EXCEPT ![target[d]] = <<ruling[d]>> \o Tail(@)]]
  BY DEF Load
<1>3. \A x \in Decider : dpc[x] \notin {"loaded", "written"}
  BY <1>1, ApprovalQueueAssumption DEF Held
<1>4. Alone' /\ DraftsFit'
  BY <1>1 DEF Alone, DraftsFit
<1>5. PlansFit'
  <2> SUFFICES ASSUME NEW x \in Decider, dpc'[x] = "loaded", NEW b \in Action
               PROVE  Undecided(plan'[x][b]) + (IF b = target[x] THEN 1 ELSE 0)
                        <= Undecided(queue[b])
    BY <1>1 DEF PlansFit
  <2>1. x = d
    BY <1>2, <1>3 DEF TrailTyped
  <2>2. plan'[x] = [Loaded EXCEPT ![target[d]] = <<ruling[d]>> \o Tail(@)]
    BY <1>2, <2>1 DEF FileTyped
  <2> QED
    BY <1>1, <2>1, <2>2, PlanIs
<1>6. Balanced'
  <2>1. \A a \in Action : Unlogged(a)' => Unlogged(a)
    BY <1>1, <1>2 DEF Unlogged, TrailTyped
  <2> SUFFICES ASSUME NEW a \in Action
               PROVE  Undecided(queue[a]) + (IF Unlogged(a)' THEN 1 ELSE 0)
                        + Cardinality(Ruled(a)) <= proposals[a]
    BY <1>1 DEF Balanced, Ruled
  <2>2. Undecided(queue[a]) + (IF Unlogged(a) THEN 1 ELSE 0) + Cardinality(Ruled(a))
          <= proposals[a]
    BY DEF Balanced
  <2> QED
    BY <2>1, <2>2, Counted
<1> QED
  BY <1>4, <1>5, <1>6

LEMMA ReplaceFits ==
  ASSUME ~Overlap, LoneInv, FileTyped, TrailTyped, NEW d \in Decider, Replace(d)
  PROVE  Alone' /\ DraftsFit' /\ PlansFit' /\ Balanced'
<1> USE DEF LoneInv, trail
<1>1. /\ dpc[d] = "loaded" /\ queue' = plan[d] /\ target[d] \in Action
      /\ dpc' = [dpc EXCEPT ![d] = "written"]
      /\ UNCHANGED <<audit, target, plan, proposals>>
  BY DEF Replace, TrailTyped
<1>2. \A x \in Decider : x # d => dpc[x] \notin {"loaded", "written"}
  BY <1>1 DEF Held
<1>3. \A p \in Proposer : ppc[p] = "idle" /\ ppc'[p] = "idle"
  BY <1>1 DEF Alone, Replace
<1>4. Alone' /\ DraftsFit'
  BY <1>3 DEF Alone, DraftsFit
<1>5. PlansFit'
  BY <1>1, <1>2 DEF PlansFit, TrailTyped
<1>6. Balanced'
  <2> SUFFICES ASSUME NEW a \in Action
               PROVE  Undecided(plan[d][a]) + (IF Unlogged(a)' THEN 1 ELSE 0)
                        + Cardinality(Ruled(a)) <= proposals[a]
    BY <1>1 DEF Balanced, Ruled
  <2>1. Undecided(queue[a]) + (IF Unlogged(a) THEN 1 ELSE 0) + Cardinality(Ruled(a))
          <= proposals[a]
    BY DEF Balanced
  <2>2. Undecided(plan[d][a]) + (IF a = target[d] THEN 1 ELSE 0) <= Undecided(queue[a])
    BY <1>1 DEF PlansFit
  <2>3. Unlogged(a)' => a = target[d]
    BY <1>1, <1>2 DEF Unlogged, TrailTyped
  <2>4. Undecided(plan[d][a]) \in Nat
    BY OpenFinite DEF FileTyped, QueueFile
  <2> QED
    BY <2>1, <2>2, <2>3, <2>4, Counted
<1> QED
  BY <1>4, <1>5, <1>6

LEMMA AuditFits ==
  ASSUME LoneInv, FileTyped, TrailTyped, TrailTyped', NEW d \in Decider, Audit(d)
  PROVE  Alone' /\ DraftsFit' /\ PlansFit' /\ Balanced'
<1> USE DEF LoneInv, proposing
<1>1. /\ dpc[d] = "written" /\ target[d] \in Action /\ ruling[d] \in Decision
      /\ audit' = Append(audit, [id |-> target[d], decision |-> ruling[d]])
      /\ UNCHANGED <<queue, ppc, draft, subject, proposals>>
  BY DEF Audit, TrailTyped
<1>2. /\ dpc'[d] \in {"audited", "idle"}
      /\ \A x \in Decider : x # d => dpc'[x] = dpc[x] /\ target'[x] = target[x] /\ plan'[x] = plan[x]
  BY DEF Audit, Idle, TrailTyped, FileTyped
<1>3. \A x \in Decider : x # d => dpc[x] \notin {"loaded", "written"}
  BY <1>1 DEF Held
<1>4. Alone' /\ DraftsFit' /\ PlansFit'
  BY <1>1, <1>2, <1>3 DEF Alone, DraftsFit, PlansFit
<1>5. Balanced'
  <2> SUFFICES ASSUME NEW a \in Action
               PROVE  Undecided(queue[a]) + (IF Unlogged(a)' THEN 1 ELSE 0)
                        + Cardinality(Ruled(a)') <= proposals[a]
    BY <1>1 DEF Balanced
  <2>1. Undecided(queue[a]) + (IF Unlogged(a) THEN 1 ELSE 0) + Cardinality(Ruled(a))
          <= proposals[a]
    BY DEF Balanced
  <2>2. ~Unlogged(a)'
    BY <1>2, <1>3 DEF Unlogged
  <2>3. a = target[d] => Unlogged(a)
    BY <1>1 DEF Unlogged
  <2>4. DOMAIN audit = 1..Len(audit) /\ Len(audit) \in Nat
        /\ DOMAIN audit' = 1..(Len(audit) + 1)
        /\ audit'[Len(audit) + 1].id = target[d]
        /\ \A i \in 1..Len(audit) : audit'[i] = audit[i]
    BY <1>1 DEF TrailTyped
  <2>5. CASE a = target[d]
    <3>1. Ruled(a)' = Ruled(a) \cup {Len(audit) + 1} /\ Len(audit) + 1 \notin Ruled(a)
      BY <2>4, <2>5 DEF Ruled
    <3>2. Cardinality(Ruled(a)') = Cardinality(Ruled(a)) + 1
      BY <3>1, RuledFinite, FS_AddElement
    <3> QED
      BY <2>1, <2>2, <2>3, <2>5, <3>2, Counted
  <2>6. CASE a # target[d]
    <3>1. Ruled(a)' = Ruled(a)
      BY <2>4, <2>6 DEF Ruled
    <3> QED
      BY <2>1, <2>2, <3>1, Counted
  <2> QED
    BY <2>5, <2>6
<1> QED
  BY <1>4, <1>5
LEMMA LoneInit == Init => LoneInv
<1> SUFFICES ASSUME Init PROVE LoneInv
  OBVIOUS
<1>1. Held /\ Alone /\ DraftsFit /\ PlansFit
  BY DEF Init, Held, Alone, DraftsFit, PlansFit
<1>2. Balanced
  <2> SUFFICES ASSUME NEW a \in Action
               PROVE  Undecided(queue[a]) + (IF Unlogged(a) THEN 1 ELSE 0)
                        + Cardinality(Ruled(a)) <= proposals[a]
    BY DEF Balanced
  <2>1. queue[a] = <<>> /\ audit = <<>> /\ proposals[a] = 0
    BY DEF Init, NoItems
  <2>2. ~Unlogged(a)
    BY DEF Init, Unlogged
  <2>3. Open(<<>>) = {} /\ Ruled(a) = {}
    BY <2>1 DEF Open, Ruled
  <2>4. Cardinality({}) = 0
    BY FS_EmptySet
  <2>5. Undecided(queue[a]) = 0 /\ Cardinality(Ruled(a)) = 0
    BY <2>1, <2>3, <2>4 DEF Undecided
  <2> QED
    BY <2>1, <2>2, <2>5
<1> QED
  BY <1>1, <1>2 DEF LoneInv

LEMMA LoneStep ==
  ASSUME ~Overlap, LoneInv, FileTyped, TrailTyped, FileTyped', TrailTyped',
         QueueStep \/ UNCHANGED queueVars
  PROVE  LoneInv'
<1> DEFINE Goal == Alone' /\ DraftsFit' /\ PlansFit' /\ Balanced'
<1>1. Held'
  BY HeldStep DEF LoneInv
<1>2. ASSUME NEW p \in Proposer, \/ \E a \in Action : Propose(p, a)
                                 \/ Write(p)
      PROVE  Goal
  BY <1>2, ProposeFits, WriteFits
<1>3. ASSUME NEW d \in Decider, Load(d) \/ Replace(d) \/ Audit(d)
      PROVE  Goal
  BY <1>3, LoadFits, ReplaceFits, AuditFits
<1>4. ASSUME NEW p \in Proposer, Truncate(p) PROVE Goal
  <2>1. /\ UNCHANGED <<queue, audit, dpc, target, plan, draft, subject, proposals>>
        /\ ppc[p] = "loaded" /\ ppc' = [ppc EXCEPT ![p] = "writing"]
    BY <1>4 DEF Truncate, trail, deciding
  <2> HIDE DEF Goal
  <2>2. \A q \in Proposer : ppc'[q] = ppc[q] \/ (q = p /\ ppc'[q] = "writing")
    BY <2>1 DEF FileTyped
  <2>3. Alone' /\ DraftsFit' /\ PlansFit' /\ Balanced'
    BY <2>1, <2>2, CalmStep
  <2> QED
    BY <2>3 DEF Goal
<1>5. ASSUME NEW p \in Proposer, WriteOrphan(p) \/ ProposerCrash(p) PROVE Goal
  <2>1. Finished(p) /\ UNCHANGED <<queue, audit, dpc, target, plan, proposals>>
    BY <1>5 DEF WriteOrphan, ProposerCrash, trail, deciding
  <2>2. \A q \in Proposer :
          \/ ppc'[q] = "idle"
          \/ ppc'[q] = ppc[q] /\ draft'[q] = draft[q] /\ subject'[q] = subject[q]
    BY <2>1 DEF Finished, FileTyped
  <2> HIDE DEF Goal
  <2>3. Alone' /\ DraftsFit' /\ PlansFit' /\ Balanced'
    BY <2>1, <2>2, CalmStep
  <2> QED
    BY <2>3 DEF Goal
<1>6. ASSUME NEW a \in Action, GrowOld(a) PROVE Goal
  <2>1. UNCHANGED <<audit, dpc, target, plan, ppc, draft, subject, proposals>>
    BY <1>6 DEF GrowOld, trail, deciding, proposing
  <2>2. \A b \in Action : Undecided(queue'[b]) = Undecided(queue[b])
    BY <1>6, GrownOld
  <2> QED
    BY <2>1, <2>2, CalmStep
<1>7. ASSUME NEW d \in Decider,
             \/ \E a \in Action, v \in Decision : Call(d, a, v)
             \/ Refuse(d) \/ AuditRefused(d) \/ DeciderCrash(d)
             \/ \E t \in Token : Issue(d, t)
      PROVE  Goal
  <2>1. /\ UNCHANGED <<queue, audit, ppc, draft, subject, proposals>>
        /\ dpc'[d] \in {"idle", "called"}
        /\ \A x \in Decider : x # d => dpc'[x] = dpc[x] /\ target'[x] = target[x] /\ plan'[x] = plan[x]
    <3> USE DEF trail, proposing
    <3>1. CASE \E a \in Action, v \in Decision : Call(d, a, v)
      BY <3>1 DEF Call, TrailTyped, FileTyped
    <3>2. CASE Refuse(d) \/ AuditRefused(d) \/ DeciderCrash(d) \/ \E t \in Token : Issue(d, t)
      <4>1. Idle(d) /\ UNCHANGED <<queue, audit, ppc, draft, subject, proposals>>
        BY <3>2 DEF Refuse, AuditRefused, DeciderCrash, Issue
      <4> QED
        BY <4>1 DEF Idle, TrailTyped, FileTyped
    <3> QED
      BY <1>7, <3>1, <3>2
  <2> QED
    BY <2>1, CalmStep
<1>8. ASSUME UNCHANGED queueVars PROVE Goal
  <2>1. UNCHANGED <<queue, audit, dpc, target, plan, ppc, draft, subject, proposals>>
    BY <1>8 DEF queueVars, trail, deciding, proposing
  <2>2. \A b \in Action : Undecided(queue'[b]) = Undecided(queue[b])
    BY <2>1
  <2> QED
    BY <2>1, <2>2, CalmStep
<1>9. Goal
  <2> HIDE DEF Goal
  <2>1. ASSUME NEW p \in Proposer,
               \/ \E a \in Action : Propose(p, a)
               \/ Truncate(p) \/ Write(p) \/ WriteOrphan(p) \/ ProposerCrash(p)
        PROVE  Goal
    BY <1>2, <1>4, <1>5, <2>1
  <2>2. ASSUME NEW d \in Decider,
               \/ \E a \in Action, v \in Decision : Call(d, a, v)
               \/ Load(d) \/ Refuse(d) \/ Replace(d) \/ Audit(d) \/ AuditRefused(d)
               \/ \E t \in Token : Issue(d, t)
               \/ DeciderCrash(d)
        PROVE  Goal
    BY <1>3, <1>7, <2>2
  <2> QED
    BY <1>6, <1>8, <2>1, <2>2 DEF QueueStep
<1> QED
  BY <1>1, <1>9 DEF LoneInv

LEMMA DecidedApart ==
  ASSUME TrailTyped, NEW a \in Action
  PROVE  /\ Audited(a, "approved") \in Nat /\ Audited(a, "rejected") \in Nat
         /\ Audited(a, "approved") + Audited(a, "rejected") <= Cardinality(Ruled(a))
<1> DEFINE Said(v) == {i \in DOMAIN audit : audit[i] = [id |-> a, decision |-> v]}
<1>1. Said("approved") \subseteq Ruled(a) /\ Said("rejected") \subseteq Ruled(a)
  BY DEF Ruled
<1>2. Said("approved") \cap Said("rejected") = {}
  OBVIOUS
<1>3. Audited(a, "approved") = Cardinality(Said("approved"))
      /\ Audited(a, "rejected") = Cardinality(Said("rejected"))
  BY DEF Audited
<1> HIDE DEF Said
<1>4. /\ IsFiniteSet(Said("approved")) /\ IsFiniteSet(Said("rejected"))
      /\ IsFiniteSet(Said("approved") \cup Said("rejected"))
      /\ Cardinality(Said("approved") \cup Said("rejected")) <= Cardinality(Ruled(a))
  <2>1. IsFiniteSet(Ruled(a)) /\ Said("approved") \cup Said("rejected") \subseteq Ruled(a)
    BY <1>1, RuledFinite
  <2> QED
    BY <1>1, <2>1, FS_Subset
<1>5. Cardinality(Said("approved") \cup Said("rejected"))
        = Cardinality(Said("approved")) + Cardinality(Said("rejected"))
          - Cardinality(Said("approved") \cap Said("rejected"))
  BY <1>4, FS_Union
<1>6. Cardinality({}) = 0
  BY FS_EmptySet
<1>7. Cardinality(Said("approved")) \in Nat /\ Cardinality(Said("rejected")) \in Nat
  BY <1>4, FS_CardinalityType
<1>8. Cardinality(Said("approved") \cap Said("rejected")) = 0
  BY <1>2, <1>6
<1> QED
  BY <1>3, <1>4, <1>5, <1>7, <1>8

LEMMA FileTrailStep ==
  ASSUME FileTyped, TrailTyped, PaidFor, [ExecNext]_vars
  PROVE  /\ FileTyped' /\ TrailTyped' /\ PaidFor'
         /\ QueueStep \/ UNCHANGED queueVars
<1>1. QueueStep \/ UNCHANGED queueVars
  BY DEF ExecNext, vars, Gate, Block, Reconcile, Expire, Execute, CallExecute,
     Authorize, Trust, Persist, Claim, Fails, BlockFailed, Finish, Refused,
     ExecutorCrash
<1> QED
  BY <1>1, FileStep, TrailStep

\* A proposal is decided once (set_decision looks at the item under the lock before
\* it writes), for any number of deciders that race, wait and crash, if no proposal
\* overlaps another write of the file. enqueue_proposal takes no lock, and with the
\* overlap it allows a run finds a decision lost and given again.
THEOREM DecidedOncePerProposal ==
  ASSUME ~Overlap
  PROVE  ExecSpec => []OneDecisionPerProposal
<1> DEFINE DecisionInv == FileTyped /\ TrailTyped /\ PaidFor /\ LoneInv
<1>1. ExecInit => DecisionInv
  BY FileInit, TrailInit, LoneInit DEF ExecInit
<1>2. DecisionInv /\ [ExecNext]_vars => DecisionInv'
  BY FileTrailStep, LoneStep
<1>3. DecisionInv => OneDecisionPerProposal
  <2> SUFFICES ASSUME DecisionInv, NEW a \in Action
               PROVE  Audited(a, "approved") + Audited(a, "rejected") <= proposals[a]
    BY DEF OneDecisionPerProposal
  <2>1. Undecided(queue[a]) + (IF Unlogged(a) THEN 1 ELSE 0) + Cardinality(Ruled(a))
          <= proposals[a]
    BY DEF LoneInv, Balanced
  <2>2. Cardinality(Ruled(a)) <= proposals[a]
    BY <2>1, Counted
  <2>3. /\ Audited(a, "approved") \in Nat /\ Audited(a, "rejected") \in Nat
        /\ Audited(a, "approved") + Audited(a, "rejected") <= Cardinality(Ruled(a))
    BY DecidedApart
  <2> QED
    BY <2>2, <2>3, Counted
<1> QED
  BY <1>1, <1>2, <1>3, PTL DEF ExecSpec

\* The types that no other invariant names.
RestTyped ==
  /\ ledgerOk \in BOOLEAN /\ expired \subseteq Token
  /\ status \in [Executor -> Status \cup {None}]

LEMMA RestStep ==
  ASSUME RestTyped, FileTyped, [ExecNext]_vars
  PROVE  RestTyped'
<1> USE DEF RestTyped
<1>1. CASE UNCHANGED <<ledgerOk, expired, status>>
  BY <1>1
<1>2. ASSUME NEW t \in Token, Expire(t) PROVE RestTyped'
  BY <1>2 DEF Expire, executing
<1>3. ASSUME NEW e \in Executor, NEW a \in Action, NEW t \in Token, CallExecute(e, a, t)
      PROVE  RestTyped'
  <2>1. Loaded[a] \in Seq(Status) /\ Loaded[a] # <<>>
    BY <1>3, LoadedTyped DEF CallExecute, QueueFile
  <2>2. Head(Loaded[a]) \in Status
    BY <2>1
  <2> QED
    BY <1>3, <2>2 DEF CallExecute
<1>4. ASSUME NEW e \in Executor,
             \/ Fails(e) \/ BlockFailed(e) \/ Finish(e) \/ Refused(e) \/ ExecutorCrash(e)
      PROVE  RestTyped'
  BY <1>4 DEF Fails, BlockFailed, Finish, Refused, ExecutorCrash, Returns, args
<1>5. ASSUME NEW e \in Executor, Authorize(e) \/ Trust(e) \/ Persist(e) \/ Claim(e)
      PROVE  RestTyped'
  BY <1>5 DEF Authorize, Trust, Persist, Claim, args
<1>6. ASSUME NEW a \in Action, NEW s \in LifecycleState,
             Gate(a, s) \/ Block(a, s) \/ Reconcile(a, s)
      PROVE  RestTyped'
  BY <1>6 DEF Gate, Block, Reconcile, executing
<1>7. (QueueStep /\ UNCHANGED execVars) \/ UNCHANGED vars
        => UNCHANGED <<ledgerOk, expired, status>>
  BY DEF execVars, executing, vars
<1> QED
  BY <1>1, <1>2, <1>3, <1>4, <1>5, <1>6, <1>7 DEF ExecNext, Execute

\* The files, the proposers, deciders and executors keep their types: every list a
\* proposal or a decision writes is a queue file again.
THEOREM ExecutionTypes == ExecSpec => []ExecTypeOK
<1>1. ExecInit => FileTyped /\ TrailTyped /\ PaidFor /\ RestTyped
  BY FileInit, TrailInit DEF ExecInit, RestTyped
<1>2. FileTyped /\ TrailTyped /\ PaidFor /\ RestTyped /\ [ExecNext]_vars
        => FileTyped' /\ TrailTyped' /\ PaidFor' /\ RestTyped'
  BY FileTrailStep, RestStep
<1>3. Inv /\ FileTyped /\ TrailTyped /\ RestTyped => ExecTypeOK
  BY DEF Inv, Typed, FileTyped, TrailTyped, RestTyped, ExecTypeOK, TypeOK
<1> QED
  BY <1>1, <1>2, <1>3, ExecutionInvariant, PTL DEF ExecSpec

-----------------------------------------------------------------------------
\* The improvement loop: what a candidate, a review and a comparison are.

LEMMA SomeFilesAre ==
  ASSUME NEW files
  PROVE  files \in SomeFiles <=> DOMAIN files \subseteq File /\ files \in [DOMAIN files -> Contents]
  BY DEF SomeFiles

LEMMA NoCandidateTyped ==
  NoFiles \in SomeFiles /\ DOMAIN NoFiles = {} /\ NoCandidate \in PatchCandidate
<1>1. NoFiles \in [{} -> Contents] /\ DOMAIN NoFiles = {}
  BY DEF NoFiles
<1>2. NoFiles \in SomeFiles
  BY <1>1, SomeFilesAre
<1> QED
  BY <1>1, <1>2 DEF NoCandidate, PatchCandidate

\* A hunk of the diff there, and every region without one as it was.
LEMMA AppliedPointwise ==
  ASSUME NEW diff \in SUBSET Hunk, NEW base, NEW f \in FilesOf(diff), NEW region \in 1..2
  PROVE  \/ Applied(diff, base)[f].lines[region] = base[f].lines[region]
         \/ \E hunk \in diff : /\ hunk.file = f /\ hunk.region = region
                               /\ Applied(diff, base)[f].lines[region] = hunk.new
<1> DEFINE Here(hunk) == hunk.file = f /\ hunk.region = region
<1>1. Applied(diff, base)[f].lines[region] =
        IF \E hunk \in diff : Here(hunk) THEN (CHOOSE hunk \in diff : Here(hunk)).new
        ELSE base[f].lines[region]
  BY DEF Applied
<1>2. CASE \E hunk \in diff : Here(hunk)
  <2>1. (CHOOSE hunk \in diff : Here(hunk)) \in diff
        /\ Here(CHOOSE hunk \in diff : Here(hunk))
    BY <1>2
  <2> QED
    BY <1>1, <1>2, <2>1
<1>3. CASE ~ \E hunk \in diff : Here(hunk)
  BY <1>1, <1>3
<1> QED
  BY <1>2, <1>3

\* Applying a diff to a base it fits makes files.
LEMMA AppliedTyped ==
  ASSUME NEW diff \in SUBSET Hunk, NEW base \in SomeFiles, AppliesTo(diff, base)
  PROVE  Applied(diff, base) \in SomeFiles /\ DOMAIN Applied(diff, base) = FilesOf(diff)
<1>1. DOMAIN Applied(diff, base) = FilesOf(diff)
  BY DEF Applied
<1>2. FilesOf(diff) \subseteq DOMAIN base /\ FilesOf(diff) \subseteq File
  BY DEF FilesOf, AppliesTo, Hunk
<1>3. ASSUME NEW f \in FilesOf(diff) PROVE Applied(diff, base)[f] \in Contents
  <2>1. base[f] \in Contents
    BY <1>2, <1>3, SomeFilesAre
  <2> DEFINE lines == Applied(diff, base)[f].lines
  <2>2. \A region \in 1..2 : lines[region] \in RegionText
    BY <2>1, AppliedPointwise DEF Contents, Hunk
  <2>3. Applied(diff, base)[f] = [lines |-> lines, ends |-> "lf"]
        /\ lines = [region \in 1..2 |-> lines[region]]
    BY DEF Applied
  <2> HIDE DEF lines
  <2>4. lines \in [1..2 -> RegionText]
    BY <2>2, <2>3
  <2> QED
    BY <2>3, <2>4 DEF Contents, LineEnds
<1>4. Applied(diff, base) = [f \in FilesOf(diff) |-> Applied(diff, base)[f]]
  BY DEF Applied
<1>5. Applied(diff, base) \in [FilesOf(diff) -> Contents]
  BY <1>3, <1>4
<1> QED
  BY <1>1, <1>2, <1>5, SomeFilesAre

\* What the repair of an answer makes is a candidate again.
LEMMA CandidateTyped ==
  ASSUME NEW answer \in PatchCandidate, loop.context \in SomeFiles
  PROVE  Candidate(answer) \in PatchCandidate
<1> DEFINE given == loop.context
           bounded == [f \in DOMAIN answer.files \cap loop.area \cap DOMAIN given |->
                         answer.files[f]]
           kept == IF DOMAIN bounded # {} THEN bounded ELSE answer.files
<1>1. answer.diff \in SUBSET Hunk /\ answer.files \in SomeFiles
  BY DEF PatchCandidate
<1>2. CASE answer.diff # {} /\ AppliesTo(answer.diff, given)
  <2>1. Candidate(answer) = [answer EXCEPT !.files = Applied(answer.diff, given)]
    BY <1>2 DEF Candidate
  <2>2. Applied(answer.diff, given) \in SomeFiles
    BY <1>1, <1>2, AppliedTyped
  <2> QED
    BY <2>1, <2>2 DEF PatchCandidate
<1>3. CASE ~(answer.diff # {} /\ AppliesTo(answer.diff, given))
  <2>1. Candidate(answer) =
          [answer EXCEPT !.files = kept, !.diff = Rebuilt(kept, given, answer.diff)]
    BY <1>3 DEF Candidate
  <2>2. DOMAIN answer.files \subseteq File /\ \A f \in DOMAIN answer.files :
                                                answer.files[f] \in Contents
    BY <1>1, SomeFilesAre
  <2>3. bounded \in [DOMAIN bounded -> Contents] /\ DOMAIN bounded \subseteq File
    BY <2>2
  <2>4. kept \in SomeFiles
    BY <1>1, <2>3, SomeFilesAre
  <2> HIDE DEF kept, bounded
  <2>5. Rebuilt(kept, given, answer.diff) \subseteq Hunk
    <3>1. CASE DOMAIN kept \subseteq DOMAIN given
      <4>1. ASSUME NEW f \in DOMAIN kept
            PROVE  f \in File /\ kept[f] \in Contents /\ given[f] \in Contents
        BY <2>4, <3>1, <4>1, SomeFilesAre
      <4>2. Differences(kept, given) \subseteq Hunk
        BY <4>1 DEF Differences, Hunk, Contents
      <4> QED
        BY <1>1, <4>2 DEF Rebuilt
    <3>2. CASE ~(DOMAIN kept \subseteq DOMAIN given)
      BY <1>1, <3>2 DEF Rebuilt
    <3> QED
      BY <3>1, <3>2
  <2> QED
    BY <2>1, <2>4, <2>5 DEF PatchCandidate
<1> QED
  BY <1>2, <1>3

-----------------------------------------------------------------------------
\* The loop's types.

Places == {"away", "inspecting", "asking", "reviewing", "validating", "ready",
           "rejected", "failed", "comparing", "committing", "closed"}

LoopState ==
  [at : Places, area : SUBSET File, allowPaid : BOOLEAN, approved : BOOLEAN, bound : 0..3,
   revision : Nat, provider : 1..(Len(Providers) + 1), attempt : Nat,
   context : SomeFiles, candidate : PatchCandidate]

ImproveTyped ==
  /\ checkout \in [File -> Contents] /\ edits \in 0..MaxEdits /\ headMoved \in BOOLEAN
  /\ loop \in LoopState /\ loop.revision <= loop.bound
  /\ storedRun \in PatchCandidate /\ committed \in SomeFiles

LEMMA FreshTyped == Fresh \in LoopState /\ Fresh.revision <= Fresh.bound
<1>1. Len(Providers) \in Nat /\ 1 \in 1..(Len(Providers) + 1)
  BY ImprovementAssumption
<1> QED
  BY <1>1, NoCandidateTyped DEF Fresh, LoopState, Places

\* The loop goes to another place and keeps its other variables.
LEMMA GoesTyped ==
  ASSUME ImproveTyped, NEW to \in Places, LoopGoes(to)
  PROVE  /\ loop' \in LoopState /\ loop'.revision <= loop'.bound
         /\ loop'.at = to /\ loop'.candidate = loop.candidate
  BY DEF ImproveTyped, LoopState, LoopGoes

LEMMA AgainTyped ==
  ASSUME ImproveTyped, Again
  PROVE  /\ loop' \in LoopState /\ loop'.revision <= loop'.bound
         /\ loop'.at \in {"inspecting", "failed"}
<1>1. loop \in LoopState /\ loop.revision \in Nat /\ loop.bound \in 0..3
      /\ loop.revision <= loop.bound
  BY DEF ImproveTyped, LoopState
<1>2. CASE loop.revision < loop.bound
  <2>1. loop' = [loop EXCEPT !.at = "inspecting", !.revision = @ + 1]
    BY <1>2 DEF Again
  <2>2. loop.revision + 1 \in Nat /\ loop.revision + 1 <= loop.bound
    BY <1>1, <1>2
  <2> QED
    BY <1>1, <2>1, <2>2 DEF LoopState, Places
<1>3. CASE ~(loop.revision < loop.bound)
  <2>1. loop' = [loop EXCEPT !.at = "failed"]
    BY <1>3 DEF Again
  <2> QED
    BY <1>1, <2>1 DEF LoopState, Places
<1> QED
  BY <1>2, <1>3

LEMMA ProviderTyped ==
  ASSUME ImproveTyped, loop.provider <= Len(Providers)
  PROVE  NextProvider \in LoopState /\ NextProvider.revision <= NextProvider.bound
         /\ NextProvider.at = loop.at
<1>1. Len(Providers) \in Nat /\ loop.provider + 1 \in 1..(Len(Providers) + 1)
  BY ImprovementAssumption DEF ImproveTyped, LoopState
<1> QED
  BY <1>1 DEF NextProvider, ImproveTyped, LoopState

\* What a file is shown as.
LEMMA ContextTyped ==
  ASSUME ImproveTyped, NEW read \in SUBSET File
  PROVE  [f \in read |-> Shown(checkout[f])] \in SomeFiles
<1>1. \A f \in read : Shown(checkout[f]) \in Contents
  BY ImprovementAssumption DEF ImproveTyped, Shown, Contents, LineEnds
<1>2. [f \in read |-> Shown(checkout[f])] \in [read -> Contents]
  BY <1>1
<1> QED
  BY <1>2, SomeFilesAre

-----------------------------------------------------------------------------
\* What is stored was reviewed, and what is committed was compared.

BeforeStore == {"inspecting", "asking", "reviewing", "validating", "ready", "rejected",
                "failed"}

\* The comparison of execute_approved_change passed.
Compared == ProducedFrom(storedRun.diff, [f \in FilesOf(storedRun.diff) |-> Base[f]],
                         storedRun.files)

ReviewInv ==
  /\ storedRun # NoCandidate => Storable(storedRun)
  /\ loop.at \in BeforeStore => storedRun = NoCandidate
  /\ loop.at \in {"comparing", "committing"} => storedRun # NoCandidate
  /\ loop.at = "committing" => Compared
  /\ loop.at # "closed" => committed = NoFiles
  /\ committed # NoFiles =>
       storedRun # NoCandidate /\ Compared /\ committed = storedRun.files

ImproveInv == ImproveTyped /\ ReviewInv

\* A step of the loop before the candidate is stored, or back to the start.
LEMMA UnstoredStep ==
  ASSUME ImproveInv, OnlyLoop, loop' \in LoopState, loop'.revision <= loop'.bound,
         loop.at \in BeforeStore, loop'.at \in BeforeStore \cup {"away"}
  PROVE  ImproveInv'
<1>1. ImproveTyped'
  BY DEF ImproveInv, ImproveTyped, OnlyLoop
<1>2. storedRun = NoCandidate /\ committed = NoFiles
  BY DEF ImproveInv, ReviewInv, BeforeStore
<1>3. ReviewInv'
  BY <1>2 DEF OnlyLoop, ReviewInv, BeforeStore
<1> QED
  BY <1>1, <1>3 DEF ImproveInv

LEMMA ImproveInitInv == ImproveInit => ImproveInv
<1> SUFFICES ASSUME ImproveInit PROVE ImproveInv
  OBVIOUS
<1>1. 0 \in 0..MaxEdits /\ Base \in [File -> Contents]
  BY ImprovementAssumption
<1>2. ImproveTyped
  BY <1>1, FreshTyped, NoCandidateTyped DEF ImproveInit, ImproveTyped
<1>3. Fresh.at = "away"
  BY DEF Fresh
<1>4. ReviewInv
  BY <1>3 DEF ImproveInit, ReviewInv, BeforeStore
<1> QED
  BY <1>2, <1>4 DEF ImproveInv

LEMMA EnvironmentInv ==
  ASSUME ImproveInv, EditCheckout \/ MoveHead \/ UNCHANGED improveVars
  PROVE  ImproveInv'
<1>1. loop' = loop /\ storedRun' = storedRun /\ committed' = committed
  BY DEF EditCheckout, MoveHead, improveVars
<1>2. ReviewInv'
  BY <1>1 DEF ImproveInv, ReviewInv, Compared
<1>3. CASE EditCheckout
  <2>1. PICK edit \in Edits :
          checkout' = [checkout EXCEPT ![edit.file].lines[edit.region] = edit.text]
    BY <1>3 DEF EditCheckout
  <2>2. edit.file \in File /\ edit.region \in 1..2 /\ edit.text \in RegionText
    BY ImprovementAssumption
  <2>3. checkout' \in [File -> Contents]
    BY <2>1, <2>2 DEF ImproveInv, ImproveTyped, Contents
  <2>4. edits' \in 0..MaxEdits
    BY <1>3, ImprovementAssumption DEF EditCheckout, ImproveInv, ImproveTyped
  <2>5. ImproveTyped'
    BY <1>1, <1>3, <2>3, <2>4 DEF EditCheckout, ImproveInv, ImproveTyped
  <2> QED
    BY <1>2, <2>5 DEF ImproveInv
<1>4. CASE MoveHead \/ UNCHANGED improveVars
  <2>1. ImproveTyped'
    BY <1>1, <1>4 DEF MoveHead, improveVars, ImproveInv, ImproveTyped
  <2> QED
    BY <1>2, <2>1 DEF ImproveInv
<1> QED
  BY <1>3, <1>4

LEMMA LoopInv ==
  ASSUME ImproveInv,
         \/ StartImprovement \/ Inspect \/ SkipProvider \/ ModelAnswers \/ ModelFails
         \/ NoneAnswered \/ Review \/ TestsPass \/ TestsFail
  PROVE  ImproveInv'
<1>1. ImproveTyped /\ loop \in LoopState /\ loop.revision <= loop.bound
  BY DEF ImproveInv, ImproveTyped
<1>2. CASE StartImprovement
  <2>1. PICK area \in AffectedAreas, paid \in BOOLEAN, approved \in BOOLEAN,
             bound \in RevisionBounds :
          loop' = [Fresh EXCEPT !.at = "inspecting", !.area = area, !.allowPaid = paid,
                                !.approved = approved, !.bound = bound]
    BY <1>2 DEF StartImprovement
  <2>2. area \in SUBSET File /\ bound \in 0..3 /\ Fresh.revision = 0
    BY ImprovementAssumption DEF Fresh
  <2>3. /\ loop' \in LoopState /\ loop'.revision <= loop'.bound
        /\ loop'.at = "inspecting"
    <3>1. loop' = [at |-> "inspecting", area |-> area, allowPaid |-> paid,
                   approved |-> approved, bound |-> bound, revision |-> 0,
                   provider |-> 1, attempt |-> 0, context |-> NoFiles,
                   candidate |-> NoCandidate]
      BY <2>1 DEF Fresh
    <3>2. 1 \in 1..(Len(Providers) + 1)
      BY FreshTyped DEF LoopState, Fresh
    <3>3. NoFiles \in SomeFiles /\ NoCandidate \in PatchCandidate
      BY NoCandidateTyped
    <3> QED
      BY <2>2, <3>1, <3>2, <3>3 DEF LoopState, Places
  <2>4. storedRun = NoCandidate /\ committed = NoFiles /\ OnlyLoop
    BY <1>2 DEF StartImprovement, ImproveInv, ReviewInv
  <2>5. ImproveTyped'
    BY <1>1, <2>3, <2>4 DEF ImproveTyped, OnlyLoop
  <2>6. ReviewInv'
    BY <2>3, <2>4 DEF OnlyLoop, ReviewInv, BeforeStore
  <2> QED
    BY <2>5, <2>6 DEF ImproveInv
<1>3. CASE Inspect
  <2>1. CASE LoopGoes("failed")
    BY <1>1, <1>3, <2>1, GoesTyped, UnstoredStep DEF Inspect, Places, BeforeStore
  <2>2. CASE \E read \in SUBSET loop.area :
               loop' = [loop EXCEPT !.at = "asking", !.provider = 1, !.attempt = 0,
                                    !.context = [f \in read |-> Shown(checkout[f])]]
    <3>1. PICK read \in SUBSET loop.area :
                 loop' = [loop EXCEPT !.at = "asking", !.provider = 1, !.attempt = 0,
                                      !.context = [f \in read |-> Shown(checkout[f])]]
      BY <2>2
    <3>2. read \in SUBSET File
      BY <1>1 DEF LoopState
    <3> DEFINE context == [f \in read |-> Shown(checkout[f])]
    <3>3. context \in SomeFiles
      BY <1>1, <3>2, ContextTyped
    <3> HIDE DEF context
    <3>4. 1 \in 1..(Len(Providers) + 1)
      BY FreshTyped DEF LoopState, Fresh
    <3>5. loop' = [loop EXCEPT !.at = "asking", !.provider = 1, !.attempt = 0,
                               !.context = context]
      BY <3>1 DEF context
    <3>6. /\ loop' \in LoopState /\ loop'.revision <= loop'.bound /\ loop'.at = "asking"
      <4>1. loop' \in LoopState
        BY <1>1, <3>3, <3>4, <3>5 DEF LoopState, Places
      <4> QED
        BY <1>1, <3>5, <4>1 DEF LoopState
    <3>7. OnlyLoop /\ loop.at \in BeforeStore /\ loop'.at \in BeforeStore
      BY <1>3, <3>6 DEF Inspect, BeforeStore
    <3>8. loop'.at \in BeforeStore \cup {"away"}
      BY <3>7
    <3> QED
      BY <3>6, <3>7, <3>8, UnstoredStep, Zenon
  <2> QED
    BY <1>3, <2>1, <2>2 DEF Inspect
<1>4. CASE SkipProvider
  <2>1. OnlyLoop /\ loop' = NextProvider /\ loop.provider <= Len(Providers) /\ loop.at = "asking"
    BY <1>4 DEF SkipProvider
  <2> QED
    BY <1>1, <2>1, ProviderTyped, UnstoredStep DEF BeforeStore
<1>5. CASE ModelAnswers
  <2>1. PICK answer \in Answers :
          loop' = [loop EXCEPT !.at = "reviewing", !.candidate = Candidate(answer)]
    BY <1>5 DEF ModelAnswers
  <2>2. Candidate(answer) \in PatchCandidate
    BY <1>1, CandidateTyped, ImprovementAssumption DEF LoopState
  <2>3. /\ loop' \in LoopState /\ loop'.revision <= loop'.bound /\ loop'.at = "reviewing"
    BY <1>1, <2>1, <2>2 DEF LoopState, Places
  <2> QED
    BY <1>5, <2>3, UnstoredStep DEF ModelAnswers, BeforeStore
<1>6. CASE ModelFails
  <2>1. OnlyLoop /\ loop.at = "asking" /\ loop.provider <= Len(Providers)
        /\ loop' \in {[loop EXCEPT !.attempt = @ + 1], NextProvider}
    BY <1>6 DEF ModelFails
  <2>2. loop.attempt + 1 \in Nat
    BY <1>1 DEF LoopState
  <2>3. CASE loop' = NextProvider
    BY <2>1, <2>3, <1>1, ProviderTyped, UnstoredStep DEF BeforeStore
  <2>4. CASE loop' = [loop EXCEPT !.attempt = @ + 1]
    <3>1. loop' \in LoopState /\ loop'.revision <= loop'.bound /\ loop'.at = loop.at
      BY <1>1, <2>2, <2>4 DEF LoopState
    <3> QED
      BY <2>1, <3>1, UnstoredStep DEF BeforeStore
  <2> QED
    BY <2>1, <2>3, <2>4
<1>7. CASE NoneAnswered
  <2>1. OnlyLoop /\ loop.at = "asking" /\ (LoopGoes("failed") \/ LoopGoes("rejected"))
    BY <1>7 DEF NoneAnswered
  <2> QED
    BY <1>1, <2>1, GoesTyped, UnstoredStep DEF Places, BeforeStore
<1>8. CASE Review \/ TestsPass \/ TestsFail
  <2>1. OnlyLoop /\ loop.at \in {"reviewing", "validating"}
        /\ (LoopGoes("validating") \/ LoopGoes("ready") \/ Again)
    BY <1>8 DEF Review, TestsPass, TestsFail
  <2> QED
    BY <1>1, <2>1, GoesTyped, AgainTyped, UnstoredStep DEF Places, BeforeStore
<1> QED
  BY <1>2, <1>3, <1>4, <1>5, <1>6, <1>7, <1>8

LEMMA AfterLoopInv ==
  ASSUME ImproveInv,
         StoreRun \/ PrepareDraft \/ CompareWithBase \/ CommitFiles \/ ImproveCrash
  PROVE  ImproveInv'
<1>1. /\ ImproveTyped /\ loop \in LoopState /\ loop.revision <= loop.bound
      /\ storedRun \in PatchCandidate /\ storedRun.files \in SomeFiles
      /\ loop.candidate \in PatchCandidate
  BY DEF ImproveInv, ImproveTyped, LoopState, PatchCandidate
<1>2. CASE StoreRun
  <2>1. /\ storedRun = NoCandidate /\ committed = NoFiles /\ committed' = committed
        /\ UNCHANGED <<checkout, edits, headMoved>> /\ loop.at = "ready"
    BY <1>2 DEF StoreRun, ImproveInv, ReviewInv, BeforeStore
  <2>2. CASE Storable(loop.candidate) /\ storedRun' = loop.candidate /\ loop' = Fresh
    <3>1. ImproveTyped'
      BY <1>1, <2>1, <2>2, FreshTyped DEF ImproveTyped
    <3>2. loop'.at = "away"
      BY <2>2 DEF Fresh
    <3>3. ReviewInv'
      BY <2>1, <2>2, <3>2 DEF ReviewInv, BeforeStore
    <3> QED
      BY <3>1, <3>3 DEF ImproveInv
  <2>3. CASE UNCHANGED storedRun /\ LoopGoes("failed")
    BY <1>1, <2>1, <2>3, GoesTyped, UnstoredStep DEF OnlyLoop, Places, BeforeStore
  <2> QED
    BY <1>2, <2>2, <2>3 DEF StoreRun
<1>3. ASSUME OnlyLoop, loop.at \notin BeforeStore, loop.at # "closed",
             \/ LoopGoes("closed")
             \/ LoopGoes("comparing") /\ storedRun # NoCandidate
             \/ LoopGoes("committing") /\ storedRun # NoCandidate /\ Compared
      PROVE  ImproveInv'
  <2>1. /\ loop' \in LoopState /\ loop'.revision <= loop'.bound
        /\ loop'.at \in {"closed", "comparing", "committing"}
        /\ loop'.at \in {"comparing", "committing"} => storedRun # NoCandidate
        /\ loop'.at = "committing" => Compared
    BY <1>1, <1>3, GoesTyped DEF Places
  <2>2. ImproveTyped'
    BY <1>1, <1>3, <2>1 DEF ImproveTyped, OnlyLoop
  <2>3. Compared' <=> Compared
    BY <1>3 DEF OnlyLoop, Compared
  <2>4. ReviewInv'
    BY <1>3, <2>1, <2>3 DEF ImproveInv, ReviewInv, BeforeStore, OnlyLoop
  <2> QED
    BY <2>2, <2>4 DEF ImproveInv
<1>4. CASE PrepareDraft
  BY <1>3, <1>4 DEF PrepareDraft, BeforeStore
<1>5. CASE CompareWithBase
  <2>1. storedRun # NoCandidate /\ loop.at = "comparing" /\ OnlyLoop
        /\ ((LoopGoes("committing") /\ Compared) \/ LoopGoes("closed"))
    BY <1>5 DEF CompareWithBase, Compared, ImproveInv, ReviewInv
  <2> QED
    BY <1>3, <2>1 DEF BeforeStore
<1>6. CASE CommitFiles
  <2>1. /\ storedRun # NoCandidate /\ Compared /\ committed = NoFiles
        /\ committed' \in {storedRun.files, committed} /\ LoopGoes("closed")
        /\ UNCHANGED <<checkout, edits, headMoved, storedRun>>
    BY <1>6 DEF CommitFiles, ImproveInv, ReviewInv
  <2>2. loop' \in LoopState /\ loop'.revision <= loop'.bound /\ loop'.at = "closed"
    BY <1>1, <2>1, GoesTyped DEF Places
  <2>3. ImproveTyped'
    BY <1>1, <2>1, <2>2 DEF ImproveTyped
  <2>4. Compared'
    BY <2>1 DEF Compared
  <2>5. ReviewInv'
    BY <2>1, <2>2, <2>4 DEF ImproveInv, ReviewInv, BeforeStore
  <2> QED
    BY <2>3, <2>5 DEF ImproveInv
<1>7. CASE ImproveCrash
  <2>1. CASE loop.at \in {"comparing", "committing"}
    BY <1>3, <1>7, <2>1 DEF ImproveCrash, LoopGoes, BeforeStore
  <2>2. CASE loop.at \notin {"comparing", "committing"}
    <3>1. loop' = Fresh /\ OnlyLoop /\ loop.at \in BeforeStore
      BY <1>7, <2>2 DEF ImproveCrash, BeforeStore
    <3>2. Fresh.at = "away"
      BY DEF Fresh
    <3> QED
      BY <3>1, <3>2, FreshTyped, UnstoredStep
  <2> QED
    BY <2>1, <2>2
<1> QED
  BY <1>2, <1>4, <1>5, <1>6, <1>7

THEOREM ImprovementInvariant == ImproveSpec => []ImproveInv
<1>1. ImproveInv /\ [ImproveNext]_improveVars => ImproveInv'
  BY EnvironmentInv, LoopInv, AfterLoopInv DEF ImproveNext
<1> QED
  BY <1>1, ImproveInitInv, PTL DEF ImproveSpec

\* The types of the improvement loop.
THEOREM ImprovementTypes == ImproveSpec => []ImproveTypeOK
<1>1. ImproveInv => ImproveTypeOK
  <2> SUFFICES ASSUME ImproveInv PROVE ImproveTypeOK
    OBVIOUS
  <2>1. /\ loop \in LoopState /\ loop.revision <= loop.bound /\ committed \in SomeFiles
        /\ checkout \in [File -> Contents] /\ edits \in 0..MaxEdits /\ headMoved \in BOOLEAN
    BY DEF ImproveInv, ImproveTyped
  <2>2. loop.revision \in 0..loop.bound /\ loop.provider \in 1..(Len(Providers) + 1)
    BY <2>1 DEF LoopState
  <2>3. loop.candidate.diff \subseteq Hunk /\ loop.at \in Places
    BY <2>1 DEF LoopState, PatchCandidate
  <2>4. \A f \in DOMAIN committed : committed[f] \in Contents
    BY <2>1, SomeFilesAre
  <2> QED
    BY <2>1, <2>2, <2>3, <2>4 DEF ImproveTypeOK, Places
<1> QED
  BY <1>1, ImprovementInvariant, PTL

\* A commit has the lines of the approved commit but for reviewed hunks, whatever the
\* files, the answers, the edits and the number of revisions (execute_approved_change).
THEOREM CommitsAreReviewed == ImproveSpec => []CommittedIsReviewed
<1>1. ImproveInv => CommittedIsReviewed
  <2> DEFINE diff == storedRun.diff
             base == [f \in FilesOf(diff) |-> Base[f]]
  <2> SUFFICES ASSUME ImproveInv, NEW f \in DOMAIN committed
               PROVE  /\ f \notin Forbidden
                      /\ \A region \in 1..2 :
                           \/ committed[f].lines[region] = Base[f].lines[region]
                           \/ /\ committed[f].lines[region] # SecretText
                              /\ [file |-> f, region |-> region,
                                  old |-> Base[f].lines[region],
                                  new |-> committed[f].lines[region]] \in diff
    BY DEF CommittedIsReviewed
  <2>1. committed # NoFiles
    BY NoCandidateTyped
  <2>2. /\ Storable(storedRun) /\ AppliesTo(diff, base)
        /\ SameLines(committed, Applied(diff, base))
    BY <2>1 DEF ImproveInv, ReviewInv, Compared, ProducedFrom
  <2>3. f \in FilesOf(diff) /\ FilesOf(diff) \cap Forbidden = {}
        /\ committed[f].lines = Applied(diff, base)[f].lines
    BY <2>2 DEF Applied, SameLines, Storable, Reviewable
  <2>4. diff \in SUBSET Hunk
    BY DEF ImproveInv, ImproveTyped, PatchCandidate
  <2>5. ASSUME NEW region \in 1..2, committed[f].lines[region] # Base[f].lines[region]
        PROVE  /\ committed[f].lines[region] # SecretText
               /\ [file |-> f, region |-> region, old |-> Base[f].lines[region],
                   new |-> committed[f].lines[region]] \in diff
    <3>1. base[f] = Base[f]
      BY <2>3
    <3> HIDE DEF diff, base
    <3>2. PICK hunk \in diff : /\ hunk.file = f /\ hunk.region = region
                               /\ committed[f].lines[region] = hunk.new
      BY <2>3, <2>4, <2>5, <3>1, AppliedPointwise
    <3>3. hunk.old = Base[f].lines[region]
      BY <2>2, <3>1, <3>2 DEF AppliesTo
    <3>4. hunk = [file |-> hunk.file, region |-> hunk.region, old |-> hunk.old,
                  new |-> hunk.new]
      BY <2>4 DEF Hunk
    <3>5. hunk.new # SecretText
      BY <2>2 DEF Storable, diff
    <3> QED
      BY <3>2, <3>3, <3>4, <3>5
  <2> QED
    BY <2>3, <2>5
<1> QED
  BY <1>1, ImprovementInvariant, PTL
-----------------------------------------------------------------------------
\* The bounded memory: what _save keeps of a list of entries.

\* The entries of the same project behind the one at i, and whether it is kept.
Newer(s, i) == {j \in DOMAIN s : j > i /\ s[j].project = s[i].project}
Stays(s, i) == Cardinality(Newer(s, i)) < PerProject

\* What is kept of the first n entries, as a table: the function _save walks.
KeptTable(s, n, f) ==
  f = [i \in 0..n |-> IF i = 0 THEN <<>>
                      ELSE IF Stays(s, i) THEN Append(f[i - 1], s[i]) ELSE f[i - 1]]

LEMMA KeptExists ==
  ASSUME NEW s, NEW N \in Nat
  PROVE  \E f : KeptTable(s, N, f)
<1> DEFINE keep == {i \in 1..N : Stays(s, i)}
<1>1. PICK f : Sieve(s, keep, N, f)
  BY SieveExists
<1>2. \A i \in 0..N : i # 0 => (i \in keep <=> Stays(s, i))
  OBVIOUS
<1> HIDE DEF keep
<1>3. KeptTable(s, N, f)
  BY <1>1, <1>2 DEF Sieve, KeptTable
<1> QED
  BY <1>3

\* h says where the entries of r stand in s: in their order, and they are those of the
\* first n that stay.
Thinned(s, n, r, h) ==
  /\ r \in Seq(Entry)
  /\ \A k \in DOMAIN r : /\ h[k] \in 1..n /\ Stays(s, h[k]) /\ s[h[k]] = r[k]
                         /\ \A l \in DOMAIN r : k < l => h[k] < h[l]
  /\ \A i \in 1..n : Stays(s, i) => \E k \in DOMAIN r : h[k] = i

LEMMA ThinnedStep ==
  ASSUME NEW s \in Seq(Entry), NEW n \in Nat, n + 1 <= Len(s), NEW r, NEW h,
         Thinned(s, n, r, h)
  PROVE  \E g : Thinned(s, n + 1, IF Stays(s, n + 1) THEN Append(r, s[n + 1]) ELSE r, g)
<1>1. r \in Seq(Entry) /\ s[n + 1] \in Entry
  BY DEF Thinned
<1>2. CASE ~Stays(s, n + 1)
  <2>1. Thinned(s, n + 1, r, h)
    BY <1>2 DEF Thinned
  <2> QED
    BY <1>2, <2>1
<1>3. CASE Stays(s, n + 1)
  <2> DEFINE t == Append(r, s[n + 1])
             m == Len(r) + 1
             g == [k \in 1..m |-> IF k = m THEN n + 1 ELSE h[k]]
  <2>1. /\ t \in Seq(Entry) /\ DOMAIN t = 1..m /\ t[m] = s[n + 1]
        /\ \A k \in DOMAIN r : t[k] = r[k]
        /\ m \in DOMAIN t /\ DOMAIN r = 1..(m - 1) /\ m \notin DOMAIN r /\ m \in Nat
    BY <1>1
  <2>2. g[m] = n + 1 /\ \A k \in DOMAIN r : g[k] = h[k]
    BY <2>1
  <2> HIDE DEF t, m, g
  <2>3. ASSUME NEW k \in DOMAIN t
        PROVE  /\ g[k] \in 1..(n + 1) /\ Stays(s, g[k]) /\ s[g[k]] = t[k]
               /\ \A l \in DOMAIN t : k < l => g[k] < g[l]
    <3>1. CASE k = m
      BY <1>3, <2>1, <2>2, <3>1
    <3>2. CASE k # m
      <4>1. k \in DOMAIN r
        BY <2>1, <3>2
      <4>2. /\ h[k] \in 1..n /\ Stays(s, h[k]) /\ s[h[k]] = r[k]
            /\ \A l \in DOMAIN r : k < l => h[k] < h[l]
        BY <4>1 DEF Thinned
      <4>3. \A l \in DOMAIN t : l = m \/ l \in DOMAIN r
        BY <2>1
      <4>4. \A l \in DOMAIN t : k < l => g[k] < g[l]
        BY <2>2, <4>1, <4>2, <4>3
      <4> QED
        BY <2>1, <2>2, <4>1, <4>2, <4>4
    <3> QED
      BY <3>1, <3>2
  <2>4. ASSUME NEW i \in 1..(n + 1), Stays(s, i)
        PROVE  \E k \in DOMAIN t : g[k] = i
    <3>1. CASE i = n + 1
      BY <2>1, <2>2, <3>1
    <3>2. CASE i # n + 1
      <4>1. PICK k \in DOMAIN r : h[k] = i
        BY <2>4, <3>2 DEF Thinned
      <4> QED
        BY <2>1, <2>2, <4>1
    <3> QED
      BY <3>1, <3>2
  <2>5. Thinned(s, n + 1, t, g)
    BY <2>1, <2>3, <2>4 DEF Thinned
  <2> QED
    BY <1>3, <2>5 DEF t
<1> QED
  BY <1>2, <1>3

LEMMA KeptIsThinned ==
  ASSUME NEW s \in Seq(Entry), NEW f, KeptTable(s, Len(s), f)
  PROVE  \E h : Thinned(s, Len(s), f[Len(s)], h)
<1> DEFINE N == Len(s)
           Bad == {n \in 0..N : ~ \E h : Thinned(s, n, f[n], h)}
<1>N. N \in Nat
  OBVIOUS
<1> HIDE DEF N
<1> SUFFICES ASSUME Bad # {} PROVE FALSE
  BY <1>N DEF N
<1>0. Bad \in SUBSET Nat
  BY <1>N
<1> HIDE DEF Bad
<1>1. PICK m \in Bad : \A k \in Bad : m <= k
  BY <1>0, LeastNatural
<1> USE DEF Bad
<1>2. m \in 0..N
  BY <1>1
<1>3. f[m] = IF m = 0 THEN <<>>
             ELSE IF Stays(s, m) THEN Append(f[m - 1], s[m]) ELSE f[m - 1]
  BY <1>2 DEF KeptTable, N
<1>4. m # 0
  <2>1. Thinned(s, 0, <<>>, <<>>)
    BY DEF Thinned
  <2> QED
    BY <1>1, <1>3, <2>1
<1>5. m - 1 \in 0..N /\ m - 1 \in Nat /\ ~(m <= m - 1) /\ (m - 1) + 1 = m /\ m <= N
  BY <1>N, <1>2, <1>4
<1>6. PICK h : Thinned(s, m - 1, f[m - 1], h)
  BY <1>1, <1>5
<1>7. \E g : Thinned(s, m, f[m], g)
  <2>1. m <= Len(s)
    BY <1>5 DEF N
  <2>2. \E g : Thinned(s, (m - 1) + 1,
                       IF Stays(s, (m - 1) + 1) THEN Append(f[m - 1], s[(m - 1) + 1])
                       ELSE f[m - 1], g)
    BY <1>5, <1>6, <2>1, ThinnedStep
  <2> QED
    BY <1>3, <1>4, <1>5, <2>2
<1> QED
  BY <1>1, <1>7
\* _save: what is left is in the order it was in, and an entry that is left has all
\* the later ones of its project with it.
LEMMA BoundedKeeps ==
  ASSUME NEW s \in Seq(Entry)
  PROVE  /\ Bounded(s) \in Seq(Entry)
         /\ \E g : /\ \A k \in DOMAIN Bounded(s) :
                        /\ g[k] \in DOMAIN s /\ s[g[k]] = Bounded(s)[k]
                        /\ \A l \in DOMAIN Bounded(s) : k < l => g[k] < g[l]
                   /\ \A k \in DOMAIN Bounded(s), b \in DOMAIN s :
                        g[k] < b /\ s[b].project = Bounded(s)[k].project
                          => \E l \in DOMAIN Bounded(s) : g[l] = b
<1> DEFINE off == IF Len(s) <= MemoryLimit THEN 0 ELSE Len(s) - MemoryLimit
           last == IF Len(s) <= MemoryLimit THEN s
                   ELSE SubSeq(s, Len(s) - MemoryLimit + 1, Len(s))
           F == CHOOSE f : KeptTable(last, Len(last), f)
           r == F[Len(last)]
<1>1. MemoryLimit \in Nat /\ Len(s) \in Nat
  BY MonitorAssumption
<1>2. /\ off \in Nat /\ last \in Seq(Entry) /\ Len(s) = off + Len(last)
      /\ \A k \in 1..Len(last) : last[k] = s[off + k]
  BY <1>1
<1> HIDE DEF off
<1>3. Bounded(s) = r
  BY DEF Bounded, KeptTable, Stays, Newer
<1> HIDE DEF last
<1>4. KeptTable(last, Len(last), F)
  <2>1. Len(last) \in Nat
    BY <1>2
  <2> QED
    BY <2>1, KeptExists
<1> HIDE DEF F
<1>5. PICK h : Thinned(last, Len(last), r, h)
  BY <1>2, <1>4, KeptIsThinned
<1> HIDE DEF r
<1>6. PICK g : g = [k \in DOMAIN r |-> off + h[k]]
  OBVIOUS
<1>7. r \in Seq(Entry)
  BY <1>5 DEF Thinned
<1>8. ASSUME NEW k \in DOMAIN r
      PROVE  /\ g[k] \in DOMAIN s /\ s[g[k]] = r[k]
             /\ \A l \in DOMAIN r : k < l => g[k] < g[l]
  <2>1. /\ h[k] \in 1..Len(last) /\ last[h[k]] = r[k]
        /\ \A l \in DOMAIN r : h[l] \in 1..Len(last) /\ (k < l => h[k] < h[l])
    BY <1>5 DEF Thinned
  <2>2. g[k] = off + h[k] /\ \A l \in DOMAIN r : g[l] = off + h[l]
    BY <1>6
  <2>3. s[g[k]] = r[k]
    BY <1>2, <2>1, <2>2
  <2>4. g[k] \in DOMAIN s
    BY <1>1, <1>2, <2>1, <2>2
  <2>5. ASSUME NEW l \in DOMAIN r, k < l PROVE g[k] < g[l]
    <3>1. h[k] < h[l] /\ h[k] \in Nat /\ h[l] \in Nat
      BY <2>1, <2>5
    <3> QED
      BY <1>2, <2>2, <3>1
  <2> QED
    BY <2>3, <2>4, <2>5
<1>9. ASSUME NEW k \in DOMAIN r, NEW b \in DOMAIN s, g[k] < b, s[b].project = r[k].project
      PROVE  \E l \in DOMAIN r : g[l] = b
  <2>1. h[k] \in 1..Len(last) /\ Stays(last, h[k]) /\ last[h[k]] = r[k]
    BY <1>5 DEF Thinned
  <2>2. PICK i : i = b - off
    OBVIOUS
  <2>3. i \in 1..Len(last) /\ h[k] < i /\ last[i] = s[b] /\ b = off + i
    BY <1>1, <1>2, <1>6, <1>9, <2>1, <2>2
  <2>4. Stays(last, i)
    <3>1. Newer(last, i) \in SUBSET Newer(last, h[k])
      BY <1>2, <1>9, <2>1, <2>3 DEF Newer
    <3>2. IsFiniteSet(Newer(last, h[k]))
      <4>1. Newer(last, h[k]) \in SUBSET (1..Len(last)) /\ Len(last) \in Int
        BY <1>2 DEF Newer
      <4>2. IsFiniteSet(1..Len(last))
        BY <4>1, FS_Interval
      <4> QED
        BY <4>1, <4>2, FS_Subset
    <3>3. /\ Cardinality(Newer(last, i)) <= Cardinality(Newer(last, h[k]))
          /\ Cardinality(Newer(last, i)) \in Nat /\ Cardinality(Newer(last, h[k])) \in Nat
      BY <3>1, <3>2, FS_Subset, FS_CardinalityType
    <3> QED
      BY <2>1, <3>3, MonitorAssumption DEF Stays
  <2>5. PICK l \in DOMAIN r : h[l] = i
    BY <1>5, <2>3, <2>4 DEF Thinned
  <2> QED
    BY <1>6, <2>3, <2>5
<1>10. \A k \in DOMAIN r, b \in DOMAIN s :
         g[k] < b /\ s[b].project = r[k].project => \E l \in DOMAIN r : g[l] = b
  BY <1>9
<1>11. \A k \in DOMAIN r : /\ g[k] \in DOMAIN s /\ s[g[k]] = r[k]
                            /\ \A l \in DOMAIN r : k < l => g[k] < g[l]
  BY <1>8
<1>12. \E f : /\ \A k \in DOMAIN Bounded(s) :
                   /\ f[k] \in DOMAIN s /\ s[f[k]] = Bounded(s)[k]
                   /\ \A l \in DOMAIN Bounded(s) : k < l => f[k] < f[l]
              /\ \A k \in DOMAIN Bounded(s), b \in DOMAIN s :
                   f[k] < b /\ s[b].project = Bounded(s)[k].project
                     => \E l \in DOMAIN Bounded(s) : f[l] = b
  <2> WITNESS g
  <2> QED
    BY <1>3, <1>10, <1>11
<1> QED
  BY <1>3, <1>7, <1>12

-----------------------------------------------------------------------------
\* The observations of a list, in a shorter one.

IsObservation(entry) == entry.kind = "observation"

\* What ObservationsNeverGoBack says of two observations of a list.
Forward(s, i, j) ==
  /\ s[i].at <= s[j].at /\ s[i].evidence # s[j].evidence
  /\ (/\ s[i].outcome = "regressed" /\ Verified(s[j].evidence)
      /\ \A k \in (i + 1)..(j - 1) :
           ~IsObservation(s[k]) \/ s[k].evidence.head # s[i].evidence.head)
     => s[j].outcome = "improved"
SameChange(s, i, j) == /\ IsObservation(s[i]) /\ IsObservation(s[j])
                       /\ i < j /\ s[i].evidence.head = s[j].evidence.head
NeverBack(s) == \A i, j \in DOMAIN s : SameChange(s, i, j) => Forward(s, i, j)

LEMMA NeverBackIsIt == ObservationsNeverGoBack <=> NeverBack(memory)
  BY DEF ObservationsNeverGoBack, NeverBack, Forward, SameChange, IsObservation

\* The observations of t are the latest of s, where g says.
LatestOf(s, t, g) ==
  /\ \A k \in DOMAIN t : IsObservation(t[k]) =>
        /\ g[k] \in DOMAIN s /\ s[g[k]] = t[k]
        /\ \A l \in DOMAIN t : IsObservation(t[l]) /\ k < l => g[k] < g[l]
        /\ \A b \in DOMAIN s : IsObservation(s[b]) /\ g[k] < b
             => \E l \in DOMAIN t : IsObservation(t[l]) /\ g[l] = b

LEMMA LatestNeverBack ==
  ASSUME NEW s \in Seq(Entry), NEW t \in Seq(Entry), NEW g, LatestOf(s, t, g), NeverBack(s)
  PROVE  NeverBack(t)
<1> SUFFICES ASSUME NEW i \in DOMAIN t, NEW j \in DOMAIN t, SameChange(t, i, j)
             PROVE  Forward(t, i, j)
  BY DEF NeverBack
<1>1. /\ IsObservation(t[i]) /\ IsObservation(t[j]) /\ i < j
      /\ t[i].evidence.head = t[j].evidence.head
  BY DEF SameChange
<1>2. /\ g[i] \in DOMAIN s /\ g[j] \in DOMAIN s /\ s[g[i]] = t[i] /\ s[g[j]] = t[j]
      /\ g[i] < g[j]
  BY <1>1 DEF LatestOf
<1>3. Forward(s, g[i], g[j])
  BY <1>1, <1>2 DEF NeverBack, SameChange
<1>4. ASSUME \A k \in (i + 1)..(j - 1) :
               ~IsObservation(t[k]) \/ t[k].evidence.head # t[i].evidence.head
      PROVE  \A b \in (g[i] + 1)..(g[j] - 1) :
               ~IsObservation(s[b]) \/ s[b].evidence.head # s[g[i]].evidence.head
  <2> SUFFICES ASSUME NEW b \in (g[i] + 1)..(g[j] - 1), IsObservation(s[b]),
                      s[b].evidence.head = t[i].evidence.head
               PROVE  FALSE
    BY <1>2
  <2>1. g[i] \in Nat /\ g[j] \in Nat /\ b \in DOMAIN s /\ g[i] < b /\ b < g[j]
    BY <1>2
  <2>2. PICK l \in DOMAIN t : IsObservation(t[l]) /\ g[l] = b
    BY <1>1, <2>1 DEF LatestOf
  <2>3. t[l] = s[b]
    BY <2>2 DEF LatestOf
  <2>4. ~(l < i) /\ l # i
    <3>1. l < i => g[l] < g[i]
      BY <1>1, <2>2 DEF LatestOf
    <3> QED
      BY <2>1, <2>2, <3>1
  <2>5. ~(j < l) /\ l # j
    <3>1. j < l => g[j] < g[l]
      BY <1>1, <2>2 DEF LatestOf
    <3> QED
      BY <2>1, <2>2, <3>1
  <2>6. l \in (i + 1)..(j - 1)
    BY <2>4, <2>5
  <2> QED
    BY <1>4, <2>2, <2>3, <2>6
<1> QED
  BY <1>2, <1>3, <1>4 DEF Forward
\* Observations are ours.
OursOnly(s) == \A i \in DOMAIN s : IsObservation(s[i]) => s[i].project = "ours"

\* What is recorded pushes out only what is older.
LEMMA RecordsLatest ==
  ASSUME memory \in Seq(Entry), NEW x \in Entry, Records(x),
         OursOnly(Append(memory, x))
  PROVE  /\ memory' \in Seq(Entry) /\ OursOnly(memory')
         /\ \E g : LatestOf(Append(memory, x), memory', g)
<1> DEFINE s == Append(memory, x)
<1>1. s \in Seq(Entry) /\ memory' = Bounded(s)
  BY DEF Records
<1> HIDE DEF s
<1>2. PICK g : /\ \A k \in DOMAIN Bounded(s) :
                    /\ g[k] \in DOMAIN s /\ s[g[k]] = Bounded(s)[k]
                    /\ \A l \in DOMAIN Bounded(s) : k < l => g[k] < g[l]
               /\ \A k \in DOMAIN Bounded(s), b \in DOMAIN s :
                    g[k] < b /\ s[b].project = Bounded(s)[k].project
                      => \E l \in DOMAIN Bounded(s) : g[l] = b
  BY <1>1, BoundedKeeps
<1>3. Bounded(s) \in Seq(Entry)
  BY <1>1, BoundedKeeps
<1>4. PICK t : t = Bounded(s)
  OBVIOUS
<1>5. /\ \A k \in DOMAIN t : /\ g[k] \in DOMAIN s /\ s[g[k]] = t[k]
                             /\ \A l \in DOMAIN t : k < l => g[k] < g[l]
      /\ \A k \in DOMAIN t, b \in DOMAIN s :
           g[k] < b /\ s[b].project = t[k].project => \E l \in DOMAIN t : g[l] = b
  BY <1>2, <1>4
<1>6. OursOnly(s)
  BY DEF s
<1>7. OursOnly(t)
  BY <1>5, <1>6 DEF OursOnly
<1>8. LatestOf(s, t, g)
  <2> SUFFICES ASSUME NEW k \in DOMAIN t, IsObservation(t[k])
               PROVE  /\ g[k] \in DOMAIN s /\ s[g[k]] = t[k]
                      /\ \A l \in DOMAIN t : IsObservation(t[l]) /\ k < l => g[k] < g[l]
                      /\ \A b \in DOMAIN s : IsObservation(s[b]) /\ g[k] < b
                           => \E l \in DOMAIN t : IsObservation(t[l]) /\ g[l] = b
    BY DEF LatestOf
  <2>1. ASSUME NEW b \in DOMAIN s, IsObservation(s[b]), g[k] < b
        PROVE  \E l \in DOMAIN t : IsObservation(t[l]) /\ g[l] = b
    <3>1. s[b].project = "ours" /\ t[k].project = "ours"
      BY <1>6, <1>7, <2>1 DEF OursOnly
    <3>2. PICK l \in DOMAIN t : g[l] = b
      BY <1>5, <2>1, <3>1
    <3>3. t[l] = s[b]
      BY <1>5, <3>2
    <3> QED
      BY <2>1, <3>2, <3>3
  <2> QED
    BY <1>5, <2>1
<1> QED
  BY <1>1, <1>3, <1>4, <1>7, <1>8 DEF s

\* A record of something else leaves the observations their latest, and with one more
\* observation behind them too.
LEMMA OthersLatest ==
  ASSUME NEW s \in Seq(Entry), NEW x \in Entry, ~IsObservation(x), NEW t \in Seq(Entry),
         NEW g, LatestOf(Append(s, x), t, g), NEW o \in Entry, IsObservation(o)
  PROVE  /\ LatestOf(s, t, g)
         /\ \E f : LatestOf(Append(s, o), Append(t, o), f)
<1> DEFINE m == Len(t) + 1
           n == Len(s) + 1
<1>1. /\ m \notin DOMAIN t /\ DOMAIN Append(t, o) = DOMAIN t \cup {m} /\ Append(t, o)[m] = o
      /\ \A k \in DOMAIN t : Append(t, o)[k] = t[k] /\ k < m /\ k \in Nat
      /\ m \in Nat
  OBVIOUS
<1>2. /\ n \notin DOMAIN s /\ DOMAIN Append(s, o) = DOMAIN s \cup {n} /\ Append(s, o)[n] = o
      /\ \A k \in DOMAIN s : Append(s, o)[k] = s[k] /\ k < n /\ k \in Nat
      /\ n \in Nat
  OBVIOUS
<1>3. /\ DOMAIN Append(s, x) = DOMAIN s \cup {n} /\ Append(s, x)[n] = x
      /\ \A k \in DOMAIN s : Append(s, x)[k] = s[k]
  OBVIOUS
<1> HIDE DEF m, n
<1>4. LatestOf(s, t, g)
  <2> SUFFICES ASSUME NEW k \in DOMAIN t, IsObservation(t[k])
               PROVE  /\ g[k] \in DOMAIN s /\ s[g[k]] = t[k]
                      /\ \A l \in DOMAIN t : IsObservation(t[l]) /\ k < l => g[k] < g[l]
                      /\ \A b \in DOMAIN s : IsObservation(s[b]) /\ g[k] < b
                           => \E l \in DOMAIN t : IsObservation(t[l]) /\ g[l] = b
    BY DEF LatestOf
  <2>1. /\ g[k] \in DOMAIN Append(s, x) /\ Append(s, x)[g[k]] = t[k]
        /\ \A l \in DOMAIN t : IsObservation(t[l]) /\ k < l => g[k] < g[l]
        /\ \A b \in DOMAIN Append(s, x) : IsObservation(Append(s, x)[b]) /\ g[k] < b
             => \E l \in DOMAIN t : IsObservation(t[l]) /\ g[l] = b
    BY DEF LatestOf
  <2>2. g[k] \in DOMAIN s
    BY <1>3, <2>1
  <2> QED
    BY <1>3, <2>1, <2>2
<1>5. PICK f : f = [k \in DOMAIN t \cup {m} |-> IF k = m THEN n ELSE g[k]]
  OBVIOUS
<1>6. f[m] = n /\ \A k \in DOMAIN t : f[k] = g[k]
  BY <1>1, <1>5
<1>7. PICK so, to : so = Append(s, o) /\ to = Append(t, o)
  OBVIOUS
<1>8. LatestOf(so, to, f)
  <2> SUFFICES ASSUME NEW k \in DOMAIN to, IsObservation(to[k])
               PROVE  /\ f[k] \in DOMAIN so /\ so[f[k]] = to[k]
                      /\ \A l \in DOMAIN to : IsObservation(to[l]) /\ k < l => f[k] < f[l]
                      /\ \A b \in DOMAIN so : IsObservation(so[b]) /\ f[k] < b
                           => \E l \in DOMAIN to : IsObservation(to[l]) /\ f[l] = b
    BY DEF LatestOf
  <2>1. /\ DOMAIN to = DOMAIN t \cup {m} /\ to[m] = o /\ \A l \in DOMAIN t : to[l] = t[l]
        /\ DOMAIN so = DOMAIN s \cup {n} /\ so[n] = o /\ \A l \in DOMAIN s : so[l] = s[l]
    BY <1>1, <1>2, <1>7
  <2>2. CASE k = m
    <3>1. ASSUME NEW l \in DOMAIN to, m < l PROVE FALSE
      BY <1>1, <2>1, <3>1
    <3>2. ASSUME NEW b \in DOMAIN so, n < b PROVE FALSE
      BY <1>2, <2>1, <3>2
    <3> QED
      BY <1>6, <2>1, <2>2, <3>1, <3>2
  <2>3. CASE k # m
    <3>1. k \in DOMAIN t /\ IsObservation(t[k]) /\ f[k] = g[k]
      BY <1>6, <2>1, <2>3
    <3>2. /\ g[k] \in DOMAIN s /\ s[g[k]] = t[k]
          /\ \A l \in DOMAIN t : IsObservation(t[l]) /\ k < l => g[k] < g[l]
          /\ \A b \in DOMAIN s : IsObservation(s[b]) /\ g[k] < b
               => \E l \in DOMAIN t : IsObservation(t[l]) /\ g[l] = b
      BY <1>4, <3>1 DEF LatestOf
    <3>3. ASSUME NEW l \in DOMAIN to, IsObservation(to[l]), k < l PROVE f[k] < f[l]
      BY <1>2, <1>6, <2>1, <3>1, <3>2, <3>3
    <3>4. ASSUME NEW b \in DOMAIN so, IsObservation(so[b]), g[k] < b
          PROVE  \E l \in DOMAIN to : IsObservation(to[l]) /\ f[l] = b
      BY <1>6, <2>1, <3>2, <3>4
    <3> QED
      BY <2>1, <3>1, <3>2, <3>3, <3>4
  <2> QED
    BY <2>2, <2>3
<1> QED
  BY <1>4, <1>7, <1>8
-----------------------------------------------------------------------------
\* The observer: what it is about to record fits what is remembered.

Fits == NeverBack(Append(memory, OwnEntry("observation")))
IsNews == \A i \in DOMAIN memory :
             IsObservation(memory[i]) => memory[i].evidence # observer.evidence

MonitorInv ==
  /\ shown \in Seq(PullState) /\ observations \in 0..MaxObservations
  /\ others \in 0..MaxOtherEvents
  /\ memory \in Seq(Entry)
  /\ observer \in [at : {"away", "reading", "asking", "learning", "finding", "recording"},
                   evidence : ChangeEvidence, observed : Nat,
                   outcome : Outcomes \cup {"none"}]
  /\ OursOnly(memory) /\ NeverBack(memory)
  /\ observer.at = "learning" => IsNews
  /\ observer.at \in {"finding", "recording"} => Fits

LEMMA GreatestOf ==
  ASSUME NEW n \in Nat, NEW T \in SUBSET (1..n), T # {}
  PROVE  \E x \in T : \A y \in T : y <= x
<1> DEFINE U == {d \in 0..n : n - d \in T}
<1>1. U \in SUBSET Nat /\ U # {}
  <2>1. PICK y \in T : TRUE
    OBVIOUS
  <2>2. n - y \in 0..n /\ n - (n - y) = y
    BY <2>1
  <2>3. PICK d : d = n - y
    OBVIOUS
  <2>4. d \in 0..n /\ n - d \in T
    BY <2>1, <2>2, <2>3
  <2> QED
    BY <2>4
<1> HIDE DEF U
<1>2. PICK d \in U : \A e \in U : d <= e
  BY <1>1, LeastNatural
<1>3. d \in 0..n /\ n - d \in T
  BY <1>2 DEF U
<1>4. ASSUME NEW y \in T PROVE y <= n - d
  <2>1. y \in 1..n /\ n - y \in 0..n /\ n - (n - y) = y
    OBVIOUS
  <2>2. n - y \in U
    BY <2>1 DEF U
  <2>3. d <= n - y
    BY <1>2, <2>2
  <2> QED
    BY <1>3, <2>1, <2>3
<1> QED
  BY <1>3, <1>4

LEMMA OwnEntryTyped ==
  ASSUME MonitorInv, NEW kind \in {"observation", "finding", "event"}
  PROVE  OwnEntry(kind) \in Entry
  BY DEF MonitorInv, OwnEntry, Entry

LEMMA AwayTyped ==
  Away \in [at : {"away", "reading", "asking", "learning", "finding", "recording"},
            evidence : ChangeEvidence, observed : Nat, outcome : Outcomes \cup {"none"}]
<1>1. <<>> \in Seq(Statuses)
  OBVIOUS
<1> QED
  BY <1>1, MonitorAssumption DEF Away, NothingSeen, ChangeEvidence

\* An entry that is not an observation leaves the memory as the invariant wants it.
LEMMA AnotherEntry ==
  ASSUME MonitorInv, NEW x \in Entry, ~IsObservation(x), Records(x)
  PROVE  /\ memory' \in Seq(Entry) /\ OursOnly(memory') /\ NeverBack(memory')
         /\ IsNews => \A i \in DOMAIN memory' :
                         IsObservation(memory'[i]) => memory'[i].evidence # observer.evidence
         /\ Fits => NeverBack(Append(memory', OwnEntry("observation")))
<1>1. memory \in Seq(Entry) /\ OursOnly(memory) /\ NeverBack(memory)
  BY DEF MonitorInv
<1>2. OursOnly(Append(memory, x))
  BY <1>1 DEF OursOnly
<1>3. memory' \in Seq(Entry) /\ OursOnly(memory')
  BY <1>1, <1>2, RecordsLatest
<1>4. PICK g : LatestOf(Append(memory, x), memory', g)
  BY <1>1, <1>2, RecordsLatest
<1>5. PICK o : o = OwnEntry("observation")
  OBVIOUS
<1>6. o \in Entry /\ IsObservation(o)
  BY <1>5, OwnEntryTyped DEF OwnEntry, IsObservation
<1>7. PICK s, t : s = memory /\ t = memory'
  OBVIOUS
<1>8. /\ s \in Seq(Entry) /\ t \in Seq(Entry) /\ LatestOf(Append(s, x), t, g)
  BY <1>1, <1>3, <1>4, <1>7
<1>9. LatestOf(s, t, g) /\ \E f : LatestOf(Append(s, o), Append(t, o), f)
  BY <1>6, <1>8, OthersLatest
<1>10. NeverBack(t)
  BY <1>1, <1>7, <1>8, <1>9, LatestNeverBack
<1>11. IsNews => \A i \in DOMAIN t : IsObservation(t[i]) => t[i].evidence # observer.evidence
  BY <1>7, <1>9 DEF IsNews, LatestOf
<1>12. Fits => NeverBack(Append(t, o))
  <2>1. PICK f : LatestOf(Append(s, o), Append(t, o), f)
    BY <1>9
  <2>2. Append(s, o) \in Seq(Entry) /\ Append(t, o) \in Seq(Entry)
    BY <1>6, <1>8
  <2>3. Fits => NeverBack(Append(s, o))
    BY <1>5, <1>7 DEF Fits
  <2> QED
    BY <2>1, <2>2, <2>3, LatestNeverBack
<1> QED
  BY <1>3, <1>5, <1>7, <1>10, <1>11, <1>12

LEMMA MonitorInitInv == MonitorInit => MonitorInv
<1> SUFFICES ASSUME MonitorInit PROVE MonitorInv
  OBVIOUS
<1>1. memory = <<>> /\ DOMAIN memory = {}
  BY DEF MonitorInit
<1>2. OursOnly(memory) /\ NeverBack(memory) /\ memory \in Seq(Entry)
  BY <1>1 DEF OursOnly, NeverBack
<1>3. observer = Away /\ observer.at = "away"
  BY DEF MonitorInit, Away
<1> QED
  BY <1>2, <1>3, AwayTyped, MonitorAssumption DEF MonitorInit, MonitorInv

LEMMA RecordOtherInv == MonitorInv /\ RecordOther => MonitorInv'
<1> SUFFICES ASSUME MonitorInv, RecordOther PROVE MonitorInv'
  OBVIOUS
<1>1. PICK x \in Entry : ~IsObservation(x) /\ Records(x)
  <2>1. NothingSeen \in ChangeEvidence
    BY AwayTyped DEF Away
  <2>2. PICK project \in {"ours", "other"} :
          Records([project |-> project, kind |-> "event", evidence |-> NothingSeen,
                   outcome |-> "none", at |-> 0])
    BY DEF RecordOther
  <2>3. PICK x : x = [project |-> project, kind |-> "event", evidence |-> NothingSeen,
                      outcome |-> "none", at |-> 0]
    OBVIOUS
  <2>4. x \in Entry /\ ~IsObservation(x)
    BY <2>1, <2>3 DEF Entry, IsObservation
  <2> QED
    BY <2>2, <2>3, <2>4
<1>2. UNCHANGED <<shown, observer, observations>> /\ others < MaxOtherEvents
      /\ others' = others + 1
  BY DEF RecordOther
<1>3. /\ memory' \in Seq(Entry) /\ OursOnly(memory') /\ NeverBack(memory')
      /\ IsNews => IsNews'
      /\ Fits => Fits'
  BY <1>1, <1>2, AnotherEntry DEF IsNews, Fits, OwnEntry
<1>4. others' \in 0..MaxOtherEvents
  BY <1>2, MonitorAssumption DEF MonitorInv
<1> QED
  BY <1>2, <1>3, <1>4 DEF MonitorInv
\* A step that goes away, or does not reach what is recorded yet.
Early == [at : {"away", "reading", "asking"}, evidence : ChangeEvidence,
          observed : Nat, outcome : Outcomes \cup {"none"}]

LEMMA EarlyInv ==
  ASSUME MonitorInv, UNCHANGED <<shown, memory, others>>,
         observations' \in 0..MaxObservations,
         observer' \in Early
  PROVE  MonitorInv'
  BY DEF MonitorInv, Early

LEMMA ObservePullInv == MonitorInv /\ ObservePull => MonitorInv'
<1> SUFFICES ASSUME MonitorInv, ObservePull PROVE MonitorInv'
  OBVIOUS
<1>1. observations' \in 0..MaxObservations
  BY MonitorAssumption DEF MonitorInv, ObservePull
<1>2. PICK i \in DOMAIN shown :
        observer' = [Away EXCEPT !.at = "reading", !.observed = shown[i].updated,
                                 !.evidence = [head |-> shown[i].head, runs |-> <<>>]]
  BY Zenon DEF ObservePull
<1>3. shown[i] \in PullState
  BY DEF MonitorInv
<1>4. [head |-> shown[i].head, runs |-> <<>>] \in ChangeEvidence
  <2>1. <<>> \in Seq(Statuses)
    OBVIOUS
  <2> QED
    BY <1>3, <2>1 DEF PullState, ChangeEvidence
<1>5. observer' \in Early
  BY <1>2, <1>3, <1>4 DEF PullState, Away, Early
<1>6. UNCHANGED <<shown, memory, others>>
  BY DEF ObservePull
<1> QED
  BY <1>1, <1>5, <1>6, EarlyInv

LEMMA ObserveRunsInv == MonitorInv /\ ObserveRuns => MonitorInv'
<1> SUFFICES ASSUME MonitorInv, ObserveRuns PROVE MonitorInv'
  OBVIOUS
<1>1. PICK i \in DOMAIN shown, outcome \in Outcomes :
        LET seen == {j \in 1..i : shown[j].head = observer.evidence.head}
            last == shown[CHOOSE j \in seen : \A k \in seen : k <= j]
            runs == IF seen = {} THEN <<>> ELSE last.runs
        IN  observer' = [at |-> "asking",
                         evidence |-> [observer.evidence EXCEPT !.runs = runs],
                         observed |-> IF runs = <<>> THEN observer.observed
                                      ELSE last.updated,
                         outcome |-> outcome]
  BY Zenon DEF ObserveRuns
<1> DEFINE seen == {j \in 1..i : shown[j].head = observer.evidence.head}
           last == shown[CHOOSE j \in seen : \A k \in seen : k <= j]
           runs == IF seen = {} THEN <<>> ELSE last.runs
<1>2. i \in Nat /\ 1..i \subseteq DOMAIN shown
  BY DEF MonitorInv
<1>3. ASSUME seen # {} PROVE last \in PullState
  <2>1. seen \in SUBSET (1..i)
    OBVIOUS
  <2> HIDE DEF seen
  <2>2. \E x \in seen : \A y \in seen : y <= x
    BY <1>2, <1>3, <2>1, GreatestOf
  <2>3. PICK m : m = CHOOSE j \in seen : \A k \in seen : k <= j
    OBVIOUS
  <2>4. m \in seen
    BY <2>2, <2>3
  <2>5. m \in DOMAIN shown /\ last = shown[m]
    BY <1>2, <2>1, <2>3, <2>4
  <2> HIDE DEF last
  <2> QED
    BY <2>5 DEF MonitorInv
<1>4. observer' = [at |-> "asking", evidence |-> [observer.evidence EXCEPT !.runs = runs],
                   observed |-> IF runs = <<>> THEN observer.observed ELSE last.updated,
                   outcome |-> outcome]
  BY <1>1
<1>5. (seen = {} => runs = <<>>) /\ (seen # {} => runs = last.runs)
  OBVIOUS
<1> HIDE DEF seen, last, runs
<1>6. runs \in Seq(Statuses) /\ (runs # <<>> => last.updated \in Nat)
  <2>1. <<>> \in Seq(Statuses)
    OBVIOUS
  <2>2. CASE seen = {}
    BY <1>5, <2>1, <2>2
  <2>3. CASE seen # {}
    <3>1. last \in PullState /\ runs = last.runs
      BY <1>3, <1>5, <2>3
    <3> QED
      BY <3>1 DEF PullState
  <2> QED
    BY <2>2, <2>3
<1>7. [observer.evidence EXCEPT !.runs = runs] \in ChangeEvidence
  BY <1>6 DEF MonitorInv, ChangeEvidence
<1>8. observer' \in Early
  BY <1>4, <1>6, <1>7 DEF MonitorInv, Early
<1>9. UNCHANGED <<shown, memory, others>>
  BY DEF ObserveRuns
<1>10. observations' \in 0..MaxObservations
  BY DEF ObserveRuns, MonitorInv
<1> QED
  BY <1>8, <1>9, <1>10, EarlyInv

LEMMA ObserverLeavesInv == MonitorInv /\ (ObservationFails \/ ObserverCrash) => MonitorInv'
<1> SUFFICES ASSUME MonitorInv, ObservationFails \/ ObserverCrash PROVE MonitorInv'
  OBVIOUS
<1>1. Away.at = "away"
  BY DEF Away
<1> QED
  BY <1>1, AwayTyped DEF MonitorInv, ObservationFails, ObserverCrash

LEMMA AskMemoryInv == MonitorInv /\ AskMemory => MonitorInv'
<1> SUFFICES ASSUME MonitorInv, AskMemory PROVE MonitorInv'
  OBVIOUS
<1>1. Away.at = "away"
  BY DEF Away
<1>2. CASE Known("ours", "observation", observer.evidence)
  BY <1>1, <1>2, AwayTyped DEF MonitorInv, AskMemory
<1>3. CASE ~Known("ours", "observation", observer.evidence)
  <2>1. observer' = [observer EXCEPT !.at = "learning"]
    BY <1>3 DEF AskMemory
  <2>2. observer'.at = "learning" /\ observer'.evidence = observer.evidence
    BY <2>1 DEF MonitorInv
  <2>3. observer' \in [at : {"away", "reading", "asking", "learning", "finding", "recording"},
                       evidence : ChangeEvidence, observed : Nat,
                       outcome : Outcomes \cup {"none"}]
    BY <2>1 DEF MonitorInv
  <2>4. IsNews
    BY <1>3 DEF IsNews, Known, MonitorInv, OursOnly, IsObservation
  <2> QED
    BY <2>2, <2>3, <2>4 DEF MonitorInv, AskMemory, IsNews
<1> QED
  BY <1>2, <1>3

\* What is learned of the earlier observations makes the new one fit behind them.
LEMMA LearnedFits ==
  ASSUME MonitorInv, IsNews, NEW o \in Entry, IsObservation(o),
         o.evidence = observer.evidence, o.at = observer.observed,
         Prior # {} => ~Outdated /\ (Recovered => o.outcome = "improved")
  PROVE  NeverBack(Append(memory, o))
<1> DEFINE n == Len(memory) + 1
           s == Append(memory, o)
           last == CHOOSE i \in Prior : \A j \in Prior : j <= i
<1>1. /\ n \in Nat /\ n \notin DOMAIN memory /\ DOMAIN s = DOMAIN memory \cup {n} /\ s[n] = o
      /\ \A k \in DOMAIN memory : s[k] = memory[k] /\ k < n /\ k \in Nat
      /\ DOMAIN memory = 1..(n - 1)
  BY DEF MonitorInv
<1>2. \A i \in DOMAIN memory : i \in Prior <=> /\ IsObservation(memory[i])
                                               /\ memory[i].evidence.head = o.evidence.head
  BY DEF Prior, Learned, IsObservation, MonitorInv, OursOnly
<1>3. Prior \subseteq DOMAIN memory
  BY DEF Prior, Learned
<1>4. Prior # {} => /\ last \in Prior /\ \A j \in Prior : j <= last
                    /\ LastPrior = memory[last]
  <2>1. ASSUME Prior # {} PROVE \E x \in Prior : \A y \in Prior : y <= x
    <3>1. Prior \in SUBSET (1..(n - 1)) /\ n - 1 \in Nat
      BY <1>1, <1>3
    <3> QED
      BY <2>1, <3>1, GreatestOf
  <2> QED
    BY <2>1 DEF LastPrior
<1> HIDE DEF last, n, s
<1> SUFFICES ASSUME NEW i \in DOMAIN s, NEW j \in DOMAIN s, SameChange(s, i, j)
             PROVE  Forward(s, i, j)
  BY DEF NeverBack, s
<1>5. i \in DOMAIN memory /\ s[i] = memory[i] /\ i \in Nat /\ i < n
  BY <1>1 DEF SameChange
<1>6. CASE j \in DOMAIN memory
  <2>1. SameChange(memory, i, j)
    BY <1>1, <1>5, <1>6 DEF SameChange
  <2>2. Forward(memory, i, j)
    BY <1>5, <1>6, <2>1 DEF MonitorInv, NeverBack
  <2>3. \A k \in (i + 1)..(j - 1) : s[k] = memory[k]
    BY <1>1, <1>5, <1>6
  <2>4. s[j] = memory[j]
    BY <1>1, <1>6
  <2> QED
    BY <1>5, <2>2, <2>3, <2>4 DEF Forward
<1>7. CASE j = n
  <2>1. IsObservation(memory[i]) /\ memory[i].evidence.head = o.evidence.head /\ s[j] = o
    BY <1>1, <1>5, <1>7 DEF SameChange
  <2>2. i \in Prior /\ last \in Prior /\ i <= last /\ LastPrior = memory[last]
    BY <1>2, <1>4, <1>5, <2>1
  <2>3. /\ last \in DOMAIN memory /\ IsObservation(memory[last])
        /\ memory[last].evidence.head = o.evidence.head /\ last \in Nat /\ last < n
    BY <1>1, <1>2, <1>3, <2>2
  <2>4. /\ memory[i].at \in Nat /\ memory[last].at \in Nat /\ observer.observed \in Nat
    <3>1. memory[i] \in Entry /\ memory[last] \in Entry
      BY <1>5, <2>3 DEF MonitorInv
    <3>2. \A e \in Entry : e.at \in Nat
      BY DEF Entry
    <3>3. observer.observed \in Nat
      BY DEF MonitorInv
    <3> QED
      BY <3>1, <3>2, <3>3
  <2>5. memory[i].at <= memory[last].at
    <3>1. CASE i = last
      BY <2>4, <3>1
    <3>2. CASE i # last
      <4>1. i < last
        BY <1>5, <2>2, <2>3, <3>2
      <4>2. SameChange(memory, i, last)
        BY <2>1, <2>3, <4>1 DEF SameChange
      <4> QED
        BY <1>5, <2>3, <4>2 DEF MonitorInv, NeverBack, Forward
    <3> QED
      BY <3>1, <3>2
  <2>6. memory[last].at <= o.at
    BY <2>2, <2>4 DEF Outdated
  <2>7. memory[i].at <= o.at
    BY <2>4, <2>5, <2>6
  <2>8. memory[i].evidence # o.evidence
    BY <1>5, <2>1 DEF IsNews
  <2>9. ASSUME memory[i].outcome = "regressed", Verified(o.evidence),
               \A k \in (i + 1)..(j - 1) :
                 ~IsObservation(s[k]) \/ s[k].evidence.head # s[i].evidence.head
        PROVE  o.outcome = "improved"
    <3>1. last = i
      <4>1. SUFFICES ASSUME last # i PROVE FALSE
        OBVIOUS
      <4>2. last \in (i + 1)..(j - 1)
        BY <1>1, <1>5, <1>7, <2>2, <2>3, <4>1
      <4>3. s[last] = memory[last]
        BY <1>1, <2>3
      <4> QED
        BY <1>5, <2>1, <2>3, <2>9, <4>2, <4>3
    <3>2. Recovered
      BY <2>2, <2>9, <3>1 DEF Recovered
    <3> QED
      BY <2>2, <3>2
  <2> QED
    BY <1>5, <2>1, <2>7, <2>8, <2>9 DEF Forward
<1> QED
  BY <1>1, <1>6, <1>7

LEMMA LearnPriorInv == MonitorInv /\ LearnPrior => MonitorInv'
<1> SUFFICES ASSUME MonitorInv, LearnPrior PROVE MonitorInv'
  OBVIOUS
<1>1. Away.at = "away"
  BY DEF Away
<1>2. CASE Prior # {} /\ Outdated
  BY <1>1, <1>2, AwayTyped DEF MonitorInv, LearnPrior
<1>3. CASE ~(Prior # {} /\ Outdated)
  <2>1. IsNews
    BY DEF MonitorInv, LearnPrior
  <2>2. PICK out : /\ out = IF Prior # {} /\ Recovered THEN "improved" ELSE observer.outcome
    OBVIOUS
  <2>3. observer' = [observer EXCEPT !.at = "finding", !.outcome = out]
    BY <1>3, <2>2 DEF LearnPrior, MonitorInv
  <2>4. out \in Outcomes \cup {"none"}
    BY <2>2 DEF MonitorInv, Outcomes
  <2>5. /\ observer'.at = "finding" /\ observer'.evidence = observer.evidence
        /\ observer'.observed = observer.observed /\ observer'.outcome = out
    BY <2>3 DEF MonitorInv
  <2>6. observer' \in [at : {"away", "reading", "asking", "learning", "finding", "recording"},
                       evidence : ChangeEvidence, observed : Nat,
                       outcome : Outcomes \cup {"none"}]
    BY <2>3, <2>4 DEF MonitorInv
  <2>7. PICK o : o = [project |-> "ours", kind |-> "observation",
                      evidence |-> observer.evidence, outcome |-> out,
                      at |-> observer.observed]
    OBVIOUS
  <2>8. /\ o \in Entry /\ IsObservation(o) /\ o.evidence = observer.evidence
        /\ o.at = observer.observed /\ o.outcome = out
    BY <2>4, <2>7 DEF Entry, IsObservation, MonitorInv
  <2>9. NeverBack(Append(memory, o))
    BY <1>3, <2>1, <2>2, <2>8, LearnedFits
  <2>10. memory' = memory
    BY DEF LearnPrior
  <2>11. Fits'
    BY <2>5, <2>7, <2>9, <2>10 DEF Fits, OwnEntry
  <2> QED
    BY <2>5, <2>6, <2>10, <2>11 DEF MonitorInv, LearnPrior
<1> QED
  BY <1>2, <1>3

LEMMA RecordFindingInv == MonitorInv /\ RecordFinding => MonitorInv'
<1> SUFFICES ASSUME MonitorInv, RecordFinding PROVE MonitorInv'
  OBVIOUS
<1>1. Away.at = "away"
  BY DEF Away
<1>2. CASE observer' = Away /\ UNCHANGED memory
  BY <1>1, <1>2, AwayTyped DEF MonitorInv, RecordFinding
<1>3. CASE Records(OwnEntry("finding")) /\ observer' = [observer EXCEPT !.at = "recording"]
  <2>1. PICK x : x = OwnEntry("finding")
    OBVIOUS
  <2>2. x \in Entry /\ ~IsObservation(x) /\ Records(x)
    BY <1>3, <2>1, OwnEntryTyped DEF OwnEntry, IsObservation
  <2>3. Fits
    BY DEF MonitorInv, RecordFinding
  <2>4. /\ memory' \in Seq(Entry) /\ OursOnly(memory') /\ NeverBack(memory')
        /\ NeverBack(Append(memory', OwnEntry("observation")))
    BY <2>2, <2>3, AnotherEntry
  <2>5. /\ observer'.at = "recording" /\ observer'.evidence = observer.evidence
        /\ observer'.observed = observer.observed /\ observer'.outcome = observer.outcome
        /\ observer' \in [at : {"away", "reading", "asking", "learning", "finding",
                                "recording"},
                          evidence : ChangeEvidence, observed : Nat,
                          outcome : Outcomes \cup {"none"}]
    BY <1>3 DEF MonitorInv
  <2>6. Fits'
    BY <2>4, <2>5 DEF Fits, OwnEntry
  <2> QED
    BY <2>4, <2>5, <2>6 DEF MonitorInv, RecordFinding
<1> QED
  BY <1>2, <1>3 DEF RecordFinding

LEMMA RecordEvidenceInv == MonitorInv /\ RecordEvidence => MonitorInv'
<1> SUFFICES ASSUME MonitorInv, RecordEvidence PROVE MonitorInv'
  OBVIOUS
<1>1. Away.at = "away"
  BY DEF Away
<1>2. CASE UNCHANGED memory
  BY <1>1, <1>2, AwayTyped DEF MonitorInv, RecordEvidence
<1>3. CASE Records(OwnEntry("observation"))
  <2>1. PICK x : x = OwnEntry("observation")
    OBVIOUS
  <2>2. x \in Entry /\ x.project = "ours" /\ Records(x)
    BY <1>3, <2>1, OwnEntryTyped DEF OwnEntry
  <2>3. NeverBack(Append(memory, x))
    BY <2>1 DEF MonitorInv, RecordEvidence, Fits
  <2>4. memory \in Seq(Entry) /\ OursOnly(Append(memory, x))
    BY <2>2 DEF MonitorInv, OursOnly
  <2>5. /\ memory' \in Seq(Entry) /\ OursOnly(memory')
        /\ \E g : LatestOf(Append(memory, x), memory', g)
    BY <2>2, <2>4, RecordsLatest
  <2>6. PICK s, t : s = Append(memory, x) /\ t = memory'
    OBVIOUS
  <2>7. s \in Seq(Entry) /\ t \in Seq(Entry) /\ NeverBack(s) /\ \E g : LatestOf(s, t, g)
    BY <2>2, <2>3, <2>4, <2>5, <2>6
  <2>8. NeverBack(t)
    BY <2>7, LatestNeverBack
  <2> QED
    BY <1>1, <2>5, <2>6, <2>8, AwayTyped DEF MonitorInv, RecordEvidence
<1> QED
  BY <1>2, <1>3 DEF RecordEvidence

\* What the observer remembers is typed, its observations fit behind each other, and the
\* one under way fits behind them as soon as what is remembered has been learned.
THEOREM MonitorInvariant == MonitorSpec => []MonitorInv
<1>1. MonitorInv /\ [MonitorNext]_monitorVars => MonitorInv'
  <2> SUFFICES ASSUME MonitorInv, [MonitorNext]_monitorVars PROVE MonitorInv'
    OBVIOUS
  <2>1. CASE RecordOther
    BY <2>1, RecordOtherInv
  <2>2. CASE ObservePull
    BY <2>2, ObservePullInv
  <2>3. CASE ObserveRuns
    BY <2>3, ObserveRunsInv
  <2>4. CASE ObservationFails \/ ObserverCrash
    BY <2>4, ObserverLeavesInv
  <2>5. CASE AskMemory
    BY <2>5, AskMemoryInv
  <2>6. CASE LearnPrior
    BY <2>6, LearnPriorInv
  <2>7. CASE RecordFinding
    BY <2>7, RecordFindingInv
  <2>8. CASE RecordEvidence
    BY <2>8, RecordEvidenceInv
  <2>9. CASE UNCHANGED monitorVars
    BY <2>9 DEF monitorVars, MonitorInv, IsNews, Fits, OwnEntry
  <2> QED
    BY <2>1, <2>2, <2>3, <2>4, <2>5, <2>6, <2>7, <2>8, <2>9 DEF MonitorNext
<1> QED
  BY <1>1, MonitorInitInv, PTL DEF MonitorSpec

\* The memory and what the observer holds of a pull request stay well formed.
THEOREM MonitorTypes == MonitorSpec => []MonitorTypeOK
<1>1. MonitorInv => MonitorTypeOK
  BY DEF MonitorInv, MonitorTypeOK
<1> QED
  BY <1>1, MonitorInvariant, PTL

\* Whatever GitHub answers, whatever is pushed out of the memory and wherever the observer
\* dies, the observations remembered of a change go forward (observe_github_pull_request).
THEOREM ObservationsGoForward == MonitorSpec => []ObservationsNeverGoBack
<1>1. MonitorInv => ObservationsNeverGoBack
  BY NeverBackIsIt DEF MonitorInv
<1> QED
  BY <1>1, MonitorInvariant, PTL
=============================================================================
