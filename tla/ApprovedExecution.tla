-------------------------- MODULE ApprovedExecution --------------------------
(***************************************************************************)
(* Executing approved actions (autonomous_agent/approved_executor.py): an  *)
(* executor validates the action against its approval record and the audit *)
(* log, moves the lifecycle ledger from approved to claimed, consumes the  *)
(* token with an exclusive marker file, and runs the action's steps.       *)
(* Beside it the approval queue goes on (ApprovalQueue), other components  *)
(* advance or block the ledger, and every process start reconciles it      *)
(* (startup_reconciliation.py, lifecycle_recovery.py).                     *)
(*                                                                         *)
(* The ledger and the audit log are read and appended to under their own   *)
(* locks: each such call is one step.  Nothing is held between the calls.  *)
(***************************************************************************)
EXTENDS ApprovalQueue

CONSTANTS Executor,   \* processes that call execute_approved_action
          Safe,       \* actions whose task and steps pass the allowlist
          UseLedger   \* whether lifecycle_path is given

INSTANCE LifecycleLedger WITH LedgerAction <- Action

ASSUME ApprovedExecutionAssumption ==
  Safe \subseteq Action /\ UseLedger \in BOOLEAN

VARIABLES ledger,     \* the lifecycle ledger
          ledgerOk,   \* whether the file parses and its hashes verify
          claims,     \* tokens with a .claimed marker
          expired,    \* tokens whose expires_at has passed
          epc, act, status, tok,  \* an executor: its place and its arguments
          starts,     \* history: the runs that began, in order
          reported    \* history: actions whose execution was reported done

executing == <<epc, act, status, tok>>
execVars == <<ledger, ledgerOk, claims, expired, executing, starts, reported>>
vars == <<queueVars, execVars>>

-----------------------------------------------------------------------------
\* called: before authorize_execution    authorized: it returned allowed
\* trusted: require_state passed         persisted: the ledger says claimed
\* running: the marker is ours           blocking: about to block the ledger
EPc == {"idle", "called", "authorized", "trusted", "persisted", "running",
        "blocking"}

Start == [id : Action, token : Token]

ExecTypeOK ==
  /\ TypeOK
  /\ ledger \in Ledger /\ ledgerOk \in BOOLEAN
  /\ claims \subseteq Token /\ expired \subseteq Token
  /\ epc \in [Executor -> EPc]
  /\ act \in [Executor -> Action \cup {None}]
  /\ status \in [Executor -> Status \cup {None}]
  /\ tok \in [Executor -> Token \cup {None}]
  /\ starts \in Seq(Start)
  /\ reported \subseteq Action

ExecInit ==
  /\ Init
  /\ ledger = [a \in Action |-> <<>>] /\ ledgerOk = TRUE
  /\ claims = {} /\ expired = {}
  /\ epc = [e \in Executor |-> "idle"]
  /\ act = [e \in Executor |-> None]
  /\ status = [e \in Executor |-> None]
  /\ tok = [e \in Executor |-> None]
  /\ starts = <<>> /\ reported = {}

-----------------------------------------------------------------------------
\* The ledger.

\* record_transition: verify, then append; both fail closed.
CanRecord(a, from, to) ==
  ledgerOk /\ Verifies(ledger) /\ Accepts(ledger, a, from, to)

Record(a, from, to) ==
  /\ CanRecord(a, from, to)
  /\ ledger' = Appended(ledger, a, from, to)

\* The pre-approval gates, recorded by the coding bridge up to "approved".
Gates == {"proposed", "validated", "tested", "secured", "policy_checked"}

Gate(a, s) ==
  /\ UseLedger
  /\ s \in Gates
  /\ Record(a, s, NextStage[s])
  /\ UNCHANGED <<queueVars, ledgerOk, claims, expired, executing, starts, reported>>

\* _block_lifecycle of another process.
BlockedFrom == {"policy_checked", "approved", "claimed"}

Block(a, s) ==
  /\ UseLedger
  /\ s \in BlockedFrom
  /\ Record(a, s, "blocked")
  /\ UNCHANGED <<queueVars, ledgerOk, claims, expired, executing, starts, reported>>

\* reconcile_startup in any process: it cannot tell a live execution from an
\* interrupted one.
Reconcile(a, s) ==
  /\ UseLedger
  /\ s \in Interrupted
  /\ Record(a, s, "blocked")
  /\ UNCHANGED <<queueVars, ledgerOk, claims, expired, executing, starts, reported>>

Expire(t) ==
  /\ issued[t] # None /\ t \notin expired
  /\ expired' = expired \cup {t}
  /\ UNCHANGED <<queueVars, ledger, ledgerOk, claims, executing, starts, reported>>

-----------------------------------------------------------------------------
\* Executors: execute_approved_action.

At(e, here, there) == epc[e] = here /\ epc' = [epc EXCEPT ![e] = there]

Returns(e) == /\ epc' = [epc EXCEPT ![e] = "idle"]
              /\ act' = [act EXCEPT ![e] = None]
              /\ status' = [status EXCEPT ![e] = None]
              /\ tok' = [tok EXCEPT ![e] = None]

args == <<act, status, tok>>

\* The caller passes an item of the queue and any record there ever was.
CallExecute(e, a, t) ==
  /\ At(e, "idle", "called")
  /\ Loaded[a] # <<>> /\ issued[t] # None
  /\ act' = [act EXCEPT ![e] = a]
  /\ status' = [status EXCEPT ![e] = Head(Loaded[a])]
  /\ tok' = [tok EXCEPT ![e] = t]
  /\ UNCHANGED <<queueVars, ledger, ledgerOk, claims, expired, starts, reported>>

LatestDecision(a) ==
  LET entries == {i \in DOMAIN audit : audit[i].id = a}
  IN  IF entries = {} THEN None
      ELSE audit[CHOOSE i \in entries : \A j \in entries : j <= i].decision

\* validate_approval, with an audit path.
Valid(e) ==
  /\ status[e] = "approved"
  /\ issued[tok[e]] = act[e]
  /\ tok[e] \notin expired
  /\ auditOk /\ LatestDecision(act[e]) = "approved"

Authorize(e) ==
  /\ At(e, "called", "authorized")
  /\ Valid(e) /\ act[e] \in Safe
  /\ UNCHANGED <<queueVars, ledger, ledgerOk, claims, expired, args, starts, reported>>

Trust(e) ==
  /\ UseLedger
  /\ At(e, "authorized", "trusted")
  /\ ledgerOk /\ Verifies(ledger)
  /\ ActionState(ledger, act[e]) = "approved"
  /\ UNCHANGED <<queueVars, ledger, ledgerOk, claims, expired, args, starts, reported>>

\* Mutant: an action that is claimed already is taken for a retry.
BugPersist(e) ==
  /\ At(e, "trusted", "persisted")
  /\ IF ActionState(ledger, act[e]) = "claimed"
     THEN UNCHANGED ledger ELSE Record(act[e], "approved", "claimed")
  /\ UNCHANGED <<queueVars, ledgerOk, claims, expired, args, starts, reported>>

Persist(e) ==
  /\ At(e, "trusted", "persisted")
  /\ Record(act[e], "approved", "claimed")
  /\ UNCHANGED <<queueVars, ledgerOk, claims, expired, args, starts, reported>>

\* Where claim_approval is called: after the ledger, if there is one.
Claiming(e) == epc[e] = IF UseLedger THEN "persisted" ELSE "authorized"

\* claim_approval: the marker is created exclusively; then the steps begin.
Claim(e) ==
  /\ Claiming(e)
  /\ tok[e] \notin claims
  /\ claims' = claims \cup {tok[e]}
  /\ epc' = [epc EXCEPT ![e] = "running"]
  /\ starts' = Append(starts, [id |-> act[e], token |-> tok[e]])
  /\ UNCHANGED <<queueVars, ledger, ledgerOk, expired, args, reported>>

\* "already consumed" or "store is unavailable", or a failing step.
Fails(e) ==
  /\ Claiming(e) \/ epc[e] = "running"
  /\ IF UseLedger THEN epc' = [epc EXCEPT ![e] = "blocking"] /\ UNCHANGED args
                  ELSE Returns(e)
  /\ UNCHANGED <<queueVars, ledger, ledgerOk, claims, expired, starts, reported>>

\* The outcome of this record_transition is not looked at.
BlockFailed(e) ==
  /\ epc[e] = "blocking"
  /\ \/ Record(act[e], "claimed", "blocked")
     \/ ~CanRecord(act[e], "claimed", "blocked") /\ UNCHANGED ledger
  /\ Returns(e)
  /\ UNCHANGED <<queueVars, ledgerOk, claims, expired, starts, reported>>

\* Mutant: success is reported whatever the ledger says.
BugFinish(e) ==
  /\ epc[e] = "running"
  /\ \/ UseLedger /\ Record(act[e], "claimed", "executed")
     \/ ~CanRecord(act[e], "claimed", "executed") /\ UNCHANGED ledger
  /\ reported' = reported \cup {act[e]}
  /\ Returns(e)
  /\ UNCHANGED <<queueVars, ledgerOk, claims, expired, starts>>

\* All steps succeeded.
Finish(e) ==
  /\ epc[e] = "running"
  /\ IF UseLedger THEN Record(act[e], "claimed", "executed")
                  ELSE UNCHANGED ledger
  /\ reported' = reported \cup {act[e]}
  /\ Returns(e)
  /\ UNCHANGED <<queueVars, ledgerOk, claims, expired, starts>>

\* A check before the claim fails, or the last transition is not persisted.
Refused(e) ==
  /\ \/ epc[e] \in {"called", "authorized", "trusted"}
     \/ epc[e] = "running" /\ UseLedger
        /\ ~CanRecord(act[e], "claimed", "executed")
  /\ Returns(e)
  /\ UNCHANGED <<queueVars, ledger, ledgerOk, claims, expired, starts, reported>>

\* A crash may tear the ledger line being appended, or leave the marker of a
\* token whose steps never began.
ExecutorCrash(e) ==
  /\ epc[e] # "idle"
  /\ \/ UNCHANGED <<ledgerOk, claims>>
     \/ UseLedger /\ epc[e] \in {"trusted", "running", "blocking"}
        /\ ledgerOk' = FALSE /\ UNCHANGED claims
     \/ Claiming(e) /\ claims' = claims \cup {tok[e]} /\ UNCHANGED ledgerOk
  /\ Returns(e)
  /\ UNCHANGED <<queueVars, ledger, expired, starts, reported>>

Execute(e) ==
  \/ \E a \in Action, t \in Token : CallExecute(e, a, t)
  \/ Authorize(e) \/ Trust(e) \/ Persist(e) \/ Claim(e) \/ Fails(e)
  \/ BlockFailed(e) \/ Finish(e) \/ Refused(e) \/ ExecutorCrash(e)

ExecNext ==
  \/ QueueStep /\ UNCHANGED execVars
  \/ \E a \in Action, s \in LifecycleState :
       Gate(a, s) \/ Block(a, s) \/ Reconcile(a, s)
  \/ \E t \in Token : Expire(t)
  \/ \E e \in Executor : Execute(e)

ExecSpec == ExecInit /\ [][ExecNext]_vars

-----------------------------------------------------------------------------
\* Properties.

\* claim_approval: an approval is consumed exactly once, and by the action it
\* was given for.
ConsumedOnce ==
  \A i \in DOMAIN starts :
    /\ issued[starts[i].token] = starts[i].id
    /\ \A j \in DOMAIN starts : starts[j].token = starts[i].token => i = j

\* With the lifecycle ledger an action runs at most once, ever, even when it
\* is proposed and approved again.
OneRunPerAction ==
  UseLedger => \A i, j \in DOMAIN starts : starts[i].id = starts[j].id => i = j

\* "A crash after this point is recoverable as CLAIMED and will never replay
\* the action automatically": an action that was ever claimed is not taken up
\* again, by any executor, after any reconciliation.
ClaimedIn(l, a) == \E i \in DOMAIN l[a] : l[a][i].to = "claimed"
TakenUp == {"persisted", "running"}

CrashNeverReplays ==
  [][UseLedger =>
       \A e \in Executor :
         epc[e] \notin TakenUp /\ epc'[e] \in TakenUp
           => ~ClaimedIn(ledger, act[e])]_vars

\* An execution reported as done went through "executed" in the ledger: it was
\* not blocked under the executor's feet.
ReportedIsExecuted ==
  UseLedger => \A a \in reported : \E i \in DOMAIN ledger[a] :
                 ledger[a][i] = [from |-> "claimed", to |-> "executed"]

\* What append_transition lets through is what _verify_ledger_unlocked accepts:
\* the ledger never locks itself up.
LedgerVerifies == Verifies(ledger)
=============================================================================
