-------------------------- MODULE ExecutionEngine --------------------------
(***************************************************************************)
(* execute_plan (autonomous_agent/execution_engine.py) with its durable    *)
(* checkpoint (execution_checkpoint.py) and its hash-chained audit log     *)
(* (execution_audit.py): calls for one execution id, one after another or  *)
(* several at once, any of which may crash at any point.                   *)
(*                                                                         *)
(* The audit log is kept as what its readers compute from it: the verified *)
(* steps, the state of the last record, whether a checkpoint_verified      *)
(* record exists, and whether the chain still verifies.                    *)
(***************************************************************************)
EXTENDS Naturals, FiniteSets

CONSTANTS Runner,      \* threads or processes that call execute_plan
          Identity,    \* task, plan and authorization digests of a call
          None,        \* no checkpoint
          Steps,       \* length of the plan; steps are numbered in order
          MaxRetries,  \* MAX_RETRIES
          MaxCalls,    \* bound on the calls made, for model checking
          Budget       \* largest allowance of tool calls of a budget_ledger

ASSUME ExecutionEngineAssumption ==
  /\ None \notin Identity
  /\ Steps \in Nat \ {0}
  /\ MaxRetries \in Nat /\ MaxCalls \in Nat /\ Budget \in Nat

VARIABLES checkpoint,  \* <execution_id>.json
          tmp,         \* its temporary file, one name for every writer
          audit,       \* the audit log
          pc,          \* where each call is
          call,        \* the local variables of each call
          outcome,     \* what each runner's last call returned
          runs,        \* history: how often each step's tool was run
          calls        \* history: calls made

files == <<checkpoint, tmp, audit>>
vars == <<checkpoint, tmp, audit, pc, call, outcome, runs, calls>>

-----------------------------------------------------------------------------
StepId == 1..Steps
ExecutionState == {"running", "verified", "failed", "blocked", "recovery_required"}

Checkpoint == [identity : Identity, state : {"running", "failed", "verified"},
               completed : SUBSET StepId, attempts : Nat]

AuditLog == [verified : SUBSET StepId, last : {"none"} \cup ExecutionState,
             terminal : BOOLEAN, intact : BOOLEAN]

\* Parameters: id, retries, left (tool calls the budget allows). Local
\* variables: seen (the checkpoint loaded), completed, attempts, step and
\* tries; state and next: the checkpoint being saved, and what follows.
Call == [id : Identity, retries : Nat, left : Nat,
         seen : Checkpoint \cup {None}, completed : SUBSET StepId,
         attempts : Nat, step : Nat, tries : Nat,
         state : {"running", "failed", "verified"},
         next : {"step", "saved", "complete", "idle"}]

\* The calls that hold a set of completed steps and may run or record them.
Looping == {"begin", "step", "try", "tool", "record", "exhausted", "overspent",
            "write", "replace", "unlink", "saved", "complete"}

TypeOK ==
  /\ checkpoint \in Checkpoint \cup {None}
  /\ tmp \in Checkpoint \cup {None}
  /\ audit \in AuditLog
  /\ pc \in [Runner -> {"idle", "load", "decide"} \cup Looping]
  /\ call \in [Runner -> Call]
  /\ outcome \in [Runner -> {"none"} \cup ExecutionState]
  /\ runs \in [StepId -> Nat]
  /\ calls \in Nat

Fresh(i, n, b) ==
  [id |-> i, retries |-> n, left |-> b, seen |-> None, completed |-> {},
   attempts |-> 0, step |-> 1, tries |-> 0, state |-> "running", next |-> "idle"]

Init ==
  /\ checkpoint = None /\ tmp = None
  /\ audit = [verified |-> {}, last |-> "none", terminal |-> FALSE, intact |-> TRUE]
  /\ pc = [r \in Runner |-> "idle"]
  /\ call \in [Runner -> {Fresh(i, 0, 0) : i \in Identity}]
  /\ outcome = [r \in Runner |-> "none"]
  /\ runs = [s \in StepId |-> 0]
  /\ calls = 0

-----------------------------------------------------------------------------
\* A call leaves execute_plan with a result, and its local variables are gone.
Return(r, result) ==
  /\ pc' = [pc EXCEPT ![r] = "idle"]
  /\ call' = [call EXCEPT ![r] = Fresh(@.id, 0, 0)]
  /\ outcome' = [outcome EXCEPT ![r] = result]

\* It ends without one.
Raise(r) == Return(r, "none")

GoTo(r, p) == pc' = [pc EXCEPT ![r] = p] /\ UNCHANGED outcome

\* append_execution_record: a broken chain refuses every further record.
AppendRecord(log) == audit.intact /\ audit' = log

\* checkpoint_store.save(state), after which the call continues at next.
Saving(c, state, next) == [c EXCEPT !.state = state, !.next = next]

\* A call for this execution id; every parameter is the caller's choice.
Enter(r) ==
  /\ pc[r] = "idle" /\ calls < MaxCalls
  /\ calls' = calls + 1
  /\ IF audit.intact
       THEN /\ \E i \in Identity, n \in 0..MaxRetries, b \in 0..Budget :
                  call' = [call EXCEPT ![r] = Fresh(i, n, b)]
            /\ GoTo(r, "load")
       ELSE Return(r, "blocked")
  /\ UNCHANGED <<files, runs>>

\* Admission control refuses the call, and says so in the audit log.
AdmissionBlocked(r) ==
  /\ pc[r] = "load"
  /\ AppendRecord([audit EXCEPT !.last = "blocked"])
  /\ Return(r, "blocked")
  /\ UNCHANGED <<checkpoint, tmp, runs, calls>>

Load(r) ==
  /\ pc[r] = "load"
  /\ call' = [call EXCEPT ![r].seen = checkpoint]
  /\ GoTo(r, "decide")
  /\ UNCHANGED <<files, runs, calls>>

-----------------------------------------------------------------------------
\* _audit_has_verified_completion
VerifiedCompletion == audit.verified = StepId /\ audit.terminal

\* _has_unfinished_execution
Unfinished == audit.last \notin {"none", "verified", "failed", "blocked"}

Matches(c) == c.seen.identity = c.id

\* The checkpoint allows this call to go on from where the last one ended.
Resumable(c) == c.seen.state = "running" /\ c.seen.completed \subseteq audit.verified

\* Mutant: the steps of the checkpoint alone are taken for completed.
BugResumed(c) == [c EXCEPT !.completed = c.seen.completed, !.attempts = c.seen.attempts]

Resumed(c) == [c EXCEPT !.completed = audit.verified, !.attempts = c.seen.attempts]

\* A checkpoint that ends the call: what it returns.
Refusal(c) ==
  CASE ~Matches(c)                -> "blocked"
    [] c.seen.state = "verified"  -> IF VerifiedCompletion THEN "verified"
                                     ELSE "recovery_required"
    [] OTHER                      -> "recovery_required"

DecideResume(r) ==
  /\ pc[r] = "decide" /\ call[r].seen # None
  /\ IF Matches(call[r]) /\ Resumable(call[r])
       THEN /\ call' = [call EXCEPT ![r] = Resumed(call[r])]
            /\ GoTo(r, "begin")
       ELSE Return(r, Refusal(call[r]))
  /\ UNCHANGED <<files, runs, calls>>

\* Without a checkpoint an unfinished execution is not started over.
DecideFresh(r) ==
  /\ pc[r] = "decide" /\ call[r].seen = None
  /\ IF Unfinished THEN Return(r, "recovery_required")
                   ELSE GoTo(r, "begin") /\ UNCHANGED call
  /\ UNCHANGED <<files, runs, calls>>

\* execution_started or checkpoint_resumed, then the checkpoint is saved.
Begin(r) ==
  /\ pc[r] = "begin"
  /\ AppendRecord([audit EXCEPT !.last = "running"])
  /\ call' = [call EXCEPT ![r] = Saving([call[r] EXCEPT !.seen = None], "running", "step")]
  /\ GoTo(r, "write")
  /\ UNCHANGED <<checkpoint, tmp, runs, calls>>

-----------------------------------------------------------------------------
\* ExecutionCheckpointStore.save: write the temporary file, rename it over
\* the checkpoint, and remove what is left of it.

SaveWrite(r) ==
  /\ pc[r] = "write"
  /\ tmp' = [identity |-> call[r].id, state |-> call[r].state,
             completed |-> call[r].completed, attempts |-> call[r].attempts]
  /\ GoTo(r, "replace")
  /\ UNCHANGED <<checkpoint, audit, call, runs, calls>>

SaveReplace(r) ==
  /\ pc[r] = "replace" /\ tmp # None
  /\ checkpoint' = tmp /\ tmp' = None
  /\ GoTo(r, "unlink")
  /\ UNCHANGED <<audit, call, runs, calls>>

\* The rename raises when another call took the temporary file away.
SaveRaises(r) ==
  /\ pc[r] = "replace" /\ tmp = None
  /\ Raise(r)
  /\ UNCHANGED <<files, runs, calls>>

SaveUnlink(r) ==
  /\ pc[r] = "unlink"
  /\ tmp' = None
  /\ IF call[r].next = "idle" THEN Return(r, "failed")
     ELSE GoTo(r, call[r].next) /\ UNCHANGED call
  /\ UNCHANGED <<checkpoint, audit, runs, calls>>

-----------------------------------------------------------------------------
\* The loop over the steps of the plan.

\* Whether the call stands at a step it has to execute.
Pending(c) == c.step <= Steps /\ c.step \notin c.completed

SkipStep(r) ==
  /\ pc[r] = "step" /\ call[r].step <= Steps /\ ~Pending(call[r])
  /\ AppendRecord([audit EXCEPT !.last = "running"])
  /\ call' = [call EXCEPT ![r].step = @ + 1]
  /\ UNCHANGED <<checkpoint, tmp, pc, outcome, runs, calls>>

Authorize(r) ==
  /\ pc[r] = "step" /\ Pending(call[r])
  /\ call' = [call EXCEPT ![r].tries = 0]
  /\ GoTo(r, "try")
  /\ UNCHANGED <<files, runs, calls>>

\* The policy or the registry refuses the tool; the checkpoint stays.
Deny(r) ==
  /\ pc[r] = "step" /\ Pending(call[r])
  /\ AppendRecord([audit EXCEPT !.last = "blocked"])
  /\ Return(r, "blocked")
  /\ UNCHANGED <<checkpoint, tmp, runs, calls>>

\* The tool does not fit the sandbox boundary; nothing is recorded.
Incompatible(r) ==
  /\ pc[r] = "step" /\ Pending(call[r])
  /\ Return(r, "blocked")
  /\ UNCHANGED <<files, runs, calls>>

\* BudgetLedger.consume: what is refused is not charged.
Paid(n) == IF n = 0 THEN 0 ELSE n - 1

\* One attempt is paid from the budget.
Attempt(r) ==
  /\ pc[r] = "try"
  /\ call' = [call EXCEPT ![r].attempts = @ + 1, ![r].left = Paid(@)]
  /\ GoTo(r, IF call[r].left = 0 THEN "overspent" ELSE "tool")
  /\ UNCHANGED <<files, runs, calls>>

\* run_safe_operation: whatever the tool does outside happens here.
RunTool(r) ==
  /\ pc[r] = "tool"
  /\ runs' = [runs EXCEPT ![call[r].step] = @ + 1]
  /\ GoTo(r, "record")
  /\ UNCHANGED <<files, call, calls>>

\* The tool_result record of a success that was verified.
RecordVerified(r) ==
  /\ pc[r] = "record"
  /\ AppendRecord([audit EXCEPT !.verified = @ \cup {call[r].step}, !.last = "running"])
  /\ call' = [call EXCEPT ![r] = Saving([call[r] EXCEPT !.completed = @ \cup {call[r].step}],
                                        "running", "saved")]
  /\ GoTo(r, "write")
  /\ UNCHANGED <<checkpoint, tmp, runs, calls>>

\* Mutant: the loop ends on a result that was not verified.
BugRecordFailure(r) ==
  /\ pc[r] = "record"
  /\ AppendRecord([audit EXCEPT !.last = "running"])
  /\ call' = [call EXCEPT ![r] = Saving([call[r] EXCEPT !.completed = @ \cup {call[r].step}],
                                        "running", "saved")]
  /\ GoTo(r, "write")
  /\ UNCHANGED <<checkpoint, tmp, runs, calls>>

\* The tool_result record of any other outcome: try again or give up.
RecordFailure(r) ==
  /\ pc[r] = "record"
  /\ AppendRecord([audit EXCEPT !.last = "running"])
  /\ call' = [call EXCEPT ![r].tries = @ + 1]
  /\ GoTo(r, IF call[r].tries < call[r].retries THEN "try" ELSE "exhausted")
  /\ UNCHANGED <<checkpoint, tmp, runs, calls>>

GivenUp == "failed"

\* Retries or budget are used up.
Fail(r) ==
  /\ pc[r] \in {"exhausted", "overspent"}
  /\ AppendRecord([audit EXCEPT !.last = "failed"])
  /\ call' = [call EXCEPT ![r] = Saving(@, GivenUp, "idle")]
  /\ GoTo(r, "write")
  /\ UNCHANGED <<checkpoint, tmp, runs, calls>>

\* The step counts as completed; on to the next one.
CheckpointSaved(r) ==
  /\ pc[r] = "saved"
  /\ AppendRecord([audit EXCEPT !.last = "running"])
  /\ call' = [call EXCEPT ![r].step = @ + 1]
  /\ GoTo(r, "step")
  /\ UNCHANGED <<checkpoint, tmp, runs, calls>>

\* Mutant: the last step of the plan is left out.
BugFinished(c) == c.step >= Steps

Finished(c) == c.step > Steps

Finish(r) ==
  /\ pc[r] = "step" /\ Finished(call[r])
  /\ call' = [call EXCEPT ![r] = Saving(@, "verified", "complete")]
  /\ GoTo(r, "write")
  /\ UNCHANGED <<files, runs, calls>>

\* checkpoint_verified
Complete(r) ==
  /\ pc[r] = "complete"
  /\ AppendRecord([audit EXCEPT !.last = "verified", !.terminal = TRUE])
  /\ Return(r, "verified")
  /\ UNCHANGED <<checkpoint, tmp, runs, calls>>

-----------------------------------------------------------------------------
Appending == {"begin", "step", "record", "exhausted", "overspent", "saved", "complete"}

\* append_execution_record raises on a broken chain and the call ends.
AppendRefused(r) ==
  /\ pc[r] \in Appending /\ ~audit.intact
  /\ Raise(r)
  /\ UNCHANGED <<files, runs, calls>>

\* The process dies, or an exception that nothing catches ends the call.
Crash(r) ==
  /\ pc[r] # "idle"
  /\ Raise(r)
  /\ UNCHANGED <<files, runs, calls>>

\* The process dies while it writes a record and leaves half a line.
CrashInAppend(r) ==
  /\ pc[r] \in Appending
  /\ audit' = [audit EXCEPT !.intact = FALSE]
  /\ Raise(r)
  /\ UNCHANGED <<checkpoint, tmp, runs, calls>>

Starting(r) == Enter(r) \/ AdmissionBlocked(r) \/ Load(r) \/ DecideResume(r)
               \/ DecideFresh(r) \/ Begin(r)
Save(r) == SaveWrite(r) \/ SaveReplace(r) \/ SaveRaises(r) \/ SaveUnlink(r)
Loop(r) == SkipStep(r) \/ Authorize(r) \/ Deny(r) \/ Incompatible(r) \/ Attempt(r)
           \/ RunTool(r) \/ RecordVerified(r) \/ RecordFailure(r) \/ Fail(r)
           \/ CheckpointSaved(r) \/ Finish(r) \/ Complete(r)
Failure(r) == AppendRefused(r) \/ Crash(r) \/ CrashInAppend(r)

Next == \E r \in Runner : Starting(r) \/ Save(r) \/ Loop(r) \/ Failure(r)

Spec == Init /\ [][Next]_vars

-----------------------------------------------------------------------------
\* Only one call at a time is made for this execution id: the case the
\* checkpoint is designed for.
OneCaller == \A r, q \in Runner : r = q

\* N16_DURABLE_CHECKPOINT_RESUME.md, and lines 168-174: a step whose verified
\* result is in the audit log is never executed again, whatever crashes, is
\* denied or is retried in between (one caller at a time).
NoReplay == [][\A s \in StepId : runs'[s] # runs[s] => s \notin audit.verified]_vars

\* Lines 185-188 and 264: steps are executed in the order of the plan, each only
\* after every earlier one has a verified result in the audit log, across
\* crashes and for any number of concurrent callers.
StepsInOrder == \A s \in StepId : runs[s] > 0 => 1..(s - 1) \subseteq audit.verified

\* Lines 156-161 and 270-271: when a call returns VERIFIED every step of the plan
\* was executed and has a verified result in the audit log.
VerifiedIsBacked ==
  \A r \in Runner : outcome[r] = "verified" =>
    audit.verified = StepId /\ \A s \in StepId : runs[s] > 0

\* Lines 168-171 and 263-264: the checkpoint never claims a step that the audit
\* log does not prove, so that only tampering reaches the refusal of line 171.
CheckpointIsBacked ==
  checkpoint # None => checkpoint.completed \subseteq audit.verified

\* Lines 162-167: a checkpoint that says failed or verified is final; no later
\* call replaces it or executes a tool (one caller at a time).
EndIsFinal ==
  [][checkpoint # None /\ checkpoint.state # "running"
       => UNCHANGED <<checkpoint, runs>>]_vars

\* Lines 235, 261 and 270: the end a call reports is in the checkpoint, so that no
\* later call can report another one (one caller at a time).
ReportedEndIsDurable ==
  \A r \in Runner : outcome[r] \in {"failed", "verified"} =>
    checkpoint # None /\ checkpoint.state = outcome[r]

\* Lines 153-155: an execution keeps the identity it was started under (task, plan and
\* authorization), and no step of it runs under another (one caller at a time).
OneIdentity ==
  [][checkpoint # None =>
       /\ checkpoint' # None /\ checkpoint'.identity = checkpoint.identity
       /\ \A r \in Runner : runs' # runs /\ pc[r] = "tool" =>
            checkpoint.identity = call[r].id]_vars

\* The plan as its user sees it: the abstract specification PlanProgress.
Progress == INSTANCE PlanProgress WITH
  done <- audit.verified,
  ended <- IF checkpoint = None THEN "no" ELSE
           IF checkpoint.state = "running" THEN "no" ELSE checkpoint.state

\* One caller at a time implements it.
ImplementsPlan == Progress!ProgressSpec
=============================================================================
