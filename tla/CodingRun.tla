------------------------------ MODULE CodingRun ------------------------------
(***************************************************************************)
(* From a reviewed patch to a draft pull request: the coding command       *)
(* (coding_cli.py) queues an action and stores a run for it, the approval  *)
(* command (approval_cli.py) lets a person approve, reject and execute it, *)
(* approved_coding_bridge.py moves the stored run and the lifecycle ledger *)
(* along, and the GitHub worker makes a branch, a commit and the draft.    *)
(*                                                                         *)
(* All of it is about one action id, which is a digest of the proposal: a  *)
(* coding command started again for the same finding meets the same id.    *)
(* The run store has no lock.  A change of a run is a load, a check of the *)
(* transition and, later, the replacement of the file: separate steps here.*)
(* Queue, audit and ledger calls are one step each; their own races are    *)
(* the subject of ApprovalQueue and ApprovedExecution.                     *)
(***************************************************************************)
EXTENDS Naturals, Sequences, FiniteSets

CONSTANTS Run,     \* the coding commands, each with the run it stores
          Cli,     \* the approval commands
          Faults   \* whether processes die, and writes and answers get lost

ASSUME CodingRunAssumption == Faults \in BOOLEAN

INSTANCE LifecycleLedger WITH LedgerAction <- {"action"}

VARIABLES items,     \* the queue's items with the action id, in its order
          lastAudit, \* the latest decision of the audit log
          record,    \* the token of the approval record, 0 for none
          expired, claimed,      \* tokens expired, tokens with a .claimed marker
          run, marker,           \* a run's state and its .executing marker
          began,                 \* history: how often a run became executing
          stage,                 \* the ledger's state of the action
          base, branch, pulls,   \* GitHub: base HEAD, head branch, open drafts
          cpc,                   \* a coding command's place
          pc, work, goal, tok, saw  \* an approval command's place and locals

decisions == <<items, lastAudit, record>>
tokens == <<expired, claimed>>
runs == <<run, marker, began>>
github == <<base, branch, pulls>>
locals == <<pc, work, goal, tok, saw>>
vars == <<decisions, tokens, runs, stage, github, cpc, locals>>

-----------------------------------------------------------------------------
None == "none"

\* _ALLOWED_TRANSITIONS; "none" is a run that is not stored yet.
Allowed ==
  [ready |-> {"approved", "rejected", "invalidated"},
   approved |-> {"executing", "rejected", "invalidated"},
   executing |-> {"executed", "failed"},
   executed |-> {}, failed |-> {}, rejected |-> {}, invalidated |-> {}]

RunState == DOMAIN Allowed
Stored == {r \in Run : run[r] # None}

\* A command changes a run towards its goal; "unclaimed" is the mark_failed
\* after a ledger that refused the claim.
Goal == RunState \cup {"unclaimed"}
Target(g) == IF g = "unclaimed" THEN "failed" ELSE g

CoderPc == {"start", "queued", "created", "proposed", "validated", "tested",
            "secured", "done"}
CliPc == {"idle", "issue", "find", "gate", "check", "trust",
          "load", "mark", "write", "ledger", "look", "block",
          "prepare", "claim", "branch", "commit", "push", "open"}

TypeOK ==
  /\ items \in Seq({"pending", "blocked", "approved", "rejected"})
  /\ lastAudit \in {None, "approved", "rejected"}
  /\ record \in Nat
  /\ expired \subseteq 1..record /\ claimed \subseteq 1..record
  /\ run \in [Run -> RunState \cup {None}]
  /\ marker \in [Run -> BOOLEAN]
  /\ began \in [Run -> Nat]
  /\ stage \in LifecycleState \cup {None}
  /\ base \in {"expected", "moved"}
  /\ branch \in {None, "base", "committed", "foreign"}
  /\ pulls \in 0..1
  /\ cpc \in [Run -> CoderPc]
  /\ pc \in [Cli -> CliPc]
  /\ work \in [Cli -> Run \cup {None}]
  /\ goal \in [Cli -> Goal \cup {None}]
  /\ tok \in [Cli -> Nat]
  /\ saw \in [Cli -> LifecycleState \cup {None}]

Init ==
  /\ items = <<>> /\ lastAudit = None /\ record = 0
  /\ expired = {} /\ claimed = {}
  /\ run = [r \in Run |-> None] /\ marker = [r \in Run |-> FALSE]
  /\ began = [r \in Run |-> 0]
  /\ stage = None
  /\ base = "expected" /\ branch = None /\ pulls = 0
  /\ cpc = [r \in Run |-> "start"]
  /\ pc = [p \in Cli |-> "idle"] /\ work = [p \in Cli |-> None]
  /\ goal = [p \in Cli |-> None] /\ tok = [p \in Cli |-> 0]
  /\ saw = [p \in Cli |-> None]

-----------------------------------------------------------------------------
\* The ledger of the action.

CanRecord(from, to) ==
  /\ CanTransition(from, to)
  /\ stage = from \/ (stage = None /\ from = "proposed")

\* record_transition: appended, or refused and reported; a failing file is
\* refused as well.
Recorded(from, to) == CanRecord(from, to) /\ stage' = to
Unrecorded(from, to) == (Faults \/ ~CanRecord(from, to)) /\ UNCHANGED stage

-----------------------------------------------------------------------------
\* The coding command: coding_cli.main after a run that is ready.

CoderMoves(r, here, there) == cpc[r] = here /\ cpc' = [cpc EXCEPT ![r] = there]

\* enqueue_proposal: a pending item with the id is returned as it is; else a
\* new one goes before the items that are decided.  An old one is blocked.
Enqueue(r) ==
  /\ CoderMoves(r, "start", "queued")
  /\ \E stale \in BOOLEAN :
       LET kept == [i \in DOMAIN items |->
                     IF stale /\ items[i] = "pending" THEN "blocked" ELSE items[i]]
       IN  items' = IF \E i \in DOMAIN kept : kept[i] = "pending" THEN kept
                    ELSE <<"pending">> \o kept
  /\ UNCHANGED <<lastAudit, record, tokens, runs, stage, github, locals>>

Create(r) ==
  /\ CoderMoves(r, "queued", "created")
  /\ run' = [run EXCEPT ![r] = "ready"]
  /\ UNCHANGED <<decisions, tokens, marker, began, stage, github, locals>>

\* register_ready_coding_run: nothing to do, refused, or four transitions.
Register(r) ==
  /\ CoderMoves(r, "created", IF stage = None THEN "proposed" ELSE "done")
  /\ UNCHANGED <<decisions, tokens, runs, stage, github, locals>>

RecordGate(r) ==
  LET from == cpc[r] IN
  /\ from \in {"proposed", "validated", "tested", "secured"}
  /\ \/ /\ Recorded(from, NextStage[from])
        /\ cpc' = [cpc EXCEPT ![r] = IF from = "secured" THEN "done"
                                     ELSE NextStage[from]]
     \/ /\ Unrecorded(from, NextStage[from])
        /\ cpc' = [cpc EXCEPT ![r] = "done"]
  /\ UNCHANGED <<decisions, tokens, runs, github, locals>>

-----------------------------------------------------------------------------
\* The approval command.

Moves(p, here, there) == pc[p] = here /\ pc' = [pc EXCEPT ![p] = there]
Stays == UNCHANGED <<work, goal, tok, saw>>

Returns(p) ==
  /\ pc' = [pc EXCEPT ![p] = "idle"] /\ work' = [work EXCEPT ![p] = None]
  /\ goal' = [goal EXCEPT ![p] = None] /\ tok' = [tok EXCEPT ![p] = 0]
  /\ saw' = [saw EXCEPT ![p] = None]

Pursues(p, g) ==
  /\ goal' = [goal EXCEPT ![p] = g] /\ pc' = [pc EXCEPT ![p] = "load"]
  /\ UNCHANGED <<work, tok, saw>>

\* set_decision, on the first item with the id.
Decide(p, d) ==
  /\ pc[p] = "idle" /\ items # <<>>
  /\ Head(items) \notin {"approved", "rejected"}
  /\ items' = [items EXCEPT ![1] = d] /\ lastAudit' = d
  /\ goal' = [goal EXCEPT ![p] = d]
  /\ pc' = [pc EXCEPT ![p] = IF d = "approved" THEN "issue" ELSE "find"]
  /\ UNCHANGED <<record, tokens, runs, stage, github, cpc, work, tok, saw>>

\* create_approval, its second half: a fresh token in the record's file.
Issue(p) ==
  /\ Moves(p, "issue", "find")
  /\ record' = record + 1
  /\ UNCHANGED <<items, lastAudit, tokens, runs, stage, github, cpc>> /\ Stays

\* find_by_action: the one run bound to the action, or an error; a missing run
\* is no error for approve and reject.
Find(p) ==
  /\ pc[p] = "find"
  /\ \/ \E r \in Run :
          /\ Stored = {r}
          /\ work' = [work EXCEPT ![p] = r]
          /\ pc' = [pc EXCEPT ![p] = IF goal[p] = "approved" THEN "gate" ELSE "load"]
          /\ UNCHANGED <<goal, tok, saw>>
     \/ Cardinality(Stored) # 1 /\ Returns(p)
  /\ UNCHANGED <<decisions, tokens, runs, stage, github, cpc>>

\* mark_coding_run_approved: the ledger is at policy_checked, the item approved.
Gate(p) ==
  /\ pc[p] = "gate"
  /\ IF stage = "policy_checked" /\ Head(items) = "approved"
     THEN Pursues(p, "approved") ELSE Returns(p)
  /\ UNCHANGED <<decisions, tokens, runs, stage, github, cpc>>

\* execute_persisted_approved_run begins with a run that is approved.
Execute(p, r) ==
  /\ Moves(p, "idle", "check")
  /\ Stored = {r} /\ run[r] = "approved"
  /\ work' = [work EXCEPT ![p] = r]
  /\ UNCHANGED <<decisions, tokens, runs, stage, github, cpc, goal, tok, saw>>

Live(t) == t # 0 /\ t \notin expired

\* _action_from_queue, load_approval and validate_approval with the audit log.
Check(p) ==
  /\ pc[p] = "check"
  /\ IF items = <<"approved">> /\ lastAudit = "approved" /\ Live(record)
     THEN /\ tok' = [tok EXCEPT ![p] = record]
          /\ pc' = [pc EXCEPT ![p] = "trust"]
          /\ UNCHANGED <<work, goal, saw>>
     ELSE Pursues(p, "invalidated")
  /\ UNCHANGED <<decisions, tokens, runs, stage, github, cpc>>

Trust(p) ==
  /\ pc[p] = "trust"
  /\ Pursues(p, IF stage = "approved" THEN "executing" ELSE "invalidated")
  /\ UNCHANGED <<decisions, tokens, runs, stage, github, cpc>>

-----------------------------------------------------------------------------
\* Changing a stored run.

\* What follows a CodingRunStoreError: only a failed worker goes on, to block
\* the ledger; every other caller returns.
Errs(p) ==
  IF goal[p] = "failed" THEN Moves(p, pc[p], "look") /\ Stays ELSE Returns(p)

\* load, and the check of _transition.
Load(p) ==
  /\ pc[p] = "load"
  /\ IF Target(goal[p]) \in Allowed[run[work[p]]]
     THEN /\ pc' = [pc EXCEPT ![p] = IF goal[p] = "executing" THEN "mark" ELSE "write"]
          /\ Stays
     ELSE Errs(p)
  /\ UNCHANGED <<decisions, tokens, runs, stage, github, cpc>>

\* Mutant: the marker is written, an existing one is not noticed.
BugMark(p) ==
  /\ Moves(p, "mark", "write") /\ marker' = [marker EXCEPT ![work[p]] = TRUE]
  /\ Stays
  /\ UNCHANGED <<decisions, tokens, run, began, stage, github, cpc>>

\* begin_execution: the exclusive creation of the marker.
Mark(p) ==
  /\ pc[p] = "mark"
  /\ \/ /\ ~marker[work[p]]
        /\ marker' = [marker EXCEPT ![work[p]] = TRUE]
        /\ Moves(p, "mark", "write") /\ Stays
     \/ marker[work[p]] /\ Returns(p) /\ UNCHANGED marker
  /\ UNCHANGED <<decisions, tokens, run, began, stage, github, cpc>>

Onward(p) ==
  IF goal[p] \in {"approved", "executing", "executed"} THEN "ledger" ELSE "look"

\* _write: the file is replaced whatever it holds by now; or it fails.
Write(p) ==
  /\ pc[p] = "write"
  /\ \/ /\ run' = [run EXCEPT ![work[p]] = Target(goal[p])]
        /\ began' = IF goal[p] = "executing"
                    THEN [began EXCEPT ![work[p]] = @ + 1] ELSE began
        /\ IF goal[p] = "unclaimed" THEN Returns(p)
           ELSE Moves(p, "write", Onward(p)) /\ Stays
     \/ Faults /\ Errs(p) /\ UNCHANGED <<run, began>>
  /\ UNCHANGED <<decisions, tokens, marker, stage, github, cpc>>

\* The state the ledger is left from, by the goal it records.
LeftFor == [approved |-> "policy_checked", executing |-> "approved",
            executed |-> "claimed"]

\* Mutant: the worker runs whether or not the claim was recorded.
BugRecordStage(p) ==
  LET from == LeftFor[goal[p]] IN
  /\ pc[p] = "ledger"
  /\ Recorded(from, NextStage[from]) \/ Unrecorded(from, NextStage[from])
  /\ IF goal[p] = "executing" THEN Moves(p, "ledger", "prepare") /\ Stays
     ELSE Returns(p)
  /\ UNCHANGED <<decisions, tokens, runs, github, cpc>>

RecordStage(p) ==
  /\ pc[p] = "ledger"
  /\ LET from == LeftFor[goal[p]] IN
     \/ /\ Recorded(from, NextStage[from])
        /\ IF goal[p] = "executing" THEN Moves(p, "ledger", "prepare") /\ Stays
           ELSE Returns(p)
     \/ /\ Unrecorded(from, NextStage[from])
        /\ IF goal[p] = "executing" THEN Pursues(p, "unclaimed") ELSE Returns(p)
  /\ UNCHANGED <<decisions, tokens, runs, github, cpc>>

\* _block_lifecycle and mark_coding_run_rejected: read the state, then record.
Look(p) ==
  LET blockable == IF goal[p] = "rejected" THEN {"policy_checked", "approved"}
                   ELSE {"policy_checked", "approved", "claimed"}
  IN
  /\ pc[p] = "look"
  /\ IF stage \in blockable
     THEN /\ saw' = [saw EXCEPT ![p] = stage]
          /\ Moves(p, "look", "block") /\ UNCHANGED <<work, goal, tok>>
     ELSE Returns(p)
  /\ UNCHANGED <<decisions, tokens, runs, stage, github, cpc>>

Block(p) ==
  /\ pc[p] = "block"
  /\ Recorded(saw[p], "blocked") \/ Unrecorded(saw[p], "blocked")
  /\ Returns(p)
  /\ UNCHANGED <<decisions, tokens, runs, github, cpc>>

-----------------------------------------------------------------------------
\* The GitHub worker: prepare_draft_pr, execute_approved_change and the calls
\* of github_api.py.  Whatever goes wrong ends in mark_failed.

\* Mutant: a result that is not a draft is recorded as executed.
BugFails(p) == Pursues(p, "executed")
Fails(p) == Pursues(p, "failed")

\* A request: done and answered, done and the answer lost, or not done.
Request(p, there, may, effect, none) ==
  \/ may /\ effect /\ there
  \/ Faults /\ may /\ effect /\ Fails(p)
  \/ (Faults \/ ~may) /\ none /\ Fails(p)

Prepare(p) ==
  /\ pc[p] = "prepare"
  /\ \/ /\ Live(tok[p]) /\ base = "expected" /\ pulls = 0
        /\ Moves(p, "prepare", "claim") /\ Stays
     \/ /\ Faults \/ ~Live(tok[p]) \/ base # "expected" \/ pulls # 0
        /\ Fails(p)
  /\ UNCHANGED <<decisions, tokens, runs, stage, github, cpc>>

\* validate_approval once more, then the exclusive marker of the token.
Claim(p) ==
  /\ pc[p] = "claim"
  /\ \/ /\ Live(tok[p]) /\ tok[p] \notin claimed
        /\ claimed' = claimed \cup {tok[p]}
        /\ Moves(p, "claim", "branch") /\ Stays
     \/ (~Live(tok[p]) \/ tok[p] \in claimed) /\ Fails(p) /\ UNCHANGED claimed
  /\ UNCHANGED <<decisions, expired, runs, stage, github, cpc>>

\* create_branch_at_sha: the base is looked at again, GitHub refuses a name
\* that is taken.
CreateBranch(p) ==
  /\ pc[p] = "branch"
  /\ Request(p, Moves(p, "branch", "commit") /\ Stays,
             base = "expected" /\ branch = None, branch' = "base",
             UNCHANGED branch)
  /\ UNCHANGED <<decisions, tokens, runs, stage, base, pulls, cpc>>

\* commit_files: the branch must still be where it was made.
CheckParent(p) ==
  /\ pc[p] = "commit"
  /\ \/ branch = "base" /\ Moves(p, "commit", "push") /\ Stays
     \/ (Faults \/ branch # "base") /\ Fails(p)
  /\ UNCHANGED <<decisions, tokens, runs, stage, github, cpc>>

\* Mutant: the ref is updated by force.
BugPush(p) ==
  /\ pc[p] = "push"
  /\ Request(p, Moves(p, "push", "open") /\ Stays, TRUE, branch' = "committed",
             UNCHANGED branch)
  /\ UNCHANGED <<decisions, tokens, runs, stage, base, pulls, cpc>>

\* The update of the ref with force = False: GitHub refuses one that is not
\* a descendant of where the branch is.
Push(p) ==
  /\ pc[p] = "push"
  /\ Request(p, Moves(p, "push", "open") /\ Stays,
             branch = "base", branch' = "committed", UNCHANGED branch)
  /\ UNCHANGED <<decisions, tokens, runs, stage, base, pulls, cpc>>

\* GitHub refuses a second pull request from the same head to the same base.
OpenDraft(p) ==
  /\ pc[p] = "open"
  /\ Request(p, Pursues(p, "executed"), pulls = 0, pulls' = 1, UNCHANGED pulls)
  /\ UNCHANGED <<decisions, tokens, runs, stage, base, branch, cpc>>

-----------------------------------------------------------------------------
\* The world.

Expire(t) ==
  /\ t \notin expired
  /\ expired' = expired \cup {t}
  /\ UNCHANGED <<decisions, claimed, runs, stage, github, cpc, locals>>

BaseMoves ==
  /\ base = "expected" /\ base' = "moved"
  /\ UNCHANGED <<decisions, tokens, runs, stage, branch, pulls, cpc, locals>>

\* Someone pushes to a branch of that name.
SomeonePushes ==
  /\ branch # "foreign" /\ branch' = "foreign"
  /\ UNCHANGED <<decisions, tokens, runs, stage, base, pulls, cpc, locals>>

\* reconcile_startup of another process of the program.
Reconcile ==
  /\ stage \in Interrupted /\ stage' = "blocked"
  /\ UNCHANGED <<decisions, tokens, runs, github, cpc, locals>>

CliDies(p) ==
  /\ Faults /\ pc[p] # "idle" /\ Returns(p)
  /\ UNCHANGED <<decisions, tokens, runs, stage, github, cpc>>

CoderDies(r) ==
  /\ Faults /\ cpc[r] \notin {"start", "done"}
  /\ cpc' = [cpc EXCEPT ![r] = "done"]
  /\ UNCHANGED <<decisions, tokens, runs, stage, github, locals>>

-----------------------------------------------------------------------------
CoderStep(r) == Enqueue(r) \/ Create(r) \/ Register(r) \/ RecordGate(r)

CliStep(p) ==
  \/ Issue(p) \/ Find(p) \/ Gate(p) \/ Check(p) \/ Trust(p)
  \/ Load(p) \/ Mark(p) \/ Write(p) \/ RecordStage(p) \/ Look(p) \/ Block(p)
  \/ Prepare(p) \/ Claim(p) \/ CreateBranch(p) \/ CheckParent(p) \/ Push(p)
  \/ OpenDraft(p)

Next ==
  \/ \E r \in Run : CoderStep(r) \/ CoderDies(r)
  \/ \E p \in Cli : CliStep(p) \/ CliDies(p)
  \/ \E p \in Cli, d \in {"approved", "rejected"} : Decide(p, d)
  \/ \E p \in Cli, r \in Run : Execute(p, r)
  \/ \E t \in 1..record : Expire(t)
  \/ BaseMoves \/ SomeonePushes \/ Reconcile

Spec == Init /\ [][Next]_vars

-----------------------------------------------------------------------------
\* A run becomes executing at most once, whichever commands race, die or come
\* again: the marker of begin_execution outlives the process that made it.
BegunOnce == \A r \in Run : began[r] <= 1

\* The branch the worker makes has behind it a run that was begun, a token
\* that was used up, a person's approval and a claim in the ledger.
BranchWasAuthorized ==
  branch \in {"base", "committed"} =>
    /\ \E r \in Run : marker[r] /\ began[r] = 1
    /\ claimed # {}
    /\ \E i \in DOMAIN items : items[i] = "approved"
    /\ stage \in {"claimed", "executed", "blocked"}

\* A run that says executed has its draft.
ExecutedHasPullRequest ==
  \A r \in Run : run[r] = "executed" => pulls = 1

\* Work that somebody else pushed to the branch is never overwritten.
ForeignWorkKept == [][branch = "foreign" => branch' = "foreign"]_vars

=============================================================================
