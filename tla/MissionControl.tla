--------------------------- MODULE MissionControl ---------------------------
(***************************************************************************)
(* Mission control (autonomous_agent/mission_control.py, server.py): HTTP  *)
(* handler threads submit, approve, reject, cancel and resume missions;    *)
(* one background worker executes them, step by step for a mission DAG.    *)
(*                                                                         *)
(* Three files are shared: the mission store, the task queue and the       *)
(* approval queue with its records.  No lock spans two of them, and        *)
(* MissionStore.put replaces a whole record by one computed from an        *)
(* earlier read, so a handler is split at every store call.  Execution     *)
(* ids, texts and the memory and audit entries of a mission are left out;  *)
(* the inside of create_approval is the subject of ApprovalQueue, and no   *)
(* two missions have the same text.                                        *)
(***************************************************************************)
EXTENDS TaskQueueStore, FiniteSets

CONSTANTS Mission,
          None,      \* no mission
          Guarded,   \* the missions whose plan needs an approval
          Steps,     \* DAG nodes of each mission; 0: a plain task
          Client,    \* HTTP handler threads
          MaxTasks,  \* bound on the length of the task queue
          MaxProposals, \* bound on the proposals of one action
          Overtake,  \* whether the worker may claim an item before the
                     \* request that enqueued it has stored its mission
          Faults     \* whether a call of a store may raise FileLockTimeout

ASSUME MissionControlAssumption ==
  /\ None \notin Mission /\ Guarded \subseteq Mission /\ IsFiniteSet(Client)
  /\ Steps \in [Mission -> Nat]
  /\ TaskId = 1..MaxTasks /\ MaxTasks \in Nat /\ MaxProposals \in Nat
  /\ Overtake \in BOOLEAN /\ Faults \in BOOLEAN

VARIABLES tasks,     \* mission_queue.json; the id of an item is its position
          missions,  \* missions.json
          asked,     \* approval_queue.json: statuses in file order
          approval,  \* the approval record of each action, latest decision
          claimed,   \* the markers of claim_approval
          mode, todo,    \* the server process; missions start() must update
          call,          \* what each handler thread is doing
          wpc, wtask,    \* the worker: its place, its item,
          wmission, seen, known, latest, outcome, privileged, \* its locals
          owner      \* history: the mission each item was enqueued for

files == <<tasks, missions, asked, approval, claimed>>
working == <<wpc, wtask, wmission, seen, known, latest, outcome, privileged>>
server == <<mode, todo>>
vars == <<files, server, call, working, owner>>

-----------------------------------------------------------------------------
MissionState ==
  {"absent", "pending", "running", "requires_approval", "blocked", "verified",
   "failed", "recovery_required", "cancelled", "rejected"}

\* The first proposal of a mission, and those of its resumptions: their text
\* is the same each time, and hence their id.
Round == {"first", "again"}
Record == [state : MissionState, task : Nat, done : SUBSET Nat,
           action : Round \cup {"none"}]
Absent == [state |-> "absent", task |-> 0, done |-> {}, action |-> "none"]

\* live: not expired; token: how many tokens the action was given.
Approval == [token : Nat, live : BOOLEAN,
             ruling : {"none", "approved", "rejected"}]
Token == [mission : Mission, round : Round, token : Nat]

Op == {"none", "cancel", "resume", "activate", "reject"}
CallPc == {"idle", "read", "decided", "putting"}
Idle == [pc |-> "idle", op |-> "none", mission |-> None, rec |-> Absent]
NoTask == 0
WorkerPc == {"idle", "claimed", "looked", "marked", "running", "stepped",
             "ended", "final", "done", "dead"}

TypeOK ==
  /\ tasks \in Seq(QueueItem)
  /\ missions \in [Mission -> Record]
  /\ asked \in [Mission -> [Round -> Seq({"pending", "approved", "rejected"})]]
  /\ approval \in [Mission -> [Round -> Approval]]
  /\ claimed \subseteq Token
  /\ mode \in {"down", "recovering", "up"} /\ todo \subseteq TaskId
  /\ call \in [Client -> [pc : CallPc, op : Op,
                          mission : Mission \cup {None}, rec : Record]]
  /\ wpc \in WorkerPc /\ wtask \in Nat /\ wmission \in Mission \cup {None}
  /\ seen \in Record /\ latest \in Record /\ known \subseteq Nat
  /\ outcome \in MissionState /\ privileged \in BOOLEAN
  /\ owner \in Seq(Mission)

WorkerAt(label) == wpc' = label
WorkerRests(label) ==
  /\ WorkerAt(label) /\ wtask' = NoTask /\ wmission' = None
  /\ seen' = Absent /\ known' = {} /\ latest' = Absent
  /\ outcome' = "absent" /\ privileged' = FALSE
WorkerIdle == WorkerRests("idle")

Init ==
  /\ tasks = <<>> /\ missions = [m \in Mission |-> Absent]
  /\ asked = [m \in Mission |-> [r \in Round |-> <<>>]]
  /\ approval = [m \in Mission |-> [r \in Round |->
                   [token |-> 0, live |-> FALSE, ruling |-> "none"]]]
  /\ claimed = {} /\ mode = "down" /\ todo = {}
  /\ call = [c \in Client |-> Idle]
  /\ wpc = "idle" /\ wtask = NoTask /\ wmission = None
  /\ seen = Absent /\ known = {} /\ latest = Absent
  /\ outcome = "absent" /\ privileged = FALSE /\ owner = <<>>

-----------------------------------------------------------------------------
\* Calls of the stores.

Exists(m) == missions[m].state # "absent"
Put(m, rec) == missions' = [missions EXCEPT ![m] = rec]

\* get_by_task_id.
Of(t) == {m \in Mission : Exists(m) /\ missions[m].task = t}

NewTask == Len(tasks) + 1
EnqueueFor(m) == /\ Len(tasks) < MaxTasks
                 /\ tasks' = AfterEnqueue(tasks, NewTask, TRUE)
                 /\ owner' = Append(owner, m)

\* queue.cancel finds the item and accepts it.
CanCancel(t) == t \in DOMAIN tasks /\ tasks[t].state \in Cancellable

\* enqueue_proposal: a pending item is reused, a new one goes to the front.
Proposed(items) ==
  IF \E i \in DOMAIN items : items[i] = "pending"
    THEN items ELSE <<"pending">> \o items
Propose(m, r) == /\ Len(Proposed(asked[m][r])) <= MaxProposals
                 /\ asked' = [asked EXCEPT ![m][r] = Proposed(@)]

\* set_decision looks at the first item with the id ...
Undecided(m, r) == asked[m][r] # <<>> /\ Head(asked[m][r]) = "pending"
Decide(m, r, ruling) ==
  asked' = [asked EXCEPT ![m][r] = <<ruling>> \o Tail(@)]

\* ... while mission control finds the last one: its dict keeps that.
StatusOf(m, r) == IF asked[m][r] = <<>> THEN "absent"
                  ELSE asked[m][r][Len(asked[m][r])]

\* _validate_pending_approval.
Valid(m, r) == /\ StatusOf(m, r) = "approved"
               /\ approval[m][r].live
               /\ approval[m][r].ruling = "approved"

TokenOf(m, r) ==
  [mission |-> m, round |-> r, token |-> approval[m][r].token]

-----------------------------------------------------------------------------
\* Handler threads.  Every request ends in one MissionStore.put.

Serving(c, label) == mode = "up" /\ call[c].pc = label
Asks(c, op) == call[c].op = op
Returns(c) == call' = [call EXCEPT ![c] = Idle]
Reads(c, op, m) ==
  call' = [call EXCEPT ![c] = [pc |-> "read", op |-> op, mission |-> m,
                               rec |-> missions[m]]]
Stores(c, m, rec) ==
  call' = [call EXCEPT ![c] = [pc |-> "putting", op |-> "none",
                               mission |-> m, rec |-> rec]]
Unsubmitted(m) == /\ ~Exists(m)
                  /\ \A c \in Client : call[c].mission # m

\* submit, submit_plan: an executable plan is enqueued, ...
Submit(c, m) ==
  /\ Serving(c, "idle") /\ Unsubmitted(m) /\ m \notin Guarded
  /\ EnqueueFor(m)
  /\ Stores(c, m, [Absent EXCEPT !.state = "pending", !.task = NewTask])
  /\ UNCHANGED <<missions, asked, approval, claimed, server, working>>

\* ... one that needs an approval is proposed, ...
SubmitGuarded(c, m) ==
  /\ Serving(c, "idle") /\ Unsubmitted(m) /\ m \in Guarded
  /\ Propose(m, "first")
  /\ Stores(c, m, [Absent EXCEPT !.state = "requires_approval",
                                 !.action = "first"])
  /\ UNCHANGED <<tasks, missions, approval, claimed, server, working, owner>>

\* ... and one that cannot run is recorded as blocked.
SubmitRefused(c, m) ==
  /\ Serving(c, "idle") /\ Unsubmitted(m) /\ m \notin Guarded
  /\ Put(m, [Absent EXCEPT !.state = "blocked"])
  /\ UNCHANGED <<tasks, asked, approval, claimed, server, call, working, owner>>

\* do_POST: create_approval, then activate_approved_action.
Approve(c, m, r) ==
  /\ Serving(c, "idle") /\ Undecided(m, r)
  /\ Decide(m, r, "approved")
  /\ approval' = [approval EXCEPT ![m][r] =
                    [token |-> @.token + 1, live |-> TRUE,
                     ruling |-> "approved"]]
  /\ call' = [call EXCEPT ![c] = [pc |-> "decided", op |-> "activate",
                mission |-> m, rec |-> [Absent EXCEPT !.action = r]]]
  /\ UNCHANGED <<tasks, missions, claimed, server, working, owner>>

\* do_POST: reject_action, then reject_approved_action.
Reject(c, m, r) ==
  /\ Serving(c, "idle") /\ Undecided(m, r)
  /\ Decide(m, r, "rejected")
  /\ approval' = [approval EXCEPT ![m][r].ruling = "rejected"]
  /\ call' = [call EXCEPT ![c] = [pc |-> "decided", op |-> "reject",
                mission |-> m, rec |-> [Absent EXCEPT !.action = r]]]
  /\ UNCHANGED <<tasks, missions, claimed, server, working, owner>>

\* get_by_approval_action_id finds a mission that still waits for it.
Awaits(m, r) == /\ missions[m].action = r
                /\ missions[m].state = "requires_approval"

Activatable(m, r) == Valid(m, r) /\ Awaits(m, r)

ReadDecided(c) ==
  /\ Serving(c, "decided")
  /\ LET m == call[c].mission  r == call[c].rec.action
     IN  \/ Asks(c, "activate") /\ Activatable(m, r) /\ Reads(c, "activate", m)
         \/ Asks(c, "activate") /\ ~Activatable(m, r) /\ Returns(c)
         \/ /\ Asks(c, "reject") /\ Awaits(m, r)
            /\ Stores(c, m, [missions[m] EXCEPT !.state = "rejected"])
         \/ Asks(c, "reject") /\ ~Awaits(m, r) /\ Returns(c)
  /\ UNCHANGED <<files, server, working, owner>>

Resumable == {"failed", "recovery_required", "blocked"}

\* cancel and resume read the mission first.
ReadMission(c, m, op) ==
  /\ Serving(c, "idle") /\ Exists(m)
  /\ op \in {"cancel", "resume"}
  /\ op = "resume" => missions[m].state \in Resumable
  /\ Reads(c, op, m)
  /\ UNCHANGED <<files, server, working, owner>>

Queued(rec) == [rec EXCEPT !.state = "pending", !.task = NewTask]

Requeues(c) == \/ Asks(c, "activate")
               \/ Asks(c, "resume") /\ call[c].rec.action = "none"

\* activate_approved_action, and resume of a mission without approval.
EnqueueAgain(c) ==
  /\ Serving(c, "read")
  /\ Requeues(c)
  /\ EnqueueFor(call[c].mission)
  /\ Stores(c, call[c].mission, Queued(call[c].rec))
  /\ UNCHANGED <<missions, asked, approval, claimed, server, working>>

\* resume of a mission with an approval asks for a new one.
\* Mutant: the old approval is used again.
BugProposeAgain(c) ==
  /\ Serving(c, "read") /\ Asks(c, "resume") /\ call[c].rec.action # "none"
  /\ EnqueueFor(call[c].mission)
  /\ Stores(c, call[c].mission, Queued(call[c].rec))
  /\ UNCHANGED <<missions, asked, approval, claimed, server, working>>

ProposeAgain(c) ==
  /\ Serving(c, "read") /\ Asks(c, "resume") /\ call[c].rec.action # "none"
  /\ Propose(call[c].mission, "again")
  /\ Stores(c, call[c].mission,
            [call[c].rec EXCEPT !.state = "requires_approval",
                                !.action = "again"])
  /\ UNCHANGED <<tasks, missions, approval, claimed, server, working, owner>>

Cancelled(rec) == [rec EXCEPT !.state = "cancelled"]

\* cancel: a mission that waits for an approval has its proposal rejected ...
CancelWaiting(c) ==
  /\ Serving(c, "read") /\ Asks(c, "cancel")
  /\ call[c].rec.state = "requires_approval"
  /\ LET m == call[c].mission  r == call[c].rec.action
     IN  IF StatusOf(m, r) = "pending"
           THEN /\ Decide(m, r, "rejected")
                /\ approval' = [approval EXCEPT ![m][r].ruling = "rejected"]
           ELSE UNCHANGED <<asked, approval>>
  /\ Stores(c, call[c].mission, Cancelled(call[c].rec))
  /\ UNCHANGED <<tasks, missions, claimed, server, working, owner>>

\* ... any other one has its queue item cancelled, if that is accepted.
\* Mutant: the queue's refusal is ignored.
BugCancelQueued(c) ==
  /\ Serving(c, "read") /\ Asks(c, "cancel")
  /\ call[c].rec.state # "requires_approval"
  /\ LET t == call[c].rec.task
     IN  /\ tasks' = IF CanCancel(t) THEN AfterCancel(tasks, t) ELSE tasks
         /\ Stores(c, call[c].mission, Cancelled(call[c].rec))
  /\ UNCHANGED <<missions, asked, approval, claimed, server, working, owner>>

CancelQueued(c) ==
  /\ Serving(c, "read") /\ Asks(c, "cancel")
  /\ call[c].rec.state # "requires_approval"
  /\ LET t == call[c].rec.task
     IN  \/ /\ CanCancel(t)
            /\ tasks' = AfterCancel(tasks, t)
            /\ Stores(c, call[c].mission, Cancelled(call[c].rec))
         \/ ~CanCancel(t) /\ tasks' = tasks /\ Returns(c)
  /\ UNCHANGED <<missions, asked, approval, claimed, server, working, owner>>

PutMission(c) ==
  /\ Serving(c, "putting")
  /\ Put(call[c].mission, call[c].rec)
  /\ Returns(c)
  /\ UNCHANGED <<tasks, asked, approval, claimed, server, working, owner>>

\* The next call of the request raises: what it did so far stays done.
RequestRaises(c) ==
  /\ Faults /\ mode = "up" /\ call[c].pc # "idle"
  /\ Returns(c)
  /\ UNCHANGED <<files, server, working, owner>>

\* An approval passes its expires_at.
Expire(m, r) ==
  /\ approval[m][r].live
  /\ approval' = [approval EXCEPT ![m][r].live = FALSE]
  /\ UNCHANGED <<tasks, missions, asked, claimed, server, call, working, owner>>

-----------------------------------------------------------------------------
\* The worker: run_once around _handle_queue_item.

Working(label) == mode = "up" /\ wpc = label

ClaimTask ==
  /\ Working("idle")
  /\ Overtake \/ \A c \in Client : call[c].pc # "putting"
  /\ \E i \in DOMAIN tasks : /\ NextClaim(tasks, i)
                             /\ tasks' = AfterClaim(tasks, i)
                             /\ wtask' = i
  /\ WorkerAt("claimed")
  /\ UNCHANGED <<missions, asked, approval, claimed, server, call, wmission,
                 seen, known, latest, outcome, privileged, owner>>

\* existing = get_by_task_id(item.task_id).
LookUp ==
  /\ Working("claimed")
  /\ IF Of(wtask) = {}
       THEN WorkerAt("marked") /\ UNCHANGED <<wmission, seen, known>>
       ELSE /\ WorkerAt("looked")
            /\ wmission' \in Of(wtask)
            /\ seen' = missions[wmission']
            /\ known' = missions[wmission'].done
  /\ UNCHANGED <<files, server, call, wtask, latest, outcome, privileged,
                 owner>>

MarkRunning ==
  /\ Working("looked")
  /\ Put(wmission, [seen EXCEPT !.state = "running"])
  /\ WorkerAt("marked")
  /\ UNCHANGED <<tasks, asked, approval, claimed, server, call, wtask, wmission,
                 seen, known, latest, outcome, privileged, owner>>

Ends(result) == outcome' = result /\ WorkerAt("ended")

\* A mission without an approval action runs with what it may do by itself;
\* one with an action must claim its token.
Begin ==
  /\ Working("marked") /\ seen.action = "none"
  /\ WorkerAt("running")
  /\ UNCHANGED <<files, server, call, wtask, wmission, seen, known, latest,
                 outcome, privileged, owner>>

Spendable(m, r) == Valid(m, r) /\ TokenOf(m, r) \notin claimed

BeginPrivileged ==
  /\ Working("marked") /\ seen.action # "none"
  /\ Spendable(wmission, seen.action)
  /\ claimed' = claimed \cup {TokenOf(wmission, seen.action)}
  /\ privileged' = TRUE
  /\ WorkerAt("running")
  /\ UNCHANGED <<tasks, missions, asked, approval, server, call, wtask,
                 wmission, seen, known, latest, outcome, owner>>

Unapproved ==
  /\ Working("marked") /\ seen.action # "none"
  /\ ~Spendable(wmission, seen.action)
  /\ Ends("failed")
  /\ UNCHANGED <<files, server, call, wtask, wmission, seen, known, latest,
                 privileged, owner>>

\* The DAG is a chain: node i depends on node i - 1, node ids are numbers.
Dag == seen.state # "absent" /\ Steps[wmission] > 0
Remaining == IF Dag THEN (1..Steps[wmission]) \ known ELSE {}
IsNext(s) == s \in Remaining /\ \A r \in Remaining : s <= r

\* Without its approval a guarded plan is not executable.
MayVerify == wmission \in Guarded => privileged

\* run_task of a plain task, or of an item no mission was found for.
RunTask(result) ==
  /\ Working("running") /\ ~Dag
  /\ result \in {"verified", "failed", "blocked", "recovery_required"}
  /\ result = "verified" => MayVerify
  /\ Ends(result)
  /\ UNCHANGED <<files, server, call, wtask, wmission, seen, known, latest,
                 privileged, owner>>

\* _run_steps: a verified step is stored in the latest record, ...
StepVerified ==
  /\ Working("running") /\ Remaining # {} /\ MayVerify
  /\ latest' = IF Exists(wmission) THEN missions[wmission] ELSE seen
  /\ WorkerAt("stepped")
  /\ UNCHANGED <<files, server, call, wtask, wmission, seen, known, outcome,
                 privileged, owner>>

\* Mutant: the step is added to what the worker read at the start.
BugProgress(s) == [seen EXCEPT !.state = "running", !.done = @ \cup {s}]

Progress(s) == [latest EXCEPT !.state = "running", !.done = @ \cup {s}]

StoreStep ==
  /\ Working("stepped")
  /\ \E s \in Remaining : /\ IsNext(s)
                          /\ Put(wmission, Progress(s))
                          /\ known' = known \cup {s}
  /\ latest' = Absent
  /\ WorkerAt("running")
  /\ UNCHANGED <<tasks, asked, approval, claimed, server, call, wtask, wmission,
                 seen, outcome, privileged, owner>>

\* ... any other result ends the mission as failed.
StepFails ==
  /\ Working("running") /\ Remaining # {}
  /\ Ends("failed")
  /\ UNCHANGED <<files, server, call, wtask, wmission, seen, known, latest,
                 privileged, owner>>

AllDone == Remaining = {}

StepsDone ==
  /\ Working("running") /\ Dag /\ AllDone
  /\ Ends("verified")
  /\ UNCHANGED <<files, server, call, wtask, wmission, seen, known, latest,
                 privileged, owner>>

\* latest = get_by_task_id(item.task_id) or existing.
LookAgain ==
  /\ Working("ended")
  /\ \/ /\ Of(wtask) # {}
        /\ wmission' \in Of(wtask)
        /\ latest' = missions[wmission']
        /\ WorkerAt("final")
     \/ /\ Of(wtask) = {} /\ seen.state # "absent"
        /\ latest' = seen
        /\ WorkerAt("final") /\ UNCHANGED wmission
     \/ /\ Of(wtask) = {} /\ seen.state = "absent"
        /\ WorkerAt("done") /\ UNCHANGED <<wmission, latest>>
  /\ UNCHANGED <<files, server, call, wtask, seen, known, outcome, privileged,
                 owner>>

PutOutcome ==
  /\ Working("final")
  /\ Put(wmission, [latest EXCEPT !.state = outcome])
  /\ WorkerAt("done")
  /\ UNCHANGED <<tasks, asked, approval, claimed, server, call, wtask, wmission,
                 seen, known, latest, outcome, privileged, owner>>

Completes(success) ==
  /\ tasks' = AfterComplete(tasks, wtask, success)
  /\ WorkerIdle
  /\ UNCHANGED <<missions, asked, approval, claimed, server, call, owner>>

CompleteTask == Working("done") /\ Completes(outcome = "verified")

-----------------------------------------------------------------------------
\* A call of the worker raises.

\* In the try of _handle_queue_item the mission fails; ...
RuntimeRaises ==
  /\ Faults /\ (Working("marked") \/ Working("stepped"))
  /\ Ends("failed")
  /\ UNCHANGED <<files, server, call, wtask, wmission, seen, known, latest,
                 privileged, owner>>

\* ... before and after it, nothing is left to do but to complete the item as
\* failed: the mission keeps the state it has.
HandlerRaises ==
  /\ Faults
  /\ Working("claimed") \/ Working("looked") \/ Working("ended") \/ Working("final")
  /\ outcome' = "failed" /\ WorkerAt("done")
  /\ UNCHANGED <<files, server, call, wtask, wmission, seen, known, latest,
                 privileged, owner>>

\* The first complete of an item raises, and not the one of the except clause.
CompletionRaises == Faults /\ Working("done") /\ Completes(FALSE)

\* claim_next raises, or both: run_forever ends, and with it the only worker.
WorkerDies ==
  /\ Faults /\ (Working("idle") \/ Working("done"))
  /\ WorkerRests("dead")
  /\ UNCHANGED <<files, server, call, owner>>

-----------------------------------------------------------------------------
\* The server process: start() recovers before it serves anyone.

\* Mutant: only the items that were running are reported.
BugRestart ==
  /\ mode = "down"
  /\ tasks' = AfterRecover(tasks)
  /\ todo' = {t \in DOMAIN tasks : tasks[t].state = "running"}
  /\ mode' = "recovering"
  /\ UNCHANGED <<missions, asked, approval, claimed, call, working, owner>>

Restart ==
  /\ mode = "down"
  /\ tasks' = AfterRecover(tasks)
  /\ todo' = {t \in DOMAIN tasks' : tasks'[t].state = "recovery_required"}
  /\ mode' = "recovering"
  /\ UNCHANGED <<missions, asked, approval, claimed, call, working, owner>>

Recovered(t) ==
  [m \in Mission |-> IF m \in Of(t)
     THEN [missions[m] EXCEPT !.state = "recovery_required"] ELSE missions[m]]

RecoverMission ==
  /\ mode = "recovering"
  /\ \E t \in todo : /\ \A u \in todo : t <= u
                     /\ missions' = Recovered(t)
                     /\ todo' = todo \ {t}
  /\ UNCHANGED <<tasks, asked, approval, claimed, mode, call, working, owner>>

Serve ==
  /\ mode = "recovering" /\ todo = {}
  /\ mode' = "up"
  /\ UNCHANGED <<files, todo, call, working, owner>>

Crash ==
  /\ mode # "down"
  /\ mode' = "down" /\ todo' = {}
  /\ call' = [c \in Client |-> Idle]
  /\ WorkerIdle
  /\ UNCHANGED <<files, owner>>

-----------------------------------------------------------------------------
Requests(c) ==
  \/ \E m \in Mission : Submit(c, m) \/ SubmitGuarded(c, m) \/ SubmitRefused(c, m)
  \/ \E m \in Mission, r \in Round : Approve(c, m, r) \/ Reject(c, m, r)
  \/ \E m \in Mission, op \in Op : ReadMission(c, m, op)

Proceeds(c) == \/ ReadDecided(c) \/ EnqueueAgain(c) \/ ProposeAgain(c)
               \/ CancelWaiting(c) \/ CancelQueued(c) \/ PutMission(c)

Works ==
  \/ ClaimTask \/ LookUp \/ MarkRunning
  \/ Begin \/ BeginPrivileged \/ Unapproved
  \/ \E result \in MissionState : RunTask(result)
  \/ StepVerified \/ StoreStep \/ StepFails \/ StepsDone
  \/ LookAgain \/ PutOutcome \/ CompleteTask

Starts == Restart \/ RecoverMission \/ Serve

Next == \/ \E c \in Client : Requests(c) \/ Proceeds(c)
        \/ \E m \in Mission, r \in Round : Expire(m, r)
        \/ \E c \in Client : RequestRaises(c)
        \/ Works \/ Starts \/ Crash
        \/ RuntimeRaises \/ HandlerRaises \/ CompletionRaises \/ WorkerDies

Spec == Init /\ [][Next]_vars
\* The operating system keeps the threads running and the process is started
\* again; requests, expiry and crashes just happen.
FairSpec == Spec /\ WF_vars(Works) /\ WF_vars(Starts)
                 /\ \A c \in Client : WF_vars(Proceeds(c))

-----------------------------------------------------------------------------
\* Properties.

\* An operator's approval activates a mission once: however requests race,
\* fail and are resumed, a mission that needs approvals was never put in the
\* queue more often than it was approved.
OneItemPerApproval ==
  \A m \in Guarded :
    Cardinality({t \in DOMAIN tasks : owner[t] = m})
      <= approval[m]["first"].token + approval[m]["again"].token

\* While the worker executes a DAG, the steps it skips are those the store
\* knows as verified: it repeats none and leaves out none.
ProgressIsCurrent ==
  mode = "up" /\ wpc = "running" /\ Dag => known = missions[wmission].done

\* A cancelled or rejected mission has no item that the worker may still claim
\* or is executing.
InQueue(m, states) ==
  missions[m].task # NoTask /\ tasks[missions[m].task].state \in states
WithdrawnIsNotQueued ==
  \A m \in Mission :
    missions[m].state \in {"cancelled", "rejected"} =>
      /\ ~InQueue(m, {"pending"})
      /\ missions[m].task = wtask => wpc \in {"idle", "done", "dead"}

\* README.md:163: resume works "while preserving already-verified DAG steps".
StepsStayVerified ==
  [][\A m \in Mission : missions[m].done \subseteq missions'[m].done]_vars

\* README: "queued mission was cancelled before execution".
CancelledIsNotExecuted ==
  \A m \in Mission :
    wmission = m /\ wpc = "running" => missions[m].state # "cancelled"

\* Once the crashes stop, a mission does not stay "running" unnoticed: its run
\* ends, a restart reports it, or, when a store call raised, its queue item
\* tells of the failure or the worker is gone until the next start.
RunningMissionsEnd ==
  <>[](mode # "down") =>
    \A m \in Mission :
      missions[m].state = "running" ~> \/ missions[m].state # "running"
                                       \/ InQueue(m, {"failed"})
                                       \/ wpc = "dead"
=============================================================================
