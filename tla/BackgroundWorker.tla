-------------------------- MODULE BackgroundWorker --------------------------
(***************************************************************************)
(* Worker threads (autonomous_agent/background_worker.py) draining the     *)
(* durable task queue, each task optionally covered by an execution lease  *)
(* (autonomous_agent/concurrency.py), while clients enqueue, cancel and    *)
(* confirm recovery.                                                       *)
(*                                                                         *)
(* A worker holds no lock between two store calls, so run_once is split at *)
(* each of them; a process may crash at any point and only the two files   *)
(* (queue, leases) survive.                                                *)
(***************************************************************************)
EXTENDS TaskQueueStore, FiniteSets

CONSTANTS Worker,       \* worker threads, of one process or of several
          NoTask,       \* no task
          UseLeases,    \* whether lease_store was given
          MaxActive,    \* max_active of the lease store
          Ttl,          \* ttl_seconds of the lease store
          MaxTime,      \* bound on the clock, for model checking
          WorkersOverlap, \* whether a worker may start beside a live one
          LockTimeouts  \* whether a store call may raise FileLockTimeout

ASSUME BackgroundWorkerAssumption ==
  /\ NoTask \notin TaskId
  /\ UseLeases \in BOOLEAN /\ WorkersOverlap \in BOOLEAN /\ LockTimeouts \in BOOLEAN
  /\ MaxActive \in Nat \ {0} /\ Ttl \in Nat \ {0} /\ MaxTime \in Nat

VARIABLES tasks,     \* task_queue.json
          leases,    \* the lease file
          now,       \* time.time()
          pc,        \* where each worker is in its loop
          claim,     \* the item run_once works on: a snapshot of the claim
          expires,   \* expires_at of the lease the worker holds
          success,   \* what the handler returned
          confirms,  \* history: confirmed recoveries of each task
          earned     \* history: claims whose handler returned True

files == <<tasks, leases>>
local == <<pc, claim, expires, success>>
history == <<confirms, earned>>
workerVars == <<tasks, leases, now, pc, claim, expires, success, confirms, earned>>

-----------------------------------------------------------------------------
\* idle: top of the loop         claimed: claim_next returned an item
\* denied: no lease was granted  handling: inside the handler
\* returned/raised: the handler ended   releasing: in the finally block
\* dying: in the finally block with an exception propagating
\* down: no thread runs (not started, stopped, dead or crashed)
Executing == {"handling", "returned", "raised", "releasing", "dying"}
PcState == {"down", "idle", "claimed", "denied"} \cup Executing

TaskClaim == [task_id : TaskId, attempts : Nat]
NoClaim == [task_id |-> NoTask, attempts |-> 0]
Lease == [resource : TaskId, lease_id : Nat, expires_at : Nat]

WorkerTypeOK ==
  /\ tasks \in Seq(QueueItem)
  /\ leases \in SUBSET Lease
  /\ now \in Nat
  /\ pc \in [Worker -> PcState]
  /\ claim \in [Worker -> TaskClaim \cup {NoClaim}]
  /\ expires \in [Worker -> Nat]
  /\ success \in [Worker -> BOOLEAN]
  /\ confirms \in [TaskId -> Nat]
  /\ earned \in SUBSET TaskClaim

WorkerInit ==
  /\ tasks = <<>> /\ leases = {} /\ now = 0
  /\ pc = [w \in Worker |-> "down"]
  /\ claim = [w \in Worker |-> NoClaim]
  /\ expires = [w \in Worker |-> 0]
  /\ success = [w \in Worker |-> FALSE]
  /\ confirms = [t \in TaskId |-> 0]
  /\ earned = {}

-----------------------------------------------------------------------------
\* Clients of the queue.

Enqueue(t, due) ==
  /\ Loadable(tasks)
  /\ t \notin Ids(tasks)
  /\ tasks' = AfterEnqueue(tasks, t, due)
  /\ UNCHANGED <<leases, now, local, history>>

Cancel(i) ==
  /\ Loadable(tasks)
  /\ tasks[i].state \in Cancellable
  /\ tasks' = AfterCancel(tasks, i)
  /\ UNCHANGED <<leases, now, local, history>>

\* Mutant: any item that was started can be confirmed.
BugConfirmRecovery(i) ==
  /\ Loadable(tasks)
  /\ tasks[i].attempts > 0 /\ tasks[i].state # "pending"
  /\ tasks' = AfterConfirm(tasks, i)
  /\ confirms' = [confirms EXCEPT ![tasks[i].task_id] = @ + 1]
  /\ UNCHANGED <<leases, now, local, earned>>

ConfirmRecovery(i) ==
  /\ Loadable(tasks)
  /\ tasks[i].state = "recovery_required"
  /\ tasks' = AfterConfirm(tasks, i)
  /\ confirms' = [confirms EXCEPT ![tasks[i].task_id] = @ + 1]
  /\ UNCHANGED <<leases, now, local, earned>>

\* The clock passes the item's available_at.
BecomeDue(i) ==
  /\ ~tasks[i].due
  /\ tasks' = AfterDue(tasks, i)
  /\ UNCHANGED <<leases, now, local, history>>

Tick ==
  /\ now < MaxTime
  /\ now' = now + 1
  /\ UNCHANGED <<files, local, history>>

-----------------------------------------------------------------------------
\* The worker loop.

GoTo(w, label) == pc' = [pc EXCEPT ![w] = label]

\* A thread that ends loses its locals; it holds no lock between calls.
Ends(w) ==
  /\ GoTo(w, "down")
  /\ claim' = [claim EXCEPT ![w] = NoClaim]
  /\ expires' = [expires EXCEPT ![w] = 0]
  /\ success' = [success EXCEPT ![w] = FALSE]

\* run_forever / run_until_empty: recover() before the first claim.
StartWorker(w) ==
  /\ pc[w] = "down"
  /\ WorkersOverlap \/ \A v \in Worker : pc[v] = "down"
  /\ Loadable(tasks)
  /\ tasks' = AfterRecover(tasks)
  /\ GoTo(w, "idle")
  /\ UNCHANGED <<leases, now, claim, expires, success, history>>

ClaimNext(w) ==
  /\ pc[w] = "idle"
  /\ Loadable(tasks)
  /\ \E i \in DOMAIN tasks :
       /\ NextClaim(tasks, i)
       /\ tasks' = AfterClaim(tasks, i)
       /\ claim' = [claim EXCEPT ![w] = [task_id |-> tasks[i].task_id,
                                         attempts |-> tasks[i].attempts + 1]]
  /\ GoTo(w, IF UseLeases THEN "claimed" ELSE "handling")
  /\ UNCHANGED <<leases, now, expires, success, history>>

\* ExecutionLeaseStore._load drops the leases that have expired.
Active == {l \in leases : l.expires_at > now}

\* Mutant: the resource is not compared.
BugGrantable(t) == Cardinality(Active) < MaxActive
Grantable(t) == /\ \A l \in Active : l.resource # t
                /\ Cardinality(Active) < MaxActive

AcquireLease(w) ==
  /\ pc[w] = "claimed"
  /\ Grantable(claim[w].task_id)
  /\ leases' = Active \cup {[resource |-> claim[w].task_id,
                             lease_id |-> claim[w].attempts,
                             expires_at |-> now + Ttl]}
  /\ expires' = [expires EXCEPT ![w] = now + Ttl]
  /\ GoTo(w, "handling")
  /\ UNCHANGED <<tasks, now, claim, success, history>>

LeaseUnavailable(w) ==
  /\ pc[w] = "claimed"
  /\ ~Grantable(claim[w].task_id)
  /\ GoTo(w, "denied")
  /\ UNCHANGED <<files, now, claim, expires, success, history>>

\* complete() finds the item and accepts it only while it is running.
Running(w, i) == /\ tasks[i].task_id = claim[w].task_id
                 /\ tasks[i].state = "running"
CanComplete(w) == Loadable(tasks) /\ \E i \in DOMAIN tasks : Running(w, i)

Complete(w, ok) ==
  /\ Loadable(tasks)
  /\ \E i \in DOMAIN tasks :
       Running(w, i) /\ tasks' = AfterComplete(tasks, i, ok)

\* Mutant: the refusal is not recorded.
BugDeniedForgets(w) ==
  /\ pc[w] = "denied"
  /\ GoTo(w, "idle")
  /\ claim' = [claim EXCEPT ![w] = NoClaim]
  /\ UNCHANGED <<files, now, expires, success, history>>

CompleteDenied(w) ==
  /\ pc[w] = "denied"
  /\ Complete(w, FALSE)
  /\ GoTo(w, "idle")
  /\ claim' = [claim EXCEPT ![w] = NoClaim]
  /\ UNCHANGED <<leases, now, expires, success, history>>

\* The handler returns a Boolean ...
HandlerReturns(w, ok) ==
  /\ pc[w] = "handling"
  /\ GoTo(w, "returned")
  /\ success' = [success EXCEPT ![w] = ok]
  /\ earned' = IF ok THEN earned \cup {claim[w]} ELSE earned
  /\ UNCHANGED <<files, now, claim, expires, confirms>>

\* ... or raises.
HandlerRaises(w) ==
  /\ pc[w] = "handling"
  /\ GoTo(w, "raised")
  /\ UNCHANGED <<files, now, claim, expires, success, history>>

\* A KeyboardInterrupt is no Exception: only the finally block still runs.
WorkerInterrupted(w) ==
  /\ pc[w] \in {"handling", "returned", "raised"}
  /\ GoTo(w, "dying")
  /\ UNCHANGED <<files, now, claim, expires, success, history>>

\* complete() in the try block, and complete(success=False) in the except.
CompleteReturned(w) ==
  /\ pc[w] = "returned"
  /\ Complete(w, success[w])
  /\ GoTo(w, "releasing")
  /\ UNCHANGED <<leases, now, claim, expires, success, history>>

\* Mutant: the except clause reports success.
BugCompleteRaised(w) ==
  /\ pc[w] = "raised"
  /\ Complete(w, TRUE)
  /\ GoTo(w, "releasing")
  /\ UNCHANGED <<leases, now, claim, expires, success, history>>

CompleteRaised(w) ==
  /\ pc[w] = "raised"
  /\ Complete(w, FALSE)
  /\ GoTo(w, "releasing")
  /\ UNCHANGED <<leases, now, claim, expires, success, history>>

\* release() rewrites the file only when it finds the lease.
Own(w, l) == /\ l.resource = claim[w].task_id
             /\ l.lease_id = claim[w].attempts
AfterRelease(w) == IF \E l \in Active : Own(w, l)
                     THEN {l \in Active : ~Own(w, l)}
                     ELSE leases

Release(w) ==
  /\ pc[w] = "releasing"
  /\ leases' = AfterRelease(w)
  /\ GoTo(w, "idle")
  /\ claim' = [claim EXCEPT ![w] = NoClaim]
  /\ expires' = [expires EXCEPT ![w] = 0]
  /\ success' = [success EXCEPT ![w] = FALSE]
  /\ UNCHANGED <<tasks, now, history>>

\* The finally block runs and the exception leaves run_once: no caller
\* catches it, so the thread ends.
ReleaseAndDie(w) ==
  /\ pc[w] = "dying"
  /\ leases' = AfterRelease(w)
  /\ Ends(w)
  /\ UNCHANGED <<tasks, now, history>>

-----------------------------------------------------------------------------
\* Store calls that raise: where the exception takes the worker.

\* complete() of the try block raises: the except clause tries again.
ReturnedRaises(w) ==
  /\ pc[w] = "returned"
  /\ GoTo(w, "raised")
  /\ UNCHANGED <<files, now, claim, expires, success, history>>

\* complete() of the except clause raises: only finally still runs.
RaisedRaises(w) ==
  /\ pc[w] = "raised"
  /\ GoTo(w, "dying")
  /\ UNCHANGED <<files, now, claim, expires, success, history>>

\* Raised outside the try statement: the thread ends with nothing undone.
LoopRaises(w) ==
  /\ pc[w] \in {"idle", "claimed", "denied", "releasing", "dying"}
  /\ Ends(w)
  /\ UNCHANGED <<files, now, history>>

\* The call must raise: the file does not load, or complete() finds that the
\* item is no longer running.
WorkerFails(w) ==
  \/ ~CanComplete(w) /\ (ReturnedRaises(w) \/ RaisedRaises(w))
  \/ ~CanComplete(w) /\ pc[w] = "denied" /\ LoopRaises(w)
  \/ ~Loadable(tasks) /\ pc[w] = "idle" /\ LoopRaises(w)

\* The call may raise: FileLockTimeout.
TimesOut(w) ==
  LockTimeouts /\ (ReturnedRaises(w) \/ RaisedRaises(w) \/ LoopRaises(w))

\* stop_event, max_items or an empty queue ends the loop between items.
Stop(w) ==
  /\ pc[w] = "idle"
  /\ Ends(w)
  /\ UNCHANGED <<files, now, history>>

\* The process dies; the files are replaced atomically and survive.
Crash(w) ==
  /\ pc[w] # "down"
  /\ Ends(w)
  /\ UNCHANGED <<files, now, history>>

-----------------------------------------------------------------------------
Step(w) ==
  \/ ClaimNext(w) \/ AcquireLease(w) \/ LeaseUnavailable(w)
  \/ CompleteDenied(w)
  \/ \E ok \in BOOLEAN : HandlerReturns(w, ok)
  \/ HandlerRaises(w)
  \/ CompleteReturned(w) \/ CompleteRaised(w)
  \/ Release(w) \/ ReleaseAndDie(w)
  \/ WorkerFails(w)

QueueClient ==
  \/ \E t \in TaskId, due \in BOOLEAN : Enqueue(t, due)
  \/ \E i \in DOMAIN tasks : Cancel(i) \/ ConfirmRecovery(i) \/ BecomeDue(i)

WorkerNext ==
  \/ QueueClient
  \/ Tick
  \/ \E w \in Worker : \/ StartWorker(w) \/ Step(w) \/ TimesOut(w)
                       \/ Stop(w) \/ WorkerInterrupted(w) \/ Crash(w)

WorkerSpec == WorkerInit /\ [][WorkerNext]_workerVars

\* A thread keeps running and the handler is bounded by the sandbox timeout.
\* Nothing restarts a worker, so StartWorker has no fairness; nor has what may, but
\* need not, go wrong.
FairWorkerSpec == WorkerSpec /\ \A w \in Worker : WF_workerVars(Step(w))
-----------------------------------------------------------------------------
\* Properties.

\* enqueue refuses a task_id that is already in the list, whatever calls came
\* in between: each client finds one item under the id it was given.
UniqueIds ==
  \A i, j \in DOMAIN tasks :
    tasks[i].task_id = tasks[j].task_id => i = j

\* No automatic replay (docs: "explicit recovery confirmation required"): a
\* task is handed to a worker at most once for the enqueue and once for each
\* confirmed recovery, through any crashes, restarts and lock timeouts; and a
\* pending one has used every earlier authorization.
NoAutomaticReplay ==
  \A i \in DOMAIN tasks :
    LET granted == 1 + confirms[tasks[i].task_id]
    IN  /\ tasks[i].attempts <= granted
        /\ tasks[i].state = "pending" => tasks[i].attempts + 1 = granted

\* run_once reports success only from a handler that returned True: no
\* exception path, lease refusal or restart records a task as succeeded.
SuccessIsEarned ==
  \A i \in DOMAIN tasks :
    tasks[i].state = "succeeded" =>
      \E c \in earned : /\ c.task_id = tasks[i].task_id
                        /\ c.attempts <= tasks[i].attempts

\* acquire/release: two workers are inside run_once for the same task only
\* if the lease of one of them has run out.
LeaseExclusion ==
  UseLeases =>
    \A v, w \in Worker :
      /\ pc[v] \in Executing /\ pc[w] \in Executing
      /\ claim[v].task_id = claim[w].task_id
      /\ expires[v] > now /\ expires[w] > now
      => v = w

\* A finished or cancelled task never changes again, and none disappears.
TerminalIsFinal ==
  [][\A i \in DOMAIN tasks :
       /\ i \in DOMAIN tasks'
       /\ tasks'[i].task_id = tasks[i].task_id
       /\ tasks[i].state \in Terminal =>
            tasks'[i].state = tasks[i].state]_workerVars

\* While workers are started one at a time ("Single-worker durable queue
\* consumer"), the worker between claim_next and complete is the one whose
\* claim is the running item: nothing was replayed, cancelled or completed
\* behind its back, and no item is running without a worker once one is up.
BeforeComplete == {"claimed", "denied", "handling", "returned", "raised"}

RunsFor(w, i) == /\ claim[w].task_id = tasks[i].task_id
                 /\ claim[w].attempts = tasks[i].attempts

ClaimIsCurrent ==
  \A w \in Worker :
    /\ pc[w] \in BeforeComplete =>
         \E i \in DOMAIN tasks : tasks[i].state = "running" /\ RunsFor(w, i)
    /\ pc[w] # "down" =>
         \A i \in DOMAIN tasks : tasks[i].state = "running" => RunsFor(w, i)

\* Hence a success is that of the attempt it is recorded for.
SuccessIsOfThisAttempt ==
  \A i \in DOMAIN tasks :
    tasks[i].state = "succeeded" =>
      [task_id |-> tasks[i].task_id, attempts |-> tasks[i].attempts] \in earned

\* run_forever polls: a due task does not stay pending under a worker that
\* stays up, whatever is in front of it in the list.
AllDown == \A w \in Worker : pc[w] = "down"
AwaitsClaim(t) == \E i \in DOMAIN tasks : /\ tasks[i].task_id = t
                                      /\ tasks[i].state = "pending"
                                      /\ tasks[i].due
DueTasksAreServed == \A t \in TaskId : AwaitsClaim(t) ~> (~AwaitsClaim(t) \/ AllDown)

\* run_once always gives a task it claimed an outcome, unless its thread ends.
InHand(t) == \E i \in DOMAIN tasks : /\ tasks[i].task_id = t
                                     /\ tasks[i].state = "running"
ClaimedTasksEnd == \A t \in TaskId : InHand(t) ~> (~InHand(t) \/ AllDown)

\* The queue and its workers implement the lifecycle the clients rely on.
Listed(q, t) == t \in Ids(q)
ItemIn(q, t) == q[CHOOSE i \in DOMAIN q : q[i].task_id = t]

taskState == [t \in TaskId |-> IF Listed(tasks, t)
                                 THEN ItemIn(tasks, t).state ELSE "absent"]
taskGrants == [t \in TaskId |-> IF Listed(tasks, t)
                                  THEN 1 + confirms[t] ELSE 0]
taskRuns == [t \in TaskId |-> IF Listed(tasks, t)
                                THEN ItemIn(tasks, t).attempts ELSE 0]

Lifecycle == INSTANCE TaskLifecycle WITH
  state <- taskState, grants <- taskGrants, runs <- taskRuns

ImplementsLifecycle == Lifecycle!LifeSpec
=============================================================================
