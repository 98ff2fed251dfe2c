----------------------- MODULE BackgroundWorkerProofs -----------------------
(***************************************************************************)
(* Proofs about the durable queue and its workers, for any number of       *)
(* workers and tasks, any lease bound and any clock.                       *)
(***************************************************************************)
EXTENDS BackgroundWorker, TLAPS

-----------------------------------------------------------------------------
\* What the store's calls do to the list, position by position.

\* Every position of the list holds an item.
LEMMA ItemAt ==
  ASSUME NEW q \in Seq(QueueItem), NEW i \in DOMAIN q
  PROVE  /\ q[i] \in QueueItem
         /\ q[i].task_id \in TaskId /\ q[i].state \in QueueState
         /\ q[i].due \in BOOLEAN /\ q[i].attempts \in Nat
<1>1. q[i] \in QueueItem
  OBVIOUS
<1> QED
  BY <1>1 DEF QueueItem

\* An item built from another one is an item.
LEMMA RewrittenType ==
  ASSUME NEW item \in QueueItem, NEW s \in QueueState, NEW n \in Nat
  PROVE  Rewritten(item, s, n) \in QueueItem
  BY DEF Rewritten, QueueItem

\* Replacing one item by an item keeps a list of items.
LEMMA ItemReplaced ==
  ASSUME NEW q \in Seq(QueueItem), NEW i \in DOMAIN q, NEW r \in QueueItem
  PROVE  [q EXCEPT ![i] = r] \in Seq(QueueItem)
  OBVIOUS

\* enqueue appends a new item.
LEMMA EnqueueTyped ==
  ASSUME NEW q \in Seq(QueueItem), NEW t \in TaskId, NEW due \in BOOLEAN
  PROVE  AfterEnqueue(q, t, due) \in Seq(QueueItem)
<1>1. NewItem(t, due) \in QueueItem
  BY DEF NewItem, QueueItem, QueueState
<1> QED
  BY <1>1 DEF AfterEnqueue

\* claim_next rewrites the item it found, with one attempt more.
LEMMA ClaimTyped ==
  ASSUME NEW q \in Seq(QueueItem), NEW i \in DOMAIN q
  PROVE  AfterClaim(q, i) \in Seq(QueueItem)
<1>1. q[i] \in QueueItem /\ q[i].attempts + 1 \in Nat
  BY ItemAt
<1>2. Rewritten(q[i], "running", q[i].attempts + 1) \in QueueItem
  BY <1>1, RewrittenType DEF QueueState
<1> QED
  BY <1>2, ItemReplaced DEF AfterClaim

\* complete, cancel and confirm_recovery rewrite the item with a new state.
LEMMA MovedTyped ==
  ASSUME NEW q \in Seq(QueueItem), NEW i \in DOMAIN q, NEW s \in QueueState
  PROVE  MovedTo(q, i, s) \in Seq(QueueItem)
<1>1. Rewritten(q[i], s, q[i].attempts) \in QueueItem
  BY ItemAt, RewrittenType
<1> QED
  BY <1>1, ItemReplaced DEF MovedTo

\* The clock makes an item due.
LEMMA DueTyped ==
  ASSUME NEW q \in Seq(QueueItem), NEW i \in DOMAIN q
  PROVE  AfterDue(q, i) \in Seq(QueueItem)
<1> DEFINE x == [task_id |-> q[i].task_id, state |-> q[i].state,
                 due |-> TRUE, attempts |-> q[i].attempts]
<1>1. x \in QueueItem
  BY ItemAt DEF QueueItem
<1> QED
  BY <1>1, ItemReplaced DEF AfterDue

\* recover_running rewrites every running item.
LEMMA RecoverTyped ==
  ASSUME NEW q \in Seq(QueueItem)
  PROVE  AfterRecover(q) \in Seq(QueueItem)
<1>1. \A j \in DOMAIN q :
        /\ q[j] \in QueueItem
        /\ Rewritten(q[j], "recovery_required", q[j].attempts) \in QueueItem
  BY ItemAt, RewrittenType DEF QueueState
<1>2. AfterRecover(q) \in [1..Len(q) -> QueueItem] /\ Len(q) \in Nat
  BY <1>1 DEF AfterRecover
<1> QED
  BY <1>2

-----------------------------------------------------------------------------
\* Types.

\* Whatever a worker, or its process, does.
WorkerStep(w) == \/ StartWorker(w) \/ Step(w) \/ TimesOut(w)
                 \/ Stop(w) \/ WorkerInterrupted(w) \/ Crash(w)

\* Away from the top of the loop a worker works on a claim it was given.
Busy == PcState \ {"down", "idle"}
HoldsClaim == \A w \in Worker : pc[w] \in Busy => claim[w] \in TaskClaim

TypeInv == WorkerTypeOK /\ HoldsClaim

LEMMA InitTyped == WorkerInit => TypeInv
  BY DEF WorkerInit, TypeInv, WorkerTypeOK, HoldsClaim, Busy, PcState, Executing

\* The clients and the clock leave the workers alone.
LEMMA ClientTyped ==
  ASSUME TypeInv, QueueClient \/ Tick
  PROVE  TypeInv'
<1> USE DEF TypeInv
<1>1. CASE \E t \in TaskId, due \in BOOLEAN : Enqueue(t, due)
  <2> PICK t \in TaskId, due \in BOOLEAN : Enqueue(t, due)
    BY <1>1
  <2>1. tasks' \in Seq(QueueItem)
    BY EnqueueTyped DEF Enqueue, WorkerTypeOK
  <2> QED
    BY <2>1 DEF Enqueue, WorkerTypeOK, HoldsClaim, local, history
<1>2. CASE \E i \in DOMAIN tasks : Cancel(i)
  BY <1>2, MovedTyped
  DEF Cancel, AfterCancel, QueueState, WorkerTypeOK, HoldsClaim, local, history
<1>3. CASE \E i \in DOMAIN tasks : ConfirmRecovery(i)
  <2> PICK i \in DOMAIN tasks : ConfirmRecovery(i)
    BY <1>3
  <2>1. tasks' \in Seq(QueueItem)
    BY MovedTyped DEF ConfirmRecovery, AfterConfirm, QueueState, WorkerTypeOK
  <2>2. confirms' \in [TaskId -> Nat]
    BY ItemAt DEF ConfirmRecovery, WorkerTypeOK
  <2> QED
    BY <2>1, <2>2 DEF ConfirmRecovery, WorkerTypeOK, HoldsClaim, local
<1>4. CASE \E i \in DOMAIN tasks : BecomeDue(i)
  BY <1>4, DueTyped DEF BecomeDue, WorkerTypeOK, HoldsClaim, local, history
<1>5. CASE Tick
  BY <1>5 DEF Tick, WorkerTypeOK, HoldsClaim, files, local, history
<1> QED
  BY <1>1, <1>2, <1>3, <1>4, <1>5 DEF QueueClient

\* The steps of a worker up to the outcome of the handler.
LEMMA ClaimingTyped ==
  ASSUME TypeInv, NEW w \in Worker,
         \/ StartWorker(w) \/ ClaimNext(w) \/ AcquireLease(w)
         \/ LeaseUnavailable(w) \/ CompleteDenied(w)
  PROVE  TypeInv'
<1> USE DEF TypeInv, GoTo
<1>1. CASE StartWorker(w)
  BY <1>1, RecoverTyped
  DEF StartWorker, WorkerTypeOK, HoldsClaim, Busy, PcState, history
<1>2. CASE ClaimNext(w)
  <2> PICK i \in DOMAIN tasks :
        /\ tasks' = AfterClaim(tasks, i)
        /\ claim' = [claim EXCEPT ![w] = [task_id |-> tasks[i].task_id,
                                          attempts |-> tasks[i].attempts + 1]]
    BY <1>2 DEF ClaimNext
  <2>1. tasks' \in Seq(QueueItem)
    BY ClaimTyped DEF WorkerTypeOK
  <2>2. [task_id |-> tasks[i].task_id,
         attempts |-> tasks[i].attempts + 1] \in TaskClaim
    BY ItemAt DEF WorkerTypeOK, TaskClaim
  <2> QED
    BY <1>2, <2>1, <2>2
    DEF ClaimNext, WorkerTypeOK, HoldsClaim, Busy, PcState, Executing, history
<1>3. CASE AcquireLease(w)
  <2>1. claim[w] \in TaskClaim
    BY <1>3 DEF AcquireLease, HoldsClaim, Busy, PcState
  <2>2. now + Ttl \in Nat
    BY BackgroundWorkerAssumption DEF WorkerTypeOK
  <2>3. [resource |-> claim[w].task_id, lease_id |-> claim[w].attempts,
         expires_at |-> now + Ttl] \in Lease
    BY <2>1, <2>2 DEF TaskClaim, Lease
  <2> QED
    BY <1>3, <2>2, <2>3
    DEF AcquireLease, Active, WorkerTypeOK, HoldsClaim, Busy, PcState, Executing,
        history
<1>4. CASE LeaseUnavailable(w)
  BY <1>4
  DEF LeaseUnavailable, WorkerTypeOK, HoldsClaim, Busy, PcState, files, history
<1>5. CASE CompleteDenied(w)
  BY <1>5, MovedTyped
  DEF CompleteDenied, Complete, AfterComplete, QueueState, WorkerTypeOK,
      HoldsClaim, Busy, PcState, history
<1> QED
  BY <1>1, <1>2, <1>3, <1>4, <1>5

\* The steps of a worker from the handler to the end of run_once.
LEMMA FinishingTyped ==
  ASSUME TypeInv, NEW w \in Worker,
         \/ \E ok \in BOOLEAN : HandlerReturns(w, ok)
         \/ HandlerRaises(w) \/ WorkerInterrupted(w)
         \/ CompleteReturned(w) \/ CompleteRaised(w)
         \/ ReturnedRaises(w) \/ RaisedRaises(w) \/ Release(w)
  PROVE  TypeInv'
<1> USE DEF TypeInv, GoTo
<1>1. CASE \E ok \in BOOLEAN : HandlerReturns(w, ok)
  <2>1. claim[w] \in TaskClaim
    BY <1>1 DEF HandlerReturns, HoldsClaim, Busy, PcState, Executing
  <2> QED
    BY <1>1, <2>1
    DEF HandlerReturns, WorkerTypeOK, HoldsClaim, Busy, PcState, Executing, files
<1>2. CASE HandlerRaises(w) \/ WorkerInterrupted(w)
  BY <1>2
  DEF HandlerRaises, WorkerInterrupted, WorkerTypeOK, HoldsClaim, Busy, PcState,
      Executing, files, history
<1>3. CASE CompleteReturned(w)
  BY <1>3, MovedTyped
  DEF CompleteReturned, Complete, AfterComplete, QueueState, WorkerTypeOK,
      HoldsClaim, Busy, PcState, Executing, history
<1>4. CASE CompleteRaised(w)
  BY <1>4, MovedTyped
  DEF CompleteRaised, Complete, AfterComplete, QueueState, WorkerTypeOK,
      HoldsClaim, Busy, PcState, Executing, history
<1>5. CASE ReturnedRaises(w) \/ RaisedRaises(w)
  BY <1>5
  DEF ReturnedRaises, RaisedRaises, WorkerTypeOK, HoldsClaim, Busy, PcState,
      Executing, files, history
<1>6. CASE Release(w)
  BY <1>6
  DEF Release, AfterRelease, Active, WorkerTypeOK, HoldsClaim, Busy, PcState,
      history
<1> QED
  BY <1>1, <1>2, <1>3, <1>4, <1>5, <1>6

\* The ways a worker's thread ends.
LEMMA EndingTyped ==
  ASSUME TypeInv, NEW w \in Worker,
         ReleaseAndDie(w) \/ LoopRaises(w) \/ Stop(w) \/ Crash(w)
  PROVE  TypeInv'
<1>1. /\ Ends(w)
      /\ UNCHANGED <<tasks, now, confirms, earned>>
      /\ leases' \in SUBSET Lease
  BY DEF ReleaseAndDie, LoopRaises, Stop, Crash, AfterRelease, Active,
         TypeInv, WorkerTypeOK, files, history
<1> QED
  BY <1>1 DEF Ends, GoTo, TypeInv, WorkerTypeOK, HoldsClaim, Busy, PcState

LEMMA NextTyped == TypeInv /\ [WorkerNext]_workerVars => TypeInv'
<1> SUFFICES ASSUME TypeInv, [WorkerNext]_workerVars PROVE TypeInv'
  OBVIOUS
<1>1. CASE QueueClient \/ Tick
  BY <1>1, ClientTyped
<1>2. ASSUME NEW w \in Worker, WorkerStep(w)
      PROVE  TypeInv'
  BY <1>2, ClaimingTyped, FinishingTyped, EndingTyped
  DEF WorkerStep, Step, WorkerFails, TimesOut
<1>3. CASE UNCHANGED workerVars
  BY <1>3 DEF workerVars, TypeInv, WorkerTypeOK, HoldsClaim
<1> QED
  BY <1>1, <1>2, <1>3 DEF WorkerNext, WorkerStep

\* Type correctness: the queue file always holds a list of queue items, the
\* lease file a set of leases, and every worker's locals are what run_once
\* would hold there.
THEOREM TypeCorrect == WorkerSpec => []WorkerTypeOK
<1>1. WorkerSpec => []TypeInv
  BY InitTyped, NextTyped, PTL DEF WorkerSpec
<1> QED
  BY <1>1, PTL DEF TypeInv

-----------------------------------------------------------------------------
\* What a step can do to the list of items.

Kept == UNCHANGED <<tasks, confirms>>
Outcomes == {<<"pending", "cancelled">>, <<"recovery_required", "cancelled">>,
             <<"running", "succeeded">>, <<"running", "failed">>}
Moved(i) == \E s \in QueueState : /\ <<tasks[i].state, s>> \in Outcomes
                                  /\ tasks' = MovedTo(tasks, i, s)
                                  /\ UNCHANGED confirms
Claimed(i) == /\ tasks[i].state = "pending"
              /\ tasks' = AfterClaim(tasks, i)
              /\ UNCHANGED confirms
Recovered == tasks' = AfterRecover(tasks) /\ UNCHANGED confirms

QueueMove ==
  \/ Kept \/ Recovered
  \/ \E t \in TaskId, due \in BOOLEAN : Enqueue(t, due)
  \/ \E i \in DOMAIN tasks :
       Moved(i) \/ Claimed(i) \/ ConfirmRecovery(i) \/ BecomeDue(i)

LEMMA NextMovesQueue == TypeInv /\ [WorkerNext]_workerVars => QueueMove
<1> SUFFICES ASSUME TypeInv, [WorkerNext]_workerVars PROVE QueueMove
  OBVIOUS
<1>1. ASSUME NEW i \in DOMAIN tasks, Cancel(i) PROVE Moved(i)
  BY <1>1 DEF Cancel, AfterCancel, Cancellable, Moved, Outcomes, QueueState,
             history
<1>2. ASSUME NEW w \in Worker, NEW ok \in BOOLEAN, Complete(w, ok),
             UNCHANGED confirms
      PROVE  \E i \in DOMAIN tasks : Moved(i)
  BY <1>2 DEF Complete, Running, AfterComplete, Moved, Outcomes, QueueState
<1>3. ASSUME NEW w \in Worker, StartWorker(w) \/ Step(w) PROVE QueueMove
  <2>1. CASE StartWorker(w)
    BY <2>1 DEF StartWorker, Recovered, QueueMove, history
  <2>2. CASE ClaimNext(w)
    BY <2>2 DEF ClaimNext, NextClaim, Claimable, Claimed, QueueMove, history
  <2>3. CASE CompleteDenied(w)
    BY <2>3, <1>2 DEF CompleteDenied, QueueMove, history
  <2>4. CASE CompleteReturned(w)
    <3>1. success[w] \in BOOLEAN
      BY DEF TypeInv, WorkerTypeOK
    <3> QED
      BY <2>4, <3>1, <1>2 DEF CompleteReturned, QueueMove, history
  <2>5. CASE CompleteRaised(w)
    BY <2>5, <1>2 DEF CompleteRaised, QueueMove, history
  <2>6. CASE \/ AcquireLease(w) \/ LeaseUnavailable(w)
             \/ \E ok \in BOOLEAN : HandlerReturns(w, ok)
             \/ HandlerRaises(w) \/ Release(w) \/ ReleaseAndDie(w)
             \/ ReturnedRaises(w) \/ RaisedRaises(w) \/ LoopRaises(w)
    BY <2>6 DEF AcquireLease, LeaseUnavailable, HandlerReturns, HandlerRaises,
                Release, ReleaseAndDie, ReturnedRaises, RaisedRaises,
                LoopRaises, Kept, QueueMove, files, history
  <2> QED
    BY <1>3, <2>1, <2>2, <2>3, <2>4, <2>5, <2>6 DEF Step, WorkerFails
<1>4. ASSUME NEW w \in Worker,
             Stop(w) \/ WorkerInterrupted(w) \/ Crash(w) \/ TimesOut(w)
      PROVE  QueueMove
  BY <1>4 DEF Stop, WorkerInterrupted, Crash, TimesOut, ReturnedRaises, RaisedRaises,
              LoopRaises, Kept, QueueMove, files, history
<1>5. CASE QueueClient
  BY <1>5, <1>1 DEF QueueClient, QueueMove
<1>6. CASE Tick \/ UNCHANGED workerVars
  BY <1>6 DEF Tick, workerVars, Kept, QueueMove, files, history
<1> QED
  BY <1>3, <1>4, <1>5, <1>6 DEF WorkerNext

\* Every move keeps the identities at their positions.
LEMMA MoveKeepsIds ==
  ASSUME TypeInv, QueueMove
  PROVE  /\ DOMAIN tasks \subseteq DOMAIN tasks'
         /\ \A i \in DOMAIN tasks : tasks'[i].task_id = tasks[i].task_id
<1>0. tasks \in Seq(QueueItem)
  BY DEF TypeInv, WorkerTypeOK
<1>1. CASE Kept \/ Recovered
  BY <1>0, <1>1 DEF Kept, Recovered, AfterRecover, Rewritten
<1>2. CASE \E t \in TaskId, due \in BOOLEAN : Enqueue(t, due)
  <2> PICK t \in TaskId, due \in BOOLEAN : tasks' = AfterEnqueue(tasks, t, due)
    BY <1>2 DEF Enqueue
  <2> QED
    BY <1>0 DEF AfterEnqueue
<1>3. ASSUME NEW i \in DOMAIN tasks, Moved(i) \/ Claimed(i)
      PROVE  /\ DOMAIN tasks' = DOMAIN tasks
             /\ \A j \in DOMAIN tasks : tasks'[j].task_id = tasks[j].task_id
  <2>1. CASE Moved(i)
    <3> PICK s \in QueueState : tasks' = MovedTo(tasks, i, s)
      BY <2>1 DEF Moved
    <3> QED
      BY <1>0 DEF MovedTo, Rewritten
  <2>2. CASE Claimed(i)
    BY <1>0, <2>2 DEF Claimed, AfterClaim, Rewritten
  <2> QED
    BY <1>3, <2>1, <2>2
<1>4. ASSUME NEW i \in DOMAIN tasks, ConfirmRecovery(i) \/ BecomeDue(i)
      PROVE  /\ DOMAIN tasks' = DOMAIN tasks
             /\ \A j \in DOMAIN tasks : tasks'[j].task_id = tasks[j].task_id
  BY <1>0, <1>4
  DEF ConfirmRecovery, AfterConfirm, MovedTo, BecomeDue, AfterDue, Rewritten
<1> QED
  BY <1>1, <1>2, <1>3, <1>4 DEF QueueMove

-----------------------------------------------------------------------------
\* Authorizations: what the list says of each task it holds.

\* A task that was never enqueued was never confirmed.
UnlistedIsFresh == \A t \in TaskId : t \notin Ids(tasks) => confirms[t] = 0

\* The authorizations an item has used, exactly while it may still run: a
\* pending one has one left, one in hand or interrupted has used them all.
Accounted(item, n) ==
  /\ item.attempts <= 1 + n
  /\ item.state = "pending" => item.attempts = n
  /\ item.state \in {"running", "recovery_required"} => item.attempts = 1 + n
AllAccounted ==
  \A i \in DOMAIN tasks : Accounted(tasks[i], confirms[tasks[i].task_id])

LedgerInv == UniqueIds /\ UnlistedIsFresh /\ AllAccounted

LEMMA InitLedger == WorkerInit => LedgerInv
  BY DEF WorkerInit, LedgerInv, UniqueIds, UnlistedIsFresh, AllAccounted

\* Only enqueue adds an item, and not under an id of the list.
LEMMA MoveKeepsUniqueIds ==
  ASSUME TypeInv, UniqueIds, QueueMove
  PROVE  UniqueIds'
<1>0. tasks \in Seq(QueueItem)
  BY DEF TypeInv, WorkerTypeOK
<1>1. CASE DOMAIN tasks' = DOMAIN tasks
  BY <1>1, MoveKeepsIds DEF UniqueIds
<1>2. CASE \E t \in TaskId, due \in BOOLEAN : Enqueue(t, due)
  <2> PICK t \in TaskId, due \in BOOLEAN :
        t \notin Ids(tasks) /\ tasks' = AfterEnqueue(tasks, t, due)
    BY <1>2 DEF Enqueue
  <2>1. \A i \in DOMAIN tasks : tasks[i].task_id # t
    BY DEF Ids
  <2>2. /\ DOMAIN tasks' = DOMAIN tasks \cup {Len(tasks) + 1}
        /\ \A i \in DOMAIN tasks : tasks'[i] = tasks[i]
        /\ tasks'[Len(tasks) + 1].task_id = t
    BY <1>0 DEF AfterEnqueue, NewItem
  <2> QED
    BY <2>1, <2>2 DEF UniqueIds
<1>3. ASSUME NEW i \in DOMAIN tasks,
             Moved(i) \/ Claimed(i) \/ ConfirmRecovery(i) \/ BecomeDue(i)
      PROVE  DOMAIN tasks' = DOMAIN tasks
  BY <1>0, <1>3 DEF Moved, Claimed, AfterClaim, ConfirmRecovery, AfterConfirm,
                    BecomeDue, AfterDue, MovedTo
<1>4. CASE Kept \/ Recovered
  BY <1>0, <1>4, <1>1 DEF Kept, Recovered, AfterRecover
<1> QED
  BY <1>1, <1>2, <1>3, <1>4 DEF QueueMove

LEMMA MoveKeepsFresh ==
  ASSUME TypeInv, UnlistedIsFresh, QueueMove
  PROVE  UnlistedIsFresh'
<1> SUFFICES ASSUME NEW t \in TaskId, t \notin Ids(tasks)'
             PROVE  confirms'[t] = 0
  BY DEF UnlistedIsFresh
<1>1. t \notin Ids(tasks) /\ confirms[t] = 0
  BY MoveKeepsIds DEF Ids, UnlistedIsFresh
<1>2. confirms'[t] = confirms[t]
  BY <1>1 DEF QueueMove, Kept, Recovered, Moved, Claimed, Enqueue, BecomeDue,
              ConfirmRecovery, Ids, history, TypeInv, WorkerTypeOK
<1> QED
  BY <1>1, <1>2

LEMMA MoveKeepsAccounts ==
  ASSUME TypeInv, LedgerInv, QueueMove
  PROVE  AllAccounted'
<1>0. /\ tasks \in Seq(QueueItem)
      /\ confirms \in [TaskId -> Nat]
  BY DEF TypeInv, WorkerTypeOK
<1>1. \A i \in DOMAIN tasks : /\ tasks[i].task_id \in TaskId
                              /\ tasks[i].attempts \in Nat
                              /\ confirms[tasks[i].task_id] \in Nat
                              /\ Accounted(tasks[i], confirms[tasks[i].task_id])
  BY <1>0, ItemAt DEF LedgerInv, AllAccounted
<1>2. CASE Kept
  BY <1>1, <1>2 DEF Kept, AllAccounted
<1>3. CASE Recovered
  <2>1. DOMAIN tasks' = DOMAIN tasks
    BY <1>0, <1>3 DEF Recovered, AfterRecover
  <2>2. ASSUME NEW i \in DOMAIN tasks
        PROVE  Accounted(tasks'[i], confirms[tasks'[i].task_id])
    BY <1>0, <1>1, <1>3 DEF Recovered, AfterRecover, Rewritten, Accounted
  <2> QED
    BY <1>3, <2>1, <2>2 DEF Recovered, AllAccounted
<1>4. CASE \E t \in TaskId, due \in BOOLEAN : Enqueue(t, due)
  <2> PICK t \in TaskId, due \in BOOLEAN : Enqueue(t, due)
    BY <1>4
  <2>1. /\ DOMAIN tasks' = DOMAIN tasks \cup {Len(tasks) + 1}
        /\ \A i \in DOMAIN tasks : tasks'[i] = tasks[i]
        /\ tasks'[Len(tasks) + 1] = NewItem(t, due)
        /\ confirms' = confirms
    BY <1>0 DEF Enqueue, AfterEnqueue, history
  <2>2. confirms[t] = 0
    BY DEF Enqueue, LedgerInv, UnlistedIsFresh
  <2>3. Accounted(NewItem(t, due), 0) /\ NewItem(t, due).task_id = t
    BY DEF Accounted, NewItem
  <2> QED
    BY <1>1, <2>1, <2>2, <2>3 DEF AllAccounted
<1>5. ASSUME NEW i \in DOMAIN tasks, Moved(i)
      PROVE  AllAccounted'
  <2> PICK s \in QueueState : /\ <<tasks[i].state, s>> \in Outcomes
                             /\ tasks' = MovedTo(tasks, i, s)
    BY <1>5 DEF Moved
  <2>1. s \notin {"pending", "running", "recovery_required"}
    BY DEF Outcomes
  <2>2. Accounted(Rewritten(tasks[i], s, tasks[i].attempts),
                  confirms[tasks[i].task_id])
    BY <1>1, <2>1 DEF Rewritten, Accounted
  <2>3. /\ DOMAIN tasks' = DOMAIN tasks
        /\ \A j \in DOMAIN tasks \ {i} : tasks'[j] = tasks[j]
        /\ tasks'[i] = Rewritten(tasks[i], s, tasks[i].attempts)
        /\ tasks'[i].task_id = tasks[i].task_id
        /\ confirms' = confirms
    BY <1>0, <1>5 DEF MovedTo, Moved, Rewritten
  <2> QED
    BY <1>1, <2>2, <2>3 DEF AllAccounted
<1>6. ASSUME NEW i \in DOMAIN tasks, Claimed(i)
      PROVE  AllAccounted'
  <2>1. Accounted(Rewritten(tasks[i], "running", tasks[i].attempts + 1),
                  confirms[tasks[i].task_id])
    BY <1>1, <1>6 DEF Claimed, Rewritten, Accounted
  <2>2. /\ DOMAIN tasks' = DOMAIN tasks
        /\ \A j \in DOMAIN tasks \ {i} : tasks'[j] = tasks[j]
        /\ tasks'[i] = Rewritten(tasks[i], "running", tasks[i].attempts + 1)
        /\ tasks'[i].task_id = tasks[i].task_id
        /\ confirms' = confirms
    BY <1>0, <1>6 DEF Claimed, AfterClaim, Rewritten
  <2> QED
    BY <1>1, <2>1, <2>2 DEF AllAccounted
<1>7. ASSUME NEW i \in DOMAIN tasks, ConfirmRecovery(i)
      PROVE  AllAccounted'
  <2> DEFINE t == tasks[i].task_id
  <2>1. /\ tasks[i].state = "recovery_required"
        /\ tasks' = MovedTo(tasks, i, "pending")
        /\ confirms' = [confirms EXCEPT ![t] = @ + 1]
    BY <1>7 DEF ConfirmRecovery, AfterConfirm
  <2>2. Accounted(Rewritten(tasks[i], "pending", tasks[i].attempts),
                  confirms[t] + 1)
    BY <1>1, <2>1 DEF Rewritten, Accounted
  <2>3. /\ DOMAIN tasks' = DOMAIN tasks
        /\ \A j \in DOMAIN tasks \ {i} : tasks'[j] = tasks[j]
        /\ tasks'[i] = Rewritten(tasks[i], "pending", tasks[i].attempts)
        /\ tasks'[i].task_id = t
    BY <1>0, <2>1 DEF MovedTo, Rewritten
  <2>4. \A j \in DOMAIN tasks \ {i} : tasks[j].task_id # t
    BY DEF LedgerInv, UniqueIds
  <2>5. /\ confirms'[t] = confirms[t] + 1
        /\ \A u \in TaskId \ {t} : confirms'[u] = confirms[u]
    BY <1>0, <1>1, <2>1
  <2> QED
    BY <1>1, <2>2, <2>3, <2>4, <2>5 DEF AllAccounted
<1>8. ASSUME NEW i \in DOMAIN tasks, BecomeDue(i)
      PROVE  AllAccounted'
  <2>1. /\ DOMAIN tasks' = DOMAIN tasks
        /\ \A j \in DOMAIN tasks :
             /\ tasks'[j].task_id = tasks[j].task_id
             /\ tasks'[j].state = tasks[j].state
             /\ tasks'[j].attempts = tasks[j].attempts
        /\ confirms' = confirms
    BY <1>0, <1>8 DEF BecomeDue, AfterDue, history
  <2> QED
    BY <1>1, <2>1 DEF AllAccounted, Accounted
<1> QED
  BY <1>2, <1>3, <1>4, <1>5, <1>6, <1>7, <1>8 DEF QueueMove

LEMMA NextKeepsLedger == TypeInv /\ LedgerInv /\ [WorkerNext]_workerVars => LedgerInv'
  BY NextMovesQueue, MoveKeepsUniqueIds, MoveKeepsFresh, MoveKeepsAccounts
  DEF LedgerInv

LEMMA LedgerInvariant == WorkerSpec => [](TypeInv /\ LedgerInv)
  BY InitTyped, InitLedger, NextTyped, NextKeepsLedger, PTL DEF WorkerSpec

\* Every item is found under its own identity, for ever.
THEOREM IdsStayUnique == WorkerSpec => []UniqueIds
  BY LedgerInvariant, PTL DEF LedgerInv

\* No automatic replay: whatever crashes, restarts, overlaps and lock
\* timeouts happen, claim_next hands a task out at most once for its enqueue
\* and once per confirmed recovery.
THEOREM ReplayNeedsConfirmation == WorkerSpec => []NoAutomaticReplay
<1>1. TypeInv /\ LedgerInv => NoAutomaticReplay
  <2> SUFFICES ASSUME TypeInv, LedgerInv, NEW i \in DOMAIN tasks
               PROVE  LET granted == 1 + confirms[tasks[i].task_id]
                      IN  /\ tasks[i].attempts <= granted
                          /\ tasks[i].state = "pending" =>
                               tasks[i].attempts + 1 = granted
    BY DEF NoAutomaticReplay
  <2>1. tasks[i].attempts \in Nat /\ confirms[tasks[i].task_id] \in Nat
    BY ItemAt DEF TypeInv, WorkerTypeOK
  <2>2. Accounted(tasks[i], confirms[tasks[i].task_id])
    BY DEF LedgerInv, AllAccounted
  <2> QED
    BY <2>1, <2>2 DEF Accounted
<1> QED
  BY <1>1, LedgerInvariant, PTL

-----------------------------------------------------------------------------
\* Final states.

\* What may become of an item: its state moves on unless it is final, and it
\* never loses an attempt.
Grew(old, new) == /\ old.attempts <= new.attempts
                  /\ old.state \in Terminal =>
                       new.state = old.state /\ new.attempts = old.attempts

LEMMA MoveGrowsItems ==
  ASSUME TypeInv, QueueMove, NEW i \in DOMAIN tasks
  PROVE  Grew(tasks[i], tasks'[i])
<1>0. /\ tasks \in Seq(QueueItem)
      /\ tasks[i].attempts \in Nat
  BY ItemAt DEF TypeInv, WorkerTypeOK
<1>1. CASE Kept \/ Recovered
  BY <1>0, <1>1
  DEF Kept, Recovered, AfterRecover, Rewritten, Grew, Terminal
<1>2. CASE \E t \in TaskId, due \in BOOLEAN : Enqueue(t, due)
  <2> PICK t \in TaskId, due \in BOOLEAN : tasks' = AfterEnqueue(tasks, t, due)
    BY <1>2 DEF Enqueue
  <2> QED
    BY <1>0 DEF AfterEnqueue, Grew
<1>3. ASSUME NEW j \in DOMAIN tasks, Moved(j)
      PROVE  Grew(tasks[i], tasks'[i])
  <2> PICK s \in QueueState : /\ <<tasks[j].state, s>> \in Outcomes
                             /\ tasks' = MovedTo(tasks, j, s)
    BY <1>3 DEF Moved
  <2>1. tasks[j].state \notin Terminal
    BY DEF Outcomes, Terminal
  <2> QED
    BY <1>0, <2>1 DEF MovedTo, Rewritten, Grew
<1>4. ASSUME NEW j \in DOMAIN tasks, Claimed(j)
      PROVE  Grew(tasks[i], tasks'[i])
  BY <1>0, <1>4 DEF Claimed, AfterClaim, Rewritten, Grew, Terminal
<1>5. ASSUME NEW j \in DOMAIN tasks, ConfirmRecovery(j)
      PROVE  Grew(tasks[i], tasks'[i])
  BY <1>0, <1>5
  DEF ConfirmRecovery, AfterConfirm, MovedTo, Rewritten, Grew, Terminal
<1>6. ASSUME NEW j \in DOMAIN tasks, BecomeDue(j)
      PROVE  Grew(tasks[i], tasks'[i])
  BY <1>0, <1>6 DEF BecomeDue, AfterDue, Grew
<1> QED
  BY <1>1, <1>2, <1>3, <1>4, <1>5, <1>6 DEF QueueMove

\* A succeeded, failed or cancelled task stays what it is, and no item leaves
\* the file or changes its identity.
THEOREM FinalStatesStay == WorkerSpec => TerminalIsFinal
<1> DEFINE A == \A i \in DOMAIN tasks :
                  /\ i \in DOMAIN tasks'
                  /\ tasks'[i].task_id = tasks[i].task_id
                  /\ tasks[i].state \in Terminal =>
                       tasks'[i].state = tasks[i].state
<1>1. TypeInv /\ [WorkerNext]_workerVars => A
  BY NextMovesQueue, MoveKeepsIds, MoveGrowsItems DEF Grew
<1>2. TypeInv /\ [WorkerNext]_workerVars => [A]_workerVars
  BY <1>1
<1>3. WorkerSpec => []TypeInv
  BY InitTyped, NextTyped, PTL DEF WorkerSpec
<1> QED
  BY <1>2, <1>3, PTL DEF WorkerSpec, TerminalIsFinal

-----------------------------------------------------------------------------
\* Successes.

\* A claim was handed out: the list holds its task, which since then never
\* lost an attempt.
IsListed(c) == \E i \in DOMAIN tasks : /\ tasks[i].task_id = c.task_id
                                      /\ c.attempts <= tasks[i].attempts
ClaimsListed == \A w \in Worker : pc[w] \in Busy => IsListed(claim[w])

\* What a worker is about to report was returned for its own claim.
ReturnsEarned ==
  \A w \in Worker : pc[w] = "returned" /\ success[w] => claim[w] \in earned

EarnedInv == ClaimsListed /\ ReturnsEarned /\ SuccessIsEarned

LEMMA InitEarned == WorkerInit => EarnedInv
  BY DEF WorkerInit, EarnedInv, ClaimsListed, ReturnsEarned, SuccessIsEarned, Busy

LEMMA ListedStaysListed ==
  ASSUME TypeInv, TypeInv', QueueMove, NEW c \in TaskClaim, IsListed(c)
  PROVE  IsListed(c)'
<1> PICK i \in DOMAIN tasks : /\ tasks[i].task_id = c.task_id
                             /\ c.attempts <= tasks[i].attempts
  BY DEF IsListed
<1>1. i \in DOMAIN tasks' /\ tasks'[i].task_id = c.task_id
  BY MoveKeepsIds
<1>2. tasks[i].attempts <= tasks'[i].attempts
  BY MoveGrowsItems DEF Grew
<1>3. /\ c.attempts \in Nat
      /\ tasks[i].attempts \in Nat
      /\ tasks'[i].attempts \in Nat
  BY <1>1, ItemAt DEF TypeInv, WorkerTypeOK, TaskClaim
<1>4. c.attempts <= tasks'[i].attempts
  BY <1>2, <1>3
<1> QED
  BY <1>1, <1>4 DEF IsListed

LEMMA NextKeepsListed ==
  ASSUME TypeInv, TypeInv', ClaimsListed, [WorkerNext]_workerVars
  PROVE  ClaimsListed'
<1> SUFFICES ASSUME NEW w \in Worker, pc'[w] \in Busy
             PROVE  IsListed(claim[w])'
  BY DEF ClaimsListed
<1>1. CASE pc[w] \in Busy /\ claim'[w] = claim[w]
  <2>1. claim[w] \in TaskClaim /\ IsListed(claim[w])
    BY <1>1 DEF TypeInv, HoldsClaim, ClaimsListed
  <2> QED
    BY <1>1, <2>1, NextMovesQueue, ListedStaysListed DEF IsListed
<1>2. CASE ClaimNext(w)
  <2> PICK i \in DOMAIN tasks :
        /\ tasks' = AfterClaim(tasks, i)
        /\ claim' = [claim EXCEPT ![w] = [task_id |-> tasks[i].task_id,
                                          attempts |-> tasks[i].attempts + 1]]
    BY <1>2 DEF ClaimNext
  <2>1. /\ i \in DOMAIN tasks'
        /\ tasks'[i].task_id = tasks[i].task_id
        /\ tasks'[i].attempts = tasks[i].attempts + 1
        /\ tasks[i].attempts \in Nat
    BY ItemAt DEF TypeInv, WorkerTypeOK, AfterClaim, Rewritten
  <2>2. claim'[w] = [task_id |-> tasks[i].task_id,
                     attempts |-> tasks[i].attempts + 1]
    BY DEF TypeInv, WorkerTypeOK
  <2> QED
    BY <2>1, <2>2 DEF IsListed
<1>3. CASE ~ClaimNext(w)
  <2>1. \/ UNCHANGED workerVars \/ QueueClient \/ Tick
        \/ \E v \in Worker : WorkerStep(v)
    BY DEF WorkerNext, WorkerStep
  <2>2. CASE UNCHANGED workerVars \/ QueueClient \/ Tick
    BY <2>2, <1>1
    DEF workerVars, QueueClient, Enqueue, Cancel, ConfirmRecovery, BecomeDue, Tick, local
  <2>3. ASSUME NEW v \in Worker, WorkerStep(v)
        PROVE  IsListed(claim[w])'
    <3>1. CASE v # w
      <4>1. pc'[w] = pc[w] /\ claim'[w] = claim[w]
        BY <2>3, <3>1
        DEF WorkerStep, TypeInv, WorkerTypeOK, GoTo, Ends, StartWorker, Step, WorkerFails,
            TimesOut, Stop, WorkerInterrupted, Crash,
            ClaimNext, AcquireLease, LeaseUnavailable, CompleteDenied,
            HandlerReturns, HandlerRaises, CompleteReturned, CompleteRaised,
            Release, ReleaseAndDie, ReturnedRaises, RaisedRaises, LoopRaises
      <4> QED
        BY <4>1, <1>1
    <3>2. CASE v = w
      <4>1. pc[w] \in Busy /\ claim'[w] = claim[w]
        BY <2>3, <3>2, <1>3
        DEF WorkerStep, TypeInv, WorkerTypeOK, GoTo, Ends, StartWorker, Step, WorkerFails,
            TimesOut, Stop, WorkerInterrupted, Crash,
            AcquireLease, LeaseUnavailable, CompleteDenied,
            HandlerReturns, HandlerRaises, CompleteReturned, CompleteRaised,
            Release, ReleaseAndDie, ReturnedRaises, RaisedRaises, LoopRaises,
            Busy, PcState, Executing
      <4> QED
        BY <4>1, <1>1
    <3> QED
      BY <3>1, <3>2
  <2> QED
    BY <2>1, <2>2, <2>3
<1> QED
  BY <1>2, <1>3

LEMMA NextKeepsReturns ==
  ASSUME TypeInv, ReturnsEarned, [WorkerNext]_workerVars
  PROVE  ReturnsEarned' /\ earned \subseteq earned'
<1>1. CASE UNCHANGED workerVars \/ QueueClient \/ Tick
  BY <1>1
  DEF workerVars, QueueClient, Enqueue, Cancel, ConfirmRecovery, BecomeDue, Tick, local,
      history, ReturnsEarned
<1>2. ASSUME NEW v \in Worker, NEW ok \in BOOLEAN, HandlerReturns(v, ok)
      PROVE  ReturnsEarned' /\ earned \subseteq earned'
  BY <1>2 DEF HandlerReturns, GoTo, TypeInv, WorkerTypeOK, ReturnsEarned
<1>3. ASSUME NEW v \in Worker,
             \/ StartWorker(v) \/ Stop(v) \/ WorkerInterrupted(v) \/ Crash(v)
             \/ ClaimNext(v) \/ AcquireLease(v) \/ LeaseUnavailable(v)
             \/ CompleteDenied(v) \/ HandlerRaises(v)
             \/ CompleteReturned(v) \/ CompleteRaised(v)
             \/ Release(v) \/ ReleaseAndDie(v)
             \/ ReturnedRaises(v) \/ RaisedRaises(v) \/ LoopRaises(v)
      PROVE  ReturnsEarned' /\ earned \subseteq earned'
  <2>1. UNCHANGED earned
    BY <1>3
    DEF history, StartWorker, Stop, WorkerInterrupted, Crash, ClaimNext, AcquireLease,
        LeaseUnavailable, CompleteDenied, HandlerRaises, CompleteReturned,
        CompleteRaised, Release, ReleaseAndDie, ReturnedRaises, RaisedRaises,
        LoopRaises
  <2>2. pc'[v] # "returned"
    BY <1>3
    DEF TypeInv, WorkerTypeOK, GoTo, Ends, StartWorker, Stop, WorkerInterrupted, Crash,
        ClaimNext, AcquireLease, LeaseUnavailable, CompleteDenied,
        HandlerRaises, CompleteReturned, CompleteRaised, Release,
        ReleaseAndDie, ReturnedRaises, RaisedRaises, LoopRaises
  <2>3. \A w \in Worker \ {v} : /\ pc'[w] = pc[w] /\ claim'[w] = claim[w]
                                /\ success'[w] = success[w]
    BY <1>3
    DEF TypeInv, WorkerTypeOK, GoTo, Ends, StartWorker, Stop, WorkerInterrupted, Crash,
        ClaimNext, AcquireLease, LeaseUnavailable, CompleteDenied,
        HandlerRaises, CompleteReturned, CompleteRaised, Release,
        ReleaseAndDie, ReturnedRaises, RaisedRaises, LoopRaises
  <2> QED
    BY <2>1, <2>2, <2>3 DEF ReturnsEarned
<1> QED
  BY <1>1, <1>2, <1>3 DEF WorkerNext, Step, WorkerFails, TimesOut

\* Only complete(success=True) of a returned handler records a success.
LEMMA SuccessComesFromReturn ==
  ASSUME TypeInv, [WorkerNext]_workerVars, NEW i \in DOMAIN tasks',
         tasks'[i].state = "succeeded"
  PROVE  /\ i \in DOMAIN tasks
         /\ \/ tasks[i].state = "succeeded"
            \/ \E w \in Worker : /\ pc[w] = "returned" /\ success[w]
                                 /\ tasks[i].task_id = claim[w].task_id
                                 /\ tasks[i].state = "running"
                                 /\ tasks'[i].attempts = tasks[i].attempts
<1>0. tasks \in Seq(QueueItem)
  BY DEF TypeInv, WorkerTypeOK
<1>1. CASE UNCHANGED tasks
  BY <1>1
<1>2. CASE \E t \in TaskId, due \in BOOLEAN : Enqueue(t, due)
  <2> PICK t \in TaskId, due \in BOOLEAN : tasks' = AfterEnqueue(tasks, t, due)
    BY <1>2 DEF Enqueue
  <2> QED
    BY <1>0 DEF AfterEnqueue, NewItem
<1>3. ASSUME NEW j \in DOMAIN tasks, Cancel(j) \/ ConfirmRecovery(j)
      PROVE  i \in DOMAIN tasks /\ tasks[i].state = "succeeded"
  BY <1>0, <1>3
  DEF Cancel, AfterCancel, ConfirmRecovery, AfterConfirm, MovedTo, Rewritten
<1>4. ASSUME NEW j \in DOMAIN tasks, BecomeDue(j)
      PROVE  i \in DOMAIN tasks /\ tasks[i].state = "succeeded"
  BY <1>0, <1>4 DEF BecomeDue, AfterDue
<1>5. ASSUME NEW w \in Worker, StartWorker(w)
      PROVE  i \in DOMAIN tasks /\ tasks[i].state = "succeeded"
  BY <1>0, <1>5 DEF StartWorker, AfterRecover, Rewritten
<1>6. ASSUME NEW w \in Worker, ClaimNext(w)
      PROVE  i \in DOMAIN tasks /\ tasks[i].state = "succeeded"
  <2> PICK j \in DOMAIN tasks : tasks' = AfterClaim(tasks, j)
    BY <1>6 DEF ClaimNext
  <2> QED
    BY <1>0 DEF AfterClaim, Rewritten
<1>7. ASSUME NEW w \in Worker, Complete(w, FALSE)
      PROVE  i \in DOMAIN tasks /\ tasks[i].state = "succeeded"
  <2> PICK j \in DOMAIN tasks : tasks' = MovedTo(tasks, j, "failed")
    BY <1>7 DEF Complete, AfterComplete
  <2> QED
    BY <1>0 DEF MovedTo, Rewritten
<1>8. ASSUME NEW w \in Worker, CompleteReturned(w)
      PROVE  /\ i \in DOMAIN tasks
             /\ \/ tasks[i].state = "succeeded"
                \/ /\ pc[w] = "returned" /\ success[w]
                   /\ tasks[i].task_id = claim[w].task_id
                   /\ tasks[i].state = "running"
                   /\ tasks'[i].attempts = tasks[i].attempts
  <2> PICK j \in DOMAIN tasks :
        /\ tasks[j].task_id = claim[w].task_id
        /\ tasks[j].state = "running"
        /\ tasks' = MovedTo(tasks, j,
                            IF success[w] THEN "succeeded" ELSE "failed")
    BY <1>8 DEF CompleteReturned, Complete, Running, AfterComplete
  <2>1. DOMAIN tasks' = DOMAIN tasks /\ (i # j => tasks'[i] = tasks[i])
    BY <1>0 DEF MovedTo
  <2>2. CASE i = j
    <3>1. success[w]
      BY <1>0, <2>2 DEF MovedTo, Rewritten
    <3>2. tasks'[i].attempts = tasks[i].attempts
      BY <1>0, <2>2 DEF MovedTo, Rewritten
    <3> QED
      BY <1>8, <2>2, <3>1, <3>2 DEF CompleteReturned
  <2> QED
    BY <2>1, <2>2
<1>9. CASE \E w \in Worker :
             \/ AcquireLease(w) \/ LeaseUnavailable(w)
             \/ \E ok \in BOOLEAN : HandlerReturns(w, ok)
             \/ HandlerRaises(w) \/ Release(w) \/ ReleaseAndDie(w)
             \/ ReturnedRaises(w) \/ RaisedRaises(w) \/ LoopRaises(w)
             \/ Stop(w) \/ WorkerInterrupted(w) \/ Crash(w)
  BY <1>9, <1>1
  DEF AcquireLease, LeaseUnavailable, HandlerReturns, HandlerRaises, Release,
      ReleaseAndDie, ReturnedRaises, RaisedRaises, LoopRaises, Stop,
      WorkerInterrupted, Crash, files
<1>10. CASE \E w \in Worker : CompleteDenied(w) \/ CompleteRaised(w)
  BY <1>10, <1>7 DEF CompleteDenied, CompleteRaised
<1>11. CASE Tick \/ UNCHANGED workerVars
  BY <1>11, <1>1 DEF Tick, files, workerVars
<1> QED
  BY <1>2, <1>3, <1>4, <1>5, <1>6, <1>8, <1>9, <1>10, <1>11
  DEF WorkerNext, QueueClient, Step, WorkerFails, TimesOut

LEMMA NextKeepsEarned ==
  ASSUME TypeInv, TypeInv', LedgerInv, EarnedInv, [WorkerNext]_workerVars
  PROVE  EarnedInv'
<1>1. ClaimsListed' /\ ReturnsEarned' /\ earned \subseteq earned'
  BY NextKeepsListed, NextKeepsReturns DEF EarnedInv
<1>2. ASSUME NEW i \in DOMAIN tasks', tasks'[i].state = "succeeded"
      PROVE  \E c \in earned' : /\ c.task_id = tasks'[i].task_id
                               /\ c.attempts <= tasks'[i].attempts
  <2>1. /\ i \in DOMAIN tasks
        /\ tasks'[i].task_id = tasks[i].task_id
        /\ tasks[i].attempts <= tasks'[i].attempts
    BY <1>2, SuccessComesFromReturn, NextMovesQueue, MoveKeepsIds,
       MoveGrowsItems DEF Grew
  <2>2. \E c \in earned : /\ c.task_id = tasks[i].task_id
                          /\ c.attempts <= tasks[i].attempts
    <3>1. CASE tasks[i].state = "succeeded"
      BY <2>1, <3>1 DEF EarnedInv, SuccessIsEarned
    <3>2. ASSUME NEW w \in Worker, pc[w] = "returned", success[w],
                 tasks[i].task_id = claim[w].task_id
          PROVE  \E c \in earned : /\ c.task_id = tasks[i].task_id
                                   /\ c.attempts <= tasks[i].attempts
      <4>1. claim[w] \in earned
        BY <3>2 DEF EarnedInv, ReturnsEarned
      <4>2. IsListed(claim[w])
        BY <3>2 DEF EarnedInv, ClaimsListed, Busy, PcState, Executing
      <4>3. claim[w].attempts <= tasks[i].attempts
        BY <2>1, <3>2, <4>2 DEF IsListed, LedgerInv, UniqueIds
      <4> QED
        BY <3>2, <4>1, <4>3
    <3> QED
      BY <1>2, <3>1, <3>2, SuccessComesFromReturn
  <2> PICK c \in earned : /\ c.task_id = tasks[i].task_id
                         /\ c.attempts <= tasks[i].attempts
    BY <2>2
  <2>3. /\ c.attempts \in Nat
        /\ tasks[i].attempts \in Nat
        /\ tasks'[i].attempts \in Nat
    BY <2>1, ItemAt DEF TypeInv, WorkerTypeOK, TaskClaim
  <2>4. c.attempts <= tasks'[i].attempts
    BY <2>1, <2>3
  <2> QED
    BY <1>1, <2>1, <2>4
<1> QED
  BY <1>1, <1>2 DEF EarnedInv, SuccessIsEarned

LEMMA EarnedInvariant == WorkerSpec => [](TypeInv /\ LedgerInv /\ EarnedInv)
  BY InitTyped, InitLedger, InitEarned, NextTyped, NextKeepsLedger,
     NextKeepsEarned, PTL DEF WorkerSpec

\* run_once never invents a success: a task recorded as succeeded has an
\* execution of its handler that returned True.
THEOREM SuccessesAreEarned == WorkerSpec => []SuccessIsEarned
  BY EarnedInvariant, PTL DEF EarnedInv

-----------------------------------------------------------------------------
\* Leases.

\* No two workers hold the same claim: claim_next hands out a task with an
\* attempt number that no earlier claim of the task has.
ClaimsDistinct ==
  \A v, w \in Worker :
    pc[v] \in Busy /\ pc[w] \in Busy /\ claim[v] = claim[w] => v = w

LeaseOf(w) == [resource |-> claim[w].task_id, lease_id |-> claim[w].attempts,
               expires_at |-> expires[w]]
HoldsLease(w) == UseLeases /\ pc[w] \in Executing /\ expires[w] > now

\* The lease of an executing worker is in the file until it runs out: no
\* other worker's release or pruning removes it.
LeasesKept == \A w \in Worker : HoldsLease(w) => LeaseOf(w) \in leases

\* Live leases are for different tasks.
LeasesExclusive ==
  \A l, m \in leases :
    /\ l.expires_at > now /\ m.expires_at > now
    /\ l.resource = m.resource
    => l = m

LeaseInv == ClaimsDistinct /\ LeasesKept /\ LeasesExclusive

LEMMA InitLeases == WorkerInit => LeaseInv
  BY DEF WorkerInit, LeaseInv, ClaimsDistinct, LeasesKept, HoldsLease,
         LeasesExclusive, Busy, Executing

LEMMA LeaseInvExcludes == TypeInv /\ LeaseInv => LeaseExclusion
<1> SUFFICES ASSUME TypeInv, LeaseInv, UseLeases,
                    NEW v \in Worker, NEW w \in Worker,
                    pc[v] \in Executing, pc[w] \in Executing,
                    claim[v].task_id = claim[w].task_id,
                    expires[v] > now, expires[w] > now
             PROVE  v = w
  BY DEF LeaseExclusion
<1>1. LeaseOf(v) \in leases /\ LeaseOf(w) \in leases
  BY DEF LeaseInv, LeasesKept, HoldsLease
<1>2. LeaseOf(v) = LeaseOf(w)
  BY <1>1 DEF LeaseInv, LeasesExclusive, LeaseOf
<1>3. claim[v].attempts = claim[w].attempts
  BY <1>2 DEF LeaseOf
<1>4. pc[v] \in Busy /\ pc[w] \in Busy
  BY DEF Busy, PcState, Executing
<1>5. claim[v] \in TaskClaim /\ claim[w] \in TaskClaim
  BY <1>4 DEF TypeInv, HoldsClaim
<1>6. claim[v] = claim[w]
  BY <1>3, <1>5 DEF TaskClaim
<1> QED
  BY <1>4, <1>6 DEF LeaseInv, ClaimsDistinct

\* A step that leaves the other workers alone and puts no worker to work.
LEMMA NextKeepsDistinct ==
  ASSUME TypeInv, LedgerInv, ClaimsListed, ClaimsDistinct, [WorkerNext]_workerVars
  PROVE  ClaimsDistinct'
<1>1. CASE UNCHANGED workerVars \/ QueueClient \/ Tick
  BY <1>1
  DEF workerVars, QueueClient, Enqueue, Cancel, ConfirmRecovery, BecomeDue, Tick, local,
      ClaimsDistinct
<1>2. ASSUME NEW v \in Worker, ClaimNext(v)
      PROVE  ClaimsDistinct'
  <2> PICK i \in DOMAIN tasks :
        claim' = [claim EXCEPT ![v] = [task_id |-> tasks[i].task_id,
                                       attempts |-> tasks[i].attempts + 1]]
    BY <1>2 DEF ClaimNext
  <2> DEFINE c == [task_id |-> tasks[i].task_id,
                   attempts |-> tasks[i].attempts + 1]
  <2>1. tasks[i].attempts \in Nat
    BY ItemAt DEF TypeInv, WorkerTypeOK
  <2>2. ASSUME NEW w \in Worker, pc[w] \in Busy PROVE claim[w] # c
    <3> SUFFICES ASSUME claim[w] = c PROVE FALSE
      OBVIOUS
    <3> PICK j \in DOMAIN tasks : /\ tasks[j].task_id = c.task_id
                                 /\ c.attempts <= tasks[j].attempts
      BY <2>2 DEF ClaimsListed, IsListed
    <3>1. j = i
      BY DEF LedgerInv, UniqueIds
    <3> QED
      BY <2>1, <3>1
  <2>3. /\ claim'[v] = c
        /\ \A w \in Worker \ {v} : pc'[w] = pc[w] /\ claim'[w] = claim[w]
    BY <1>2 DEF ClaimNext, GoTo, TypeInv, WorkerTypeOK
  <2> HIDE DEF c
  <2> QED
    BY <2>2, <2>3 DEF ClaimsDistinct
<1>3. ASSUME NEW v \in Worker,
             \/ StartWorker(v) \/ Stop(v) \/ WorkerInterrupted(v) \/ Crash(v)
             \/ AcquireLease(v) \/ LeaseUnavailable(v)
             \/ CompleteDenied(v) \/ HandlerRaises(v)
             \/ \E ok \in BOOLEAN : HandlerReturns(v, ok)
             \/ CompleteReturned(v) \/ CompleteRaised(v)
             \/ Release(v) \/ ReleaseAndDie(v)
             \/ ReturnedRaises(v) \/ RaisedRaises(v) \/ LoopRaises(v)
      PROVE  ClaimsDistinct'
  <2>1. pc'[v] \in Busy => pc[v] \in Busy /\ claim'[v] = claim[v]
    BY <1>3
    DEF TypeInv, WorkerTypeOK, GoTo, Ends, StartWorker, Stop, WorkerInterrupted, Crash,
        AcquireLease, LeaseUnavailable, CompleteDenied, HandlerRaises,
        HandlerReturns, CompleteReturned, CompleteRaised, Release,
        ReleaseAndDie, ReturnedRaises, RaisedRaises, LoopRaises, Busy,
        PcState, Executing
  <2>2. \A w \in Worker \ {v} : pc'[w] = pc[w] /\ claim'[w] = claim[w]
    BY <1>3
    DEF TypeInv, WorkerTypeOK, GoTo, Ends, StartWorker, Stop, WorkerInterrupted, Crash,
        AcquireLease, LeaseUnavailable, CompleteDenied, HandlerRaises,
        HandlerReturns, CompleteReturned, CompleteRaised, Release,
        ReleaseAndDie, ReturnedRaises, RaisedRaises, LoopRaises
  <2> QED
    BY <2>1, <2>2 DEF ClaimsDistinct
<1> QED
  BY <1>1, <1>2, <1>3 DEF WorkerNext, Step, WorkerFails, TimesOut

\* Dropping leases does not hurt as long as the live ones of the executing
\* workers stay.
LEMMA FewerLeases ==
  ASSUME LeasesKept, LeasesExclusive, leases' \subseteq leases, now' = now,
         \A w \in Worker : HoldsLease(w)' =>
            /\ HoldsLease(w) /\ LeaseOf(w)' = LeaseOf(w)
            /\ LeaseOf(w) \in leases'
  PROVE  LeasesKept' /\ LeasesExclusive'
  BY DEF LeasesKept, LeasesExclusive

LEMMA NextKeepsLeases ==
  ASSUME TypeInv, LeaseInv, [WorkerNext]_workerVars
  PROVE  LeasesKept' /\ LeasesExclusive'
<1> USE DEF LeaseInv
<1>0. /\ now \in Nat /\ leases \subseteq Lease
      /\ \A w \in Worker : expires[w] \in Nat
      /\ \A l \in leases : l.expires_at \in Nat
  BY DEF TypeInv, WorkerTypeOK, Lease
<1>1. CASE UNCHANGED workerVars \/ QueueClient
  BY <1>1, FewerLeases
  DEF workerVars, QueueClient, Enqueue, Cancel, ConfirmRecovery, BecomeDue, local,
      HoldsLease, LeaseOf, LeasesKept
<1>2. CASE Tick
  <2>1. /\ now' = now + 1
        /\ UNCHANGED <<leases, pc, claim, expires>>
    BY <1>2 DEF Tick, files, local
  <2>2. \A n \in Nat : n > now + 1 => n > now
    BY <1>0
  <2> QED
    BY <1>0, <2>1, <2>2 DEF LeasesKept, HoldsLease, LeaseOf, LeasesExclusive
<1>3. ASSUME NEW v \in Worker, AcquireLease(v)
      PROVE  LeasesKept' /\ LeasesExclusive'
  <2> DEFINE new == [resource |-> claim[v].task_id,
                     lease_id |-> claim[v].attempts,
                     expires_at |-> now + Ttl]
  <2>1. /\ leases' = Active \cup {new}
        /\ expires' = [expires EXCEPT ![v] = now + Ttl]
        /\ pc' = [pc EXCEPT ![v] = "handling"]
        /\ UNCHANGED <<now, claim>>
        /\ \A l \in Active : l.resource # new.resource
    BY <1>3 DEF AcquireLease, Grantable, GoTo
  <2>2. LeasesExclusive'
    BY <2>1 DEF LeasesExclusive, Active
  <2>3. LeaseOf(v)' = new
    BY <2>1 DEF LeaseOf, TypeInv, WorkerTypeOK
  <2>4. ASSUME NEW w \in Worker \ {v}, HoldsLease(w)'
        PROVE  LeaseOf(w)' \in leases'
    <3>1. HoldsLease(w) /\ LeaseOf(w)' = LeaseOf(w)
      BY <2>1, <2>4 DEF HoldsLease, LeaseOf, TypeInv, WorkerTypeOK
    <3>2. LeaseOf(w) \in Active
      BY <3>1 DEF LeasesKept, HoldsLease, LeaseOf, Active
    <3> QED
      BY <2>1, <3>1, <3>2
  <2> QED
    BY <2>1, <2>2, <2>3, <2>4 DEF LeasesKept
<1>4. ASSUME NEW v \in Worker, Release(v) \/ ReleaseAndDie(v)
      PROVE  LeasesKept' /\ LeasesExclusive'
  <2>1. /\ leases' = AfterRelease(v)
        /\ pc[v] \in Executing /\ pc'[v] \notin Executing
        /\ UNCHANGED now
        /\ \A w \in Worker \ {v} : /\ pc'[w] = pc[w] /\ claim'[w] = claim[w]
                                  /\ expires'[w] = expires[w]
    BY <1>4 DEF Release, ReleaseAndDie, GoTo, Ends, Executing, TypeInv, WorkerTypeOK
  <2>2. ASSUME NEW w \in Worker, HoldsLease(w)'
        PROVE  /\ HoldsLease(w) /\ LeaseOf(w)' = LeaseOf(w)
               /\ LeaseOf(w) \in leases'
    <3>1. w # v /\ HoldsLease(w) /\ LeaseOf(w)' = LeaseOf(w)
      BY <2>1, <2>2 DEF HoldsLease, LeaseOf
    <3>2. LeaseOf(w) \in leases /\ LeaseOf(w) \in Active
      BY <3>1 DEF LeasesKept, HoldsLease, LeaseOf, Active
    <3>3. ~Own(v, LeaseOf(w))
      <4>1. pc[v] \in Busy /\ pc[w] \in Busy
        BY <2>1, <3>1 DEF HoldsLease, Busy, PcState, Executing
      <4>2. claim[v] \in TaskClaim /\ claim[w] \in TaskClaim /\ claim[v] # claim[w]
        BY <3>1, <4>1 DEF TypeInv, HoldsClaim, ClaimsDistinct
      <4> QED
        BY <4>2 DEF Own, LeaseOf, TaskClaim
    <3> QED
      BY <2>1, <3>1, <3>2, <3>3 DEF AfterRelease
  <2>3. leases' \subseteq leases
    BY <2>1 DEF AfterRelease, Active
  <2> QED
    BY <2>1, <2>2, <2>3, FewerLeases
<1>5. ASSUME NEW v \in Worker,
             \/ StartWorker(v) \/ Stop(v) \/ WorkerInterrupted(v) \/ Crash(v)
             \/ ClaimNext(v) \/ LeaseUnavailable(v)
             \/ CompleteDenied(v) \/ HandlerRaises(v)
             \/ \E ok \in BOOLEAN : HandlerReturns(v, ok)
             \/ CompleteReturned(v) \/ CompleteRaised(v)
             \/ ReturnedRaises(v) \/ RaisedRaises(v) \/ LoopRaises(v)
      PROVE  LeasesKept' /\ LeasesExclusive'
  <2>1. UNCHANGED <<leases, now>>
    BY <1>5
    DEF StartWorker, Stop, WorkerInterrupted, Crash, ClaimNext, LeaseUnavailable,
        CompleteDenied, HandlerRaises, HandlerReturns, CompleteReturned,
        CompleteRaised, ReturnedRaises, RaisedRaises, LoopRaises, files
  <2>2. \A w \in Worker \ {v} : /\ pc'[w] = pc[w] /\ claim'[w] = claim[w]
                                /\ expires'[w] = expires[w]
    BY <1>5
    DEF TypeInv, WorkerTypeOK, GoTo, Ends, StartWorker, Stop, WorkerInterrupted, Crash,
        ClaimNext, LeaseUnavailable, CompleteDenied, HandlerRaises,
        HandlerReturns, CompleteReturned, CompleteRaised, ReturnedRaises,
        RaisedRaises, LoopRaises
  <2>3. UseLeases /\ pc'[v] \in Executing =>
          /\ pc[v] \in Executing /\ claim'[v] = claim[v]
          /\ expires'[v] = expires[v]
    BY <1>5
    DEF TypeInv, WorkerTypeOK, GoTo, Ends, StartWorker, Stop, WorkerInterrupted, Crash,
        ClaimNext, LeaseUnavailable, CompleteDenied, HandlerRaises,
        HandlerReturns, CompleteReturned, CompleteRaised, ReturnedRaises,
        RaisedRaises, LoopRaises, PcState, Executing
  <2>4. \A w \in Worker : HoldsLease(w)' =>
                             HoldsLease(w) /\ LeaseOf(w)' = LeaseOf(w)
    BY <2>1, <2>2, <2>3 DEF HoldsLease, LeaseOf
  <2> QED
    BY <2>1, <2>4, FewerLeases DEF LeasesKept
<1> QED
  BY <1>1, <1>2, <1>3, <1>4, <1>5 DEF WorkerNext, Step, WorkerFails, TimesOut

LEMMA NextKeepsLeaseInv ==
  TypeInv /\ LedgerInv /\ EarnedInv /\ LeaseInv /\ [WorkerNext]_workerVars => LeaseInv'
  BY NextKeepsDistinct, NextKeepsLeases DEF LeaseInv, EarnedInv

\* Lease exclusion: for any number of workers, tasks and any time to live,
\* two workers execute one task at the same time only when the lease of one
\* of them has expired.
THEOREM LeasesExclude == WorkerSpec => []LeaseExclusion
<1>1. WorkerSpec => []LeaseInv
  BY EarnedInvariant, InitLeases, NextKeepsLeaseInv, PTL DEF WorkerSpec
<1> QED
  BY <1>1, EarnedInvariant, LeaseInvExcludes, PTL

-----------------------------------------------------------------------------
\* One worker at a time.

UpOne == \A v, w \in Worker : pc[v] # "down" /\ pc[w] # "down" => v = w
IdleHoldsNothing ==
  \A w \in Worker : pc[w] \in {"down", "idle"} => claim[w] = NoClaim

\* A worker that is past complete, or has not claimed yet, leaves no running
\* item behind.
NothingInHand ==
  \A w \in Worker : pc[w] \in {"idle", "releasing"} =>
    \A i \in DOMAIN tasks : tasks[i].state # "running"

AloneInv == UpOne /\ IdleHoldsNothing /\ NothingInHand /\ ClaimIsCurrent

LEMMA InitAlone == WorkerInit => AloneInv
  BY DEF WorkerInit, AloneInv, UpOne, IdleHoldsNothing, NothingInHand,
         ClaimIsCurrent, BeforeComplete

\* The clients do not touch an item while it is running, nor make one run.
SameRunning ==
  /\ \A i \in DOMAIN tasks' : tasks'[i].state = "running" =>
       /\ i \in DOMAIN tasks /\ tasks[i].state = "running"
       /\ tasks'[i].task_id = tasks[i].task_id
       /\ tasks'[i].attempts = tasks[i].attempts
  /\ \A i \in DOMAIN tasks : tasks[i].state = "running" =>
       /\ i \in DOMAIN tasks' /\ tasks'[i].state = "running"

LEMMA ClientKeepsRunning ==
  ASSUME TypeInv, QueueClient
  PROVE  SameRunning /\ UNCHANGED <<pc, claim>>
<1>0. tasks \in Seq(QueueItem)
  BY DEF TypeInv, WorkerTypeOK
<1>1. CASE \E t \in TaskId, due \in BOOLEAN : Enqueue(t, due)
  <2> PICK t \in TaskId, due \in BOOLEAN : Enqueue(t, due)
    BY <1>1
  <2> QED
    BY <1>0 DEF Enqueue, AfterEnqueue, NewItem, SameRunning, local
<1>2. ASSUME NEW j \in DOMAIN tasks, Cancel(j)
      PROVE  SameRunning /\ UNCHANGED <<pc, claim>>
  BY <1>0, <1>2
  DEF Cancel, Cancellable, AfterCancel, MovedTo, Rewritten, SameRunning, local
<1>3. ASSUME NEW j \in DOMAIN tasks, ConfirmRecovery(j)
      PROVE  SameRunning /\ UNCHANGED <<pc, claim>>
  BY <1>0, <1>3
  DEF ConfirmRecovery, AfterConfirm, MovedTo, Rewritten, SameRunning, local
<1>4. ASSUME NEW j \in DOMAIN tasks, BecomeDue(j)
      PROVE  SameRunning /\ UNCHANGED <<pc, claim>>
  BY <1>0, <1>4 DEF BecomeDue, AfterDue, SameRunning, local
<1> QED
  BY <1>1, <1>2, <1>3, <1>4 DEF QueueClient

\* While a worker takes a step the others are down and stay so.
LEMMA OthersStayDown ==
  ASSUME WorkersOverlap = FALSE, TypeInv, UpOne, NEW v \in Worker, WorkerStep(v),
         NEW w \in Worker \ {v}
  PROVE  /\ pc[w] = "down" /\ pc'[w] = "down"
         /\ claim'[w] = claim[w]
<1>1. pc'[w] = pc[w] /\ claim'[w] = claim[w]
  BY DEF WorkerStep, TypeInv, WorkerTypeOK, GoTo, Ends, StartWorker, Step, WorkerFails, TimesOut,
         Stop, WorkerInterrupted, Crash, ClaimNext, AcquireLease, LeaseUnavailable,
         CompleteDenied, HandlerReturns, HandlerRaises, CompleteReturned,
         CompleteRaised, Release, ReleaseAndDie, ReturnedRaises, RaisedRaises,
         LoopRaises
<1>2. (\A u \in Worker : pc[u] = "down") \/ pc[v] # "down"
  BY DEF WorkerStep, StartWorker, Step, WorkerFails, TimesOut, Stop,
         WorkerInterrupted, Crash, ClaimNext, AcquireLease, LeaseUnavailable,
         CompleteDenied, HandlerReturns, HandlerRaises, CompleteReturned,
         CompleteRaised, Release, ReleaseAndDie, ReturnedRaises, RaisedRaises,
         LoopRaises
<1> QED
  BY <1>1, <1>2 DEF UpOne

LEMMA WorkerKeepsUpOne ==
  ASSUME WorkersOverlap = FALSE, TypeInv, UpOne, IdleHoldsNothing,
         NEW v \in Worker, WorkerStep(v)
  PROVE  UpOne' /\ IdleHoldsNothing'
<1>1. pc'[v] \in {"down", "idle"} => claim'[v] = NoClaim
  BY DEF WorkerStep, TypeInv, WorkerTypeOK, GoTo, Ends, StartWorker, Step, WorkerFails, TimesOut,
         Stop, WorkerInterrupted, Crash, ClaimNext, AcquireLease, LeaseUnavailable,
         CompleteDenied, HandlerReturns, HandlerRaises, CompleteReturned,
         CompleteRaised, Release, ReleaseAndDie, ReturnedRaises, RaisedRaises,
         LoopRaises, IdleHoldsNothing
<1> QED
  BY <1>1, OthersStayDown DEF UpOne, IdleHoldsNothing

\* What has to hold of the one worker that is up.
Current(v) ==
  /\ pc[v] \in BeforeComplete =>
       \E i \in DOMAIN tasks : tasks[i].state = "running" /\ RunsFor(v, i)
  /\ pc[v] # "down" =>
       \A i \in DOMAIN tasks : tasks[i].state = "running" => RunsFor(v, i)
  /\ pc[v] \in {"idle", "releasing"} =>
       \A i \in DOMAIN tasks : tasks[i].state # "running"

\* complete() leaves nothing running: the item it finds was the only one.
LEMMA CompleteEmptiesHand ==
  ASSUME TypeInv, UniqueIds, NEW v \in Worker, NEW ok \in BOOLEAN,
         Complete(v, ok), pc[v] # "down", Current(v)
  PROVE  \A i \in DOMAIN tasks' : tasks'[i].state # "running"
<1>0. tasks \in Seq(QueueItem)
  BY DEF TypeInv, WorkerTypeOK
<1> PICK i \in DOMAIN tasks, s \in {"succeeded", "failed"} :
      /\ tasks[i].task_id = claim[v].task_id
      /\ tasks' = MovedTo(tasks, i, s)
  BY DEF Complete, Running, AfterComplete
<1>1. \A j \in DOMAIN tasks : tasks[j].state = "running" => j = i
  BY DEF Current, RunsFor, UniqueIds
<1> QED
  BY <1>0, <1>1 DEF MovedTo, Rewritten

LEMMA WorkerKeepsCurrent ==
  ASSUME TypeInv, UniqueIds, NEW v \in Worker, WorkerStep(v), Current(v)
  PROVE  Current(v)'
<1>0. tasks \in Seq(QueueItem)
  BY DEF TypeInv, WorkerTypeOK
<1> USE DEF GoTo, TypeInv, WorkerTypeOK
<1>1. CASE StartWorker(v)
  <2>1. pc'[v] = "idle" /\ tasks' = AfterRecover(tasks)
    BY <1>1 DEF StartWorker
  <2>2. \A i \in DOMAIN tasks' : tasks'[i].state # "running"
    BY <1>0, <2>1 DEF AfterRecover, Rewritten
  <2> QED
    BY <2>1, <2>2 DEF Current, BeforeComplete
<1>2. CASE ClaimNext(v)
  <2> PICK i \in DOMAIN tasks :
        /\ tasks' = AfterClaim(tasks, i)
        /\ claim' = [claim EXCEPT ![v] = [task_id |-> tasks[i].task_id,
                                          attempts |-> tasks[i].attempts + 1]]
    BY <1>2 DEF ClaimNext
  <2>1. \A j \in DOMAIN tasks : tasks[j].state # "running"
    BY <1>2 DEF ClaimNext, Current
  <2>2. pc'[v] \in {"claimed", "handling"}
    BY <1>2 DEF ClaimNext
  <2>3. /\ DOMAIN tasks' = DOMAIN tasks
        /\ \A j \in DOMAIN tasks \ {i} : tasks'[j] = tasks[j]
        /\ tasks'[i].state = "running"
        /\ RunsFor(v, i)'
    BY <1>0 DEF AfterClaim, Rewritten, RunsFor
  <2> QED
    BY <2>1, <2>2, <2>3 DEF Current
<1>3. CASE \/ AcquireLease(v) \/ LeaseUnavailable(v)
           \/ \E ok \in BOOLEAN : HandlerReturns(v, ok)
           \/ HandlerRaises(v) \/ ReturnedRaises(v)
           \/ WorkerInterrupted(v) \/ RaisedRaises(v)
  <2>1. /\ UNCHANGED <<tasks, claim>>
        /\ pc[v] \in BeforeComplete
        /\ pc'[v] \in BeforeComplete \cup {"dying"}
    BY <1>3
    DEF AcquireLease, LeaseUnavailable, HandlerReturns, HandlerRaises,
        ReturnedRaises, WorkerInterrupted, RaisedRaises, BeforeComplete, files
  <2> QED
    BY <2>1 DEF Current, RunsFor, BeforeComplete
<1>4. CASE CompleteDenied(v) \/ CompleteReturned(v) \/ CompleteRaised(v)
  <2>1. /\ pc[v] # "down" /\ pc'[v] \in {"idle", "releasing"}
        /\ \E ok \in BOOLEAN : Complete(v, ok)
    BY <1>4 DEF CompleteDenied, CompleteReturned, CompleteRaised
  <2>2. \A i \in DOMAIN tasks' : tasks'[i].state # "running"
    BY <2>1, CompleteEmptiesHand
  <2> QED
    BY <2>1, <2>2 DEF Current, BeforeComplete
<1>5. CASE Release(v)
  BY <1>5 DEF Release, Current, BeforeComplete
<1>6. CASE ReleaseAndDie(v) \/ LoopRaises(v) \/ Stop(v) \/ Crash(v)
  <2>1. pc'[v] = "down"
    BY <1>6 DEF ReleaseAndDie, LoopRaises, Stop, Crash, Ends
  <2> QED
    BY <2>1 DEF Current, BeforeComplete
<1> QED
  BY <1>1, <1>2, <1>3, <1>4, <1>5, <1>6 DEF WorkerStep, Step, WorkerFails, TimesOut

LEMMA NextKeepsAlone ==
  ASSUME WorkersOverlap = FALSE, TypeInv, UniqueIds, AloneInv, [WorkerNext]_workerVars
  PROVE  AloneInv'
<1>1. \A w \in Worker : Current(w)
  BY DEF AloneInv, ClaimIsCurrent, NothingInHand, Current
<1>2. CASE UNCHANGED workerVars \/ Tick
  BY <1>2 DEF workerVars, Tick, files, local, AloneInv, UpOne, IdleHoldsNothing,
              NothingInHand, ClaimIsCurrent, RunsFor
<1>3. CASE QueueClient
  <2>1. SameRunning /\ UNCHANGED <<pc, claim>>
    BY <1>3, ClientKeepsRunning
  <2> QED
    BY <2>1 DEF SameRunning, AloneInv, UpOne, IdleHoldsNothing, NothingInHand,
                ClaimIsCurrent, RunsFor
<1>4. ASSUME NEW v \in Worker, WorkerStep(v)
      PROVE  AloneInv'
  <2>1. UpOne' /\ IdleHoldsNothing'
    BY <1>4, WorkerKeepsUpOne DEF AloneInv
  <2>2. Current(v)'
    BY <1>1, <1>4, WorkerKeepsCurrent
  <2>3. \A w \in Worker \ {v} : pc'[w] = "down"
    BY <1>4, OthersStayDown DEF AloneInv
  <2> QED
    BY <2>1, <2>2, <2>3
    DEF AloneInv, NothingInHand, ClaimIsCurrent, Current, BeforeComplete
<1> QED
  BY <1>2, <1>3, <1>4 DEF WorkerNext, WorkerStep

\* One worker at a time: what a worker has in hand is the running item of the
\* file, and no other item is running while it is up.
THEOREM ClaimsAreCurrent ==
  ASSUME WorkersOverlap = FALSE
  PROVE  WorkerSpec => []ClaimIsCurrent
<1>1. WorkerSpec => []AloneInv
  BY InitAlone, NextKeepsAlone, LedgerInvariant, PTL DEF WorkerSpec, LedgerInv
<1> QED
  BY <1>1, PTL DEF AloneInv

\* Hence, with one worker at a time, a success is recorded for the attempt
\* whose handler returned True, not for an earlier one.
THEOREM SuccessesMatchAttempts ==
  ASSUME WorkersOverlap = FALSE
  PROVE  WorkerSpec => []SuccessIsOfThisAttempt
<1>1. WorkerInit => SuccessIsOfThisAttempt
  BY DEF WorkerInit, SuccessIsOfThisAttempt
<1>2. /\ TypeInv /\ TypeInv' /\ EarnedInv /\ AloneInv
      /\ SuccessIsOfThisAttempt /\ [WorkerNext]_workerVars
      => SuccessIsOfThisAttempt'
  <2> SUFFICES ASSUME TypeInv, TypeInv', EarnedInv, AloneInv,
                      SuccessIsOfThisAttempt, [WorkerNext]_workerVars,
                      NEW i \in DOMAIN tasks', tasks'[i].state = "succeeded"
               PROVE  [task_id |-> tasks'[i].task_id,
                       attempts |-> tasks'[i].attempts] \in earned'
    BY DEF SuccessIsOfThisAttempt
  <2>1. earned \subseteq earned'
    BY NextKeepsReturns DEF EarnedInv
  <2>2. /\ i \in DOMAIN tasks
        /\ tasks'[i].task_id = tasks[i].task_id
        /\ Grew(tasks[i], tasks'[i])
    BY SuccessComesFromReturn, NextMovesQueue, MoveKeepsIds, MoveGrowsItems
  <2>3. CASE tasks[i].state = "succeeded"
    BY <2>1, <2>2, <2>3 DEF Grew, Terminal, SuccessIsOfThisAttempt
  <2>4. ASSUME NEW w \in Worker, pc[w] = "returned", success[w],
               tasks[i].task_id = claim[w].task_id,
               tasks[i].state = "running",
               tasks'[i].attempts = tasks[i].attempts
        PROVE  [task_id |-> tasks'[i].task_id,
                attempts |-> tasks'[i].attempts] \in earned'
    <3>1. RunsFor(w, i)
      BY <2>2, <2>4 DEF AloneInv, ClaimIsCurrent
    <3>2. claim[w] \in TaskClaim
      BY <2>4 DEF TypeInv, HoldsClaim, Busy, PcState, Executing
    <3>3. claim[w] = [task_id |-> tasks'[i].task_id,
                      attempts |-> tasks'[i].attempts]
      BY <2>2, <2>4, <3>1, <3>2 DEF RunsFor, TaskClaim
    <3>4. claim[w] \in earned
      BY <2>4 DEF EarnedInv, ReturnsEarned
    <3> QED
      BY <2>1, <3>3, <3>4
  <2> QED
    BY <2>3, <2>4, SuccessComesFromReturn
<1>3. WorkerSpec => []AloneInv
  BY InitAlone, NextKeepsAlone, LedgerInvariant, PTL DEF WorkerSpec, LedgerInv
<1> QED
  BY <1>1, <1>2, <1>3, EarnedInvariant, PTL DEF WorkerSpec

-----------------------------------------------------------------------------
\* The queue and its workers implement the task lifecycle.

\* Identities being unique, an item is the one its identity finds.
LEMMA ItemFound ==
  ASSUME NEW q, \A j, k \in DOMAIN q : q[j].task_id = q[k].task_id => j = k,
         NEW i \in DOMAIN q
  PROVE  Listed(q, q[i].task_id) /\ ItemIn(q, q[i].task_id) = q[i]
  BY DEF Listed, ItemIn, Ids

\* A listed task has an item.
LEMMA ListedHasItem ==
  ASSUME NEW q, NEW t, Listed(q, t)
  PROVE  \E i \in DOMAIN q : q[i].task_id = t
  BY DEF Listed, Ids

\* A step that changes one item changes what the lifecycle says of its task.
LEMMA OneItemChanges ==
  ASSUME TypeInv, UniqueIds, NEW i \in DOMAIN tasks,
         DOMAIN tasks' = DOMAIN tasks,
         \A j \in DOMAIN tasks \ {i} : tasks'[j] = tasks[j],
         tasks'[i].task_id = tasks[i].task_id
  PROVE  LET t == tasks[i].task_id
         IN  /\ t \in TaskId
             /\ taskState[t] = tasks[i].state
             /\ taskRuns[t] = tasks[i].attempts
             /\ taskGrants[t] = 1 + confirms[t]
             /\ taskState' = [taskState EXCEPT ![t] = tasks'[i].state]
             /\ taskRuns' = [taskRuns EXCEPT ![t] = tasks'[i].attempts]
             /\ \A u \in TaskId : Listed(tasks', u) = Listed(tasks, u)
<1> DEFINE t == tasks[i].task_id
<1>1. t \in TaskId
  BY ItemAt DEF TypeInv, WorkerTypeOK
<1>2. \A j, k \in DOMAIN tasks : tasks[j].task_id = tasks[k].task_id => j = k
  BY DEF UniqueIds
<1>3. \A j, k \in DOMAIN tasks' : tasks'[j].task_id = tasks'[k].task_id => j = k
  BY <1>2
<1>4. Listed(tasks, t) /\ ItemIn(tasks, t) = tasks[i]
  BY <1>2, ItemFound
<1>5. Listed(tasks', t) /\ ItemIn(tasks', t) = tasks'[i]
  BY <1>3, ItemFound
<1>6. \A u \in TaskId : Listed(tasks', u) = Listed(tasks, u)
  BY DEF Listed, Ids
<1>7. ASSUME NEW u \in TaskId \ {t}, Listed(tasks, u)
      PROVE  ItemIn(tasks', u) = ItemIn(tasks, u)
  <2> PICK j \in DOMAIN tasks : tasks[j].task_id = u
    BY <1>7, ListedHasItem
  <2>1. j # i
    BY <1>7
  <2>2. ItemIn(tasks, u) = tasks[j]
    BY <1>2, ItemFound
  <2>3. ItemIn(tasks', u) = tasks'[j]
    BY <1>3, <2>1, ItemFound
  <2> QED
    BY <2>1, <2>2, <2>3
<1>8. taskState' = [taskState EXCEPT ![t] = tasks'[i].state]
  BY <1>1, <1>5, <1>6, <1>7 DEF taskState
<1>9. taskRuns' = [taskRuns EXCEPT ![t] = tasks'[i].attempts]
  BY <1>1, <1>5, <1>6, <1>7 DEF taskRuns
<1> QED
  BY <1>1, <1>4, <1>6, <1>8, <1>9 DEF taskState, taskRuns, taskGrants

LEMMA InitImplements == WorkerInit => Lifecycle!LifeInit
  BY DEF WorkerInit, Lifecycle!LifeInit, taskState, taskGrants, taskRuns, Listed, Ids

\* The grants of the tasks change only with their confirmations.
LEMMA GrantsStay ==
  ASSUME confirms' = confirms,
         \A u \in TaskId : Listed(tasks', u) = Listed(tasks, u)
  PROVE  taskGrants' = taskGrants
  BY DEF taskGrants

LEMMA EnqueueImplements ==
  ASSUME TypeInv, LedgerInv, NEW t \in TaskId, NEW due \in BOOLEAN,
         Enqueue(t, due)
  PROVE  Lifecycle!Submit(t)
<1> DEFINE n == Len(tasks) + 1
<1>0. tasks \in Seq(QueueItem)
  BY DEF TypeInv, WorkerTypeOK
<1>1. /\ ~Listed(tasks, t)
      /\ DOMAIN tasks' = DOMAIN tasks \cup {n}
      /\ \A i \in DOMAIN tasks : tasks'[i] = tasks[i]
      /\ tasks'[n] = NewItem(t, due)
      /\ confirms' = confirms
  BY <1>0 DEF Enqueue, AfterEnqueue, Listed, history
<1>2. \A j, k \in DOMAIN tasks : tasks[j].task_id = tasks[k].task_id => j = k
  BY DEF LedgerInv, UniqueIds
<1>3. \A j \in DOMAIN tasks : tasks[j].task_id # t
  BY <1>1 DEF Listed, Ids
<1>4. NewItem(t, due).task_id = t
  BY DEF NewItem
<1>5. \A j, k \in DOMAIN tasks' : tasks'[j].task_id = tasks'[k].task_id => j = k
  BY <1>1, <1>2, <1>3, <1>4
<1>6. Listed(tasks', t) /\ ItemIn(tasks', t) = NewItem(t, due)
  BY <1>1, <1>4, <1>5, ItemFound
<1>7. ASSUME NEW u \in TaskId \ {t}
      PROVE  /\ Listed(tasks', u) = Listed(tasks, u)
             /\ Listed(tasks, u) => ItemIn(tasks', u) = ItemIn(tasks, u)
  <2>1. Listed(tasks', u) = Listed(tasks, u)
    BY <1>1, <1>4 DEF Listed, Ids
  <2>2. ASSUME Listed(tasks, u) PROVE ItemIn(tasks', u) = ItemIn(tasks, u)
    <3> PICK j \in DOMAIN tasks : tasks[j].task_id = u
      BY <2>2, ListedHasItem
    <3>1. ItemIn(tasks, u) = tasks[j]
      BY <1>2, ItemFound
    <3>2. j \in DOMAIN tasks' /\ tasks'[j] = tasks[j]
      BY <1>1
    <3>3. ItemIn(tasks', u) = tasks'[j]
      BY <1>5, <3>2, ItemFound
    <3> QED
      BY <3>1, <3>2, <3>3
  <2> QED
    BY <2>1, <2>2
<1>8. confirms[t] = 0
  BY <1>1 DEF LedgerInv, UnlistedIsFresh, Listed
<1>9. /\ taskState[t] = "absent"
      /\ taskState' = [taskState EXCEPT ![t] = "pending"]
  <2>1. /\ taskState[t] = "absent" /\ taskState'[t] = "pending"
        /\ \A u \in TaskId \ {t} : taskState'[u] = taskState[u]
    BY <1>1, <1>6, <1>7 DEF taskState, NewItem
  <2> QED
    BY <2>1 DEF taskState
<1>10. taskRuns' = taskRuns
  BY <1>1, <1>6, <1>7 DEF taskRuns, NewItem
<1>11. taskGrants' = [taskGrants EXCEPT ![t] = @ + 1]
  <2>0. taskGrants[t] = 0 /\ taskGrants'[t] = 1
    BY <1>1, <1>6, <1>8 DEF taskGrants
  <2>1. /\ taskGrants'[t] = taskGrants[t] + 1
        /\ \A u \in TaskId \ {t} : taskGrants'[u] = taskGrants[u]
    BY <2>0, <1>1, <1>7 DEF taskGrants
  <2> QED
    BY <2>1 DEF taskGrants
<1> QED
  BY <1>9, <1>10, <1>11
  DEF Lifecycle!Submit, Lifecycle!Move, Lifecycle!Grant

LEMMA MovedImplements ==
  ASSUME TypeInv, LedgerInv, NEW i \in DOMAIN tasks, Moved(i)
  PROVE  LET t == tasks[i].task_id
         IN  t \in TaskId /\ (Lifecycle!Finish(t) \/ Lifecycle!Withdraw(t))
<1> DEFINE t == tasks[i].task_id
<1>0. tasks \in Seq(QueueItem)
  BY DEF TypeInv, WorkerTypeOK
<1> PICK s \in QueueState : /\ <<tasks[i].state, s>> \in Outcomes
                           /\ tasks' = MovedTo(tasks, i, s)
                           /\ confirms' = confirms
  BY DEF Moved
<1>1. /\ DOMAIN tasks' = DOMAIN tasks
      /\ \A j \in DOMAIN tasks \ {i} : tasks'[j] = tasks[j]
      /\ tasks'[i].task_id = t /\ tasks'[i].state = s
      /\ tasks'[i].attempts = tasks[i].attempts
  BY <1>0 DEF MovedTo, Rewritten
<1>2. /\ t \in TaskId
      /\ taskState[t] = tasks[i].state
      /\ taskState' = [taskState EXCEPT ![t] = s]
      /\ taskRuns' = [taskRuns EXCEPT ![t] = taskRuns[t]]
      /\ \A u \in TaskId : Listed(tasks', u) = Listed(tasks, u)
  BY <1>1, OneItemChanges DEF LedgerInv
<1>3. taskRuns' = taskRuns /\ taskGrants' = taskGrants
  BY <1>2, GrantsStay DEF taskRuns
<1> QED
  BY <1>2, <1>3
  DEF Outcomes, Lifecycle!Finish, Lifecycle!Withdraw, Lifecycle!Move

LEMMA ClaimedImplements ==
  ASSUME TypeInv, LedgerInv, NEW i \in DOMAIN tasks, Claimed(i)
  PROVE  tasks[i].task_id \in TaskId /\ Lifecycle!HandOut(tasks[i].task_id)
<1> DEFINE t == tasks[i].task_id
<1>0. /\ tasks \in Seq(QueueItem)
      /\ tasks[i].attempts \in Nat /\ confirms[t] \in Nat
  BY ItemAt DEF TypeInv, WorkerTypeOK
<1>1. /\ DOMAIN tasks' = DOMAIN tasks
      /\ \A j \in DOMAIN tasks \ {i} : tasks'[j] = tasks[j]
      /\ tasks'[i].task_id = t /\ tasks'[i].state = "running"
      /\ tasks'[i].attempts = tasks[i].attempts + 1
      /\ confirms' = confirms
  BY <1>0 DEF Claimed, AfterClaim, Rewritten
<1>2. /\ t \in TaskId
      /\ taskState[t] = "pending"
      /\ taskRuns[t] = tasks[i].attempts
      /\ taskGrants[t] = 1 + confirms[t]
      /\ taskState' = [taskState EXCEPT ![t] = "running"]
      /\ taskRuns' = [taskRuns EXCEPT ![t] = taskRuns[t] + 1]
      /\ \A u \in TaskId : Listed(tasks', u) = Listed(tasks, u)
  BY <1>1, OneItemChanges DEF LedgerInv, Claimed
<1>3. taskGrants' = taskGrants
  BY <1>1, <1>2, GrantsStay
<1>4. tasks[i].attempts = confirms[t]
  BY DEF LedgerInv, AllAccounted, Accounted, Claimed
<1>5. taskRuns[t] < taskGrants[t]
  BY <1>0, <1>2, <1>4
<1> QED
  BY <1>2, <1>3, <1>5 DEF Lifecycle!HandOut, Lifecycle!Move

LEMMA ConfirmImplements ==
  ASSUME TypeInv, LedgerInv, NEW i \in DOMAIN tasks, ConfirmRecovery(i)
  PROVE  tasks[i].task_id \in TaskId /\ Lifecycle!Confirm(tasks[i].task_id)
<1> DEFINE t == tasks[i].task_id
<1>0. /\ tasks \in Seq(QueueItem)
      /\ confirms \in [TaskId -> Nat]
  BY DEF TypeInv, WorkerTypeOK
<1>1. /\ DOMAIN tasks' = DOMAIN tasks
      /\ \A j \in DOMAIN tasks \ {i} : tasks'[j] = tasks[j]
      /\ tasks'[i].task_id = t /\ tasks'[i].state = "pending"
      /\ tasks'[i].attempts = tasks[i].attempts
      /\ confirms' = [confirms EXCEPT ![t] = @ + 1]
  BY <1>0 DEF ConfirmRecovery, AfterConfirm, MovedTo, Rewritten
<1>2. /\ t \in TaskId
      /\ taskState[t] = "recovery_required"
      /\ taskState' = [taskState EXCEPT ![t] = "pending"]
      /\ taskRuns' = [taskRuns EXCEPT ![t] = taskRuns[t]]
      /\ \A u \in TaskId : Listed(tasks', u) = Listed(tasks, u)
  BY <1>1, OneItemChanges DEF LedgerInv, ConfirmRecovery
<1>3. taskRuns' = taskRuns
  BY <1>2 DEF taskRuns
<1>4. Listed(tasks, t)
  BY DEF Listed, Ids
<1>5. taskGrants' = [taskGrants EXCEPT ![t] = @ + 1]
  <2>1. confirms[t] \in Nat /\ confirms'[t] = confirms[t] + 1
    BY <1>0, <1>1, <1>2
  <2>2. \A u \in TaskId \ {t} : confirms'[u] = confirms[u]
    BY <1>0, <1>1
  <2>3. /\ taskGrants'[t] = taskGrants[t] + 1
        /\ \A u \in TaskId \ {t} : taskGrants'[u] = taskGrants[u]
    BY <1>2, <1>4, <2>1, <2>2 DEF taskGrants
  <2> QED
    BY <1>2, <2>3 DEF taskGrants
<1> QED
  BY <1>2, <1>3, <1>5 DEF Lifecycle!Confirm, Lifecycle!Move, Lifecycle!Grant

LEMMA DueImplements ==
  ASSUME TypeInv, LedgerInv, NEW i \in DOMAIN tasks, BecomeDue(i)
  PROVE  UNCHANGED <<taskState, taskGrants, taskRuns>>
<1>0. tasks \in Seq(QueueItem)
  BY DEF TypeInv, WorkerTypeOK
<1>1. /\ DOMAIN tasks' = DOMAIN tasks
      /\ \A j \in DOMAIN tasks \ {i} : tasks'[j] = tasks[j]
      /\ tasks'[i].task_id = tasks[i].task_id
      /\ tasks'[i].state = tasks[i].state
      /\ tasks'[i].attempts = tasks[i].attempts
      /\ confirms' = confirms
  BY <1>0 DEF BecomeDue, AfterDue, history
<1>2. LET t == tasks[i].task_id
      IN  /\ taskState' = [taskState EXCEPT ![t] = taskState[t]]
          /\ taskRuns' = [taskRuns EXCEPT ![t] = taskRuns[t]]
          /\ \A u \in TaskId : Listed(tasks', u) = Listed(tasks, u)
  BY <1>1, OneItemChanges DEF LedgerInv
<1>3. taskState' = taskState /\ taskRuns' = taskRuns
  BY <1>2 DEF taskState, taskRuns
<1> QED
  BY <1>1, <1>2, <1>3, GrantsStay

LEMMA RecoverImplements ==
  ASSUME TypeInv, LedgerInv, Recovered
  PROVE  Lifecycle!Interrupt
<1>0. /\ tasks \in Seq(QueueItem)
      /\ confirms' = confirms
  BY DEF TypeInv, WorkerTypeOK, Recovered
<1>1. /\ DOMAIN tasks' = DOMAIN tasks
      /\ \A i \in DOMAIN tasks :
           /\ tasks'[i].task_id = tasks[i].task_id
           /\ tasks'[i].attempts = tasks[i].attempts
           /\ tasks'[i].state = IF tasks[i].state = "running"
                                  THEN "recovery_required" ELSE tasks[i].state
  BY <1>0 DEF Recovered, AfterRecover, Rewritten
<1>2. \A j, k \in DOMAIN tasks : tasks[j].task_id = tasks[k].task_id => j = k
  BY DEF LedgerInv, UniqueIds
<1>3. \A j, k \in DOMAIN tasks' : tasks'[j].task_id = tasks'[k].task_id => j = k
  BY <1>1, <1>2
<1>4. ASSUME NEW t \in TaskId
      PROVE  /\ Listed(tasks', t) = Listed(tasks, t)
             /\ Listed(tasks, t) =>
                  /\ ItemIn(tasks', t).attempts = ItemIn(tasks, t).attempts
                  /\ ItemIn(tasks', t).state =
                       IF ItemIn(tasks, t).state = "running"
                         THEN "recovery_required" ELSE ItemIn(tasks, t).state
  <2>1. Listed(tasks', t) = Listed(tasks, t)
    BY <1>1 DEF Listed, Ids
  <2>2. ASSUME NEW i \in DOMAIN tasks, tasks[i].task_id = t
        PROVE  ItemIn(tasks, t) = tasks[i] /\ ItemIn(tasks', t) = tasks'[i]
    BY <1>1, <1>2, <1>3, <2>2, ItemFound
  <2> QED
    BY <1>1, <2>1, <2>2, ListedHasItem
<1>5. taskState' = [t \in TaskId |-> IF taskState[t] = "running"
                                      THEN "recovery_required"
                                      ELSE taskState[t]]
  BY <1>4 DEF taskState
<1>6. taskRuns' = taskRuns /\ taskGrants' = taskGrants
  BY <1>0, <1>4, GrantsStay DEF taskRuns
<1> QED
  BY <1>5, <1>6 DEF Lifecycle!Interrupt

LEMMA NextImplements ==
  TypeInv /\ LedgerInv /\ [WorkerNext]_workerVars
    => [Lifecycle!LifeNext]_(Lifecycle!lifecycle)
<1> SUFFICES ASSUME TypeInv, LedgerInv, QueueMove
             PROVE  [Lifecycle!LifeNext]_(Lifecycle!lifecycle)
  BY NextMovesQueue
<1>1. CASE Kept
  BY <1>1 DEF Kept, taskState, taskGrants, taskRuns, Lifecycle!lifecycle
<1>2. ASSUME NEW i \in DOMAIN tasks, BecomeDue(i)
      PROVE  [Lifecycle!LifeNext]_(Lifecycle!lifecycle)
  BY <1>2, DueImplements DEF Lifecycle!lifecycle
<1> QED
  BY <1>1, <1>2, RecoverImplements, EnqueueImplements, MovedImplements,
     ClaimedImplements, ConfirmImplements DEF QueueMove, Lifecycle!LifeNext

\* The durable queue, with any number of workers that crash, overlap and time
\* out, implements the lifecycle its clients rely on: a task runs only on an
\* enqueue or a confirmed recovery that it has not used yet.
THEOREM QueueImplementsLifecycle == WorkerSpec => ImplementsLifecycle
  BY InitImplements, NextImplements, LedgerInvariant, PTL
  DEF WorkerSpec, ImplementsLifecycle, Lifecycle!LifeSpec
=============================================================================
