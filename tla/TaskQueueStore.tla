--------------------------- MODULE TaskQueueStore ---------------------------
(***************************************************************************)
(* The durable task queue of autonomous_agent/task_queue.py as a value: a  *)
(* JSON list of items, rewritten as a whole (mkstemp + os.replace) under a *)
(* thread lock and an inter-process file lock.  One call of the store is   *)
(* therefore one atomic step of its callers; this module says which calls  *)
(* are accepted and what list they leave behind.                           *)
(*                                                                         *)
(* Timestamps are abstracted to "due" (available_at is not in the future); *)
(* the task text and the error text are left out.                          *)
(***************************************************************************)
EXTENDS Naturals, Sequences

CONSTANTS TaskId,       \* identities chosen by the callers of enqueue
          MaxAttempts   \* the bound of _validate_item (1000 in the code)

ASSUME MaxAttemptsAssumption == MaxAttempts \in Nat \ {0}

QueueState == {"pending", "running", "recovery_required",
               "succeeded", "failed", "cancelled"}

QueueItem == [task_id : TaskId, state : QueueState,
              due : BOOLEAN, attempts : Nat]

\* _load_unlocked validates every item: one bad item makes every call raise.
Loadable(q) == \A i \in DOMAIN q : q[i].attempts <= MaxAttempts

Ids(q) == {q[i].task_id : i \in DOMAIN q}

NewItem(t, due) ==
  [task_id |-> t, state |-> "pending", due |-> due, attempts |-> 0]

\* QueueItem.ready and the scan of claim_next: the first pending, due item.
Claimable(q) == {i \in DOMAIN q : q[i].state = "pending" /\ q[i].due}

\* Mutant: an item that is not due yet blocks the ones behind it.
BugNextClaim(q, i) == /\ i \in Claimable(q)
                      /\ \A j \in 1..(i - 1) : q[j].state # "pending"

NextClaim(q, i) == /\ i \in Claimable(q)
                   /\ \A j \in Claimable(q) : i <= j

\* Every accepted call builds the item anew from the one it found.
Rewritten(item, state, attempts) ==
  [task_id |-> item.task_id, state |-> state,
   due |-> item.due, attempts |-> attempts]

MovedTo(q, i, state) ==
  [q EXCEPT ![i] = Rewritten(q[i], state, q[i].attempts)]

\* What the calls write back; i is the index of the item they found.
AfterEnqueue(q, t, due) == Append(q, NewItem(t, due))
AfterClaim(q, i) ==
  [q EXCEPT ![i] = Rewritten(q[i], "running", q[i].attempts + 1)]

AfterComplete(q, i, success) ==
  MovedTo(q, i, IF success THEN "succeeded" ELSE "failed")
AfterCancel(q, i) == MovedTo(q, i, "cancelled")
AfterConfirm(q, i) == MovedTo(q, i, "pending")

\* Mutant: a restart puts every item that was started back to pending.
BugReplay(q) ==
  [i \in DOMAIN q |->
     IF q[i].attempts > 0 THEN Rewritten(q[i], "pending", q[i].attempts)
                          ELSE q[i]]

AfterRecover(q) ==
  [i \in DOMAIN q |->
     IF q[i].state = "running"
       THEN Rewritten(q[i], "recovery_required", q[i].attempts)
       ELSE q[i]]

\* The clock passes available_at of an item.
AfterDue(q, i) ==
  [q EXCEPT ![i] = [task_id |-> q[i].task_id, state |-> q[i].state,
                    due |-> TRUE, attempts |-> q[i].attempts]]

\* The states in which cancel accepts an item.
Cancellable == {"pending", "recovery_required"}
Terminal == {"succeeded", "failed", "cancelled"}
=============================================================================
