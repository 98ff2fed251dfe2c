--------------------------- MODULE TriggerDispatch ---------------------------
(***************************************************************************)
(* Triggers handing work to the durable queue                              *)
(* (autonomous_agent/trigger_dispatch.py, triggers.py).  A dispatch asks   *)
(* whether the trigger is ready, enqueues its task, fires the trigger and, *)
(* when another dispatch fired it first, cancels the task again.           *)
(*                                                                         *)
(* The registry and the queue are two files with a lock each; nothing      *)
(* covers a dispatch as a whole.  Event names and fingerprints are the     *)
(* identity of a trigger.                                                  *)
(***************************************************************************)
EXTENDS TaskQueueStore, FiniteSets

CONSTANTS Trigger, Dispatcher, None,
          Cooldown,    \* cooldown_seconds of each trigger
          MaxTriggers, \* max_triggers of the registry
          Start,       \* time.time() at the beginning of the model
          MaxTime      \* bound on how far the clock goes

ASSUME TriggerDispatchAssumption ==
  /\ None \notin TaskId \cup Trigger
  /\ Cooldown \in [Trigger -> Nat]
  /\ MaxTriggers \in Nat \ {0} /\ MaxTime \in Nat
  \* The clock counts from 1970, and a trigger that never fired has 0.0 there.
  /\ Start \in Nat /\ \A tr \in Trigger : Cooldown[tr] <= Start

VARIABLES tasks,       \* the task queue
          registered,  \* the triggers in the registry's file ...
          enabled,     \* ... those of them that are enabled ...
          lastFired,   \* ... and when each was fired last
          now,         \* time.time()
          pc, trigger, work, fresh, \* a dispatch: its place, trigger, task,
                       \* and whether it was the one that enqueued the task
          fired,       \* history: the tasks whose dispatch returned queued
          crashed      \* history: the tasks whose dispatch died

registry == <<registered, enabled, lastFired>>
dispatch == <<pc, trigger, work, fresh>>
history == <<fired, crashed>>
vars == <<tasks, registry, now, dispatch, history>>

TypeOK ==
  /\ tasks \in Seq(QueueItem)
  /\ registered \subseteq Trigger /\ enabled \subseteq registered
  /\ lastFired \in [Trigger -> Nat] /\ now \in Nat
  /\ pc \in [Dispatcher -> {"idle", "ready", "queued", "lost"}]
  /\ trigger \in [Dispatcher -> Trigger \cup {None}]
  /\ work \in [Dispatcher -> TaskId \cup {None}]
  /\ fresh \in [Dispatcher -> BOOLEAN]
  /\ fired \subseteq TaskId /\ crashed \subseteq TaskId

Init ==
  /\ tasks = <<>> /\ registered = {} /\ enabled = {}
  /\ lastFired = [tr \in Trigger |-> 0] /\ now = Start
  /\ pc = [d \in Dispatcher |-> "idle"]
  /\ trigger = [d \in Dispatcher |-> None]
  /\ work = [d \in Dispatcher |-> None]
  /\ fresh = [d \in Dispatcher |-> FALSE]
  /\ fired = {} /\ crashed = {}

-----------------------------------------------------------------------------
\* The registry; registering a known trigger enables it again.

Register(tr) ==
  /\ tr \in registered \/ Cardinality(registered) < MaxTriggers
  /\ registered' = registered \cup {tr}
  /\ enabled' = enabled \cup {tr}
  /\ UNCHANGED <<tasks, lastFired, now, dispatch, history>>

Disable(tr) ==
  /\ tr \in enabled
  /\ enabled' = enabled \ {tr}
  /\ UNCHANGED <<tasks, registered, lastFired, now, dispatch, history>>

Cooled(tr) == tr \in enabled /\ now - lastFired[tr] >= Cooldown[tr]

Tick == /\ now < Start + MaxTime
        /\ now' = now + 1
        /\ UNCHANGED <<tasks, registry, dispatch, history>>

-----------------------------------------------------------------------------
\* dispatch.

GoTo(d, label) == pc' = [pc EXCEPT ![d] = label]
Ends(d) == /\ GoTo(d, "idle")
           /\ trigger' = [trigger EXCEPT ![d] = None]
           /\ work' = [work EXCEPT ![d] = None]
           /\ fresh' = [fresh EXCEPT ![d] = FALSE]

\* ready(); a dispatch of a trigger that is not ready returns at once.
Ready(d, tr, t) ==
  /\ pc[d] = "idle" /\ Cooled(tr)
  /\ GoTo(d, "ready")
  /\ trigger' = [trigger EXCEPT ![d] = tr]
  /\ work' = [work EXCEPT ![d] = t]
  /\ UNCHANGED <<tasks, registry, now, fresh, history>>

\* enqueue(), or the item that has the id already.
Enqueue(d) ==
  /\ pc[d] = "ready"
  /\ tasks' = IF work[d] \in Ids(tasks) THEN tasks
              ELSE AfterEnqueue(tasks, work[d], TRUE)
  /\ fresh' = [fresh EXCEPT ![d] = work[d] \notin Ids(tasks)]
  /\ GoTo(d, "queued")
  /\ UNCHANGED <<registry, now, trigger, work, history>>

\* Mutant: fire() relies on the earlier answer of ready().
BugFire(d) ==
  /\ pc[d] = "queued"
  /\ lastFired' = [lastFired EXCEPT ![trigger[d]] = now]
  /\ fired' = fired \cup {work[d]} /\ UNCHANGED crashed
  /\ Ends(d)
  /\ UNCHANGED <<tasks, registered, enabled, now>>

Fire(d) ==
  /\ pc[d] = "queued" /\ Cooled(trigger[d])
  /\ lastFired' = [lastFired EXCEPT ![trigger[d]] = now]
  /\ fired' = fired \cup {work[d]} /\ UNCHANGED crashed
  /\ Ends(d)
  /\ UNCHANGED <<tasks, registered, enabled, now>>

FireRefused(d) ==
  /\ pc[d] = "queued" /\ ~Cooled(trigger[d])
  /\ GoTo(d, "lost")
  /\ UNCHANGED <<tasks, registry, now, trigger, work, fresh, history>>

\* Mutant: the task of a dispatch that lost is kept.
BugWithdraw(d) ==
  /\ pc[d] = "lost"
  /\ Ends(d)
  /\ UNCHANGED <<tasks, registry, now, history>>

\* The task is cancelled by the dispatch that enqueued it; cancel raises when
\* the worker has it already.
Withdraw(d) ==
  /\ pc[d] = "lost"
  /\ \E i \in DOMAIN tasks :
       /\ tasks[i].task_id = work[d]
       /\ tasks' = IF fresh[d] /\ tasks[i].state \in Cancellable
                     THEN AfterCancel(tasks, i) ELSE tasks
  /\ Ends(d)
  /\ UNCHANGED <<registry, now, history>>

Crash(d) ==
  /\ pc[d] # "idle"
  /\ crashed' = crashed \cup {work[d]}
  /\ Ends(d)
  /\ UNCHANGED <<tasks, registry, now, fired>>

\* A worker takes an item and finishes it (see BackgroundWorker).
Claim ==
  /\ \E i \in DOMAIN tasks :
       /\ NextClaim(tasks, i)
       /\ tasks' = AfterClaim(tasks, i)
  /\ UNCHANGED <<registry, now, dispatch, history>>

Complete(ok) ==
  /\ \E i \in DOMAIN tasks : /\ tasks[i].state = "running"
                             /\ tasks' = AfterComplete(tasks, i, ok)
  /\ UNCHANGED <<registry, now, dispatch, history>>

Next ==
  \/ \E tr \in Trigger : Register(tr) \/ Disable(tr)
  \/ Tick \/ Claim \/ \E ok \in BOOLEAN : Complete(ok)
  \/ \E d \in Dispatcher :
       \/ \E tr \in Trigger, t \in TaskId : Ready(d, tr, t)
       \/ Enqueue(d) \/ Fire(d) \/ FireRefused(d) \/ Withdraw(d) \/ Crash(d)

Spec == Init /\ [][Next]_vars
-----------------------------------------------------------------------------
\* Properties.

\* fire() decides under the registry's lock: however many dispatches found the
\* trigger ready, it fires once per cooldown.
CooldownKept ==
  [][\A tr \in Trigger :
       lastFired'[tr] # lastFired[tr] =>
         lastFired'[tr] - lastFired[tr] >= Cooldown[tr]]_vars

\* A dispatch that reports its task as queued has put it into the queue, also
\* when processes die between the two files.
FiredIsListed == \A t \in fired : t \in Ids(tasks)

\* A dispatch that lost the trigger takes its task back: however dispatches
\* race, share task ids or fail to fire, a task still waits for the worker only
\* when the trigger fired for it, or when its dispatch died on the way.
InProgress(t) == \E d \in Dispatcher : work[d] = t
WaitingWasFired ==
  \A i \in DOMAIN tasks :
    tasks[i].state = "pending" /\ ~InProgress(tasks[i].task_id) =>
      tasks[i].task_id \in fired \cup crashed
=============================================================================
