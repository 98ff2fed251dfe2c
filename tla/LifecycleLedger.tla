--------------------------- MODULE LifecycleLedger ---------------------------
(***************************************************************************)
(* The lifecycle of an action (autonomous_agent/action_lifecycle.py) and   *)
(* the append-only ledger of transitions (lifecycle_ledger.py) as values.  *)
(*                                                                         *)
(* The ledger file interleaves the events of all actions; every check of   *)
(* the code is made per action, so the ledger is a function from actions   *)
(* to their events.  Hashes and sequence numbers are abstracted to the     *)
(* order of the list: a torn or altered file is a flag beside it.          *)
(***************************************************************************)
EXTENDS Naturals, Sequences

CONSTANT LedgerAction  \* the action ids that occur in the file

NextStage ==
  [proposed |-> "validated", validated |-> "tested", tested |-> "secured",
   secured |-> "policy_checked", policy_checked |-> "approved",
   approved |-> "claimed", claimed |-> "executed", executed |-> "verified",
   verified |-> "completed"]
LifecycleState == DOMAIN NextStage \cup {"completed", "blocked"}

\* _TRANSITIONS: the next stage or blocked; blocked and completed are final.
Transitions(s) ==
  IF s \in DOMAIN NextStage THEN {NextStage[s], "blocked"} ELSE {}

CanTransition(from, to) == to \in Transitions(from)

Event == [from : LifecycleState, to : LifecycleState]
Ledger == [LedgerAction -> Seq(Event)]

Latest(events) == events[Len(events)].to

\* action_state, on a ledger that verifies; None when there is no history.
ActionState(ledger, a) ==
  IF ledger[a] = <<>> THEN "none" ELSE Latest(ledger[a])

\* append_transition: what it checks, and the line it appends.
Accepts(ledger, a, from, to) ==
  /\ CanTransition(from, to)
  /\ IF ledger[a] = <<>> THEN from = "proposed" ELSE from = Latest(ledger[a])

Appended(ledger, a, from, to) ==
  [ledger EXCEPT ![a] = Append(@, [from |-> from, to |-> to])]

\* _verify_ledger_unlocked, over the events of every action.
Verifies(ledger) ==
  \A a \in LedgerAction : \A i \in DOMAIN ledger[a] :
    LET e == ledger[a][i] IN
    /\ CanTransition(e.from, e.to)
    /\ e.from = (IF i = 1 THEN "proposed" ELSE ledger[a][i - 1].to)

\* inspect_recovery: interrupted executions, which recovery blocks.
Interrupted == {"claimed", "executed"}
=============================================================================
