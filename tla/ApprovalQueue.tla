---------------------------- MODULE ApprovalQueue ----------------------------
(***************************************************************************)
(* The approval queue: sensitive actions are proposed                      *)
(* (autonomous_agent/action_queue.py), decided by an operator              *)
(* (autonomous_agent/approval.py), audited (approval_audit.py) and, when   *)
(* approved, given a single-use approval record (approval_store.py).       *)
(*                                                                         *)
(* Four files are shared: the queue, the lock beside it, the audit log and *)
(* one record per action.  Deciders hold the lock and replace the queue    *)
(* file; proposers take no lock and rewrite it in place, so a proposal is  *)
(* three steps: load, truncate, write.                                     *)
(*                                                                         *)
(* The queue file is kept as one list per action id, in file order: every  *)
(* lookup takes the first item with the id, and items with different ids   *)
(* only meet in the cap on pending items.                                  *)
(***************************************************************************)
EXTENDS Naturals, Sequences, FiniteSets

CONSTANTS Action,       \* action ids: hashes of task, steps and risk
          Rank,         \* the order of prioritize_queue: risk, then id
          Token,        \* approval tokens, fresh ones drawn as needed
          None,
          Proposer,     \* processes that call enqueue_proposal
          Decider,      \* server threads and CLI calls that decide
          MaxPending,   \* MAX_PENDING_ACTIONS (50 in the code)
          MaxProposals, \* bound on the proposals of one action
          MaxDecisions, \* bound on the length of the audit log
          Overlap       \* whether a proposal may overlap another write

ASSUME ApprovalQueueAssumption ==
  /\ Rank \in [Action -> Nat]
  /\ \A a, b \in Action : Rank[a] = Rank[b] => a = b
  /\ None \notin Token \cup Decider \cup Action
  /\ MaxPending \in Nat \ {0}
  /\ MaxProposals \in Nat /\ MaxDecisions \in Nat /\ Overlap \in BOOLEAN

VARIABLES queue,      \* action_queue.json
          readable,   \* whether that file parses; load_queue gives [] if not
          audit,      \* the hash-chained audit log
          auditOk,    \* whether its chain verifies
          record,     \* the approval record of each action
          issued,     \* history: the action each token was issued for
          lock,       \* who holds action_queue.json.lock
          ppc, draft, subject, \* a proposer: its place, list to write, action
          dpc, target, ruling, plan, \* a decider: ..., list to write
          proposals   \* history: proposals of each action that were written

proposing == <<ppc, draft, subject>>
deciding == <<dpc, target, ruling, plan>>
trail == <<audit, auditOk, record, issued>>
queueVars == <<queue, readable, trail, lock, proposing, deciding, proposals>>

-----------------------------------------------------------------------------
\* "stale": pending on disk, created more than MAX_PENDING_AGE ago.
Status == {"pending", "stale", "approved", "rejected", "blocked"}
Decision == {"approved", "rejected"}
QueueFile == [Action -> Seq(Status)]
NoItems == [a \in Action |-> <<>>]

TypeOK ==
  /\ queue \in QueueFile /\ readable \in BOOLEAN
  /\ audit \in Seq([id : Action, decision : Decision]) /\ auditOk \in BOOLEAN
  /\ record \in [Action -> Token \cup {None}]
  /\ issued \in [Token -> Action \cup {None}]
  /\ lock \in Decider \cup {None}
  /\ ppc \in [Proposer -> {"idle", "loaded", "writing", "orphaned"}]
  /\ draft \in [Proposer -> QueueFile]
  /\ subject \in [Proposer -> Action \cup {None}]
  /\ dpc \in [Decider -> {"idle", "called", "loaded", "written", "audited"}]
  /\ target \in [Decider -> Action \cup {None}]
  /\ ruling \in [Decider -> Decision \cup {None}]
  /\ plan \in [Decider -> QueueFile]
  /\ proposals \in [Action -> Nat]

Init ==
  /\ queue = NoItems /\ readable = TRUE
  /\ audit = <<>> /\ auditOk = TRUE
  /\ record = [a \in Action |-> None]
  /\ issued = [t \in Token |-> None]
  /\ lock = None
  /\ ppc = [p \in Proposer |-> "idle"]
  /\ draft = [p \in Proposer |-> NoItems]
  /\ subject = [p \in Proposer |-> None]
  /\ dpc = [d \in Decider |-> "idle"]
  /\ target = [d \in Decider |-> None]
  /\ ruling = [d \in Decider |-> None]
  /\ plan = [d \in Decider |-> NoItems]
  /\ proposals = [a \in Action |-> 0]

-----------------------------------------------------------------------------
\* The queue file as a value.

Loaded == IF readable THEN queue ELSE NoItems

Has(items, s) == \E i \in DOMAIN items : items[i] = s

\* expire_stale_actions, which runs on every list enqueue_proposal loads.
Unexpired(q) ==
  [a \in Action |-> [i \in DOMAIN q[a] |->
     IF q[a][i] = "stale" THEN "blocked" ELSE q[a][i]]]

\* The items with one of the statuses S, in the order they are in.
Chosen(items, S) ==
  LET first[n \in 0..Len(items)] ==
        IF n = 0 THEN <<>>
        ELSE IF items[n] \in S THEN Append(first[n - 1], items[n]) ELSE first[n - 1]
  IN  first[Len(items)]

Settled(items) == Chosen(items, Status \ {"pending"})
PendingFirst(items) == Chosen(items, {"pending"}) \o Settled(items)

Waiting(q) == {a \in Action : Has(q[a], "pending")}

\* The first MaxPending of the pending items, in priority order.
Kept(W) ==
  {a \in W : Cardinality({b \in W : Rank[b] < Rank[a]}) < MaxPending}

\* The list enqueue_proposal writes for a new item of action a.
AfterProposal(q, a) ==
  LET appended == [Unexpired(q) EXCEPT ![a] = Append(@, "pending")]
      dropped == Waiting(appended) \ Kept(Waiting(appended))
  IN  [b \in Action |-> IF b \in dropped THEN Settled(appended[b])
                                         ELSE PendingFirst(appended[b])]

-----------------------------------------------------------------------------
\* Proposers: enqueue_proposal.

Idle(d) == /\ dpc' = [dpc EXCEPT ![d] = "idle"]
           /\ target' = [target EXCEPT ![d] = None]
           /\ ruling' = [ruling EXCEPT ![d] = None]
           /\ plan' = [plan EXCEPT ![d] = NoItems]

Finished(p) == /\ ppc' = [ppc EXCEPT ![p] = "idle"]
               /\ draft' = [draft EXCEPT ![p] = NoItems]
               /\ subject' = [subject EXCEPT ![p] = None]

\* Nobody is between loading the queue and writing it.
Quiet == /\ \A p \in Proposer : ppc[p] = "idle"
         /\ \A d \in Decider : dpc[d] # "loaded"

\* Load, expire, look for a pending item of this action, build the new list.
Propose(p, a) ==
  /\ ppc[p] = "idle" /\ proposals[a] < MaxProposals
  /\ Overlap \/ Quiet
  /\ ~Has(Unexpired(Loaded)[a], "pending")
  /\ ppc' = [ppc EXCEPT ![p] = "loaded"]
  /\ draft' = [draft EXCEPT ![p] = AfterProposal(Loaded, a)]
  /\ subject' = [subject EXCEPT ![p] = a]
  /\ UNCHANGED <<queue, readable, trail, lock, deciding, proposals>>

\* path.write_text opens the queue file for writing, which empties it ...
Truncate(p) ==
  /\ ppc[p] = "loaded"
  /\ readable' = FALSE
  /\ ppc' = [ppc EXCEPT ![p] = "writing"]
  /\ UNCHANGED <<queue, trail, lock, draft, subject, deciding, proposals>>

\* ... and then writes the list.  If another proposer wrote in the meantime
\* the longer text may stick out behind the shorter one.
Write(p) ==
  /\ ppc[p] = "writing"
  /\ readable' \in IF readable THEN BOOLEAN ELSE {TRUE}
  /\ queue' = draft[p]
  /\ Finished(p)
  /\ proposals' = IF Has(draft[p][subject[p]], "pending")
                  THEN [proposals EXCEPT ![subject[p]] = @ + 1] ELSE proposals
  /\ UNCHANGED <<trail, lock, deciding>>

\* A decider replaced the file while p had the old one open: p's text is lost.
WriteOrphan(p) ==
  /\ ppc[p] = "orphaned"
  /\ Finished(p)
  /\ UNCHANGED <<queue, readable, trail, lock, deciding, proposals>>

ProposerCrash(p) ==
  /\ ppc[p] # "idle"
  /\ Finished(p)
  /\ UNCHANGED <<queue, readable, trail, lock, deciding, proposals>>

\* The head of a list passes MAX_PENDING_AGE.
GrowOld(a) ==
  /\ \E i \in DOMAIN queue[a] :
       /\ queue[a][i] = "pending"
       /\ queue' = [queue EXCEPT ![a][i] = "stale"]
  /\ UNCHANGED <<readable, trail, lock, proposing, deciding, proposals>>

-----------------------------------------------------------------------------
\* Deciders: create_approval and reject_action around set_decision.

\* create_approval looks the action up before it calls set_decision.
Call(d, a, v) ==
  /\ dpc[d] = "idle" /\ Len(audit) < MaxDecisions
  /\ v = "approved" => Loaded[a] # <<>>
  /\ dpc' = [dpc EXCEPT ![d] = "called"]
  /\ target' = [target EXCEPT ![d] = a]
  /\ ruling' = [ruling EXCEPT ![d] = v]
  /\ UNCHANGED <<queue, readable, trail, lock, proposing, plan, proposals>>

\* Only the first item with the id is looked at; "blocked" may be decided.
Decidable(items) == items # <<>> /\ Head(items) \notin Decision

Load(d) ==
  /\ dpc[d] = "called" /\ lock = None
  /\ Overlap \/ \A p \in Proposer : ppc[p] = "idle"
  /\ Decidable(Loaded[target[d]])
  /\ lock' = d
  /\ dpc' = [dpc EXCEPT ![d] = "loaded"]
  /\ plan' = [plan EXCEPT ![d] =
                [Loaded EXCEPT ![target[d]] = <<ruling[d]>> \o Tail(@)]]
  /\ UNCHANGED <<queue, readable, trail, proposing, target, ruling, proposals>>

\* "already approved/rejected", "not found", or the lock timed out.
Refuse(d) ==
  /\ dpc[d] = "called"
  /\ lock # None \/ ~Decidable(Loaded[target[d]])
  /\ Idle(d)
  /\ UNCHANGED <<queue, readable, trail, lock, proposing, proposals>>

\* os.replace: a proposer that holds the old file open writes into nothing.
Replace(d) ==
  /\ dpc[d] = "loaded"
  /\ queue' = plan[d] /\ readable' = TRUE
  /\ dpc' = [dpc EXCEPT ![d] = "written"]
  /\ ppc' = [p \in Proposer |->
               IF ppc[p] = "writing" THEN "orphaned" ELSE ppc[p]]
  /\ UNCHANGED <<trail, lock, draft, subject, target, ruling, plan, proposals>>

\* Mutant: the decision is audited only after the record was issued.
BugAudit(d) ==
  /\ dpc[d] = "written" /\ auditOk
  /\ lock' = None
  /\ IF ruling[d] = "approved"
     THEN dpc' = [dpc EXCEPT ![d] = "audited"]
          /\ UNCHANGED <<audit, target, ruling, plan>>
     ELSE Idle(d) /\ audit' = Append(audit, [id |-> target[d], decision |-> ruling[d]])
  /\ UNCHANGED <<queue, readable, auditOk, record, issued, proposing, proposals>>

\* append_decision, still under the queue lock.
Audit(d) ==
  /\ dpc[d] = "written" /\ auditOk
  /\ audit' = Append(audit, [id |-> target[d], decision |-> ruling[d]])
  /\ lock' = None
  /\ IF ruling[d] = "approved"
     THEN dpc' = [dpc EXCEPT ![d] = "audited"]
          /\ UNCHANGED <<target, ruling, plan>>
     ELSE Idle(d)
  /\ UNCHANGED <<queue, readable, auditOk, record, issued, proposing, proposals>>

\* append_decision refuses a broken chain: the decision stands, unaudited.
AuditRefused(d) ==
  /\ dpc[d] = "written" /\ ~auditOk
  /\ lock' = None
  /\ Idle(d)
  /\ UNCHANGED <<queue, readable, trail, proposing, proposals>>

\* secrets.token_urlsafe, then the record file is replaced.
Issue(d, t) ==
  /\ dpc[d] = "audited" /\ issued[t] = None
  /\ issued' = [issued EXCEPT ![t] = target[d]]
  /\ record' = [record EXCEPT ![target[d]] = t]
  /\ Idle(d)
  /\ UNCHANGED <<queue, readable, audit, auditOk, lock, proposing, proposals>>

\* A crash frees the lock; while the audit line is written it may tear it.
DeciderCrash(d) ==
  /\ dpc[d] # "idle"
  /\ auditOk' \in IF dpc[d] = "written" /\ auditOk THEN BOOLEAN ELSE {auditOk}
  /\ lock' = IF lock = d THEN None ELSE lock
  /\ Idle(d)
  /\ UNCHANGED <<queue, readable, audit, record, issued, proposing, proposals>>

QueueStep ==
  \/ \E p \in Proposer :
       \/ \E a \in Action : Propose(p, a)
       \/ Truncate(p) \/ Write(p) \/ WriteOrphan(p) \/ ProposerCrash(p)
  \/ \E a \in Action : GrowOld(a)
  \/ \E d \in Decider :
       \/ \E a \in Action, v \in Decision : Call(d, a, v)
       \/ Load(d) \/ Refuse(d) \/ Replace(d) \/ Audit(d) \/ AuditRefused(d)
       \/ \E t \in Token : Issue(d, t)
       \/ DeciderCrash(d)

Spec == Init /\ [][QueueStep]_queueVars

-----------------------------------------------------------------------------
\* Properties.

Audited(a, v) == Cardinality({i \in DOMAIN audit :
                                audit[i] = [id |-> a, decision |-> v]})

\* A proposal is decided once: the operator's answer cannot be given again,
\* by another thread or by a later call, without a new proposal.
OneDecisionPerProposal ==
  \A a \in Action :
    Audited(a, "approved") + Audited(a, "rejected") <= proposals[a]

\* Every token that exists was preceded by an audited approval of its action,
\* a different one for each token, whatever crashed in between.
TokensAreAudited ==
  \A a \in Action :
    Cardinality({t \in Token : issued[t] = a}) <= Audited(a, "approved")

=============================================================================
