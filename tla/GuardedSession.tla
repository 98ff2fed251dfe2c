---------------------------- MODULE GuardedSession ----------------------------
(***************************************************************************)
(* What a bounded tool session promises to the agent that drives it: every *)
(* mutation it performs is paid for out of an action budget that is never  *)
(* overdrawn, a mutation recorded as completed is not performed again, and *)
(* nothing is recorded that was not performed.  The browser, application,  *)
(* document, desktop and workflow connectors each implement it.            *)
(***************************************************************************)
EXTENDS Naturals, Sequences

VARIABLES
    life,               \* sessions opened so far
    used,               \* actions spent by the current session
    limit,              \* the budget of the current session
    done,               \* keys recorded as completed
    performed           \* keys of the mutations this process performed, in order

guardVars == <<life, used, limit, done, performed>>

PerformedKeys(s) == {s[i] : i \in DOMAIN s}

GuardInit == /\ life = 0 /\ used = 0 /\ limit \in Nat
             /\ done = {} /\ performed = <<>>

\* An operation may perform one mutation, if it is not on record, and records
\* only what has been performed.
MayPerform == /\ \/ performed' = performed
                 \/ /\ Len(performed') = Len(performed) + 1
                    /\ performed = SubSeq(performed', 1, Len(performed))
                    /\ performed'[Len(performed')] \notin done
              /\ done \subseteq done'
              /\ done' \subseteq done \cup PerformedKeys(performed')

\* One operation of the session spends some of what the budget has left.
Work == /\ life' = life /\ limit' = limit
        /\ used < used' /\ used' <= limit
        /\ MayPerform

\* A new session has a budget of its own and the same record; the operation
\* that opened it may be charged to it, and pays for what it performs.
Renew == /\ life < life' /\ limit' \in Nat
         /\ used' <= 1 /\ used' <= limit'
         /\ MayPerform
         /\ used' = 0 => performed' = performed

\* A new process starts from a checkpoint of the record.
Resume == /\ life < life' /\ limit' \in Nat /\ used' <= limit'
          /\ performed' = <<>> /\ done' \subseteq done

\* Binding the session to a task with a smaller budget narrows it.
Narrow == /\ life' = life /\ limit' <= limit
          /\ used' <= used /\ used' <= limit'
          /\ UNCHANGED <<done, performed>>

GuardNext == Work \/ Renew \/ Resume \/ Narrow
GuardSpec == GuardInit /\ [][GuardNext]_guardVars
=============================================================================
