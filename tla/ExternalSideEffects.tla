------------------------- MODULE ExternalSideEffects -------------------------
(***************************************************************************)
(* Calls that change the outside world, and the ledger that keeps them     *)
(* from being made twice (autonomous_agent/external_side_effects.py and    *)
(* the connectors that call it: rest_connector.py, gmail_connector.py,     *)
(* calendar_connector.py).  A caller reserves its idempotency key, calls   *)
(* the remote system, and records what it learned.                         *)
(* A REST connector built without the ledger just calls and is left out.   *)
(*                                                                         *)
(* Every call of the ledger is one step under its file lock; the remote    *)
(* call is made outside of it.  A request stands for the operation and the *)
(* digest of its arguments.  Reads, which are retried, are left out.       *)
(***************************************************************************)
EXTENDS Naturals, Sequences, FiniteSets

CONSTANTS Caller, Process, Key, Request, Nothing,
          ProcessOf,   \* the process a caller is a thread of
          KeysOf,      \* the keys a request may come with: its digest for mail
                       \* and calendar, any the user gives for REST
          Memory,      \* whether the connector remembers keys (not REST)
          Faults,      \* whether processes die and ledger writes fail
          MaxRecords,  \* MAX_RECORDS (10000 in the code)
          MaxCalls     \* bound on the length of the history

ASSUME ExternalSideEffectsAssumption ==
  /\ ProcessOf \in [Caller -> Process] /\ KeysOf \in [Request -> SUBSET Key]
  /\ Nothing \notin Key \cup Request
  /\ Memory \in BOOLEAN /\ Faults \in BOOLEAN
  /\ MaxRecords \in Nat \ {0} /\ MaxCalls \in Nat

VARIABLES records,  \* the ledger: what it says of each key
          sent,     \* _send_keys, _mutations: the keys a process remembers
          place, key, req, \* a caller: its place and its request
          answer,   \* ... and what it heard from the remote system
          calls     \* history: the calls that were made, in order

caller == <<place, key, req, answer>>
ledgerVars == <<records, sent, caller, calls>>

SideEffectState == {"reserved", "executed", "failed", "unknown"}
NoRecord == [req |-> Nothing, state |-> "none"]
Record == [req : Request, state : SideEffectState]

\* success: a 2xx or 3xx response     error: another status
\* raised: an exception; the request may have arrived nevertheless
Answer == {"success", "error", "raised"}
Call == [by : Caller, key : Key, req : Request,
         effect : BOOLEAN, answer : Answer]

LedgerTypeOK ==
  /\ records \in [Key -> Record \cup {NoRecord}]
  /\ sent \in [Process -> SUBSET Key]
  /\ place \in [Caller -> {"idle", "checked", "reserved", "answered"}]
  /\ key \in [Caller -> Key \cup {Nothing}]
  /\ req \in [Caller -> Request \cup {Nothing}]
  /\ answer \in [Caller -> Answer \cup {Nothing}]
  /\ calls \in Seq(Call)

LedgerInit ==
  /\ records = [k \in Key |-> NoRecord]
  /\ sent = [p \in Process |-> {}]
  /\ place = [c \in Caller |-> "idle"]
  /\ key = [c \in Caller |-> Nothing]
  /\ req = [c \in Caller |-> Nothing]
  /\ answer = [c \in Caller |-> Nothing]
  /\ calls = <<>>

-----------------------------------------------------------------------------
\* _load_unlocked refuses a file with more records than the limit; claim does
\* not look at it and may write one.
Recorded == {k \in Key : records[k] # NoRecord}
LedgerLoadable == Cardinality(Recorded) <= MaxRecords

At(c, here, there) == place[c] = here /\ place' = [place EXCEPT ![c] = there]
Returns(c) == /\ place' = [place EXCEPT ![c] = "idle"]
              /\ key' = [key EXCEPT ![c] = Nothing]
              /\ req' = [req EXCEPT ![c] = Nothing]
              /\ answer' = [answer EXCEPT ![c] = Nothing]

\* request, send, _mutation: up to the check of the remembered keys.
Check(c, k, r) ==
  /\ At(c, "idle", "checked")
  /\ k \in KeysOf[r]
  /\ Memory => k \notin sent[ProcessOf[c]]
  /\ key' = [key EXCEPT ![c] = k]
  /\ req' = [req EXCEPT ![c] = r]
  /\ UNCHANGED <<records, sent, answer, calls>>

ClaimKey(c) ==
  /\ At(c, "checked", "reserved")
  /\ LedgerLoadable /\ records[key[c]] = NoRecord
  /\ records' = [records EXCEPT ![key[c]] =
                   [req |-> req[c], state |-> "reserved"]]
  /\ UNCHANGED <<sent, key, req, answer, calls>>

\* The key has a record, of this request or another one, or claim raised.
Refused(c) ==
  /\ place[c] = "checked"
  /\ Faults \/ ~LedgerLoadable \/ records[key[c]] # NoRecord
  /\ Returns(c)
  /\ UNCHANGED <<records, sent, calls>>

\* The remote call.
Transport(c, a, effect) ==
  /\ At(c, "reserved", "answered")
  /\ Len(calls) < MaxCalls
  /\ a = "success" => effect
  /\ calls' = Append(calls, [by |-> c, key |-> key[c], req |-> req[c],
                             effect |-> effect, answer |-> a])
  /\ answer' = [answer EXCEPT ![c] = a]
  /\ UNCHANGED <<records, sent, key, req>>

\* Mutant: whatever came back is recorded as executed.
BugOutcome(a) == "executed"

Outcome(a) ==
  [success |-> "executed", error |-> "failed", raised |-> "unknown"][a]

Remembers(c) ==
  sent' = IF Memory /\ answer[c] = "success"
            THEN [sent EXCEPT ![ProcessOf[c]] = @ \cup {key[c]}] ELSE sent

Settled(c, state) ==
  records' = [records EXCEPT ![key[c]] = [req |-> @.req, state |-> state]]

\* Mutant: the record is dropped when the outcome is unknown.
BugMark(c) ==
  /\ place[c] = "answered"
  /\ records' = [records EXCEPT ![key[c]] =
                   IF answer[c] = "success"
                     THEN [req |-> @.req, state |-> "executed"] ELSE NoRecord]
  /\ Remembers(c) /\ Returns(c)
  /\ UNCHANGED calls

\* mark_executed, mark_failed, mark_unknown: only from reserved.
Mark(c) ==
  /\ place[c] = "answered"
  /\ LedgerLoadable /\ records[key[c]].state = "reserved"
  /\ Settled(c, Outcome(answer[c]))
  /\ Remembers(c) /\ Returns(c)
  /\ UNCHANGED calls

\* The mark raised; the handler tries mark_unknown, which may raise as well.
MarkRaised(c) ==
  /\ place[c] = "answered"
  /\ \/ Faults \/ ~LedgerLoadable
  /\ \/ UNCHANGED records
     \/ /\ LedgerLoadable /\ records[key[c]].state = "reserved"
        /\ Settled(c, "unknown")
  /\ Returns(c)
  /\ UNCHANGED <<sent, calls>>

Alive(c, p) == ProcessOf[c] # p

CrashCallers(p) ==
  /\ Faults
  /\ sent' = [sent EXCEPT ![p] = {}]
  /\ place' = [c \in Caller |-> IF Alive(c, p) THEN place[c] ELSE "idle"]
  /\ key' = [c \in Caller |-> IF Alive(c, p) THEN key[c] ELSE Nothing]
  /\ req' = [c \in Caller |-> IF Alive(c, p) THEN req[c] ELSE Nothing]
  /\ answer' = [c \in Caller |-> IF Alive(c, p) THEN answer[c] ELSE Nothing]
  /\ UNCHANGED <<records, calls>>

Goes(c) == \/ ClaimKey(c) \/ Refused(c)
           \/ \E a \in Answer, effect \in BOOLEAN : Transport(c, a, effect)
           \/ Mark(c) \/ MarkRaised(c)

LedgerNext ==
  \/ \E c \in Caller :
       \/ \E k \in Key, r \in Request : Check(c, k, r)
       \/ Goes(c)
  \/ \E p \in Process : CrashCallers(p)

LedgerSpec == LedgerInit /\ [][LedgerNext]_ledgerVars

-----------------------------------------------------------------------------
\* Properties.

\* "A RESERVED/UNKNOWN record is never automatically replayed": with the
\* ledger, at most one call is ever made under a key, by any process, after any
\* crash, failed write or lost answer, and past the ledger's limit.
OneCallPerKey ==
  \A i, j \in DOMAIN calls : calls[i].key = calls[j].key => i = j

\* "side-effect key was reused for a different request": what a key's record
\* says is about the one request that was made with it.
RecordIsOfCall ==
  \A i \in DOMAIN calls : records[calls[i].key].req = calls[i].req

\* A record never promises more than happened: executed means the remote
\* system did it, and what it did is on record in every state it may be in.
ExecutedHappened ==
  \A k \in Key : records[k].state = "executed" =>
    \E i \in DOMAIN calls : calls[i].key = k /\ calls[i].effect
=============================================================================
