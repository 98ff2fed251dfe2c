--------------------------- MODULE OperationsProofs ---------------------------
(***************************************************************************)
(* Proofs about four of the parts that MCOperations runs side by side.     *)
(* The triggers and their dispatch: for any number of dispatches.          *)
(* The ledger of external side effects: for any number of callers,         *)
(* processes, keys and requests, with crashes and failing writes, and      *)
(* whatever the limit of the ledger.  The digital runtime: for every       *)
(* catalogue and every sequence of calls, resumptions and crashes.  The    *)
(* post-change verification: for every repository, every history of its    *)
(* pull request and its CI runs, and any number of collections.            *)
(***************************************************************************)
EXTENDS TriggerDispatch, ExternalSideEffects, DigitalRuntime, PostChange,
        FiniteSetTheorems, WellFoundedInduction, TLAPS

-----------------------------------------------------------------------------
(* The ledger of external side effects.                                    *)

\* What the type invariant leaves open: a caller under way has a request, one
\* that heard an answer has it.
LedgerTyped ==
  /\ LedgerTypeOK
  /\ \A c \in Caller : place[c] # "idle" => key[c] \in Key /\ req[c] \in Request
  /\ \A c \in Caller : place[c] = "answered" => answer[c] \in Answer

\* A caller that has reserved its key.
Holds(c) == place[c] \in {"reserved", "answered"}
ReservedFor(r) == [req |-> r, state |-> "reserved"]

\* The key of a caller that holds it is reserved for its request and held by
\* no other, and was not called before the caller did.
HoldersExclude ==
  /\ \A c \in Caller : Holds(c) => records[key[c]] = ReservedFor(req[c])
  /\ \A c, d \in Caller : Holds(c) /\ Holds(d) /\ key[c] = key[d] => c = d
  /\ \A c \in Caller : place[c] = "reserved" =>
       \A i \in DOMAIN calls : calls[i].key # key[c]

Excluded == HoldersExclude /\ RecordIsOfCall /\ OneCallPerKey

LedgerInv == LedgerTyped /\ Excluded

-----------------------------------------------------------------------------
\* Types.

LEMMA LedgerTypedInit ==
  ASSUME LedgerInit PROVE LedgerTyped
  BY ExternalSideEffectsAssumption
  DEF LedgerInit, LedgerTyped, LedgerTypeOK, Record, NoRecord, Call

\* A caller that returns.
LEMMA ReturnsTyped ==
  ASSUME LedgerTyped, NEW c \in Caller, Returns(c)
  PROVE  /\ place' \in [Caller -> {"idle", "checked", "reserved", "answered"}]
         /\ key' \in [Caller -> Key \cup {Nothing}]
         /\ req' \in [Caller -> Request \cup {Nothing}]
         /\ answer' \in [Caller -> Answer \cup {Nothing}]
         /\ place'[c] = "idle"
         /\ \A d \in Caller \ {c} :
              /\ place'[d] = place[d] /\ key'[d] = key[d]
              /\ req'[d] = req[d] /\ answer'[d] = answer[d]
  BY DEF Returns, LedgerTyped, LedgerTypeOK

\* The ledger keeps its type and the requests of its records when one record
\* is settled.
LEMMA SettledTyped ==
  ASSUME LedgerTyped, NEW c \in Caller, place[c] = "answered",
         records[key[c]].state = "reserved",
         NEW s \in SideEffectState, Settled(c, s)
  PROVE  /\ records' \in [Key -> Record \cup {NoRecord}]
         /\ \A k \in Key : records'[k].req = records[k].req
         /\ \A k \in Key : k # key[c] => records'[k] = records[k]
<1>1. key[c] \in Key
  BY DEF LedgerTyped
<1>2. records[key[c]] \in Record
  BY <1>1 DEF LedgerTyped, LedgerTypeOK, NoRecord
<1>3. [req |-> records[key[c]].req, state |-> s] \in Record
  BY <1>2 DEF Record
<1> QED
  BY <1>1, <1>3 DEF Settled, LedgerTyped, LedgerTypeOK

LEMMA OutcomeTyped ==
  ASSUME NEW a \in Answer PROVE Outcome(a) \in SideEffectState
  BY DEF Answer, Outcome, SideEffectState

\* Mark and MarkRaised: one record is settled or none.
LEMMA MarksSettle ==
  ASSUME LedgerTyped, NEW c \in Caller, Mark(c) \/ MarkRaised(c)
  PROVE  /\ place[c] = "answered" /\ Returns(c) /\ calls' = calls
         /\ records' \in [Key -> Record \cup {NoRecord}]
         /\ \A k \in Key : records'[k].req = records[k].req
         /\ \A k \in Key : k # key[c] => records'[k] = records[k]
         /\ sent' \in [Process -> SUBSET Key]
<1>1. CASE UNCHANGED records
  BY <1>1, ExternalSideEffectsAssumption
  DEF Mark, MarkRaised, Remembers, LedgerTyped, LedgerTypeOK
<1>2. CASE Mark(c) /\ ~UNCHANGED records
  BY <1>2, SettledTyped, OutcomeTyped, ExternalSideEffectsAssumption
  DEF Mark, Remembers, LedgerTyped, LedgerTypeOK
<1>3. CASE MarkRaised(c) /\ ~UNCHANGED records
  <2>1. "unknown" \in SideEffectState
    BY DEF SideEffectState
  <2> QED
    BY <1>3, <2>1, SettledTyped DEF MarkRaised, LedgerTyped, LedgerTypeOK
<1> QED
  BY <1>1, <1>2, <1>3

\* ClaimKey writes the reservation of one caller.
LEMMA ClaimReserves ==
  ASSUME LedgerTyped, NEW c \in Caller, ClaimKey(c)
  PROVE  /\ records' \in [Key -> Record \cup {NoRecord}]
         /\ records[key[c]] = NoRecord
         /\ records'[key[c]] = ReservedFor(req[c])
         /\ \A k \in Key : k # key[c] => records'[k] = records[k]
<1>1. key[c] \in Key /\ req[c] \in Request
  BY DEF LedgerTyped, ClaimKey, At
<1>2. ReservedFor(req[c]) \in Record
  BY <1>1 DEF ReservedFor, Record, SideEffectState
<1> QED
  BY <1>1, <1>2 DEF ClaimKey, ReservedFor, LedgerTyped, LedgerTypeOK

LEMMA LedgerTypedStep ==
  ASSUME LedgerTyped, [LedgerNext]_ledgerVars PROVE LedgerTyped'
<1> USE DEF LedgerTyped, LedgerTypeOK
<1>1. CASE UNCHANGED ledgerVars
  BY <1>1 DEF ledgerVars, caller
<1>2. ASSUME NEW c \in Caller, NEW k \in Key, NEW r \in Request, Check(c, k, r)
      PROVE  LedgerTyped'
  BY <1>2 DEF Check, At
<1>3. ASSUME NEW c \in Caller, ClaimKey(c)
      PROVE  LedgerTyped'
  <2>1. records' \in [Key -> Record \cup {NoRecord}]
    BY <1>3, ClaimReserves
  <2> QED
    BY <1>3, <2>1 DEF ClaimKey, At
<1>4. ASSUME NEW c \in Caller, Refused(c)
      PROVE  LedgerTyped'
  BY <1>4, ReturnsTyped DEF Refused
<1>5. ASSUME NEW c \in Caller, NEW a \in Answer, NEW b \in BOOLEAN,
             Transport(c, a, b)
      PROVE  LedgerTyped'
  <2>1. [by |-> c, key |-> key[c], req |-> req[c], effect |-> b, answer |-> a]
          \in Call
    BY <1>5 DEF Call, Transport, At
  <2>2. calls' \in Seq(Call)
    BY <1>5, <2>1 DEF Transport
  <2> QED
    BY <1>5, <2>2 DEF Transport, At
<1>6. ASSUME NEW c \in Caller, Mark(c) \/ MarkRaised(c)
      PROVE  LedgerTyped'
  BY <1>6, MarksSettle, ReturnsTyped
<1>7. ASSUME NEW p \in Process, CrashCallers(p)
      PROVE  LedgerTyped'
  BY <1>7 DEF CrashCallers, Alive
<1> QED
  BY <1>1, <1>2, <1>3, <1>4, <1>5, <1>6, <1>7 DEF LedgerNext, Goes

LEMMA CallTyped ==
  ASSUME LedgerTyped, NEW i \in DOMAIN calls
  PROVE  calls[i].key \in Key /\ calls[i].req \in Request
<1>1. calls \in Seq(Call)
  BY DEF LedgerTyped, LedgerTypeOK
<1>2. calls[i] \in Call
  BY <1>1
<1> QED
  BY <1>2 DEF Call

-----------------------------------------------------------------------------
\* At most one call per key.

\* Every step but ClaimKey and Transport: nobody comes to hold a key, and what
\* the ledger says changes at most for a caller that gives its key up.
LEMMA NobodyComes ==
  ASSUME Excluded,
         \A d \in Caller : Holds(d)' =>
           /\ place'[d] = place[d] /\ key'[d] = key[d] /\ req'[d] = req[d]
           /\ records'[key[d]] = records[key[d]],
         LedgerTyped,
         \A k \in Key : records'[k].req = records[k].req,
         calls' = calls
  PROVE  Excluded'
<1>1. \A d \in Caller : Holds(d)' => Holds(d)
  BY DEF Holds
<1>2. HoldersExclude'
  BY <1>1 DEF Excluded, HoldersExclude, Holds
<1>3. RecordIsOfCall'
  <2>1. \A i \in DOMAIN calls : calls[i].key \in Key
    BY CallTyped
  <2> QED
    BY <2>1 DEF Excluded, RecordIsOfCall
<1>4. OneCallPerKey'
  BY DEF Excluded, OneCallPerKey
<1> QED
  BY <1>2, <1>3, <1>4 DEF Excluded

LEMMA ClaimKeeps ==
  ASSUME LedgerTyped, Excluded, NEW c \in Caller, ClaimKey(c)
  PROVE  Excluded'
<1>1. /\ records[key[c]] = NoRecord
      /\ records'[key[c]] = ReservedFor(req[c])
      /\ \A k \in Key : k # key[c] => records'[k] = records[k]
  BY ClaimReserves
<1>2. /\ \A d \in Caller : key'[d] = key[d] /\ req'[d] = req[d]
      /\ \A d \in Caller \ {c} : place'[d] = place[d]
      /\ place'[c] = "reserved" /\ place[c] = "checked" /\ calls' = calls
  BY DEF ClaimKey, At, LedgerTyped, LedgerTypeOK
<1>3. key[c] \in Key /\ req[c] \in Request
  BY <1>2 DEF LedgerTyped
\* Nobody holds a key without a record, and nothing was called with it.
<1>4. \A d \in Caller : Holds(d) => key[d] \in Key /\ key[d] # key[c]
  <2>1. \A r : ReservedFor(r) # NoRecord
    BY DEF ReservedFor, NoRecord
  <2>2. \A d \in Caller : Holds(d) => records[key[d]] # NoRecord
    BY <2>1 DEF Excluded, HoldersExclude
  <2> QED
    BY <1>1, <2>2 DEF Holds, LedgerTyped
<1>5. \A i \in DOMAIN calls :
         /\ calls[i].key \in Key /\ calls[i].req \in Request
         /\ calls[i].key # key[c]
  <2>1. NoRecord.req = Nothing /\ Nothing \notin Request
    BY ExternalSideEffectsAssumption DEF NoRecord
  <2>2. \A i \in DOMAIN calls : records[calls[i].key].req \in Request
    BY CallTyped DEF Excluded, RecordIsOfCall
  <2> QED
    BY <1>1, <2>1, <2>2, CallTyped
<1>6. \A d \in Caller : Holds(d)' => d = c \/ Holds(d)
  BY <1>2 DEF Holds
<1>7. HoldersExclude'
  <2>1. \A d \in Caller : Holds(d)' => records'[key'[d]] = ReservedFor(req'[d])
    BY <1>1, <1>2, <1>4, <1>6 DEF Excluded, HoldersExclude
  <2>2. \A d, e \in Caller :
          Holds(d)' /\ Holds(e)' /\ key'[d] = key'[e] => d = e
    BY <1>2, <1>4, <1>6 DEF Excluded, HoldersExclude
  <2>3. \A d \in Caller : place'[d] = "reserved" =>
          \A i \in DOMAIN calls' : calls'[i].key # key'[d]
    BY <1>2, <1>5 DEF Excluded, HoldersExclude
  <2> QED
    BY <2>1, <2>2, <2>3 DEF HoldersExclude, ReservedFor
<1>8. RecordIsOfCall'
  BY <1>1, <1>2, <1>5 DEF Excluded, RecordIsOfCall
<1>9. OneCallPerKey'
  BY <1>2 DEF Excluded, OneCallPerKey
<1> QED
  BY <1>7, <1>8, <1>9 DEF Excluded

LEMMA TransportKeeps ==
  ASSUME LedgerTyped, Excluded, NEW c \in Caller,
         NEW a \in Answer, NEW b \in BOOLEAN, Transport(c, a, b)
  PROVE  Excluded'
<1> DEFINE n == Len(calls)
           x == [by |-> c, key |-> key[c], req |-> req[c],
                 effect |-> b, answer |-> a]
<1>1. place[c] = "reserved" /\ key[c] \in Key /\ req[c] \in Request
  BY DEF Transport, At, LedgerTyped
<1>2. /\ records' = records /\ key' = key /\ req' = req
      /\ place'[c] = "answered" /\ \A d \in Caller \ {c} : place'[d] = place[d]
  BY DEF Transport, At, LedgerTyped, LedgerTypeOK
<1>3. calls \in Seq(Call) /\ n \in Nat /\ DOMAIN calls = 1..n
  BY DEF LedgerTyped, LedgerTypeOK
<1>4. calls' = Append(calls, x)
  BY DEF Transport
<1>5. /\ DOMAIN calls' = 1..(n + 1)
      /\ calls'[n + 1] = x
      /\ \A i \in 1..n : calls'[i] = calls[i]
  BY <1>3, <1>4
<1>6. \A i \in 1..n : calls[i].key # key[c]
  BY <1>1, <1>3 DEF Excluded, HoldersExclude
<1>7. \A i \in 1..(n + 1) : i \in 1..n \/ i = n + 1
  BY <1>3
<1>8. x.key = key[c] /\ x.req = req[c]
  OBVIOUS
<1> HIDE DEF x, n
<1>9. HoldersExclude'
  <2>1. \A d \in Caller : Holds(d)' <=> Holds(d)
    BY <1>1, <1>2 DEF Holds
  <2>2. \A d \in Caller : place'[d] = "reserved" => d # c /\ place[d] = "reserved"
    BY <1>2
  <2>3. \A d \in Caller : place'[d] = "reserved" => key[d] # key[c]
    BY <1>1, <2>2 DEF Excluded, HoldersExclude, Holds
  <2>4. \A d \in Caller : place'[d] = "reserved" =>
          \A i \in DOMAIN calls' : calls'[i].key # key'[d]
    BY <1>2, <1>3, <1>5, <1>7, <1>8, <2>2, <2>3 DEF Excluded, HoldersExclude
  <2>5. \A d \in Caller : Holds(d)' => records'[key'[d]] = ReservedFor(req'[d])
    BY <1>2, <2>1 DEF Excluded, HoldersExclude
  <2>6. \A d, e \in Caller :
          Holds(d)' /\ Holds(e)' /\ key'[d] = key'[e] => d = e
    BY <1>2, <2>1 DEF Excluded, HoldersExclude
  <2> QED
    BY <2>4, <2>5, <2>6 DEF HoldersExclude, ReservedFor
<1>10. RecordIsOfCall'
  <2>1. records[key[c]].req = req[c]
    <3>1. records[key[c]] = ReservedFor(req[c])
      BY <1>1 DEF Excluded, HoldersExclude, Holds
    <3> QED
      BY <3>1 DEF ReservedFor
  <2> QED
    BY <1>2, <1>3, <1>5, <1>7, <1>8, <2>1 DEF Excluded, RecordIsOfCall
<1>11. OneCallPerKey'
  BY <1>3, <1>5, <1>6, <1>7, <1>8 DEF Excluded, OneCallPerKey
<1> QED
  BY <1>9, <1>10, <1>11 DEF Excluded

LEMMA ExcludedStep ==
  ASSUME LedgerTyped, Excluded, [LedgerNext]_ledgerVars
  PROVE  Excluded'
<1>1. CASE UNCHANGED ledgerVars
  BY <1>1, NobodyComes DEF ledgerVars, caller, Holds
<1>2. ASSUME NEW c \in Caller, NEW k \in Key, NEW r \in Request, Check(c, k, r)
      PROVE  Excluded'
  BY <1>2, NobodyComes DEF Check, At, Holds, LedgerTyped, LedgerTypeOK
<1>3. ASSUME NEW c \in Caller, Refused(c)
      PROVE  Excluded'
  BY <1>3, NobodyComes, ReturnsTyped DEF Refused, Holds
<1>4. ASSUME NEW c \in Caller, Mark(c) \/ MarkRaised(c)
      PROVE  Excluded'
  <2>1. \A d \in Caller : Holds(d)' => d # c
    BY <1>4, MarksSettle, ReturnsTyped DEF Holds
  <2>2. \A d \in Caller : Holds(d)' =>
          /\ place'[d] = place[d] /\ key'[d] = key[d] /\ req'[d] = req[d]
    BY <1>4, <2>1, MarksSettle, ReturnsTyped
  <2>3. \A d \in Caller : Holds(d)' => key[d] \in Key /\ key[d] # key[c]
    <3>1. Holds(c)
      BY <1>4, MarksSettle DEF Holds
    <3>2. \A d \in Caller : Holds(d)' => Holds(d)
      BY <2>2 DEF Holds
    <3> QED
      BY <2>1, <3>1, <3>2 DEF Excluded, HoldersExclude, Holds, LedgerTyped
  <2> QED
    BY <1>4, <2>2, <2>3, MarksSettle, NobodyComes
<1>5. ASSUME NEW p \in Process, CrashCallers(p)
      PROVE  Excluded'
  BY <1>5, NobodyComes DEF CrashCallers, Holds
<1> QED
  BY <1>1, <1>2, <1>3, <1>4, <1>5, ClaimKeeps, TransportKeeps
  DEF LedgerNext, Goes

LEMMA LedgerInvariant == LedgerSpec => []LedgerInv
<1>1. LedgerInit => LedgerInv
  <2>1. LedgerInit => Excluded
    BY DEF LedgerInit, Excluded, HoldersExclude, RecordIsOfCall, OneCallPerKey, Holds
  <2> QED
    BY <2>1, LedgerTypedInit DEF LedgerInv
<1>2. LedgerInv /\ [LedgerNext]_ledgerVars => LedgerInv'
  BY LedgerTypedStep, ExcludedStep DEF LedgerInv
<1> QED
  BY <1>1, <1>2, PTL DEF LedgerSpec

-----------------------------------------------------------------------------
\* What executed means.

\* An answer of success is about a call that took effect.
AnswersTrue ==
  \A c \in Caller : place[c] = "answered" /\ answer[c] = "success" =>
    \E i \in DOMAIN calls : calls[i].key = key[c] /\ calls[i].effect

\* Calls are never forgotten.
LEMMA CallsGrow ==
  ASSUME LedgerTyped, [LedgerNext]_ledgerVars
  PROVE  \A i \in DOMAIN calls : i \in DOMAIN calls' /\ calls'[i] = calls[i]
<1>1. calls \in Seq(Call)
  BY DEF LedgerTyped, LedgerTypeOK
<1>2. ASSUME NEW c \in Caller, NEW a \in Answer, NEW b \in BOOLEAN,
             Transport(c, a, b)
      PROVE  \A i \in DOMAIN calls : i \in DOMAIN calls' /\ calls'[i] = calls[i]
  BY <1>1, <1>2 DEF Transport
<1>3. calls' = calls \/ \E c \in Caller, a \in Answer, b \in BOOLEAN :
                         Transport(c, a, b)
  BY DEF LedgerNext, Goes, Check, ClaimKey, Refused, Mark, MarkRaised, CrashCallers,
         ledgerVars
<1> QED
  BY <1>2, <1>3

\* What is executed after a step was so before, or is now on a true answer.
LEMMA ExecutedComes ==
  ASSUME LedgerTyped, [LedgerNext]_ledgerVars, NEW k \in Key, records'[k].state = "executed"
  PROVE  \/ records[k].state = "executed"
         \/ \E c \in Caller : /\ place[c] = "answered" /\ answer[c] = "success"
                             /\ key[c] = k
<1> USE DEF LedgerTyped, LedgerTypeOK
<1>1. ASSUME NEW c \in Caller, ClaimKey(c)
      PROVE  records[k].state = "executed"
  <2>1. records'[key[c]].state = "reserved"
    <3>1. records'[key[c]] = ReservedFor(req[c])
      BY <1>1, ClaimReserves
    <3> QED
      BY <3>1 DEF ReservedFor
  <2>2. k # key[c]
    BY <2>1
  <2> QED
    BY <1>1, <2>2, ClaimReserves
<1>2. ASSUME NEW c \in Caller, Mark(c), records' # records
      PROVE  \/ records[k].state = "executed"
             \/ answer[c] = "success" /\ key[c] = k /\ place[c] = "answered"
  <2>1. place[c] = "answered" /\ answer[c] \in Answer /\ key[c] \in Key
    BY <1>2 DEF Mark
  <2>2. Settled(c, Outcome(answer[c]))
    BY <1>2 DEF Mark
  <2>3. k = key[c] => records'[k].state = Outcome(answer[c])
    BY <2>1, <2>2 DEF Settled
  <2>4. k # key[c] => records'[k] = records[k]
    BY <2>1, <2>2 DEF Settled
  <2>5. Outcome(answer[c]) = "executed" => answer[c] = "success"
    BY <2>1 DEF Answer, Outcome
  <2> QED
    BY <2>1, <2>3, <2>4, <2>5
<1>3. ASSUME NEW c \in Caller, MarkRaised(c), records' # records
      PROVE  records[k].state = "executed"
  <2>1. key[c] \in Key /\ Settled(c, "unknown")
    BY <1>3 DEF MarkRaised
  <2> QED
    BY <2>1 DEF Settled
<1>4. \/ records' = records
      \/ \E c \in Caller : ClaimKey(c) \/ Mark(c) \/ MarkRaised(c)
  BY DEF LedgerNext, Goes, Check, Refused, Transport, CrashCallers, ledgerVars
<1> QED
  BY <1>1, <1>2, <1>3, <1>4 DEF Mark

LEMMA AnswersTrueStep ==
  ASSUME LedgerTyped, AnswersTrue, [LedgerNext]_ledgerVars PROVE AnswersTrue'
<1> SUFFICES ASSUME NEW c \in Caller,
                    place'[c] = "answered", answer'[c] = "success"
             PROVE  \E i \in DOMAIN calls' :
                      calls'[i].key = key'[c] /\ calls'[i].effect
  BY DEF AnswersTrue
<1> USE DEF LedgerTyped, LedgerTypeOK
<1>1. CASE place[c] = "answered" /\ answer[c] = "success" /\ key'[c] = key[c]
  <2>1. PICK i \in DOMAIN calls : calls[i].key = key[c] /\ calls[i].effect
    BY <1>1 DEF AnswersTrue
  <2> QED
    BY <1>1, <2>1, CallsGrow
<1>2. ASSUME NEW a \in Answer, NEW b \in BOOLEAN, Transport(c, a, b)
      PROVE  \E i \in DOMAIN calls' :
               calls'[i].key = key'[c] /\ calls'[i].effect
  <2>1. a = "success" /\ b /\ key' = key
    BY <1>2 DEF Transport
  <2>2. calls \in Seq(Call)
    OBVIOUS
  <2>3. /\ Len(calls) + 1 \in DOMAIN calls'
        /\ calls'[Len(calls) + 1] = [by |-> c, key |-> key[c], req |-> req[c],
                                     effect |-> b, answer |-> a]
    BY <1>2, <2>2 DEF Transport
  <2> QED
    BY <2>1, <2>3
<1>3. \/ place[c] = "answered" /\ answer[c] = "success" /\ key'[c] = key[c]
      \/ \E a \in Answer, b \in BOOLEAN : Transport(c, a, b)
  <2>1. CASE UNCHANGED ledgerVars
    BY <2>1 DEF ledgerVars, caller
  <2>2. ASSUME NEW d \in Caller, Goes(d) \/ \E k \in Key, r \in Request : Check(d, k, r)
        PROVE  \/ place[c] = "answered" /\ answer[c] = "success" /\ key'[c] = key[c]
               \/ \E a \in Answer, b \in BOOLEAN : Transport(c, a, b)
    BY <2>2 DEF Goes, Check, ClaimKey, Refused, Transport, Mark,
                MarkRaised, Returns, At
  <2>3. ASSUME NEW p \in Process, CrashCallers(p)
        PROVE  place[c] = "answered" /\ answer[c] = "success" /\ key'[c] = key[c]
    BY <2>3 DEF CrashCallers
  <2> QED
    BY <2>1, <2>2, <2>3 DEF LedgerNext
<1> QED
  BY <1>1, <1>2, <1>3

LEMMA ExecutedStep ==
  ASSUME LedgerTyped, AnswersTrue, ExecutedHappened, [LedgerNext]_ledgerVars
  PROVE  ExecutedHappened'
<1> SUFFICES ASSUME NEW k \in Key, records'[k].state = "executed"
             PROVE  \E i \in DOMAIN calls' :
                      calls'[i].key = k /\ calls'[i].effect
  BY DEF ExecutedHappened
<1>1. PICK i \in DOMAIN calls : calls[i].key = k /\ calls[i].effect
  BY ExecutedComes DEF AnswersTrue, ExecutedHappened
<1> QED
  BY <1>1, CallsGrow

THEOREM LedgerTypes == LedgerSpec => []LedgerTypeOK
<1>1. LedgerInv => LedgerTypeOK
  BY DEF LedgerInv, LedgerTyped
<1> QED
  BY <1>1, LedgerInvariant, PTL

\* However many callers, processes, crashes and failed writes there are: a key
\* of the ledger is called once.
THEOREM AtMostOneCallPerKey == LedgerSpec => []OneCallPerKey
<1>1. LedgerInv => OneCallPerKey
  BY DEF LedgerInv, Excluded
<1> QED
  BY <1>1, LedgerInvariant, PTL

\* A record that says executed is about a call that took effect.
THEOREM ExecutedIsTrue == LedgerSpec => []ExecutedHappened
<1> DEFINE J == LedgerTyped /\ AnswersTrue /\ ExecutedHappened
<1>1. LedgerInit => J
  <2>1. LedgerInit => AnswersTrue /\ ExecutedHappened
    BY DEF LedgerInit, AnswersTrue, ExecutedHappened, NoRecord
  <2> QED
    BY <2>1, LedgerTypedInit
<1>2. J /\ [LedgerNext]_ledgerVars => J'
  BY LedgerTypedStep, AnswersTrueStep, ExecutedStep
<1> QED
  BY <1>1, <1>2, PTL DEF LedgerSpec

\* The record of a key is about the request it was called with.
THEOREM RecordsBelong == LedgerSpec => []RecordIsOfCall
<1>1. LedgerInv => RecordIsOfCall
  BY DEF LedgerInv, Excluded
<1> QED
  BY <1>1, LedgerInvariant, PTL

-----------------------------------------------------------------------------
(* The digital runtime.                                                    *)

-----------------------------------------------------------------------------
\* Lemmas on numbers and lists.

LEMMA LeastNatural ==
  ASSUME NEW T \in SUBSET Nat, T # {}
  PROVE  \E x \in T : \A y \in T : x <= y
<1>1. PICK x \in T : \A y \in T : <<y, x>> \notin OpToRel(<, Nat)
  BY NatLessThanWellFounded, WFMin
<1>2. \A n, m \in Nat : n < m => <<n, m>> \in OpToRel(<, Nat)
  <2>1. OpToRel(<, Nat) = {pair \in Nat \X Nat : pair[1] < pair[2]}
    BY Zenon DEF OpToRel
  <2>2. \A n, m \in Nat : n < m => <<n, m>> \in {pair \in Nat \X Nat : pair[1] < pair[2]}
    OBVIOUS
  <2> QED BY <2>1, <2>2, Zenon
<1>3. \A y \in T : ~(y < x)
  BY <1>1, <1>2, Zenon
<1> QED BY <1>3

\* A list, of whatever it holds.
Listed(s) == s \in Seq({s[i] : i \in DOMAIN s})

LEMMA Appending ==
  ASSUME NEW s, Listed(s), NEW x, NEW t, t = Append(s, x)
  PROVE  /\ Listed(t) /\ Len(s) \in Nat /\ DOMAIN s = 1..Len(s)
         /\ Len(t) = Len(s) + 1 /\ DOMAIN t = 1..(Len(s) + 1)
         /\ t[Len(s) + 1] = x /\ \A i \in 1..Len(s) : t[i] = s[i]
<1> DEFINE S == {s[i] : i \in DOMAIN s}
<1>1. s \in Seq(S \cup {x}) /\ x \in S \cup {x}
  BY DEF Listed
<1> HIDE DEF S
<1>2. /\ t \in Seq(S \cup {x}) /\ Len(s) \in Nat /\ DOMAIN s = 1..Len(s)
      /\ Len(t) = Len(s) + 1 /\ DOMAIN t = 1..(Len(s) + 1)
      /\ t[Len(s) + 1] = x /\ \A i \in 1..Len(s) : t[i] = s[i]
  BY <1>1
<1>3. Listed(t)
  BY <1>2 DEF Listed
<1> QED BY <1>2, <1>3

-----------------------------------------------------------------------------
\* The order of the capabilities in a plan.

LEMMA RanksAreTaken ==
  ASSUME NEW cs \in SUBSET Capabilities, NEW i \in 1..Cardinality(cs)
  PROVE  \E c \in cs : Cardinality(UpTo(cs, c)) = i
<1> DEFINE n == Cardinality(cs)
           rank == [c \in cs |-> Cardinality(UpTo(cs, c))]
<1>1. IsFiniteSet(cs) /\ n \in Nat
  BY DigitalAssumption, FS_Subset, FS_CardinalityType
<1>2. ASSUME NEW c \in cs
      PROVE  /\ UpTo(cs, c) \subseteq cs /\ c \in UpTo(cs, c) /\ IsFiniteSet(UpTo(cs, c))
             /\ Cardinality(UpTo(cs, c)) \in 1..n
  <2>1. UpTo(cs, c) \subseteq cs /\ c \in UpTo(cs, c)
    <3>1. Catalog[c].place \in Int
      BY DigitalAssumption
    <3> QED BY <3>1 DEF UpTo
  <2>2. /\ IsFiniteSet(UpTo(cs, c)) /\ Cardinality(UpTo(cs, c)) <= n
        /\ Cardinality(UpTo(cs, c)) \in Nat
    BY <1>1, <2>1, FS_Subset, FS_CardinalityType
  <2>3. Cardinality(UpTo(cs, c)) # 0
    BY <2>1, <2>2, FS_EmptySet
  <2> QED BY <1>1, <2>1, <2>2, <2>3
<1>3. ASSUME NEW c \in cs, NEW d \in cs, Catalog[c].place < Catalog[d].place
      PROVE  rank[c] # rank[d]
  <2>1. UpTo(cs, c) \in SUBSET UpTo(cs, d) /\ d \in UpTo(cs, d) /\ d \notin UpTo(cs, c)
    BY <1>3, DigitalAssumption DEF UpTo
  <2>2. Cardinality(UpTo(cs, c)) = Cardinality(UpTo(cs, d)) => UpTo(cs, d) = UpTo(cs, c)
    BY <1>2, <2>1, FS_Subset
  <2> QED BY <2>1, <2>2
<1>4. rank \in Injection(cs, 1..n)
  <2>1. rank \in [cs -> 1..n]
    BY <1>2
  <2>2. ASSUME NEW c \in cs, NEW d \in cs, rank[c] = rank[d] PROVE c = d
    <3>1. ~(Catalog[c].place < Catalog[d].place) /\ ~(Catalog[d].place < Catalog[c].place)
      BY <1>3, <2>2
    <3>2. Catalog[c].place \in Int /\ Catalog[d].place \in Int
      BY DigitalAssumption
    <3>3. Catalog[c].place = Catalog[d].place
      BY <3>1, <3>2
    <3> QED BY <3>3, DigitalAssumption
  <2> QED BY <2>1, <2>2 DEF Injection, IsInjective
<1>5. IsFiniteSet(1..n) /\ Cardinality(1..n) = n
  BY <1>1, FS_Interval
<1>6. rank \in Surjection(cs, 1..n)
  BY <1>1, <1>4, <1>5, FS_Injection
<1> QED BY <1>6 DEF Surjection

LEMMA InOrderSteps ==
  ASSUME NEW cs \in SUBSET Capabilities
  PROVE  InOrder(cs) \in Seq(cs)
<1>1. Cardinality(cs) \in Nat
  BY DigitalAssumption, FS_Subset, FS_CardinalityType
<1>2. InOrder(cs) \in [1..Cardinality(cs) -> cs]
  BY RanksAreTaken DEF InOrder
<1> QED BY <1>1, <1>2

LEMMA RouteSelects ==
  ASSUME NEW goal
  PROVE  /\ Route(goal) \subseteq Capabilities
         /\ \A c \in Route(goal) : ReadOnly(c) \/ Catalog[c].words \cap goal # {}
  BY DigitalAssumption DEF Route, Matched, BySignal, ByDefault, InDomain

\* What is planned of a goal: side effects only where a word of the goal calls for
\* them, and executable only if a person approved.
Earnest(plan, approved) ==
  /\ plan.steps \in Seq(Capabilities)
  /\ \A i \in DOMAIN plan.steps :
        ~ReadOnly(plan.steps[i]) =>
            approved /\ Catalog[plan.steps[i]].words \cap plan.goal # {}

LEMMA PlansAreEarnest ==
  ASSUME NEW r \in GoalRequest, PlanOf[r].executable
  PROVE  Earnest(PlanOf[r], r.approved)
<1> DEFINE plan == PlanOf[r]
           selected == Route(r.goal)
<1>1. plan.goal = r.goal /\ plan.steps = InOrder(selected)
  BY DEF PlanOf
<1>2. \E granted : \A c \in selected : Authorized(c, granted, r.approved, r.sandbox)
  BY DEF PlanOf
<1> HIDE DEF plan
<1>3. plan.steps \in Seq(selected)
  BY <1>1, InOrderSteps, RouteSelects
<1>4. \A c \in selected : ~ReadOnly(c) => r.approved
  BY <1>2 DEF Authorized, RequiresApproval
<1>5. \A i \in DOMAIN plan.steps : plan.steps[i] \in selected
  BY <1>3
<1>6. plan.steps \in Seq(Capabilities)
  BY <1>3, RouteSelects
<1>7. Earnest(plan, r.approved)
  BY <1>1, <1>4, <1>5, <1>6, RouteSelects DEF Earnest
<1> QED BY <1>7 DEF plan
-----------------------------------------------------------------------------
\* The inductive invariant of the digital runtime.

HasPlan == Running \/ run.state = "verified"

\* The run works on an earnest plan under the digest of its own request.
Planned ==
  /\ run.done \subseteq DOMAIN run.plan.steps
  /\ \E approved \in BOOLEAN :
        /\ run.authorization = AuthorizationDigest(run.plan, approved, run.inputs)
        /\ Earnest(run.plan, approved)

\* The first step that is not done.
Stands(r, at) == /\ at \in 1..(Len(r.plan.steps) + 1) /\ at \notin r.done
                 /\ \A j \in 1..(at - 1) : j \in r.done

RunSound ==
  /\ DOMAIN run = DOMAIN NoRun
  /\ Listed(audit) /\ Listed(attempts) /\ freshCalls \in Nat
  /\ HasPlan => Planned
  /\ Running => chainValid
  /\ run.state = "stepping" => Stands(run, run.at)
  /\ run.state = "verified" => DOMAIN run.plan.steps \subseteq run.done
  /\ run.state \in {"attempting", "tried", "recorded"} => run.at \in DOMAIN run.plan.steps
  /\ run.state \in {"attempting", "tried"} => Unfinished(run.execution)

\* Every step taken for done, by the run or by the checkpoint, has its verified
\* attempt.
Earned(r, i) == \E k \in DOMAIN attempts : SameWork(k, r, i) /\ attempts[k].verified
Saving == [execution |-> checkpoint.execution, plan |-> checkpoint.plan,
           inputs |-> checkpoint.authorization[4]]
WorkEarned == /\ \A i \in checkpoint.completed : Earned(Saving, i)
              /\ HasPlan => \A i \in run.done : Earned(run, i)

\* As long as nobody has called anew, an interrupted execution is unfinished in the
\* audit and no run of it goes on.
CutsStand ==
  \A cut \in interruptions :
     /\ cut.length \in Nat /\ cut.length <= Len(attempts)
     /\ cut.fresh \in Nat /\ cut.fresh <= freshCalls
     /\ cut.fresh = freshCalls =>
           Unfinished(cut.execution) /\ (Running => run.execution # cut.execution)

DigitalInv == /\ RunSound /\ WorkEarned /\ CutsStand
              /\ WritesAreAskedFor /\ InterruptionsNeedAFreshCall
LEMMA StandsNext ==
  ASSUME NEW r, r.plan.steps \in Seq(Capabilities), r.done \subseteq DOMAIN r.plan.steps
  PROVE  Stands(r, NextStep(r))
<1> DEFINE n == Len(r.plan.steps)
           T == {i \in 1..(n + 1) : i \notin r.done}
<1>1. n \in Nat /\ r.done \subseteq 1..n
  OBVIOUS
<1> HIDE DEF n
<1>2. n + 1 \in T /\ T \in SUBSET Nat
  BY <1>1
<1>3. PICK i \in T : \A j \in T : i <= j
  BY <1>2, LeastNatural
<1>4. i \in 1..(n + 1) /\ i \notin r.done /\ \A j \in 1..(i - 1) : j \in r.done
  <2>1. i \in 1..(n + 1) /\ i \notin r.done
    OBVIOUS
  <2>2. ASSUME NEW j \in 1..(i - 1) PROVE j \in r.done
    <3>1. j \in 1..(n + 1) /\ ~(i <= j)
      BY <1>1, <2>1
    <3> QED BY <1>3, <3>1
  <2> QED BY <2>1, <2>2
<1> QED BY <1>4 DEF n, NextStep, Stands

\* A record of another execution, or one that is no end state, leaves the execution
\* unfinished.
LEMMA StaysUnfinished ==
  ASSUME Listed(audit), NEW record, audit' = Append(audit, record), NEW e,
         IF record.execution = e THEN record.state \notin EndStates ELSE Unfinished(e)
  PROVE  Unfinished(e)'
<1> DEFINE n == Len(audit)
<1>1. /\ n \in Nat /\ DOMAIN audit = 1..n /\ DOMAIN audit' = 1..(n + 1)
      /\ audit'[n + 1] = record /\ \A i \in 1..n : audit'[i] = audit[i]
  BY Appending
<1> HIDE DEF n
<1>2. CASE record.execution = e
  <2>1. n + 1 \in RecordsOf(e)' /\ \A j \in RecordsOf(e)' : j <= n + 1
    BY <1>1, <1>2 DEF RecordsOf
  <2> QED BY <1>1, <1>2, <2>1 DEF Unfinished
<1>3. CASE record.execution # e
  <2>1. RecordsOf(e)' = RecordsOf(e) /\ RecordsOf(e) \subseteq 1..n
    BY <1>1, <1>3 DEF RecordsOf
  <2>2. PICK i \in RecordsOf(e) : /\ \A j \in RecordsOf(e) : j <= i
                                  /\ audit[i].state \notin EndStates
    BY <1>3 DEF Unfinished
  <2>3. audit'[i].state \notin EndStates
    BY <1>1, <2>1, <2>2
  <2> QED BY <2>1, <2>2, <2>3 DEF Unfinished
<1> QED BY <1>2, <1>3

-----------------------------------------------------------------------------
\* What the calls do.

\* The run as a call starts it.
StartedRun(e, request, inputs, resume) ==
  LET plan == PlanOf[request]
  IN  /\ chainValid /\ plan.executable /\ ~(resume /\ Unfinished(e))
      /\ UNCHANGED audit /\ DOMAIN run' = DOMAIN NoRun
      /\ run'.execution = e /\ run'.resume = resume /\ run'.plan = plan
      /\ run'.inputs = inputs /\ run'.state = "stepping"
      /\ run'.authorization = AuthorizationDigest(plan, request.approved, inputs)
      /\ run'.done = IF resume THEN Resumable(e, plan, run'.authorization) ELSE {}
      /\ Earnest(plan, request.approved) /\ Stands(run', run'.at)

\* A refused call leaves at most a record, and an unfinished execution unfinished.
RefusedRun(e, resume) ==
  /\ DOMAIN run' = DOMAIN NoRun
  /\ run'.state \in (EndStates \ {"verified"}) \cup {"recovery_required"}
  /\ \/ UNCHANGED audit
     \/ \E record : /\ audit' = Append(audit, record) /\ record.execution = e
                    /\ resume /\ Unfinished(e) => record.state \notin EndStates

LEMMA CallOutcome ==
  ASSUME NEW e \in Executions, NEW request \in GoalRequest, NEW inputs \in DOMAIN ValidFor,
         NEW resume \in BOOLEAN, RunCall(e, request, inputs, resume)
  PROVE  \/ StartedRun(e, request, inputs, resume)
         \/ RefusedRun(e, resume)
<1> DEFINE plan == PlanOf[request]
           authorization == AuthorizationDigest(plan, request.approved, inputs)
           called == [NoRun EXCEPT !.execution = e, !.resume = resume]
           done == IF resume THEN Resumable(e, plan, authorization) ELSE {}
           started == [called EXCEPT !.plan = plan, !.authorization = authorization,
                         !.inputs = inputs, !.state = "stepping", !.done = done]
<1>1. CASE ~chainValid
  <2>1. EndsRun(called, "run_blocked", "blocked")
    BY <1>1 DEF RunCall
  <2> QED BY <1>1, <2>1 DEF EndsRun, Appended, RefusedRun, EndStates, NoRun
<1>2. CASE chainValid /\ resume /\ Unfinished(e)
  <2>1. EndsRun(called, "run_blocked", "recovery_required")
    BY <1>2 DEF RunCall
  <2>2. /\ audit' = Append(audit, Event(e, "run_blocked", 0, "recovery_required"))
        /\ DOMAIN run' = DOMAIN NoRun /\ run'.state = "recovery_required"
    BY <1>2, <2>1 DEF EndsRun, Appended, NoRun
  <2> QED BY <2>2 DEF RefusedRun, EndStates, Event
<1>3. CASE chainValid /\ ~(resume /\ Unfinished(e)) /\ ~plan.executable
  <2>1. PICK state \in {"requires_approval", "blocked"} : EndsRun(called, "plan_blocked", state)
    BY <1>3 DEF RunCall
  <2>2. /\ audit' = Append(audit, Event(e, "plan_blocked", 0, state))
        /\ DOMAIN run' = DOMAIN NoRun /\ run'.state = state
    BY <1>3, <2>1 DEF EndsRun, Appended, NoRun
  <2> QED BY <1>3, <2>2 DEF RefusedRun, EndStates, Event
<1>4. CASE chainValid /\ ~(resume /\ Unfinished(e)) /\ plan.executable
  <2>1. run' = [started EXCEPT !.at = NextStep(started)] /\ UNCHANGED audit
    BY <1>4 DEF RunCall
  <2>2. Earnest(plan, request.approved)
    BY <1>4, PlansAreEarnest
  <2>3. done \subseteq DOMAIN plan.steps
    BY DEF Resumable
  <2>4. /\ DOMAIN started = DOMAIN NoRun /\ started.plan = plan /\ started.done = done
        /\ started.execution = e /\ started.resume = resume /\ started.inputs = inputs
        /\ started.state = "stepping" /\ started.authorization = authorization
    BY DEF NoRun
  <2> HIDE DEF started, plan, authorization, done
  <2>5. Stands(started, NextStep(started))
    <3>1. /\ started.plan.steps \in Seq(Capabilities)
          /\ started.done \subseteq DOMAIN started.plan.steps
      BY <2>2, <2>3, <2>4 DEF Earnest
    <3> QED BY <3>1, StandsNext, Zenon
  <2>6. /\ DOMAIN run' = DOMAIN NoRun /\ run'.plan = plan /\ run'.done = done
        /\ run'.execution = e /\ run'.resume = resume /\ run'.inputs = inputs
        /\ run'.state = "stepping" /\ run'.authorization = authorization
        /\ run'.at = NextStep(started)
    BY <2>1, <2>4 DEF NoRun
  <2>7. Stands(run', run'.at)
    BY <2>4, <2>5, <2>6 DEF Stands
  <2> QED BY <1>4, <2>1, <2>2, <2>6, <2>7 DEF StartedRun, plan, authorization, done
<1> QED BY <1>1, <1>2, <1>3, <1>4
\* A record that ends a run: the run is over and not verified.
LEMMA RunEnds ==
  ASSUME RunSound, Running, NEW event, NEW state \in EndStates, EndsRun(run, event, state)
  PROVE  /\ audit' = Append(audit, Event(run.execution, event, 0, state))
         /\ Listed(audit)' /\ DOMAIN run' = DOMAIN NoRun /\ run'.state = state
         /\ run'.plan = run.plan /\ run'.done = run.done /\ run'.execution = run.execution
         /\ run'.inputs = run.inputs /\ run'.authorization = run.authorization /\ ~Running'
<1>1. /\ audit' = Append(audit, Event(run.execution, event, 0, state))
      /\ run' = [run EXCEPT !.state = state] /\ "state" \in DOMAIN run
  BY DEF EndsRun, Appended, RunSound, NoRun
<1>2. Listed(audit)'
  BY <1>1, Appending DEF RunSound
<1>3. /\ DOMAIN run' = DOMAIN NoRun /\ run'.state = state
      /\ run'.plan = run.plan /\ run'.done = run.done /\ run'.execution = run.execution
      /\ run'.inputs = run.inputs /\ run'.authorization = run.authorization
  BY <1>1 DEF RunSound, NoRun
<1> QED BY <1>1, <1>2, <1>3 DEF Running, EndStates

-----------------------------------------------------------------------------
\* The run stays sound.

LEMMA SoundCall ==
  ASSUME RunSound, NEW e \in Executions, NEW request \in GoalRequest,
         NEW inputs \in DOMAIN ValidFor, NEW resume \in BOOLEAN,
         RunCall(e, request, inputs, resume)
  PROVE  RunSound'
<1>1. /\ UNCHANGED <<chainValid, attempts>> /\ freshCalls' \in Nat
  BY DEF RunCall, RunSound
<1>2. CASE StartedRun(e, request, inputs, resume)
  <2>1. /\ run'.state = "stepping" /\ chainValid' /\ UNCHANGED audit
        /\ Stands(run', run'.at) /\ DOMAIN run' = DOMAIN NoRun
    BY <1>1, <1>2 DEF StartedRun
  <2>2. run'.done \subseteq DOMAIN run'.plan.steps
    BY <1>2 DEF StartedRun, Resumable
  <2>3. Planned'
    <3>1. request.approved \in BOOLEAN
      BY DEF GoalRequest
    <3>2. /\ run'.authorization = AuthorizationDigest(run'.plan, request.approved, run'.inputs)
          /\ Earnest(run'.plan, request.approved)
      BY <1>2 DEF StartedRun
    <3> QED BY <2>2, <3>1, <3>2 DEF Planned, AuthorizationDigest, Earnest, ReadOnly
  <2> QED BY <1>1, <2>1, <2>3 DEF RunSound, Stands
<1>3. CASE RefusedRun(e, resume)
  <2>1. Listed(audit)'
    BY <1>3, Appending DEF RefusedRun, RunSound
  <2>2. /\ DOMAIN run' = DOMAIN NoRun
        /\ run'.state \in (EndStates \ {"verified"}) \cup {"recovery_required"}
    BY <1>3 DEF RefusedRun
  <2> QED BY <1>1, <2>1, <2>2 DEF RunSound, HasPlan, Running, EndStates
<1> QED BY <1>2, <1>3, CallOutcome

LEMMA SoundBegin == RunSound /\ BeginStep => RunSound'
<1> SUFFICES ASSUME RunSound, BeginStep PROVE RunSound'
  OBVIOUS
<1>1. /\ UNCHANGED <<chainValid, attempts, freshCalls>> /\ run.state = "stepping"
      /\ Running /\ Planned /\ chainValid /\ StepsLeft /\ Stands(run, run.at)
  BY DEF BeginStep, RunSound, HasPlan, Running
<1>2. CASE StepToRun \in ValidFor[run.inputs]
  <2>1. /\ audit' = Append(audit, Event(run.execution, "capability_started", run.at, "running"))
        /\ run' = [run EXCEPT !.state = "attempting", !.attempt = 0]
    BY <1>1, <1>2 DEF BeginStep, Appended
  <2>2. /\ DOMAIN run' = DOMAIN NoRun /\ run'.state = "attempting"
        /\ run'.plan = run.plan /\ run'.done = run.done /\ run'.execution = run.execution
        /\ run'.inputs = run.inputs /\ run'.authorization = run.authorization
        /\ run'.at = run.at
    BY <2>1 DEF RunSound, NoRun
  <2>3. Listed(audit)'
    BY <2>1, Appending DEF RunSound
  <2>4. Unfinished(run.execution)'
    BY <2>1, StaysUnfinished DEF RunSound, Event, EndStates
  <2>5. Planned'
    BY <1>1, <2>2 DEF Planned
  <2>6. run.at \in DOMAIN run.plan.steps
    BY <1>1 DEF Stands, StepsLeft, Planned, Earnest
  <2> QED BY <1>1, <2>2, <2>3, <2>4, <2>5, <2>6 DEF RunSound, HasPlan, Running, Unfinished, RecordsOf
<1>3. CASE StepToRun \notin ValidFor[run.inputs]
  <2>1. EndsRun(run, "step_blocked", "blocked")
    BY <1>3 DEF BeginStep
  <2>2. DOMAIN run' = DOMAIN NoRun /\ run'.state = "blocked" /\ Listed(audit)'
    BY <1>1, <2>1, RunEnds DEF EndStates
  <2> QED BY <1>1, <2>2 DEF RunSound, HasPlan, Running
<1> QED BY <1>2, <1>3

LEMMA SoundAttempt ==
  ASSUME RunSound, NEW succeeds \in BOOLEAN, NEW evident \in BOOLEAN,
         NEW observed \in BOOLEAN, Attempt(succeeds, evident, observed)
  PROVE  RunSound'
<1>1. /\ UNCHANGED <<audit, chainValid, freshCalls>> /\ run.state = "attempting"
      /\ Planned /\ chainValid /\ run.at \in DOMAIN run.plan.steps /\ Unfinished(run.execution)
  BY DEF Attempt, RunSound, HasPlan, Running
<1>2. /\ DOMAIN run' = DOMAIN NoRun /\ run'.state \in {"tried", "attempting"}
      /\ run'.plan = run.plan /\ run'.execution = run.execution
      /\ run'.done \in {run.done \cup {run.at}, run.done} /\ run'.at = run.at
      /\ run'.inputs = run.inputs /\ run'.authorization = run.authorization
  BY DEF Attempt, RunSound, NoRun
<1>3. Listed(attempts)'
  <2>1. \E record : attempts' = Append(attempts, record)
    BY Zenon DEF Attempt
  <2> QED BY <2>1, Appending DEF RunSound
<1>4. Planned'
  BY <1>1, <1>2 DEF Planned
<1> QED BY <1>1, <1>2, <1>3, <1>4 DEF RunSound, HasPlan, Running, Unfinished, RecordsOf

LEMMA SoundRecord == RunSound /\ RecordResult => RunSound'
<1> SUFFICES ASSUME RunSound, RecordResult PROVE RunSound'
  OBVIOUS
<1>1. /\ UNCHANGED <<chainValid, attempts, freshCalls>> /\ run.state = "tried" /\ Planned
      /\ chainValid /\ run.at \in DOMAIN run.plan.steps
  BY DEF RecordResult, RunSound, HasPlan, Running
<1>2. /\ DOMAIN run' = DOMAIN NoRun /\ run'.state = "recorded"
      /\ run'.plan = run.plan /\ run'.done = run.done /\ run'.execution = run.execution
      /\ run'.inputs = run.inputs /\ run'.authorization = run.authorization
      /\ run'.at = run.at
  BY DEF RecordResult, RunSound, NoRun
<1>3. Listed(audit)'
  BY <1>1, Appending DEF RunSound, RecordResult, Appended
<1>4. Planned'
  BY <1>1, <1>2 DEF Planned
<1> QED BY <1>1, <1>2, <1>3, <1>4 DEF RunSound, HasPlan, Running

LEMMA SoundSave == RunSound /\ SaveProgress => RunSound'
<1> SUFFICES ASSUME RunSound, SaveProgress PROVE RunSound'
  OBVIOUS
<1>1. /\ UNCHANGED <<chainValid, attempts, freshCalls>> /\ run.state = "recorded" /\ Planned
      /\ chainValid /\ Running
  BY DEF SaveProgress, RunSound, HasPlan, Running
<1>2. CASE run.at \in run.done
  <2>1. run' = [run EXCEPT !.at = NextStep(run), !.state = "stepping"] /\ UNCHANGED audit
    BY <1>2 DEF SaveProgress
  <2>2. /\ DOMAIN run' = DOMAIN NoRun /\ run'.state = "stepping" /\ run'.at = NextStep(run)
        /\ run'.plan = run.plan /\ run'.done = run.done
        /\ run'.inputs = run.inputs /\ run'.authorization = run.authorization
    BY <2>1 DEF RunSound, NoRun
  <2>3. Stands(run, NextStep(run))
    BY <1>1, StandsNext DEF Planned, Earnest
  <2>4. Planned'
    BY <1>1, <2>2 DEF Planned
  <2> QED BY <1>1, <2>1, <2>2, <2>3, <2>4 DEF RunSound, HasPlan, Running, Stands
<1>3. CASE run.at \notin run.done
  <2>1. EndsRun(run, "run_failed", "failed")
    BY <1>3 DEF SaveProgress
  <2>2. DOMAIN run' = DOMAIN NoRun /\ run'.state = "failed" /\ Listed(audit)'
    BY <1>1, <2>1, RunEnds DEF EndStates
  <2> QED BY <1>1, <2>2 DEF RunSound, HasPlan, Running
<1> QED BY <1>2, <1>3

LEMMA SoundFinish == RunSound /\ FinishRun => RunSound'
<1> SUFFICES ASSUME RunSound, FinishRun PROVE RunSound'
  OBVIOUS
<1>1. /\ UNCHANGED <<chainValid, attempts, freshCalls>> /\ run.state = "stepping" /\ Planned
      /\ chainValid /\ Running /\ Stands(run, run.at) /\ ~StepsLeft
  BY DEF FinishRun, RunSound, HasPlan, Running
<1>2. /\ DOMAIN run' = DOMAIN NoRun /\ run'.state = "verified" /\ Listed(audit)'
      /\ run'.plan = run.plan /\ run'.done = run.done /\ run'.inputs = run.inputs
      /\ run'.authorization = run.authorization /\ ~Running'
  BY <1>1, RunEnds DEF FinishRun, EndStates
<1>3. Planned'
  BY <1>1, <1>2 DEF Planned
<1>4. DOMAIN run.plan.steps \subseteq run.done
  <2>1. PICK n \in Nat : n = Len(run.plan.steps) /\ DOMAIN run.plan.steps = 1..n
    BY <1>1 DEF Planned, Earnest
  <2>2. run.at = n + 1
    BY <1>1, <2>1 DEF Stands, StepsLeft
  <2> QED BY <1>1, <2>1, <2>2 DEF Stands
<1> QED BY <1>1, <1>2, <1>3, <1>4 DEF RunSound, HasPlan, Running

LEMMA SoundCrash == RunSound /\ CrashRun => RunSound'
  BY DEF RunSound, CrashRun, NoRun, HasPlan, Running

LEMMA SoundDamage == RunSound /\ DamageAudit => RunSound'
  BY DEF RunSound, DamageAudit, HasPlan, Running, Planned, Stands, Unfinished, RecordsOf
LEMMA SoundStep == RunSound /\ [DigitalNext]_digitalVars => RunSound'
<1> SUFFICES ASSUME RunSound, [DigitalNext]_digitalVars PROVE RunSound'
  OBVIOUS
<1>1. CASE UNCHANGED digitalVars
  BY <1>1 DEF digitalVars, RunSound, HasPlan, Running, Planned, Stands, Unfinished, RecordsOf
<1>2. CASE DigitalNext
  BY <1>2, SoundCall, SoundBegin, SoundAttempt, SoundRecord, SoundSave, SoundFinish,
     SoundCrash, SoundDamage DEF DigitalNext
<1> QED BY <1>1, <1>2

-----------------------------------------------------------------------------
\* What an attempt adds to the history.

Attempted(succeeds, evident, observed) ==
  [execution |-> run.execution, capability |-> StepToRun, step |-> run.at,
   plan |-> run.plan, approved |-> run.authorization[2], inputs |-> run.inputs,
   resume |-> run.resume, fresh |-> freshCalls, verified |-> succeeds /\ evident /\ observed]

LEMMA AttemptAppends ==
  ASSUME RunSound, NEW succeeds \in BOOLEAN, NEW evident \in BOOLEAN,
         NEW observed \in BOOLEAN, Attempt(succeeds, evident, observed)
  PROVE  /\ attempts' = Append(attempts, Attempted(succeeds, evident, observed))
         /\ Len(attempts) \in Nat /\ DOMAIN attempts = 1..Len(attempts)
         /\ Len(attempts') = Len(attempts) + 1 /\ DOMAIN attempts' = 1..(Len(attempts) + 1)
         /\ attempts'[Len(attempts) + 1] = Attempted(succeeds, evident, observed)
         /\ \A k \in 1..Len(attempts) : attempts'[k] = attempts[k]
<1>1. attempts' = Append(attempts, Attempted(succeeds, evident, observed))
  BY DEF Attempt, Attempted
<1> DEFINE record == Attempted(succeeds, evident, observed)
<1> HIDE DEF record
<1>2. attempts' = Append(attempts, record) /\ Listed(attempts)
  BY <1>1 DEF record, RunSound
<1>3. /\ Len(attempts) \in Nat /\ DOMAIN attempts = 1..Len(attempts)
      /\ Len(attempts') = Len(attempts) + 1 /\ DOMAIN attempts' = 1..(Len(attempts) + 1)
      /\ attempts'[Len(attempts) + 1] = record
      /\ \A k \in 1..Len(attempts) : attempts'[k] = attempts[k]
  BY <1>2, Appending
<1> QED BY <1>1, <1>3 DEF record

\* Only an attempt touches the history, and it only adds to it.
LEMMA HistoryStays ==
  ASSUME RunSound, [DigitalNext]_digitalVars
  PROVE  /\ DOMAIN attempts \subseteq DOMAIN attempts'
         /\ \A k \in DOMAIN attempts : attempts'[k] = attempts[k]
         /\ \/ UNCHANGED attempts
            \/ \E succeeds, evident, observed \in BOOLEAN :
                  Attempt(succeeds, evident, observed)
<1>1. ASSUME NEW succeeds \in BOOLEAN, NEW evident \in BOOLEAN, NEW observed \in BOOLEAN,
             Attempt(succeeds, evident, observed)
      PROVE  /\ DOMAIN attempts \subseteq DOMAIN attempts'
             /\ \A k \in DOMAIN attempts : attempts'[k] = attempts[k]
  <2>1. /\ Len(attempts) \in Nat /\ DOMAIN attempts = 1..Len(attempts)
        /\ DOMAIN attempts' = 1..(Len(attempts) + 1)
        /\ \A k \in 1..Len(attempts) : attempts'[k] = attempts[k]
    BY <1>1, AttemptAppends
  <2> QED BY <2>1
<1>2. \/ UNCHANGED attempts
      \/ \E succeeds, evident, observed \in BOOLEAN : Attempt(succeeds, evident, observed)
  <2>1. ASSUME NEW e \in Executions, NEW request \in GoalRequest, NEW inputs \in DOMAIN ValidFor,
               NEW resume \in BOOLEAN, RunCall(e, request, inputs, resume)
        PROVE  UNCHANGED attempts
    BY <2>1 DEF RunCall
  <2>2. ASSUME BeginStep \/ RecordResult \/ SaveProgress \/ FinishRun \/ CrashRun \/ DamageAudit
               \/ UNCHANGED digitalVars
        PROVE  UNCHANGED attempts
    BY <2>2 DEF BeginStep, RecordResult, SaveProgress, FinishRun, CrashRun, DamageAudit,
                digitalVars
  <2> QED BY <2>1, <2>2, Zenon DEF DigitalNext
<1> QED BY <1>1, <1>2

-----------------------------------------------------------------------------
\* Work taken for done was done.

LEMMA EarnedStays ==
  ASSUME RunSound, [DigitalNext]_digitalVars, NEW r, NEW q, NEW i, Earned(r, i),
         q.execution = r.execution, q.plan = r.plan, q.inputs = r.inputs
  PROVE  \E k \in DOMAIN attempts' :
            /\ attempts'[k].execution = q.execution /\ attempts'[k].plan = q.plan
            /\ attempts'[k].inputs = q.inputs /\ attempts'[k].step = i
            /\ attempts'[k].verified
<1>1. PICK k \in DOMAIN attempts : SameWork(k, r, i) /\ attempts[k].verified
  BY DEF Earned
<1>2. k \in DOMAIN attempts' /\ attempts'[k] = attempts[k]
  BY HistoryStays
<1> QED BY <1>1, <1>2 DEF SameWork

\* The run goes on with the same work.
SameRun == /\ run'.execution = run.execution /\ run'.plan = run.plan
           /\ run'.inputs = run.inputs

LEMMA RunKeepsEarned ==
  ASSUME RunSound, [DigitalNext]_digitalVars, WorkEarned, HasPlan, SameRun,
         run'.done = run.done
  PROVE  \A i \in run'.done : Earned(run, i)'
  BY EarnedStays DEF WorkEarned, SameRun, Earned, SameWork

LEMMA SavingKeepsEarned ==
  ASSUME RunSound, [DigitalNext]_digitalVars, WorkEarned, UNCHANGED checkpoint
  PROVE  \A i \in checkpoint'.completed : Earned(Saving, i)'
  BY EarnedStays DEF WorkEarned, Saving, Earned, SameWork

LEMMA SavedEarned ==
  ASSUME RunSound, [DigitalNext]_digitalVars, WorkEarned, Running, Saved
  PROVE  \A i \in checkpoint'.completed : Earned(Saving, i)'
<1>1. Planned /\ \A i \in run.done : Earned(run, i)
  BY DEF RunSound, HasPlan, WorkEarned
<1>2. /\ checkpoint'.execution = run.execution /\ checkpoint'.plan = run.plan
      /\ checkpoint'.authorization = run.authorization /\ checkpoint'.completed = run.done
  BY DEF Saved
<1>3. run.authorization[4] = run.inputs
  BY <1>1 DEF Planned, AuthorizationDigest
<1>4. /\ Saving'.execution = run.execution /\ Saving'.plan = run.plan
      /\ Saving'.inputs = run.inputs
  BY <1>2, <1>3 DEF Saving
<1>5. ASSUME NEW i \in run.done PROVE Earned(Saving, i)'
  <2>1. Earned(run, i)
    BY <1>1
  <2>2. \E k \in DOMAIN attempts' :
           /\ attempts'[k].execution = Saving'.execution /\ attempts'[k].plan = Saving'.plan
           /\ attempts'[k].inputs = Saving'.inputs /\ attempts'[k].step = i
           /\ attempts'[k].verified
    BY <1>4, <2>1, EarnedStays
  <2> QED BY <2>2 DEF Earned, SameWork
<1> QED BY <1>2, <1>5

LEMMA EarnedCall ==
  ASSUME RunSound, WorkEarned, [DigitalNext]_digitalVars,
         NEW e \in Executions, NEW request \in GoalRequest,
         NEW inputs \in DOMAIN ValidFor, NEW resume \in BOOLEAN,
         RunCall(e, request, inputs, resume)
  PROVE  WorkEarned'
<1>1. \A i \in checkpoint'.completed : Earned(Saving, i)'
  BY SavingKeepsEarned DEF RunCall
<1>2. CASE StartedRun(e, request, inputs, resume)
  <2>1. /\ run'.execution = e /\ run'.plan = PlanOf[request] /\ run'.inputs = inputs
        /\ run'.authorization = AuthorizationDigest(PlanOf[request], request.approved, inputs)
        /\ run'.done = IF resume THEN Resumable(e, PlanOf[request], run'.authorization) ELSE {}
    BY <1>2 DEF StartedRun
  <2>2. ASSUME NEW i \in run'.done PROVE Earned(run, i)'
    <3>1. /\ checkpoint.execution = e /\ checkpoint.plan = PlanOf[request]
          /\ checkpoint.authorization = run'.authorization /\ i \in checkpoint.completed
      BY <2>1 DEF Resumable
    <3>2. checkpoint.authorization[4] = inputs
      BY <2>1, <3>1 DEF AuthorizationDigest
    <3>3. Earned(Saving, i)
      BY <3>1 DEF WorkEarned
    <3>4. /\ run'.execution = Saving.execution /\ run'.plan = Saving.plan
          /\ run'.inputs = Saving.inputs
      BY <2>1, <3>1, <3>2 DEF Saving
    <3>5. \E k \in DOMAIN attempts' :
             /\ attempts'[k].execution = run'.execution /\ attempts'[k].plan = run'.plan
             /\ attempts'[k].inputs = run'.inputs /\ attempts'[k].step = i
             /\ attempts'[k].verified
      BY <3>3, <3>4, EarnedStays
    <3> QED BY <3>5 DEF Earned, SameWork
  <2> QED BY <1>1, <2>2 DEF WorkEarned
<1>3. CASE RefusedRun(e, resume)
  <2>1. ~HasPlan'
    BY <1>3 DEF RefusedRun, HasPlan, Running, EndStates
  <2> QED BY <1>1, <2>1 DEF WorkEarned
<1> QED BY <1>2, <1>3, CallOutcome

LEMMA EarnedAttempt ==
  ASSUME RunSound, WorkEarned, [DigitalNext]_digitalVars, NEW succeeds \in BOOLEAN,
         NEW evident \in BOOLEAN, NEW observed \in BOOLEAN,
         Attempt(succeeds, evident, observed)
  PROVE  WorkEarned'
<1> DEFINE verified == succeeds /\ evident /\ observed
           n == Len(attempts) + 1
<1>1. run.state = "attempting" /\ UNCHANGED checkpoint
  BY DEF Attempt
<1>2. HasPlan /\ \A i \in run.done : Earned(run, i)
  BY <1>1 DEF HasPlan, Running, WorkEarned
<1>3. /\ SameRun /\ run'.done = IF verified THEN run.done \cup {run.at} ELSE run.done
  BY DEF Attempt, RunSound, NoRun, SameRun
<1>4. n \in DOMAIN attempts' /\ attempts'[n] = Attempted(succeeds, evident, observed)
  BY AttemptAppends
<1>5. ASSUME NEW i \in run.done PROVE Earned(run, i)'
  BY <1>2, <1>3, EarnedStays DEF SameRun, Earned, SameWork
<1>6. verified => Earned(run, run.at)'
  <2>1. SUFFICES ASSUME verified PROVE Earned(run, run.at)'
    OBVIOUS
  <2>2. /\ attempts'[n].execution = run.execution /\ attempts'[n].plan = run.plan
        /\ attempts'[n].inputs = run.inputs /\ attempts'[n].step = run.at
        /\ attempts'[n].verified = verified
    BY <1>4 DEF Attempted
  <2>3. run'.at = run.at
    BY DEF Attempt, RunSound, NoRun
  <2>4. attempts'[n].verified
    BY <2>1, <2>2
  <2> QED BY <1>3, <1>4, <2>2, <2>3, <2>4 DEF SameRun, Earned, SameWork
<1>7. run'.at = run.at
  BY DEF Attempt, RunSound, NoRun
<1>8. \A i \in run'.done : Earned(run, i)'
  BY <1>3, <1>5, <1>6, <1>7
<1> QED BY <1>1, <1>8, SavingKeepsEarned DEF WorkEarned

\* A run that keeps its work keeps what was earned; a save takes it over.
LEMMA EarnedKept ==
  ASSUME RunSound, WorkEarned, [DigitalNext]_digitalVars,
         (Saved /\ Running) \/ UNCHANGED checkpoint,
         HasPlan' => HasPlan /\ SameRun /\ run'.done = run.done
  PROVE  WorkEarned'
  BY SavedEarned, SavingKeepsEarned, RunKeepsEarned DEF WorkEarned

LEMMA EarnedStep ==
  ASSUME RunSound, WorkEarned, [DigitalNext]_digitalVars
  PROVE  WorkEarned'
<1>1. CASE UNCHANGED digitalVars
  BY <1>1, EarnedKept DEF digitalVars, HasPlan, Running, SameRun
<1>2. CASE BeginStep
  BY <1>2, EarnedKept DEF BeginStep, EndsRun, RunSound, NoRun, SameRun, HasPlan, Running
<1>3. CASE RecordResult
  BY <1>3, EarnedKept DEF RecordResult, RunSound, NoRun, SameRun, HasPlan, Running
<1>4. CASE SaveProgress
  BY <1>4, EarnedKept DEF SaveProgress, EndsRun, RunSound, NoRun, SameRun, HasPlan, Running
<1>5. CASE FinishRun
  BY <1>5, EarnedKept DEF FinishRun, EndsRun, RunSound, NoRun, SameRun, HasPlan, Running
<1>6. CASE CrashRun
  BY <1>6, EarnedKept DEF CrashRun, NoRun, HasPlan, Running
<1>7. CASE DamageAudit
  BY <1>7, EarnedKept DEF DamageAudit, SameRun, HasPlan, Running
<1> QED BY <1>1, <1>2, <1>3, <1>4, <1>5, <1>6, <1>7, EarnedCall, EarnedAttempt DEF DigitalNext
-----------------------------------------------------------------------------
\* An interrupted execution stays interrupted until somebody calls anew.

\* What is needed of a step for a cut to stand: it may end the current call's number,
\* and otherwise it leaves the execution unfinished and no run on it.
LEMMA CutStands ==
  ASSUME NEW cut, NEW n \in Nat, n = Len(attempts), freshCalls \in Nat,
         cut.length \in Nat, cut.length <= n, cut.fresh \in Nat, cut.fresh <= freshCalls,
         Len(attempts') \in Nat, n <= Len(attempts'), freshCalls' \in Nat,
         \/ freshCalls' = freshCalls + 1
         \/ /\ freshCalls' = freshCalls
            /\ cut.fresh = freshCalls =>
                  Unfinished(cut.execution)' /\ (Running' => run'.execution # cut.execution)
  PROVE  /\ cut.length \in Nat /\ cut.length <= Len(attempts')
         /\ cut.fresh \in Nat /\ cut.fresh <= freshCalls'
         /\ cut.fresh = freshCalls' =>
               Unfinished(cut.execution)' /\ (Running' => run'.execution # cut.execution)
  OBVIOUS

LEMMA CutsCall ==
  ASSUME RunSound, CutsStand, NEW e \in Executions, NEW request \in GoalRequest,
         NEW inputs \in DOMAIN ValidFor, NEW resume \in BOOLEAN,
         RunCall(e, request, inputs, resume)
  PROVE  CutsStand'
<1>1. /\ UNCHANGED <<attempts, interruptions>> /\ Len(attempts) \in Nat /\ freshCalls \in Nat
      /\ freshCalls' = freshCalls + (IF resume THEN 0 ELSE 1) /\ ~Running
  BY DEF RunCall, RunSound, Listed
<1>2. ASSUME NEW cut \in interruptions, cut.fresh = freshCalls, resume
      PROVE  Unfinished(cut.execution)' /\ (Running' => run'.execution # cut.execution)
  <2>1. Unfinished(cut.execution)
    BY <1>2 DEF CutsStand
  <2>2. CASE StartedRun(e, request, inputs, resume)
    <3>1. e # cut.execution /\ run'.execution = e /\ UNCHANGED audit
      BY <1>2, <2>1, <2>2 DEF StartedRun
    <3> QED BY <2>1, <3>1 DEF Unfinished, RecordsOf
  <2>3. CASE RefusedRun(e, resume)
    <3>1. ~Running'
      BY <2>3 DEF RefusedRun, Running, EndStates
    <3>2. CASE UNCHANGED audit
      BY <2>1, <3>1, <3>2 DEF Unfinished, RecordsOf
    <3>3. CASE \E record : /\ audit' = Append(audit, record) /\ record.execution = e
                           /\ resume /\ Unfinished(e) => record.state \notin EndStates
      <4>1. PICK record : /\ audit' = Append(audit, record) /\ record.execution = e
                          /\ resume /\ Unfinished(e) => record.state \notin EndStates
        BY <3>3
      <4>2. IF record.execution = cut.execution THEN record.state \notin EndStates
                                                ELSE Unfinished(cut.execution)
        BY <1>2, <2>1, <4>1
      <4> QED BY <3>1, <4>1, <4>2, StaysUnfinished DEF RunSound
    <3> QED BY <2>3, <3>2, <3>3 DEF RefusedRun
  <2> QED BY <2>2, <2>3, CallOutcome
<1>3. ASSUME NEW cut \in interruptions
      PROVE  \/ freshCalls' = freshCalls + 1
             \/ /\ freshCalls' = freshCalls
                /\ cut.fresh = freshCalls =>
                      Unfinished(cut.execution)' /\ (Running' => run'.execution # cut.execution)
  BY <1>1, <1>2
<1> QED BY <1>1, <1>3 DEF CutsStand

\* A step of a run writes of no interrupted execution.
LEMMA CutsRun ==
  ASSUME RunSound, CutsStand, Running, UNCHANGED <<interruptions, freshCalls>>,
         Len(attempts') \in Nat, Len(attempts) <= Len(attempts'),
         run'.execution = run.execution,
         \/ UNCHANGED audit
         \/ \E record : audit' = Append(audit, record) /\ record.execution = run.execution
  PROVE  CutsStand'
<1>1. Len(attempts) \in Nat
  BY DEF RunSound, Listed
<1>2. ASSUME NEW cut \in interruptions, cut.fresh = freshCalls
      PROVE  Unfinished(cut.execution)' /\ run'.execution # cut.execution
  <2>1. Unfinished(cut.execution) /\ run.execution # cut.execution
    BY <1>2 DEF CutsStand
  <2>2. CASE UNCHANGED audit
    BY <2>1, <2>2 DEF Unfinished, RecordsOf
  <2>3. CASE \E record : audit' = Append(audit, record) /\ record.execution = run.execution
    BY <2>1, <2>3, StaysUnfinished DEF RunSound
  <2> QED BY <2>1, <2>2, <2>3
<1> QED BY <1>1, <1>2 DEF CutsStand

LEMMA CutsCrash == RunSound /\ CutsStand /\ CrashRun => CutsStand'
<1> SUFFICES ASSUME RunSound, CutsStand, CrashRun PROVE CutsStand'
  OBVIOUS
<1>1. /\ UNCHANGED <<audit, attempts, freshCalls>> /\ ~Running' /\ freshCalls \in Nat
      /\ Len(attempts) \in Nat
  BY DEF CrashRun, NoRun, Running, RunSound, Listed
<1> DEFINE cutNow == [execution |-> run.execution, fresh |-> freshCalls,
                      length |-> Len(attempts)]
<1>2. \/ interruptions' = interruptions
      \/ /\ interruptions' = interruptions \cup {cutNow}
         /\ run.state \in {"attempting", "tried"}
  BY DEF CrashRun
<1>3. ASSUME NEW cut \in interruptions'
      PROVE  /\ cut.length \in Nat /\ cut.length <= Len(attempts)
             /\ cut.fresh \in Nat /\ cut.fresh <= freshCalls
             /\ cut.fresh = freshCalls => Unfinished(cut.execution)
  <2>1. CASE cut \in interruptions
    BY <2>1 DEF CutsStand
  <2>2. CASE cut = cutNow /\ run.state \in {"attempting", "tried"}
    <3>1. cut.execution = run.execution /\ cut.fresh = freshCalls /\ cut.length = Len(attempts)
      BY <2>2
    <3> QED BY <1>1, <2>2, <3>1 DEF RunSound
  <2> QED BY <1>2, <2>1, <2>2
<1> QED BY <1>1, <1>3 DEF CutsStand, Unfinished, RecordsOf

\* Every record of a run is of its execution.
LEMMA RecordsOfTheRun ==
  ASSUME NEW event, NEW step, NEW state, Appended(Event(run.execution, event, step, state))
  PROVE  \/ UNCHANGED audit
         \/ \E record : audit' = Append(audit, record) /\ record.execution = run.execution
<1>1. Event(run.execution, event, step, state).execution = run.execution
  BY DEF Event
<1> QED BY <1>1, Zenon DEF Appended

LEMMA CutsStep ==
  ASSUME RunSound, CutsStand, [DigitalNext]_digitalVars
  PROVE  CutsStand'
<1> USE DEF Running
<1>1. Len(attempts) \in Nat /\ DOMAIN run = DOMAIN NoRun
  BY DEF RunSound, Listed
<1>2. CASE BeginStep
  <2>1. /\ run.state = "stepping" /\ UNCHANGED <<attempts, interruptions, freshCalls>>
        /\ run'.execution = run.execution
        /\ \E event, step, state : Appended(Event(run.execution, event, step, state))
    BY <1>1, <1>2 DEF BeginStep, EndsRun, NoRun
  <2> QED BY <1>1, <2>1, CutsRun, RecordsOfTheRun
<1>3. ASSUME NEW succeeds \in BOOLEAN, NEW evident \in BOOLEAN, NEW observed \in BOOLEAN,
             Attempt(succeeds, evident, observed)
      PROVE  CutsStand'
  <2>1. Len(attempts') = Len(attempts) + 1
    BY <1>3, AttemptAppends
  <2>2. run'.execution = run.execution /\ UNCHANGED <<audit, interruptions, freshCalls>>
        /\ run.state = "attempting"
    BY <1>1, <1>3 DEF Attempt, NoRun
  <2> QED BY <1>1, <2>1, <2>2, CutsRun
<1>4. CASE RecordResult
  BY <1>1, <1>4, CutsRun DEF RecordResult, Appended, Event, NoRun
<1>5. CASE SaveProgress
  <2>1. /\ run.state = "recorded" /\ UNCHANGED <<attempts, interruptions, freshCalls>>
        /\ run'.execution = run.execution
        /\ \/ UNCHANGED audit
           \/ \E event, step, state : Appended(Event(run.execution, event, step, state))
    BY <1>1, <1>5 DEF SaveProgress, EndsRun, NoRun
  <2> QED BY <1>1, <2>1, CutsRun, RecordsOfTheRun
<1>6. CASE FinishRun
  BY <1>1, <1>6, CutsRun DEF FinishRun, EndsRun, Appended, Event, NoRun
<1>7. CASE DamageAudit \/ UNCHANGED digitalVars
  BY <1>7 DEF DamageAudit, digitalVars, CutsStand, Unfinished, RecordsOf
<1> QED BY <1>2, <1>3, <1>4, <1>5, <1>6, <1>7, CutsCall, CutsCrash DEF DigitalNext

-----------------------------------------------------------------------------
\* The attempts themselves.

LEMMA AttemptsStep ==
  ASSUME DigitalInv, [DigitalNext]_digitalVars
  PROVE  WritesAreAskedFor' /\ InterruptionsNeedAFreshCall'
<1>1. RunSound /\ CutsStand /\ CutsStand'
  BY CutsStep DEF DigitalInv
<1>2. CASE UNCHANGED attempts
  <2>1. WritesAreAskedFor'
    BY <1>2 DEF DigitalInv, WritesAreAskedFor, ReadOnly
  <2>2. ASSUME NEW k \in DOMAIN attempts, NEW cut \in interruptions'
        PROVE  cut \in interruptions \/ k <= cut.length
    <3>1. \/ interruptions' \subseteq interruptions
          \/ interruptions' = interruptions \cup {[execution |-> run.execution,
                                                   fresh |-> freshCalls,
                                                   length |-> Len(attempts)]}
      <4>1. CASE CrashRun
        BY <4>1 DEF CrashRun
      <4>2. CASE ~CrashRun
        <5>1. ASSUME NEW e \in Executions, NEW request \in GoalRequest,
                     NEW inputs \in DOMAIN ValidFor, NEW resume \in BOOLEAN,
                     RunCall(e, request, inputs, resume)
              PROVE  UNCHANGED interruptions
          BY <5>1 DEF RunCall
        <5>2. ASSUME NEW succeeds \in BOOLEAN, NEW evident \in BOOLEAN,
                     NEW observed \in BOOLEAN, Attempt(succeeds, evident, observed)
              PROVE  UNCHANGED interruptions
          BY <5>2 DEF Attempt
        <5>3. ASSUME \/ BeginStep \/ RecordResult \/ SaveProgress \/ FinishRun \/ DamageAudit
                     \/ UNCHANGED digitalVars
              PROVE  UNCHANGED interruptions
          BY <5>3 DEF BeginStep, RecordResult, SaveProgress, FinishRun, DamageAudit,
                      digitalVars
        <5>4. UNCHANGED interruptions
          BY <4>2, <5>1, <5>2, <5>3, Zenon DEF DigitalNext
        <5> QED BY <5>4
      <4> QED BY <4>1, <4>2
    <3>2. k <= Len(attempts)
      BY <1>1 DEF RunSound, Listed
    <3> QED BY <3>1, <3>2
  <2> QED BY <1>2, <2>1, <2>2 DEF DigitalInv, InterruptionsNeedAFreshCall
<1>3. ASSUME NEW succeeds \in BOOLEAN, NEW evident \in BOOLEAN, NEW observed \in BOOLEAN,
             Attempt(succeeds, evident, observed)
      PROVE  WritesAreAskedFor' /\ InterruptionsNeedAFreshCall'
  <2> DEFINE n == Len(attempts)
             new == attempts'[n + 1]
  <2>1. /\ n \in Nat /\ DOMAIN attempts = 1..n /\ DOMAIN attempts' = 1..(n + 1)
        /\ \A k \in 1..n : attempts'[k] = attempts[k]
        /\ new = Attempted(succeeds, evident, observed)
    BY <1>1, <1>3, AttemptAppends
  <2>2. /\ new.capability = StepToRun /\ new.approved = run.authorization[2]
        /\ new.plan = run.plan /\ new.execution = run.execution /\ new.fresh = freshCalls
    BY <2>1 DEF Attempted
  <2> HIDE DEF n, new
  <2>3. /\ run.state = "attempting" /\ Running /\ UNCHANGED interruptions
        /\ Planned /\ run.at \in DOMAIN run.plan.steps
    BY <1>1, <1>3 DEF Attempt, RunSound, HasPlan, Running
  <2>4. PICK approved \in BOOLEAN :
           /\ run.authorization = AuthorizationDigest(run.plan, approved, run.inputs)
           /\ Earnest(run.plan, approved)
    BY <2>3 DEF Planned
  <2>5. run.authorization[2] = approved
    BY <2>4 DEF AuthorizationDigest
  <2>6. ~ReadOnly(new.capability) =>
           new.approved /\ Catalog[new.capability].words \cap new.plan.goal # {}
    BY <2>2, <2>3, <2>4, <2>5 DEF Earnest, StepToRun
  <2>7. WritesAreAskedFor'
    <3>1. ASSUME NEW k \in DOMAIN attempts'
          PROVE  ~ReadOnly(attempts'[k].capability) =>
                    /\ attempts'[k].approved
                    /\ Catalog[attempts'[k].capability].words \cap attempts'[k].plan.goal # {}
      <4>1. CASE k \in 1..n
        BY <2>1, <4>1 DEF DigitalInv, WritesAreAskedFor
      <4>2. CASE k = n + 1
        BY <2>6, <4>2 DEF new
      <4> QED BY <2>1, <4>1, <4>2
    <3> QED BY <3>1 DEF WritesAreAskedFor, ReadOnly
  <2>8. InterruptionsNeedAFreshCall'
    <3>1. ASSUME NEW k \in DOMAIN attempts', NEW cut \in interruptions',
                 attempts'[k].resume, attempts'[k].execution = cut.execution
          PROVE  attempts'[k].fresh # cut.fresh \/ k <= cut.length
      <4>1. CASE k \in 1..n
        BY <2>1, <2>3, <3>1, <4>1 DEF DigitalInv, InterruptionsNeedAFreshCall
      <4>2. CASE k = n + 1
        BY <1>1, <2>2, <2>3, <3>1, <4>2 DEF new, CutsStand
      <4> QED BY <2>1, <4>1, <4>2
    <3> QED BY <3>1 DEF InterruptionsNeedAFreshCall
  <2> QED BY <2>7, <2>8
<1> QED BY <1>2, <1>3, <1>1, HistoryStays

LEMMA DigitalInitial == DigitalInit => DigitalInv
<1> SUFFICES ASSUME DigitalInit PROVE DigitalInv
  OBVIOUS
<1>1. Listed(audit) /\ Listed(attempts)
  BY DEF DigitalInit, Listed
<1> QED BY <1>1 DEF DigitalInit, DigitalInv, RunSound, WorkEarned, CutsStand, HasPlan, Running,
           NoRun, NoCheckpoint, WritesAreAskedFor, InterruptionsNeedAFreshCall

LEMMA DigitalInvariant == DigitalSpec => []DigitalInv
<1>1. DigitalInv /\ [DigitalNext]_digitalVars => DigitalInv'
  BY SoundStep, EarnedStep, CutsStep, AttemptsStep DEF DigitalInv
<1> QED BY <1>1, DigitalInitial, PTL DEF DigitalSpec

\* A run reported verified has a verified attempt of the same execution, plan and
\* arguments for every step, whatever calls, resumptions, crashes and damage to the
\* audit came before (DigitalAgentRuntime.run and _resumable_steps).
THEOREM VerifiedRunsAreEarned == DigitalSpec => []VerifiedRunIsEarned
<1>1. DigitalInv => VerifiedRunIsEarned
  BY DEF DigitalInv, RunSound, WorkEarned, HasPlan, VerifiedRunIsEarned, Earned
<1> QED BY <1>1, DigitalInvariant, PTL

\* No capability with a side effect is attempted but for a word of the goal and
\* under an approval, for every catalogue whose defaults are read-only
\* (CapabilityCatalog.route, rule 4).
THEOREM WritesWereAskedFor == DigitalSpec => []WritesAreAskedFor
  BY DigitalInvariant, PTL DEF DigitalInv

\* No resumed run attempts anything of an execution that a crash cut off, until
\* somebody has called anew (DigitalAgentRuntime._unfinished).
THEOREM InterruptionsWait == DigitalSpec => []InterruptionsNeedAFreshCall
  BY DigitalInvariant, PTL DEF DigitalInv

-----------------------------------------------------------------------------
(* The post-change verification.                                           *)

-----------------------------------------------------------------------------
\* The stages on one piece of evidence

\* A conclusion is success only if all runs it sums up were successes.
LEMMA SuccessIsUnanimous ==
  ASSUME NEW values, AggregateConclusion(values) = "success"
  PROVE  values = {"success"}
BY DEF AggregateConclusion

\* A ruling passes only for a stage that passed.
LEMMA OnlyPassPasses ==
  ASSUME NEW state, RulingOf(state) = "pass"
  PROVE  state = "pass"
BY DEF RulingOf

\* What the earlier gate answers to evidence the live verifier passed.
GateHolds(q, ev, policy) ==
  Gate(q, ev) = "pass" \/ (Gate(q, ev) = "malformed" /\ q.reported /\ ~policy.reported)

\* Every required check was read, is completed and is a success.
ChecksPass(q, ev) ==
  /\ ev.tests.seen /\ q.required \subseteq DOMAIN ev.tests.checks
  /\ \A n \in q.required : /\ ev.tests.checks[n].completed
                           /\ ev.tests.checks[n].conclusion = "success"

\* Checks that may pass hold a completed success for every required workflow, and
\* none that is not known if the policy says so.
LEMMA PassingTests ==
  ASSUME NEW q, NEW ev, NEW policy, "pass" \in TestStates(q, ev, policy)
  PROVE  /\ ChecksPass(q, ev)
         /\ policy.reported => DOMAIN ev.tests.checks \ q.known = {}
<1> DEFINE checks == ev.tests.checks
<1> DEFINE Judged(n) ==
      IF checks[n].event \notin policy.events \/ n \notin policy.workflows THEN "fail"
      ELSE IF n \notin q.required THEN "pass"
      ELSE IF ~checks[n].completed THEN "blocked"
      ELSE IF checks[n].conclusion = "success" THEN "pass" ELSE "fail"
<1> DEFINE wrong == {Judged(n) : n \in DOMAIN checks} \ {"pass"}
<1>1. ev.tests.seen
  BY DEF TestStates
<1>2. /\ ~(policy.reported /\ DOMAIN checks \ q.known # {})
      /\ ~(q.required \ DOMAIN checks # {})
  BY <1>1 DEF TestStates
<1>3. TestStates(q, ev, policy) = IF wrong = {} THEN {"pass"} ELSE wrong
  BY <1>1, <1>2 DEF TestStates
<1>4. wrong = {}
  <2> HIDE DEF wrong
  <2>1. "pass" \notin wrong
    BY DEF wrong
  <2> QED BY <1>3, <2>1
<1>5. ASSUME NEW n \in q.required
      PROVE  checks[n].completed /\ checks[n].conclusion = "success"
  <2>1. n \in DOMAIN checks
    BY <1>2
  <2>2. Judged(n) = "pass"
    <3> HIDE DEF Judged
    <3> QED BY <1>4, <2>1
  <2> QED BY <2>2
<1> QED BY <1>1, <1>2, <1>5 DEF ChecksPass

\* Whatever passes all stages passes the earlier gate, but for a check that only the
\* request does not let be reported.
LEMMA PassedGate ==
  ASSUME NEW q, NEW ev, NEW policy, "pass" \in Phase6(q, ev, policy)
  PROVE  ChecksPass(q, ev) /\ GateHolds(q, ev, policy)
<1> DEFINE stages == <<IdentityStage(q, ev), PullStage(q, ev), FilesStage(q, ev, policy)>>
<1> DEFINE wrong == {i \in 1 .. 3 : stages[i] # "pass"}
<1>1. wrong = {}
  <2> SUFFICES ASSUME wrong # {} PROVE FALSE
    OBVIOUS
  <2> DEFINE first == CHOOSE i \in wrong : \A j \in wrong : i <= j
  <2>1. first \in wrong
    <3>1. \E i \in wrong : \A j \in wrong : i <= j
      OBVIOUS
    <3> HIDE DEF wrong
    <3> QED BY <3>1
  <2>2. RulingOf(stages[first]) = "pass"
    BY DEF Phase6
  <2> QED BY <2>1, <2>2, OnlyPassPasses
<1>2. /\ IdentityStage(q, ev) = "pass" /\ PullStage(q, ev) = "pass"
      /\ FilesStage(q, ev, policy) = "pass"
  <2> HIDE DEF wrong
  <2>1. \A i \in 1 .. 3 : stages[i] = "pass"
    BY <1>1 DEF wrong
  <2> QED BY <2>1
<1>3. "pass" \in TestStates(q, ev, policy)
  <2>1. Phase6(q, ev, policy) = {RulingOf(s) : s \in TestStates(q, ev, policy)}
    BY <1>1 DEF Phase6
  <2> QED BY <2>1, OnlyPassPasses
<1>4. GateIdentity(q, ev)
  BY <1>2 DEF IdentityStage, GateIdentity
<1>5. GatePull(q, ev)
  BY <1>2 DEF PullStage, GatePull
<1>6. GateFiles(q, ev)
  BY <1>2 DEF FilesStage, FileAllowed, GateFiles
<1>7. /\ ChecksPass(q, ev)
      /\ policy.reported => DOMAIN ev.tests.checks \ q.known = {}
  BY <1>3, PassingTests
<1>8. GateTests(q, ev) =
        IF q.reported /\ DOMAIN ev.tests.checks \ q.known # {} THEN "malformed" ELSE "pass"
  BY <1>7 DEF GateTests, ChecksPass
<1> QED BY <1>4, <1>5, <1>6, <1>7, <1>8 DEF Gate, GateHolds

-----------------------------------------------------------------------------
\* The collection

\* What is kept of a collection has the shape of its records.
CollectionShape ==
  /\ evidence = [commit |-> evidence.commit, pull |-> evidence.pull,
                 files |-> evidence.files, tests |-> evidence.tests]
  /\ \/ collecting = Idle
     \/ collecting = [step |-> collecting.step, request |-> collecting.request]

\* Test evidence is read last, so that it speaks of the runs as they are while the
\* collection still waits to be judged: checks that pass were green.
TestsTellGreen ==
  collecting.step = "judge" /\ ChecksPass(collecting.request, evidence) => green

PostInv == CollectionShape /\ TestsTellGreen /\ PassedWasGreen /\ PassedPassesTheGate

\* The checks read pass only if every run they sum up succeeded.
LEMMA PassingChecksAreGreen ==
  ASSUME NEW q, NEW names, NEW ev,
         ev.tests = [seen |-> TRUE, checks |-> [name \in names |-> Attested(q, name)]],
         names = {name \in Workflows : RunsOf(q, name) # {}},
         ChecksPass(q, ev)
  PROVE  \A name \in q.required : /\ RunsOf(q, name) # {}
                                  /\ \A id \in RunsOf(q, name) :
                                         ciRuns[id].conclusion = "success"
<1> SUFFICES ASSUME NEW name \in q.required
             PROVE  /\ RunsOf(q, name) # {}
                    /\ \A id \in RunsOf(q, name) : ciRuns[id].conclusion = "success"
  OBVIOUS
<1>1. name \in names
  BY DEF ChecksPass
<1>2. ev.tests.checks[name] = Attested(q, name)
  BY <1>1
<1>3. Attested(q, name).conclusion = "success"
  BY <1>2 DEF ChecksPass
<1>4. {ciRuns[id].conclusion : id \in RunsOf(q, name)} = {"success"}
  BY <1>3, SuccessIsUnanimous DEF Attested
<1> QED BY <1>1, <1>4

LEMMA PostInductive == PostSpec => []PostInv
<1>1. PostInit => PostInv
  BY DEF PostInit, PostInv, CollectionShape, TestsTellGreen, PassedWasGreen,
         PassedPassesTheGate, NoEvidence, Idle
<1>2. PostInv /\ [PostNext]_postVars => PostInv'
  <2> SUFFICES ASSUME PostInv, [PostNext]_postVars PROVE PostInv'
    OBVIOUS
  <2> USE DEF PostInv
  <2>1. CASE UNCHANGED <<collecting, evidence, reports, green>>
    BY <2>1 DEF CollectionShape, TestsTellGreen, PassedWasGreen, PassedPassesTheGate, ChecksPass
  <2>2. ASSUME NEW q \in ChangeRequests, CollectFor(q) PROVE PostInv'
    BY <2>2 DEF CollectFor, CollectionShape, TestsTellGreen, PassedWasGreen,
                PassedPassesTheGate, NoEvidence, Idle
  <2>3. ASSUME NEW fails \in BOOLEAN, ReadCommit(fails) \/ ReadPull(fails) \/ ReadFiles(fails)
        PROVE  PostInv'
    <3>1. /\ CollectionShape' /\ collecting'.step \in {"pull", "files", "tests"}
      BY <2>3 DEF ReadCommit, ReadPull, ReadFiles, Reads, CollectionShape, Idle
    <3>2. UNCHANGED reports
      BY <2>3 DEF ReadCommit, ReadPull, ReadFiles, Unmoved
    <3> QED BY <3>1, <3>2 DEF TestsTellGreen, PassedWasGreen, PassedPassesTheGate
  <2>4. ASSUME NEW fails \in BOOLEAN, ReadTests(fails) PROVE PostInv'
    <3> DEFINE q == collecting.request
    <3> DEFINE names == {name \in Workflows : RunsOf(q, name) # {}}
    <3> HIDE DEF names, q
    <3>1. CollectionShape' /\ collecting'.request = q
      <4>1. /\ collecting.step = "tests" /\ collecting' = [collecting EXCEPT !.step = "judge"]
            /\ \E tests : evidence' = [evidence EXCEPT !.tests = tests]
        BY <2>4 DEF ReadTests, Reads
      <4> QED BY <4>1 DEF q, CollectionShape, Idle
    <3> USE DEF names, q
    <3>2. UNCHANGED reports
      BY <2>4 DEF ReadTests, Unmoved
    <3>3. evidence'.tests = IF fails THEN Missing
                            ELSE [seen |-> TRUE, checks |-> [name \in names |-> Attested(q, name)]]
      BY <2>4 DEF ReadTests, CollectionShape
    <3>4. ChecksPass(q, evidence') => green'
      <4> SUFFICES ASSUME ChecksPass(q, evidence') PROVE green'
        OBVIOUS
      <4>1. ~fails
        BY <3>3 DEF ChecksPass, Missing
      <4>2. \A name \in q.required : /\ RunsOf(q, name) # {}
                                     /\ \A id \in RunsOf(q, name) :
                                            ciRuns[id].conclusion = "success"
        BY <3>3, <4>1, PassingChecksAreGreen
      <4> QED BY <2>4, <4>2 DEF ReadTests
    <3>5. TestsTellGreen'
      BY <3>1, <3>4 DEF TestsTellGreen, ChecksPass
    <3> QED BY <3>1, <3>2, <3>5 DEF PassedWasGreen, PassedPassesTheGate
  <2>5. CASE Judge
    <3>0. PICK policy \in Policies : \E ruling \in Phase6(collecting.request, evidence, policy) :
            reports' = reports \cup {[request |-> collecting.request, ruling |-> ruling,
                                      policy |-> policy,
                                      gate |-> Gate(collecting.request, evidence),
                                      green |-> green]}
      BY <2>5 DEF Judge
    <3>1. PICK ruling \in Phase6(collecting.request, evidence, policy) :
            reports' = reports \cup {[request |-> collecting.request, ruling |-> ruling,
                                      policy |-> policy,
                                      gate |-> Gate(collecting.request, evidence),
                                      green |-> green]}
      BY <3>0
    <3>2. ruling = "pass" => /\ ChecksPass(collecting.request, evidence)
                             /\ GateHolds(collecting.request, evidence, policy)
      BY <3>1, PassedGate
    <3>3. ruling = "pass" => green
      BY <2>5, <3>2 DEF Judge, TestsTellGreen
    <3>4. PassedWasGreen' /\ PassedPassesTheGate'
      BY <3>1, <3>2, <3>3 DEF PassedWasGreen, PassedPassesTheGate, GateHolds
    <3>5. CollectionShape' /\ TestsTellGreen'
      BY <2>5 DEF Judge, CollectionShape, TestsTellGreen, Idle, NoEvidence
    <3> QED BY <3>4, <3>5
  <2>6. ASSUME NEW c \in Commits, Push(c) PROVE PostInv'
    BY <2>1, <2>6 DEF Push
  <2>7. CASE ChangePull
    BY <2>1, <2>7 DEF ChangePull
  <2>8. ASSUME NEW name \in Workflows, NEW event \in CiEvents, StartCi(name, event)
        PROVE  PostInv'
    BY <2>1, <2>8 DEF StartCi
  <2>9. ASSUME NEW id \in DOMAIN ciRuns, NEW conclusion \in CiConclusions,
               FinishCi(id, conclusion)
        PROVE  PostInv'
    BY <2>1, <2>9 DEF FinishCi
  <2>10. ASSUME NEW q \in ChangeRequests, NEW report \in reports,
                NEW ciPassed \in BOOLEAN, NEW reviewAllowed \in BOOLEAN,
                NEW approved \in BOOLEAN, NEW target \in {"staging", "production"},
                EvaluateRelease(q, report, ciPassed, reviewAllowed, approved, target)
         PROVE  PostInv'
    BY <2>1, <2>10 DEF EvaluateRelease
  <2>11. CASE UNCHANGED postVars
    BY <2>1, <2>11 DEF postVars
  <2> QED BY <2>2, <2>3, <2>4, <2>5, <2>6, <2>7, <2>8, <2>9, <2>10, <2>11 DEF PostNext
<1> QED BY <1>1, <1>2, PTL DEF PostSpec

\* A report passes only if every run of every required check on the commit had
\* succeeded when the checks were read, whatever is rerun, pushed or closed in
\* between (post_change_github.py, post_change_verification.py).
THEOREM PassedIsGreen == PostSpec => []PassedWasGreen
<1>1. PostInv => PassedWasGreen
  BY DEF PostInv
<1> QED BY <1>1, PostInductive, PTL

\* For any policy and any evidence: what the live verifier passes the earlier gate
\* passes, but for an unexpected check that only the request's flag forbids
\* (verify_phase6, evaluate_verification).
THEOREM PassedIsGated == PostSpec => []PassedPassesTheGate
<1>1. PostInv => PassedPassesTheGate
  BY DEF PostInv
<1> QED BY <1>1, PostInductive, PTL

-----------------------------------------------------------------------------
(* Triggers and dispatches.                                                *)

\* What the type invariant leaves open: a dispatch under way has its trigger
\* and its task.
Typed ==
  /\ TypeOK
  /\ \A d \in Dispatcher :
       pc[d] # "idle" => trigger[d] \in Trigger /\ work[d] \in TaskId

\* A dispatch whose task stands in the queue, or stood there.
Placed(d) == pc[d] \in {"queued", "lost"}

\* The ids of the queue are distinct, as enqueue refuses a known one ...
DistinctIds == \A i, j \in DOMAIN tasks :
                 tasks[i].task_id = tasks[j].task_id => i = j
\* ... every task a dispatch put there is there ...
PlacedIsListed ==
  /\ FiredIsListed
  /\ \A d \in Dispatcher : Placed(d) => work[d] \in Ids(tasks)
\* ... and a waiting item is one that the trigger fired for, whose dispatch
\* died, or that its own dispatch has still to decide about.
Decides(d, t) == Placed(d) /\ fresh[d] /\ work[d] = t
WaitingHasReason ==
  \A i \in DOMAIN tasks : tasks[i].state = "pending" =>
    \/ tasks[i].task_id \in fired \cup crashed
    \/ \E d \in Dispatcher : Decides(d, tasks[i].task_id)

Inv == Typed /\ DistinctIds /\ PlacedIsListed /\ WaitingHasReason

-----------------------------------------------------------------------------
\* The queue.

\* What a call that finds an item makes of the list: that item is rewritten,
\* into a state that is not pending.
Rewrites(q, i, r) ==
  /\ i \in DOMAIN tasks /\ q = [tasks EXCEPT ![i] = r]
  /\ r \in QueueItem /\ r.task_id = tasks[i].task_id /\ r.state # "pending"

\* claim_next, complete and cancel do that.
LEMMA CallsRewrite ==
  ASSUME Typed, NEW i \in DOMAIN tasks
  PROVE  /\ \E r : Rewrites(AfterClaim(tasks, i), i, r)
         /\ \A ok \in BOOLEAN : \E r : Rewrites(AfterComplete(tasks, i, ok), i, r)
         /\ \E r : Rewrites(AfterCancel(tasks, i), i, r)
<1>1. tasks[i] \in QueueItem
  BY DEF Typed, TypeOK
<1>2. ASSUME NEW s \in QueueState, s # "pending", NEW n \in Nat
      PROVE  Rewrites([tasks EXCEPT ![i] = Rewritten(tasks[i], s, n)], i,
                      Rewritten(tasks[i], s, n))
  BY <1>1, <1>2 DEF Rewrites, Rewritten, QueueItem
<1>3. tasks[i].attempts \in Nat /\ tasks[i].attempts + 1 \in Nat
  BY <1>1 DEF QueueItem
<1>4. {"running", "succeeded", "failed", "cancelled"} \subseteq QueueState
  BY DEF QueueState
<1>5. \E r : Rewrites(AfterClaim(tasks, i), i, r)
  BY <1>2, <1>3, <1>4 DEF AfterClaim
<1>6. ASSUME NEW ok \in BOOLEAN
      PROVE  \E r : Rewrites(AfterComplete(tasks, i, ok), i, r)
  <2>1. CASE ok
    BY <2>1, <1>2, <1>3, <1>4 DEF AfterComplete, MovedTo
  <2>2. CASE ~ok
    BY <2>2, <1>2, <1>3, <1>4 DEF AfterComplete, MovedTo
  <2> QED
    BY <2>1, <2>2
<1>7. \E r : Rewrites(AfterCancel(tasks, i), i, r)
  BY <1>2, <1>3, <1>4 DEF AfterCancel, MovedTo
<1> QED
  BY <1>5, <1>6, <1>7

\* A rewritten list is typed, keeps its ids in their places, and its pending
\* items are those it had, but for the rewritten one.
LEMMA RewriteKeeps ==
  ASSUME Typed, NEW i, NEW r, Rewrites(tasks', i, r)
  PROVE  /\ tasks' \in Seq(QueueItem)
         /\ DOMAIN tasks' = DOMAIN tasks
         /\ \A j \in DOMAIN tasks : tasks'[j].task_id = tasks[j].task_id
         /\ tasks'[i].state # "pending"
         /\ \A j \in DOMAIN tasks \ {i} : tasks'[j] = tasks[j]
  BY DEF Rewrites, Typed, TypeOK

\* An enqueued item comes last.
LEMMA AppendLast ==
  ASSUME NEW q \in Seq(QueueItem), NEW x \in QueueItem, NEW r, r = Append(q, x)
  PROVE  /\ r \in Seq(QueueItem)
         /\ DOMAIN r = DOMAIN q \cup {Len(q) + 1}
         /\ Len(q) + 1 \notin DOMAIN q
         /\ \A j \in DOMAIN q : r[j] = q[j]
         /\ r[Len(q) + 1] = x
  OBVIOUS

LEMMA EnqueueAppends ==
  ASSUME Typed, NEW t \in TaskId, tasks' = AfterEnqueue(tasks, t, TRUE)
  PROVE  /\ tasks' \in Seq(QueueItem)
         /\ DOMAIN tasks' = DOMAIN tasks \cup {Len(tasks) + 1}
         /\ Len(tasks) + 1 \notin DOMAIN tasks
         /\ \A j \in DOMAIN tasks : tasks'[j] = tasks[j]
         /\ tasks'[Len(tasks) + 1].task_id = t
<1>0. PICK x : x = [task_id |-> t, state |-> "pending", due |-> TRUE, attempts |-> 0]
  OBVIOUS
<1>1. x \in QueueItem /\ x.task_id = t
  BY <1>0 DEF QueueItem, QueueState
<1>2. tasks \in Seq(QueueItem) /\ tasks' = Append(tasks, x)
  BY <1>0 DEF AfterEnqueue, NewItem, Typed, TypeOK
<1>3. /\ tasks' \in Seq(QueueItem)
      /\ DOMAIN tasks' = DOMAIN tasks \cup {Len(tasks) + 1}
      /\ Len(tasks) + 1 \notin DOMAIN tasks
      /\ \A j \in DOMAIN tasks : tasks'[j] = tasks[j]
      /\ tasks'[Len(tasks) + 1] = x
  BY <1>1, <1>2, AppendLast
<1> QED
  BY <1>1, <1>3

\* Whatever the queue is made of its ids stay.
LEMMA SamePlaces ==
  ASSUME DOMAIN tasks \subseteq DOMAIN tasks',
         \A j \in DOMAIN tasks : tasks'[j].task_id = tasks[j].task_id
  PROVE  Ids(tasks) \subseteq Ids(tasks')
  BY DEF Ids

-----------------------------------------------------------------------------
\* Types.

LEMMA TypedInit ==
  ASSUME Init PROVE Typed
  BY TriggerDispatchAssumption DEF Init, Typed, TypeOK

\* A dispatch that returns or dies.
LEMMA EndsTyped ==
  ASSUME Typed, NEW d \in Dispatcher, Ends(d)
  PROVE  /\ pc' \in [Dispatcher -> {"idle", "ready", "queued", "lost"}]
         /\ trigger' \in [Dispatcher -> Trigger \cup {None}]
         /\ work' \in [Dispatcher -> TaskId \cup {None}]
         /\ fresh' \in [Dispatcher -> BOOLEAN]
         /\ pc'[d] = "idle"
         /\ \A e \in Dispatcher \ {d} :
              /\ pc'[e] = pc[e] /\ trigger'[e] = trigger[e]
              /\ work'[e] = work[e] /\ fresh'[e] = fresh[e]
  BY DEF Ends, GoTo, Typed, TypeOK

\* A step is one of the store's calls of a dispatch or of the worker, or does
\* not touch the queue.
DispatchStep(d) ==
  \/ \E tr \in Trigger, t \in TaskId : Ready(d, tr, t)
  \/ Enqueue(d) \/ Fire(d) \/ FireRefused(d) \/ Withdraw(d) \/ Crash(d)

LEMMA TypedRegistry ==
  ASSUME Typed, \/ \E tr \in Trigger : Register(tr) \/ Disable(tr)
                \/ Tick
  PROVE  Typed'
  BY TriggerDispatchAssumption
  DEF Typed, TypeOK, Register, Disable, Tick, dispatch, history, registry

LEMMA TypedWorker ==
  ASSUME Typed, Claim \/ \E ok \in BOOLEAN : Complete(ok)
  PROVE  Typed'
<1>1. \E i, r : Rewrites(tasks', i, r)
  <2>1. CASE Claim
    BY <2>1, CallsRewrite DEF Claim, NextClaim, Claimable
  <2>2. ASSUME NEW ok \in BOOLEAN, Complete(ok) PROVE \E i, r : Rewrites(tasks', i, r)
    BY <2>2, CallsRewrite DEF Complete
  <2> QED
    BY <2>1, <2>2
<1>2. tasks' \in Seq(QueueItem)
  BY <1>1, RewriteKeeps
<1>3. UNCHANGED registry /\ now' = now /\ UNCHANGED dispatch /\ UNCHANGED history
  BY DEF Claim, Complete
<1> QED
  BY <1>2, <1>3 DEF Typed, TypeOK, registry, dispatch, history

LEMMA TypedDispatch ==
  ASSUME Typed, NEW d \in Dispatcher, DispatchStep(d)
  PROVE  Typed'
<1>1. ASSUME NEW tr \in Trigger, NEW t \in TaskId, Ready(d, tr, t) PROVE Typed'
  BY <1>1 DEF Typed, TypeOK, Ready, GoTo, registry, history
<1>2. CASE Enqueue(d)
  <2>1. work[d] \in TaskId
    BY <1>2 DEF Typed, Enqueue
  <2>2. tasks' \in Seq(QueueItem)
    BY <1>2, <2>1, EnqueueAppends DEF Enqueue, Typed, TypeOK
  <2> QED
    BY <1>2, <2>2 DEF Typed, TypeOK, Enqueue, GoTo, registry, history
<1>3. CASE Fire(d)
  BY <1>3, EndsTyped DEF Typed, TypeOK, Fire
<1>4. CASE FireRefused(d)
  BY <1>4 DEF Typed, TypeOK, FireRefused, GoTo, registry, history
<1>5. CASE Withdraw(d)
  <2>1. tasks' = tasks \/ \E i, r : Rewrites(tasks', i, r)
    BY <1>5, CallsRewrite DEF Withdraw
  <2>2. tasks' \in Seq(QueueItem)
    BY <2>1, RewriteKeeps DEF Typed, TypeOK
  <2> QED
    BY <1>5, <2>2, EndsTyped DEF Typed, TypeOK, Withdraw, registry, history
<1>6. CASE Crash(d)
  BY <1>6, EndsTyped DEF Typed, TypeOK, Crash, registry
<1> QED
  BY <1>1, <1>2, <1>3, <1>4, <1>5, <1>6 DEF DispatchStep

LEMMA TypedStep ==
  ASSUME Typed, [Next]_vars
  PROVE  Typed'
<1>1. CASE UNCHANGED vars
  BY <1>1 DEF Typed, TypeOK, vars, registry, dispatch, history
<1>2. CASE Next
  BY <1>2, TypedRegistry, TypedWorker, TypedDispatch DEF Next, DispatchStep
<1> QED
  BY <1>1, <1>2

-----------------------------------------------------------------------------
\* Ids and firing.

LEMMA DistinctStep ==
  ASSUME Typed, DistinctIds, [Next]_vars
  PROVE  DistinctIds'
<1>1. ASSUME NEW i, NEW r, Rewrites(tasks', i, r) PROVE DistinctIds'
  BY <1>1, RewriteKeeps DEF DistinctIds
<1>2. CASE UNCHANGED tasks
  BY <1>2 DEF DistinctIds
<1>3. ASSUME NEW d \in Dispatcher, Enqueue(d) PROVE DistinctIds'
  <2>1. CASE work[d] \in Ids(tasks)
    BY <1>3, <2>1, <1>2 DEF Enqueue
  <2>2. CASE work[d] \notin Ids(tasks)
    <3>1. work[d] \in TaskId /\ tasks' = AfterEnqueue(tasks, work[d], TRUE)
      BY <1>3, <2>2 DEF Enqueue, Typed
    <3>2. \A j \in DOMAIN tasks : tasks[j].task_id # work[d]
      BY <2>2 DEF Ids
    <3>3. ASSUME NEW i \in DOMAIN tasks', NEW j \in DOMAIN tasks',
                 tasks'[i].task_id = tasks'[j].task_id
          PROVE  i = j
      <4>1. DOMAIN tasks' = DOMAIN tasks \cup {Len(tasks) + 1}
        BY <3>1, EnqueueAppends
      <4>2. CASE i \in DOMAIN tasks /\ j \in DOMAIN tasks
        BY <3>1, <3>3, <4>2, EnqueueAppends DEF DistinctIds
      <4>3. CASE i \notin DOMAIN tasks \/ j \notin DOMAIN tasks
        BY <3>1, <3>2, <3>3, <4>1, <4>3, EnqueueAppends
      <4> QED
        BY <4>2, <4>3
    <3> QED
      BY <3>3 DEF DistinctIds
  <2> QED
    BY <2>1, <2>2
<1>4. CASE Claim
  BY <1>4, <1>1, CallsRewrite DEF Claim, NextClaim, Claimable
<1>5. ASSUME NEW ok \in BOOLEAN, Complete(ok) PROVE DistinctIds'
  BY <1>5, <1>1, CallsRewrite DEF Complete
<1>6. ASSUME NEW d \in Dispatcher, Withdraw(d) PROVE DistinctIds'
  BY <1>6, <1>1, <1>2, CallsRewrite DEF Withdraw
<1>7. CASE UNCHANGED vars
  BY <1>7, <1>2 DEF vars
<1> QED
  BY <1>2, <1>3, <1>4, <1>5, <1>6, <1>7
  DEF Next, Register, Disable, Tick, Ready, Fire, FireRefused, Crash

\* No step takes an id out of the queue.
LEMMA IdsStay ==
  ASSUME Typed, [Next]_vars
  PROVE  Ids(tasks) \subseteq Ids(tasks')
<1>1. ASSUME NEW i, NEW r, Rewrites(tasks', i, r)
      PROVE  Ids(tasks) \subseteq Ids(tasks')
  BY <1>1, RewriteKeeps, SamePlaces
<1>2. CASE UNCHANGED tasks
  BY <1>2
<1>3. ASSUME NEW d \in Dispatcher, Enqueue(d)
      PROVE  Ids(tasks) \subseteq Ids(tasks')
  BY <1>3, EnqueueAppends, SamePlaces DEF Enqueue, Typed
<1>4. CASE Claim
  BY <1>4, <1>1, CallsRewrite DEF Claim, NextClaim, Claimable
<1>5. ASSUME NEW ok \in BOOLEAN, Complete(ok)
      PROVE  Ids(tasks) \subseteq Ids(tasks')
  BY <1>5, <1>1, CallsRewrite DEF Complete
<1>6. ASSUME NEW d \in Dispatcher, Withdraw(d)
      PROVE  Ids(tasks) \subseteq Ids(tasks')
  BY <1>6, <1>1, <1>2, CallsRewrite DEF Withdraw
<1>7. CASE UNCHANGED vars
  BY <1>7, <1>2 DEF vars
<1> QED
  BY <1>2, <1>3, <1>4, <1>5, <1>6, <1>7
  DEF Next, Register, Disable, Tick, Ready, Fire, FireRefused, Crash

\* What the steps do to the dispatches and to what they fired for.
LEMMA DispatchMoves ==
  ASSUME Typed, [Next]_vars, NEW d \in Dispatcher, Placed(d)'
  PROVE  \/ Enqueue(d)
         \/ /\ Placed(d) /\ work'[d] = work[d] /\ fresh'[d] = fresh[d]
<1>1. ASSUME NEW e \in Dispatcher, Ends(e), e = d PROVE FALSE
  BY <1>1, EndsTyped DEF Placed
<1>2. ASSUME NEW e \in Dispatcher, Ends(e), e # d
      PROVE  Placed(d) /\ work'[d] = work[d] /\ fresh'[d] = fresh[d]
  BY <1>2, EndsTyped DEF Placed
<1>3. ASSUME NEW e \in Dispatcher, DispatchStep(e)
      PROVE  \/ Enqueue(d)
             \/ /\ Placed(d) /\ work'[d] = work[d] /\ fresh'[d] = fresh[d]
  <2>1. CASE Fire(e) \/ Withdraw(e) \/ Crash(e)
    BY <2>1, <1>1, <1>2 DEF Fire, Withdraw, Crash
  <2>2. CASE Enqueue(e)
    BY <2>2 DEF Enqueue, GoTo, Placed, Typed, TypeOK
  <2>3. ASSUME NEW tr \in Trigger, NEW t \in TaskId, Ready(e, tr, t)
        PROVE Placed(d) /\ work'[d] = work[d] /\ fresh'[d] = fresh[d]
    BY <2>3 DEF Ready, GoTo, Placed, Typed, TypeOK
  <2>4. CASE FireRefused(e)
    BY <2>4 DEF FireRefused, GoTo, Placed, Typed, TypeOK
  <2> QED
    BY <1>3, <2>1, <2>2, <2>3, <2>4 DEF DispatchStep
<1>4. CASE UNCHANGED dispatch
  BY <1>4 DEF Placed, dispatch
<1> QED
  BY <1>3, <1>4
  DEF Next, DispatchStep, vars, Register, Disable, Tick, Claim, Complete

LEMMA PlacedStep ==
  ASSUME Typed, PlacedIsListed, [Next]_vars
  PROVE  PlacedIsListed'
<1>1. Ids(tasks) \subseteq Ids(tasks')
  BY IdsStay
<1>2. ASSUME NEW d \in Dispatcher, Placed(d)' PROVE work'[d] \in Ids(tasks')
  <2>1. CASE Enqueue(d)
    <3>1. work'[d] = work[d] /\ work[d] \in TaskId
      BY <2>1 DEF Enqueue, Typed
    <3>2. CASE work[d] \in Ids(tasks)
      BY <1>1, <3>1, <3>2
    <3>3. CASE work[d] \notin Ids(tasks)
      BY <2>1, <3>1, <3>3, EnqueueAppends DEF Enqueue, Ids
    <3> QED
      BY <3>2, <3>3
  <2>2. CASE Placed(d) /\ work'[d] = work[d]
    BY <1>1, <2>2 DEF PlacedIsListed
  <2> QED
    BY <1>2, <2>1, <2>2, DispatchMoves
<1>3. FiredIsListed'
  <2>1. ASSUME NEW d \in Dispatcher, Fire(d)
        PROVE  work[d] \in Ids(tasks) /\ fired' = fired \cup {work[d]}
    BY <2>1 DEF Fire, PlacedIsListed, Placed
  <2>2. UNCHANGED fired \/ \E d \in Dispatcher : Fire(d)
    BY DEF Next, vars, history, Register, Disable, Tick, Claim, Complete,
           Ready, Enqueue, FireRefused, Withdraw, Crash
  <2> QED
    BY <1>1, <2>1, <2>2 DEF PlacedIsListed, FiredIsListed
<1> QED
  BY <1>2, <1>3 DEF PlacedIsListed

-----------------------------------------------------------------------------
\* What waits.

\* A decision about a task is taken by a step of its dispatch only, which
\* fires, dies or withdraws it; until then it stays with the dispatch.
LEMMA DecisionsEnd ==
  ASSUME Typed, DistinctIds, [Next]_vars, NEW d \in Dispatcher,
         NEW i \in DOMAIN tasks, Decides(d, tasks[i].task_id),
         tasks'[i].state = "pending"
  PROVE  \/ tasks[i].task_id \in fired' \cup crashed'
         \/ Placed(d)' /\ fresh'[d] /\ work'[d] = tasks[i].task_id
<1>1. ASSUME NEW e \in Dispatcher, Ends(e), e # d
      PROVE  Placed(d)' /\ fresh'[d] /\ work'[d] = tasks[i].task_id
  BY <1>1, EndsTyped DEF Placed, Decides
<1>2. ASSUME NEW e \in Dispatcher, e # d, DispatchStep(e)
      PROVE  Placed(d)' /\ fresh'[d] /\ work'[d] = tasks[i].task_id
  <2>1. CASE Fire(e) \/ Withdraw(e) \/ Crash(e)
    BY <2>1, <1>1, <1>2 DEF Fire, Withdraw, Crash
  <2>2. CASE Enqueue(e) \/ FireRefused(e)
    BY <2>2, <1>2 DEF Enqueue, FireRefused, GoTo, Placed, Decides, Typed, TypeOK
  <2>3. ASSUME NEW tr \in Trigger, NEW t \in TaskId, Ready(e, tr, t)
        PROVE  Placed(d)' /\ fresh'[d] /\ work'[d] = tasks[i].task_id
    BY <2>3, <1>2 DEF Ready, GoTo, Placed, Decides, Typed, TypeOK
  <2> QED
    BY <1>2, <2>1, <2>2, <2>3 DEF DispatchStep
<1>3. CASE Fire(d) \/ Crash(d)
  BY <1>3 DEF Fire, Crash, Decides
<1>4. CASE Withdraw(d)
  <2>1. PICK k \in DOMAIN tasks :
          /\ tasks[k].task_id = work[d]
          /\ tasks' = IF fresh[d] /\ tasks[k].state \in Cancellable
                        THEN AfterCancel(tasks, k) ELSE tasks
    BY <1>4 DEF Withdraw
  <2>2. k = i
    BY <2>1 DEF DistinctIds, Decides
  <2>3. CASE tasks[i].state \in Cancellable
    BY <2>1, <2>2, <2>3, CallsRewrite, RewriteKeeps DEF Decides
  <2>4. CASE tasks[i].state \notin Cancellable
    BY <2>1, <2>2, <2>4 DEF Cancellable
  <2> QED
    BY <2>3, <2>4
<1>5. CASE FireRefused(d)
  BY <1>5 DEF FireRefused, GoTo, Placed, Decides, Typed, TypeOK
<1>6. ~Enqueue(d) /\ \A tr \in Trigger, t \in TaskId : ~Ready(d, tr, t)
  BY DEF Enqueue, Ready, Decides, Placed
<1>7. CASE UNCHANGED dispatch
  BY <1>7 DEF Placed, Decides, dispatch
<1> QED
  BY <1>2, <1>3, <1>4, <1>5, <1>6, <1>7
  DEF Next, DispatchStep, vars, Register, Disable, Tick, Claim, Complete

\* A pending item was pending before, or has just been enqueued.
LEMMA PendingComes ==
  ASSUME Typed, [Next]_vars, NEW i \in DOMAIN tasks', tasks'[i].state = "pending"
  PROVE  \/ /\ i \in DOMAIN tasks /\ tasks[i].state = "pending"
            /\ tasks'[i].task_id = tasks[i].task_id
         \/ \E d \in Dispatcher :
              /\ Enqueue(d) /\ work[d] \notin Ids(tasks)
              /\ tasks'[i].task_id = work[d]
<1> DEFINE Was == /\ i \in DOMAIN tasks /\ tasks[i].state = "pending"
                  /\ tasks'[i].task_id = tasks[i].task_id
<1>1. ASSUME NEW k, NEW r, Rewrites(tasks', k, r) PROVE Was
  <2>1. i \in DOMAIN tasks /\ i # k
    BY <1>1, RewriteKeeps
  <2> QED
    BY <1>1, <2>1, RewriteKeeps
<1>2. CASE UNCHANGED tasks
  BY <1>2
<1>3. ASSUME NEW d \in Dispatcher, Enqueue(d), work[d] \notin Ids(tasks), ~Was
      PROVE  tasks'[i].task_id = work[d]
  <2>1. work[d] \in TaskId /\ tasks' = AfterEnqueue(tasks, work[d], TRUE)
    BY <1>3 DEF Enqueue, Typed
  <2> QED
    BY <1>3, <2>1, EnqueueAppends
<1>4. CASE Claim
  BY <1>4, <1>1, CallsRewrite DEF Claim, NextClaim, Claimable
<1>5. ASSUME NEW ok \in BOOLEAN, Complete(ok) PROVE Was
  BY <1>5, <1>1, CallsRewrite DEF Complete
<1>6. ASSUME NEW d \in Dispatcher, Withdraw(d) PROVE Was
  BY <1>6, <1>1, <1>2, CallsRewrite DEF Withdraw
<1>7. ASSUME NEW d \in Dispatcher, Enqueue(d), work[d] \in Ids(tasks) PROVE Was
  BY <1>7, <1>2 DEF Enqueue
<1>8. CASE UNCHANGED vars
  BY <1>8, <1>2 DEF vars
<1> QED
  BY <1>2, <1>3, <1>4, <1>5, <1>6, <1>7, <1>8
  DEF Next, Register, Disable, Tick, Ready, Fire, FireRefused, Crash

LEMMA HistoryGrows ==
  ASSUME [Next]_vars
  PROVE  fired \cup crashed \subseteq fired' \cup crashed'
  BY DEF Next, vars, history, Register, Disable, Tick, Claim, Complete,
         Ready, Enqueue, Fire, FireRefused, Withdraw, Crash

LEMMA WaitingStep ==
  ASSUME Typed, DistinctIds, WaitingHasReason, [Next]_vars
  PROVE  WaitingHasReason'
<1> SUFFICES ASSUME NEW i \in DOMAIN tasks', tasks'[i].state = "pending"
             PROVE  \/ tasks'[i].task_id \in fired' \cup crashed'
                    \/ \E d \in Dispatcher :
                         /\ Placed(d)' /\ fresh'[d]
                         /\ work'[d] = tasks'[i].task_id
  BY DEF WaitingHasReason, Decides
<1>1. CASE /\ i \in DOMAIN tasks /\ tasks[i].state = "pending"
           /\ tasks'[i].task_id = tasks[i].task_id
  <2>1. CASE tasks[i].task_id \in fired \cup crashed
    BY <1>1, <2>1, HistoryGrows
  <2>2. ASSUME NEW d \in Dispatcher, Decides(d, tasks[i].task_id)
        PROVE  \/ tasks[i].task_id \in fired' \cup crashed'
               \/ Placed(d)' /\ fresh'[d] /\ work'[d] = tasks[i].task_id
    BY <1>1, <2>2, DecisionsEnd
  <2> QED
    BY <1>1, <2>1, <2>2 DEF WaitingHasReason
<1>2. ASSUME NEW d \in Dispatcher, Enqueue(d), work[d] \notin Ids(tasks),
             tasks'[i].task_id = work[d]
      PROVE  Placed(d)' /\ fresh'[d] /\ work'[d] = tasks'[i].task_id
  BY <1>2 DEF Enqueue, GoTo, Placed, Typed, TypeOK
<1> QED
  BY <1>1, <1>2, PendingComes
-----------------------------------------------------------------------------
LEMMA Inductive == Spec => []Inv
<1>1. ASSUME Init PROVE Inv
  BY <1>1, TypedInit
  DEF Init, Inv, DistinctIds, PlacedIsListed, FiredIsListed, Placed,
      WaitingHasReason
<1>2. ASSUME Inv, [Next]_vars PROVE Inv'
  BY <1>2, TypedStep, DistinctStep, PlacedStep, WaitingStep DEF Inv
<1> QED
  BY <1>1, <1>2, PTL DEF Spec

\* The type invariant of the registry, the queue and the dispatches.
THEOREM TypeCorrect == Spec => []TypeOK
<1>1. Inv => TypeOK
  BY DEF Inv, Typed
<1> QED
  BY <1>1, Inductive, PTL

\* TriggerQueueDispatcher.dispatch: what it reports as queued is in the queue.
THEOREM FiredStaysListed == Spec => []FiredIsListed
<1>1. Inv => FiredIsListed
  BY DEF Inv, PlacedIsListed
<1> QED
  BY <1>1, Inductive, PTL

\* TriggerQueueDispatcher.dispatch: a task still waits only when the trigger
\* fired for it, its dispatch is under way, or its dispatch died.
THEOREM WaitingIsFired == Spec => []WaitingWasFired
<1>1. Inv => WaitingWasFired
  BY DEF Inv, WaitingHasReason, WaitingWasFired, InProgress, Decides
<1> QED
  BY <1>1, Inductive, PTL

\* TriggerRegistry.fire: a trigger fires once per cooldown.
THEOREM CooldownIsKept == Spec => CooldownKept
<1>1. ASSUME Inv, [Next]_vars, NEW tr \in Trigger, lastFired'[tr] # lastFired[tr]
      PROVE  lastFired'[tr] - lastFired[tr] >= Cooldown[tr]
  <2>1. PICK d \in Dispatcher : Fire(d)
    BY <1>1 DEF Next, vars, registry, Register, Disable, Tick, Claim, Complete,
                Ready, Enqueue, FireRefused, Withdraw, Crash
  <2>2. tr = trigger[d] /\ lastFired'[tr] = now
    BY <1>1, <2>1 DEF Fire, Inv, Typed, TypeOK
  <2> QED
    BY <2>1, <2>2 DEF Fire, Cooled
<1>2. ASSUME Inv, [Next]_vars
      PROVE  [\A tr \in Trigger :
                lastFired'[tr] # lastFired[tr] =>
                  lastFired'[tr] - lastFired[tr] >= Cooldown[tr]]_vars
  BY <1>1, <1>2
<1> QED
  BY <1>2, Inductive, PTL DEF Spec, CooldownKept
=============================================================================
