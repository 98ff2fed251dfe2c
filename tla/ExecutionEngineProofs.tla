----------------------- MODULE ExecutionEngineProofs -----------------------
(***************************************************************************)
(* Proofs about ExecutionEngine. The first part holds for any number of    *)
(* concurrent callers: the order of the steps and the evidence behind the  *)
(* checkpoint and behind a VERIFIED result. The second part, for one       *)
(* caller at a time, is that nothing verified is replayed, that an end is  *)
(* final, and that the plan's progress is the one of PlanProgress.         *)
(***************************************************************************)
EXTENDS ExecutionEngine, TLAPS

USE ExecutionEngineAssumption DEF StepId

Acts(r) == Starting(r) \/ Save(r) \/ Loop(r) \/ Failure(r)

\* The call works on the step it stands at; it saves its checkpoint.
AtStep == {"try", "tool", "record", "exhausted", "overspent"}
Writing == {"write", "replace", "unlink"}

-----------------------------------------------------------------------------
(* Types. *)

LEMMA FreshType ==
  ASSUME NEW i \in Identity, NEW n \in Nat, NEW b \in Nat
  PROVE  Fresh(i, n, b) \in Call
  BY DEF Fresh, Call

LEMMA InitType == Init => TypeOK
<1> SUFFICES ASSUME Init PROVE TypeOK
  OBVIOUS
<1>1. call \in [Runner -> Call]
  <2>1. \A i \in Identity : Fresh(i, 0, 0) \in Call
    BY FreshType
  <2> QED BY <2>1 DEF Init
<1>2. audit \in AuditLog
  BY DEF Init, AuditLog
<1> QED BY <1>1, <1>2 DEF Init, TypeOK

\* The parts of a call's state that every step keeps typed.
LEMMA ReturnType ==
  ASSUME TypeOK, NEW r \in Runner, NEW answer \in {"none"} \cup ExecutionState,
         Return(r, answer)
  PROVE  /\ pc' \in [Runner -> {"idle", "load", "decide"} \cup Looping]
         /\ call' \in [Runner -> Call]
         /\ outcome' \in [Runner -> {"none"} \cup ExecutionState]
<1>1. call[r].id \in Identity
  BY DEF TypeOK, Call
<1>2. Fresh(call[r].id, 0, 0) \in Call
  BY <1>1, FreshType
<1> QED BY <1>2 DEF Return, TypeOK

LEMMA GoToType ==
  ASSUME TypeOK, NEW r \in Runner,
         NEW p \in {"idle", "load", "decide"} \cup Looping, GoTo(r, p)
  PROVE  /\ pc' \in [Runner -> {"idle", "load", "decide"} \cup Looping]
         /\ outcome' \in [Runner -> {"none"} \cup ExecutionState]
  BY DEF GoTo, TypeOK

LEMMA SavingType ==
  ASSUME NEW c \in Call, NEW st \in {"running", "failed", "verified"},
         NEW nx \in {"step", "saved", "complete", "idle"}
  PROVE  Saving(c, st, nx) \in Call
  BY DEF Saving, Call

LEMMA SeenType ==
  ASSUME NEW c \in Call, NEW k \in Checkpoint \cup {None}
  PROVE  [c EXCEPT !.seen = k] \in Call
  BY DEF Call

LEMMA RecordType ==
  ASSUME TypeOK, NEW s \in ExecutionState, AppendRecord([audit EXCEPT !.last = s])
  PROVE  audit' \in AuditLog
<1>1. audit' = [audit EXCEPT !.last = s] /\ audit \in AuditLog
  BY DEF AppendRecord, TypeOK
<1> QED BY <1>1 DEF AuditLog

LEMMA StartingType ==
  ASSUME TypeOK, NEW r \in Runner, Starting(r)
  PROVE  TypeOK'
<1>1. ASSUME Enter(r) PROVE TypeOK'
  <2>1. CASE audit.intact
    <3>1. PICK i \in Identity, n \in 0..MaxRetries, b \in 0..Budget :
            call' = [call EXCEPT ![r] = Fresh(i, n, b)]
      BY <1>1, <2>1 DEF Enter
    <3>2. Fresh(i, n, b) \in Call
      BY FreshType
    <3> QED BY <1>1, <2>1, <3>1, <3>2, GoToType DEF Enter, TypeOK, files
  <2>2. CASE ~audit.intact
    BY <1>1, <2>2, ReturnType DEF Enter, TypeOK, files, ExecutionState
  <2> QED BY <2>1, <2>2
<1>2. ASSUME AdmissionBlocked(r) PROVE TypeOK'
  <2>1. audit' \in AuditLog
    <3>1. "blocked" \in ExecutionState
      BY DEF ExecutionState
    <3> QED BY <1>2, <3>1, RecordType DEF AdmissionBlocked
  <2> QED BY <1>2, <2>1, ReturnType DEF AdmissionBlocked, TypeOK, ExecutionState
<1>3. ASSUME Load(r) PROVE TypeOK'
  <2>1. [call[r] EXCEPT !.seen = checkpoint] \in Call
    BY SeenType DEF TypeOK
  <2> QED BY <1>3, <2>1, GoToType DEF Load, TypeOK, files
<1>4. ASSUME DecideResume(r) PROVE TypeOK'
  <2>1. CASE Matches(call[r]) /\ Resumable(call[r])
    <3>1. call[r] \in Call /\ audit.verified \in SUBSET StepId
      BY DEF TypeOK, AuditLog
    <3>2. call[r].seen \in Checkpoint
      BY <1>4, <3>1 DEF DecideResume, Call
    <3>3. call[r].seen.attempts \in Nat
      BY <3>2 DEF Checkpoint
    <3>5. Resumed(call[r]) \in Call
      BY <3>1, <3>3 DEF Resumed, Call
    <3> QED BY <1>4, <2>1, <3>5, GoToType DEF DecideResume, TypeOK, files, Looping
  <2>2. CASE ~(Matches(call[r]) /\ Resumable(call[r]))
    <3>1. Refusal(call[r]) \in ExecutionState
      BY DEF Refusal, ExecutionState
    <3> QED BY <1>4, <2>2, <3>1, ReturnType DEF DecideResume, TypeOK, files
  <2> QED BY <2>1, <2>2
<1>5. ASSUME DecideFresh(r) PROVE TypeOK'
  <2>1. CASE Unfinished
    BY <1>5, <2>1, ReturnType DEF DecideFresh, TypeOK, files, ExecutionState
  <2>2. CASE ~Unfinished
    BY <1>5, <2>2, GoToType DEF DecideFresh, TypeOK, files, Looping
  <2> QED BY <2>1, <2>2
<1>6. ASSUME Begin(r) PROVE TypeOK'
  <2>1. audit' \in AuditLog
    <3>1. "running" \in ExecutionState
      BY DEF ExecutionState
    <3> QED BY <1>6, <3>1, RecordType DEF Begin
  <2>2. [call[r] EXCEPT !.seen = None] \in Call
    BY SeenType DEF TypeOK
  <2>3. Saving([call[r] EXCEPT !.seen = None], "running", "step") \in Call
    BY <2>2, SavingType
  <2> QED BY <1>6, <2>1, <2>3, GoToType DEF Begin, TypeOK, Looping
<1> QED BY <1>1, <1>2, <1>3, <1>4, <1>5, <1>6 DEF Starting

LEMMA SaveType ==
  ASSUME TypeOK, NEW r \in Runner, Save(r)
  PROVE  TypeOK'
<1>1. ASSUME SaveWrite(r) PROVE TypeOK'
  <2>1. tmp' \in Checkpoint
    BY <1>1 DEF SaveWrite, TypeOK, Call, Checkpoint
  <2> QED BY <1>1, <2>1, GoToType DEF SaveWrite, TypeOK, Looping
<1>2. ASSUME SaveReplace(r) PROVE TypeOK'
  BY <1>2, GoToType DEF SaveReplace, TypeOK, Looping
<1>3. ASSUME SaveRaises(r) PROVE TypeOK'
  BY <1>3, ReturnType DEF SaveRaises, Raise, TypeOK, files
<1>4. ASSUME SaveUnlink(r) PROVE TypeOK'
  <2>1. CASE call[r].next = "idle"
    BY <1>4, <2>1, ReturnType DEF SaveUnlink, TypeOK, ExecutionState
  <2>2. CASE call[r].next # "idle"
    <3>1. call[r].next \in Looping
      BY <2>2 DEF TypeOK, Call, Looping
    <3> QED BY <1>4, <2>2, <3>1, GoToType DEF SaveUnlink, TypeOK
  <2> QED BY <2>1, <2>2
<1> QED BY <1>1, <1>2, <1>3, <1>4 DEF Save

LEMMA LoopType ==
  ASSUME TypeOK, NEW r \in Runner, Loop(r), pc[r] \in AtStep => call[r].step \in StepId
  PROVE  TypeOK'
<1> DEFINE c == call[r]
<1>c. c \in Call /\ c.step \in Nat /\ c.tries \in Nat /\ c.attempts \in Nat
      /\ c.left \in Nat /\ c.completed \in SUBSET StepId
  BY DEF TypeOK, Call
<1>l. \A st \in ExecutionState : [audit EXCEPT !.last = st] \in AuditLog
  BY DEF TypeOK, AuditLog
<1>e. {"running", "blocked", "failed", "verified"} \subseteq ExecutionState
  BY DEF ExecutionState
<1>1. ASSUME SkipStep(r) PROVE TypeOK'
  <2>1. [c EXCEPT !.step = @ + 1] \in Call
    BY <1>c DEF Call
  <2> QED BY <1>1, <2>1, <1>l, <1>e DEF SkipStep, AppendRecord, TypeOK
<1>2. ASSUME Authorize(r) PROVE TypeOK'
  <2>1. [c EXCEPT !.tries = 0] \in Call
    BY <1>c DEF Call
  <2> QED BY <1>2, <2>1, GoToType DEF Authorize, TypeOK, files, Looping
<1>3. ASSUME Deny(r) PROVE TypeOK'
  BY <1>3, <1>l, <1>e, ReturnType DEF Deny, AppendRecord, TypeOK
<1>4. ASSUME Incompatible(r) PROVE TypeOK'
  BY <1>4, <1>e, ReturnType DEF Incompatible, TypeOK, files
<1>5. ASSUME Attempt(r) PROVE TypeOK'
  <2>1. Paid(c.left) \in Nat
    BY <1>c DEF Paid
  <2>2. [[c EXCEPT !.attempts = c.attempts + 1] EXCEPT !.left = Paid(c.left)] \in Call
    <3>1. [c EXCEPT !.attempts = c.attempts + 1] \in Call
      BY <1>c DEF Call
    <3> QED BY <2>1, <3>1 DEF Call
  <2>3. call' = [call EXCEPT ![r] =
                   [[c EXCEPT !.attempts = c.attempts + 1] EXCEPT !.left = Paid(c.left)]]
    BY <1>5, <1>c DEF Attempt, TypeOK, Call
  <2>4. call' \in [Runner -> Call]
    BY <2>2, <2>3 DEF TypeOK
  <2> QED BY <1>5, <2>4, GoToType DEF Attempt, TypeOK, files, Looping
<1>6. ASSUME RunTool(r) PROVE TypeOK'
  <2>1. runs' \in [StepId -> Nat]
    <3>1. CASE c.step \in StepId
      BY <1>6, <3>1 DEF RunTool, TypeOK
    <3>2. CASE c.step \notin StepId
      BY <1>6, <3>2 DEF RunTool, TypeOK
    <3> QED BY <3>1, <3>2
  <2> QED BY <1>6, <2>1, GoToType DEF RunTool, TypeOK, files, Looping
<1>7. ASSUME RecordVerified(r) PROVE TypeOK'
  <2>0. c.step \in StepId
    BY <1>7 DEF RecordVerified, AtStep
  <2>1. audit' \in AuditLog
    BY <1>7, <2>0, <1>e DEF RecordVerified, AppendRecord, TypeOK, AuditLog
  <2>2. [c EXCEPT !.completed = c.completed \cup {c.step}] \in Call
    BY <1>c, <2>0 DEF Call
  <2>3. Saving([c EXCEPT !.completed = c.completed \cup {c.step}], "running", "saved") \in Call
    BY <2>2, SavingType
  <2>4. call' = [call EXCEPT ![r] =
          Saving([c EXCEPT !.completed = c.completed \cup {c.step}], "running", "saved")]
    BY <1>7 DEF RecordVerified, TypeOK
  <2>5. call' \in [Runner -> Call]
    BY <2>3, <2>4 DEF TypeOK
  <2> QED BY <1>7, <2>1, <2>5, GoToType DEF RecordVerified, TypeOK, Looping
<1>8. ASSUME RecordFailure(r) PROVE TypeOK'
  <2>1. [c EXCEPT !.tries = c.tries + 1] \in Call
    BY <1>c DEF Call
  <2> QED BY <1>8, <2>1, <1>l, <1>e, GoToType DEF RecordFailure, AppendRecord, TypeOK, Looping
<1>9. ASSUME Fail(r) PROVE TypeOK'
  <2>1. Saving(c, GivenUp, "idle") \in Call
    BY <1>c, SavingType DEF GivenUp
  <2> QED BY <1>9, <2>1, <1>l, <1>e, GoToType DEF Fail, AppendRecord, TypeOK, Looping
<1>10. ASSUME CheckpointSaved(r) PROVE TypeOK'
  <2>1. [c EXCEPT !.step = c.step + 1] \in Call
    BY <1>c DEF Call
  <2> QED BY <1>10, <2>1, <1>l, <1>e, GoToType DEF CheckpointSaved, AppendRecord, TypeOK, Looping
<1>11. ASSUME Finish(r) PROVE TypeOK'
  <2>1. Saving(c, "verified", "complete") \in Call
    BY <1>c, SavingType
  <2> QED BY <1>11, <2>1, GoToType DEF Finish, TypeOK, files, Looping
<1>12. ASSUME Complete(r) PROVE TypeOK'
  <2>1. audit' \in AuditLog
    BY <1>12, <1>e DEF Complete, AppendRecord, TypeOK, AuditLog
  <2> QED BY <1>12, <2>1, <1>e, ReturnType DEF Complete, TypeOK
<1> QED BY <1>1, <1>2, <1>3, <1>4, <1>5, <1>6, <1>7, <1>8, <1>9, <1>10, <1>11, <1>12 DEF Loop

LEMMA FailureType ==
  ASSUME TypeOK, NEW r \in Runner, Failure(r)
  PROVE  TypeOK'
<1>1. ASSUME AppendRefused(r) \/ Crash(r) PROVE TypeOK'
  BY <1>1, ReturnType DEF AppendRefused, Crash, Raise, TypeOK, files
<1>2. ASSUME CrashInAppend(r) PROVE TypeOK'
  <2>1. audit' \in AuditLog
    BY <1>2 DEF CrashInAppend, TypeOK, AuditLog
  <2> QED BY <1>2, <2>1, ReturnType DEF CrashInAppend, Raise, TypeOK
<1> QED BY <1>1, <1>2 DEF Failure

-----------------------------------------------------------------------------
(* Any number of callers: the steps in order, and the evidence. *)

\* A call at p with local variables c, the audit log, and the runs so far: what
\* it believes to be completed is, in order, and has evidence.
Sound(p, c, log, n) ==
  /\ c.step >= 1
  /\ p \in AtStep => c.step \in StepId
  /\ c.completed \subseteq log.verified
  /\ 1..(c.step - 1) \subseteq c.completed
  /\ p = "record" => n[c.step] > 0
  /\ p = "saved" \/ (p \in Writing /\ c.next = "saved") => c.step \in c.completed
  /\ p = "complete" \/ (p \in Writing /\ c.next = "complete") => c.completed = StepId

Backed(cp, log) == cp # None => cp.completed \subseteq log.verified

\* What the files and the history show.
Evidence(log, n) ==
  /\ \A s \in StepId : n[s] > 0 => 1..(s - 1) \subseteq log.verified
  /\ \A s \in log.verified : n[s] > 0

CallsSound == \A r \in Runner : Sound(pc[r], call[r], audit, runs)
ReportsSound == \A r \in Runner : outcome[r] = "verified" => audit.verified = StepId
FilesSound == Backed(checkpoint, audit) /\ Backed(tmp, audit) /\ Evidence(audit, runs)

EngineInv == TypeOK /\ CallsSound /\ ReportsSound /\ FilesSound

LEMMA FreshSound ==
  ASSUME NEW p \in {"idle", "load", "decide", "begin"}, NEW i, NEW k, NEW b, NEW log, NEW n
  PROVE  Sound(p, Fresh(i, k, b), log, n)
  BY DEF Sound, Fresh, AtStep, Writing

\* The audit log and the runs only grow, and a call changes its own state only.
Grows(log, n, log2, n2) ==
  /\ log.verified \subseteq log2.verified
  /\ \A s \in StepId : n[s] > 0 => n2[s] > 0

LEMMA StaysSound ==
  ASSUME NEW p, NEW c, NEW log, NEW n, NEW log2, NEW n2,
         Sound(p, c, log, n), Grows(log, n, log2, n2)
  PROVE  Sound(p, c, log2, n2)
  BY DEF Sound, Grows, AtStep

Alone(r) ==
  \A q \in Runner : q # r =>
    pc'[q] = pc[q] /\ call'[q] = call[q] /\ outcome'[q] = outcome[q]

LEMMA ReturnAlone ==
  ASSUME TypeOK, NEW r \in Runner, NEW answer, Return(r, answer)
  PROVE  /\ Alone(r) /\ pc'[r] = "idle" /\ outcome'[r] = answer
         /\ call'[r] = Fresh(call[r].id, 0, 0)
  BY DEF Return, Alone, TypeOK

LEMMA GoToAlone ==
  ASSUME TypeOK, NEW r \in Runner, NEW p, GoTo(r, p),
         NEW c, call' = [call EXCEPT ![r] = c]
  PROVE  Alone(r) /\ pc'[r] = p /\ outcome'[r] = outcome[r] /\ call'[r] = c
  BY DEF GoTo, Alone, TypeOK

LEMMA GoToSame ==
  ASSUME TypeOK, NEW r \in Runner, NEW p, GoTo(r, p), UNCHANGED call
  PROVE  Alone(r) /\ pc'[r] = p /\ outcome'[r] = outcome[r] /\ call'[r] = call[r]
  BY DEF GoTo, Alone, TypeOK

\* It is enough to look at the call that moves, and at the files.
LEMMA OneMoves ==
  ASSUME CallsSound, ReportsSound, NEW r \in Runner, TypeOK, TypeOK',
         Alone(r), Grows(audit, runs, audit', runs'),
         Sound(pc'[r], call'[r], audit', runs'),
         outcome'[r] = "verified" => audit'.verified = StepId
  PROVE  CallsSound' /\ ReportsSound'
<1>1. ASSUME NEW q \in Runner PROVE Sound(pc'[q], call'[q], audit', runs')
  BY <1>1, StaysSound DEF Alone, CallsSound
<1>2. ASSUME NEW q \in Runner, outcome'[q] = "verified" PROVE audit'.verified = StepId
  <2>1. CASE q = r
    BY <1>2, <2>1
  <2>2. CASE q # r
    <3>1. audit.verified = StepId
      BY <1>2, <2>2 DEF Alone, ReportsSound
    <3>2. audit'.verified \subseteq StepId
      BY DEF TypeOK, AuditLog
    <3> QED BY <3>1, <3>2 DEF Grows
  <2> QED BY <2>1, <2>2
<1> QED BY <1>1, <1>2 DEF CallsSound, ReportsSound

LEMMA SoundStarting ==
  ASSUME EngineInv, NEW r \in Runner, Starting(r), TypeOK'
  PROVE  CallsSound' /\ ReportsSound' /\ FilesSound'
<1> USE DEF EngineInv
<1>t. runs' = runs /\ checkpoint' = checkpoint /\ tmp' = tmp
      /\ audit'.verified = audit.verified
  BY DEF Starting, Enter, AdmissionBlocked, Load, DecideResume, DecideFresh, Begin,
         files, AppendRecord, TypeOK, AuditLog
<1>f. FilesSound'
  BY <1>t DEF FilesSound, Backed, Evidence
<1>g. Grows(audit, runs, audit', runs')
  BY <1>t DEF Grows
<1>s. Sound(pc[r], call[r], audit, runs) /\ call[r] \in Call
  BY DEF CallsSound, TypeOK
<1>o. outcome[r] = "verified" => audit.verified = StepId
  BY DEF ReportsSound
<1>1. ASSUME NEW answer, answer # "verified" \/ audit.verified = StepId,
             Return(r, answer)
      PROVE  CallsSound' /\ ReportsSound'
  BY <1>1, <1>t, <1>g, ReturnAlone, FreshSound, OneMoves
<1>2. ASSUME Enter(r) PROVE CallsSound' /\ ReportsSound'
  <2>1. CASE audit.intact
    <3>1. PICK i \in Identity, n \in 0..MaxRetries, b \in 0..Budget :
            call' = [call EXCEPT ![r] = Fresh(i, n, b)]
      BY <1>2, <2>1 DEF Enter
    <3>2. GoTo(r, "load")
      BY <1>2, <2>1 DEF Enter
    <3>3. Alone(r) /\ pc'[r] = "load" /\ outcome'[r] = outcome[r] /\ call'[r] = Fresh(i, n, b)
      BY <3>1, <3>2, GoToAlone
    <3> QED BY <3>3, <1>t, <1>g, <1>o, FreshSound, OneMoves
  <2>2. CASE ~audit.intact
    BY <1>1, <1>2, <2>2 DEF Enter
  <2> QED BY <2>1, <2>2
<1>3. ASSUME AdmissionBlocked(r) PROVE CallsSound' /\ ReportsSound'
  BY <1>1, <1>3 DEF AdmissionBlocked
<1>4. ASSUME Load(r) PROVE CallsSound' /\ ReportsSound'
  <2>1. Alone(r) /\ pc'[r] = "decide" /\ outcome'[r] = outcome[r]
        /\ call'[r] = [call[r] EXCEPT !.seen = checkpoint]
    BY <1>4, GoToAlone DEF Load, TypeOK
  <2>2. Sound("decide", [call[r] EXCEPT !.seen = checkpoint], audit, runs)
    BY <1>s, <1>4 DEF Sound, AtStep, Writing, Load, Call
  <2>3. Sound(pc'[r], call'[r], audit', runs')
    BY <2>1, <2>2, <1>t, <1>g, StaysSound
  <2> QED BY <2>1, <2>3, <1>t, <1>g, <1>o, OneMoves
<1>5. ASSUME DecideResume(r) PROVE CallsSound' /\ ReportsSound'
  <2>1. CASE Matches(call[r]) /\ Resumable(call[r])
    <3>1. call' = [call EXCEPT ![r] = Resumed(call[r])] /\ GoTo(r, "begin")
      BY <1>5, <2>1 DEF DecideResume
    <3>2. Alone(r) /\ pc'[r] = "begin" /\ outcome'[r] = outcome[r]
          /\ call'[r] = Resumed(call[r])
      BY <3>1, GoToAlone
    <3>3. Resumed(call[r]).step = call[r].step /\ Resumed(call[r]).completed = audit.verified
          /\ Resumed(call[r]).next = call[r].next
      BY <1>s DEF Resumed, Call
    <3>4. Sound("begin", Resumed(call[r]), audit, runs)
      BY <1>s, <3>3 DEF Sound, AtStep, Writing
    <3>5. Sound(pc'[r], call'[r], audit', runs')
      BY <3>2, <3>4, <1>g, StaysSound
    <3> QED BY <3>2, <3>5, <1>t, <1>g, <1>o, OneMoves
  <2>2. CASE ~(Matches(call[r]) /\ Resumable(call[r]))
    <3>1. Return(r, Refusal(call[r]))
      BY <1>5, <2>2 DEF DecideResume
    <3>2. Refusal(call[r]) # "verified" \/ audit.verified = StepId
      BY DEF Refusal, VerifiedCompletion
    <3> QED BY <1>1, <3>1, <3>2
  <2> QED BY <2>1, <2>2
<1>6. ASSUME DecideFresh(r) PROVE CallsSound' /\ ReportsSound'
  <2>1. CASE Unfinished
    BY <1>1, <1>6, <2>1 DEF DecideFresh
  <2>2. CASE ~Unfinished
    <3>1. Alone(r) /\ pc'[r] = "begin" /\ outcome'[r] = outcome[r] /\ call'[r] = call[r]
      BY <1>6, <2>2, GoToSame DEF DecideFresh
    <3>2. Sound("begin", call[r], audit, runs)
      BY <1>s, <1>6 DEF Sound, AtStep, Writing, DecideFresh
    <3>3. Sound(pc'[r], call'[r], audit', runs')
      BY <3>1, <3>2, <1>g, StaysSound
    <3> QED BY <3>1, <3>3, <1>t, <1>g, <1>o, OneMoves
  <2> QED BY <2>1, <2>2
<1>7. ASSUME Begin(r) PROVE CallsSound' /\ ReportsSound'
  <2> DEFINE c2 == Saving([call[r] EXCEPT !.seen = None], "running", "step")
  <2>1. Alone(r) /\ pc'[r] = "write" /\ outcome'[r] = outcome[r] /\ call'[r] = c2
    BY <1>7, GoToAlone DEF Begin
  <2>2. c2.step = call[r].step /\ c2.completed = call[r].completed /\ c2.next = "step"
    BY <1>s DEF Saving, Call
  <2>3. Sound("write", c2, audit, runs)
    BY <1>s, <2>2 DEF Sound, AtStep, Writing
  <2>4. Sound(pc'[r], call'[r], audit', runs')
    BY <2>1, <2>3, <1>g, StaysSound
  <2> QED BY <2>1, <2>4, <1>t, <1>g, <1>o, OneMoves
<1> QED BY <1>f, <1>2, <1>3, <1>4, <1>5, <1>6, <1>7 DEF Starting

LEMMA SoundSave ==
  ASSUME EngineInv, NEW r \in Runner, Save(r), TypeOK'
  PROVE  CallsSound' /\ ReportsSound' /\ FilesSound'
<1> USE DEF EngineInv
<1>t. runs' = runs /\ audit' = audit
  BY DEF Save, SaveWrite, SaveReplace, SaveRaises, SaveUnlink, files
<1>g. Grows(audit, runs, audit', runs')
  BY <1>t DEF Grows
<1>s. Sound(pc[r], call[r], audit, runs) /\ call[r] \in Call
  BY DEF CallsSound, TypeOK
<1>o. outcome[r] = "verified" => audit.verified = StepId
  BY DEF ReportsSound
<1>f. FilesSound'
  <2>1. ASSUME SaveWrite(r) PROVE Backed(tmp', audit) /\ checkpoint' = checkpoint
    BY <2>1, <1>s DEF SaveWrite, Backed, Sound
  <2>2. ASSUME SaveReplace(r) PROVE Backed(tmp', audit) /\ checkpoint' = tmp
    BY <2>2 DEF SaveReplace, Backed
  <2>3. ASSUME SaveRaises(r) \/ SaveUnlink(r)
        PROVE  Backed(tmp', audit) /\ checkpoint' = checkpoint
    BY <2>3 DEF SaveRaises, SaveUnlink, Backed, files, FilesSound
  <2>4. Backed(tmp', audit) /\ Backed(checkpoint', audit)
    BY <2>1, <2>2, <2>3 DEF Save, FilesSound
  <2> QED BY <2>4, <1>t DEF FilesSound
<1>1. ASSUME NEW answer, answer # "verified", Return(r, answer)
      PROVE  CallsSound' /\ ReportsSound'
  BY <1>1, <1>t, <1>g, ReturnAlone, FreshSound, OneMoves
<1>2. ASSUME NEW p, GoTo(r, p), UNCHANGED call, Sound(p, call[r], audit, runs)
      PROVE  CallsSound' /\ ReportsSound'
  <2>1. Alone(r) /\ pc'[r] = p /\ outcome'[r] = outcome[r] /\ call'[r] = call[r]
    BY <1>2, GoToSame
  <2> QED BY <2>1, <1>2, <1>t, <1>g, <1>o, OneMoves
<1>3. ASSUME SaveWrite(r) PROVE CallsSound' /\ ReportsSound'
  <2>1. Sound("replace", call[r], audit, runs)
    BY <1>s, <1>3 DEF Sound, AtStep, Writing, SaveWrite
  <2> QED BY <2>1, <1>2, <1>3 DEF SaveWrite
<1>4. ASSUME SaveReplace(r) PROVE CallsSound' /\ ReportsSound'
  <2>1. Sound("unlink", call[r], audit, runs)
    BY <1>s, <1>4 DEF Sound, AtStep, Writing, SaveReplace
  <2> QED BY <2>1, <1>2, <1>4 DEF SaveReplace
<1>5. ASSUME SaveRaises(r) PROVE CallsSound' /\ ReportsSound'
  BY <1>1, <1>5 DEF SaveRaises, Raise
<1>6. ASSUME SaveUnlink(r) PROVE CallsSound' /\ ReportsSound'
  <2>1. CASE call[r].next = "idle"
    BY <1>1, <1>6, <2>1 DEF SaveUnlink
  <2>2. CASE call[r].next # "idle"
    <3>1. Sound(call[r].next, call[r], audit, runs)
      BY <1>s, <1>6, <2>2 DEF Sound, AtStep, Writing, SaveUnlink, Call
    <3> QED BY <3>1, <1>2, <1>6, <2>2 DEF SaveUnlink
  <2> QED BY <2>1, <2>2
<1> QED BY <1>f, <1>3, <1>4, <1>5, <1>6 DEF Save

\* The tool's run: the step it is at comes next in the order.
LEMMA SoundRunTool ==
  ASSUME EngineInv, NEW r \in Runner, RunTool(r), TypeOK'
  PROVE  CallsSound' /\ ReportsSound' /\ FilesSound'
<1> USE DEF EngineInv
<1>s. Sound("tool", call[r], audit, runs) /\ call[r] \in Call /\ pc[r] = "tool"
  BY DEF CallsSound, TypeOK, RunTool
<1>t. /\ audit' = audit /\ checkpoint' = checkpoint /\ tmp' = tmp
      /\ runs' = [runs EXCEPT ![call[r].step] = @ + 1]
  BY DEF RunTool, files
<1>a. call[r].step \in StepId /\ runs \in [StepId -> Nat]
  BY <1>s DEF Sound, AtStep, TypeOK
<1>b. \A s \in StepId : runs'[s] = IF s = call[r].step THEN runs[s] + 1 ELSE runs[s]
  BY <1>t, <1>a
<1>g. Grows(audit, runs, audit', runs')
  BY <1>t, <1>a, <1>b DEF Grows
<1>1. Evidence(audit', runs')
  <2>1. ASSUME NEW s \in StepId, runs'[s] > 0 PROVE 1..(s - 1) \subseteq audit.verified
    BY <2>1, <1>s, <1>a, <1>b DEF Sound, FilesSound, Evidence
  <2>2. ASSUME NEW s \in audit.verified PROVE runs'[s] > 0
    <3>1. s \in StepId
      BY DEF TypeOK, AuditLog
    <3>2. runs[s] > 0
      BY DEF FilesSound, Evidence
    <3> QED BY <3>1, <3>2, <1>a, <1>b
  <2> QED BY <2>1, <2>2, <1>t DEF Evidence
<1>2. Alone(r) /\ pc'[r] = "record" /\ outcome'[r] = outcome[r] /\ call'[r] = call[r]
  BY GoToSame DEF RunTool
<1>3. runs'[call[r].step] > 0
  BY <1>a, <1>b
<1>4. Sound("record", call[r], audit, runs')
  BY <1>s, <1>3 DEF Sound, AtStep, Writing
<1> QED BY <1>1, <1>2, <1>4, <1>t, <1>g, OneMoves DEF FilesSound, ReportsSound

\* Its verified result: every earlier step has one already.
LEMMA SoundRecordVerified ==
  ASSUME EngineInv, NEW r \in Runner, RecordVerified(r), TypeOK'
  PROVE  CallsSound' /\ ReportsSound' /\ FilesSound'
<1> USE DEF EngineInv
<1> DEFINE c == call[r]
           d == [c EXCEPT !.completed = c.completed \cup {c.step}]
           c2 == Saving(d, "running", "saved")
<1>s. Sound("record", c, audit, runs) /\ c \in Call /\ pc[r] = "record"
  BY DEF CallsSound, TypeOK, RecordVerified
<1>t. /\ runs' = runs /\ checkpoint' = checkpoint /\ tmp' = tmp
      /\ audit'.verified = audit.verified \cup {c.step}
  BY DEF RecordVerified, AppendRecord, TypeOK, AuditLog
<1>g. Grows(audit, runs, audit', runs')
  BY <1>t DEF Grows
<1>1. FilesSound'
  <2>1. \A s \in audit'.verified : runs'[s] > 0
    BY <1>s, <1>t DEF Sound, FilesSound, Evidence
  <2> QED BY <2>1, <1>t DEF FilesSound, Evidence, Backed
<1>2. Alone(r) /\ pc'[r] = "write" /\ outcome'[r] = outcome[r] /\ call'[r] = c2
  <2>1. call' = [call EXCEPT ![r] = c2]
    BY DEF RecordVerified, TypeOK
  <2> QED BY <2>1, GoToAlone DEF RecordVerified
<1>3. c2.step = c.step /\ c2.completed = c.completed \cup {c.step} /\ c2.next = "saved"
  BY <1>s DEF Saving, Call
<1>4. Sound("write", c2, audit', runs')
  BY <1>s, <1>3, <1>t DEF Sound, AtStep, Writing
<1>5. outcome'[r] = "verified" => audit'.verified = StepId
  <2>1. c.step \in StepId
    BY <1>s DEF Sound, AtStep
  <2> QED BY <2>1, <1>2, <1>t DEF ReportsSound
<1> QED BY <1>1, <1>2, <1>4, <1>5, <1>t, <1>g, OneMoves

LEMMA SoundLoop ==
  ASSUME EngineInv, NEW r \in Runner, Loop(r), TypeOK'
  PROVE  CallsSound' /\ ReportsSound' /\ FilesSound'
<1> USE DEF EngineInv
<1> DEFINE c == call[r]
<1>c. CASE RunTool(r)
  BY <1>c, SoundRunTool
<1>d. CASE RecordVerified(r)
  BY <1>d, SoundRecordVerified
<1>e. CASE ~RunTool(r) /\ ~RecordVerified(r)
  <2>t. /\ runs' = runs /\ checkpoint' = checkpoint /\ tmp' = tmp
        /\ audit'.verified = audit.verified
    BY <1>e DEF Loop, SkipStep, Authorize, Deny, Incompatible, Attempt, RecordFailure, Fail,
       CheckpointSaved, Finish, Complete, AppendRecord, files, TypeOK, AuditLog
  <2>f. FilesSound'
    BY <2>t DEF FilesSound, Backed, Evidence
  <2>g. Grows(audit, runs, audit', runs')
    BY <2>t DEF Grows
  <2>s. Sound(pc[r], c, audit, runs) /\ c \in Call /\ audit.verified \subseteq StepId
    BY DEF CallsSound, TypeOK, AuditLog
  <2>o. outcome[r] = "verified" => audit.verified = StepId
    BY DEF ReportsSound
  <2>1. ASSUME NEW answer, answer # "verified" \/ audit.verified = StepId, Return(r, answer)
        PROVE  CallsSound' /\ ReportsSound'
    BY <2>1, <2>t, <2>g, ReturnAlone, FreshSound, OneMoves
  <2>2. ASSUME NEW p, NEW d, pc'[r] = p, outcome'[r] = outcome[r], Alone(r), call'[r] = d,
               Sound(p, d, audit, runs)
        PROVE  CallsSound' /\ ReportsSound'
    <3>1. Sound(pc'[r], call'[r], audit', runs')
      BY <2>2, <2>g, StaysSound
    <3> QED BY <3>1, <2>2, <2>t, <2>g, <2>o, OneMoves
  <2>3. ASSUME SkipStep(r) PROVE CallsSound' /\ ReportsSound'
    <3> DEFINE d == [c EXCEPT !.step = c.step + 1]
    <3>1. pc'[r] = "step" /\ outcome'[r] = outcome[r] /\ Alone(r) /\ call'[r] = d
      BY <2>3 DEF SkipStep, Alone, TypeOK
    <3>2. d.step = c.step + 1 /\ d.completed = c.completed /\ c.step \in Nat
      BY <2>s DEF Call
    <3>3. c.step \in c.completed /\ Sound("step", c, audit, runs)
      BY <2>3, <2>s DEF SkipStep, Pending, Sound
    <3>4. Sound("step", d, audit, runs)
      BY <3>2, <3>3 DEF Sound, AtStep, Writing
    <3> HIDE DEF d
    <3> QED BY <2>2, <3>1, <3>4
  <2>4. ASSUME Authorize(r) PROVE CallsSound' /\ ReportsSound'
    <3> DEFINE d == [c EXCEPT !.tries = 0]
    <3>1. pc'[r] = "try" /\ outcome'[r] = outcome[r] /\ Alone(r) /\ call'[r] = d
      BY <2>4, GoToAlone DEF Authorize
    <3>2. d.step = c.step /\ d.completed = c.completed /\ c.step \in Nat /\ c.step <= Steps
      BY <2>4, <2>s DEF Call, Authorize, Pending
    <3>3. Sound("step", c, audit, runs)
      BY <2>4, <2>s DEF Authorize
    <3>4. Sound("try", d, audit, runs)
      BY <3>2, <3>3 DEF Sound, AtStep, Writing
    <3> HIDE DEF d
    <3> QED BY <2>2, <3>1, <3>4
  <2>5. ASSUME Deny(r) \/ Incompatible(r) PROVE CallsSound' /\ ReportsSound'
    BY <2>1, <2>5 DEF Deny, Incompatible
  <2>6. ASSUME Attempt(r) PROVE CallsSound' /\ ReportsSound'
    <3> DEFINE d == [c EXCEPT !.attempts = @ + 1, !.left = Paid(@)]
               p == IF c.left = 0 THEN "overspent" ELSE "tool"
    <3>1. pc'[r] = p /\ outcome'[r] = outcome[r] /\ Alone(r)
      BY <2>6 DEF Attempt, GoTo, Alone, TypeOK
    <3>2. call'[r].step = c.step /\ call'[r].completed = c.completed
      BY <2>6, <2>s DEF Attempt, Call, TypeOK
    <3>3. Sound("try", c, audit, runs)
      BY <2>6, <2>s DEF Attempt
    <3>4. Sound(p, call'[r], audit, runs)
      BY <3>2, <3>3 DEF Sound, AtStep, Writing
    <3> HIDE DEF p
    <3> QED BY <2>2, <3>1, <3>4
  <2>7. ASSUME RecordFailure(r) PROVE CallsSound' /\ ReportsSound'
    <3> DEFINE d == [c EXCEPT !.tries = c.tries + 1]
               p == IF c.tries < c.retries THEN "try" ELSE "exhausted"
    <3>1. pc'[r] = p /\ outcome'[r] = outcome[r] /\ Alone(r) /\ call'[r] = d
      BY <2>7 DEF RecordFailure, GoTo, Alone, TypeOK
    <3>2. d.step = c.step /\ d.completed = c.completed
      BY <2>s DEF Call
    <3>3. Sound("record", c, audit, runs)
      BY <2>7, <2>s DEF RecordFailure
    <3>4. Sound(p, d, audit, runs)
      BY <3>2, <3>3 DEF Sound, AtStep, Writing
    <3> HIDE DEF d, p
    <3> QED BY <2>2, <3>1, <3>4
  <2>8. ASSUME Fail(r) PROVE CallsSound' /\ ReportsSound'
    <3> DEFINE d == Saving(c, GivenUp, "idle")
    <3>1. pc'[r] = "write" /\ outcome'[r] = outcome[r] /\ Alone(r) /\ call'[r] = d
      BY <2>8 DEF Fail, GoTo, Alone, TypeOK
    <3>2. d.step = c.step /\ d.completed = c.completed /\ d.next = "idle"
      BY <2>s DEF Saving, Call
    <3>4. Sound("write", d, audit, runs)
      BY <3>2, <2>s DEF Sound, AtStep, Writing
    <3> HIDE DEF d
    <3> QED BY <2>2, <3>1, <3>4
  <2>9. ASSUME CheckpointSaved(r) PROVE CallsSound' /\ ReportsSound'
    <3> DEFINE d == [c EXCEPT !.step = c.step + 1]
    <3>1. pc'[r] = "step" /\ outcome'[r] = outcome[r] /\ Alone(r) /\ call'[r] = d
      BY <2>9 DEF CheckpointSaved, GoTo, Alone, TypeOK
    <3>2. d.step = c.step + 1 /\ d.completed = c.completed /\ c.step \in Nat
      BY <2>s DEF Call
    <3>3. Sound("saved", c, audit, runs)
      BY <2>9, <2>s DEF CheckpointSaved
    <3>4. Sound("step", d, audit, runs)
      BY <3>2, <3>3 DEF Sound, AtStep, Writing
    <3> HIDE DEF d
    <3> QED BY <2>2, <3>1, <3>4
  <2>10. ASSUME Finish(r) PROVE CallsSound' /\ ReportsSound'
    <3> DEFINE d == Saving(c, "verified", "complete")
    <3>1. pc'[r] = "write" /\ outcome'[r] = outcome[r] /\ Alone(r) /\ call'[r] = d
      BY <2>10 DEF Finish, GoTo, Alone, TypeOK
    <3>2. d.step = c.step /\ d.completed = c.completed /\ d.next = "complete"
      BY <2>s DEF Saving, Call
    <3>3. c.completed = StepId
      <4>1. c.step \in Nat /\ c.step > Steps /\ c.completed \subseteq StepId
        BY <2>10, <2>s DEF Finish, Finished, Call
      <4>2. 1..(c.step - 1) \subseteq c.completed
        BY <2>s DEF Sound
      <4>3. ASSUME NEW s \in StepId PROVE s \in 1..(c.step - 1)
        BY <4>1, <4>3
      <4> QED BY <4>1, <4>2, <4>3
    <3>4. Sound("write", d, audit, runs)
      BY <3>2, <3>3, <2>s DEF Sound, AtStep, Writing
    <3> HIDE DEF d
    <3> QED BY <2>2, <3>1, <3>4
  <2>11. ASSUME Complete(r) PROVE CallsSound' /\ ReportsSound'
    <3>1. audit.verified = StepId
      BY <2>11, <2>s DEF Complete, Sound
    <3> QED BY <2>1, <2>11, <3>1 DEF Complete
  <2> QED BY <1>e, <2>f, <2>3, <2>4, <2>5, <2>6, <2>7, <2>8, <2>9, <2>10, <2>11 DEF Loop
<1> QED BY <1>c, <1>d, <1>e

LEMMA SoundFailure ==
  ASSUME EngineInv, NEW r \in Runner, Failure(r), TypeOK'
  PROVE  CallsSound' /\ ReportsSound' /\ FilesSound'
<1> USE DEF EngineInv
<1>1. /\ runs' = runs /\ checkpoint' = checkpoint /\ tmp' = tmp
      /\ audit'.verified = audit.verified
  BY DEF Failure, AppendRefused, Crash, CrashInAppend, files, TypeOK, AuditLog
<1>2. Return(r, "none")
  BY DEF Failure, AppendRefused, Crash, CrashInAppend, Raise
<1>3. FilesSound'
  BY <1>1 DEF FilesSound, Backed, Evidence
<1>4. Grows(audit, runs, audit', runs')
  BY <1>1 DEF Grows
<1> QED BY <1>1, <1>2, <1>3, <1>4, ReturnAlone, FreshSound, OneMoves

-----------------------------------------------------------------------------
LEMMA EngineInit == Init => EngineInv
<1> SUFFICES ASSUME Init PROVE EngineInv
  OBVIOUS
<1>1. TypeOK
  BY InitType
<1>2. CallsSound
  <2>1. ASSUME NEW r \in Runner PROVE Sound(pc[r], call[r], audit, runs)
    <3>1. PICK i \in Identity : call[r] = Fresh(i, 0, 0)
      BY DEF Init
    <3> QED BY <3>1, FreshSound DEF Init
  <2> QED BY <2>1 DEF CallsSound
<1>3. ReportsSound /\ FilesSound
  BY DEF Init, ReportsSound, FilesSound, Backed, Evidence
<1> QED BY <1>1, <1>2, <1>3 DEF EngineInv

LEMMA EngineStep == EngineInv /\ [Next]_vars => EngineInv'
<1> SUFFICES ASSUME EngineInv, [Next]_vars PROVE EngineInv'
  OBVIOUS
<1>1. CASE UNCHANGED vars
  BY <1>1 DEF vars, EngineInv, TypeOK, CallsSound, ReportsSound, FilesSound, Sound, Backed,
     Evidence
<1>2. ASSUME NEW r \in Runner, Acts(r) PROVE EngineInv'
  <2>1. pc[r] \in AtStep => call[r].step \in StepId
    BY DEF EngineInv, CallsSound, Sound
  <2>2. TypeOK'
    BY <1>2, <2>1, StartingType, SaveType, LoopType, FailureType DEF Acts, EngineInv
  <2>3. CallsSound' /\ ReportsSound' /\ FilesSound'
    BY <1>2, <2>2, SoundStarting, SoundSave, SoundLoop, SoundFailure DEF Acts
  <2> QED BY <2>2, <2>3 DEF EngineInv
<1> QED BY <1>1, <1>2 DEF Next, Acts

\* The inductive invariant, for any number of concurrent callers.
THEOREM EngineInvariant == Spec => []EngineInv
  BY EngineInit, EngineStep, PTL DEF Spec

\* Every variable keeps its type.
THEOREM EngineTypes == Spec => []TypeOK
<1>1. EngineInv => TypeOK
  BY DEF EngineInv
<1> QED BY <1>1, EngineInvariant, PTL

\* Steps run in the order of the plan, each after verified results of all
\* earlier ones, for any number of concurrent callers.
THEOREM StepsRunInOrder == Spec => []StepsInOrder
<1>1. EngineInv => StepsInOrder
  BY DEF EngineInv, FilesSound, Evidence, StepsInOrder
<1> QED BY <1>1, EngineInvariant, PTL

\* A call returns VERIFIED only when every step ran and was verified.
THEOREM VerifiedHasEvidence == Spec => []VerifiedIsBacked
<1>1. EngineInv => VerifiedIsBacked
  BY DEF EngineInv, ReportsSound, FilesSound, Evidence, VerifiedIsBacked
<1> QED BY <1>1, EngineInvariant, PTL

\* The checkpoint claims nothing that the audit log does not prove.
THEOREM CheckpointHasEvidence == Spec => []CheckpointIsBacked
<1>1. EngineInv => CheckpointIsBacked
  BY DEF EngineInv, FilesSound, Backed, CheckpointIsBacked
<1> QED BY <1>1, EngineInvariant, PTL

-----------------------------------------------------------------------------
(* One caller at a time: what it knows is what the files say. *)

CheckpointOf(c) ==
  [identity |-> c.id, state |-> c.state, completed |-> c.completed, attempts |-> c.attempts]

\* The call has saved the end of the execution.
HasEnded(p, c) == p = "complete" \/ (p = "unlink" /\ c.state # "running")

\* The only call, at p with local variables c and an earlier result o, while
\* the files hold the checkpoint cp, the temporary file t and the audit log.
Sole(p, c, o, cp, t, log) ==
  /\ cp = None => log.verified = {}
  /\ p \in {"load", "decide"} => c.completed = {}
  /\ p = "decide" => c.seen = cp
  /\ p \in Looping => c.completed = log.verified
  /\ p \in AtStep => c.step \notin c.completed
  /\ p \in Looping /\ ~HasEnded(p, c) => cp = None \/ cp.state = "running"
  /\ p \in Writing => \/ c.state = "running" /\ c.next \in {"step", "saved"}
                      \/ c.state = "verified" /\ c.next = "complete"
                      \/ c.state = "failed" /\ c.next = "idle" /\ c.step \in StepId \ c.completed
  /\ p = "replace" => t = CheckpointOf(c)
  /\ p = "unlink" => cp # None /\ cp.state = c.state
  /\ p = "complete" => cp # None /\ cp.state = "verified"
  /\ p \in Looping => cp = None \/ cp.identity = c.id
  /\ p \in AtStep \cup {"step", "saved"} => cp # None
  /\ p \in {"write", "replace"} /\ c.next # "step" => cp # None
  /\ o \in {"failed", "verified"} => cp # None /\ cp.state = o

SoleInv == \A r \in Runner : Sole(pc[r], call[r], outcome[r], checkpoint, tmp, audit)

LEMMA SoleEnough ==
  ASSUME OneCaller, NEW r \in Runner,
         Sole(pc'[r], call'[r], outcome'[r], checkpoint', tmp', audit')
  PROVE  SoleInv'
  BY DEF OneCaller, SoleInv

\* A call that returns leaves only its result to compare with the checkpoint.
LEMMA SoleReturn ==
  ASSUME OneCaller, TypeOK, NEW r \in Runner, NEW answer, Return(r, answer),
         answer \in {"failed", "verified"} => checkpoint' # None /\ checkpoint'.state = answer,
         checkpoint' = None => audit'.verified = {}
  PROVE  SoleInv'
<1>1. pc'[r] = "idle" /\ outcome'[r] = answer
  BY ReturnAlone
<1>2. Sole("idle", call'[r], answer, checkpoint', tmp', audit')
  BY DEF Sole, Looping, AtStep, Writing
<1> QED BY <1>1, <1>2, SoleEnough

LEMMA SoleStarting ==
  ASSUME OneCaller, EngineInv, SoleInv, NEW r \in Runner, Starting(r)
  PROVE  SoleInv'
<1> DEFINE c == call[r]
<1>t. TypeOK /\ c \in Call
  BY DEF EngineInv, TypeOK
<1>s. Sole(pc[r], c, outcome[r], checkpoint, tmp, audit)
  BY DEF SoleInv
<1>n. checkpoint' = None => audit'.verified = {}
  <2>1. checkpoint' = checkpoint /\ audit'.verified = audit.verified
    BY <1>t DEF Starting, Enter, AdmissionBlocked, Load, DecideResume, DecideFresh, Begin,
       files, AppendRecord, TypeOK, AuditLog
  <2> QED BY <1>s, <2>1 DEF Sole
<1>1. ASSUME Enter(r) PROVE SoleInv'
  <2>1. CASE audit.intact
    <3>1. PICK i \in Identity, n \in 0..MaxRetries, b \in 0..Budget :
            call' = [call EXCEPT ![r] = Fresh(i, n, b)]
      BY <1>1, <2>1 DEF Enter
    <3>a. pc'[r] = "load" /\ outcome'[r] = outcome[r] /\ call'[r] = Fresh(i, n, b)
      BY <1>1, <1>t, <2>1, <3>1, GoToAlone DEF Enter
    <3>2. checkpoint' = checkpoint /\ call'[r].completed = {}
      BY <1>1, <3>a DEF Enter, files, Fresh
    <3>3. Sole(pc'[r], call'[r], outcome'[r], checkpoint', tmp', audit')
      BY <1>s, <1>n, <3>a, <3>2 DEF Sole, Looping, AtStep, Writing
    <3> QED BY <3>3, SoleEnough
  <2>2. CASE ~audit.intact
    BY <1>1, <1>t, <2>2, SoleReturn, <1>n DEF Enter
  <2> QED BY <2>1, <2>2
<1>2. ASSUME AdmissionBlocked(r) PROVE SoleInv'
  BY <1>2, <1>t, SoleReturn, <1>n DEF AdmissionBlocked
<1>3. ASSUME Load(r) PROVE SoleInv'
  <2>0. /\ GoTo(r, "decide") /\ checkpoint' = checkpoint /\ pc[r] = "load"
        /\ call' = [call EXCEPT ![r] = [c EXCEPT !.seen = checkpoint]]
    BY <1>3, <1>t DEF Load, files, TypeOK
  <2>1. /\ pc'[r] = "decide" /\ outcome'[r] = outcome[r]
        /\ call'[r].seen = checkpoint /\ call'[r].completed = c.completed
    <3>1. pc'[r] = "decide" /\ outcome'[r] = outcome[r]
          /\ call'[r] = [c EXCEPT !.seen = checkpoint]
      BY <1>t, <2>0, GoToAlone
    <3> QED BY <1>t, <3>1 DEF Call
  <2>2. Sole(pc'[r], call'[r], outcome'[r], checkpoint', tmp', audit')
    BY <1>s, <1>n, <2>0, <2>1 DEF Sole, Looping, AtStep, Writing
  <2> QED BY <2>2, SoleEnough
<1>4. ASSUME DecideResume(r) PROVE SoleInv'
  <2>1. c.seen = checkpoint /\ checkpoint # None /\ checkpoint' = checkpoint /\ audit' = audit
    BY <1>4, <1>s DEF DecideResume, Sole, files
  <2>2. CASE Matches(c) /\ Resumable(c)
    <3>1. pc'[r] = "begin" /\ outcome'[r] = outcome[r] /\ call'[r] = Resumed(c)
      BY <1>4, <1>t, <2>2, GoToAlone DEF DecideResume
    <3>2. Resumed(c).completed = audit.verified /\ Resumed(c).id = c.id
      BY <1>t DEF Resumed, Call
    <3>3. Sole(pc'[r], call'[r], outcome'[r], checkpoint', tmp', audit')
      BY <1>s, <1>n, <2>1, <2>2, <3>1, <3>2
         DEF Sole, Looping, AtStep, Writing, Matches, Resumable
    <3> QED BY <3>3, SoleEnough
  <2>3. CASE ~(Matches(c) /\ Resumable(c))
    <3>1. Return(r, Refusal(c))
      BY <1>4, <2>3 DEF DecideResume
    <3>2. Refusal(c) \in {"failed", "verified"} => checkpoint.state = Refusal(c)
      BY <2>1 DEF Refusal
    <3> QED BY <1>t, <2>1, <3>1, <3>2, SoleReturn, <1>n
  <2> QED BY <2>2, <2>3
<1>5. ASSUME DecideFresh(r) PROVE SoleInv'
  <2>1. CASE Unfinished
    BY <1>5, <1>t, <2>1, SoleReturn, <1>n DEF DecideFresh
  <2>2. CASE ~Unfinished
    <3>1. /\ pc'[r] = "begin" /\ outcome'[r] = outcome[r] /\ call'[r] = c
          /\ checkpoint' = checkpoint /\ audit' = audit
      BY <1>5, <1>t, <2>2, GoToSame DEF DecideFresh, files
    <3>2. checkpoint = None
      BY <1>5, <1>s DEF DecideFresh, Sole
    <3>3. c.completed = audit.verified
      BY <1>5, <1>s, <3>2 DEF DecideFresh, Sole
    <3>4. Sole(pc'[r], call'[r], outcome'[r], checkpoint', tmp', audit')
      BY <1>s, <1>n, <3>1, <3>2, <3>3 DEF Sole, Looping, AtStep, Writing
    <3> QED BY <3>4, SoleEnough
  <2> QED BY <2>1, <2>2
<1>6. ASSUME Begin(r) PROVE SoleInv'
  <2>1. /\ pc'[r] = "write" /\ outcome'[r] = outcome[r] /\ checkpoint' = checkpoint
        /\ call'[r] = Saving([c EXCEPT !.seen = None], "running", "step")
    BY <1>6, <1>t, GoToAlone DEF Begin
  <2>2. /\ call'[r].completed = c.completed /\ call'[r].id = c.id
        /\ call'[r].state = "running" /\ call'[r].next = "step"
    BY <1>t, <2>1 DEF Saving, Call
  <2>3. audit'.verified = audit.verified
    BY <1>6, <1>t DEF Begin, AppendRecord, TypeOK, AuditLog
  <2>4. Sole(pc'[r], call'[r], outcome'[r], checkpoint', tmp', audit')
    BY <1>6, <1>s, <1>n, <2>1, <2>2, <2>3 DEF Begin, Sole, Looping, AtStep, Writing, HasEnded
  <2> QED BY <2>4, SoleEnough
<1> QED BY <1>1, <1>2, <1>3, <1>4, <1>5, <1>6 DEF Starting

LEMMA SoleSave ==
  ASSUME OneCaller, EngineInv, SoleInv, NEW r \in Runner, Save(r)
  PROVE  SoleInv'
<1> DEFINE c == call[r]
<1>t. TypeOK /\ c \in Call
  BY DEF EngineInv, TypeOK
<1>s. Sole(pc[r], c, outcome[r], checkpoint, tmp, audit)
  BY DEF SoleInv
<1>a. audit' = audit
  BY DEF Save, SaveWrite, SaveReplace, SaveRaises, SaveUnlink, files
<1>1. ASSUME SaveWrite(r) PROVE SoleInv'
  <2>1. /\ pc'[r] = "replace" /\ outcome'[r] = outcome[r] /\ call'[r] = c
        /\ checkpoint' = checkpoint /\ tmp' = CheckpointOf(c)
    BY <1>1, <1>t, GoToSame DEF SaveWrite, CheckpointOf
  <2>2. Sole("replace", c, outcome[r], checkpoint, tmp', audit)
    BY <1>1, <1>s, <2>1 DEF SaveWrite, Sole, Looping, AtStep, Writing, HasEnded
  <2> QED BY <1>a, <2>1, <2>2, SoleEnough
<1>2. ASSUME SaveReplace(r) PROVE SoleInv'
  <2>1. /\ pc'[r] = "unlink" /\ outcome'[r] = outcome[r] /\ call'[r] = c
        /\ checkpoint' = tmp
    BY <1>2, <1>t, GoToSame DEF SaveReplace
  <2>2. checkpoint' # None /\ checkpoint'.identity = c.id /\ checkpoint'.state = c.state
    BY <1>2, <1>s, <2>1 DEF SaveReplace, Sole, CheckpointOf
  <2>3. outcome[r] \notin {"failed", "verified"}
    BY <1>2, <1>s DEF SaveReplace, Sole, Looping, HasEnded
  <2>4. Sole("unlink", c, outcome[r], checkpoint', tmp', audit)
    BY <1>2, <1>s, <2>2, <2>3 DEF SaveReplace, Sole, Looping, AtStep, Writing, HasEnded
  <2> QED BY <1>a, <2>1, <2>4, SoleEnough
<1>3. ASSUME SaveRaises(r) PROVE SoleInv'
  BY <1>3, <1>s, <1>a, <1>t, SoleReturn DEF SaveRaises, Raise, files, Sole
<1>4. ASSUME SaveUnlink(r) PROVE SoleInv'
  <2>0. checkpoint' = checkpoint /\ pc[r] = "unlink" /\ checkpoint # None
        /\ checkpoint.state = c.state
    BY <1>4, <1>s DEF SaveUnlink, Sole
  <2>1. CASE c.next = "idle"
    <3>1. c.state = "failed"
      BY <1>s, <2>0, <2>1 DEF Sole, Writing
    <3> QED BY <1>4, <1>t, <2>0, <2>1, <3>1, SoleReturn DEF SaveUnlink
  <2>2. CASE c.next # "idle"
    <3>1. /\ pc'[r] = c.next /\ outcome'[r] = outcome[r] /\ call'[r] = c
      BY <1>4, <1>t, <2>2, GoToSame DEF SaveUnlink
    <3>2. \/ c.state = "running" /\ c.next \in {"step", "saved"}
          \/ c.state = "verified" /\ c.next = "complete"
      BY <1>s, <2>0, <2>2 DEF Sole, Writing
    <3>3. Sole(c.next, c, outcome[r], checkpoint, tmp', audit)
      BY <1>s, <2>0, <3>2 DEF Sole, Looping, AtStep, Writing, HasEnded
    <3> QED BY <1>a, <2>0, <3>1, <3>3, SoleEnough
  <2> QED BY <2>1, <2>2
<1> QED BY <1>1, <1>2, <1>3, <1>4 DEF Save

LEMMA SoleFailure ==
  ASSUME OneCaller, EngineInv, SoleInv, NEW r \in Runner, Failure(r)
  PROVE  SoleInv'
<1>1. TypeOK /\ Return(r, "none")
  BY DEF EngineInv, Failure, AppendRefused, Crash, CrashInAppend, Raise
<1>2. checkpoint' = checkpoint /\ audit'.verified = audit.verified
  BY <1>1 DEF Failure, AppendRefused, Crash, CrashInAppend, files, TypeOK, AuditLog
<1>3. checkpoint' = None => audit'.verified = {}
  BY <1>2 DEF SoleInv, Sole
<1> QED BY <1>1, <1>3, SoleReturn

LEMMA SoleLoop ==
  ASSUME OneCaller, EngineInv, SoleInv, NEW r \in Runner, Loop(r)
  PROVE  SoleInv'
<1> DEFINE c == call[r]
<1>t. TypeOK /\ c \in Call
  BY DEF EngineInv, TypeOK
<1>s. Sole(pc[r], c, outcome[r], checkpoint, tmp, audit)
  BY DEF SoleInv
<1>i. Sound(pc[r], c, audit, runs)
  BY DEF EngineInv, CallsSound
<1>k. checkpoint' = checkpoint
  BY DEF Loop, SkipStep, Authorize, Deny, Incompatible, Attempt, RunTool, RecordVerified,
     RecordFailure, Fail, CheckpointSaved, Finish, Complete, files
<1>v. CASE RecordVerified(r)
  <2> DEFINE d == [c EXCEPT !.completed = c.completed \cup {c.step}]
             c2 == Saving(d, "running", "saved")
  <2>0. call' = [call EXCEPT ![r] = c2] /\ GoTo(r, "write") /\ pc[r] = "record"
    BY <1>v, <1>t DEF RecordVerified, TypeOK
  <2>1. pc'[r] = "write" /\ outcome'[r] = outcome[r] /\ call'[r] = c2
    BY <1>t, <2>0, GoToAlone
  <2>2. /\ c2.completed = c.completed \cup {c.step} /\ c2.id = c.id
        /\ c2.state = "running" /\ c2.next = "saved"
    BY <1>t DEF Saving, Call
  <2>3. audit'.verified = audit.verified \cup {c.step}
    BY <1>v, <1>t DEF RecordVerified, AppendRecord, TypeOK, AuditLog
  <2>4. Sole("write", c2, outcome[r], checkpoint, tmp', audit')
    BY <1>s, <2>0, <2>2, <2>3 DEF Sole, Looping, AtStep, Writing, HasEnded
  <2> QED BY <1>k, <2>1, <2>4, SoleEnough
<1>o. CASE ~RecordVerified(r)
  <2>a. audit'.verified = audit.verified
    BY <1>t, <1>o DEF Loop, SkipStep, Authorize, Deny, Incompatible, Attempt, RunTool,
       RecordFailure, Fail, CheckpointSaved, Finish, Complete, AppendRecord, files, TypeOK, AuditLog
  <2>n. checkpoint' = None => audit'.verified = {}
    BY <1>s, <1>k, <2>a DEF Sole
  <2>1. ASSUME NEW p, NEW d, pc'[r] = p, outcome'[r] = outcome[r], call'[r] = d,
               Sole(p, d, outcome[r], checkpoint, tmp, audit),
               p # "replace"
        PROVE  SoleInv'
    <3>1. Sole(p, d, outcome[r], checkpoint, tmp', audit')
      BY <2>1, <2>a DEF Sole
    <3> QED BY <1>k, <2>1, <3>1, SoleEnough
  <2>3. ASSUME SkipStep(r) PROVE SoleInv'
    <3> DEFINE d == [c EXCEPT !.step = c.step + 1]
    <3>1. pc'[r] = "step" /\ outcome'[r] = outcome[r] /\ call'[r] = d
      BY <1>t, <2>3 DEF SkipStep, TypeOK
    <3>2. d.completed = c.completed /\ d.id = c.id
      BY <1>t DEF Call
    <3>3. Sole("step", d, outcome[r], checkpoint, tmp, audit)
      BY <1>s, <2>3, <3>2 DEF SkipStep, Sole, Looping, AtStep, Writing, HasEnded
    <3> HIDE DEF d
    <3> QED BY <2>1, <3>1, <3>3
  <2>4. ASSUME Authorize(r) PROVE SoleInv'
    <3> DEFINE d == [c EXCEPT !.tries = 0]
    <3>1. pc'[r] = "try" /\ outcome'[r] = outcome[r] /\ call'[r] = d
      BY <1>t, <2>4, GoToAlone DEF Authorize
    <3>2. d.completed = c.completed /\ d.id = c.id /\ d.step = c.step
      BY <1>t DEF Call
    <3>3. Sole("try", d, outcome[r], checkpoint, tmp, audit)
      BY <1>s, <2>4, <3>2 DEF Authorize, Pending, Sole, Looping, AtStep, Writing, HasEnded
    <3> HIDE DEF d
    <3> QED BY <2>1, <3>1, <3>3
  <2>5. ASSUME Deny(r) \/ Incompatible(r) PROVE SoleInv'
    BY <1>t, <2>5, <2>n, SoleReturn DEF Deny, Incompatible
  <2>6. ASSUME Attempt(r) PROVE SoleInv'
    <3> DEFINE p == IF c.left = 0 THEN "overspent" ELSE "tool"
    <3>1. pc'[r] = p /\ outcome'[r] = outcome[r]
      BY <1>t, <2>6 DEF Attempt, GoTo, TypeOK
    <3>2. call'[r].completed = c.completed /\ call'[r].id = c.id /\ call'[r].step = c.step
      BY <1>t, <2>6 DEF Attempt, Call, TypeOK
    <3>3. Sole(p, call'[r], outcome[r], checkpoint, tmp, audit)
      BY <1>s, <2>6, <3>2 DEF Attempt, Sole, Looping, AtStep, Writing, HasEnded
    <3>4. p # "replace"
      OBVIOUS
    <3> HIDE DEF p
    <3> QED BY <2>1, <3>1, <3>3, <3>4
  <2>7. ASSUME RunTool(r) PROVE SoleInv'
    <3>1. pc'[r] = "record" /\ outcome'[r] = outcome[r] /\ call'[r] = c
      BY <1>t, <2>7, GoToSame DEF RunTool
    <3>2. Sole("record", c, outcome[r], checkpoint, tmp, audit)
      BY <1>s, <2>7 DEF RunTool, Sole, Looping, AtStep, Writing, HasEnded
    <3> QED BY <2>1, <3>1, <3>2
  <2>8. ASSUME RecordFailure(r) PROVE SoleInv'
    <3> DEFINE d == [c EXCEPT !.tries = c.tries + 1]
               p == IF c.tries < c.retries THEN "try" ELSE "exhausted"
    <3>1. pc'[r] = p /\ outcome'[r] = outcome[r] /\ call'[r] = d
      BY <1>t, <2>8 DEF RecordFailure, GoTo, TypeOK
    <3>2. d.completed = c.completed /\ d.id = c.id /\ d.step = c.step
      BY <1>t DEF Call
    <3>3. Sole(p, d, outcome[r], checkpoint, tmp, audit)
      BY <1>s, <2>8, <3>2 DEF RecordFailure, Sole, Looping, AtStep, Writing, HasEnded
    <3>4. p # "replace"
      OBVIOUS
    <3> HIDE DEF d, p
    <3> QED BY <2>1, <3>1, <3>3, <3>4
  <2>9. ASSUME Fail(r) PROVE SoleInv'
    <3> DEFINE d == Saving(c, GivenUp, "idle")
    <3>1. pc'[r] = "write" /\ outcome'[r] = outcome[r] /\ call'[r] = d
      BY <1>t, <2>9 DEF Fail, GoTo, TypeOK
    <3>2. /\ d.completed = c.completed /\ d.id = c.id /\ d.step = c.step
          /\ d.state = "failed" /\ d.next = "idle"
      BY <1>t DEF Saving, Call, GivenUp
    <3>3. c.step \in StepId
      BY <1>i, <2>9 DEF Fail, Sound, AtStep
    <3>4. Sole("write", d, outcome[r], checkpoint, tmp, audit)
      BY <1>s, <2>9, <3>2, <3>3 DEF Fail, Sole, Looping, AtStep, Writing, HasEnded
    <3> HIDE DEF d
    <3> QED BY <2>1, <3>1, <3>4
  <2>10. ASSUME CheckpointSaved(r) PROVE SoleInv'
    <3> DEFINE d == [c EXCEPT !.step = c.step + 1]
    <3>1. pc'[r] = "step" /\ outcome'[r] = outcome[r] /\ call'[r] = d
      BY <1>t, <2>10 DEF CheckpointSaved, GoTo, TypeOK
    <3>2. d.completed = c.completed /\ d.id = c.id
      BY <1>t DEF Call
    <3>3. Sole("step", d, outcome[r], checkpoint, tmp, audit)
      BY <1>s, <2>10, <3>2 DEF CheckpointSaved, Sole, Looping, AtStep, Writing, HasEnded
    <3> HIDE DEF d
    <3> QED BY <2>1, <3>1, <3>3
  <2>11. ASSUME Finish(r) PROVE SoleInv'
    <3> DEFINE d == Saving(c, "verified", "complete")
    <3>1. pc'[r] = "write" /\ outcome'[r] = outcome[r] /\ call'[r] = d
      BY <1>t, <2>11 DEF Finish, GoTo, TypeOK
    <3>2. /\ d.completed = c.completed /\ d.id = c.id
          /\ d.state = "verified" /\ d.next = "complete"
      BY <1>t DEF Saving, Call
    <3>3. Sole("write", d, outcome[r], checkpoint, tmp, audit)
      BY <1>s, <2>11, <3>2 DEF Finish, Sole, Looping, AtStep, Writing, HasEnded
    <3> HIDE DEF d
    <3> QED BY <2>1, <3>1, <3>3
  <2>12. ASSUME Complete(r) PROVE SoleInv'
    <3>1. checkpoint # None /\ checkpoint.state = "verified"
      BY <1>s, <2>12 DEF Complete, Sole
    <3> QED BY <1>t, <1>k, <2>12, <2>n, <3>1, SoleReturn DEF Complete
  <2> QED BY <1>o, <2>3, <2>4, <2>5, <2>6, <2>7, <2>8, <2>9, <2>10, <2>11, <2>12 DEF Loop
<1> QED BY <1>v, <1>o

-----------------------------------------------------------------------------
SoleCallInv == EngineInv /\ SoleInv

LEMMA SoleInit == Init => SoleCallInv
<1> SUFFICES ASSUME Init PROVE SoleInv
  BY EngineInit DEF SoleCallInv
<1>1. ASSUME NEW r \in Runner
      PROVE  Sole(pc[r], call[r], outcome[r], checkpoint, tmp, audit)
  BY DEF Init, Sole, Looping, AtStep, Writing
<1> QED BY <1>1 DEF SoleInv

LEMMA SoleStep ==
  ASSUME OneCaller, SoleCallInv, [Next]_vars
  PROVE  SoleCallInv'
<1>1. EngineInv'
  BY EngineStep DEF SoleCallInv
<1>2. CASE UNCHANGED vars
  BY <1>1, <1>2 DEF vars, SoleCallInv, SoleInv, Sole
<1>3. CASE Next
  BY <1>1, <1>3, SoleStarting, SoleSave, SoleLoop, SoleFailure DEF SoleCallInv, Next
<1> QED BY <1>2, <1>3

\* The inductive invariant for one caller at a time.
THEOREM SoleCallInvariant ==
  ASSUME OneCaller
  PROVE  Spec => []SoleCallInv
<1>1. SoleCallInv /\ [Next]_vars => SoleCallInv'
  BY SoleStep
<1> QED BY SoleInit, <1>1, PTL DEF Spec

\* What a step does to the history and the checkpoint: a tool runs at the step
\* the call stands at, and the checkpoint is replaced by the temporary file.
LEMMA StepKinds ==
  ASSUME TypeOK, [Next]_vars
  PROVE  \/ \E r \in Runner : RunTool(r)
         \/ runs' = runs /\ \E r \in Runner : SaveReplace(r)
         \/ UNCHANGED <<runs, checkpoint>>
<1>1. CASE UNCHANGED vars
  BY <1>1 DEF vars
<1>2. ASSUME NEW r \in Runner, Starting(r) \/ Failure(r) PROVE UNCHANGED <<runs, checkpoint>>
  BY <1>2 DEF Starting, Enter, AdmissionBlocked, Load, DecideResume, DecideFresh, Begin,
     Failure, AppendRefused, Crash, CrashInAppend, files
<1>3. ASSUME NEW r \in Runner, Save(r), ~SaveReplace(r) PROVE UNCHANGED <<runs, checkpoint>>
  BY <1>3 DEF Save, SaveWrite, SaveRaises, SaveUnlink, files
<1>4. ASSUME NEW r \in Runner, Loop(r), ~RunTool(r) PROVE UNCHANGED <<runs, checkpoint>>
  BY <1>4 DEF Loop, SkipStep, Authorize, Deny, Incompatible, Attempt, RecordVerified,
     RecordFailure, Fail, CheckpointSaved, Finish, Complete, files
<1>5. ASSUME NEW r \in Runner, SaveReplace(r) PROVE runs' = runs
  BY <1>5 DEF SaveReplace
<1> QED BY <1>1, <1>2, <1>3, <1>4, <1>5 DEF Next

\* The call that runs a tool stands at a step without a verified result, and
\* its checkpoint is running and carries its identity.
LEMMA RunsPending ==
  ASSUME SoleCallInv, NEW r \in Runner, RunTool(r)
  PROVE  /\ runs' = [runs EXCEPT ![call[r].step] = @ + 1]
         /\ call[r].step \in StepId /\ call[r].step \notin audit.verified
         /\ checkpoint # None /\ checkpoint.state = "running"
         /\ checkpoint.identity = call[r].id
<1>1. Sole("tool", call[r], outcome[r], checkpoint, tmp, audit) /\ Sound("tool", call[r], audit, runs)
  BY DEF SoleCallInv, SoleInv, EngineInv, CallsSound, RunTool
<1> QED BY <1>1 DEF Sole, Sound, Looping, AtStep, Writing, HasEnded, RunTool

\* One caller at a time: a step with a verified result is never executed again.
THEOREM VerifiedIsNotReplayed ==
  ASSUME OneCaller
  PROVE  Spec => NoReplay
<1>1. SoleCallInv /\ [Next]_vars
        => [\A s \in StepId : runs'[s] # runs[s] => s \notin audit.verified]_vars
  <2> SUFFICES ASSUME SoleCallInv, [Next]_vars, NEW s \in StepId, runs'[s] # runs[s]
               PROVE  s \notin audit.verified
    BY DEF vars
  <2>1. PICK r \in Runner : RunTool(r)
    BY StepKinds DEF SoleCallInv, EngineInv
  <2>2. s = call[r].step
    BY <2>1, RunsPending DEF SoleCallInv, EngineInv, TypeOK
  <2> QED BY <2>1, <2>2, RunsPending
<1> QED BY <1>1, SoleCallInvariant, PTL DEF Spec, NoReplay

\* One caller at a time: a failed or verified checkpoint is final.
THEOREM TheEndIsFinal ==
  ASSUME OneCaller
  PROVE  Spec => EndIsFinal
<1>1. SoleCallInv /\ [Next]_vars
        => [checkpoint # None /\ checkpoint.state # "running"
              => UNCHANGED <<checkpoint, runs>>]_vars
  <2> SUFFICES ASSUME SoleCallInv, [Next]_vars, checkpoint # None, checkpoint.state # "running"
               PROVE  UNCHANGED <<checkpoint, runs>>
    BY DEF vars
  <2>1. ASSUME NEW r \in Runner, SaveReplace(r) PROVE FALSE
    BY <2>1 DEF SoleCallInv, SoleInv, Sole, SaveReplace, Looping, HasEnded
  <2>2. ASSUME NEW r \in Runner, RunTool(r) PROVE FALSE
    BY <2>2, RunsPending
  <2> QED BY <2>1, <2>2, StepKinds DEF SoleCallInv, EngineInv
<1> QED BY <1>1, SoleCallInvariant, PTL DEF Spec, EndIsFinal

\* One caller at a time: the end that a call reports is the checkpoint's.
THEOREM ReportsAreDurable ==
  ASSUME OneCaller
  PROVE  Spec => []ReportedEndIsDurable
<1>1. SoleCallInv => ReportedEndIsDurable
  BY DEF SoleCallInv, SoleInv, Sole, ReportedEndIsDurable
<1> QED BY <1>1, SoleCallInvariant, PTL

\* One caller at a time: an execution keeps the identity it started under.
THEOREM OneIdentityRuns ==
  ASSUME OneCaller
  PROVE  Spec => OneIdentity
<1>1. SoleCallInv /\ [Next]_vars
        => [checkpoint # None =>
              /\ checkpoint' # None /\ checkpoint'.identity = checkpoint.identity
              /\ \A r \in Runner : runs' # runs /\ pc[r] = "tool" =>
                   checkpoint.identity = call[r].id]_vars
  <2> SUFFICES ASSUME SoleCallInv, [Next]_vars, checkpoint # None
               PROVE  /\ checkpoint' # None /\ checkpoint'.identity = checkpoint.identity
                      /\ \A r \in Runner : runs' # runs /\ pc[r] = "tool" =>
                           checkpoint.identity = call[r].id
    BY DEF vars
  <2>1. ASSUME NEW r \in Runner, pc[r] = "tool"
        PROVE  checkpoint.identity = call[r].id
    BY <2>1 DEF SoleCallInv, SoleInv, Sole, Looping, AtStep
  <2>2. ASSUME NEW r \in Runner, SaveReplace(r)
        PROVE  checkpoint' # None /\ checkpoint'.identity = checkpoint.identity
    BY <2>2 DEF SoleCallInv, SoleInv, Sole, SaveReplace, Looping, CheckpointOf
  <2>3. ASSUME NEW r \in Runner, RunTool(r) PROVE checkpoint' = checkpoint
    BY <2>3 DEF RunTool, files
  <2> QED BY <2>1, <2>2, <2>3, StepKinds DEF SoleCallInv, EngineInv
<1> QED BY <1>1, SoleCallInvariant, PTL DEF Spec, OneIdentity

-----------------------------------------------------------------------------
(* One caller at a time implements PlanProgress. *)

endOf(cp) == IF cp = None THEN "no" ELSE IF cp.state = "running" THEN "no" ELSE cp.state

LEMMA RecordImplements ==
  ASSUME SoleCallInv, NEW r \in Runner, RecordVerified(r)
  PROVE  call[r].step \in StepId /\ Progress!Verify(call[r].step)
<1> DEFINE s == call[r].step
<1>1. /\ Sole("record", call[r], outcome[r], checkpoint, tmp, audit)
      /\ Sound("record", call[r], audit, runs) /\ Evidence(audit, runs)
      /\ audit \in AuditLog
  BY DEF SoleCallInv, SoleInv, EngineInv, CallsSound, FilesSound, RecordVerified, TypeOK
<1>2. /\ s \in StepId /\ s \notin audit.verified /\ 1..(s - 1) \subseteq audit.verified
      /\ checkpoint # None /\ checkpoint.state = "running"
  BY <1>1 DEF Sole, Sound, Looping, AtStep, Writing, HasEnded
<1>3. ASSUME NEW q \in audit.verified PROVE q \in 1..(s - 1)
  <2>1. q \in StepId /\ 1..(q - 1) \subseteq audit.verified
    BY <1>1 DEF Evidence, AuditLog
  <2>2. ~(q > s)
    BY <1>2, <2>1
  <2> QED BY <1>2, <2>1, <2>2
<1>4. audit.verified = 1..(s - 1)
  BY <1>2, <1>3
<1>5. audit'.verified = audit.verified \cup {s} /\ checkpoint' = checkpoint
  BY <1>1 DEF RecordVerified, AppendRecord, AuditLog
<1> QED BY <1>2, <1>4, <1>5 DEF Progress!Verify

LEMMA ReplaceImplements ==
  ASSUME SoleCallInv, NEW r \in Runner, SaveReplace(r)
  PROVE  Progress!End \/ UNCHANGED Progress!progress
<1> DEFINE c == call[r]
<1>1. /\ Sole("replace", c, outcome[r], checkpoint, tmp, audit)
      /\ Sound("replace", c, audit, runs)
  BY DEF SoleCallInv, SoleInv, EngineInv, CallsSound, SaveReplace
<1>2. /\ endOf(checkpoint) = "no" /\ c.completed = audit.verified
      /\ checkpoint'.state = c.state /\ checkpoint' # None /\ audit' = audit
  BY <1>1 DEF Sole, Looping, Writing, HasEnded, SaveReplace, endOf, CheckpointOf
<1>3. CASE c.state = "running"
  BY <1>2, <1>3 DEF Progress!progress, endOf
<1>4. CASE c.state = "verified"
  <2>1. audit.verified = StepId
    BY <1>1, <1>2, <1>4 DEF Sole, Sound, Writing
  <2> QED BY <1>2, <1>4, <2>1 DEF Progress!End, endOf
<1>5. CASE c.state = "failed"
  <2>1. audit.verified # StepId
    BY <1>1, <1>2, <1>5 DEF Sole, Writing
  <2> QED BY <1>2, <1>5, <2>1 DEF Progress!End, endOf
<1> QED BY <1>1, <1>3, <1>4, <1>5 DEF Sole, Writing

\* Every other step leaves the verified steps and the checkpoint alone.
LEMMA OthersStutter ==
  ASSUME TypeOK, [Next]_vars, \A r \in Runner : ~RecordVerified(r) /\ ~SaveReplace(r)
  PROVE  audit'.verified = audit.verified /\ checkpoint' = checkpoint
<1>1. CASE UNCHANGED vars
  BY <1>1 DEF vars
<1>2. ASSUME NEW r \in Runner, Starting(r)
      PROVE  audit'.verified = audit.verified /\ checkpoint' = checkpoint
  BY <1>2 DEF Starting, Enter, AdmissionBlocked, Load, DecideResume, DecideFresh, Begin,
     files, AppendRecord, TypeOK, AuditLog
<1>3. ASSUME NEW r \in Runner, Save(r)
      PROVE  audit'.verified = audit.verified /\ checkpoint' = checkpoint
  BY <1>3 DEF Save, SaveWrite, SaveRaises, SaveUnlink, files
<1>4. ASSUME NEW r \in Runner, Loop(r)
      PROVE  audit'.verified = audit.verified /\ checkpoint' = checkpoint
  BY <1>4 DEF Loop, SkipStep, Authorize, Deny, Incompatible, Attempt, RunTool, RecordFailure,
     Fail, CheckpointSaved, Finish, Complete, files, AppendRecord, TypeOK, AuditLog
<1>5. ASSUME NEW r \in Runner, Failure(r)
      PROVE  audit'.verified = audit.verified /\ checkpoint' = checkpoint
  BY <1>5 DEF Failure, AppendRefused, Crash, CrashInAppend, files, TypeOK, AuditLog
<1> QED BY <1>1, <1>2, <1>3, <1>4, <1>5 DEF Next

\* One caller at a time: the calls, retries and crashes show the user what
\* PlanProgress promises.
THEOREM EngineImplementsPlan ==
  ASSUME OneCaller
  PROVE  Spec => ImplementsPlan
<1>1. Init => Progress!ProgressInit
  BY DEF Init, Progress!ProgressInit
<1>2. SoleCallInv /\ [Next]_vars => [Progress!ProgressNext]_(Progress!progress)
  <2> SUFFICES ASSUME SoleCallInv, [Next]_vars
               PROVE  Progress!ProgressNext \/ UNCHANGED Progress!progress
    OBVIOUS
  <2>1. ASSUME NEW r \in Runner, RecordVerified(r) PROVE Progress!ProgressNext
    BY <2>1, RecordImplements DEF Progress!ProgressNext
  <2>2. ASSUME NEW r \in Runner, SaveReplace(r)
        PROVE  Progress!ProgressNext \/ UNCHANGED Progress!progress
    BY <2>2, ReplaceImplements DEF Progress!ProgressNext
  <2>3. CASE \A r \in Runner : ~RecordVerified(r) /\ ~SaveReplace(r)
    BY <2>3, OthersStutter DEF SoleCallInv, EngineInv, Progress!progress
  <2> QED BY <2>1, <2>2, <2>3
<1> QED BY <1>1, <1>2, SoleCallInvariant, PTL DEF Spec, ImplementsPlan, Progress!ProgressSpec
=============================================================================
