-------------------------- MODULE MissionControlProofs --------------------------
(***************************************************************************)
(* Mission control for any number of missions, handler threads and steps:  *)
(* its types, and that an approval puts its mission in the queue once      *)
(* although handlers race, the worker overtakes them and the process dies. *)
(* Then, for one handler at a time that no worker overtakes, that a        *)
(* withdrawn mission stays out of the queue, and that the worker knows     *)
(* which steps are verified.                                               *)
(***************************************************************************)
EXTENDS MissionControl, FiniteSetTheorems, TLAPS

\* A record that may be stored for a mission: an approved mission never loses the
\* action its approvals are kept under.
Kept(m, rec) == /\ m \in Mission /\ rec \in Record /\ rec.state # "absent"
                /\ m \in Guarded => rec.action # "none"

QueueT == /\ tasks \in Seq(QueueItem) /\ owner \in Seq(Mission)
          /\ Len(owner) = Len(tasks) /\ Len(tasks) <= MaxTasks
StoreT == /\ missions \in [Mission -> Record]
          /\ \A m \in Mission : Exists(m) => Kept(m, missions[m])
ApprovalT == /\ asked \in [Mission -> [Round -> Seq({"pending", "approved", "rejected"})]]
             /\ approval \in [Mission -> [Round -> Approval]]
             /\ claimed \subseteq Token
ServerT == mode \in {"down", "recovering", "up"} /\ todo \subseteq TaskId

\* A handler that has read a mission, or is about to store one, holds a record of
\* it; one that comes from a decision knows its action.
CallT ==
  /\ call \in [Client -> [pc : CallPc, op : Op, mission : Mission \cup {None}, rec : Record]]
  /\ \A c \in Client :
       /\ call[c].pc \in {"read", "putting"} => Kept(call[c].mission, call[c].rec)
       /\ call[c].pc = "decided" => call[c].mission \in Mission /\ call[c].rec.action \in Round

\* The worker's locals: what it read at the start, if it found the mission, and
\* the latest record where it is going to store one.
WorkerT ==
  /\ wpc \in WorkerPc /\ wtask \in Nat /\ wmission \in Mission \cup {None}
  /\ seen \in Record /\ latest \in Record /\ known \subseteq Nat
  /\ outcome \in MissionState /\ privileged \in BOOLEAN
  /\ wpc = "looked" => seen.state # "absent"
  /\ wpc \in {"looked", "marked", "running", "stepped", "ended"} /\ seen.state # "absent"
       => Kept(wmission, seen)
  /\ wpc \in {"idle", "dead", "claimed"} => seen.state = "absent" /\ seen.action = "none"
  /\ wpc = "marked" /\ seen.action # "none" => seen.state # "absent"
  /\ wpc \in {"stepped", "final"} => Kept(wmission, latest)
  /\ wpc \in {"ended", "final"} => outcome # "absent"

Typed == QueueT /\ StoreT /\ ApprovalT /\ ServerT /\ CallT /\ WorkerT

\* The handlers that are about to queue a mission for an approval.
Activates(x, m) == x.mission = m /\ x.op = "activate" /\ x.pc \in {"decided", "read"}
Pending(m) == {c \in Client : Activates(call[c], m)}
Items(m) == {t \in DOMAIN tasks : owner[t] = m}
Tokens(m) == approval[m]["first"].token + approval[m]["again"].token

\* Every queue item of a guarded mission, and every handler on its way to make
\* one, has a token of its own.
Accounted ==
  \A m \in Guarded : Cardinality(Items(m)) + Cardinality(Pending(m)) <= Tokens(m)

Inv == Typed /\ Accounted

-----------------------------------------------------------------------------
\* Records and moves of the parts

LEMMA RecordWith ==
  ASSUME NEW rec \in Record
  PROVE  /\ \A s \in MissionState : [rec EXCEPT !.state = s] \in Record
         /\ \A s \in MissionState : [rec EXCEPT !.state = s].state = s
         /\ \A s \in MissionState : [rec EXCEPT !.state = s].action = rec.action
BY DEF Record

LEMMA AbsentRecord == Absent \in Record /\ Absent.state = "absent" /\ Absent.action = "none"
BY DEF Absent, Record, MissionState, Round

\* Changing the state of a record that may be stored leaves one that may be.
LEMMA KeptWith ==
  ASSUME NEW m, NEW rec, Kept(m, rec), NEW s \in MissionState, s # "absent"
  PROVE  Kept(m, [rec EXCEPT !.state = s])
BY RecordWith DEF Kept

LEMMA PutKeeps ==
  ASSUME StoreT, NEW m, NEW rec, Kept(m, rec), Put(m, rec)
  PROVE  StoreT'
BY DEF StoreT, Put, Kept, Exists

\* One handler goes on to x.
LEMMA CallMoves ==
  ASSUME CallT, NEW c \in Client, NEW x, call' = [call EXCEPT ![c] = x],
         x \in [pc : CallPc, op : Op, mission : Mission \cup {None}, rec : Record],
         x.pc \in {"read", "putting"} => Kept(x.mission, x.rec),
         x.pc = "decided" => x.mission \in Mission /\ x.rec.action \in Round
  PROVE  /\ CallT'
         /\ \A m : Pending(m)' = IF Activates(x, m) THEN Pending(m) \cup {c}
                                 ELSE Pending(m) \ {c}
<1>1. CallT'
  BY DEF CallT
<1>2. \A d \in Client : call'[d] = IF d = c THEN x ELSE call[d]
  BY DEF CallT
<1> HIDE DEF Activates
<1> QED BY <1>1, <1>2 DEF Pending

LEMMA ReturnsMoves ==
  ASSUME CallT, NEW c \in Client, Returns(c)
  PROVE  CallT' /\ \A m : Pending(m)' = Pending(m) \ {c}
<1>1. Idle \in [pc : CallPc, op : Op, mission : Mission \cup {None}, rec : Record]
  BY AbsentRecord DEF Idle, CallPc, Op
<1>2. \A m : ~Activates(Idle, m)
  BY DEF Activates, Idle
<1>3. Idle.pc = "idle"
  BY DEF Idle
<1> QED BY <1>1, <1>2, <1>3, CallMoves DEF Returns

LEMMA StoresMoves ==
  ASSUME CallT, NEW c \in Client, NEW m, NEW rec, Kept(m, rec), Stores(c, m, rec)
  PROVE  CallT' /\ \A n : Pending(n)' = Pending(n) \ {c}
<1> DEFINE x == [pc |-> "putting", op |-> "none", mission |-> m, rec |-> rec]
<1>1. /\ x \in [pc : CallPc, op : Op, mission : Mission \cup {None}, rec : Record]
      /\ x.pc = "putting" /\ x.mission = m /\ x.rec = rec
  BY DEF Kept, CallPc, Op
<1>2. \A n : ~Activates(x, n)
  BY DEF Activates
<1>3. call' = [call EXCEPT ![c] = x]
  BY DEF Stores
<1> HIDE DEF x
<1> QED BY <1>1, <1>2, <1>3, CallMoves

LEMMA ReadsMoves ==
  ASSUME CallT, StoreT, NEW c \in Client, NEW m \in Mission, Exists(m),
         NEW op \in Op, Reads(c, op, m)
  PROVE  /\ CallT'
         /\ \A n : Pending(n)' = IF op = "activate" /\ n = m THEN Pending(n) \cup {c}
                                 ELSE Pending(n) \ {c}
<1> DEFINE x == [pc |-> "read", op |-> op, mission |-> m, rec |-> missions[m]]
<1>1. /\ x \in [pc : CallPc, op : Op, mission : Mission \cup {None}, rec : Record]
      /\ x.pc = "read" /\ x.mission = m /\ x.rec = missions[m]
  BY DEF StoreT, CallPc
<1>2. Kept(m, missions[m])
  BY DEF StoreT
<1>3. \A n : Activates(x, n) <=> op = "activate" /\ n = m
  BY DEF Activates
<1>4. call' = [call EXCEPT ![c] = x]
  BY DEF Reads
<1> HIDE DEF x
<1> QED BY <1>1, <1>2, <1>3, <1>4, CallMoves

-----------------------------------------------------------------------------
\* The queue

\* claim_next, complete and cancel rewrite an item, recovery some of them.
LEMMA QueueMoves ==
  ASSUME QueueT, owner' = owner,
         \/ \E i : tasks' = AfterClaim(tasks, i)
         \/ \E i : \E ok \in BOOLEAN : tasks' = AfterComplete(tasks, i, ok)
         \/ \E i : tasks' = AfterCancel(tasks, i)
         \/ tasks' = AfterRecover(tasks)
         \/ tasks' = tasks
  PROVE  QueueT' /\ DOMAIN tasks' = DOMAIN tasks
<1>1. tasks \in Seq(QueueItem) /\ owner \in Seq(Mission) /\ Len(owner) = Len(tasks)
  BY DEF QueueT
<1>2. ASSUME NEW i \in DOMAIN tasks, NEW s \in QueueState, NEW n \in Nat
      PROVE  Rewritten(tasks[i], s, n) \in QueueItem
  <2>1. tasks[i] \in QueueItem
    BY <1>1
  <2> QED BY <2>1 DEF Rewritten, QueueItem
<1>3. \A i \in DOMAIN tasks : tasks[i].attempts \in Nat /\ tasks[i].attempts + 1 \in Nat
  <2>1. \A i \in DOMAIN tasks : tasks[i] \in QueueItem
    BY <1>1
  <2> QED BY <2>1 DEF QueueItem
<1>4. {"running", "succeeded", "failed", "cancelled", "recovery_required"} \subseteq QueueState
  BY DEF QueueState
<1> DEFINE Moved == /\ tasks' \in Seq(QueueItem) /\ DOMAIN tasks' = DOMAIN tasks
                    /\ Len(tasks') = Len(tasks)
<1>5. ASSUME NEW i, NEW r, i \in DOMAIN tasks => r \in QueueItem,
             tasks' = [tasks EXCEPT ![i] = r]
      PROVE  Moved
  <2>1. CASE i \in DOMAIN tasks
    BY <1>1, <1>5, <2>1
  <2>2. CASE i \notin DOMAIN tasks
    <3>1. tasks' = tasks
      BY <1>1, <1>5, <2>2
    <3> QED BY <1>1, <3>1
  <2> QED BY <2>1, <2>2
<1>6. Moved
  <2>1. ASSUME NEW i, tasks' = AfterClaim(tasks, i) PROVE Moved
    <3>1. tasks' = [tasks EXCEPT ![i] = Rewritten(tasks[i], "running", tasks[i].attempts + 1)]
      BY <2>1 DEF AfterClaim
    <3>2. i \in DOMAIN tasks => Rewritten(tasks[i], "running", tasks[i].attempts + 1) \in QueueItem
      BY <1>2, <1>3, <1>4
    <3> QED BY <3>1, <3>2, <1>5
  <2>2. ASSUME NEW i, NEW s \in {"succeeded", "failed", "cancelled"}, tasks' = MovedTo(tasks, i, s)
        PROVE  Moved
    <3>1. tasks' = [tasks EXCEPT ![i] = Rewritten(tasks[i], s, tasks[i].attempts)]
      BY <2>2 DEF MovedTo
    <3>2. i \in DOMAIN tasks => Rewritten(tasks[i], s, tasks[i].attempts) \in QueueItem
      BY <1>2, <1>3, <1>4
    <3> QED BY <3>1, <3>2, <1>5
  <2>3. CASE tasks' = AfterRecover(tasks)
    <3>1. \A i \in DOMAIN tasks :
            Rewritten(tasks[i], "recovery_required", tasks[i].attempts) \in QueueItem
      BY <1>2, <1>3, <1>4
    <3>2. /\ DOMAIN tasks' = DOMAIN tasks
          /\ \A i \in DOMAIN tasks : tasks'[i] \in QueueItem
      BY <1>1, <2>3, <3>1 DEF AfterRecover
    <3>3. tasks' = [i \in 1..Len(tasks) |-> tasks'[i]]
      BY <1>1, <2>3 DEF AfterRecover
    <3> QED BY <1>1, <3>2, <3>3
  <2>4. ASSUME NEW i, NEW ok \in BOOLEAN, tasks' = AfterComplete(tasks, i, ok)
        PROVE  \E s \in {"succeeded", "failed", "cancelled"} : tasks' = MovedTo(tasks, i, s)
    BY <2>4 DEF AfterComplete
  <2>5. ASSUME NEW i, tasks' = AfterCancel(tasks, i) PROVE tasks' = MovedTo(tasks, i, "cancelled")
    BY <2>5 DEF AfterCancel
  <2> QED BY <1>1, <2>1, <2>2, <2>3, <2>4, <2>5
<1> QED BY <1>1, <1>6 DEF QueueT

LEMMA EnqueueMoves ==
  ASSUME QueueT, NEW m \in Mission, EnqueueFor(m)
  PROVE  /\ QueueT' /\ NewTask \in Nat
         /\ Items(m)' = Items(m) \cup {NewTask} /\ NewTask \notin Items(m)
         /\ \A n : n # m => Items(n)' = Items(n)
<1>1. tasks \in Seq(QueueItem) /\ owner \in Seq(Mission) /\ Len(owner) = Len(tasks)
  BY DEF QueueT
<1>2. Len(tasks) < MaxTasks /\ owner' = Append(owner, m)
  BY DEF EnqueueFor
<1>3. NewTask \in TaskId
  BY <1>1, <1>2, MissionControlAssumption DEF NewTask
<1>4. PICK x : x = [task_id |-> NewTask, state |-> "pending", due |-> TRUE, attempts |-> 0]
  OBVIOUS
<1>5. x \in QueueItem
  BY <1>3, <1>4 DEF QueueItem, QueueState
<1>6. tasks' = Append(tasks, x)
  BY <1>4 DEF EnqueueFor, AfterEnqueue, NewItem
<1>7. /\ tasks' \in Seq(QueueItem) /\ owner' \in Seq(Mission)
      /\ Len(tasks') = Len(tasks) + 1 /\ Len(owner') = Len(tasks) + 1
      /\ DOMAIN tasks' = DOMAIN tasks \cup {NewTask} /\ NewTask \notin DOMAIN tasks
      /\ owner'[NewTask] = m /\ \A t \in DOMAIN tasks : owner'[t] = owner[t]
  BY <1>1, <1>2, <1>5, <1>6 DEF NewTask
<1>8. QueueT' /\ NewTask \in Nat
  BY <1>1, <1>2, <1>7, MissionControlAssumption DEF QueueT, NewTask
<1> QED BY <1>7, <1>8 DEF Items

-----------------------------------------------------------------------------
\* Counting

LEMMA Finite ==
  ASSUME QueueT, NEW m
  PROVE  /\ IsFiniteSet(Items(m)) /\ IsFiniteSet(Pending(m))
         /\ Cardinality(Items(m)) \in Nat /\ Cardinality(Pending(m)) \in Nat
<1>1. IsFiniteSet(DOMAIN tasks)
  <2>1. DOMAIN tasks = 1..Len(tasks) /\ Len(tasks) \in Int
    BY DEF QueueT
  <2> QED BY <2>1, FS_Interval
<1>2. Items(m) \in SUBSET DOMAIN tasks
  BY DEF Items
<1>3. Pending(m) \in SUBSET Client
  BY DEF Pending
<1> QED BY <1>1, <1>2, <1>3, FS_Subset, FS_CardinalityType, MissionControlAssumption

LEMMA TokensAreNumbers ==
  ASSUME ApprovalT, NEW m \in Mission
  PROVE  Tokens(m) \in Nat
BY DEF ApprovalT, Approval, Tokens, Round

\* Nothing was queued, nobody is on the way that was not before.
LEMMA AccountedKept ==
  ASSUME Inv, QueueT', owner' = owner, DOMAIN tasks' = DOMAIN tasks,
         \A m \in Mission : Tokens(m)' = Tokens(m),
         \A m : Pending(m)' \subseteq Pending(m)
  PROVE  Accounted'
<1> SUFFICES ASSUME NEW m \in Guarded
             PROVE  Cardinality(Items(m)') + Cardinality(Pending(m)') <= Tokens(m)'
  BY DEF Accounted
<1>1. m \in Mission /\ QueueT /\ ApprovalT
  BY MissionControlAssumption DEF Inv, Typed
<1>2. Items(m)' = Items(m)
  BY DEF Items
<1>3. Cardinality(Pending(m)') <= Cardinality(Pending(m)) /\ Cardinality(Pending(m)') \in Nat
  BY <1>1, Finite, FS_Subset, FS_CardinalityType
<1>4. Cardinality(Items(m)) + Cardinality(Pending(m)) <= Tokens(m)
  BY DEF Inv, Accounted
<1> QED BY <1>1, <1>2, <1>3, <1>4, Finite, TokensAreNumbers

\* One item more, for a mission whose handler had a token, or needs none.
LEMMA AccountedEnqueue ==
  ASSUME Inv, NEW m \in Mission, NEW c \in Client, EnqueueFor(m), approval' = approval,
         \A n : Pending(n)' = Pending(n) \ {c},
         m \in Guarded => c \in Pending(m)
  PROVE  Accounted'
<1> SUFFICES ASSUME NEW n \in Guarded
             PROVE  Cardinality(Items(n)') + Cardinality(Pending(n)') <= Tokens(n)'
  BY DEF Accounted
<1>1. n \in Mission /\ QueueT /\ ApprovalT
  BY MissionControlAssumption DEF Inv, Typed
<1>2. Cardinality(Items(n)) + Cardinality(Pending(n)) <= Tokens(n) /\ Tokens(n)' = Tokens(n)
  BY DEF Inv, Accounted, Tokens
<1>3. CASE n # m
  <2>1. Items(n)' = Items(n)
    BY <1>1, <1>3, EnqueueMoves
  <2>2. Cardinality(Pending(n)') <= Cardinality(Pending(n)) /\ Cardinality(Pending(n)') \in Nat
    <3>1. Pending(n)' \in SUBSET Pending(n)
      OBVIOUS
    <3> QED BY <1>1, <3>1, Finite, FS_Subset, FS_CardinalityType
  <2> QED BY <1>1, <1>2, <2>1, <2>2, Finite, TokensAreNumbers
<1>4. CASE n = m
  <2>1. Items(m)' = Items(m) \cup {NewTask} /\ NewTask \notin Items(m)
    BY <1>1, EnqueueMoves
  <2>2. Cardinality(Items(m)') = Cardinality(Items(m)) + 1
    BY <1>1, <2>1, Finite, FS_AddElement
  <2>3. Cardinality(Pending(m)') = Cardinality(Pending(m)) - 1
    BY <1>1, <1>4, Finite, FS_RemoveElement
  <2> QED BY <1>1, <1>2, <1>4, <2>2, <2>3, Finite, TokensAreNumbers
<1> QED BY <1>3, <1>4

\* One handler more, with a token more.
LEMMA AccountedApprove ==
  ASSUME Inv, NEW m \in Mission, NEW c \in Client,
         UNCHANGED <<tasks, owner>>,
         \A n : Pending(n)' = IF n = m THEN Pending(n) \cup {c} ELSE Pending(n) \ {c},
         \A n \in Mission : Tokens(n)' = IF n = m THEN Tokens(n) + 1 ELSE Tokens(n)
  PROVE  Accounted'
<1> SUFFICES ASSUME NEW n \in Guarded
             PROVE  Cardinality(Items(n)') + Cardinality(Pending(n)') <= Tokens(n)'
  BY DEF Accounted
<1>1. n \in Mission /\ QueueT /\ ApprovalT
  BY MissionControlAssumption DEF Inv, Typed
<1>2. Cardinality(Items(n)) + Cardinality(Pending(n)) <= Tokens(n) /\ Items(n)' = Items(n)
  BY DEF Inv, Accounted, Items
<1>3. Cardinality(Pending(n)') <= IF n = m THEN Cardinality(Pending(n)) + 1
                                          ELSE Cardinality(Pending(n))
  <2>1. CASE n = m
    <3>1. IsFiniteSet(Pending(n)) /\ Cardinality(Pending(n)) \in Nat
      BY <1>1, Finite
    <3>2. Cardinality(Pending(n) \cup {c}) <= Cardinality(Pending(n)) + 1
      BY <3>1, FS_AddElement
    <3> QED BY <2>1, <3>2
  <2>2. CASE n # m
    <3>1. Pending(n)' \in SUBSET Pending(n)
      BY <2>2
    <3> QED BY <1>1, <2>2, <3>1, Finite, FS_Subset
  <2> QED BY <2>1, <2>2
<1>4. Cardinality(Pending(n)') \in Nat
  <2>1. IsFiniteSet(Pending(n)')
    <3>1. Pending(n)' \in SUBSET Client
      BY DEF Pending
    <3> QED BY <3>1, FS_Subset, MissionControlAssumption
  <2> QED BY <2>1, FS_CardinalityType
<1> QED BY <1>1, <1>2, <1>3, <1>4, Finite, TokensAreNumbers

-----------------------------------------------------------------------------
\* What is left alone

LEMMA Frames ==
  /\ QueueT /\ UNCHANGED <<tasks, owner>> => QueueT'
  /\ StoreT /\ UNCHANGED missions => StoreT'
  /\ ApprovalT /\ UNCHANGED <<asked, approval, claimed>> => ApprovalT'
  /\ ServerT /\ UNCHANGED server => ServerT'
  /\ WorkerT /\ UNCHANGED working => WorkerT'
  /\ CallT /\ UNCHANGED call => CallT' /\ \A m : Pending(m)' = Pending(m)
  /\ UNCHANGED approval => \A m : Tokens(m)' = Tokens(m)
<1>1. QueueT /\ UNCHANGED <<tasks, owner>> => QueueT'
  BY DEF QueueT
<1>2. StoreT /\ UNCHANGED missions => StoreT'
  BY DEF StoreT, Exists
<1>3. ApprovalT /\ UNCHANGED <<asked, approval, claimed>> => ApprovalT'
  BY DEF ApprovalT
<1>4. ServerT /\ UNCHANGED server => ServerT'
  BY DEF ServerT, server
<1>5. WorkerT /\ UNCHANGED working => WorkerT'
  BY DEF WorkerT, working
<1>6. CallT /\ UNCHANGED call => CallT' /\ \A m : Pending(m)' = Pending(m)
  BY DEF CallT, Pending
<1>7. UNCHANGED approval => \A m : Tokens(m)' = Tokens(m)
  BY DEF Tokens
<1> QED BY <1>1, <1>2, <1>3, <1>4, <1>5, <1>6, <1>7

\* A request's step that queues nothing and gives no token.
LEMMA QuietStep ==
  ASSUME Inv, QueueT', owner' = owner, DOMAIN tasks' = DOMAIN tasks,
         StoreT', ApprovalT', CallT', UNCHANGED <<server, working>>,
         \A m \in Mission : Tokens(m)' = Tokens(m),
         \A m : Pending(m)' \subseteq Pending(m)
  PROVE  Inv'
BY AccountedKept, Frames DEF Inv, Typed

-----------------------------------------------------------------------------
\* Approvals

LEMMA Prepended ==
  ASSUME NEW items \in Seq({"pending", "approved", "rejected"}),
         NEW x \in {"pending", "approved", "rejected"}
  PROVE  <<x>> \o items \in Seq({"pending", "approved", "rejected"})
OBVIOUS

LEMMA ProposeMoves ==
  ASSUME ApprovalT, NEW m \in Mission, NEW r \in Round, Propose(m, r),
         UNCHANGED <<approval, claimed>>
  PROVE  ApprovalT'
<1>1. asked[m][r] \in Seq({"pending", "approved", "rejected"})
  BY DEF ApprovalT
<1>2. Proposed(asked[m][r]) \in Seq({"pending", "approved", "rejected"})
  BY <1>1, Prepended DEF Proposed
<1>3. asked' = [asked EXCEPT ![m] = [@ EXCEPT ![r] = Proposed(asked[m][r])]]
  BY DEF Propose
<1> QED BY <1>2, <1>3 DEF ApprovalT

LEMMA DecideMoves ==
  ASSUME ApprovalT, NEW m \in Mission, NEW r, NEW ruling \in {"approved", "rejected"},
         Decide(m, r, ruling), r \in Round => asked[m][r] # <<>>
  PROVE  asked' \in [Mission -> [Round -> Seq({"pending", "approved", "rejected"})]]
<1>1. asked' = [asked EXCEPT ![m] = [@ EXCEPT ![r] = <<ruling>> \o Tail(asked[m][r])]]
  BY DEF Decide
<1>2. r \in Round => <<ruling>> \o Tail(asked[m][r]) \in Seq({"pending", "approved", "rejected"})
  <2> SUFFICES ASSUME r \in Round
               PROVE  <<ruling>> \o Tail(asked[m][r]) \in Seq({"pending", "approved", "rejected"})
    OBVIOUS
  <2>1. asked[m][r] \in Seq({"pending", "approved", "rejected"}) /\ asked[m][r] # <<>>
    BY DEF ApprovalT
  <2>2. Tail(asked[m][r]) \in Seq({"pending", "approved", "rejected"})
    BY <2>1
  <2> QED BY <2>2, Prepended
<1> QED BY <1>1, <1>2 DEF ApprovalT

\* Ruling and expiry of an approval leave its token.
LEMMA ApprovalMoves ==
  ASSUME ApprovalT, NEW m \in Mission, NEW r,
         \/ approval' = [approval EXCEPT ![m][r].ruling = "rejected"]
         \/ approval' = [approval EXCEPT ![m][r].live = FALSE]
  PROVE  /\ approval' \in [Mission -> [Round -> Approval]]
         /\ \A n \in Mission : Tokens(n)' = Tokens(n)
<1>1. \A n \in Mission, s \in Round : approval[n][s] \in Approval
  BY DEF ApprovalT
<1>2. \A n \in Mission, s \in Round :
        /\ approval'[n][s] \in Approval /\ approval'[n][s].token = approval[n][s].token
  <2> SUFFICES ASSUME NEW n \in Mission, NEW s \in Round
               PROVE  /\ approval'[n][s] \in Approval
                      /\ approval'[n][s].token = approval[n][s].token
    OBVIOUS
  <2>1. \/ approval'[n][s] = approval[n][s]
        \/ approval'[n][s] = [approval[n][s] EXCEPT !.ruling = "rejected"]
        \/ approval'[n][s] = [approval[n][s] EXCEPT !.live = FALSE]
    <3>1. ASSUME NEW x, approval' = [approval EXCEPT ![m] = [@ EXCEPT ![r] = x]]
          PROVE  approval'[n][s] = approval[n][s] \/ (n = m /\ s = r /\ approval'[n][s] = x)
      BY <3>1 DEF ApprovalT
    <3>2. CASE approval' = [approval EXCEPT ![m][r].ruling = "rejected"]
      BY <3>1, <3>2
    <3>3. CASE approval' = [approval EXCEPT ![m][r].live = FALSE]
      BY <3>1, <3>3
    <3> QED BY <3>2, <3>3
  <2>2. \A a \in Approval : /\ [a EXCEPT !.ruling = "rejected"] \in Approval
                            /\ [a EXCEPT !.live = FALSE] \in Approval
                            /\ [a EXCEPT !.ruling = "rejected"].token = a.token
                            /\ [a EXCEPT !.live = FALSE].token = a.token
    BY DEF Approval
  <2> QED BY <1>1, <2>1, <2>2
<1>3. approval' \in [Mission -> [Round -> Approval]]
  BY <1>2 DEF ApprovalT
<1> QED BY <1>2, <1>3 DEF Tokens, Round

-----------------------------------------------------------------------------
\* Requests

LEMMA SubmitInv ==
  ASSUME Inv, NEW c \in Client, NEW m \in Mission,
         Submit(c, m) \/ SubmitGuarded(c, m) \/ SubmitRefused(c, m)
  PROVE  Inv'
<1> USE DEF Inv, Typed
<1>1. CASE Submit(c, m)
  <2> DEFINE rec == [Absent EXCEPT !.state = "pending", !.task = NewTask]
  <2>1. EnqueueFor(m) /\ m \notin Guarded /\ Stores(c, m, rec)
    BY <1>1 DEF Submit
  <2>2. QueueT' /\ NewTask \in Nat
    BY <2>1, EnqueueMoves
  <2>3. Kept(m, rec)
    BY <2>1, <2>2 DEF Kept, Absent, Record, MissionState, Round
  <2>4. CallT' /\ \A n : Pending(n)' = Pending(n) \ {c}
    BY <2>1, <2>3, StoresMoves
  <2>5. UNCHANGED <<missions, asked, approval, claimed, server, working>>
    BY <1>1 DEF Submit
  <2>6. Accounted'
    BY <2>1, <2>4, <2>5, AccountedEnqueue
  <2> QED BY <2>2, <2>4, <2>5, <2>6, Frames
<1>2. CASE SubmitGuarded(c, m)
  <2> DEFINE rec == [Absent EXCEPT !.state = "requires_approval", !.action = "first"]
  <2>1. /\ Propose(m, "first") /\ Stores(c, m, rec)
        /\ UNCHANGED <<tasks, missions, approval, claimed, server, working, owner>>
    BY <1>2 DEF SubmitGuarded
  <2>2. Kept(m, rec)
    BY DEF Kept, Absent, Record, MissionState, Round
  <2>3. CallT' /\ \A n : Pending(n)' = Pending(n) \ {c}
    BY <2>1, <2>2, StoresMoves
  <2>4. ApprovalT'
    BY <2>1, ProposeMoves DEF Round
  <2> QED BY <2>1, <2>3, <2>4, QuietStep, Frames
<1>3. CASE SubmitRefused(c, m)
  <2> DEFINE rec == [Absent EXCEPT !.state = "blocked"]
  <2>1. /\ Put(m, rec) /\ m \notin Guarded
        /\ UNCHANGED <<tasks, asked, approval, claimed, server, call, working, owner>>
    BY <1>3 DEF SubmitRefused
  <2>2. Kept(m, rec)
    BY <2>1 DEF Kept, Absent, Record, MissionState, Round
  <2>3. StoreT'
    BY <2>1, <2>2, PutKeeps
  <2> QED BY <2>1, <2>3, QuietStep, Frames
<1> QED BY <1>1, <1>2, <1>3

\* A decision and, for an approval, its token, which the handler carries along.
LEMMA RulingInv ==
  ASSUME Inv, NEW c \in Client, NEW m \in Mission, NEW r \in Round,
         Approve(c, m, r) \/ Reject(c, m, r)
  PROVE  Inv'
<1> USE DEF Inv, Typed
<1> DEFINE x(op) == [pc |-> "decided", op |-> op, mission |-> m,
                     rec |-> [Absent EXCEPT !.action = r]]
<1>1. ASSUME NEW op \in {"activate", "reject"}
      PROVE  /\ x(op) \in [pc : CallPc, op : Op, mission : Mission \cup {None}, rec : Record]
             /\ x(op).pc = "decided" /\ x(op).mission = m /\ x(op).rec.action = r
             /\ \A n : Activates(x(op), n) <=> op = "activate" /\ n = m
  BY DEF CallPc, Op, Absent, Record, MissionState, Round, Activates
<1>2. asked[m][r] # <<>>
  BY DEF Approve, Reject, Undecided
<1>3. UNCHANGED <<tasks, missions, claimed, server, working, owner>>
  BY DEF Approve, Reject
<1>4. CASE Approve(c, m, r)
  <2> DEFINE given == [token |-> approval[m][r].token + 1, live |-> TRUE, ruling |-> "approved"]
  <2>1. /\ call' = [call EXCEPT ![c] = x("activate")] /\ Decide(m, r, "approved")
        /\ approval' = [approval EXCEPT ![m] = [@ EXCEPT ![r] = given]]
    BY <1>4 DEF Approve
  <2>2. /\ CallT'
        /\ \A n : Pending(n)' = IF n = m THEN Pending(n) \cup {c} ELSE Pending(n) \ {c}
    <3> HIDE DEF x
    <3> QED BY <1>1, <2>1, CallMoves
  <2>3. asked' \in [Mission -> [Round -> Seq({"pending", "approved", "rejected"})]]
    BY <1>2, <2>1, DecideMoves
  <2>4. approval[m][r].token \in Nat /\ given \in Approval
    BY DEF ApprovalT, Approval
  <2>5. approval' \in [Mission -> [Round -> Approval]]
    BY <2>1, <2>4 DEF ApprovalT
  <2>6. /\ approval'[m][r].token = approval[m][r].token + 1
        /\ \A n \in Mission, s \in Round :
             n # m \/ s # r => approval'[n][s].token = approval[n][s].token
    BY <2>1 DEF ApprovalT
  <2>7. \A n \in Mission : Tokens(n)' = IF n = m THEN Tokens(n) + 1 ELSE Tokens(n)
    <3>1. \A n \in Mission, s \in Round : approval[n][s].token \in Nat
      BY DEF ApprovalT, Approval
    <3> QED BY <2>6, <3>1 DEF Tokens, Round
  <2>8. Accounted'
    BY <1>3, <2>2, <2>7, AccountedApprove
  <2>9. ApprovalT'
    BY <1>3, <2>3, <2>5 DEF ApprovalT
  <2> QED BY <1>3, <2>2, <2>8, <2>9, Frames
<1>5. CASE Reject(c, m, r)
  <2>1. /\ call' = [call EXCEPT ![c] = x("reject")] /\ Decide(m, r, "rejected")
        /\ approval' = [approval EXCEPT ![m][r].ruling = "rejected"]
    BY <1>5 DEF Reject
  <2>2. CallT' /\ \A n : Pending(n)' = Pending(n) \ {c}
    <3>1. /\ x("reject") \in [pc : CallPc, op : Op, mission : Mission \cup {None}, rec : Record]
          /\ x("reject").pc = "decided" /\ x("reject").mission \in Mission
          /\ x("reject").rec.action \in Round
      BY <1>1
    <3>2. \A n : ~Activates(x("reject"), n)
      BY <1>1
    <3> HIDE DEF x
    <3> QED BY <2>1, <3>1, <3>2, CallMoves
  <2>3. asked' \in [Mission -> [Round -> Seq({"pending", "approved", "rejected"})]]
    BY <1>2, <2>1, DecideMoves
  <2>4. ApprovalT' /\ \A n \in Mission : Tokens(n)' = Tokens(n)
    BY <1>3, <2>1, <2>3, ApprovalMoves DEF ApprovalT
  <2> QED BY <1>3, <2>2, <2>4, QuietStep, Frames
<1> QED BY <1>4, <1>5

LEMMA ReadMissionInv ==
  ASSUME Inv, NEW c \in Client, NEW m \in Mission, NEW op \in Op, ReadMission(c, m, op)
  PROVE  Inv'
<1>1. /\ Exists(m) /\ op # "activate" /\ Reads(c, op, m)
      /\ UNCHANGED <<files, server, working, owner>>
  BY DEF ReadMission
<1>2. CallT' /\ \A n : Pending(n)' = Pending(n) \ {c}
  BY <1>1, ReadsMoves DEF Inv, Typed
<1> QED BY <1>1, <1>2, QuietStep, Frames DEF Inv, Typed, files

-----------------------------------------------------------------------------
\* Handlers going on

\* The decision is looked up again: an approval's handler stays on its way to the
\* queue, or gives up.
LEMMA ReadDecidedInv ==
  ASSUME Inv, NEW c \in Client, ReadDecided(c)
  PROVE  Inv'
<1> DEFINE m == call[c].mission
<1> DEFINE r == call[c].rec.action
<1>1. m \in Mission /\ r \in Round /\ call[c].pc = "decided"
  BY DEF Inv, Typed, CallT, ReadDecided, Serving
<1>2. UNCHANGED <<files, server, working, owner>>
  BY DEF ReadDecided
<1>3. CallT' /\ \A n : Pending(n)' \subseteq Pending(n)
  <2>1. CASE Asks(c, "activate") /\ Activatable(m, r) /\ Reads(c, "activate", m)
    <3>1. Exists(m)
      BY <2>1 DEF Activatable, Awaits, Exists
    <3>2. c \in Pending(m)
      BY <1>1, <2>1 DEF Pending, Activates, Asks
    <3>3. /\ CallT'
          /\ \A n : Pending(n)' = IF n = m THEN Pending(n) \cup {c} ELSE Pending(n) \ {c}
      BY <1>1, <2>1, <3>1, ReadsMoves DEF Inv, Typed, Op
    <3> QED BY <3>2, <3>3
  <2>2. CASE Returns(c)
    BY <2>2, ReturnsMoves DEF Inv, Typed
  <2>3. CASE /\ Asks(c, "reject") /\ Awaits(m, r)
             /\ Stores(c, m, [missions[m] EXCEPT !.state = "rejected"])
    <3>1. Exists(m)
      BY <2>3 DEF Awaits, Exists
    <3>2. Kept(m, [missions[m] EXCEPT !.state = "rejected"])
      BY <1>1, <3>1, KeptWith DEF Inv, Typed, StoreT, MissionState
    <3> QED BY <2>3, <3>2, StoresMoves DEF Inv, Typed
  <2> QED BY <2>1, <2>2, <2>3 DEF ReadDecided
<1> QED BY <1>2, <1>3, QuietStep, Frames DEF Inv, Typed, files

LEMMA EnqueueAgainInv ==
  ASSUME Inv, NEW c \in Client, EnqueueAgain(c)
  PROVE  Inv'
<1> DEFINE m == call[c].mission
<1> DEFINE rec == call[c].rec
<1> USE DEF Inv, Typed
<1>1. /\ call[c].pc = "read" /\ Requeues(c) /\ EnqueueFor(m) /\ Stores(c, m, Queued(rec))
      /\ UNCHANGED <<missions, asked, approval, claimed, server, working>>
  BY DEF EnqueueAgain, Serving
<1>2. Kept(m, rec)
  BY <1>1 DEF CallT
<1>3. m \in Mission /\ QueueT' /\ NewTask \in Nat
  BY <1>1, <1>2, EnqueueMoves DEF Kept
<1>4. Kept(m, Queued(rec))
  <2>1. rec \in Record /\ rec.state # "absent"
    BY <1>2 DEF Kept
  <2>2. Queued(rec) \in Record /\ Queued(rec).state = "pending" /\ Queued(rec).action = rec.action
    BY <1>3, <2>1 DEF Queued, Record, MissionState
  <2> QED BY <1>2, <2>2 DEF Kept
<1>5. CallT' /\ \A n : Pending(n)' = Pending(n) \ {c}
  BY <1>1, <1>4, StoresMoves
<1>6. m \in Guarded => c \in Pending(m)
  <2>1. m \in Guarded => rec.action # "none"
    BY <1>2 DEF Kept
  <2> QED BY <1>1, <2>1 DEF Requeues, Asks, Pending, Activates
<1>7. Accounted'
  BY <1>1, <1>3, <1>5, <1>6, AccountedEnqueue
<1> QED BY <1>1, <1>3, <1>5, <1>7, Frames

LEMMA ProposeAgainInv ==
  ASSUME Inv, NEW c \in Client, ProposeAgain(c)
  PROVE  Inv'
<1> DEFINE m == call[c].mission
<1> DEFINE rec == call[c].rec
<1> DEFINE new == [rec EXCEPT !.state = "requires_approval", !.action = "again"]
<1> USE DEF Inv, Typed
<1>1. /\ call[c].pc = "read" /\ Propose(m, "again") /\ Stores(c, m, new)
      /\ UNCHANGED <<tasks, missions, approval, claimed, server, working, owner>>
  BY DEF ProposeAgain, Serving
<1>2. Kept(m, rec)
  BY <1>1 DEF CallT
<1>3. Kept(m, new)
  BY <1>2 DEF Kept, Record, MissionState, Round
<1>4. CallT' /\ \A n : Pending(n)' = Pending(n) \ {c}
  BY <1>1, <1>3, StoresMoves
<1>5. ApprovalT'
  BY <1>1, <1>2, ProposeMoves DEF Kept, Round
<1> QED BY <1>1, <1>4, <1>5, QuietStep, Frames

LEMMA CancelInv ==
  ASSUME Inv, NEW c \in Client, CancelWaiting(c) \/ CancelQueued(c)
  PROVE  Inv'
<1> DEFINE m == call[c].mission
<1> DEFINE rec == call[c].rec
<1> DEFINE r == rec.action
<1> USE DEF Inv, Typed
<1>1. Kept(m, rec) /\ UNCHANGED <<missions, claimed, server, working, owner>>
  BY DEF CancelWaiting, CancelQueued, Serving, CallT
<1>2. Kept(m, Cancelled(rec)) /\ m \in Mission
  BY <1>1, KeptWith DEF Cancelled, MissionState, Kept
<1>3. CallT' /\ \A n : Pending(n)' = Pending(n) \ {c}
  <2>1. Stores(c, m, Cancelled(rec)) \/ Returns(c)
    BY DEF CancelWaiting, CancelQueued
  <2> QED BY <1>2, <2>1, StoresMoves, ReturnsMoves
<1>4. CASE CancelWaiting(c)
  <2>1. ApprovalT' /\ \A n \in Mission : Tokens(n)' = Tokens(n)
    <3>1. CASE /\ StatusOf(m, r) = "pending" /\ Decide(m, r, "rejected")
               /\ approval' = [approval EXCEPT ![m][r].ruling = "rejected"]
      <4>1. asked[m][r] # <<>>
        BY <3>1 DEF StatusOf
      <4>2. asked' \in [Mission -> [Round -> Seq({"pending", "approved", "rejected"})]]
        BY <1>2, <3>1, <4>1, DecideMoves
      <4>3. /\ approval' \in [Mission -> [Round -> Approval]]
            /\ \A n \in Mission : Tokens(n)' = Tokens(n)
        BY <1>2, <3>1, ApprovalMoves, Zenon
      <4>4. ApprovalT'
        BY <1>1, <4>2, <4>3 DEF ApprovalT
      <4> QED BY <4>3, <4>4
    <3>2. CASE UNCHANGED <<asked, approval>>
      BY <1>1, <3>2, Frames
    <3>3. \/ /\ StatusOf(m, r) = "pending" /\ Decide(m, r, "rejected")
             /\ approval' = [approval EXCEPT ![m][r].ruling = "rejected"]
          \/ UNCHANGED <<asked, approval>>
      BY <1>4 DEF CancelWaiting
    <3> QED BY <3>1, <3>2, <3>3
  <2> QED BY <1>1, <1>3, <1>4, <2>1, QuietStep, Frames DEF CancelWaiting
<1>5. CASE CancelQueued(c)
  <2>1. tasks' = tasks \/ \E i : tasks' = AfterCancel(tasks, i)
    BY <1>5 DEF CancelQueued
  <2>2. QueueT' /\ DOMAIN tasks' = DOMAIN tasks
    BY <1>1, <2>1, QueueMoves
  <2> QED BY <1>1, <1>3, <1>5, <2>2, QuietStep, Frames DEF CancelQueued
<1> QED BY <1>4, <1>5

LEMMA PutMissionInv ==
  ASSUME Inv, NEW c \in Client, PutMission(c)
  PROVE  Inv'
<1> USE DEF Inv, Typed
<1>1. Kept(call[c].mission, call[c].rec)
  BY DEF PutMission, Serving, CallT
<1>2. StoreT'
  BY <1>1, PutKeeps DEF PutMission
<1>3. CallT' /\ \A n : Pending(n)' = Pending(n) \ {c}
  BY ReturnsMoves DEF PutMission
<1> QED BY <1>2, <1>3, QuietStep, Frames DEF PutMission

LEMMA ExpireInv ==
  ASSUME Inv, NEW m \in Mission, NEW r \in Round, Expire(m, r)
  PROVE  Inv'
<1> USE DEF Inv, Typed
<1>1. ApprovalT' /\ \A n \in Mission : Tokens(n)' = Tokens(n)
  BY ApprovalMoves DEF Expire, ApprovalT
<1> QED BY <1>1, QuietStep, Frames DEF Expire

-----------------------------------------------------------------------------
\* The worker

\* A step of the worker that leaves requests, approvals' tokens and the length of
\* the queue alone.
LEMMA WorkerStep ==
  ASSUME Inv, QueueT', owner' = owner, DOMAIN tasks' = DOMAIN tasks,
         StoreT', ApprovalT', WorkerT', UNCHANGED <<server, call, approval>>
  PROVE  Inv'
BY AccountedKept, Frames DEF Inv, Typed

LEMMA WorkerIsIdle ==
  ASSUME NEW label \in {"idle", "dead"}, WorkerRests(label)
  PROVE  WorkerT'
BY AbsentRecord DEF WorkerRests, WorkerAt, WorkerT, WorkerPc, NoTask, MissionState

LEMMA ClaimTaskInv ==
  ASSUME Inv, ClaimTask
  PROVE  Inv'
<1> USE DEF Inv, Typed
<1>1. PICK i \in DOMAIN tasks : tasks' = AfterClaim(tasks, i) /\ wtask' = i
  BY DEF ClaimTask
<1>2. i \in Nat
  BY DEF QueueT
<1>3. WorkerT'
  BY <1>1, <1>2 DEF ClaimTask, Working, WorkerAt, WorkerT, WorkerPc
<1>4. QueueT' /\ DOMAIN tasks' = DOMAIN tasks
  BY <1>1, QueueMoves DEF ClaimTask
<1> QED BY <1>3, <1>4, WorkerStep, Frames DEF ClaimTask

LEMMA LookUpInv ==
  ASSUME Inv, LookUp
  PROVE  Inv'
<1> USE DEF Inv, Typed
<1>1. WorkerT'
  <2>1. CASE Of(wtask) = {}
    BY <2>1 DEF LookUp, Working, WorkerAt, WorkerT, WorkerPc, Kept
  <2>2. CASE Of(wtask) # {}
    <3>1. wmission' \in Mission /\ Exists(wmission') /\ seen' = missions[wmission']
      BY <2>2 DEF LookUp, Of
    <3>2. Kept(wmission', seen')
      BY <3>1 DEF StoreT
    <3>3. known' \subseteq Nat
      BY <2>2, <3>1 DEF LookUp, StoreT, Record
    <3> QED BY <2>2, <3>2, <3>3 DEF LookUp, Working, WorkerAt, WorkerT, WorkerPc, Kept
  <2> QED BY <2>1, <2>2
<1> QED BY <1>1, WorkerStep, Frames DEF LookUp, files

LEMMA MarkRunningInv ==
  ASSUME Inv, MarkRunning
  PROVE  Inv'
<1> USE DEF Inv, Typed
<1>1. Kept(wmission, seen)
  BY DEF MarkRunning, Working, WorkerT
<1>2. Kept(wmission, [seen EXCEPT !.state = "running"])
  BY <1>1, KeptWith DEF MissionState
<1>3. StoreT'
  BY <1>2, PutKeeps DEF MarkRunning
<1>4. WorkerT'
  BY <1>1 DEF MarkRunning, Working, WorkerAt, WorkerT, WorkerPc
<1> QED BY <1>3, <1>4, WorkerStep, Frames DEF MarkRunning

LEMMA BeginInv ==
  ASSUME Inv, Begin \/ BeginPrivileged \/ Unapproved
  PROVE  Inv'
<1> USE DEF Inv, Typed
<1>1. WorkerT'
  BY DEF Begin, BeginPrivileged, Unapproved, Ends, Working, WorkerAt, WorkerT, WorkerPc, MissionState
<1>2. ApprovalT'
  <2>1. CASE BeginPrivileged
    <3>1. wmission \in Mission /\ seen.action \in Round
      BY <2>1 DEF BeginPrivileged, Working, WorkerT, Kept, Record
    <3>2. TokenOf(wmission, seen.action) \in Token
      BY <3>1 DEF TokenOf, Token, ApprovalT, Approval
    <3> QED BY <2>1, <3>2 DEF BeginPrivileged, ApprovalT
  <2>2. CASE Begin \/ Unapproved
    BY <2>2, Frames DEF Begin, Unapproved, files
  <2> QED BY <2>1, <2>2
<1>3. UNCHANGED <<tasks, missions, approval, server, call, owner>>
  BY DEF Begin, BeginPrivileged, Unapproved, files
<1> QED BY <1>1, <1>2, <1>3, WorkerStep, Frames

\* The worker executes: only its place, its outcome and the latest record change.
LEMMA ExecutesInv ==
  ASSUME Inv,
         \/ \E result \in MissionState : RunTask(result)
         \/ StepFails \/ StepsDone \/ StepVerified
  PROVE  Inv'
<1> USE DEF Inv, Typed
<1>1. UNCHANGED <<files, server, call, wtask, wmission, seen, known, privileged, owner>>
  BY DEF RunTask, StepFails, StepsDone, StepVerified
<1>2. wpc = "running"
  BY DEF RunTask, StepFails, StepsDone, StepVerified, Working
<1>3. CASE StepVerified
  <2>1. seen.state # "absent"
    BY <1>3 DEF StepVerified, Remaining, Dag
  <2>2. Kept(wmission, seen)
    BY <1>2, <2>1 DEF WorkerT
  <2>3. Kept(wmission, latest')
    BY <1>3, <2>2 DEF StepVerified, StoreT, Kept
  <2>4. WorkerT'
    BY <1>1, <1>2, <1>3, <2>3 DEF StepVerified, WorkerAt, WorkerT, WorkerPc, Kept
  <2> QED BY <1>1, <2>4, WorkerStep, Frames DEF files
<1>4. CASE StepFails \/ StepsDone \/ \E result \in MissionState : RunTask(result)
  <2>1. \E result \in MissionState \ {"absent"} : Ends(result) /\ UNCHANGED latest
    BY <1>4 DEF RunTask, StepFails, StepsDone, MissionState
  <2>2. WorkerT'
    BY <1>1, <1>2, <2>1 DEF Ends, WorkerAt, WorkerT, WorkerPc
  <2> QED BY <1>1, <2>2, WorkerStep, Frames DEF files
<1> QED BY <1>3, <1>4

LEMMA StoreStepInv ==
  ASSUME Inv, StoreStep
  PROVE  Inv'
<1> USE DEF Inv, Typed
<1>1. PICK s \in Remaining : Put(wmission, Progress(s)) /\ known' = known \cup {s}
  BY DEF StoreStep
<1>2. s \in Nat /\ seen.state # "absent"
  <2>1. Remaining = (1..Steps[wmission]) \ known /\ Dag
    BY <1>1 DEF Remaining
  <2>2. wmission \in Mission
    BY DEF StoreStep, Working, WorkerT, Kept
  <2> QED BY <1>1, <2>1, <2>2, MissionControlAssumption DEF Dag
<1>3. Kept(wmission, latest)
  BY DEF StoreStep, Working, WorkerT
<1>4. Kept(wmission, Progress(s))
  <2>1. latest \in Record
    BY <1>3 DEF Kept
  <2>2. /\ Progress(s) \in Record /\ Progress(s).state = "running"
        /\ Progress(s).action = latest.action
    BY <1>2, <2>1 DEF Progress, Record, MissionState
  <2> QED BY <1>3, <2>2 DEF Kept
<1>5. StoreT'
  BY <1>1, <1>4, PutKeeps
<1>6. WorkerT'
  BY <1>1, <1>2, AbsentRecord DEF StoreStep, Working, WorkerAt, WorkerT, WorkerPc
<1> QED BY <1>5, <1>6, WorkerStep, Frames DEF StoreStep

LEMMA LookAgainInv ==
  ASSUME Inv, LookAgain
  PROVE  Inv'
<1> USE DEF Inv, Typed
<1>1. UNCHANGED <<files, server, call, wtask, seen, known, outcome, privileged, owner>>
  BY DEF LookAgain
<1>2. \/ wpc = "ended" /\ wpc' = "final" /\ Kept(wmission', latest')
      \/ wpc' = "done" /\ UNCHANGED <<wmission, latest>>
  <2>1. CASE wmission' \in Of(wtask) /\ latest' = missions[wmission'] /\ wpc' = "final"
    BY <2>1 DEF LookAgain, Working, Of, StoreT
  <2>2. CASE seen.state # "absent" /\ latest' = seen /\ wpc' = "final" /\ UNCHANGED wmission
    BY <2>2 DEF LookAgain, Working, WorkerT
  <2> QED BY <2>1, <2>2 DEF LookAgain, WorkerAt
<1>3. WorkerT'
  BY <1>1, <1>2 DEF WorkerT, WorkerPc, Kept
<1> QED BY <1>1, <1>3, WorkerStep, Frames DEF files

LEMMA PutOutcomeInv ==
  ASSUME Inv, PutOutcome
  PROVE  Inv'
<1> USE DEF Inv, Typed
<1>1. Kept(wmission, latest) /\ outcome \in MissionState /\ outcome # "absent"
  BY DEF PutOutcome, Working, WorkerT
<1>2. Kept(wmission, [latest EXCEPT !.state = outcome])
  BY <1>1, KeptWith
<1>3. StoreT'
  BY <1>2, PutKeeps DEF PutOutcome
<1>4. WorkerT'
  BY DEF PutOutcome, Working, WorkerAt, WorkerT, WorkerPc
<1> QED BY <1>3, <1>4, WorkerStep, Frames DEF PutOutcome

\* An item is completed with its outcome, or as failed by the except clause.
LEMMA CompletesSo ==
  ASSUME CompleteTask \/ CompletionRaises
  PROVE  wpc = "done" /\ mode = "up" /\ \E success \in BOOLEAN : Completes(success)
BY DEF CompleteTask, CompletionRaises, Working

LEMMA CompletesInv ==
  ASSUME Inv, NEW success \in BOOLEAN, Completes(success)
  PROVE  Inv'
<1> USE DEF Inv, Typed
<1>1. QueueT' /\ DOMAIN tasks' = DOMAIN tasks
  BY QueueMoves DEF Completes
<1>2. WorkerT'
  BY WorkerIsIdle DEF Completes, WorkerIdle
<1> QED BY <1>1, <1>2, WorkerStep, Frames DEF Completes

-----------------------------------------------------------------------------
\* A call raises

LEMMA RequestRaisesInv ==
  ASSUME Inv, NEW c \in Client, RequestRaises(c)
  PROVE  Inv'
<1> USE DEF Inv, Typed
<1>1. CallT' /\ \A n : Pending(n)' = Pending(n) \ {c}
  BY ReturnsMoves DEF RequestRaises
<1> QED BY <1>1, QuietStep, Frames DEF RequestRaises, files

LEMMA WorkerRaisesInv ==
  ASSUME Inv, RuntimeRaises \/ HandlerRaises \/ WorkerDies
  PROVE  Inv'
<1> USE DEF Inv, Typed
<1>1. UNCHANGED <<files, server, call, owner>>
  BY DEF RuntimeRaises, HandlerRaises, WorkerDies
<1>2. CASE RuntimeRaises
  <2>1. WorkerT'
    BY <1>2 DEF RuntimeRaises, Ends, Working, WorkerAt, WorkerT, WorkerPc, MissionState
  <2> QED BY <1>1, <2>1, WorkerStep, Frames DEF files
<1>3. CASE HandlerRaises
  <2>1. WorkerT'
    BY <1>3 DEF HandlerRaises, WorkerAt, WorkerT, WorkerPc, MissionState
  <2> QED BY <1>1, <2>1, WorkerStep, Frames DEF files
<1>4. CASE WorkerDies
  BY <1>1, <1>4, WorkerIsIdle, WorkerStep, Frames DEF WorkerDies, files
<1> QED BY <1>2, <1>3, <1>4

-----------------------------------------------------------------------------
\* The server

LEMMA StartsInv ==
  ASSUME Inv, Starts
  PROVE  Inv'
<1> USE DEF Inv, Typed
<1>1. CASE Restart
  <2>1. QueueT' /\ DOMAIN tasks' = DOMAIN tasks
    BY <1>1, QueueMoves DEF Restart
  <2>2. DOMAIN tasks' \subseteq TaskId
    <3>1. tasks \in Seq(QueueItem) /\ Len(tasks) <= MaxTasks
      BY DEF QueueT
    <3> QED BY <2>1, <3>1, MissionControlAssumption
  <2>3. ServerT'
    BY <1>1, <2>2 DEF Restart, ServerT
  <2> QED BY <1>1, <2>1, <2>3, AccountedKept, Frames DEF Restart
<1>2. CASE RecoverMission
  <2>1. PICK t \in todo : missions' = Recovered(t) /\ todo' = todo \ {t}
    BY <1>2 DEF RecoverMission
  <2>2. ASSUME NEW m \in Mission
        PROVE  missions'[m] = missions[m] \/ Kept(m, missions'[m])
    <3>1. CASE m \in Of(t)
      <4>1. Kept(m, missions[m])
        BY <3>1 DEF Of, StoreT
      <4>2. missions'[m] = [missions[m] EXCEPT !.state = "recovery_required"]
        BY <2>1, <3>1 DEF Recovered
      <4>3. "recovery_required" \in MissionState /\ "recovery_required" # "absent"
        BY DEF MissionState
      <4>4. Kept(m, [missions[m] EXCEPT !.state = "recovery_required"])
        BY <4>1, <4>3, KeptWith
      <4> QED BY <4>2, <4>4
    <3>2. CASE m \notin Of(t)
      BY <2>1, <3>2 DEF Recovered
    <3> QED BY <3>1, <3>2
  <2>3. missions' \in [Mission -> Record]
    BY <2>1, <2>2 DEF StoreT, Recovered, Kept
  <2>4. StoreT'
    BY <2>2, <2>3 DEF StoreT, Exists
  <2>5. ServerT' /\ UNCHANGED <<tasks, asked, approval, claimed, call, working, owner>>
    BY <1>2, <2>1 DEF RecoverMission, ServerT
  <2> QED BY <2>4, <2>5, AccountedKept, Frames
<1>3. CASE Serve
  <2>1. ServerT' /\ UNCHANGED <<files, call, working, owner>>
    BY <1>3 DEF Serve, ServerT
  <2> QED BY <2>1, AccountedKept, Frames DEF files
<1> QED BY <1>1, <1>2, <1>3 DEF Starts

\* A crash loses the handlers, and their way to the queue.
LEMMA CrashInv ==
  ASSUME Inv, Crash
  PROVE  Inv'
<1> USE DEF Inv, Typed
<1>1. UNCHANGED <<files, owner>> /\ call' = [c \in Client |-> Idle] /\ ServerT'
  BY DEF Crash, ServerT
<1>2. Idle \in [pc : CallPc, op : Op, mission : Mission \cup {None}, rec : Record]
  BY AbsentRecord DEF Idle, CallPc, Op
<1>3. CallT' /\ \A m : Pending(m)' = {}
  <2>1. Idle.pc = "idle"
    BY DEF Idle
  <2>2. \A c \in Client : call'[c] = Idle
    BY <1>1
  <2> QED BY <1>1, <1>2, <2>1, <2>2 DEF CallT, Pending, Activates
<1>4. WorkerT'
  BY WorkerIsIdle DEF Crash, WorkerIdle
<1> QED BY <1>1, <1>3, <1>4, AccountedKept, Frames DEF files

-----------------------------------------------------------------------------
\* Every step

LEMMA InitInv == Init => Inv
<1> SUFFICES ASSUME Init PROVE Inv
  OBVIOUS
<1>1. QueueT
  BY MissionControlAssumption DEF Init, QueueT
<1>2. StoreT
  BY AbsentRecord DEF Init, StoreT, Exists
<1>3. ApprovalT
  BY DEF Init, ApprovalT, Approval
<1>4. ServerT
  BY DEF Init, ServerT
<1>5. Idle \in [pc : CallPc, op : Op, mission : Mission \cup {None}, rec : Record] /\ Idle.pc = "idle"
  BY AbsentRecord DEF Idle, CallPc, Op
<1>6. \A c \in Client : call[c] = Idle
  BY DEF Init
<1>7. CallT
  BY <1>5, <1>6 DEF Init, CallT
<1>8. WorkerT
  BY AbsentRecord DEF Init, WorkerT, WorkerPc, NoTask, MissionState
<1>9. Accounted
  <2> SUFFICES ASSUME NEW m \in Guarded
               PROVE  Cardinality(Items(m)) + Cardinality(Pending(m)) <= Tokens(m)
    BY DEF Accounted
  <2>1. Items(m) = {}
    BY DEF Init, Items
  <2>2. Pending(m) = {}
    BY <1>5, <1>6 DEF Pending, Activates
  <2>3. Tokens(m) \in Nat
    BY <1>3, TokensAreNumbers, MissionControlAssumption
  <2> QED BY <2>1, <2>2, <2>3, FS_EmptySet
<1> QED BY <1>1, <1>2, <1>3, <1>4, <1>7, <1>8, <1>9 DEF Inv, Typed

LEMMA StutterInv == Inv /\ UNCHANGED vars => Inv'
<1> SUFFICES ASSUME Inv, UNCHANGED vars PROVE Inv'
  OBVIOUS
<1>1. UNCHANGED <<tasks, missions, asked, approval, claimed, server, call, working, owner>>
  BY DEF vars, files
<1> QED BY <1>1, QuietStep, Frames DEF Inv, Typed

LEMMA NextInv == Inv /\ Next => Inv'
<1> SUFFICES ASSUME Inv, Next PROVE Inv'
  OBVIOUS
<1>1. ASSUME NEW c \in Client, Requests(c) PROVE Inv'
  BY <1>1, SubmitInv, RulingInv, ReadMissionInv DEF Requests
<1>2. ASSUME NEW c \in Client, Proceeds(c) PROVE Inv'
  BY <1>2, ReadDecidedInv, EnqueueAgainInv, ProposeAgainInv, CancelInv, PutMissionInv DEF Proceeds
<1>3. CASE \E m \in Mission, r \in Round : Expire(m, r)
  BY <1>3, ExpireInv
<1>4. CASE Works
  BY <1>4, ClaimTaskInv, LookUpInv, MarkRunningInv, BeginInv, ExecutesInv, StoreStepInv,
     LookAgainInv, PutOutcomeInv, CompletesSo, CompletesInv DEF Works
<1>5. CASE Starts
  BY <1>5, StartsInv
<1>6. CASE Crash
  BY <1>6, CrashInv
<1>7. CASE \E c \in Client : RequestRaises(c)
  BY <1>7, RequestRaisesInv
<1>8. CASE RuntimeRaises \/ HandlerRaises \/ CompletionRaises \/ WorkerDies
  BY <1>8, WorkerRaisesInv, CompletesSo, CompletesInv
<1> QED BY <1>1, <1>2, <1>3, <1>4, <1>5, <1>6, <1>7, <1>8 DEF Next

LEMMA InvAlways == Spec => []Inv
BY InitInv, NextInv, StutterInv, PTL DEF Spec

\* Whatever handlers, worker and crashes do, the three files, the handlers and the
\* worker stay well formed (mission_control.py: MissionRecord, MissionStore).
THEOREM MissionTypes == Spec => []TypeOK
<1>1. Inv => TypeOK
  BY DEF Inv, Typed, QueueT, StoreT, ApprovalT, ServerT, CallT, WorkerT, TypeOK
<1> QED BY <1>1, InvAlways, PTL

\* activate_approved_action and resume enqueue a guarded mission once for each
\* approval it was given, however many handlers race and wherever they die.
THEOREM QueuedPerApproval == Spec => []OneItemPerApproval
<1>1. Inv => OneItemPerApproval
  <2> SUFFICES ASSUME Inv, NEW m \in Guarded
               PROVE  Cardinality(Items(m)) <= Tokens(m)
    BY DEF OneItemPerApproval, Items, Tokens
  <2>1. Cardinality(Items(m)) + Cardinality(Pending(m)) <= Tokens(m)
    BY DEF Inv, Accounted
  <2>2. Cardinality(Items(m)) \in Nat /\ Cardinality(Pending(m)) \in Nat
    BY Finite DEF Inv, Typed
  <2>3. Tokens(m) \in Nat
    BY TokensAreNumbers, MissionControlAssumption DEF Inv, Typed
  <2> QED BY <2>1, <2>2, <2>3
<1> QED BY <1>1, InvAlways, PTL
-----------------------------------------------------------------------------
\* One handler at a time, and no item that overtakes its mission: a handler knows
\* the mission it is going to store, and the worker the one it executes.

OneHandler == \A c, d \in Client : c = d

Worked(t) == t = wtask /\ wpc \notin {"idle", "done", "dead"}
Busy(m) == Exists(m) /\ Worked(missions[m].task)

\* The item a mission names is its own, and waits only for a mission that does.
Holds(m, rec) ==
  rec.task # NoTask => /\ rec.task \in DOMAIN tasks /\ owner[rec.task] = m
                       /\ rec.state # "pending" => tasks[rec.task].state # "pending"
StoreS ==
  \A m \in Mission : IF Exists(m) THEN Holds(m, missions[m]) ELSE missions[m] = Absent

Executing == {"looked", "marked", "running", "stepped", "ended", "final"}

\* What the worker has read of the mission it executes is what the store holds.
ReadsTrue ==
  /\ wpc \in Executing =>
       IF seen.state = "absent" THEN \A m \in Mission : ~Busy(m)
                                ELSE wmission \in Mission /\ Busy(wmission)
  /\ wpc \in {"looked", "stepped", "final"} => seen.state # "absent"
  /\ wpc = "looked" => seen = missions[wmission] /\ known = seen.done
  /\ wpc \in {"marked", "running", "stepped"} /\ seen.state # "absent"
       => known = missions[wmission].done
  /\ wpc \in {"stepped", "final"} => latest = missions[wmission]
ItemRuns ==
  /\ wpc # "idle" => mode = "up"
  /\ IF wpc \in {"idle", "dead"}
       THEN wtask = NoTask
       ELSE wtask \in DOMAIN tasks /\ tasks[wtask].state = "running"
  /\ \A m \in Mission : Busy(m) => missions[m].state \in {"pending", "running"}
WorkS == ItemRuns /\ ReadsTrue

ServerS ==
  /\ mode # "up" => \A c \in Client : call[c] = Idle
  /\ todo # {} => mode = "recovering"
  /\ \A t \in todo : t \in DOMAIN tasks /\ tasks[t].state = "recovery_required"

\* A handler holds what the store holds; a cancellation may be behind the worker, but
\* then the queue refuses it.
ReadRight(x) ==
  /\ Exists(x.mission) /\ x.rec.task = missions[x.mission].task
  /\ x.op \in {"activate", "resume", "cancel"}
  /\ x.op = "activate" => x.rec.state = "requires_approval"
  /\ x.op = "resume" => x.rec.state \in Resumable
  /\ \/ x.rec = missions[x.mission]
     \/ /\ x.op = "cancel" /\ x.rec.state # "requires_approval"
        /\ x.rec.task \in DOMAIN tasks
        /\ tasks[x.rec.task].state \notin Cancellable
PutRight(x) ==
  /\ Holds(x.mission, x.rec) /\ x.rec.done = missions[x.mission].done
  /\ ~Busy(x.mission) /\ ~Worked(x.rec.task)
CallS == \A c \in Client : /\ call[c].pc = "read" => ReadRight(call[c])
                           /\ call[c].pc = "putting" => PutRight(call[c])

Steady == StoreS /\ WorkS /\ ServerS /\ CallS

-----------------------------------------------------------------------------
\* How the parts stand while others move

\* No item starts to wait again.
QueueStill == /\ owner' = owner /\ DOMAIN tasks' = DOMAIN tasks
              /\ \A t \in DOMAIN tasks : tasks'[t].state = "pending" => tasks[t].state = "pending"

LEMMA StoreStands ==
  ASSUME StoreS, QueueStill,
         \A m \in Mission : missions'[m] = missions[m] \/ (Exists(m)' /\ Holds(m, missions[m])')
  PROVE  StoreS'
<1> SUFFICES ASSUME NEW m \in Mission
             PROVE  (IF Exists(m) THEN Holds(m, missions[m]) ELSE missions[m] = Absent)'
  BY DEF StoreS
<1>1. CASE missions'[m] = missions[m]
  BY <1>1 DEF StoreS, QueueStill, Exists, Holds
<1>2. CASE Exists(m)' /\ Holds(m, missions[m])'
  BY <1>2
<1> QED BY <1>1, <1>2

\* Everything that moves while the worker is at work leaves its mission and item.
LEMMA WorkStands ==
  ASSUME WorkS, UNCHANGED <<mode, working>>, DOMAIN tasks \subseteq DOMAIN tasks',
         \A t \in DOMAIN tasks : tasks[t].state = "running" => tasks'[t] = tasks[t],
         \A m \in Mission : \/ missions'[m] = missions[m]
                            \/ ~Busy(m) /\ (~Exists(m) \/ ~Worked(missions[m].task))'
  PROVE  WorkS'
<1>1. UNCHANGED <<wpc, wtask, wmission, seen, known, latest>>
  BY DEF working
<1>2. \A m \in Mission : Busy(m)' <=> Busy(m)
  BY <1>1 DEF Busy, Exists, Worked
<1>3. \A m \in Mission : Busy(m) => missions'[m] = missions[m]
  OBVIOUS
<1>4. ItemRuns'
  BY <1>1, <1>2, <1>3 DEF WorkS, ItemRuns
<1>5. wpc \in Executing /\ seen.state # "absent" =>
         wmission \in Mission /\ Busy(wmission)' /\ missions'[wmission] = missions[wmission]
  BY <1>1, <1>2, <1>3 DEF WorkS, ReadsTrue
<1>6. {"looked", "stepped", "final", "marked", "running"} \subseteq Executing
  BY DEF Executing
<1>7. ReadsTrue'
  BY <1>1, <1>2, <1>5, <1>6 DEF WorkS, ReadsTrue
<1> QED BY <1>4, <1>7 DEF WorkS

\* The worker's own steps leave the handlers right.
LEMMA CallsStand ==
  ASSUME Typed, WorkS, CallS, UNCHANGED call, QueueStill,
         \A m \in Mission : \/ missions'[m] = missions[m]
                            \/ /\ Busy(m) /\ Exists(m)' /\ missions'[m].task = missions[m].task,
         \A t : Worked(t)' => Worked(t),
         \A t \in DOMAIN tasks : tasks[t].state \notin Cancellable
                                   => tasks'[t].state \notin Cancellable
  PROVE  CallS'
<1> SUFFICES ASSUME NEW c \in Client
             PROVE  (/\ call[c].pc = "read" => ReadRight(call[c])
                     /\ call[c].pc = "putting" => PutRight(call[c]))'
  BY DEF CallS
<1>1. PICK x : x = call[c]
  OBVIOUS
<1>2. x.pc \in {"read", "putting"} => x.mission \in Mission
  BY <1>1 DEF Typed, CallT, Kept
<1>3. ASSUME x.pc = "read" PROVE ReadRight(x)'
  <2> DEFINE m == x.mission
  <2>1. ReadRight(x) /\ m \in Mission
    BY <1>1, <1>2, <1>3 DEF CallS
  <2>2. CASE missions'[m] = missions[m]
    BY <2>1, <2>2 DEF ReadRight, Exists, QueueStill
  <2>3. CASE Busy(m) /\ Exists(m)' /\ missions'[m].task = missions[m].task
    <3>1. /\ missions[m].state \in {"pending", "running"} /\ missions[m].task \in DOMAIN tasks
          /\ tasks[missions[m].task].state = "running"
      BY <2>1, <2>3 DEF WorkS, ItemRuns, Busy, Worked
    <3>2. x.op = "cancel" /\ x.rec.state # "requires_approval"
      BY <2>1, <3>1 DEF ReadRight, Resumable
    <3>3. x.rec.task = missions[m].task /\ "running" \notin Cancellable
      BY <2>1 DEF ReadRight, Cancellable
    <3>4. x.rec.task \in DOMAIN tasks /\ tasks'[x.rec.task].state \notin Cancellable
      BY <3>1, <3>3
    <3> QED BY <2>1, <2>3, <3>2, <3>4 DEF ReadRight, QueueStill
  <2> QED BY <2>1, <2>2, <2>3
<1>4. ASSUME x.pc = "putting" PROVE PutRight(x)'
  <2>1. PutRight(x) /\ x.mission \in Mission
    BY <1>1, <1>2, <1>4 DEF CallS
  <2>2. missions'[x.mission] = missions[x.mission]
    BY <2>1 DEF PutRight
  <2>3. Holds(x.mission, x.rec)'
    BY <2>1 DEF PutRight, Holds, QueueStill
  <2> QED BY <2>1, <2>2, <2>3 DEF PutRight, Busy, Exists
<1> QED BY <1>1, <1>3, <1>4
\* The only handler goes on to x.
LEMMA CallTurns ==
  ASSUME OneHandler, CallT, NEW c \in Client, NEW x, call' = [call EXCEPT ![c] = x],
         x.pc = "read" => ReadRight(x)', x.pc = "putting" => PutRight(x)'
  PROVE  CallS'
<1>1. \A d \in Client : call'[d] = x
  BY DEF OneHandler, CallT
<1> SUFFICES ASSUME NEW d \in Client
             PROVE  (/\ call[d].pc = "read" => ReadRight(call[d])
                     /\ call[d].pc = "putting" => PutRight(call[d]))'
  BY DEF CallS
<1>2. PICK y : y = call'[d]
  OBVIOUS
<1>3. y = x
  BY <1>1, <1>2
<1> QED BY <1>2, <1>3

LEMMA ReturnTurns ==
  ASSUME OneHandler, CallT, NEW c \in Client, Returns(c)
  PROVE  CallS'
<1>1. Idle.pc = "idle"
  BY DEF Idle
<1> QED BY <1>1, CallTurns DEF Returns

LEMMA ReadTurns ==
  ASSUME OneHandler, CallT, NEW c \in Client, NEW m \in Mission, NEW op, Reads(c, op, m),
         Exists(m), missions' = missions, op \in {"activate", "resume", "cancel"},
         op = "activate" => missions[m].state = "requires_approval",
         op = "resume" => missions[m].state \in Resumable
  PROVE  CallS'
<1>1. PICK x : x = [pc |-> "read", op |-> op, mission |-> m, rec |-> missions[m]]
  OBVIOUS
<1>2. /\ x.pc = "read" /\ x.op = op /\ x.mission = m /\ x.rec = missions[m]
  BY <1>1
<1>3. call' = [call EXCEPT ![c] = x]
  BY <1>1 DEF Reads
<1>4. ReadRight(x)'
  BY <1>2 DEF ReadRight, Exists
<1> QED BY <1>2, <1>3, <1>4, CallTurns

LEMMA StoreTurns ==
  ASSUME OneHandler, CallT, NEW c \in Client, NEW m, NEW rec,
         Stores(c, m, rec), Holds(m, rec)', rec.done = missions'[m].done,
         ~Busy(m)', ~Worked(rec.task)'
  PROVE  CallS'
<1>1. PICK x : x = [pc |-> "putting", op |-> "none", mission |-> m, rec |-> rec]
  OBVIOUS
<1>2. x.pc = "putting" /\ x.mission = m /\ x.rec = rec
  BY <1>1
<1>3. call' = [call EXCEPT ![c] = x]
  BY <1>1 DEF Stores
<1>4. PutRight(x)'
  BY <1>2 DEF PutRight
<1> QED BY <1>2, <1>3, <1>4, CallTurns

LEMMA ServerServes ==
  ASSUME ServerS, mode = "up", UNCHANGED server
  PROVE  ServerS'
BY DEF ServerS, server

\* A step of a handler that stores nothing and leaves the queue.
LEMMA HandlerSteady ==
  ASSUME Steady, mode = "up", UNCHANGED <<tasks, missions, server, working, owner>>, CallS'
  PROVE  Steady'
<1>1. StoreS'
  BY StoreStands DEF Steady, QueueStill
<1>2. WorkS'
  BY WorkStands DEF Steady, server
<1>3. ServerS'
  BY ServerServes DEF Steady
<1> QED BY <1>1, <1>2, <1>3 DEF Steady

\* One item is rewritten.
LEMMA Rewrites ==
  ASSUME QueueT, NEW i \in DOMAIN tasks, NEW r, tasks' = [tasks EXCEPT ![i] = r]
  PROVE  /\ DOMAIN tasks' = DOMAIN tasks /\ tasks'[i] = r
         /\ \A t \in DOMAIN tasks : t # i => tasks'[t] = tasks[t]
BY DEF QueueT

\* A new item waits, and is nobody's yet.
LEMMA EnqueueGrows ==
  ASSUME QueueT, NEW m \in Mission, EnqueueFor(m)
  PROVE  /\ NewTask \notin DOMAIN tasks /\ NewTask # NoTask
         /\ DOMAIN tasks' = DOMAIN tasks \cup {NewTask}
         /\ \A t \in DOMAIN tasks : tasks'[t] = tasks[t] /\ owner'[t] = owner[t]
         /\ owner'[NewTask] = m /\ tasks'[NewTask].state = "pending"
<1>1. tasks \in Seq(QueueItem) /\ owner \in Seq(Mission) /\ Len(owner) = Len(tasks)
  BY DEF QueueT
<1>2. PICK x : x = [task_id |-> NewTask, state |-> "pending", due |-> TRUE, attempts |-> 0]
  OBVIOUS
<1>3. x.state = "pending"
  BY <1>2
<1>4. tasks' = Append(tasks, x) /\ owner' = Append(owner, m)
  BY <1>2 DEF EnqueueFor, AfterEnqueue, NewItem
<1> QED BY <1>1, <1>3, <1>4 DEF NewTask, NoTask

LEMMA Unworked ==
  ASSUME QueueT, WorkS, NEW t, Worked(t)
  PROVE  t \in DOMAIN tasks /\ t # NoTask /\ tasks[t].state = "running"
BY DEF QueueT, WorkS, ItemRuns, Worked, NoTask

\* The handler stores rec for m later, with a new item.
LEMMA EnqueueSteady ==
  ASSUME OneHandler, Typed, Steady, NEW c \in Client, NEW m \in Mission, NEW rec,
         mode = "up", EnqueueFor(m), Stores(c, m, rec),
         UNCHANGED <<missions, server, working>>,
         rec.task = NewTask, rec.done = missions[m].done, rec.state = "pending", ~Busy(m)
  PROVE  Steady'
<1> USE DEF Typed, Steady
<1>1. /\ NewTask \notin DOMAIN tasks /\ NewTask # NoTask
      /\ DOMAIN tasks' = DOMAIN tasks \cup {NewTask}
      /\ \A t \in DOMAIN tasks : tasks'[t] = tasks[t] /\ owner'[t] = owner[t]
      /\ owner'[NewTask] = m
  BY EnqueueGrows
<1>2. UNCHANGED <<wpc, wtask, mode>>
  BY DEF working, server
<1>3. StoreS'
  BY <1>1 DEF StoreS, Exists, Holds
<1>4. WorkS'
  BY <1>1, <1>2, WorkStands
<1>5. ~Busy(m)'
  BY <1>2 DEF Busy, Worked, Exists
<1>6. ~Worked(rec.task)'
  <2>1. ~Worked(rec.task)
    BY <1>1, Unworked
  <2> QED BY <1>2, <2>1 DEF Worked
<1>7. Holds(m, rec)'
  BY <1>1 DEF Holds
<1>8. CallS'
  BY <1>5, <1>6, <1>7, StoreTurns
<1> QED BY <1>3, <1>4, <1>8, ServerServes

LEMMA SubmitSteady ==
  ASSUME OneHandler, Inv, Steady, NEW c \in Client, NEW m \in Mission,
         Submit(c, m) \/ SubmitGuarded(c, m) \/ SubmitRefused(c, m)
  PROVE  Steady'
<1> USE DEF Inv, Typed
<1>1. mode = "up" /\ ~Exists(m) /\ \A d \in Client : call[d].mission # m
  BY DEF Submit, SubmitGuarded, SubmitRefused, Serving, Unsubmitted
<1>2. missions[m] = Absent /\ ~Busy(m)
  BY <1>1 DEF Steady, StoreS, Busy
<1>3. Absent.done = {} /\ Absent.task = NoTask
  BY DEF Absent, NoTask
<1>4. CASE Submit(c, m)
  <2>1. PICK rec : rec = [Absent EXCEPT !.state = "pending", !.task = NewTask]
    OBVIOUS
  <2>2. rec.state = "pending" /\ rec.task = NewTask /\ rec.done = {}
    BY <2>1 DEF Absent
  <2>3. /\ EnqueueFor(m) /\ Stores(c, m, rec)
        /\ UNCHANGED <<missions, server, working>>
    BY <1>4, <2>1 DEF Submit
  <2> QED BY <1>1, <1>2, <1>3, <2>2, <2>3, EnqueueSteady
<1>5. CASE SubmitGuarded(c, m)
  <2>1. PICK rec : rec = [Absent EXCEPT !.state = "requires_approval", !.action = "first"]
    OBVIOUS
  <2>2. rec.task = NoTask /\ rec.done = {}
    BY <2>1 DEF Absent, NoTask
  <2>3. Stores(c, m, rec) /\ UNCHANGED <<tasks, missions, server, working, owner>>
    BY <1>5, <2>1 DEF SubmitGuarded
  <2>4. Holds(m, rec)'
    BY <2>2 DEF Holds
  <2>5. ~Busy(m)' /\ ~Worked(rec.task)'
    <3>1. ~Worked(rec.task)
      BY <2>2, Unworked DEF Steady
    <3> QED BY <1>2, <2>3, <3>1 DEF Busy, Exists, Worked, working
  <2>6. CallS'
    BY <1>2, <1>3, <2>2, <2>3, <2>4, <2>5, StoreTurns
  <2> QED BY <1>1, <2>3, <2>6, HandlerSteady
<1>6. CASE SubmitRefused(c, m)
  <2>1. PICK rec : rec = [Absent EXCEPT !.state = "blocked"]
    OBVIOUS
  <2>2. rec.task = NoTask /\ rec.done = {} /\ rec.state = "blocked"
    BY <2>1 DEF Absent, NoTask
  <2>3. Put(m, rec) /\ UNCHANGED <<tasks, server, call, working, owner>>
    BY <1>6, <2>1 DEF SubmitRefused
  <2>4. missions'[m] = rec /\ \A n \in Mission : n # m => missions'[n] = missions[n]
    BY <2>3 DEF StoreT, Put
  <2>5. Exists(m)' /\ Holds(m, missions[m])'
    BY <2>2, <2>4 DEF Exists, Holds
  <2>6. StoreS'
    BY <2>3, <2>4, <2>5, StoreStands DEF Steady, QueueStill
  <2>7. ~Worked(missions[m].task)'
    <3>1. ~Worked(rec.task)
      BY <2>2, Unworked DEF Steady
    <3> QED BY <2>3, <2>4, <3>1 DEF Worked, working
  <2>8. WorkS'
    BY <1>2, <2>3, <2>4, <2>7, WorkStands DEF Steady, server
  <2>9. CallS'
    <3> SUFFICES ASSUME NEW d \in Client
                 PROVE  (/\ call[d].pc = "read" => ReadRight(call[d])
                         /\ call[d].pc = "putting" => PutRight(call[d]))'
      BY DEF CallS
    <3>1. PICK x : x = call[d]
      OBVIOUS
    <3>2. x.pc \in {"read", "putting"} => missions'[x.mission] = missions[x.mission]
      BY <1>1, <2>4, <3>1 DEF CallT, Kept
    <3>3. x.pc = "read" => ReadRight(x)'
      BY <2>3, <3>1, <3>2 DEF Steady, CallS, ReadRight, Exists
    <3>4. x.pc = "putting" => PutRight(x)'
      BY <2>3, <3>1, <3>2 DEF Steady, CallS, PutRight, Exists, Busy, Worked, working, Holds
    <3> QED BY <2>3, <3>1, <3>3, <3>4
  <2> QED BY <1>1, <2>3, <2>6, <2>8, <2>9, ServerServes DEF Steady
<1> QED BY <1>4, <1>5, <1>6
LEMMA RulingSteady ==
  ASSUME OneHandler, Inv, Steady, NEW c \in Client, NEW m \in Mission, NEW r \in Round,
         Approve(c, m, r) \/ Reject(c, m, r)
  PROVE  Steady'
<1>1. mode = "up" /\ UNCHANGED <<tasks, missions, server, working, owner>>
  BY DEF Approve, Reject, Serving
<1>2. PICK op : call' = [call EXCEPT ![c] = [pc |-> "decided", op |-> op, mission |-> m,
                                             rec |-> [Absent EXCEPT !.action = r]]]
  BY DEF Approve, Reject
<1>3. PICK x : x = [pc |-> "decided", op |-> op, mission |-> m,
                    rec |-> [Absent EXCEPT !.action = r]]
  OBVIOUS
<1>4. x.pc = "decided" /\ call' = [call EXCEPT ![c] = x]
  BY <1>2, <1>3
<1>5. CallS'
  BY <1>4, CallTurns DEF Inv, Typed
<1> QED BY <1>1, <1>5, HandlerSteady

LEMMA ReadMissionSteady ==
  ASSUME OneHandler, Inv, Steady, NEW c \in Client, NEW m \in Mission, NEW op \in Op,
         ReadMission(c, m, op)
  PROVE  Steady'
<1>1. mode = "up" /\ UNCHANGED <<files, server, working, owner>>
  BY DEF ReadMission, Serving
<1>2. CallS'
  <2>1. /\ Exists(m) /\ op \in {"cancel", "resume"} /\ Reads(c, op, m)
        /\ op = "resume" => missions[m].state \in Resumable
    BY DEF ReadMission
  <2> QED BY <1>1, <2>1, ReadTurns DEF Inv, Typed, files
<1> QED BY <1>1, <1>2, HandlerSteady DEF files

\* A mission that waits for an approval, has failed or was recovered is not executed.
LEMMA Rests ==
  ASSUME WorkS, NEW m \in Mission,
         missions[m].state \notin {"pending", "running"}
  PROVE  ~Busy(m)
BY DEF WorkS, ItemRuns

\* The record of a mission nobody executes may be stored in another state.
LEMMA RestoreTurns ==
  ASSUME OneHandler, Typed, Steady, NEW c \in Client, NEW m \in Mission, NEW rec,
         Stores(c, m, rec), Exists(m), ~Busy(m), missions' = missions, QueueStill,
         UNCHANGED working, rec.task = missions[m].task, rec.done = missions[m].done,
         missions[m].state # "pending" \/
           (rec.task # NoTask => tasks'[rec.task].state # "pending")
  PROVE  CallS'
<1>1. UNCHANGED <<wpc, wtask>>
  BY DEF working
<1>2. Holds(m, missions[m])
  BY DEF Steady, StoreS
<1>3. Holds(m, rec)'
  BY <1>2 DEF Holds, QueueStill
<1>4. ~Busy(m)'
  BY <1>1 DEF Busy, Exists, Worked
<1>5. ~Worked(rec.task)'
  BY <1>1 DEF Busy, Worked
<1> QED BY <1>3, <1>4, <1>5, StoreTurns DEF Typed

LEMMA ReadDecidedSteady ==
  ASSUME OneHandler, Inv, Steady, NEW c \in Client, ReadDecided(c)
  PROVE  Steady'
<1> USE DEF Inv, Typed
<1>1. PICK m, r : m = call[c].mission /\ r = call[c].rec.action
  OBVIOUS
<1>2. mode = "up" /\ m \in Mission /\ UNCHANGED <<files, server, working, owner>>
  BY <1>1 DEF ReadDecided, Serving, CallT
<1>3. CallS'
  <2>1. CASE Activatable(m, r) /\ Reads(c, "activate", m)
    <3>1. missions[m].state = "requires_approval" /\ Exists(m)
      BY <2>1 DEF Activatable, Awaits, Exists
    <3> QED BY <1>2, <2>1, <3>1, ReadTurns DEF files
  <2>2. CASE Returns(c)
    BY <2>2, ReturnTurns
  <2>3. CASE Awaits(m, r) /\ Stores(c, m, [missions[m] EXCEPT !.state = "rejected"])
    <3>1. missions[m].state = "requires_approval" /\ Exists(m)
      BY <2>3 DEF Awaits, Exists
    <3>2. ~Busy(m)
      BY <1>2, <3>1, Rests DEF Steady
    <3>3. PICK rec : rec = [missions[m] EXCEPT !.state = "rejected"]
      OBVIOUS
    <3>4. rec.task = missions[m].task /\ rec.done = missions[m].done
      BY <1>2, <3>3 DEF StoreT, Record
    <3> QED BY <1>2, <2>3, <3>1, <3>2, <3>3, <3>4, RestoreTurns DEF files, QueueStill
  <2> QED BY <1>1, <2>1, <2>2, <2>3 DEF ReadDecided
<1> QED BY <1>2, <1>3, HandlerSteady DEF files

LEMMA AgainSteady ==
  ASSUME OneHandler, Inv, Steady, NEW c \in Client, EnqueueAgain(c) \/ ProposeAgain(c)
  PROVE  Steady'
<1> USE DEF Inv, Typed
<1>1. PICK m, old : m = call[c].mission /\ old = call[c].rec
  OBVIOUS
<1>2. mode = "up" /\ call[c].pc = "read" /\ Kept(m, old)
  BY <1>1 DEF EnqueueAgain, ProposeAgain, Serving, CallT
<1>3. call[c].op \in {"activate", "resume"}
  BY DEF EnqueueAgain, ProposeAgain, Requeues, Asks
<1>4. /\ m \in Mission /\ Exists(m) /\ old = missions[m]
      /\ missions[m].state \notin {"pending", "running"}
  BY <1>1, <1>2, <1>3 DEF Steady, CallS, ReadRight, Resumable, Kept
<1>5. ~Busy(m)
  BY <1>4, Rests DEF Steady
<1>6. old \in Record
  BY <1>2 DEF Kept
<1>7. CASE EnqueueAgain(c)
  <2>1. PICK rec : rec = Queued(old)
    OBVIOUS
  <2>2. rec.task = NewTask /\ rec.done = missions[m].done /\ rec.state = "pending"
    BY <1>4, <1>6, <2>1 DEF Queued, Record
  <2>3. /\ EnqueueFor(m) /\ Stores(c, m, rec) /\ UNCHANGED <<missions, server, working>>
    BY <1>1, <1>7, <2>1 DEF EnqueueAgain
  <2> QED BY <1>2, <1>4, <1>5, <2>2, <2>3, EnqueueSteady
<1>8. CASE ProposeAgain(c)
  <2>1. PICK rec : rec = [old EXCEPT !.state = "requires_approval", !.action = "again"]
    OBVIOUS
  <2>2. rec.task = missions[m].task /\ rec.done = missions[m].done
    BY <1>4, <1>6, <2>1 DEF Record
  <2>3. Stores(c, m, rec) /\ UNCHANGED <<tasks, missions, server, working, owner>>
    BY <1>1, <1>8, <2>1 DEF ProposeAgain
  <2>4. CallS'
    BY <1>4, <1>5, <2>2, <2>3, RestoreTurns DEF QueueStill
  <2> QED BY <1>2, <2>3, <2>4, HandlerSteady
<1> QED BY <1>7, <1>8

\* A mission that waits for its approval is cancelled in its record alone.
LEMMA CancelWaitingSteady ==
  ASSUME OneHandler, Inv, Steady, NEW c \in Client, CancelWaiting(c)
  PROVE  Steady'
<1> USE DEF Inv, Typed
<1>1. PICK m, old : m = call[c].mission /\ old = call[c].rec
  OBVIOUS
<1>2. mode = "up" /\ call[c].pc = "read" /\ Kept(m, old) /\ old.state = "requires_approval"
  BY <1>1 DEF CancelWaiting, Serving, CallT
<1>3. m \in Mission /\ Exists(m) /\ old = missions[m] /\ old \in Record
  BY <1>1, <1>2 DEF Steady, CallS, ReadRight, Kept
<1>4. ~Busy(m)
  BY <1>2, <1>3, Rests DEF Steady
<1>5. PICK rec : rec = Cancelled(old)
  OBVIOUS
<1>6. rec.task = missions[m].task /\ rec.done = missions[m].done
  BY <1>3, <1>5 DEF Record, Cancelled
<1>7. Stores(c, m, rec) /\ UNCHANGED <<tasks, missions, server, working, owner>>
  BY <1>1, <1>5 DEF CancelWaiting
<1>8. CallS'
  BY <1>2, <1>3, <1>4, <1>6, <1>7, RestoreTurns DEF QueueStill
<1> QED BY <1>2, <1>7, <1>8, HandlerSteady

\* The queue accepts to cancel an item that waits or was recovered: nobody executes it,
\* and the handler's record is the one that is stored.
LEMMA CancelQueuedSteady ==
  ASSUME OneHandler, Inv, Steady, NEW c \in Client, CancelQueued(c)
  PROVE  Steady'
<1> USE DEF Inv, Typed
<1>1. PICK m, old : m = call[c].mission /\ old = call[c].rec
  OBVIOUS
<1>2. /\ mode = "up" /\ call[c].pc = "read" /\ Kept(m, old)
      /\ UNCHANGED <<missions, server, working, owner>>
  BY <1>1 DEF CancelQueued, Serving, CallT
<1>3. CASE Returns(c) /\ tasks' = tasks
  BY <1>2, <1>3, ReturnTurns, HandlerSteady
<1>4. CASE /\ CanCancel(old.task) /\ tasks' = AfterCancel(tasks, old.task)
           /\ Stores(c, m, Cancelled(old))
  <2>1. PICK t, r : t = old.task /\ r = Rewritten(tasks[t], "cancelled", tasks[t].attempts)
    OBVIOUS
  <2>2. r.state = "cancelled" /\ tasks' = [tasks EXCEPT ![t] = r]
    BY <1>4, <2>1 DEF Rewritten, AfterCancel, MovedTo
  <2>3. t \in DOMAIN tasks /\ tasks[t].state \in {"pending", "recovery_required"}
    BY <1>4, <2>1 DEF CanCancel, Cancellable
  <2>4. /\ DOMAIN tasks' = DOMAIN tasks /\ tasks'[t].state = "cancelled"
        /\ \A u \in DOMAIN tasks : u # t => tasks'[u] = tasks[u]
    BY <2>2, <2>3, Rewrites
  <2>5. QueueStill
    BY <1>2, <2>4 DEF QueueStill
  <2>6. StoreS'
    BY <1>2, <2>5, StoreStands DEF Steady
  <2>7. WorkS'
    BY <1>2, <2>3, <2>4, WorkStands DEF Steady, server
  <2>8. m \in Mission /\ Exists(m) /\ old = missions[m] /\ old \in Record
    BY <1>1, <1>2, <2>1, <2>3 DEF Steady, CallS, ReadRight, Kept, Cancellable
  <2>9. ~Busy(m)
    BY <2>1, <2>3, <2>8, Unworked DEF Steady, Busy
  <2>10. PICK rec : rec = Cancelled(old)
    OBVIOUS
  <2>11. rec.task = missions[m].task /\ rec.done = missions[m].done
    BY <2>8, <2>10 DEF Record, Cancelled
  <2>12. CallS'
    BY <1>2, <1>4, <2>1, <2>4, <2>5, <2>8, <2>9, <2>10, <2>11, RestoreTurns
  <2> QED BY <1>2, <2>6, <2>7, <2>12, ServerServes DEF Steady
<1> QED BY <1>1, <1>3, <1>4 DEF CancelQueued

\* What is stored is right, and nobody works on its mission.
LEMMA PutMissionSteady ==
  ASSUME OneHandler, Inv, Steady, NEW c \in Client, PutMission(c)
  PROVE  Steady'
<1> USE DEF Inv, Typed
<1>1. PICK m, rec : m = call[c].mission /\ rec = call[c].rec
  OBVIOUS
<1>2. /\ mode = "up" /\ call[c].pc = "putting" /\ Kept(m, rec) /\ Put(m, rec) /\ Returns(c)
      /\ UNCHANGED <<tasks, server, working, owner>>
  BY <1>1 DEF PutMission, Serving, CallT
<1>3. m \in Mission /\ rec.state # "absent"
  BY <1>2 DEF Kept
<1>4. PutRight(call[c])
  BY <1>2 DEF Steady, CallS
<1>5. Holds(m, rec) /\ rec.done = missions[m].done /\ ~Busy(m) /\ ~Worked(rec.task)
  BY <1>1, <1>4 DEF PutRight
<1>6. missions'[m] = rec /\ \A n \in Mission : n # m => missions'[n] = missions[n]
  BY <1>2, <1>3 DEF StoreT, Put
<1>7. Exists(m)' /\ Holds(m, missions[m])'
  BY <1>2, <1>3, <1>5, <1>6 DEF Exists, Holds
<1>8. StoreS'
  BY <1>2, <1>6, <1>7, StoreStands DEF Steady, QueueStill
<1>9. ~Worked(missions[m].task)'
  BY <1>2, <1>5, <1>6 DEF Worked, working
<1>10. WorkS'
  BY <1>2, <1>5, <1>6, <1>9, WorkStands DEF Steady, server
<1>11. CallS'
  BY <1>2, ReturnTurns
<1> QED BY <1>2, <1>5, <1>6, <1>8, <1>10, <1>11, ServerServes DEF Steady
\* No two missions name one item, so the one that is executed is known.
LEMMA OneBusy ==
  ASSUME StoreS, NEW m \in Mission, NEW n \in Mission, Busy(m), Busy(n),
         wtask # NoTask
  PROVE  m = n
BY DEF StoreS, Busy, Worked, Holds

\* A step of the worker between its stores.
LEMMA WorkerThinks ==
  ASSUME Inv, Steady, wpc \notin {"idle", "done", "dead"}, mode = "up",
         UNCHANGED <<tasks, missions, server, call, wtask, owner>>
  PROVE  StoreS' /\ ServerS' /\ CallS'
<1>1. QueueStill
  BY DEF QueueStill
<1>2. StoreS'
  BY <1>1, StoreStands DEF Steady
<1>3. \A t : Worked(t)' => Worked(t)
  BY DEF Worked
<1>4. CallS'
  BY <1>1, <1>3, CallsStand DEF Steady, Inv
<1> QED BY <1>2, <1>4, ServerServes DEF Steady

\* A step of the worker that stores the mission it executes.
LEMMA WorkerPuts ==
  ASSUME Inv, Steady, wpc \in {"looked", "stepped", "final"}, mode = "up", NEW rec,
         Put(wmission, rec), rec.state # "absent", rec.task = missions[wmission].task,
         UNCHANGED <<tasks, server, call, wtask, wmission, owner>>
  PROVE  /\ StoreS' /\ ServerS' /\ CallS'
         /\ wmission \in Mission /\ Busy(wmission) /\ missions'[wmission] = rec
         /\ \A m \in Mission : m # wmission => missions'[m] = missions[m]
         /\ \A m \in Mission : m # wmission => ~Busy(m)
<1> USE DEF Inv, Typed
<1>1. wmission \in Mission /\ Busy(wmission)
  BY DEF Steady, WorkS, ReadsTrue, Executing
<1>2. /\ missions'[wmission] = rec
      /\ \A m \in Mission : m # wmission => missions'[m] = missions[m]
  BY <1>1 DEF StoreT, Put
<1>3. QueueStill
  BY DEF QueueStill
<1>4. wtask \in DOMAIN tasks /\ tasks[wtask].state = "running" /\ wtask # NoTask
  BY Unworked DEF Steady, Busy, Worked
<1>5. Holds(wmission, rec)
  BY <1>1, <1>4 DEF Steady, StoreS, Busy, Worked, Holds
<1>6. Exists(wmission)' /\ Holds(wmission, missions[wmission])'
  BY <1>2, <1>5 DEF Exists, Holds
<1>7. StoreS'
  BY <1>2, <1>3, <1>6, StoreStands DEF Steady
<1>8. \A t : Worked(t)' => Worked(t)
  BY DEF Worked
<1>9. CallS'
  <2>1. \A m \in Mission : \/ missions'[m] = missions[m]
                           \/ /\ Busy(m) /\ Exists(m)'
                              /\ missions'[m].task = missions[m].task
    BY <1>1, <1>2, <1>6
  <2>2. \A t \in DOMAIN tasks : tasks[t].state \notin Cancellable
                                   => tasks'[t].state \notin Cancellable
    OBVIOUS
  <2> QED BY <1>3, <1>8, <2>1, <2>2, CallsStand DEF Steady
<1>10. \A m \in Mission : m # wmission => ~Busy(m)
  BY <1>1, <1>4, OneBusy DEF Steady
<1> QED BY <1>1, <1>2, <1>7, <1>9, <1>10, ServerServes DEF Steady

\* Only an item whose mission is stored is claimed.
LEMMA ClaimSteady ==
  ASSUME ~Overtake, Inv, Steady, ClaimTask
  PROVE  Steady'
<1> USE DEF Inv, Typed
<1>1. /\ mode = "up" /\ wpc = "idle" /\ wpc' = "claimed"
      /\ \A c \in Client : call[c].pc # "putting"
      /\ UNCHANGED <<missions, server, call, seen, owner>>
  BY DEF ClaimTask, Working, WorkerAt
<1>2. PICK i \in DOMAIN tasks : /\ NextClaim(tasks, i) /\ tasks' = AfterClaim(tasks, i)
                                /\ wtask' = i
  BY DEF ClaimTask
<1>3. tasks[i].state = "pending"
  BY <1>2 DEF NextClaim, Claimable
<1>4. PICK r : r = Rewritten(tasks[i], "running", tasks[i].attempts + 1)
  OBVIOUS
<1>5. r.state = "running" /\ tasks' = [tasks EXCEPT ![i] = r]
  BY <1>2, <1>4 DEF Rewritten, AfterClaim
<1>6. /\ DOMAIN tasks' = DOMAIN tasks /\ tasks'[i].state = "running"
      /\ \A u \in DOMAIN tasks : u # i => tasks'[u] = tasks[u]
  BY <1>5, Rewrites
<1>7. QueueStill
  BY <1>1, <1>6 DEF QueueStill
<1>8. StoreS'
  BY <1>1, <1>7, StoreStands DEF Steady
<1>9. i # NoTask
  BY DEF QueueT, NoTask
<1>10. WorkS'
  <2>1. \A m \in Mission : Busy(m)' => missions'[m].state = "pending"
    BY <1>1, <1>2, <1>3, <1>9 DEF Busy, Worked, Exists, Steady, StoreS, Holds
  <2>2. ItemRuns'
    BY <1>1, <1>2, <1>6, <2>1 DEF ItemRuns, server
  <2>3. ReadsTrue'
    BY <1>1 DEF ReadsTrue, Executing
  <2> QED BY <2>2, <2>3 DEF WorkS
<1>11. CallS'
  <2> SUFFICES ASSUME NEW d \in Client
               PROVE  (/\ call[d].pc = "read" => ReadRight(call[d])
                       /\ call[d].pc = "putting" => PutRight(call[d]))'
    BY DEF CallS
  <2>1. PICK x : x = call[d]
    OBVIOUS
  <2>2. ASSUME x.pc = "read" PROVE ReadRight(x)'
    <3>1. ReadRight(x)
      BY <2>1, <2>2 DEF Steady, CallS
    <3>2. x.rec.task \in DOMAIN tasks /\ tasks[x.rec.task].state \notin Cancellable
             => tasks'[x.rec.task].state \notin Cancellable
      BY <1>3, <1>6 DEF Cancellable
    <3> QED BY <1>1, <1>6, <3>1, <3>2 DEF ReadRight, Exists
  <2>3. x.pc # "putting"
    BY <1>1, <2>1
  <2> QED BY <1>1, <2>1, <2>2, <2>3
<1> QED BY <1>1, <1>8, <1>10, <1>11, ServerServes DEF Steady

LEMMA LookUpSteady ==
  ASSUME Inv, Steady, LookUp
  PROVE  Steady'
<1> USE DEF Inv, Typed
<1>1. /\ mode = "up" /\ wpc = "claimed" /\ wpc' \in {"looked", "marked"}
      /\ UNCHANGED <<tasks, missions, server, call, wtask, owner>>
  BY DEF LookUp, Working, WorkerAt, files
<1>2. StoreS' /\ ServerS' /\ CallS'
  BY <1>1, WorkerThinks
<1>3. \A m \in Mission : Busy(m)' <=> m \in Of(wtask)
  BY <1>1 DEF Busy, Worked, Exists, Of
<1>4. \A m \in Mission : Busy(m) <=> m \in Of(wtask)
  BY <1>1 DEF Busy, Worked, Exists, Of
<1>5. ItemRuns'
  BY <1>1, <1>3, <1>4 DEF Steady, WorkS, ItemRuns, server
<1>6. ReadsTrue'
  <2>1. CASE Of(wtask) = {}
    <3>1. wpc' = "marked" /\ seen' = seen /\ seen.state = "absent"
      BY <1>1, <2>1 DEF LookUp, WorkerAt, WorkerT
    <3> QED BY <1>3, <2>1, <3>1 DEF ReadsTrue, Executing
  <2>2. CASE Of(wtask) # {}
    <3>1. /\ wpc' = "looked" /\ wmission' \in Of(wtask) /\ seen' = missions[wmission']
          /\ known' = missions[wmission'].done
      BY <2>2 DEF LookUp, WorkerAt
    <3>2. wmission' \in Mission /\ seen'.state # "absent" /\ Busy(wmission)'
      BY <1>1, <3>1 DEF Of, Exists, Busy, Worked
    <3> QED BY <1>1, <3>1, <3>2 DEF ReadsTrue, Executing
  <2> QED BY <2>1, <2>2
<1> QED BY <1>2, <1>5, <1>6 DEF Steady, WorkS

LEMMA MarkSteady ==
  ASSUME Inv, Steady, MarkRunning
  PROVE  Steady'
<1> USE DEF Inv, Typed
<1>1. /\ mode = "up" /\ wpc = "looked" /\ wpc' = "marked"
      /\ UNCHANGED <<tasks, server, call, wtask, wmission, seen, known, owner>>
  BY DEF MarkRunning, Working, WorkerAt
<1>2. PICK rec : rec = [seen EXCEPT !.state = "running"]
  OBVIOUS
<1>3. Put(wmission, rec)
  BY <1>2 DEF MarkRunning
<1>4. seen = missions[wmission] /\ known = seen.done /\ seen \in Record /\ seen.state # "absent"
  BY <1>1 DEF Steady, WorkS, ReadsTrue, WorkerT
<1>5. rec.state = "running" /\ rec.task = missions[wmission].task /\ rec.done = known
  BY <1>2, <1>4 DEF Record
<1>6. /\ StoreS' /\ ServerS' /\ CallS'
      /\ wmission \in Mission /\ Busy(wmission) /\ missions'[wmission] = rec
      /\ \A m \in Mission : m # wmission => missions'[m] = missions[m]
      /\ \A m \in Mission : m # wmission => ~Busy(m)
  BY <1>1, <1>3, <1>4, <1>5, WorkerPuts
<1>7. Busy(wmission)' /\ \A m \in Mission : m # wmission => ~Busy(m)'
  BY <1>1, <1>5, <1>6 DEF Busy, Worked, Exists
<1>8. ItemRuns'
  BY <1>1, <1>5, <1>6, <1>7 DEF Steady, WorkS, ItemRuns, server
<1>9. ReadsTrue'
  BY <1>1, <1>4, <1>5, <1>6, <1>7 DEF ReadsTrue, Executing
<1> QED BY <1>6, <1>8, <1>9 DEF Steady, WorkS
\* It begins, or ends without a store.
LEMMA RunsSteady ==
  ASSUME Inv, Steady,
         \/ Begin \/ BeginPrivileged \/ Unapproved \/ StepFails \/ StepsDone
         \/ \E result \in MissionState : RunTask(result)
  PROVE  Steady'
<1> USE DEF Inv, Typed
<1>1. UNCHANGED <<tasks, missions, server, call, wtask, wmission, seen, known, latest, owner>>
  BY DEF Begin, BeginPrivileged, Unapproved, StepFails, StepsDone, RunTask, files
<1>2. mode = "up" /\ wpc \in {"marked", "running"}
  BY DEF Begin, BeginPrivileged, Unapproved, StepFails, StepsDone, RunTask, Working
<1>3. wpc' \in {"running", "ended"}
  BY DEF Begin, BeginPrivileged, Unapproved, StepFails, StepsDone, RunTask, Ends, WorkerAt
<1>4. StoreS' /\ ServerS' /\ CallS'
  BY <1>1, <1>2, WorkerThinks
<1>5. \A m \in Mission : Busy(m)' <=> Busy(m)
  BY <1>1, <1>2, <1>3 DEF Busy, Worked, Exists
<1>6. ItemRuns'
  BY <1>1, <1>2, <1>3, <1>5 DEF Steady, WorkS, ItemRuns, server
<1>7. ReadsTrue'
  <2>1. IF seen.state = "absent" THEN \A m \in Mission : ~Busy(m)
                                 ELSE wmission \in Mission /\ Busy(wmission)
    BY <1>2 DEF Steady, WorkS, ReadsTrue, Executing
  <2>2. seen.state # "absent" => known = missions[wmission].done
    BY <1>2 DEF Steady, WorkS, ReadsTrue
  <2> QED BY <1>1, <1>3, <1>5, <2>1, <2>2 DEF ReadsTrue
<1> QED BY <1>4, <1>6, <1>7 DEF Steady, WorkS

LEMMA StepVerifiedSteady ==
  ASSUME Inv, Steady, StepVerified
  PROVE  Steady'
<1> USE DEF Inv, Typed
<1>1. /\ mode = "up" /\ wpc = "running" /\ wpc' = "stepped" /\ Remaining # {}
      /\ UNCHANGED <<tasks, missions, server, call, wtask, wmission, seen, known, owner>>
  BY DEF StepVerified, Working, WorkerAt, files
<1>2. StoreS' /\ ServerS' /\ CallS'
  BY <1>1, WorkerThinks
<1>3. \A m \in Mission : Busy(m)' <=> Busy(m)
  BY <1>1 DEF Busy, Worked, Exists
<1>4. ItemRuns'
  BY <1>1, <1>3 DEF Steady, WorkS, ItemRuns, server
<1>5. seen.state # "absent"
  BY <1>1 DEF Remaining, Dag
<1>6. wmission \in Mission /\ Busy(wmission) /\ known = missions[wmission].done
  BY <1>1, <1>5 DEF Steady, WorkS, ReadsTrue, Executing
<1>7. latest' = missions[wmission]
  BY <1>6 DEF StepVerified, Busy
<1>8. ReadsTrue'
  BY <1>1, <1>3, <1>5, <1>6, <1>7 DEF ReadsTrue
<1> QED BY <1>2, <1>4, <1>8 DEF Steady, WorkS

LEMMA StoreStepSteady ==
  ASSUME Inv, Steady, StoreStep
  PROVE  Steady'
<1> USE DEF Inv, Typed
<1>1. /\ mode = "up" /\ wpc = "stepped" /\ wpc' = "running"
      /\ UNCHANGED <<tasks, server, call, wtask, wmission, seen, owner>>
  BY DEF StoreStep, Working, WorkerAt
<1>2. PICK s \in Remaining : Put(wmission, Progress(s)) /\ known' = known \cup {s}
  BY DEF StoreStep
<1>3. /\ latest = missions[wmission] /\ latest \in Record /\ seen.state # "absent"
      /\ known = latest.done
  BY <1>1 DEF Steady, WorkS, ReadsTrue, WorkerT
<1>4. PICK rec : rec = Progress(s)
  OBVIOUS
<1>5. /\ rec.state = "running" /\ rec.task = missions[wmission].task
      /\ rec.done = latest.done \cup {s}
  BY <1>3, <1>4 DEF Progress, Record
<1>6. /\ StoreS' /\ ServerS' /\ CallS'
      /\ wmission \in Mission /\ Busy(wmission) /\ missions'[wmission] = rec
      /\ \A m \in Mission : m # wmission => missions'[m] = missions[m]
      /\ \A m \in Mission : m # wmission => ~Busy(m)
  <2>1. Put(wmission, rec) /\ rec.state # "absent"
    BY <1>2, <1>3, <1>4, <1>5
  <2> QED BY <1>1, <1>5, <2>1, WorkerPuts
<1>7. Busy(wmission)' /\ \A m \in Mission : m # wmission => ~Busy(m)'
  BY <1>1, <1>5, <1>6 DEF Busy, Worked, Exists
<1>8. ItemRuns'
  BY <1>1, <1>5, <1>6, <1>7 DEF Steady, WorkS, ItemRuns, server
<1>9. ReadsTrue'
  BY <1>1, <1>2, <1>3, <1>5, <1>6, <1>7 DEF ReadsTrue
<1> QED BY <1>6, <1>8, <1>9 DEF Steady, WorkS

\* The mission looked up after the run is the one that was looked up before it.
LEMMA LookAgainSteady ==
  ASSUME Inv, Steady, LookAgain
  PROVE  Steady'
<1> USE DEF Inv, Typed
<1>1. /\ mode = "up" /\ wpc = "ended" /\ wpc' \in {"final", "done"}
      /\ UNCHANGED <<tasks, missions, server, call, wtask, seen, known, owner>>
  BY DEF LookAgain, Working, WorkerAt, files
<1>2. StoreS' /\ ServerS' /\ CallS'
  BY <1>1, WorkerThinks
<1>3. \A m \in Mission : Busy(m) <=> m \in Of(wtask)
  BY <1>1 DEF Busy, Worked, Of, Exists
<1>4. \A m \in Mission : Busy(m)' => Busy(m)
  BY <1>1 DEF Busy, Worked, Exists
<1>5. ItemRuns'
  BY <1>1, <1>4 DEF Steady, WorkS, ItemRuns, server
<1>6. IF seen.state = "absent" THEN \A m \in Mission : ~Busy(m)
                               ELSE wmission \in Mission /\ Busy(wmission)
  BY <1>1 DEF Steady, WorkS, ReadsTrue, Executing
<1>7. wtask # NoTask
  BY <1>1 DEF Steady, WorkS, ItemRuns, QueueT, NoTask
<1>8. ReadsTrue'
  <2>1. CASE wpc' = "done"
    BY <2>1 DEF ReadsTrue, Executing
  <2>2. CASE wpc' = "final"
    <3>1. Of(wtask) # {} => /\ wmission' \in Of(wtask) /\ latest' = missions[wmission']
      BY <2>2 DEF LookAgain, WorkerAt
    <3>2. Of(wtask) # {}
      <4>1. Of(wtask) = {} => seen.state # "absent"
        BY <2>2 DEF LookAgain, WorkerAt
      <4> QED BY <1>3, <1>6, <4>1
    <3>3. seen.state # "absent"
      BY <1>3, <1>6, <3>2 DEF Of
    <3>4. wmission' = wmission
      <4>1. wmission' \in Mission /\ Busy(wmission')
        BY <1>3, <3>1, <3>2 DEF Of
      <4> QED BY <1>6, <1>7, <3>3, <4>1, OneBusy DEF Steady
    <3>5. Busy(wmission)'
      BY <1>1, <1>6, <2>2, <3>3, <3>4 DEF Busy, Worked, Exists
    <3> QED BY <1>1, <1>6, <2>2, <3>1, <3>2, <3>3, <3>4, <3>5 DEF ReadsTrue
  <2> QED BY <1>1, <2>1, <2>2
<1> QED BY <1>2, <1>5, <1>8 DEF Steady, WorkS

LEMMA PutOutcomeSteady ==
  ASSUME Inv, Steady, PutOutcome
  PROVE  Steady'
<1> USE DEF Inv, Typed
<1>1. /\ mode = "up" /\ wpc = "final" /\ wpc' = "done"
      /\ UNCHANGED <<tasks, server, call, wtask, wmission, owner>>
  BY DEF PutOutcome, Working, WorkerAt
<1>2. PICK rec : rec = [latest EXCEPT !.state = outcome]
  OBVIOUS
<1>3. latest = missions[wmission] /\ latest \in Record /\ outcome # "absent"
  BY <1>1 DEF Steady, WorkS, ReadsTrue, WorkerT
<1>4. /\ Put(wmission, rec) /\ rec.state # "absent" /\ rec.task = missions[wmission].task
      /\ rec.done = missions[wmission].done
  BY <1>2, <1>3 DEF PutOutcome, Record
<1>5. /\ StoreS' /\ ServerS' /\ CallS'
  BY <1>1, <1>4, WorkerPuts
<1>6. \A m \in Mission : ~Busy(m)'
  BY <1>1 DEF Busy, Worked
<1>7. ItemRuns'
  BY <1>1, <1>6 DEF Steady, WorkS, ItemRuns, server
<1>8. ReadsTrue'
  BY <1>1 DEF ReadsTrue, Executing
<1> QED BY <1>5, <1>7, <1>8 DEF Steady, WorkS

\* An idle worker has nothing in hand.
LEMMA IdleWorks ==
  ASSUME NEW label, WorkerRests(label), label = "idle" \/ (label = "dead" /\ mode' = "up")
  PROVE  WorkS'
<1>1. wpc' = label /\ wtask' = NoTask
  BY DEF WorkerRests, WorkerAt
<1>2. \A m \in Mission : ~Busy(m)'
  BY <1>1 DEF Busy, Worked
<1> QED BY <1>1, <1>2 DEF WorkS, ItemRuns, ReadsTrue, Executing

LEMMA CompleteSteady ==
  ASSUME Inv, Steady, CompleteTask \/ CompletionRaises
  PROVE  Steady'
<1> USE DEF Inv, Typed
<1>0. PICK success \in BOOLEAN : Completes(success)
  BY CompletesSo
<1>1. /\ mode = "up" /\ wpc = "done" /\ WorkerRests("idle")
      /\ UNCHANGED <<missions, server, call, owner>>
  BY <1>0, CompletesSo DEF Completes, WorkerIdle, server
<1>2. wtask \in DOMAIN tasks /\ tasks[wtask].state = "running"
  BY <1>1 DEF Steady, WorkS, ItemRuns
<1>3. PICK s \in {"succeeded", "failed"} : tasks' = MovedTo(tasks, wtask, s)
  BY <1>0 DEF Completes, AfterComplete
<1>4. PICK r : r = Rewritten(tasks[wtask], s, tasks[wtask].attempts)
  OBVIOUS
<1>5. r.state = s /\ tasks' = [tasks EXCEPT ![wtask] = r]
  BY <1>3, <1>4 DEF MovedTo, Rewritten
<1>6. /\ DOMAIN tasks' = DOMAIN tasks /\ tasks'[wtask].state = s
      /\ \A t \in DOMAIN tasks : t # wtask => tasks'[t] = tasks[t]
  BY <1>2, <1>5, Rewrites
<1>7. QueueStill
  BY <1>1, <1>6 DEF QueueStill
<1>8. StoreS'
  BY <1>1, <1>7, StoreStands DEF Steady
<1>9. CallS'
  <2>1. \A t : Worked(t)' => Worked(t)
    BY <1>1 DEF WorkerRests, WorkerAt, Worked
  <2>2. \A t \in DOMAIN tasks : tasks[t].state \notin Cancellable
                                   => tasks'[t].state \notin Cancellable
    BY <1>6 DEF Cancellable
  <2> QED BY <1>1, <1>7, <2>1, <2>2, CallsStand DEF Steady
<1>10. WorkS'
  BY <1>1, IdleWorks
<1> QED BY <1>1, <1>8, <1>9, <1>10, ServerServes DEF Steady

-----------------------------------------------------------------------------
\* A call raises

LEMMA RequestRaisesSteady ==
  ASSUME OneHandler, Inv, Steady, NEW c \in Client, RequestRaises(c)
  PROVE  Steady'
BY ReturnTurns, HandlerSteady DEF RequestRaises, files, Inv, Typed

LEMMA RuntimeRaisesSteady ==
  ASSUME Inv, Steady, RuntimeRaises
  PROVE  Steady'
<1>1. /\ mode = "up" /\ wpc \in {"marked", "stepped"} /\ wpc' = "ended"
      /\ UNCHANGED <<tasks, missions, server, call, wtask, wmission, seen, known, owner>>
  BY DEF RuntimeRaises, Working, Ends, WorkerAt, files
<1>2. StoreS' /\ ServerS' /\ CallS'
  BY <1>1, WorkerThinks
<1>3. \A m \in Mission : Busy(m)' <=> Busy(m)
  BY <1>1 DEF Busy, Worked, Exists
<1>4. ItemRuns'
  BY <1>1, <1>3 DEF Steady, WorkS, ItemRuns, server
<1>5. ReadsTrue'
  <2>1. IF seen.state = "absent" THEN \A m \in Mission : ~Busy(m)
                                 ELSE wmission \in Mission /\ Busy(wmission)
    BY <1>1 DEF Steady, WorkS, ReadsTrue, Executing
  <2> QED BY <1>1, <1>3, <2>1 DEF ReadsTrue
<1> QED BY <1>2, <1>4, <1>5 DEF Steady, WorkS

\* The item will be completed as failed, whatever its mission says.
LEMMA HandlerRaisesSteady ==
  ASSUME Inv, Steady, HandlerRaises
  PROVE  Steady'
<1>1. /\ mode = "up" /\ wpc \in {"claimed", "looked", "ended", "final"} /\ wpc' = "done"
      /\ UNCHANGED <<tasks, missions, server, call, wtask, owner>>
  BY DEF HandlerRaises, Working, WorkerAt, files
<1>2. StoreS' /\ ServerS' /\ CallS'
  BY <1>1, WorkerThinks
<1>3. \A m \in Mission : ~Busy(m)'
  BY <1>1 DEF Busy, Worked
<1>4. ItemRuns'
  BY <1>1, <1>3 DEF Steady, WorkS, ItemRuns, server
<1>5. ReadsTrue'
  BY <1>1 DEF ReadsTrue, Executing
<1> QED BY <1>2, <1>4, <1>5 DEF Steady, WorkS

LEMMA WorkerDiesSteady ==
  ASSUME Inv, Steady, WorkerDies
  PROVE  Steady'
<1>1. /\ mode = "up" /\ WorkerRests("dead")
      /\ UNCHANGED <<tasks, missions, server, call, owner>>
  BY DEF WorkerDies, Working, files
<1>2. QueueStill
  BY <1>1 DEF QueueStill
<1>3. StoreS'
  BY <1>1, <1>2, StoreStands DEF Steady
<1>4. CallS'
  <2>1. \A t : Worked(t)' => Worked(t)
    BY <1>1 DEF WorkerRests, WorkerAt, Worked
  <2> QED BY <1>1, <1>2, <2>1, CallsStand DEF Steady, Inv
<1>5. WorkS'
  BY <1>1, IdleWorks DEF server
<1> QED BY <1>1, <1>3, <1>4, <1>5, ServerServes DEF Steady

-----------------------------------------------------------------------------
\* Every step

LEMMA ExpireSteady ==
  ASSUME Steady, NEW m \in Mission, NEW r \in Round, Expire(m, r)
  PROVE  Steady'
<1>1. UNCHANGED <<tasks, missions, server, call, working, owner>>
  BY DEF Expire
<1>2. StoreS'
  BY <1>1, StoreStands DEF Steady, QueueStill
<1>3. WorkS'
  BY <1>1, WorkStands DEF Steady, server
<1>4. CallS'
  BY <1>1 DEF Steady, CallS, ReadRight, PutRight, Holds, Busy, Worked, Exists, working
<1>5. ServerS'
  BY <1>1 DEF Steady, ServerS, server
<1> QED BY <1>2, <1>3, <1>4, <1>5 DEF Steady

\* Handlers at rest hold nothing.
LEMMA IdleCalls ==
  ASSUME \A c \in Client : call'[c] = Idle
  PROVE  CallS'
<1>1. Idle.pc = "idle"
  BY DEF Idle
<1> QED BY <1>1 DEF CallS

\* Until the server is up again, nobody is served and nothing is executed.
LEMMA DownIsQuiet ==
  ASSUME Steady, mode # "up"
  PROVE  wpc = "idle" /\ \A c \in Client : call[c] = Idle
BY DEF Steady, WorkS, ItemRuns, ServerS

LEMMA RestartSteady ==
  ASSUME Inv, Steady, Restart
  PROVE  Steady'
<1> USE DEF Inv, Typed
<1>1. /\ mode = "down" /\ mode' = "recovering" /\ tasks' = AfterRecover(tasks)
      /\ todo' = {t \in DOMAIN tasks' : tasks'[t].state = "recovery_required"}
      /\ UNCHANGED <<missions, call, working, owner>>
  BY DEF Restart
<1>2. wpc = "idle" /\ \A c \in Client : call[c] = Idle
  BY <1>1, DownIsQuiet
<1>3. DOMAIN tasks' = DOMAIN tasks
  BY <1>1 DEF AfterRecover
<1>4. \A t \in DOMAIN tasks : tasks'[t] = tasks[t] \/ tasks'[t].state = "recovery_required"
  BY <1>1 DEF AfterRecover, Rewritten
<1>5. QueueStill
  BY <1>1, <1>3, <1>4 DEF QueueStill
<1>6. StoreS'
  BY <1>1, <1>5, StoreStands DEF Steady
<1>7. WorkS'
  <2>1. wpc' = "idle" /\ wtask' = NoTask
    BY <1>1, <1>2 DEF Steady, WorkS, ItemRuns, working
  <2>2. \A m \in Mission : ~Busy(m)'
    BY <2>1 DEF Busy, Worked
  <2> QED BY <2>1, <2>2 DEF WorkS, ItemRuns, ReadsTrue, Executing
<1>8. CallS'
  BY <1>1, <1>2, IdleCalls
<1>9. ServerS'
  BY <1>1, <1>2 DEF ServerS
<1> QED BY <1>6, <1>7, <1>8, <1>9 DEF Steady

\* A mission whose item was interrupted is reported, with the steps it has.
LEMMA RecoverSteady ==
  ASSUME Inv, Steady, RecoverMission
  PROVE  Steady'
<1> USE DEF Inv, Typed
<1>1. /\ mode = "recovering" /\ UNCHANGED <<tasks, mode, call, working, owner>>
  BY DEF RecoverMission
<1>2. PICK t \in todo : missions' = Recovered(t) /\ todo' = todo \ {t}
  BY DEF RecoverMission
<1>3. wpc = "idle" /\ \A c \in Client : call[c] = Idle
  BY <1>1, DownIsQuiet
<1>4. t \in DOMAIN tasks /\ tasks[t].state = "recovery_required"
  BY DEF Steady, ServerS
<1>5. ASSUME NEW m \in Mission
      PROVE  missions'[m] = missions[m] \/ (Exists(m)' /\ Holds(m, missions[m])')
  <2>1. CASE m \notin Of(t)
    BY <1>2, <2>1 DEF Recovered
  <2>2. CASE m \in Of(t)
    <3>1. missions'[m] = [missions[m] EXCEPT !.state = "recovery_required"]
      BY <1>2, <2>2 DEF Recovered
    <3>2. missions[m] \in Record
      BY DEF StoreT
    <3>3. /\ missions'[m].state = "recovery_required" /\ missions'[m].task = missions[m].task
          /\ missions'[m].done = missions[m].done
      BY <3>1, <3>2 DEF Record
    <3>4. missions[m].task = t /\ Holds(m, missions[m])
      BY <2>2 DEF Of, Steady, StoreS
    <3> QED BY <1>1, <1>4, <3>3, <3>4 DEF Exists, Holds
  <2> QED BY <2>1, <2>2
<1>6. StoreS'
  BY <1>1, <1>5, StoreStands DEF Steady, QueueStill
<1>7. WorkS'
  <2>1. wpc' = "idle" /\ wtask' = NoTask
    BY <1>1, <1>3 DEF Steady, WorkS, ItemRuns, working
  <2>2. \A m \in Mission : ~Busy(m)'
    BY <2>1 DEF Busy, Worked
  <2> QED BY <2>1, <2>2 DEF WorkS, ItemRuns, ReadsTrue, Executing
<1>8. CallS'
  BY <1>1, <1>3, IdleCalls
<1>9. ServerS'
  BY <1>1, <1>2 DEF Steady, ServerS
<1> QED BY <1>5, <1>6, <1>7, <1>8, <1>9 DEF Steady

LEMMA ServeSteady ==
  ASSUME Steady, Serve
  PROVE  Steady'
<1>1. /\ mode = "recovering" /\ mode' = "up" /\ todo = {} /\ todo' = {}
      /\ UNCHANGED <<tasks, missions, call, working, owner>>
  BY DEF Serve, files
<1>2. wpc = "idle" /\ \A c \in Client : call[c] = Idle
  BY <1>1, DownIsQuiet
<1>3. StoreS'
  BY <1>1, StoreStands DEF Steady, QueueStill
<1>4. WorkS'
  <2>1. wpc' = "idle" /\ wtask' = NoTask
    BY <1>1, <1>2 DEF Steady, WorkS, ItemRuns, working
  <2>2. \A m \in Mission : ~Busy(m)'
    BY <2>1 DEF Busy, Worked
  <2> QED BY <2>1, <2>2 DEF WorkS, ItemRuns, ReadsTrue, Executing
<1>5. CallS'
  BY <1>1, <1>2, IdleCalls
<1>6. ServerS'
  BY <1>1 DEF ServerS
<1> QED BY <1>3, <1>4, <1>5, <1>6 DEF Steady

LEMMA CrashSteady ==
  ASSUME Steady, Crash
  PROVE  Steady'
<1>1. /\ mode' = "down" /\ todo' = {} /\ WorkerRests("idle")
      /\ call' = [c \in Client |-> Idle] /\ UNCHANGED <<tasks, missions, owner>>
  BY DEF Crash, WorkerIdle, files
<1>2. StoreS'
  BY <1>1, StoreStands DEF Steady, QueueStill
<1>3. \A c \in Client : call'[c] = Idle
  BY <1>1
<1>4. CallS'
  BY <1>3, IdleCalls
<1>5. ServerS'
  BY <1>1, <1>3 DEF ServerS
<1>6. WorkS'
  BY <1>1, IdleWorks
<1> QED BY <1>1, <1>2, <1>4, <1>5, <1>6 DEF Steady

LEMMA InitSteady == Init => Steady
<1> SUFFICES ASSUME Init PROVE Steady
  OBVIOUS
<1>1. /\ tasks = <<>> /\ mode = "down" /\ todo = {} /\ wpc = "idle" /\ wtask = NoTask
      /\ \A m \in Mission : missions[m] = Absent
  BY DEF Init
<1>2. \A m \in Mission : ~Exists(m)
  BY <1>1, AbsentRecord DEF Exists
<1>3. \A c \in Client : call[c] = Idle
  BY DEF Init
<1>4. Idle.pc = "idle"
  BY DEF Idle
<1>5. WorkS
  BY <1>1, <1>2 DEF WorkS, ItemRuns, ReadsTrue, Executing, Busy
<1> QED BY <1>1, <1>2, <1>3, <1>4, <1>5 DEF Steady, StoreS, ServerS, CallS

LEMMA NextSteady ==
  ASSUME OneHandler, ~Overtake, Inv, Steady, Next
  PROVE  Steady'
<1>1. ASSUME NEW c \in Client, Requests(c) PROVE Steady'
  BY <1>1, SubmitSteady, RulingSteady, ReadMissionSteady DEF Requests
<1>2. ASSUME NEW c \in Client, Proceeds(c) PROVE Steady'
  BY <1>2, ReadDecidedSteady, AgainSteady, CancelWaitingSteady, CancelQueuedSteady,
     PutMissionSteady DEF Proceeds
<1>3. ASSUME NEW m \in Mission, NEW r \in Round, Expire(m, r) PROVE Steady'
  BY <1>3, ExpireSteady
<1>4. CASE Works
  BY <1>4, ClaimSteady, LookUpSteady, MarkSteady, RunsSteady, StepVerifiedSteady,
     StoreStepSteady, LookAgainSteady, PutOutcomeSteady, CompleteSteady DEF Works
<1>5. CASE Starts
  BY <1>5, RestartSteady, RecoverSteady, ServeSteady DEF Starts
<1>6. CASE Crash
  BY <1>6, CrashSteady
<1>7. CASE \E c \in Client : RequestRaises(c)
  BY <1>7, RequestRaisesSteady
<1>8. CASE RuntimeRaises \/ HandlerRaises \/ CompletionRaises \/ WorkerDies
  BY <1>8, RuntimeRaisesSteady, HandlerRaisesSteady, CompleteSteady, WorkerDiesSteady
<1> QED BY <1>1, <1>2, <1>3, <1>4, <1>5, <1>6, <1>7, <1>8 DEF Next

LEMMA StutterSteady ==
  ASSUME Steady, UNCHANGED vars
  PROVE  Steady'
<1>1. /\ UNCHANGED <<tasks, missions, call, working, owner, mode, todo>>
  BY DEF vars, files, server
<1>2. UNCHANGED <<wpc, wtask, wmission, seen, known, latest>>
  BY <1>1 DEF working
<1>3. StoreS' /\ ServerS'
  BY <1>1 DEF Steady, StoreS, ServerS, Holds, Exists
<1>4. WorkS'
  BY <1>1, WorkStands DEF Steady
<1>5. CallS'
  BY <1>1, <1>2 DEF Steady, CallS, ReadRight, PutRight, Holds, Busy, Worked, Exists
<1> QED BY <1>1, <1>3, <1>4, <1>5 DEF Steady

LEMMA SteadyAlways ==
  ASSUME OneHandler, ~Overtake
  PROVE  Spec => [](Inv /\ Steady)
<1>1. Init => Inv /\ Steady
  BY InitInv, InitSteady
<1>2. Inv /\ Steady /\ [Next]_vars => (Inv /\ Steady)'
  BY NextInv, StutterInv, NextSteady, StutterSteady
<1> QED BY <1>1, <1>2, PTL DEF Spec

-----------------------------------------------------------------------------
\* With one handler at a time and no item ahead of its mission: a mission that was
\* cancelled or rejected has no item left that the worker may claim or executes
\* (mission_control.py: cancel, reject_approved_action).
THEOREM WithdrawnStayOut ==
  ASSUME OneHandler, ~Overtake
  PROVE  Spec => []WithdrawnIsNotQueued
<1>1. Steady => WithdrawnIsNotQueued
  <2> SUFFICES ASSUME Steady, NEW m \in Mission,
                      missions[m].state \in {"cancelled", "rejected"}
               PROVE  /\ ~InQueue(m, {"pending"})
                      /\ missions[m].task = wtask => wpc \in {"idle", "done", "dead"}
    BY DEF WithdrawnIsNotQueued
  <2>1. Exists(m) /\ Holds(m, missions[m]) /\ ~Busy(m)
    BY DEF Exists, Steady, StoreS, WorkS, ItemRuns
  <2> QED BY <2>1 DEF Holds, InQueue, Busy, Worked
<1> QED BY <1>1, SteadyAlways, PTL

\* Under the same conditions the steps _run_steps skips are the steps the store has as
\* verified, from the first look at the mission to the last step.
THEOREM SkippedStepsAreStored ==
  ASSUME OneHandler, ~Overtake
  PROVE  Spec => []ProgressIsCurrent
<1>1. Steady => ProgressIsCurrent
  BY DEF Steady, WorkS, ReadsTrue, ProgressIsCurrent, Dag
<1> QED BY <1>1, SteadyAlways, PTL
-----------------------------------------------------------------------------
\* An item without a mission is executed without one.
Anonymous ==
  /\ wpc \in {"idle", "dead", "claimed"} => wmission = None
  /\ wpc \in {"marked", "running"} /\ seen.state = "absent" => wmission = None

LEMMA AnonymousStays ==
  ASSUME Steady, Anonymous, [Next]_vars
  PROVE  Anonymous'
<1> USE DEF Anonymous, Working, WorkerAt
<1>1. CASE UNCHANGED <<wpc, wmission, seen>>
  BY <1>1
<1>2. CASE Works
  <2>1. CASE ClaimTask
    BY <2>1 DEF ClaimTask
  <2>2. CASE LookUp
    BY <2>2 DEF LookUp
  <2>3. CASE MarkRunning
    BY <2>3 DEF MarkRunning, Steady, WorkS, ReadsTrue, Executing
  <2>4. CASE StoreStep
    BY <2>4 DEF StoreStep, Steady, WorkS, ReadsTrue, Executing
  <2>5. CASE Begin \/ BeginPrivileged
    BY <2>5 DEF Begin, BeginPrivileged
  <2>6. CASE CompleteTask
    BY <2>6 DEF CompleteTask, Completes, WorkerIdle, WorkerRests
  <2>7. ASSUME wpc' \in {"ended", "stepped", "final", "done"} PROVE Anonymous'
    BY <2>7
  <2>8. CASE Unapproved \/ StepVerified \/ StepFails \/ StepsDone
    BY <2>7, <2>8 DEF Unapproved, StepVerified, StepFails, StepsDone, Ends
  <2>9. CASE \E result \in MissionState : RunTask(result)
    BY <2>7, <2>9 DEF RunTask, Ends
  <2>10. CASE LookAgain \/ PutOutcome
    BY <2>7, <2>10 DEF LookAgain, PutOutcome
  <2> HIDE DEF Anonymous
  <2> QED
    BY <1>2, <2>1, <2>2, <2>3, <2>4, <2>5, <2>6, <2>8, <2>9, <2>10 DEF Works
<1>3. CASE Crash
  BY <1>3 DEF Crash, WorkerIdle, WorkerRests
<1>4. CASE Starts
  BY <1>1, <1>4 DEF Starts, Restart, RecoverMission, Serve, working
<1>5. CASE \E m \in Mission, r \in Round : Expire(m, r)
  <2>1. UNCHANGED working
    BY <1>5 DEF Expire
  <2> QED
    BY <1>1, <2>1 DEF working
<1>6. ASSUME NEW c \in Client, Requests(c) \/ Proceeds(c)
      PROVE  UNCHANGED working
  BY <1>6, Zenon DEF Requests, Proceeds, Submit, SubmitGuarded, SubmitRefused, Approve, Reject,
              ReadMission, ReadDecided, EnqueueAgain, ProposeAgain, CancelWaiting,
              CancelQueued, PutMission
<1>7. CASE UNCHANGED vars
  BY <1>1, <1>7 DEF vars, working
<1>8. ASSUME NEW c \in Client, RequestRaises(c)
      PROVE  UNCHANGED working
  BY <1>8 DEF RequestRaises
<1>9. CASE RuntimeRaises \/ HandlerRaises
  BY <1>9 DEF RuntimeRaises, HandlerRaises, Ends
<1>10. CASE CompletionRaises \/ WorkerDies
  BY <1>10 DEF CompletionRaises, Completes, WorkerDies, WorkerIdle, WorkerRests
<1> QED
  BY <1>1, <1>2, <1>3, <1>4, <1>5, <1>6, <1>7, <1>8, <1>9, <1>10 DEF Next, working

\* What two overlapping requests violate (CancelledMission.cfg) holds for one handler
\* at a time: a mission that is shown as cancelled is not being executed
\* (mission_control.py: cancel; README.md:311).
THEOREM CancelledAreNotExecuted ==
  ASSUME OneHandler, ~Overtake
  PROVE  Spec => []CancelledIsNotExecuted
<1>1. Init => Anonymous
  BY DEF Init, Anonymous
<1>2. Steady /\ Anonymous /\ [Next]_vars => Anonymous'
  BY AnonymousStays
<1>3. Steady /\ Anonymous => CancelledIsNotExecuted
  <2> SUFFICES ASSUME Steady, Anonymous, NEW m \in Mission, wmission = m, wpc = "running"
               PROVE  missions[m].state # "cancelled"
    BY DEF CancelledIsNotExecuted
  <2>1. seen.state # "absent"
    BY MissionControlAssumption DEF Anonymous
  <2>2. Busy(m)
    BY <2>1 DEF Steady, WorkS, ReadsTrue, Executing
  <2> QED
    BY <2>2 DEF Steady, WorkS, ItemRuns
<1> QED
  BY <1>1, <1>2, <1>3, SteadyAlways, PTL DEF Spec
=============================================================================
