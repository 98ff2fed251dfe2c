---------------------------- MODULE SessionsProofs ----------------------------
(***************************************************************************)
(* Proofs about the bounded sessions that MCSessions drives: what each of  *)
(* them guarantees on its own, for every site, set of applications,        *)
(* documents, replies of the model and declared pipelines; and that all    *)
(* five keep the promise of GuardedSession.                                *)
(***************************************************************************)
EXTENDS MCSessions, FiniteSetTheorems, WellFoundedInduction, TLAPS

-----------------------------------------------------------------------------
(* Lists and numbers.                                                      *)

\* A list, of whatever it holds.
Listed(s) == s \in Seq({s[i] : i \in DOMAIN s})

LEMMA EmptyListed == Listed(<<>>)
  BY DEF Listed

\* One more entry: what becomes of the list.
Extends(s, x, t) ==
    /\ Listed(t) /\ Len(s) \in Nat /\ DOMAIN s = 1..Len(s)
    /\ Len(t) = Len(s) + 1 /\ DOMAIN t = 1..(Len(s) + 1)
    /\ t[Len(s) + 1] = x /\ \A i \in 1..Len(s) : t[i] = s[i]
    /\ s = SubSeq(t, 1, Len(s))

LEMMA Appending ==
  \A s, x, t : Listed(s) /\ t = Append(s, x) => Extends(s, x, t)
<1> SUFFICES ASSUME NEW s, Listed(s), NEW x, NEW t, t = Append(s, x)
             PROVE  Extends(s, x, t)
  OBVIOUS
<1> DEFINE S == {s[i] : i \in DOMAIN s}
<1>1. s \in Seq(S \cup {x}) /\ x \in S \cup {x}
  BY DEF Listed
<1> HIDE DEF S
<1>2. /\ t \in Seq(S \cup {x}) /\ Len(s) \in Nat /\ DOMAIN s = 1..Len(s)
      /\ Len(t) = Len(s) + 1 /\ DOMAIN t = 1..(Len(s) + 1)
      /\ t[Len(s) + 1] = x /\ \A i \in 1..Len(s) : t[i] = s[i]
  BY <1>1
<1>3. Listed(t)
  BY <1>2 DEF Listed
<1>4. s = SubSeq(t, 1, Len(s))
  BY <1>1, <1>2
<1> QED BY <1>2, <1>3, <1>4 DEF Extends

\* The new entry is one of the list, and the last.
LEMMA NewEntry ==
  ASSUME NEW s, NEW x, NEW t, Extends(s, x, t)
  PROVE  /\ x \in {t[i] : i \in DOMAIN t} /\ t[Len(t)] = x /\ Len(t) = Len(s) + 1
         /\ s = SubSeq(t, 1, Len(s)) /\ Listed(t)
  BY DEF Extends

LEMMA LeastNatural ==
  ASSUME NEW T \in SUBSET Nat, T # {}
  PROVE  \E x \in T : \A y \in T : x <= y
<1>1. PICK x \in T : \A y \in T : <<y, x>> \notin OpToRel(<, Nat)
  BY NatLessThanWellFounded, WFMin
<1>2. \A n, m \in Nat : n < m => <<n, m>> \in OpToRel(<, Nat)
  <2>1. OpToRel(<, Nat) = {pair \in Nat \X Nat : pair[1] < pair[2]}
    BY Zenon DEF OpToRel
  <2>2. \A n, m \in Nat : n < m => <<n, m>> \in {pair \in Nat \X Nat : pair[1] < pair[2]}
    OBVIOUS
  <2> QED BY <2>1, <2>2, Zenon
<1>3. \A y \in T : ~(y < x)
  BY <1>1, <1>2, Zenon
<1> QED BY <1>3

LEMMA LeastOfNaturals ==
  ASSUME NEW T \in SUBSET Nat, T # {}
  PROVE  Min(T) \in T /\ \A y \in T : Min(T) <= y
  BY LeastNatural DEF Min

-----------------------------------------------------------------------------
(* The desktop controller posts an outcome once.                           *)

\* Requests are numbered by run and turn.  No request is of a later turn than
\* the controller's, and one that carries an outcome is not posted before its
\* first attempt, which is its only one.
PostsInv ==
    /\ DOMAIN run = DOMAIN NoRun
    /\ run.no \in Nat /\ run.turn \in Nat /\ run.attempt \in Nat
    /\ run.state \in {"posting", "verifying"} => run.attempt > 0
    /\ DOMAIN posts \subseteq Nat \X Nat \X {"posting", "verifying"}
    /\ \A r \in DOMAIN posts :
         /\ r[1] <= run.no /\ (r[1] = run.no => r[2] <= run.turn)
         /\ r = <<run.no, run.turn, "posting">> /\ run.turn > 1 => run.state # "posting"
    /\ OutcomesPostedOnce

\* A request is counted, and the controller left in another state.
LEMMA PostedOnce ==
  ASSUME PostsInv, run.state \in {"posting", "verifying"}, Posted,
         DOMAIN run' = DOMAIN NoRun, run'.no = run.no, run'.turn = run.turn,
         run'.attempt \in Nat, run'.attempt > 0,
         run'.state = "posting" => run.turn <= 1
  PROVE  PostsInv'
<1>1. /\ DOMAIN posts' = DOMAIN posts \cup {Request}
      /\ \A r \in DOMAIN posts : r # Request => posts'[r] = posts[r]
      /\ Request \notin DOMAIN posts => posts'[Request] = 1
  BY DEF Posted, PostsInv
<1>2. /\ Request \in Nat \X Nat \X {"posting", "verifying"}
      /\ Request[1] = run.no /\ Request[2] = run.turn /\ Request[3] = run.state
  BY DEF Request, PostsInv
<1>3. DOMAIN posts' \subseteq Nat \X Nat \X {"posting", "verifying"}
  BY <1>1, <1>2 DEF PostsInv
<1>4. ASSUME NEW r \in DOMAIN posts'
      PROVE  /\ r[1] <= run'.no /\ (r[1] = run'.no => r[2] <= run'.turn)
             /\ r = <<run'.no, run'.turn, "posting">> /\ run'.turn > 1
                    => run'.state # "posting"
  <2>1. CASE r = Request
    BY <2>1, <1>2 DEF PostsInv
  <2>2. CASE r \in DOMAIN posts
    BY <2>2 DEF PostsInv
  <2> QED BY <2>1, <2>2, <1>1
<1>5. OutcomesPostedOnce'
  <2> SUFFICES ASSUME NEW r \in DOMAIN posts', r[2] > 1, r[3] = "posting"
               PROVE  posts'[r] = 1
    BY DEF OutcomesPostedOnce
  <2>1. CASE r = Request
    <3>1. Request \notin DOMAIN posts
      BY <2>1, <1>2 DEF PostsInv, Request
    <3> QED BY <3>1, <2>1, <1>1
  <2>2. CASE r # Request
    BY <2>2, <1>1 DEF PostsInv, OutcomesPostedOnce
  <2> QED BY <2>1, <2>2
<1>6. /\ run'.no \in Nat /\ run'.turn \in Nat
  BY DEF PostsInv
<1> QED BY <1>3, <1>4, <1>5, <1>6 DEF PostsInv

\* Nothing is posted, and the next request is of a later turn.
LEMMA NotPosted ==
  ASSUME PostsInv, posts' = posts, DOMAIN run' = DOMAIN NoRun,
         run'.no = run.no, run'.turn \in Nat, run'.turn >= run.turn,
         run'.attempt \in Nat,
         run'.state \in {"posting", "verifying"} => run'.attempt > 0,
         run'.state = "posting" => run'.turn > run.turn
  PROVE  PostsInv'
<1>1. ASSUME NEW r \in DOMAIN posts
      PROVE  /\ r[1] <= run'.no /\ (r[1] = run'.no => r[2] <= run'.turn)
             /\ r = <<run'.no, run'.turn, "posting">> /\ run'.turn > 1
                    => run'.state # "posting"
  <2>1. r \in Nat \X Nat \X {"posting", "verifying"} /\ r[1] <= run.no
        /\ (r[1] = run.no => r[2] <= run.turn)
    BY DEF PostsInv
  <2>2. r = <<run'.no, run'.turn, "posting">> => r[1] = run.no /\ r[2] = run'.turn
    OBVIOUS
  <2>3. run.turn \in Nat
    BY DEF PostsInv
  <2> QED BY <2>1, <2>2, <2>3
<1>2. OutcomesPostedOnce'
  BY DEF PostsInv, OutcomesPostedOnce
<1> QED BY <1>1, <1>2 DEF PostsInv

LEMMA EndedKeeps ==
  ASSUME PostsInv, NEW state, Ended(state)
  PROVE  /\ DOMAIN run' = DOMAIN NoRun /\ run'.no = run.no /\ run'.turn = run.turn
         /\ run'.attempt = run.attempt /\ run'.state = state
  BY DEF PostsInv, Ended, NoRun

LEMMA PostsStep == PostsInv /\ [ComputerNext]_computerVars => PostsInv'
<1> SUFFICES ASSUME PostsInv, [ComputerNext]_computerVars PROVE PostsInv'
  OBVIOUS
<1>1. CASE UNCHANGED <<run, posts>>
  BY <1>1 DEF PostsInv, OutcomesPostedOnce
<1>2. ASSUME NEW approved \in BOOLEAN, RunStart(approved) PROVE PostsInv'
  <2>1. /\ DOMAIN run' = DOMAIN NoRun /\ run'.no = run.no + 1 /\ run'.turn = 1
        /\ run'.attempt = 1 /\ run'.state = "posting" /\ posts' = posts
    BY <1>2 DEF RunStart, NoRun
  <2>2. \A r \in DOMAIN posts : r[1] <= run'.no /\ r[1] # run'.no
    BY <2>1 DEF PostsInv
  <2>3. OutcomesPostedOnce'
    BY <2>1 DEF PostsInv, OutcomesPostedOnce
  <2> QED BY <2>1, <2>2, <2>3 DEF PostsInv
<1>3. ASSUME NEW retryable \in BOOLEAN, PostFails(retryable) PROVE PostsInv'
  <2>1. /\ DOMAIN run' = DOMAIN NoRun /\ run'.no = run.no /\ run'.turn = run.turn
        /\ run'.attempt \in Nat /\ run'.attempt > 0
        /\ run'.state = "posting" => run.turn <= 1
    <3>1. CASE retryable /\ run.attempt < Attempts
      <4>1. /\ DOMAIN run' = DOMAIN NoRun /\ run'.no = run.no /\ run'.turn = run.turn
            /\ run'.attempt = run.attempt + 1 /\ run'.state = run.state
        BY <1>3, <3>1 DEF PostFails, PostsInv, NoRun
      <4>2. run.state = "posting" => run.turn <= 1
        BY <1>3, <3>1 DEF PostFails, PostsInv, Attempts, RetrySafe
      <4> QED BY <4>1, <4>2, <1>3 DEF PostsInv, PostFails
    <3>2. CASE ~(retryable /\ run.attempt < Attempts)
      <4>1. Ended("failed")
        BY <1>3, <3>2 DEF PostFails
      <4> QED BY <4>1, EndedKeeps, <1>3 DEF PostsInv, PostFails
    <3> QED BY <3>1, <3>2
  <2> QED BY <2>1, <1>3, PostedOnce DEF PostFails
<1>4. ASSUME NEW confirmed \in BOOLEAN, PostVerified(confirmed) PROVE PostsInv'
  <2>1. /\ DOMAIN run' = DOMAIN NoRun /\ run'.no = run.no /\ run'.turn = run.turn
        /\ run'.attempt = run.attempt /\ run'.state # "posting"
    <3>1. CASE confirmed
      BY <3>1, <1>4, EndedKeeps DEF PostVerified
    <3>2. CASE ~confirmed
      BY <3>2, <1>4, EndedKeeps DEF PostVerified
    <3> QED BY <3>1, <3>2
  <2>2. run.attempt \in Nat /\ run.attempt > 0 /\ run.state \in {"posting", "verifying"}
    BY <1>4 DEF PostVerified, PostsInv
  <2>3. Posted
    BY <1>4 DEF PostVerified
  <2>4. run'.attempt \in Nat /\ run'.attempt > 0
    BY <2>1, <2>2
  <2> QED BY <2>1, <2>2, <2>3, <2>4, PostedOnce
<1>5. ASSUME NEW reply \in Replies, PostReplied(reply) PROVE PostsInv'
  <2>1. /\ DOMAIN run' = DOMAIN NoRun /\ run'.no = run.no /\ run'.turn = run.turn
        /\ run'.attempt \in Nat /\ run'.attempt > 0 /\ run'.state # "posting"
    <3>0. run.attempt \in Nat /\ run.attempt > 0
      BY <1>5 DEF PostReplied, PostsInv
    <3>1. CASE reply # <<>>
      BY <3>0, <3>1, <1>5 DEF PostReplied, PostsInv, NoRun
    <3>2. CASE reply = <<>> /\ run.actions > 0
      <4>1. run' = [run EXCEPT !.state = "verifying", !.attempt = 1]
        BY <3>2, <1>5 DEF PostReplied
      <4>2. DOMAIN run = DOMAIN NoRun
        BY DEF PostsInv
      <4> QED BY <4>1, <4>2 DEF NoRun
    <3>3. CASE reply = <<>> /\ ~(run.actions > 0)
      <4>1. Ended("completed")
        BY <3>3, <1>5 DEF PostReplied
      <4> QED BY <4>1, <3>0, EndedKeeps
    <3> QED BY <3>1, <3>2, <3>3
  <2> QED BY <2>1, <1>5, PostedOnce DEF PostReplied
<1>6. CASE CallRefused
  <2>1. /\ posts' = posts /\ DOMAIN run' = DOMAIN NoRun /\ run'.no = run.no
        /\ run'.turn = run.turn /\ run'.attempt = run.attempt
        /\ run'.state \notin {"posting", "verifying"}
    <3>1. Ended("failed") \/ Ended("requires_approval")
      BY <1>6 DEF CallRefused
    <3> QED BY <3>1, <1>6, EndedKeeps DEF CallRefused
  <2>2. run.turn \in Nat /\ run.attempt \in Nat
    BY DEF PostsInv
  <2> QED BY <2>1, <2>2, NotPosted
<1>7. CASE RunAct
  <2>1. /\ posts' = posts /\ DOMAIN run' = DOMAIN NoRun /\ run'.no = run.no
        /\ run'.turn = run.turn /\ run'.attempt = run.attempt
        /\ run'.state \notin {"posting", "verifying"}
    <3> DEFINE done == CuaAction(computer, Head(Call.actions), run.approved)
    <3>0. /\ run.state = "acting" /\ posts' = posts
          /\ IF done.ok
             THEN run' = [run EXCEPT !.actions = @ + 1, !.replied = TRUE,
                                     !.calls[1].actions = Tail(@)]
             ELSE Ended("failed")
      BY <1>7 DEF RunAct
    <3> HIDE DEF done
    <3>1. CASE done.ok
      BY <3>0, <3>1 DEF PostsInv, NoRun
    <3>2. CASE ~done.ok
      BY <3>0, <3>2, EndedKeeps
    <3> QED BY <3>1, <3>2
  <2>2. run.turn \in Nat /\ run.attempt \in Nat
    BY DEF PostsInv
  <2> QED BY <2>1, <2>2, NotPosted
<1>8. CASE RunScreenshot
  <2> DEFINE shot == WindowQuery(computer)
             more == Len(run.calls) > 1
             last == run.turn = TurnLimit
  <2>0. /\ run.state = "acting" /\ posts' = posts
        /\ IF ~shot.ok \/ Call.checks = "nameless" THEN Ended("failed")
           ELSE run' = [run EXCEPT
                    !.calls = Tail(@), !.replied = FALSE, !.attempt = 1,
                    !.state = IF more THEN "acting" ELSE IF last THEN "bounded" ELSE "posting",
                    !.turn = IF more \/ last THEN @ ELSE @ + 1]
    BY <1>8 DEF RunScreenshot
  <2>1. run.turn \in Nat /\ run.attempt \in Nat
    BY DEF PostsInv
  <2> HIDE DEF shot, more, last
  <2>2. CASE ~shot.ok \/ Call.checks = "nameless"
    <3>1. Ended("failed")
      BY <2>0, <2>2
    <3> QED BY <2>0, <2>1, <3>1, EndedKeeps, NotPosted
  <2>3. CASE ~(~shot.ok \/ Call.checks = "nameless")
    <3>1. /\ DOMAIN run' = DOMAIN NoRun /\ run'.no = run.no /\ run'.attempt = 1
          /\ run'.turn = (IF more \/ last THEN run.turn ELSE run.turn + 1)
          /\ run'.state = (IF more THEN "acting" ELSE IF last THEN "bounded" ELSE "posting")
      BY <2>0, <2>3 DEF PostsInv, NoRun
    <3> QED BY <2>0, <2>1, <3>1, NotPosted
  <2> QED BY <2>2, <2>3
<1>9. CASE DirectOperation \/ UserActs \/ UNCHANGED computerVars
  <2>1. UNCHANGED <<run, posts>>
    <3>1. CASE DirectOperation
      BY <3>1, Zenon DEF DirectOperation
    <3>2. CASE UserActs
      BY <3>2, Zenon DEF UserActs
    <3>3. CASE UNCHANGED computerVars
      BY <3>3 DEF computerVars
    <3> QED BY <1>9, <3>1, <3>2, <3>3
  <2> QED BY <2>1, <1>1
<1> QED
  BY <1>2, <1>3, <1>4, <1>5, <1>6, <1>7, <1>8, <1>9, Zenon DEF ComputerNext

LEMMA PostsInvariant == ComputerSpec => []PostsInv
<1>1. ComputerInit => PostsInv
  BY DEF ComputerInit, NoRun, PostsInv, OutcomesPostedOnce
<1> QED BY <1>1, PostsStep, PTL DEF ComputerSpec

\* The desktop controller posts the outcome of performed actions at most once,
\* for every number of runs, turns and retries and whatever the model replies.
THEOREM OutcomesAreFinal == ComputerSpec => []OutcomesPostedOnce
<1>1. PostsInv => OutcomesPostedOnce
  BY DEF PostsInv
<1> QED BY <1>1, PostsInvariant, PTL

-----------------------------------------------------------------------------
(* Applications.                                                           *)

AppGuarded == INSTANCE GuardedSession WITH
    life <- appLives, used <- app.used, limit <- AppBudget,
    done <- appDone, performed <- appRuns

\* The checkpoint holds nothing that is not on record.
AppInv ==
    /\ DOMAIN app = DOMAIN FreshApp /\ app.used \in Nat /\ app.used <= AppBudget
    /\ appLives \in Nat /\ appSaved \subseteq appDone /\ Listed(appRuns)

\* One more operation of the session, that performs nothing.
LEMMA AppSpends ==
  ASSUME AppInv, CanSpend, app'.used = app.used + 1, DOMAIN app' = DOMAIN FreshApp,
         UNCHANGED <<appDone, appRuns, appSaved, appLives>>
  PROVE  AppInv' /\ AppGuarded!Work
<1>1. app.used \in Nat /\ AppBudget \in Nat /\ app.used < AppBudget
  BY AppAssumption DEF AppInv, CanSpend
<1> QED BY <1>1 DEF AppInv, AppGuarded!Work, AppGuarded!MayPerform

LEMMA AppStep ==
  ASSUME AppInv, [AppNext]_appVars
  PROVE  AppInv' /\ [AppGuarded!GuardNext]_(AppGuarded!guardVars)
<1> USE DEF AppGuarded!GuardNext, AppGuarded!guardVars
<1>0. CASE UNCHANGED appVars
  BY <1>0 DEF appVars, AppInv
<1>1. ASSUME NEW a \in DOMAIN Apps, NEW doc_ \in Documents, AppOpen(a, doc_)
      PROVE  AppInv' /\ [AppGuarded!GuardNext]_(AppGuarded!guardVars)
  <2>1. /\ UNCHANGED <<appDone, appRuns, appSaved, appLives>>
        /\ DOMAIN app' = DOMAIN FreshApp
        /\ app'.used = IF app.used < AppBudget THEN app.used + 1 ELSE app.used
    BY <1>1 DEF AppOpen, FreshApp
  <2>2. app.used \in Nat /\ AppBudget \in Nat /\ app.used <= AppBudget
    BY AppAssumption DEF AppInv
  <2> QED BY <2>1, <2>2 DEF AppInv, AppGuarded!Work, AppGuarded!MayPerform
<1>2. CASE AppClose
  <2>1. /\ CanSpend /\ app'.used = app.used + 1 /\ DOMAIN app' = DOMAIN FreshApp
        /\ UNCHANGED <<appDone, appRuns, appSaved, appLives>>
    BY <1>2 DEF AppClose, Spent, AppInv, FreshApp
  <2> QED BY <2>1, AppSpends
<1>3. CASE AppTurn
  BY <1>3 DEF AppTurn, AppInv, FreshApp
<1>4. CASE AppObserve
  <2>1. /\ CanSpend /\ app'.used = app.used + 1 /\ DOMAIN app' = DOMAIN FreshApp
        /\ UNCHANGED <<appDone, appRuns, appSaved, appLives>>
    BY <1>4 DEF AppObserve, Spent, AppInv, FreshApp
  <2> QED BY <2>1, AppSpends
<1>5. ASSUME NEW command, NEW arg, NEW payload, NEW target,
             AppCommand(command, arg, payload, target)
      PROVE  AppInv' /\ [AppGuarded!GuardNext]_(AppGuarded!guardVars)
  <2> DEFINE key == CommandKey(app.id, command, arg, payload, target)
             mutating == command \in MutatingCommands
  <2>1. /\ CanSpend /\ (mutating => key \notin appDone)
        /\ \/ app' = Spent /\ UNCHANGED <<appDone, appRuns>>
           \/ /\ app' = [Spent EXCEPT !.epoch = @ + 1]
              /\ IF mutating
                 THEN appRuns' = Append(appRuns, key) /\ appDone' = appDone \cup {key}
                 ELSE UNCHANGED <<appRuns, appDone>>
        /\ UNCHANGED <<appSaved, appLives>>
    BY <1>5 DEF AppCommand
  <2> HIDE DEF key, mutating
  <2>2. app'.used = app.used + 1 /\ DOMAIN app' = DOMAIN FreshApp
    BY <2>1 DEF Spent, AppInv, FreshApp
  <2>3. CASE UNCHANGED <<appDone, appRuns>>
    BY <2>1, <2>2, <2>3, AppSpends
  <2>4. CASE /\ mutating /\ appRuns' = Append(appRuns, key) /\ appDone' = appDone \cup {key}
    <3>1. Extends(appRuns, key, appRuns')
      BY <2>4, Appending DEF AppInv
    <3>2. Listed(appRuns)'
      BY <3>1, NewEntry
    <3>3. AppGuarded!MayPerform
      BY <2>1, <2>4, <3>1, NewEntry DEF AppGuarded!MayPerform, AppGuarded!PerformedKeys
    <3>4. app.used \in Nat /\ AppBudget \in Nat /\ app.used < AppBudget
      BY <2>1, AppAssumption DEF AppInv, CanSpend
    <3>5. AppGuarded!Work
      BY <2>1, <2>2, <3>3, <3>4 DEF AppGuarded!Work
    <3>6. AppInv'
      BY <2>1, <2>2, <2>4, <3>2, <3>4 DEF AppInv
    <3> QED BY <3>5, <3>6
  <2> QED BY <2>1, <2>3, <2>4
<1>6. CASE AppCheckpoint
  BY <1>6 DEF AppCheckpoint, AppInv
<1>7. CASE AppRestart
  BY <1>7, EmptyListed, AppAssumption
  DEF AppRestart, AppInv, FreshApp, AppGuarded!Resume
<1> QED
  BY <1>0, <1>1, <1>2, <1>3, <1>4, <1>5, <1>6, <1>7, Zenon DEF AppNext

LEMMA AppStarts == AppInit => AppInv /\ AppGuarded!GuardInit
  BY AppAssumption, EmptyListed DEF AppInit, AppInv, FreshApp, AppGuarded!GuardInit

\* The application connector keeps the promise of a guarded session, for every
\* set of applications, documents and payloads and every budget: a command on
\* record is not performed again, in this process or after a restart from a
\* checkpoint, and the budget is never overdrawn.
THEOREM ApplicationsAreGuarded == AppSpec => AppGuarded!GuardSpec
  BY AppStarts, AppStep, PTL DEF AppSpec, AppGuarded!GuardSpec

-----------------------------------------------------------------------------
(* Documents.                                                              *)

DocGuarded == INSTANCE GuardedSession WITH
    life <- docLives, used <- doc.used, limit <- doc.limit,
    done <- docDone, performed <- docRuns

DocInv ==
    /\ DOMAIN doc = DOMAIN FreshDoc(0) /\ doc.used \in Nat /\ doc.limit \in Nat
    /\ doc.used <= doc.limit
    /\ docLives \in Nat /\ docSaved \subseteq docDone /\ Listed(docRuns)

DocStands == /\ DOMAIN doc' = DOMAIN FreshDoc(0) /\ doc'.used = doc.used + 1
             /\ doc'.limit = doc.limit

LEMMA DocSpends ==
  ASSUME DocInv, DocCanSpend, DocStands,
         UNCHANGED <<docDone, docRuns, docSaved, docLives>>
  PROVE  DocInv' /\ DocGuarded!Work
<1>1. doc.used \in Nat /\ doc.limit \in Nat /\ doc.used < doc.limit
  BY DEF DocInv, DocCanSpend
<1> QED BY <1>1 DEF DocInv, DocStands, DocGuarded!Work, DocGuarded!MayPerform

LEMMA DocCharges ==
  ASSUME DocInv
  PROVE  /\ doc' = DocSpent => DocStands
         /\ \A p : doc' = NotedDoc(DocSpent, p) => DocStands
  BY DEF DocInv, FreshDoc, DocSpent, NotedDoc, DocStands

LEMMA DocStep ==
  ASSUME DocInv, [DocNext]_docVars
  PROVE  DocInv' /\ [DocGuarded!GuardNext]_(DocGuarded!guardVars)
<1> USE DEF DocGuarded!GuardNext, DocGuarded!guardVars
<1>0. CASE UNCHANGED docVars
  BY <1>0 DEF docVars, DocInv
<1>1. CASE DocTurn
  <2>1. UNCHANGED <<docDone, docRuns, docSaved>>
    BY <1>1 DEF DocTurn
  <2>2. CASE doc' = FreshDoc(DefaultDocBudget) /\ docLives' = docLives + 1
    BY <2>1, <2>2, DocAssumption
    DEF DocInv, FreshDoc, DocGuarded!Renew, DocGuarded!MayPerform
  <2>3. CASE /\ UNCHANGED docLives
             /\ \E state : doc' = [doc EXCEPT !.state = state]
    BY <2>1, <2>3 DEF DocInv, FreshDoc
  <2> QED BY <1>1, <2>2, <2>3, Zenon DEF DocTurn
<1>2. ASSUME NEW p \in DOMAIN Paths, DocInspect(p) \/ DocRead(p)
      PROVE  DocInv' /\ [DocGuarded!GuardNext]_(DocGuarded!guardVars)
  <2>1. /\ DocCanSpend /\ UNCHANGED <<docDone, docRuns, docSaved, docLives>>
        /\ doc' = DocSpent \/ doc' = NotedDoc(DocSpent, p)
    BY <1>2 DEF DocInspect, DocRead
  <2> QED BY <2>1, DocCharges, DocSpends
<1>3. ASSUME NEW op \in TransformOps, NEW inputs \in (SUBSET DOMAIN Paths) \ {{}},
             NEW output \in DOMAIN Paths, DocTransform(op, inputs, output)
      PROVE  DocInv' /\ [DocGuarded!GuardNext]_(DocGuarded!guardVars)
  <2> DEFINE key == TransformKey(op, inputs, output)
  <2>1. /\ DocCanSpend /\ key \notin docDone /\ UNCHANGED <<docSaved, docLives>>
        /\ \/ doc' = DocSpent /\ UNCHANGED <<docDone, docRuns>>
           \/ /\ doc' = NotedDoc(DocSpent, OutputPath(output))
              /\ docRuns' = Append(docRuns, key) /\ docDone' = docDone \cup {key}
    BY <1>3 DEF DocTransform
  <2> HIDE DEF key
  <2>2. DocStands
    BY <2>1, DocCharges
  <2>3. CASE UNCHANGED <<docDone, docRuns>>
    BY <2>1, <2>2, <2>3, DocSpends
  <2>4. CASE docRuns' = Append(docRuns, key) /\ docDone' = docDone \cup {key}
    <3>1. Extends(docRuns, key, docRuns')
      BY <2>4, Appending DEF DocInv
    <3>2. Listed(docRuns)'
      BY <3>1, NewEntry
    <3>3. DocGuarded!MayPerform
      BY <2>1, <2>4, <3>1, NewEntry DEF DocGuarded!MayPerform, DocGuarded!PerformedKeys
    <3>4. doc.used \in Nat /\ doc.limit \in Nat /\ doc.used < doc.limit
      BY <2>1 DEF DocInv, DocCanSpend
    <3>5. DocGuarded!Work
      BY <2>1, <2>2, <3>3, <3>4 DEF DocGuarded!Work, DocStands
    <3>6. DocInv'
      BY <2>1, <2>2, <2>4, <3>2, <3>4 DEF DocInv, DocStands
    <3> QED BY <3>5, <3>6
  <2> QED BY <2>1, <2>3, <2>4
<1>4. CASE DocVerify
  <2>1. /\ DocCanSpend /\ UNCHANGED <<docDone, docRuns, docSaved, docLives>>
        /\ doc' = DocSpent \/ doc' = NotedDoc(DocSpent, proof.path)
    BY <1>4 DEF DocVerify
  <2> QED BY <2>1, DocCharges, DocSpends
<1>5. CASE DocCheckpoint
  BY <1>5 DEF DocCheckpoint, DocInv
<1>6. CASE DocRestart
  BY <1>6, EmptyListed, DocAssumption
  DEF DocRestart, DocInv, FreshDoc, DocGuarded!Resume
<1> QED BY <1>0, <1>1, <1>2, <1>3, <1>4, <1>5, <1>6, Zenon DEF DocNext

LEMMA DocStarts == DocInit => DocInv /\ DocGuarded!GuardInit
  BY DocAssumption, EmptyListed DEF DocInit, DocInv, FreshDoc, DocGuarded!GuardInit

\* So does the documents connector, which opens sessions of another budget.
THEOREM DocumentsAreGuarded == DocSpec => DocGuarded!GuardSpec
  BY DocStarts, DocStep, PTL DEF DocSpec, DocGuarded!GuardSpec

-----------------------------------------------------------------------------
(* The desktop.                                                            *)

ComputerGuarded == INSTANCE GuardedSession WITH
    life <- 0, used <- computer.used, limit <- ActionLimit,
    done <- Keyed, performed <- computer.inputs

\* Launches and texts are recorded apart, each under its own kind of key.
DesktopInv ==
    /\ DOMAIN computer = DOMAIN FirstComputer
    /\ computer.used \in Nat /\ computer.used <= ActionLimit
    /\ Listed(computer.inputs)
    /\ \A k \in computer.launched : k.op \in {"launch", "ticket"}
    /\ \A k \in computer.typed : k.op \in {"type", "ticket"}

\* What an operation may make of the desktop c: it launches or types something
\* that is not on record, or leaves the record alone.
SameRecord(c, d) == /\ d.launched = c.launched /\ d.typed = c.typed
                    /\ d.inputs = c.inputs
Launches(c, d) ==
    \E program, ticket :
        /\ Launch(program) \notin c.launched
        /\ d.launched = Recorded(c.launched, Launch(program), ticket)
        /\ d.typed = c.typed /\ d.inputs = Append(c.inputs, Launch(program))
TypesIn(c, d) ==
    \E text, ticket :
        /\ Typing(c, text) \notin c.typed
        /\ d.typed = Recorded(c.typed, Typing(c, text), ticket)
        /\ d.launched = c.launched /\ d.inputs = Append(c.inputs, Typing(c, text))
Operates(c, d) ==
    \/ d = c
    \/ /\ c.used < ActionLimit /\ d.used = c.used + 1 /\ DOMAIN d = DOMAIN FirstComputer
       /\ SameRecord(c, d) \/ Launches(c, d) \/ TypesIn(c, d)

LEMMA ChargedOperates ==
  ASSUME NEW c, NEW valid \in BOOLEAN, NEW after,
         DOMAIN c = DOMAIN FirstComputer, DOMAIN after = DOMAIN FirstComputer,
         c.used \in Nat, after.used = c.used,
         SameRecord(c, after) \/ Launches(c, after) \/ TypesIn(c, after)
  PROVE  Operates(c, Charged1(c, valid, after).to)
<1> USE ComputerAssumption
<1>1. CASE c.used >= ActionLimit
  BY <1>1 DEF Charged1, Operates
<1>2. CASE ~(c.used >= ActionLimit)
  <2> DEFINE base == IF valid THEN after ELSE c
             to == [base EXCEPT !.used = @ + 1]
  <2>1. Charged1(c, valid, after).to = to
    BY <1>2 DEF Charged1
  <2>2. /\ DOMAIN base = DOMAIN FirstComputer /\ base.used = c.used
        /\ SameRecord(c, base) \/ Launches(c, base) \/ TypesIn(c, base)
    BY DEF SameRecord
  <2> HIDE DEF base
  <2>3. /\ DOMAIN to = DOMAIN FirstComputer /\ to.used = c.used + 1
        /\ to.launched = base.launched /\ to.typed = base.typed /\ to.inputs = base.inputs
    BY <2>2 DEF FirstComputer
  <2> HIDE DEF to
  <2>4. SameRecord(c, to) \/ Launches(c, to) \/ TypesIn(c, to)
    BY <2>2, <2>3 DEF SameRecord, Launches, TypesIn
  <2>5. c.used < ActionLimit
    BY <1>2
  <2> QED BY <2>1, <2>3, <2>4, <2>5 DEF Operates
<1> QED BY <1>1, <1>2

\* Operations that leave the record alone.
LEMMA PlainOperates ==
  ASSUME NEW c, NEW valid \in BOOLEAN, DOMAIN c = DOMAIN FirstComputer, c.used \in Nat
  PROVE  /\ Operates(c, Charged1(c, valid, c).to)
         /\ \A point : Operates(c, Charged1(c, valid, [c EXCEPT !.pointer = point]).to)
         /\ \A text : Operates(c, Charged1(c, valid, [c EXCEPT !.clip = text]).to)
         /\ \A handle : Operates(c, Charged1(c, valid, Focused(c, handle)).to)
<1>1. Operates(c, Charged1(c, valid, c).to)
  BY ChargedOperates DEF SameRecord
<1>2. ASSUME NEW point PROVE Operates(c, Charged1(c, valid, [c EXCEPT !.pointer = point]).to)
  <2> DEFINE after == [c EXCEPT !.pointer = point]
  <2>1. DOMAIN after = DOMAIN FirstComputer /\ after.used = c.used /\ SameRecord(c, after)
    BY DEF FirstComputer, SameRecord
  <2> HIDE DEF after
  <2>2. Operates(c, Charged1(c, valid, after).to)
    BY <2>1, ChargedOperates
  <2> QED BY <2>2 DEF after
<1>3. ASSUME NEW text PROVE Operates(c, Charged1(c, valid, [c EXCEPT !.clip = text]).to)
  <2> DEFINE after == [c EXCEPT !.clip = text]
  <2>1. DOMAIN after = DOMAIN FirstComputer /\ after.used = c.used /\ SameRecord(c, after)
    BY DEF FirstComputer, SameRecord
  <2> HIDE DEF after
  <2>2. Operates(c, Charged1(c, valid, after).to)
    BY <2>1, ChargedOperates
  <2> QED BY <2>2 DEF after
<1>4. ASSUME NEW handle PROVE Operates(c, Charged1(c, valid, Focused(c, handle)).to)
  <2>1. /\ DOMAIN Focused(c, handle) = DOMAIN FirstComputer
        /\ Focused(c, handle).used = c.used /\ SameRecord(c, Focused(c, handle))
    BY DEF FirstComputer, SameRecord, Focused
  <2> QED BY <2>1, ChargedOperates
<1> QED BY <1>1, <1>2, <1>3, <1>4

LEMMA TypeOperates ==
  ASSUME NEW c, NEW text, NEW ticket, DOMAIN c = DOMAIN FirstComputer, c.used \in Nat
  PROVE  Operates(c, KeyboardType(c, text, ticket).to)
<1> DEFINE grown == [c EXCEPT !.typed = Recorded(@, Typing(c, text), ticket),
                              !.inputs = Append(@, Typing(c, text))]
           after == IF KnownTyping(c, text, ticket) THEN c ELSE grown
<1>1. DOMAIN after = DOMAIN FirstComputer /\ after.used = c.used
  BY DEF FirstComputer
<1>2. SameRecord(c, after) \/ TypesIn(c, after)
  <2>1. CASE KnownTyping(c, text, ticket)
    BY <2>1 DEF SameRecord
  <2>2. CASE ~KnownTyping(c, text, ticket)
    <3>1. /\ after.typed = Recorded(c.typed, Typing(c, text), ticket)
          /\ after.launched = c.launched
          /\ after.inputs = Append(c.inputs, Typing(c, text))
      BY <2>2 DEF FirstComputer
    <3>2. Typing(c, text) \notin c.typed
      BY <2>2 DEF KnownTyping
    <3> HIDE DEF after
    <3> QED BY <3>1, <3>2 DEF TypesIn
  <2> QED BY <2>1, <2>2
<1>3. KeyboardType(c, text, ticket) = Charged1(c, TypedTextValid(text), after)
  BY DEF KeyboardType
<1>4. TypedTextValid(text) \in BOOLEAN
  BY DEF TypedTextValid
<1> HIDE DEF after
<1> QED BY <1>1, <1>2, <1>3, <1>4, ChargedOperates

LEMMA LaunchOperates ==
  ASSUME NEW c, NEW program, NEW ticket, DOMAIN c = DOMAIN FirstComputer, c.used \in Nat
  PROVE  Operates(c, AppLaunch(c, program, ticket).to)
<1> DEFINE s == Started(c, program)
           grown == [s EXCEPT !.launched = Recorded(@, Launch(program), ticket),
                              !.inputs = Append(@, Launch(program))]
           after == IF KnownLaunch(c, program, ticket) THEN c ELSE grown
<1>0. /\ DOMAIN s = DOMAIN FirstComputer /\ s.used = c.used /\ SameRecord(c, s)
  BY DEF Started, FirstComputer, SameRecord
<1> HIDE DEF s
<1>1. DOMAIN after = DOMAIN FirstComputer /\ after.used = c.used
  BY <1>0 DEF FirstComputer
<1>2. SameRecord(c, after) \/ Launches(c, after)
  <2>1. CASE KnownLaunch(c, program, ticket)
    BY <2>1 DEF SameRecord
  <2>2. CASE ~KnownLaunch(c, program, ticket)
    <3>1. /\ after.launched = Recorded(c.launched, Launch(program), ticket)
          /\ after.typed = c.typed
          /\ after.inputs = Append(c.inputs, Launch(program))
      BY <1>0, <2>2 DEF FirstComputer, SameRecord
    <3>2. Launch(program) \notin c.launched
      BY <2>2 DEF KnownLaunch
    <3> HIDE DEF after
    <3> QED BY <3>1, <3>2 DEF Launches
  <2> QED BY <2>1, <2>2
<1>3. AppLaunch(c, program, ticket) = Charged1(c, LaunchValid(program), after)
  BY DEF AppLaunch, s
<1>4. LaunchValid(program) \in BOOLEAN
  BY DEF LaunchValid
<1> HIDE DEF after
<1> QED BY <1>1, <1>2, <1>3, <1>4, ChargedOperates

\* Every other operation leaves the record alone.
LEMMA OthersOperate ==
  ASSUME NEW c, DOMAIN c = DOMAIN FirstComputer, c.used \in Nat
  PROVE  /\ Operates(c, WindowQuery(c).to) /\ Operates(c, ClipboardRead(c).to)
         /\ Operates(c, ComputerWait(c).to)
         /\ \A handle : Operates(c, WindowFocus(c, handle).to)
         /\ \A text : Operates(c, ClipboardWrite(c, text).to)
         /\ \A keys : /\ Operates(c, KeyboardPress(c, keys).to)
                      /\ Operates(c, KeyboardHotkey(c, keys).to)
         /\ \A point, button : Operates(c, MouseClick(c, point, button).to)
         /\ \A point, size : Operates(c, ScreenCapture(c, point, size).to)
         /\ \A point : Operates(c, MouseMove(c, point).to)
         /\ \A point, amount : Operates(c, MouseScroll(c, point, amount).to)
         /\ \A path, button, keys : Operates(c, MouseDrag(c, path, button, keys).to)
<1>1. /\ Operates(c, WindowQuery(c).to) /\ Operates(c, ClipboardRead(c).to)
      /\ Operates(c, ComputerWait(c).to)
      /\ \A handle : Operates(c, WindowFocus(c, handle).to)
  <2>1. TRUE \in BOOLEAN
    OBVIOUS
  <2> QED BY <2>1, PlainOperates DEF WindowQuery, ClipboardRead, ComputerWait, WindowFocus
<1>2. \A text : Operates(c, ClipboardWrite(c, text).to)
  <2>1. \A text : ClipboardTextValid(text) \in BOOLEAN
    BY DEF ClipboardTextValid
  <2> QED BY <2>1, PlainOperates DEF ClipboardWrite
<1>3. \A keys : Operates(c, KeyboardPress(c, keys).to)
  <2>1. \A keys : PressValid(keys) \in BOOLEAN
    BY Zenon DEF PressValid
  <2> QED BY <2>1, PlainOperates DEF KeyboardPress
<1>4. \A keys : Operates(c, KeyboardHotkey(c, keys).to)
  <2>1. \A keys : HotkeyValid(keys) \in BOOLEAN
    BY Zenon DEF HotkeyValid
  <2> QED BY <2>1, PlainOperates DEF KeyboardHotkey
<1>5. \A point, button : Operates(c, MouseClick(c, point, button).to)
  <2>1. \A point, button : ClickValid(point, button) \in BOOLEAN
    BY Zenon DEF ClickValid
  <2> QED BY <2>1, PlainOperates DEF MouseClick
<1>6. \A point, size : Operates(c, ScreenCapture(c, point, size).to)
  <2>1. \A point, size : RegionValid(point, size) \in BOOLEAN
    BY Zenon DEF RegionValid
  <2> QED BY <2>1, PlainOperates DEF ScreenCapture
<1>7. \A point : Operates(c, MouseMove(c, point).to)
  <2>1. \A point : OnScreen(point) \in BOOLEAN
    BY Zenon DEF OnScreen
  <2> QED BY <2>1, PlainOperates DEF MouseMove
<1>8. \A point, amount : Operates(c, MouseScroll(c, point, amount).to)
  <2>1. \A point, amount : (OnScreen(point) /\ ScrollValid(amount)) \in BOOLEAN
    BY Zenon
  <2> QED BY <2>1, PlainOperates DEF MouseScroll
<1>9. \A path, button, keys : Operates(c, MouseDrag(c, path, button, keys).to)
  <2> TAKE path, button, keys
  <2> DEFINE valid == /\ DragValid(path) /\ button \in {"left", "right", "middle"}
                      /\ keys # {} => PressValid(keys)
             point == path[Len(path)]
  <2>1. valid \in BOOLEAN
    BY Zenon
  <2>2. MouseDrag(c, path, button, keys) = Charged1(c, valid, [c EXCEPT !.pointer = point])
    BY DEF MouseDrag
  <2> HIDE DEF valid, point
  <2> QED BY <2>1, <2>2, PlainOperates
<1> QED BY <1>1, <1>2, <1>3, <1>4, <1>5, <1>6, <1>7, <1>8, <1>9

\* An action of the model is one operation of the connector, or none.
LEMMA ActionOperates ==
  ASSUME NEW c, NEW action, NEW approved, DOMAIN c = DOMAIN FirstComputer, c.used \in Nat
  PROVE  Operates(c, CuaAction(c, action, approved).to)
<1> DEFINE to == CuaAction(c, action, approved).to
<1>1. \/ to = c \/ to = WindowQuery(c).to \/ to = MouseClick(c, action.at, "left").to
      \/ to = MouseMove(c, action.at).to \/ to = MouseScroll(c, action.at, 1).to
      \/ to = MouseDrag(c, <<c.pointer, action.at>>, "left", {}).to
      \/ to = KeyboardType(c, action.text, "none").to
      \/ to = KeyboardPress(c, action.keys).to \/ to = ComputerWait(c).to
  BY Zenon DEF CuaAction
<1>2. Operates(c, c)
  BY DEF Operates
<1> HIDE DEF to
<1>3. Operates(c, to)
  BY <1>1, <1>2, OthersOperate, TypeOperates
<1> QED BY <1>3 DEF to

\* So is an operation called directly.
LEMMA DirectOperates ==
  ASSUME DesktopInv, DirectOperation PROVE Operates(computer, computer')
<1> DEFINE c == computer
<1>1. DOMAIN c = DOMAIN FirstComputer /\ c.used \in Nat
  BY DEF DesktopInv
<1>2. \/ c' = WindowQuery(c).to \/ c' = ClipboardRead(c).to
      \/ \E h : c' = WindowFocus(c, h).to
      \/ \E t : c' = ClipboardWrite(c, t).to
      \/ \E k : c' = KeyboardPress(c, k).to \/ c' = KeyboardHotkey(c, k).to
      \/ \E p, q : c' = ScreenCapture(c, p, q).to
      \/ \E p : c' = MouseMove(c, p).to
      \/ \E p, a : c' = MouseScroll(c, p, a).to
      \/ \E p, b : c' = MouseClick(c, p, b).to
      \/ \E p, b, k : c' = MouseDrag(c, p, b, k).to
      \/ \E t, k : c' = KeyboardType(c, t, k).to
      \/ \E p, k : c' = AppLaunch(c, p, k).to
  BY Zenon DEF DirectOperation
<1> HIDE DEF c
<1>3. Operates(c, c')
  BY <1>1, <1>2, OthersOperate, TypeOperates, LaunchOperates
<1> QED BY <1>3 DEF c

\* What is launched or typed joins the record, and was not on it.
LEMMA RecordingWorks ==
  ASSUME DesktopInv, computer.used < ActionLimit, computer'.used = computer.used + 1,
         NEW key, key \notin Keyed,
         computer'.inputs = Append(computer.inputs, key), Keyed' = Keyed \cup {key}
  PROVE  ComputerGuarded!Work /\ Listed(computer.inputs)'
<1>1. Listed(computer.inputs)
  BY DEF DesktopInv
<1>2. Extends(computer.inputs, key, computer'.inputs)
  BY <1>1, Appending
<1>3. ComputerGuarded!MayPerform
  BY <1>2, NewEntry DEF ComputerGuarded!MayPerform, ComputerGuarded!PerformedKeys
<1>4. ActionLimit \in Nat /\ computer.used \in Nat
  BY ComputerAssumption DEF DesktopInv
<1>5. Listed(computer.inputs)'
  BY <1>2 DEF Extends
<1> QED BY <1>3, <1>4, <1>5 DEF ComputerGuarded!Work

LEMMA OperatesGuarded ==
  ASSUME DesktopInv, Operates(computer, computer')
  PROVE  DesktopInv' /\ [ComputerGuarded!GuardNext]_(ComputerGuarded!guardVars)
<1> USE DEF ComputerGuarded!GuardNext, ComputerGuarded!guardVars
<1>1. CASE computer' = computer
  <2>1. UNCHANGED Keyed /\ Listed(computer.inputs)'
    BY <1>1 DEF DesktopInv, Keyed
  <2> QED BY <1>1, <2>1 DEF DesktopInv
<1>2. CASE /\ computer.used < ActionLimit /\ computer'.used = computer.used + 1
           /\ DOMAIN computer' = DOMAIN FirstComputer
           /\ \/ SameRecord(computer, computer') \/ Launches(computer, computer')
              \/ TypesIn(computer, computer')
  <2>0. computer.used \in Nat /\ ActionLimit \in Nat /\ computer'.used \in Nat
        /\ computer'.used <= ActionLimit
    BY <1>2, ComputerAssumption DEF DesktopInv
  <2>1. CASE SameRecord(computer, computer')
    <3>1. Listed(computer.inputs)' /\ Keyed' = Keyed
      BY <2>1 DEF DesktopInv, SameRecord, Keyed
    <3> QED BY <1>2, <2>0, <2>1, <3>1
      DEF DesktopInv, SameRecord, ComputerGuarded!Work, ComputerGuarded!MayPerform
  <2>2. CASE Launches(computer, computer')
    <3>1. PICK program, ticket :
            /\ Launch(program) \notin computer.launched
            /\ computer'.launched = Recorded(computer.launched, Launch(program), ticket)
            /\ computer'.typed = computer.typed
            /\ computer'.inputs = Append(computer.inputs, Launch(program))
      BY <2>2 DEF Launches
    <3>2. Launch(program).op = "launch" /\ Ticket(ticket).op = "ticket"
      BY DEF Launch, Ticket
    <3>3. /\ computer'.launched \subseteq computer.launched \cup {Launch(program), Ticket(ticket)}
          /\ computer.launched \cup {Launch(program)} \subseteq computer'.launched
      BY <3>1 DEF Recorded
    <3>4. Launch(program) \notin Keyed /\ Keyed' = Keyed \cup {Launch(program)}
      BY <3>1, <3>2, <3>3 DEF Keyed, DesktopInv
    <3>5. ComputerGuarded!Work /\ Listed(computer.inputs)'
      BY <1>2, <3>1, <3>2, <3>4, RecordingWorks
    <3> QED BY <1>2, <2>0, <3>1, <3>2, <3>3, <3>5 DEF DesktopInv
  <2>3. CASE TypesIn(computer, computer')
    <3>1. PICK text, ticket :
            /\ Typing(computer, text) \notin computer.typed
            /\ computer'.typed = Recorded(computer.typed, Typing(computer, text), ticket)
            /\ computer'.launched = computer.launched
            /\ computer'.inputs = Append(computer.inputs, Typing(computer, text))
      BY <2>3 DEF TypesIn
    <3> DEFINE key == Typing(computer, text)
    <3>2. key.op = "type" /\ Ticket(ticket).op = "ticket"
      BY DEF Typing, Ticket
    <3> HIDE DEF key
    <3>3. /\ computer'.typed \subseteq computer.typed \cup {key, Ticket(ticket)}
          /\ computer.typed \cup {key} \subseteq computer'.typed
      BY <3>1 DEF Recorded, key
    <3>4. key \notin Keyed /\ Keyed' = Keyed \cup {key}
      BY <3>1, <3>2, <3>3 DEF Keyed, DesktopInv, key
    <3>5. ComputerGuarded!Work /\ Listed(computer.inputs)'
      BY <1>2, <3>1, <3>2, <3>4, RecordingWorks DEF key
    <3> QED BY <1>2, <2>0, <3>1, <3>2, <3>3, <3>5 DEF DesktopInv
  <2> QED BY <1>2, <2>1, <2>2, <2>3
<1> QED BY <1>1, <1>2 DEF Operates

LEMMA ComputerStep ==
  ASSUME DesktopInv, [ComputerNext]_computerVars
  PROVE  DesktopInv' /\ [ComputerGuarded!GuardNext]_(ComputerGuarded!guardVars)
<1>1. CASE Operates(computer, computer')
  BY <1>1, OperatesGuarded
<1>2. CASE UserActs
  <2>1. /\ DOMAIN computer' = DOMAIN FirstComputer /\ computer'.used = computer.used
        /\ SameRecord(computer, computer')
    <3>1. ASSUME NEW w, computer' = [computer EXCEPT !.windows = w]
          PROVE  /\ DOMAIN computer' = DOMAIN FirstComputer /\ computer'.used = computer.used
                 /\ SameRecord(computer, computer')
      BY <3>1 DEF DesktopInv, FirstComputer, SameRecord
    <3>2. ASSUME NEW handle, computer' = Focused(computer, handle)
          PROVE  /\ DOMAIN computer' = DOMAIN FirstComputer /\ computer'.used = computer.used
                 /\ SameRecord(computer, computer')
      BY <3>2 DEF DesktopInv, FirstComputer, SameRecord, Focused
    <3>3. ASSUME NEW program, computer' = Started(computer, program)
          PROVE  /\ DOMAIN computer' = DOMAIN FirstComputer /\ computer'.used = computer.used
                 /\ SameRecord(computer, computer')
      BY <3>3 DEF DesktopInv, FirstComputer, SameRecord, Started
    <3> QED BY <1>2, <3>1, <3>2, <3>3, Zenon DEF UserActs
  <2>2. UNCHANGED Keyed /\ Listed(computer.inputs)'
    BY <2>1 DEF DesktopInv, SameRecord, Keyed
  <2> QED BY <2>1, <2>2 DEF DesktopInv, SameRecord, ComputerGuarded!guardVars
<1>3. ASSUME computer' = computer PROVE Operates(computer, computer')
  BY <1>3 DEF Operates
<1>4. ASSUME NEW approved \in BOOLEAN,
             RunStart(approved) \/ PostFails(approved) \/ PostVerified(approved)
      PROVE  computer' = computer
  BY <1>4, Zenon DEF RunStart, PostFails, PostVerified
<1>5. ASSUME NEW reply \in Replies, PostReplied(reply)
      PROVE  computer' = computer
  BY <1>5, Zenon DEF PostReplied
<1>6. ASSUME CallRefused \/ UNCHANGED computerVars
      PROVE  computer' = computer
  BY <1>6, Zenon DEF CallRefused, computerVars
<1>7. CASE RunAct
  <2>1. \E action, approved : computer' = CuaAction(computer, action, approved).to
    BY <1>7, Zenon DEF RunAct
  <2>2. Operates(computer, computer')
    BY <2>1, ActionOperates DEF DesktopInv
  <2> QED BY <2>2, <1>1
<1>8. CASE RunScreenshot
  <2>1. computer' = WindowQuery(computer).to
    BY <1>8, Zenon DEF RunScreenshot
  <2>2. Operates(computer, computer')
    BY <2>1, OthersOperate DEF DesktopInv
  <2> QED BY <2>2, <1>1
<1>9. CASE DirectOperation
  BY <1>9, DirectOperates, <1>1
<1> QED
  BY <1>1, <1>2, <1>3, <1>4, <1>5, <1>6, <1>7, <1>8, <1>9, Zenon DEF ComputerNext

LEMMA DesktopStarts == ComputerInit => DesktopInv /\ ComputerGuarded!GuardInit
<1> SUFFICES ASSUME ComputerInit PROVE DesktopInv /\ ComputerGuarded!GuardInit
  OBVIOUS
<1>1. /\ DOMAIN computer = DOMAIN FirstComputer /\ computer.used = 0
      /\ computer.inputs = <<>> /\ computer.launched = {} /\ computer.typed = {}
  BY DEF ComputerInit, FirstComputer
<1>2. Keyed = {}
  BY <1>1 DEF Keyed
<1> QED BY <1>1, <1>2, EmptyListed, ComputerAssumption
    DEF DesktopInv, ComputerGuarded!GuardInit

\* The desktop connector keeps the promise, whether it is called directly or by
\* the model's controller, and whatever the user does to the desktop meanwhile:
\* a program on record is not launched again, and a text on record for a window
\* not typed into it again.
THEOREM DesktopIsGuarded == ComputerSpec => ComputerGuarded!GuardSpec
  BY DesktopStarts, ComputerStep, PTL DEF ComputerSpec, ComputerGuarded!GuardSpec

-----------------------------------------------------------------------------
(* The browser.                                                            *)

Used == IF session = NoSession THEN 0 ELSE session.used
Limit == IF session = NoSession THEN DefaultBudget ELSE session.limit
ClickKeys == [i \in DOMAIN clicks |-> clicks[i].key]

BrowserGuarded == INSTANCE GuardedSession WITH
    life <- opened, used <- Used, limit <- Limit,
    done <- completed, performed <- ClickKeys

SessionFields == DOMAIN NewSession({}, 0, 0)

\* The session, if there is one, is within its budget.
BrowserInv ==
    /\ \/ session = NoSession
       \/ /\ DOMAIN session = SessionFields /\ session.state \in {"open", "closed", "suspended"}
          /\ session.used \in Nat /\ session.limit \in Nat /\ session.used <= session.limit
    /\ opened \in Nat /\ saved \subseteq completed /\ Listed(clicks)

\* What the operations leave of the session they are charged to.
SameBudget(s, t) == /\ DOMAIN t = SessionFields /\ t.state = s.state
                    /\ t.used = s.used /\ t.limit = s.limit /\ t.redirects = s.redirects

LEMMA BudgetStays ==
  ASSUME NEW s, DOMAIN s = SessionFields
  PROVE  /\ SameBudget(s, s) /\ SameBudget(s, Reloaded(s))
         /\ \A record : /\ SameBudget(s, Noted(s, record))
                        /\ SameBudget(s, Reloaded(Noted(s, record)))
         /\ \A step : SameBudget(s, Moved(s, step))
<1>1. SameBudget(s, s) /\ SameBudget(s, Reloaded(s))
  BY DEF SameBudget, Reloaded, SessionFields, NewSession
<1>2. ASSUME NEW kept, NEW index
      PROVE  /\ SameBudget(s, [s EXCEPT !.history = kept, !.index = index, !.epoch = @ + 1])
             /\ SameBudget(s, [[s EXCEPT !.history = kept, !.index = index, !.epoch = @ + 1]
                                 EXCEPT !.epoch = @ + 1])
  BY DEF SameBudget, SessionFields, NewSession
<1>3. ASSUME NEW record
      PROVE  SameBudget(s, Noted(s, record)) /\ SameBudget(s, Reloaded(Noted(s, record)))
  BY <1>2 DEF Noted, Reloaded
<1>4. ASSUME NEW step
      PROVE  SameBudget(s, Moved(s, step))
  BY DEF SameBudget, Moved, SessionFields, NewSession
<1> QED BY <1>1, <1>3, <1>4

\* The keys of a list of mutations.
KeysOf(s) == [i \in DOMAIN s |-> s[i].key]

LEMMA KeysExtend ==
  \A s, record, t : Listed(s) /\ t = Append(s, record)
                      => Listed(t) /\ Extends(KeysOf(s), record.key, KeysOf(t))
<1> SUFFICES ASSUME NEW s, NEW record, NEW t, Listed(s), t = Append(s, record)
             PROVE  Listed(t) /\ Extends(KeysOf(s), record.key, KeysOf(t))
  OBVIOUS
<1>1. /\ Listed(t) /\ Len(s) \in Nat /\ DOMAIN s = 1 .. Len(s)
      /\ DOMAIN t = 1 .. (Len(s) + 1) /\ t[Len(s) + 1] = record
      /\ \A i \in 1 .. Len(s) : t[i] = s[i]
  <2>1. Extends(s, record, t)
    BY Appending
  <2> QED BY <2>1 DEF Extends
<1> DEFINE K == {t[i].key : i \in DOMAIN t}
<1>2. KeysOf(s) \in Seq(K) /\ KeysOf(t) \in Seq(K) /\ record.key \in K
  BY <1>1 DEF KeysOf
<1>3. /\ Len(KeysOf(s)) = Len(s) /\ Len(KeysOf(t)) = Len(s) + 1
      /\ \A i \in 1 .. Len(s) : KeysOf(t)[i] = KeysOf(s)[i]
      /\ KeysOf(t)[Len(s) + 1] = record.key
      /\ DOMAIN KeysOf(s) = 1 .. Len(s)
  BY <1>1, <1>2 DEF KeysOf
<1> HIDE DEF K
<1>4. KeysOf(t) = Append(KeysOf(s), record.key)
  BY <1>1, <1>2, <1>3
<1>5. Listed(KeysOf(s))
  <2>1. PICK k : k = KeysOf(s)
    OBVIOUS
  <2>2. k \in Seq({k[i] : i \in DOMAIN k})
    BY <1>1, <1>2, <2>1
  <2> QED BY <2>1, <2>2 DEF Listed
<1> QED BY <1>1, <1>4, <1>5, Appending

\* An operation performs one mutation that is not on record, or none.
BrowserPerforms ==
    \/ UNCHANGED <<completed, clicks>>
    \/ \E key, b : /\ key \notin completed /\ clicks' = Performed(key, b)
                   /\ completed' \in {completed, completed \cup {key}}

LEMMA BrowserMayPerform ==
  ASSUME Listed(clicks), BrowserPerforms
  PROVE  BrowserGuarded!MayPerform /\ Listed(clicks)' /\ completed \subseteq completed'
<1>1. CASE UNCHANGED <<completed, clicks>>
  <2>1. ClickKeys' = ClickKeys /\ Listed(clicks)'
    BY <1>1 DEF ClickKeys
  <2> QED BY <1>1, <2>1 DEF BrowserGuarded!MayPerform
<1>2. ASSUME NEW key, NEW b, key \notin completed, clicks' = Performed(key, b),
             completed' \in {completed, completed \cup {key}}
      PROVE  BrowserGuarded!MayPerform /\ Listed(clicks)' /\ completed \subseteq completed'
  <2> DEFINE record == [key |-> key, on |-> SitePage(b), refused |-> b.refused]
  <2>1. clicks' = Append(clicks, record) /\ record.key = key
    BY <1>2 DEF Performed
  <2> HIDE DEF record
  <2>2. Listed(clicks') /\ Extends(KeysOf(clicks), record.key, KeysOf(clicks'))
    BY <2>1, KeysExtend
  <2>3. Extends(ClickKeys, key, ClickKeys')
    BY <2>1, <2>2 DEF KeysOf, ClickKeys
  <2>4. BrowserGuarded!MayPerform
    BY <1>2, <2>3, NewEntry DEF BrowserGuarded!MayPerform, BrowserGuarded!PerformedKeys
  <2>5. Listed(clicks)'
    BY <2>2
  <2> QED BY <1>2, <2>4, <2>5
<1> QED BY <1>1, <1>2 DEF BrowserPerforms

\* The session an operation is charged to: the open one, or one it opens.
LEMMA ChargedSession ==
  ASSUME BrowserInv, NEW s \in Charged
  PROVE  /\ DOMAIN s = SessionFields /\ s.state = "open"
         /\ \/ /\ session.state = "open" /\ session # NoSession /\ s.used = session.used + 1
               /\ s.limit = session.limit /\ session.used < session.limit
               /\ s.redirects = session.redirects
            \/ /\ session.state # "open" /\ s.used = 1 /\ s.limit = DefaultBudget
               /\ 0 < DefaultBudget /\ s.redirects = DefaultRedirects
<1>1. PICK t \in Ensured : t.used < t.limit /\ s = [t EXCEPT !.used = @ + 1]
  BY Zenon DEF Charged
<1>2. CASE session.state = "open"
  <2>1. t = session /\ session # NoSession
    BY <1>1, <1>2 DEF Ensured, NoSession
  <2> QED BY <1>1, <1>2, <2>1 DEF BrowserInv, SessionFields, NewSession
<1>3. CASE session.state # "open"
  <2>1. t = NewSession(BaseHosts, DefaultBudget, DefaultRedirects)
    BY <1>1, <1>3 DEF Ensured
  <2> QED BY <1>1, <1>3, <2>1 DEF NewSession, SessionFields
<1> QED BY <1>2, <1>3

LEMMA ChargeKeeps ==
  ASSUME BrowserInv, NEW s \in Charged, NEW t, SameBudget(s, t), Charge(t),
         BrowserPerforms, saved' = saved
  PROVE  BrowserInv' /\ [BrowserGuarded!GuardNext]_(BrowserGuarded!guardVars)
<1>1. /\ DOMAIN t = SessionFields /\ t.state = "open" /\ session' = t
      /\ \/ /\ session.state = "open" /\ session # NoSession /\ t.used = session.used + 1
            /\ t.limit = session.limit /\ session.used < session.limit /\ opened' = opened
         \/ /\ session.state # "open" /\ t.used = 1 /\ t.limit = DefaultBudget
            /\ 0 < DefaultBudget /\ opened' = opened + 1
  BY ChargedSession DEF SameBudget, Charge
<1>2. /\ session' # NoSession /\ Used' = t.used /\ Limit' = t.limit
  BY <1>1 DEF NoSession, Used, Limit
<1>3. BrowserGuarded!MayPerform /\ Listed(clicks)' /\ completed \subseteq completed'
  BY BrowserMayPerform DEF BrowserInv
<1>4. saved' \subseteq completed' /\ opened \in Nat /\ DefaultBudget \in Nat
  BY <1>3, BrowserAssumption DEF BrowserInv
<1>5. CASE /\ session.state = "open" /\ session # NoSession /\ t.used = session.used + 1
           /\ t.limit = session.limit /\ session.used < session.limit /\ opened' = opened
  <2>1. session.used \in Nat /\ session.limit \in Nat /\ Used = session.used
        /\ Limit = session.limit
    BY <1>5 DEF BrowserInv, Used, Limit
  <2>2. BrowserGuarded!Work
    BY <1>2, <1>3, <1>5, <2>1 DEF BrowserGuarded!Work
  <2>3. BrowserInv'
    BY <1>1, <1>3, <1>4, <1>5, <2>1 DEF BrowserInv
  <2> QED BY <2>2, <2>3 DEF BrowserGuarded!GuardNext
<1>6. CASE /\ session.state # "open" /\ t.used = 1 /\ t.limit = DefaultBudget
           /\ 0 < DefaultBudget /\ opened' = opened + 1
  <2>1. BrowserGuarded!Renew
    BY <1>2, <1>3, <1>4, <1>6 DEF BrowserGuarded!Renew
  <2>2. BrowserInv'
    BY <1>1, <1>3, <1>4, <1>6 DEF BrowserInv
  <2> QED BY <2>1, <2>2 DEF BrowserGuarded!GuardNext
<1> QED BY <1>1, <1>5, <1>6

\* One charged operation.
Operation == /\ \E s \in Charged : \E t : SameBudget(s, t) /\ Charge(t)
             /\ BrowserPerforms /\ saved' = saved

LEMMA FieldsOfCharged ==
  ASSUME BrowserInv, NEW s \in Charged
  PROVE  /\ SameBudget(s, s) /\ SameBudget(s, Reloaded(s))
         /\ \A record : /\ SameBudget(s, Noted(s, record))
                        /\ SameBudget(s, Reloaded(Noted(s, record)))
         /\ \A step : SameBudget(s, Moved(s, step))
  BY ChargedSession, BudgetStays

LEMMA Navigations ==
  ASSUME BrowserInv
  PROVE  /\ \A u : BrowserNavigate(u) => Operation
         /\ \A step : BrowserMove(step) => Operation
         /\ (BrowserReload => Operation) /\ (BrowserObserve => Operation)
         /\ (BrowserFind => Operation)
<1>1. ASSUME NEW u, BrowserNavigate(u) PROVE Operation
  <2>1. PICK s \in Charged :
          /\ UNCHANGED <<completed, clicks, saved>>
          /\ Charge(s) \/ \E record : Charge(Noted(s, record))
    BY <1>1, Zenon DEF BrowserNavigate
  <2> QED BY <2>1, FieldsOfCharged DEF Operation, BrowserPerforms
<1>2. ASSUME NEW step, BrowserMove(step) PROVE Operation
  <2>1. PICK s \in Charged : /\ UNCHANGED <<completed, clicks, saved>>
                             /\ Charge(s) \/ Charge(Moved(s, step))
    BY <1>2, Zenon DEF BrowserMove
  <2> QED BY <2>1, FieldsOfCharged DEF Operation, BrowserPerforms
<1>3. ASSUME BrowserReload PROVE Operation
  <2>1. PICK s \in Charged : /\ UNCHANGED <<completed, clicks, saved>>
                             /\ Charge(s) \/ Charge(Reloaded(s))
    BY <1>3, Zenon DEF BrowserReload
  <2> QED BY <2>1, FieldsOfCharged DEF Operation, BrowserPerforms
<1>4. ASSUME BrowserObserve \/ BrowserFind PROVE Operation
  <2>1. PICK s \in Charged : UNCHANGED <<completed, clicks, saved>> /\ Charge(s)
    BY <1>4, Zenon DEF BrowserObserve, BrowserFind
  <2> QED BY <2>1, FieldsOfCharged DEF Operation, BrowserPerforms
<1> QED BY <1>1, <1>2, <1>3, <1>4

LEMMA Mutations ==
  ASSUME BrowserInv
  PROVE  /\ \A target, approved : BrowserClick(target, approved) => Operation
         /\ \A op, target, text, allowed, approved :
                Fill(op, target, text, allowed, approved) => Operation
         /\ \A u : BrowserDownload(u) => Operation
<1>1. ASSUME NEW target, NEW approved, BrowserClick(target, approved) PROVE Operation
  <2> DEFINE key == MutationKey("click", target, "none")
  <2>1. PICK s \in Charged :
          /\ saved' = saved
          /\ \/ Charge(s) \/ Charge(Reloaded(s))
             \/ \E record : Charge(Reloaded(Noted(s, record)))
          /\ \/ UNCHANGED <<completed, clicks>>
             \/ /\ Permitted(target, approved, key) /\ clicks' = Performed(key, site)
                /\ completed' = completed \/ completed' = completed \cup {key}
    BY <1>1, Zenon DEF BrowserClick, Refuse
  <2> HIDE DEF key
  <2>2. BrowserPerforms
    BY <2>1 DEF BrowserPerforms, Permitted
  <2> QED BY <2>1, <2>2, FieldsOfCharged DEF Operation
<1>2. ASSUME NEW op, NEW target, NEW text, NEW allowed, NEW approved,
             Fill(op, target, text, allowed, approved)
      PROVE  Operation
  <2> DEFINE key == MutationKey(op, target, text)
  <2>1. PICK s \in Charged :
          /\ saved' = saved
          /\ Charge(s) \/ Charge(Reloaded(s))
          /\ \/ UNCHANGED <<completed, clicks>>
             \/ /\ Permitted(target, approved, key) /\ clicks' = Performed(key, site)
                /\ completed' = completed \cup {key}
    BY <1>2, Zenon DEF Fill, Refuse
  <2> HIDE DEF key
  <2>2. BrowserPerforms
    BY <2>1 DEF BrowserPerforms, Permitted
  <2> QED BY <2>1, <2>2, FieldsOfCharged DEF Operation
<1>3. ASSUME NEW u, BrowserDownload(u) PROVE Operation
  <2> DEFINE key == [op |-> "download", url |-> u, target |-> NoTarget, text |-> "none"]
  <2>1. PICK s \in Charged :
          /\ saved' = saved /\ Charge(s)
          /\ \/ UNCHANGED <<completed, clicks>>
             \/ /\ key \notin completed /\ clicks' = Performed(key, site)
                /\ completed' = completed \cup {key}
    BY <1>3, Zenon DEF BrowserDownload
  <2> HIDE DEF key
  <2>2. BrowserPerforms
    BY <2>1 DEF BrowserPerforms
  <2> QED BY <2>1, <2>2, FieldsOfCharged DEF Operation
<1> QED BY <1>1, <1>2, <1>3

LEMMA BrowserStep ==
  ASSUME BrowserInv, [BrowserNext]_browserVars
  PROVE  BrowserInv' /\ [BrowserGuarded!GuardNext]_(BrowserGuarded!guardVars)
<1>0. CASE UNCHANGED browserVars
  <2>1. UNCHANGED <<opened, Used, Limit, completed, ClickKeys>> /\ Listed(clicks)'
    BY <1>0 DEF browserVars, Used, Limit, ClickKeys, BrowserInv
  <2> QED BY <1>0, <2>1 DEF browserVars, BrowserInv, BrowserGuarded!guardVars
<1>1. CASE Operation
  BY <1>1, ChargeKeeps DEF Operation
<1>2. ASSUME NEW hosts, NEW budget \in Budgets, NEW r, SessionOpen(hosts, budget, r)
      PROVE  BrowserInv' /\ [BrowserGuarded!GuardNext]_(BrowserGuarded!guardVars)
  <2>1. /\ session' = NewSession(hosts, budget, r) /\ opened' = opened + 1
        /\ UNCHANGED <<completed, clicks, saved>> /\ budget \in Nat
    BY <1>2, BrowserAssumption DEF SessionOpen
  <2>2. /\ DOMAIN session' = SessionFields /\ session'.state = "open" /\ session'.used = 0
        /\ session'.limit = budget
    BY <2>1 DEF NewSession, SessionFields
  <2>3. session' # NoSession /\ Used' = 0 /\ Limit' = budget
    BY <2>2 DEF NoSession, Used, Limit
  <2>4. ClickKeys' = ClickKeys /\ Listed(clicks)' /\ opened \in Nat
    BY <2>1 DEF ClickKeys, BrowserInv
  <2>5. BrowserGuarded!Renew
    BY <2>1, <2>3, <2>4 DEF BrowserGuarded!Renew, BrowserGuarded!MayPerform
  <2>6. BrowserInv'
    BY <2>1, <2>2, <2>4 DEF BrowserInv
  <2> QED BY <2>5, <2>6 DEF BrowserGuarded!GuardNext
<1>3. CASE SessionTurn
  <2>1. /\ UNCHANGED <<opened, completed, clicks, saved>>
        /\ session # NoSession
        /\ \E state \in {"open", "closed", "suspended"} : session' = [session EXCEPT !.state = state]
    BY <1>3 DEF SessionTurn, NoSession
  <2>2. /\ DOMAIN session' = SessionFields /\ session'.state \in {"open", "closed", "suspended"}
        /\ session'.used = session.used /\ session'.limit = session.limit
    BY <2>1 DEF BrowserInv, SessionFields, NewSession
  <2>3. session' # NoSession
    BY <2>2 DEF NoSession
  <2>4. UNCHANGED <<Used, Limit, ClickKeys>> /\ Listed(clicks)'
    BY <2>1, <2>2, <2>3 DEF Used, Limit, ClickKeys, BrowserInv
  <2> QED BY <2>1, <2>2, <2>3, <2>4 DEF BrowserInv, BrowserGuarded!guardVars
<1>4. CASE BrowserCheckpoint
  <2>1. UNCHANGED <<opened, session, completed, clicks>> /\ saved' = completed
    BY <1>4 DEF BrowserCheckpoint
  <2>2. UNCHANGED <<Used, Limit, ClickKeys>> /\ Listed(clicks)'
    BY <2>1 DEF Used, Limit, ClickKeys, BrowserInv
  <2> QED BY <2>1, <2>2 DEF BrowserInv, BrowserGuarded!guardVars
<1>5. CASE BrowserRestart
  <2>1. /\ opened' = opened + 1 /\ session' = NoSession /\ completed' = saved
        /\ clicks' = <<>> /\ saved' = saved /\ opened \in Nat
    BY <1>5 DEF BrowserRestart, BrowserInv
  <2>2. Used' = 0 /\ Limit' = DefaultBudget /\ ClickKeys' = <<>> /\ Listed(clicks)'
    BY <2>1, EmptyListed DEF Used, Limit, ClickKeys
  <2>3. BrowserGuarded!Resume
    BY <2>1, <2>2, BrowserAssumption DEF BrowserGuarded!Resume, BrowserInv
  <2> QED BY <2>1, <2>2, <2>3 DEF BrowserInv, BrowserGuarded!GuardNext
<1>6. ASSUME NEW target, NEW text, NEW approved,
             BrowserType(target, text, approved) \/ BrowserSelect(target, text, approved)
      PROVE  Operation
  BY <1>6, Mutations DEF BrowserType, BrowserSelect
<1>7. ASSUME NEW u, BrowserDownload(u) PROVE Operation
  BY <1>7, Mutations
<1>8. ASSUME NEW target, NEW approved, BrowserClick(target, approved) PROVE Operation
  BY <1>8, Mutations
<1>9. /\ \A u : BrowserNavigate(u) => Operation
      /\ \A step : BrowserMove(step) => Operation
      /\ (BrowserReload => Operation) /\ (BrowserObserve => Operation)
      /\ (BrowserFind => Operation)
  BY Navigations
<1>10. BrowserNext =>
         \/ \E hosts \in AllowLists, budget \in Budgets, r \in RedirectBounds :
                SessionOpen(hosts, budget, r)
         \/ SessionTurn \/ BrowserCheckpoint \/ BrowserRestart \/ Operation
  BY <1>6, <1>7, <1>8, <1>9, Zenon DEF BrowserNext
<1> QED BY <1>0, <1>1, <1>2, <1>3, <1>4, <1>5, <1>10, Zenon

LEMMA BrowserStarts == BrowserInit => BrowserInv /\ BrowserGuarded!GuardInit
<1> SUFFICES ASSUME BrowserInit PROVE BrowserInv /\ BrowserGuarded!GuardInit
  OBVIOUS
<1>1. Used = 0 /\ Limit = DefaultBudget /\ ClickKeys = <<>> /\ Listed(clicks)
  BY EmptyListed DEF BrowserInit, Used, Limit, ClickKeys
<1> QED BY <1>1, BrowserAssumption DEF BrowserInit, BrowserInv, BrowserGuarded!GuardInit

\* The browser connector keeps the promise, on every site: a mutation that is
\* on record is not performed again, whichever session the agent opens for it.
THEOREM BrowserIsGuarded == BrowserSpec => BrowserGuarded!GuardSpec
  BY BrowserStarts, BrowserStep, PTL DEF BrowserSpec, BrowserGuarded!GuardSpec

\* What the connector shows is the page the backend is on, unless the backend's
\* last landing was refused by the session.
ShowsTheSite == page = NoPage \/ page = SitePage(site) \/ site.refused

PageInv ==
    /\ BrowserInv /\ {"index", "epoch", "history", "refused"} \subseteq DOMAIN site
    /\ ShowsTheSite /\ ActsOnThePageItSaw

LEMMA CurrentIsTheSite == ShowsTheSite => CurrentPage = SitePage(site) \/ site.refused
  BY DEF ShowsTheSite, CurrentPage

\* A mutation hits the page its target is of, a refused one, or is a download.
Hits == \/ clicks' = clicks
        \/ \E key : /\ clicks' = Performed(key, site)
                    /\ \/ key.op = "download" \/ site.refused
                       \/ key.target.epoch = SitePage(site).epoch

LEMMA HitsKeep ==
  ASSUME Listed(clicks), ActsOnThePageItSaw, Hits PROVE ActsOnThePageItSaw'
<1>1. CASE clicks' = clicks
  BY <1>1 DEF ActsOnThePageItSaw
<1>2. ASSUME NEW key, clicks' = Performed(key, site),
             \/ key.op = "download" \/ site.refused
             \/ key.target.epoch = SitePage(site).epoch
      PROVE  ActsOnThePageItSaw'
  <2> DEFINE record == [key |-> key, on |-> SitePage(site), refused |-> site.refused]
  <2>1. /\ clicks' = Append(clicks, record) /\ record.key = key
        /\ record.on = SitePage(site) /\ record.refused = site.refused
    BY <1>2 DEF Performed
  <2> HIDE DEF record
  <2>2. Extends(clicks, record, clicks')
    BY <2>1, Appending
  <2>3. /\ DOMAIN clicks = 1 .. Len(clicks) /\ DOMAIN clicks' = 1 .. (Len(clicks) + 1)
        /\ Len(clicks) \in Nat /\ clicks'[Len(clicks) + 1] = record
        /\ \A i \in 1 .. Len(clicks) : clicks'[i] = clicks[i]
    BY <2>2 DEF Extends
  <2>4. ASSUME NEW i \in DOMAIN clicks'
        PROVE  \/ clicks'[i].key.op = "download" \/ clicks'[i].refused
               \/ clicks'[i].key.target.epoch = clicks'[i].on.epoch
    <3>1. CASE i = Len(clicks) + 1
      BY <1>2, <2>1, <2>3, <3>1
    <3>2. CASE i \in 1 .. Len(clicks)
      BY <2>3, <3>2 DEF ActsOnThePageItSaw
    <3> QED BY <2>3, <3>1, <3>2
  <2> QED BY <2>4 DEF ActsOnThePageItSaw
<1> QED BY <1>1, <1>2 DEF Hits

\* The backend keeps its fields; a landing the session refused is marked.
LEMMA SiteKeepsFields ==
  ASSUME NEW b, {"index", "epoch", "history", "refused"} \subseteq DOMAIN b
  PROVE  /\ \A record, refused :
              /\ DOMAIN SiteVisit(b, record, refused) = DOMAIN b
              /\ SiteVisit(b, record, refused).refused = refused
         /\ \A step : DOMAIN SiteMove(b, step) = DOMAIN b
         /\ \A target, text : DOMAIN SiteSetField(b, target, text) = DOMAIN b
  BY DEF SiteVisit, SiteMove, SiteSetField

\* The operations keep the backend's fields and what is shown of it.
Shows == ShowsTheSite' /\ Hits /\ DOMAIN site' = DOMAIN site

LEMMA NavigationsShow ==
  ASSUME PageInv
  PROVE  /\ \A u : BrowserNavigate(u) => Shows
         /\ \A step : BrowserMove(step) => Shows
         /\ (BrowserReload => Shows)
         /\ (BrowserObserve => Shows)
         /\ (BrowserFind => Shows)
<1> USE DEF ShowsTheSite, Hits, Shows
<1>0. UNCHANGED <<page, site, clicks>> => Shows
  BY DEF PageInv, SitePage
<1>1. ASSUME NEW u, BrowserNavigate(u) PROVE Shows
  <2>1. \/ UNCHANGED <<page, site, clicks>>
        \/ \E record, refused :
             /\ site' = SiteVisit(site, record, refused) /\ clicks' = clicks
             /\ refused \/ page' = SitePage(SiteVisit(site, record, refused))
    BY <1>1, Zenon DEF BrowserNavigate
  <2>2. ASSUME NEW record, NEW refused, site' = SiteVisit(site, record, refused),
               clicks' = clicks,
               refused \/ page' = SitePage(SiteVisit(site, record, refused))
        PROVE  Shows
    <3>1. DOMAIN site' = DOMAIN site /\ site'.refused = refused
      BY <2>2, SiteKeepsFields DEF PageInv
    <3>2. refused \/ page' = SitePage(site')
      BY <2>2
    <3> QED BY <2>2, <3>1, <3>2 DEF SitePage
  <2> QED BY <1>0, <2>1, <2>2
<1>2. ASSUME NEW step, BrowserMove(step) PROVE Shows
  <2>1. \/ UNCHANGED <<page, site, clicks>>
        \/ clicks' = clicks /\ site' = SiteMove(site, step) /\ page' = SitePage(site')
    BY <1>2 DEF BrowserMove
  <2> QED BY <1>0, <2>1, SiteKeepsFields DEF PageInv, SitePage
<1>3. ASSUME BrowserReload PROVE Shows
  <2>1. \/ UNCHANGED <<page, site, clicks>>
        \/ clicks' = clicks /\ site' = SiteMove(site, 0) /\ page' = SitePage(site')
    BY <1>3 DEF BrowserReload
  <2> QED BY <1>0, <2>1, SiteKeepsFields DEF PageInv, SitePage
<1>4. ASSUME BrowserObserve \/ BrowserFind PROVE Shows
  <2>1. /\ clicks' = clicks /\ site' = site
        /\ page' = page \/ page' = SitePage(site) \/ page' = CurrentPage
    BY <1>4 DEF BrowserObserve, BrowserFind
  <2> QED BY <2>1, CurrentIsTheSite DEF PageInv, SitePage
<1> QED BY <1>1, <1>2, <1>3, <1>4

LEMMA MutationsShow ==
  ASSUME PageInv
  PROVE  /\ \A target, approved : BrowserClick(target, approved) => Shows
         /\ \A op, target, text, allowed, approved :
                Fill(op, target, text, allowed, approved) => Shows
         /\ \A u : BrowserDownload(u) => Shows
<1> USE DEF ShowsTheSite, Hits, Shows
<1>0. ASSUME NEW op, NEW target, NEW text, NEW approved, NEW key,
             key = MutationKey(op, target, text), Permitted(target, approved, key),
             clicks' = Performed(key, site)
      PROVE  Hits
  <2>1. key.target = target /\ target.epoch = CurrentPage.epoch
    BY <1>0 DEF MutationKey, Permitted, BelongsTo
  <2> QED BY <1>0, <2>1, CurrentIsTheSite DEF PageInv
<1>5. clicks' = clicks /\ site' = site /\ page' = CurrentPage => Shows
  BY CurrentIsTheSite DEF PageInv, SitePage
<1>1. ASSUME NEW target, NEW approved, BrowserClick(target, approved) PROVE Shows
  <2> DEFINE key == MutationKey("click", target, "none")
  <2>1. \/ clicks' = clicks /\ site' = site /\ page' = CurrentPage
        \/ /\ Permitted(target, approved, key) /\ clicks' = Performed(key, site)
           /\ \/ site' = site /\ page' = SitePage(site)
              \/ \E record, refused :
                    /\ site' = SiteVisit(site, record, refused)
                    /\ refused \/ page' = SitePage(SiteVisit(site, record, refused))
    BY <1>1, Zenon DEF BrowserClick, Refuse
  <2>2. ASSUME Permitted(target, approved, key), clicks' = Performed(key, site)
        PROVE  Hits
    BY <2>2, <1>0
  <2>3. ASSUME site' = site, page' = SitePage(site)
        PROVE  ShowsTheSite' /\ DOMAIN site' = DOMAIN site
    BY <2>3 DEF SitePage
  <2>4. ASSUME NEW record, NEW refused, site' = SiteVisit(site, record, refused),
               refused \/ page' = SitePage(SiteVisit(site, record, refused))
        PROVE  ShowsTheSite' /\ DOMAIN site' = DOMAIN site
    <3>1. DOMAIN site' = DOMAIN site /\ site'.refused = refused
      BY <2>4, SiteKeepsFields DEF PageInv
    <3>2. refused \/ page' = SitePage(site')
      BY <2>4
    <3> QED BY <3>1, <3>2 DEF SitePage
  <2> QED BY <1>5, <2>1, <2>2, <2>3, <2>4
<1>2. ASSUME NEW op, NEW target, NEW text, NEW allowed, NEW approved,
             Fill(op, target, text, allowed, approved)
      PROVE  Shows
  <2> DEFINE key == MutationKey(op, target, text)
  <2>1. \/ clicks' = clicks /\ site' = site /\ page' = CurrentPage
        \/ /\ Permitted(target, approved, key) /\ clicks' = Performed(key, site)
           /\ site' = SiteSetField(site, target, text) /\ page' = SitePage(site')
    BY <1>2 DEF Fill, Refuse
  <2>2. CASE /\ Permitted(target, approved, key) /\ clicks' = Performed(key, site)
             /\ site' = SiteSetField(site, target, text) /\ page' = SitePage(site')
    <3>1. Hits
      BY <2>2, <1>0
    <3>2. DOMAIN site' = DOMAIN site
      BY <2>2, SiteKeepsFields DEF PageInv
    <3> QED BY <2>2, <3>1, <3>2 DEF SitePage
  <2> QED BY <1>5, <2>1, <2>2
<1>3. ASSUME NEW u, BrowserDownload(u) PROVE Shows
  <2> DEFINE key == [op |-> "download", url |-> u, target |-> NoTarget, text |-> "none"]
  <2>1. /\ UNCHANGED <<page, site>>
        /\ clicks' = clicks \/ clicks' = Performed(key, site)
    BY <1>3 DEF BrowserDownload
  <2>2. key.op = "download"
    OBVIOUS
  <2> HIDE DEF key
  <2> QED BY <2>1, <2>2 DEF PageInv, SitePage
<1> QED BY <1>1, <1>2, <1>3

LEMMA PageStep == PageInv /\ [BrowserNext]_browserVars => PageInv'
<1> SUFFICES ASSUME PageInv, [BrowserNext]_browserVars PROVE PageInv'
  OBVIOUS
<1>1. BrowserInv'
  BY BrowserStep DEF PageInv
<1>2. CASE UNCHANGED browserVars
  BY <1>1, <1>2 DEF browserVars, PageInv, ShowsTheSite, SitePage, ActsOnThePageItSaw
<1>3. CASE Shows
  <2>1. ActsOnThePageItSaw'
    BY <1>3, HitsKeep DEF PageInv, BrowserInv, Shows
  <2> QED BY <1>1, <1>3, <2>1 DEF PageInv, Shows
<1>4. CASE BrowserCheckpoint \/ SessionTurn
  <2>1. UNCHANGED <<page, site, clicks>>
    BY <1>4 DEF BrowserCheckpoint, SessionTurn
  <2> QED BY <1>1, <2>1 DEF PageInv, ShowsTheSite, SitePage, ActsOnThePageItSaw
<1>5. CASE BrowserRestart
  BY <1>1, <1>5, EmptyListed
  DEF BrowserRestart, FirstSite, PageInv, ShowsTheSite, ActsOnThePageItSaw
<1>6. ASSUME NEW hosts, NEW budget, NEW r, SessionOpen(hosts, budget, r) PROVE PageInv'
  <2>1. page' = NoPage /\ UNCHANGED <<site, clicks>>
    BY <1>6 DEF SessionOpen
  <2> QED BY <1>1, <2>1 DEF PageInv, ShowsTheSite, ActsOnThePageItSaw
<1>7. ASSUME NEW target, NEW text, NEW approved,
             BrowserType(target, text, approved) \/ BrowserSelect(target, text, approved)
      PROVE  Shows
  BY <1>7, MutationsShow DEF BrowserType, BrowserSelect
<1>8. BrowserNext =>
        \/ \E hosts \in AllowLists, budget \in Budgets, r \in RedirectBounds :
               SessionOpen(hosts, budget, r)
        \/ SessionTurn \/ BrowserCheckpoint \/ BrowserRestart \/ Shows
  BY <1>7, NavigationsShow, MutationsShow, Zenon DEF BrowserNext
<1> QED BY <1>2, <1>3, <1>4, <1>5, <1>6, <1>8, Zenon

\* What a mutation did, it did on the page its target was resolved on, on every
\* site and for every redirect bound a session is opened with, except on a page
\* on which the backend landed although the session refuses it: only there is
\* the cached page not the backend's.
THEOREM ActionsSeeTheirPage == BrowserSpec => []ActsOnThePageItSaw
<1>1. BrowserInit => PageInv
  <2> SUFFICES ASSUME BrowserInit PROVE PageInv
    OBVIOUS
  <2>1. BrowserInv
    BY EmptyListed DEF BrowserInit, BrowserInv
  <2> QED BY <2>1 DEF BrowserInit, FirstSite, PageInv, ShowsTheSite, ActsOnThePageItSaw
<1>2. PageInv /\ [BrowserNext]_browserVars => PageInv'
  BY PageStep
<1>3. PageInv => ActsOnThePageItSaw
  BY DEF PageInv
<1> QED BY <1>1, <1>2, <1>3, PTL DEF BrowserSpec

-----------------------------------------------------------------------------
(* Cross-domain workflows: what is verified rests on what is verified.     *)

\* A verified step is one of the pinned pipeline, its dependencies are
\* verified, and its mutation is on record.
RestsOn(t, s) ==
    LET p == Pipelines[t.pinned] IN
    /\ s \in StepsOf(p) /\ p.steps[s].deps \subseteq t.verified
    /\ p.steps[s].mutating => \E m \in t.mutations : m.at = <<s>>

\* What is handed over comes from a verified step.
SoundSession(t) ==
    /\ DOMAIN t = DOMAIN FreshSession
    /\ t.used \in Nat /\ t.limit \in Nat /\ t.used <= t.limit
    /\ IsFiniteSet(t.completed) /\ IsFiniteSet(DOMAIN t.handoffs)
    /\ t.pinned \in {"none"} \cup DOMAIN Pipelines
    /\ t.pinned = "none" => t.verified = {}
    /\ \A h \in DOMAIN t.handoffs : h.from \in t.verified
    /\ \A s \in t.verified : RestsOn(t, s)

WfInv ==
    /\ SoundSession(wf) /\ SoundSession(wfSaved.session)
    /\ wf.mutations \subseteq wfKeys /\ wfSaved.session.mutations \subseteq wf.mutations
    /\ wfPipe # "none" => wf.pinned = wfPipe
    /\ wfLives \in Nat /\ Listed(wfRuns)

WfGuarded == INSTANCE GuardedSession WITH
    life <- wfLives, used <- wf.used, limit <- wf.limit,
    done <- wf.mutations, performed <- wfRuns

\* The session as it was, but for what it has spent and may spend.
SpentOnly(t, u) ==
    /\ DOMAIN u = DOMAIN t
    /\ u.pinned = t.pinned /\ u.completed = t.completed /\ u.verified = t.verified
    /\ u.handoffs = t.handoffs /\ u.mutations = t.mutations

LEMMA SoundStays ==
  \A t, u : SoundSession(t) /\ SpentOnly(t, u) /\ u.used \in Nat /\ u.limit \in Nat
            /\ u.used <= u.limit => SoundSession(u)
  BY DEF SoundSession, SpentOnly, RestsOn

LEMMA WfApprove ==
  ASSUME WfInv, NEW s, Approve(s)
  PROVE  WfInv' /\ UNCHANGED WfGuarded!guardVars
<1>1. /\ wf' = [wf EXCEPT !.approved = @ \cup {s}]
      /\ UNCHANGED <<wfPipe, wfKeys, wfSaved, wfLives, wfRuns>>
  BY DEF Approve, Called
<1>2. SpentOnly(wf, wf') /\ wf'.used = wf.used /\ wf'.limit = wf.limit
  BY <1>1 DEF WfInv, SoundSession, FreshSession, SpentOnly
<1>3. SoundSession(wf')
  BY <1>2, SoundStays DEF WfInv, SoundSession
<1>4. Listed(wfRuns)'
  BY <1>1 DEF WfInv
<1> QED BY <1>1, <1>2, <1>3, <1>4 DEF WfInv, SpentOnly, WfGuarded!guardVars

LEMMA WfSetState ==
  ASSUME WfInv, NEW state, SetState(state)
  PROVE  WfInv' /\ UNCHANGED WfGuarded!guardVars
<1>1. /\ wf' = [wf EXCEPT !.state = state]
      /\ UNCHANGED <<wfPipe, wfKeys, wfSaved, wfLives, wfRuns>>
  BY DEF SetState, Called
<1>2. SpentOnly(wf, wf') /\ wf'.used = wf.used /\ wf'.limit = wf.limit
  BY <1>1 DEF WfInv, SoundSession, FreshSession, SpentOnly
<1>3. SoundSession(wf')
  BY <1>2, SoundStays DEF WfInv, SoundSession
<1>4. Listed(wfRuns)'
  BY <1>1 DEF WfInv
<1> QED BY <1>1, <1>2, <1>3, <1>4 DEF WfInv, SpentOnly, WfGuarded!guardVars

LEMMA WfCreateDraft ==
  ASSUME WfInv, NEW s, CreateDraft(s)
  PROVE  WfInv' /\ WfGuarded!Work
<1>1. /\ wf' = [wf EXCEPT !.used = @ + 1] /\ wf.used < wf.limit
      /\ UNCHANGED <<wfPipe, wfKeys, wfSaved, wfLives, wfRuns>>
  BY DEF CreateDraft, Called
<1>2. SpentOnly(wf, wf') /\ wf'.used = wf.used + 1 /\ wf'.limit = wf.limit
  BY <1>1 DEF WfInv, SoundSession, FreshSession, SpentOnly
<1>3. wf.used \in Nat /\ wf.limit \in Nat
  BY DEF WfInv, SoundSession
<1>4. SoundSession(wf')
  <2>1. wf'.used \in Nat /\ wf'.limit \in Nat /\ wf'.used <= wf'.limit
    BY <1>1, <1>2, <1>3
  <2> QED BY <1>2, <2>1, SoundStays DEF WfInv
<1>5. Listed(wfRuns)'
  BY <1>1 DEF WfInv
<1>6. WfGuarded!Work
  <2>1. WfGuarded!MayPerform
    BY <1>1, <1>2 DEF SpentOnly, WfGuarded!MayPerform
  <2>2. wf.used < wf'.used /\ wf'.used <= wf.limit
    BY <1>1, <1>2, <1>3
  <2> QED BY <1>1, <1>2, <2>1, <2>2 DEF WfGuarded!Work
<1> QED BY <1>1, <1>2, <1>4, <1>5, <1>6 DEF WfInv, SpentOnly

LEMMA WfValidate ==
  ASSUME WfInv, NEW id \in DOMAIN Pipelines, Validate(id)
  PROVE  WfInv' /\ WfGuarded!Narrow
<1> DEFINE budget == Min({wf.limit, Pipelines[id].budget})
<1>1. /\ wf' = [wf EXCEPT !.pinned = id, !.limit = budget, !.used = Min({@, budget})]
      /\ wf.pinned \in {"none", id} /\ wfPipe' = id
      /\ UNCHANGED <<wfKeys, wfSaved, wfLives, wfRuns>>
  BY DEF Validate, Called
<1>2. wf.used \in Nat /\ wf.limit \in Nat /\ Pipelines[id].budget \in Nat
  BY WfAssumption DEF WfInv, SoundSession
<1>3. budget \in Nat /\ budget <= wf.limit
  BY <1>2, LeastOfNaturals
<1> HIDE DEF budget
<1>4. /\ Min({wf.used, budget}) \in Nat /\ Min({wf.used, budget}) <= wf.used
      /\ Min({wf.used, budget}) <= budget
  BY <1>2, <1>3, LeastOfNaturals
<1>5. /\ DOMAIN wf' = DOMAIN wf /\ wf'.pinned = id /\ wf'.limit = budget
      /\ wf'.used = Min({wf.used, budget}) /\ wf'.completed = wf.completed
      /\ wf'.verified = wf.verified /\ wf'.handoffs = wf.handoffs
      /\ wf'.mutations = wf.mutations
  BY <1>1 DEF WfInv, SoundSession, FreshSession
<1>6. SoundSession(wf')
  <2>1. wf.pinned = id \/ wf.verified = {}
    BY <1>1 DEF WfInv, SoundSession
  <2>2. \A s \in wf'.verified : RestsOn(wf', s)
    BY <1>5, <2>1 DEF WfInv, SoundSession, RestsOn
  <2>3. id # "none"
    BY WfAssumption
  <2> QED BY <1>3, <1>4, <1>5, <2>2, <2>3 DEF WfInv, SoundSession
<1>7. Listed(wfRuns)'
  BY <1>1 DEF WfInv
<1>8. WfGuarded!Narrow
  BY <1>1, <1>3, <1>4, <1>5 DEF WfGuarded!Narrow
<1> QED BY <1>1, <1>5, <1>6, <1>7, <1>8 DEF WfInv
LEMMA WfHandoff ==
  ASSUME WfInv, NEW h, Handoff(h)
  PROVE  WfInv' /\ WfGuarded!Work
<1> DEFINE key == HandoffKey(h, Arriving(h).sha)
<1>1. /\ wf' = [wf EXCEPT !.used = @ + 1, !.handoffs = Put(@, h, key)]
      /\ wf.used < wf.limit /\ h.from \in wf.verified
      /\ wfKeys' = wfKeys \cup {key}
      /\ UNCHANGED <<wfPipe, wfSaved, wfLives, wfRuns>>
  BY DEF Handoff, Called
<1> HIDE DEF key
<1>2. /\ DOMAIN wf' = DOMAIN wf /\ wf'.pinned = wf.pinned /\ wf'.limit = wf.limit
      /\ wf'.used = wf.used + 1 /\ wf'.completed = wf.completed
      /\ wf'.verified = wf.verified /\ wf'.mutations = wf.mutations
      /\ wf'.handoffs = Put(wf.handoffs, h, key)
  BY <1>1 DEF WfInv, SoundSession, FreshSession
<1>3. DOMAIN wf'.handoffs = DOMAIN wf.handoffs \cup {h}
  BY <1>2 DEF Put
<1>4. wf'.used \in Nat /\ wf.limit \in Nat /\ wf.used < wf'.used /\ wf'.used <= wf.limit
  BY <1>1, <1>2 DEF WfInv, SoundSession
<1>5. SoundSession(wf')
  <2>1. IsFiniteSet(DOMAIN wf'.handoffs)
    <3>1. IsFiniteSet(DOMAIN wf.handoffs)
      BY DEF WfInv, SoundSession
    <3> QED BY <1>3, <3>1, FS_AddElement, Zenon
  <2>2. \A s \in wf'.verified : RestsOn(wf', s)
    BY <1>2 DEF WfInv, SoundSession, RestsOn
  <2>3. \A g \in DOMAIN wf'.handoffs : g.from \in wf'.verified
    BY <1>1, <1>2, <1>3 DEF WfInv, SoundSession
  <2> QED BY <1>2, <1>4, <2>1, <2>2, <2>3 DEF WfInv, SoundSession
<1>6. Listed(wfRuns)'
  BY <1>1 DEF WfInv
<1>7. WfGuarded!MayPerform
  BY <1>1, <1>2 DEF WfGuarded!MayPerform
<1>8. WfGuarded!Work
  BY <1>1, <1>2, <1>4, <1>7 DEF WfGuarded!Work
<1> QED BY <1>1, <1>2, <1>5, <1>6, <1>8 DEF WfInv

\* What executing a step does to the session.
LEMMA StepExecuted ==
  ASSUME WfInv, NEW s, ExecuteStep(s)
  PROVE  /\ wfPipe # "none" /\ wf.pinned = wfPipe /\ wfPipe \in DOMAIN Pipelines
         /\ s \in StepsOf(Pipe) /\ s \notin wf.verified /\ Step(s).deps \subseteq wf.verified
         /\ Step(s).cost \in Nat \ {0} /\ wf.used + Step(s).cost <= wf.limit
         /\ Step(s).mutating => WfMutationKey(s) \notin wf.mutations
         /\ DOMAIN wf' = DOMAIN wf /\ wf'.pinned = wf.pinned /\ wf'.limit = wf.limit
         /\ wf'.used = wf.used + Step(s).cost /\ wf'.handoffs = wf.handoffs
         /\ UNCHANGED <<wfPipe, wfSaved, wfLives>>
         /\ wfKeys \cup (wf'.mutations \ wf.mutations) \subseteq wfKeys'
         /\ \E outcome \in Outcomes :
              /\ wf'.mutations = IF Step(s).mutating /\ outcome # "refused"
                                 THEN wf.mutations \cup {WfMutationKey(s)} ELSE wf.mutations
              /\ wf'.completed = IF outcome = "verified"
                                 THEN wf.completed \cup {WfKey("digest", s, Inbound(s))}
                                 ELSE wf.completed
              /\ wf'.verified = IF outcome = "verified" THEN wf.verified \cup {s}
                                ELSE wf.verified
              /\ wfRuns' = IF TakenOn(s, outcome) THEN Append(wfRuns, WfMutationKey(s))
                           ELSE wfRuns
              /\ wfArtifacts' =
                   IF outcome = "verified"
                   THEN [k \in DOMAIN wfArtifacts \cup Step(s).produces |->
                           IF k \in Step(s).produces THEN Made(s) ELSE Handed(k)]
                   ELSE wfArtifacts
<1>1. Ready(s) /\ UNCHANGED <<wfPipe, wfSaved, wfLives>>
  BY DEF ExecuteStep, Called
<1>2. /\ wfPipe # "none" /\ wf.pinned = wfPipe /\ wfPipe \in DOMAIN Pipelines
      /\ s \in StepsOf(Pipe) /\ s \notin wf.verified /\ Step(s).deps \subseteq wf.verified
      /\ Step(s).mutating => WfMutationKey(s) \notin wfKeys
      /\ wf.used + Step(s).cost <= wf.limit
  BY <1>1 DEF Ready, Bound, DependenciesReady, WfInv, SoundSession
<1>3. Step(s).cost \in Nat \ {0}
  BY <1>2, WfAssumption DEF Step, Pipe, StepsOf
<1>4. PICK outcome \in Outcomes :
        /\ wf' = AfterExecution(s, outcome)
        /\ wfKeys' = wfKeys \cup (wf'.mutations \ wf.mutations)
                            \cup (IF outcome = "verified" THEN {StepKey(s)} ELSE {})
        /\ wfRuns' = IF TakenOn(s, outcome) THEN Append(wfRuns, WfMutationKey(s)) ELSE wfRuns
        /\ wfArtifacts' =
             IF outcome = "verified"
             THEN [k \in DOMAIN wfArtifacts \cup Step(s).produces |->
                     IF k \in Step(s).produces THEN Made(s) ELSE Handed(k)]
             ELSE wfArtifacts
  BY Zenon DEF ExecuteStep
<1>5. /\ DOMAIN wf' = DOMAIN wf /\ wf'.pinned = wf.pinned /\ wf'.limit = wf.limit
      /\ wf'.used = wf.used + Step(s).cost /\ wf'.handoffs = wf.handoffs
      /\ wf'.mutations = IF Step(s).mutating /\ outcome # "refused"
                         THEN wf.mutations \cup {WfMutationKey(s)} ELSE wf.mutations
      /\ wf'.completed = IF outcome = "verified"
                         THEN wf.completed \cup {WfKey("digest", s, Inbound(s))}
                         ELSE wf.completed
      /\ wf'.verified = IF outcome = "verified" THEN wf.verified \cup {s} ELSE wf.verified
  BY <1>4 DEF AfterExecution, WfInv, SoundSession, FreshSession
<1>6. wfKeys \cup (wf'.mutations \ wf.mutations) \subseteq wfKeys'
  BY <1>4
<1>7. Step(s).mutating => WfMutationKey(s) \notin wf.mutations
  BY <1>2 DEF WfInv
<1> QED BY <1>1, <1>2, <1>3, <1>4, <1>5, <1>6, <1>7

LEMMA WfExecute ==
  ASSUME WfInv, NEW s, ExecuteStep(s)
  PROVE  WfInv' /\ WfGuarded!Work
<1> DEFINE key == WfMutationKey(s)
<1>1. /\ wf.pinned = wfPipe /\ wfPipe \in DOMAIN Pipelines
      /\ s \in StepsOf(Pipe) /\ s \notin wf.verified /\ Step(s).deps \subseteq wf.verified
      /\ Step(s).cost \in Nat \ {0} /\ wf.used + Step(s).cost <= wf.limit
      /\ Step(s).mutating => key \notin wf.mutations
      /\ DOMAIN wf' = DOMAIN wf /\ wf'.pinned = wf.pinned /\ wf'.limit = wf.limit
      /\ wf'.used = wf.used + Step(s).cost /\ wf'.handoffs = wf.handoffs
      /\ UNCHANGED <<wfPipe, wfSaved, wfLives>>
      /\ wfKeys \cup (wf'.mutations \ wf.mutations) \subseteq wfKeys'
  BY StepExecuted
<1>2. PICK outcome \in Outcomes :
        /\ wf'.mutations = IF Step(s).mutating /\ outcome # "refused"
                           THEN wf.mutations \cup {key} ELSE wf.mutations
        /\ wf'.completed = IF outcome = "verified"
                           THEN wf.completed \cup {WfKey("digest", s, Inbound(s))}
                           ELSE wf.completed
        /\ wf'.verified = IF outcome = "verified" THEN wf.verified \cup {s} ELSE wf.verified
        /\ wfRuns' = IF TakenOn(s, outcome) THEN Append(wfRuns, key) ELSE wfRuns
  BY StepExecuted
<1>3. key.at = <<s>>
  BY DEF WfMutationKey, WfKey
<1> HIDE DEF key
<1>4. wf'.used \in Nat /\ wf.limit \in Nat /\ wf.used < wf'.used /\ wf'.used <= wf.limit
  BY <1>1 DEF WfInv, SoundSession
<1>5. SoundSession(wf')
  <2>1. IsFiniteSet(wf'.completed)
    <3>1. IsFiniteSet(wf.completed)
      BY DEF WfInv, SoundSession
    <3>2. IsFiniteSet(wf.completed \cup {WfKey("digest", s, Inbound(s))})
      BY <3>1, FS_AddElement, Zenon
    <3> QED BY <1>2, <3>1, <3>2
  <2>2. wf.verified \subseteq wf'.verified /\ wf.mutations \subseteq wf'.mutations
    BY <1>2
  <2>3. \A t \in wf.verified : RestsOn(wf', t)
    BY <1>1, <2>2 DEF WfInv, SoundSession, RestsOn
  <2>4. ASSUME outcome = "verified" PROVE RestsOn(wf', s)
    <3>1. Step(s).mutating => key \in wf'.mutations
      BY <1>2, <2>4
    <3>2. s \in StepsOf(Pipelines[wf'.pinned]) /\ Pipelines[wf'.pinned].steps[s] = Step(s)
      BY <1>1 DEF Pipe, Step
    <3> QED BY <1>1, <1>3, <2>2, <3>1, <3>2 DEF RestsOn
  <2>5. \A t \in wf'.verified : RestsOn(wf', t)
    BY <1>2, <2>3, <2>4
  <2>6. wf'.pinned # "none"
    BY <1>1, WfAssumption
  <2>7. \A h \in DOMAIN wf'.handoffs : h.from \in wf'.verified
    BY <1>1, <2>2 DEF WfInv, SoundSession
  <2> QED BY <1>1, <1>4, <2>1, <2>5, <2>6, <2>7 DEF WfInv, SoundSession
<1>6. WfGuarded!MayPerform /\ Listed(wfRuns')
  <2>1. CASE TakenOn(s, outcome)
    <3>1. key \notin wf.mutations
      BY <1>1, <2>1 DEF TakenOn
    <3>2. Extends(wfRuns, key, wfRuns')
      BY <1>2, <2>1, Appending DEF WfInv
    <3> QED BY <1>2, <3>1, <3>2, NewEntry DEF WfGuarded!MayPerform, WfGuarded!PerformedKeys
  <2>2. CASE ~TakenOn(s, outcome)
    <3>1. wf'.mutations = wf.mutations /\ wfRuns' = wfRuns
      BY <1>2, <2>2 DEF TakenOn
    <3> QED BY <3>1 DEF WfGuarded!MayPerform, WfInv
  <2> QED BY <2>1, <2>2
<1>7. WfGuarded!Work
  BY <1>1, <1>4, <1>6 DEF WfGuarded!Work
<1>8. Listed(wfRuns)'
  BY <1>6
<1>9. wf'.mutations \subseteq wfKeys' /\ wf.mutations \subseteq wf'.mutations
  BY <1>1, <1>2 DEF WfInv
<1> QED BY <1>1, <1>5, <1>7, <1>8, <1>9 DEF WfInv
LEMMA WfCheckpoint ==
  ASSUME WfInv, Checkpoint
  PROVE  WfInv' /\ UNCHANGED WfGuarded!guardVars
<1>1. /\ wfSaved' = [session |-> wf, envelopes |-> envelopes]
      /\ UNCHANGED <<wfPipe, wf, wfKeys, wfRuns, wfLives>>
  BY DEF Checkpoint
<1>2. wfSaved'.session = wf
  BY <1>1
<1>3. SoundSession(wf') /\ SoundSession(wfSaved'.session) /\ Listed(wfRuns)'
  BY <1>1, <1>2 DEF WfInv
<1> QED BY <1>1, <1>2, <1>3 DEF WfInv, WfGuarded!guardVars

LEMMA WfRestart ==
  ASSUME WfInv, Restart
  PROVE  WfInv' /\ WfGuarded!Resume /\ wf'.handoffs = wfSaved.session.handoffs
<1> DEFINE t == wfSaved.session
           spent == Cardinality(t.completed) + Cardinality(DOMAIN t.handoffs)
           used == Min({Max({t.used, spent}), t.limit})
<1>1. /\ wf' = Restored(t) /\ wfKeys' = RestoredKeys(t) /\ wfPipe' = "none"
      /\ wfRuns' = <<>> /\ wfSaved' = wfSaved /\ wfLives' = wfLives + 1
  BY DEF Restart
<1>2. SoundSession(t) /\ t.mutations \subseteq wf.mutations
  BY DEF WfInv
<1>3. spent \in Nat /\ t.used \in Nat /\ t.limit \in Nat
  BY <1>2, FS_CardinalityType DEF SoundSession
<1> HIDE DEF spent
<1>4. used \in Nat /\ used <= t.limit
  <2>1. Max({t.used, spent}) \in {t.used, spent}
    <3>1. \E x \in {t.used, spent} : \A y \in {t.used, spent} : x >= y
      BY <1>3
    <3> QED BY <3>1 DEF Max
  <2> DEFINE m == Max({t.used, spent})
  <2>2. m \in Nat
    BY <1>3, <2>1
  <2> HIDE DEF m
  <2>3. Min({m, t.limit}) \in Nat /\ Min({m, t.limit}) <= t.limit
    BY <1>3, <2>2, LeastOfNaturals
  <2> QED BY <2>3 DEF m
<1>5. /\ SpentOnly(t, wf') /\ wf'.used = used /\ wf'.limit = t.limit
  BY <1>1, <1>2 DEF Restored, SoundSession, FreshSession, SpentOnly, spent
<1> HIDE DEF used
<1>6. SoundSession(wf') /\ wf'.limit \in Nat /\ wf'.used <= wf'.limit
  BY <1>2, <1>3, <1>4, <1>5, SoundStays
<1>7. wf'.mutations = t.mutations /\ wf'.handoffs = t.handoffs
  BY <1>5 DEF SpentOnly
<1>8. wf'.mutations \subseteq wfKeys'
  BY <1>1, <1>7 DEF RestoredKeys
<1>9. Listed(wfRuns)'
  BY <1>1, EmptyListed
<1>10. WfInv'
  BY <1>1, <1>2, <1>6, <1>7, <1>8, <1>9 DEF WfInv
<1>11. WfGuarded!Resume
  BY <1>1, <1>2, <1>6, <1>7 DEF WfInv, WfGuarded!Resume
<1> QED BY <1>7, <1>10, <1>11

LEMMA WfFileChanges ==
  ASSUME WfInv, FileChanges
  PROVE  WfInv' /\ UNCHANGED WfGuarded!guardVars
<1>1. UNCHANGED <<wfPipe, wf, wfKeys, wfSaved, wfRuns, wfLives>>
  BY DEF FileChanges, Called
<1>2. SoundSession(wf') /\ SoundSession(wfSaved'.session) /\ Listed(wfRuns)'
  BY <1>1 DEF WfInv
<1> QED BY <1>1, <1>2 DEF WfInv, WfGuarded!guardVars

LEMMA WfStep ==
  ASSUME WfInv, [WfNext]_wfVars
  PROVE  WfInv' /\ [WfGuarded!GuardNext]_(WfGuarded!guardVars)
<1>1. CASE UNCHANGED wfVars
  <2>1. UNCHANGED <<wfPipe, wf, wfKeys, wfSaved, wfRuns, wfLives>>
    BY <1>1 DEF wfVars
  <2>2. SoundSession(wf') /\ SoundSession(wfSaved'.session) /\ Listed(wfRuns)'
    BY <2>1 DEF WfInv
  <2> QED BY <2>1, <2>2 DEF WfInv, WfGuarded!guardVars
<1>2. CASE /\ WfInv'
           /\ \/ UNCHANGED WfGuarded!guardVars \/ WfGuarded!Work \/ WfGuarded!Narrow
              \/ WfGuarded!Resume
  BY <1>2 DEF WfGuarded!GuardNext
<1>3. CASE WfNext
  BY <1>2, <1>3, WfValidate, WfApprove, WfExecute, WfCreateDraft, WfHandoff, WfSetState,
     WfCheckpoint, WfRestart, WfFileChanges, Zenon
  DEF WfNext
<1> QED BY <1>1, <1>3

LEMMA WfStarts == WfInit => WfInv /\ WfGuarded!GuardInit
<1> SUFFICES ASSUME WfInit PROVE WfInv /\ WfGuarded!GuardInit
  OBVIOUS
<1>1. SoundSession(FreshSession)
  BY WfAssumption, FS_EmptySet DEF FreshSession, SoundSession
<1>2. Listed(wfRuns)
  BY EmptyListed DEF WfInit
<1>3. /\ wf.used = 0 /\ wf.limit \in Nat /\ wf.mutations = {}
      /\ wfSaved.session = FreshSession
  BY WfAssumption DEF WfInit, FreshSession
<1>4. wfSaved.session.mutations = {}
  BY <1>3 DEF FreshSession
<1> QED BY <1>1, <1>2, <1>3, <1>4 DEF WfInit, WfInv, WfGuarded!GuardInit

\* The workflow connector keeps the promise, for every set of pipelines: its
\* budget, narrowed by the pinned pipeline, is not overdrawn, and a mutation on
\* record is not performed again, also after a restart from a checkpoint.
THEOREM WorkflowsAreGuarded == WfSpec => WfGuarded!GuardSpec
  BY WfStarts, WfStep, PTL DEF WfSpec, WfGuarded!GuardSpec
\* What a step reaches in at most n hops, as a table: the function that Before
\* looks up.
Hops(p, s, N, f) ==
    f = [n \in 0..N |-> IF n = 0 THEN p.steps[s].deps
                        ELSE f[n - 1] \cup UNION {p.steps[t].deps : t \in f[n - 1] \cap StepsOf(p)}]

LEMMA BeforeIsHops ==
  ASSUME NEW p, NEW s, \E f : Hops(p, s, Cardinality(StepsOf(p)), f)
  PROVE  \E f : /\ Hops(p, s, Cardinality(StepsOf(p)), f)
                /\ Before(p, s) = f[Cardinality(StepsOf(p))]
<1> DEFINE N == Cardinality(StepsOf(p))
           F == CHOOSE f : Hops(p, s, N, f)
<1>1. Hops(p, s, N, F)
  OBVIOUS
<1>2. Before(p, s) = F[N]
  BY DEF Before, Hops
<1> QED BY <1>1, <1>2

LEMMA HopsExist ==
  ASSUME NEW p, NEW s, NEW N \in Nat
  PROVE  \E f : Hops(p, s, N, f)
<1> DEFINE Bad == {m \in Nat : ~ \E f : Hops(p, s, m, f)}
<1> SUFFICES ASSUME Bad # {} PROVE FALSE
  OBVIOUS
<1>1. PICK m \in Bad : \A k \in Bad : m <= k
  BY LeastNatural
<1>2. m # 0
  <2> DEFINE f == [n \in 0..0 |-> p.steps[s].deps]
  <2>1. Hops(p, s, 0, f)
    BY DEF Hops
  <2> QED BY <2>1
<1>3. m - 1 \in Nat /\ m - 1 \notin Bad
  BY <1>1, <1>2
<1>4. PICK g : Hops(p, s, m - 1, g)
  BY <1>3
<1> DEFINE next(n) == g[n - 1] \cup UNION {p.steps[t].deps : t \in g[n - 1] \cap StepsOf(p)}
           f == [n \in 0..m |-> IF n = 0 THEN p.steps[s].deps ELSE next(n)]
<1>5. ASSUME NEW n \in 0..(m - 1) PROVE f[n] = g[n]
  <2>1. n \in 0..m /\ f[n] = IF n = 0 THEN p.steps[s].deps ELSE next(n)
    BY <1>3
  <2>2. g[n] = IF n = 0 THEN p.steps[s].deps ELSE next(n)
    BY <1>4 DEF Hops
  <2> QED BY <2>1, <2>2
<1>7. Hops(p, s, m, f)
  <2>1. ASSUME NEW n \in 0..m
        PROVE  f[n] = IF n = 0 THEN p.steps[s].deps
                      ELSE f[n - 1] \cup UNION {p.steps[t].deps : t \in f[n - 1] \cap StepsOf(p)}
    <3>1. CASE n = 0
      BY <3>1
    <3>2. CASE n # 0
      <4>1. f[n - 1] = g[n - 1]
        <5>1. n - 1 \in 0..(m - 1)
          BY <1>3, <3>2
        <5> HIDE DEF f
        <5> QED BY <5>1, <1>5
      <4>2. f[n] = next(n)
        BY <3>2
      <4> QED BY <4>1, <4>2, <3>2
    <3> QED BY <3>1, <3>2
  <2> QED BY <2>1 DEF Hops
<1> QED BY <1>1, <1>7

LEMMA HopsStay ==
  ASSUME NEW p, NEW s, NEW N \in Nat, NEW f, Hops(p, s, N, f), NEW V,
         p.steps[s].deps \subseteq V, \A t \in V : p.steps[t].deps \subseteq V
  PROVE  f[N] \subseteq V
<1> DEFINE Bad == {m \in 0..N : ~(f[m] \subseteq V)}
<1> SUFFICES ASSUME Bad # {} PROVE FALSE
  OBVIOUS
<1>0. Bad \in SUBSET Nat
  OBVIOUS
<1> HIDE DEF Bad
<1>1. PICK m \in Bad : \A k \in Bad : m <= k
  BY <1>0, LeastNatural
<1> USE DEF Bad
<1>2. m \in 0..N /\ ~(f[m] \subseteq V)
  BY <1>1
<1>3. f[m] = IF m = 0 THEN p.steps[s].deps
             ELSE f[m - 1] \cup UNION {p.steps[t].deps : t \in f[m - 1] \cap StepsOf(p)}
  BY <1>2 DEF Hops
<1>4. CASE m = 0
  BY <1>2, <1>3, <1>4
<1>5. CASE m # 0
  <2>1. m - 1 \in 0..N /\ ~(m <= m - 1)
    BY <1>2, <1>5
  <2>2. f[m - 1] \subseteq V
    BY <1>1, <2>1
  <2>3. f[m] \subseteq V
    BY <1>3, <1>5, <2>2
  <2> QED BY <1>2, <2>3
<1> QED BY <1>4, <1>5

\* What a closed set of steps holds, it holds with everything before it.
LEMMA BeforeStays ==
  ASSUME NEW p, NEW s, IsFiniteSet(StepsOf(p)), NEW V,
         p.steps[s].deps \subseteq V, \A t \in V : p.steps[t].deps \subseteq V
  PROVE  Before(p, s) \subseteq V
<1>1. Cardinality(StepsOf(p)) \in Nat
  BY FS_CardinalityType
<1>2. PICK f : /\ Hops(p, s, Cardinality(StepsOf(p)), f)
               /\ Before(p, s) = f[Cardinality(StepsOf(p))]
  BY <1>1, HopsExist, BeforeIsHops
<1> DEFINE N == Cardinality(StepsOf(p))
<1>3. N \in Nat /\ Hops(p, s, N, f) /\ Before(p, s) = f[N]
  BY <1>1, <1>2
<1> HIDE DEF N
<1>4. f[N] \subseteq V
  BY <1>3, HopsStay
<1> QED BY <1>3, <1>4

\* A step is verified only when all it transitively depends on is, with its
\* mutation on record, for every declared pipeline and also in a session that
\* was rebuilt from a checkpoint.
THEOREM VerificationIsGrounded == WfSpec => []VerifiedRestsOnVerified
<1>1. ASSUME WfInv PROVE VerifiedRestsOnVerified
  <2> DEFINE p == Pipelines[wf.pinned]
  <2> SUFFICES ASSUME NEW s \in wf.verified
               PROVE  /\ Before(p, s) \subseteq wf.verified
                      /\ p.steps[s].mutating => \E m \in wf.mutations : m.at = <<s>>
    BY DEF VerifiedRestsOnVerified
  <2>1. \A t \in wf.verified : RestsOn(wf, t)
    BY <1>1 DEF WfInv, SoundSession
  <2>2. wf.pinned \in DOMAIN Pipelines
    BY <1>1 DEF WfInv, SoundSession
  <2>3. IsFiniteSet(StepsOf(p))
    BY <2>2, WfAssumption DEF StepsOf
  <2>4. /\ \A t \in wf.verified : p.steps[t].deps \subseteq wf.verified
        /\ p.steps[s].mutating => \E m \in wf.mutations : m.at = <<s>>
    BY <2>1 DEF RestsOn
  <2> QED BY <2>3, <2>4, BeforeStays
<1> QED BY <1>1, WfStarts, WfStep, PTL DEF WfSpec

-----------------------------------------------------------------------------
(* Workflows: what is untrusted stays untrusted.                           *)

Marked(a, key, edges) ==
    /\ DOMAIN a = {"trust", "sha", "sources"} /\ DOMAIN a.sha = {"by", "from", "wrapped"}
    /\ a.trust \in Nat
    /\ a.sources \cap UntrustedSources # {} =>
         /\ a.trust = EXTERNAL
         /\ (\E h \in edges : h.key = key /\ h.from = a.sha.by) => a.sha.wrapped

TaintInv ==
    /\ WfInv
    /\ \A key \in DOMAIN wfArtifacts : Marked(wfArtifacts[key], key, DOMAIN wf.handoffs)

LEMMA LeastIsExternal ==
  ASSUME NEW T \in SUBSET Nat, T # {}
  PROVE  Min(T) \in Nat /\ (EXTERNAL \in T => Min(T) = EXTERNAL)
<1>1. PICK m : m = Min(T)
  OBVIOUS
<1>2. m \in T /\ \A y \in T : m <= y
  BY <1>1, LeastOfNaturals
<1> QED BY <1>1, <1>2 DEF EXTERNAL

LEMMA TaintUnchanged ==
  ASSUME TaintInv, WfInv', wfArtifacts' = wfArtifacts, wf'.handoffs = wf.handoffs
  PROVE  TaintInv'
  BY DEF TaintInv, Marked

LEMMA TaintExecute ==
  ASSUME TaintInv, NEW s, ExecuteStep(s)
  PROVE  TaintInv'
<1>1. PICK outcome \in Outcomes :
        wfArtifacts' = IF outcome = "verified"
                       THEN [k \in DOMAIN wfArtifacts \cup Step(s).produces |->
                               IF k \in Step(s).produces THEN Made(s) ELSE Handed(k)]
                       ELSE wfArtifacts
  BY StepExecuted DEF TaintInv
<1>2. s \notin wf.verified /\ wf'.handoffs = wf.handoffs
  BY StepExecuted DEF TaintInv
<1>3. WfInv'
  BY WfExecute DEF TaintInv
<1>4. CASE outcome # "verified"
  BY <1>1, <1>2, <1>3, <1>4, TaintUnchanged
<1>5. CASE outcome = "verified"
  <2>1. Step(s).consumes \subseteq DOMAIN wfArtifacts
    BY DEF ExecuteStep, Ready, InboundPresent
  <2> DEFINE T == {DomainTrust(Step(s).domain)} \cup {Handed(k).trust : k \in Step(s).consumes}
  <2>2. T \in SUBSET Nat /\ T # {}
    BY <2>1 DEF TaintInv, Marked, Handed, DomainTrust, EXTERNAL, TOOL_RESULT
  <2>3. Min(T) \in Nat /\ (EXTERNAL \in T => Min(T) = EXTERNAL)
    BY <2>2, LeastIsExternal
  <2>4. Made(s).sources \cap UntrustedSources # {} => EXTERNAL \in T
    <3>1. ASSUME NEW k \in Step(s).consumes, Handed(k).sources \cap UntrustedSources # {}
          PROVE  Handed(k).trust = EXTERNAL
      BY <2>1, <3>1 DEF TaintInv, Marked, Handed
    <3>2. Step(s).domain \in UntrustedSources => DomainTrust(Step(s).domain) = EXTERNAL
      BY DEF DomainTrust
    <3>3. Made(s).sources = {Step(s).domain} \cup UNION {Handed(k).sources : k \in Step(s).consumes}
      BY DEF Made
    <3> QED BY <3>1, <3>2, <3>3
  <2>5. /\ Made(s).trust = Min(T) /\ Made(s).sha.by = s
        /\ DOMAIN Made(s) = {"trust", "sha", "sources"}
        /\ DOMAIN Made(s).sha = {"by", "from", "wrapped"}
    BY DEF Made, Digest
  <2> HIDE DEF T
  <2>6. \A h \in DOMAIN wf.handoffs : h.from # s
    BY <1>2 DEF TaintInv, WfInv, SoundSession
  <2>7. \A key : Marked(Made(s), key, DOMAIN wf.handoffs)
    BY <2>3, <2>4, <2>5, <2>6 DEF Marked
  <2>8. ASSUME NEW key \in DOMAIN wfArtifacts'
        PROVE  Marked(wfArtifacts'[key], key, DOMAIN wf'.handoffs)
    <3>1. /\ key \in DOMAIN wfArtifacts \cup Step(s).produces
          /\ wfArtifacts'[key] = IF key \in Step(s).produces THEN Made(s) ELSE Handed(key)
      BY <1>1, <1>5, <2>8
    <3> QED BY <1>2, <2>7, <3>1 DEF TaintInv, Handed
  <2> QED BY <1>3, <2>8 DEF TaintInv
<1> QED BY <1>1, <1>4, <1>5

LEMMA TaintHandoff ==
  ASSUME TaintInv, NEW h, Handoff(h)
  PROVE  TaintInv'
<1>1. /\ wfPipe # "none" /\ h \in Pipe.handoffs /\ h.key \in DOMAIN wfArtifacts
      /\ wfArtifacts' = Put(wfArtifacts, h.key, Arriving(h))
      /\ wf' = [wf EXCEPT !.used = @ + 1,
                          !.handoffs = Put(@, h, HandoffKey(h, Arriving(h).sha))]
  BY DEF Handoff, Bound, Declared
<1>2. DOMAIN wf'.handoffs = DOMAIN wf.handoffs \cup {h}
  BY <1>1 DEF TaintInv, WfInv, SoundSession, FreshSession, Put
<1>3. WfInv'
  BY WfHandoff DEF TaintInv
<1> DEFINE held == Handed(h.key)
<1>4. h.trust \in Nat
  <2>1. wfPipe \in DOMAIN Pipelines
    BY <1>1 DEF TaintInv, WfInv, SoundSession
  <2> QED BY <1>1, <2>1, WfAssumption DEF Pipe
<1>5. Marked(held, h.key, DOMAIN wf.handoffs)
  BY <1>1 DEF TaintInv, Handed
<1> DEFINE trust == Min({held.trust, h.trust})
<1>6. trust \in Nat /\ (held.trust = EXTERNAL => trust = EXTERNAL)
  BY <1>4, <1>5, LeastIsExternal DEF Marked
<1>7. Arriving(h) = [held EXCEPT !.trust = trust,
                       !.sha = IF trust = EXTERNAL THEN [@ EXCEPT !.wrapped = TRUE] ELSE @]
  BY DEF Arriving
<1> HIDE DEF trust, held
<1>8. /\ DOMAIN Arriving(h) = {"trust", "sha", "sources"} /\ Arriving(h).trust = trust
      /\ Arriving(h).sources = held.sources
      /\ DOMAIN Arriving(h).sha = {"by", "from", "wrapped"}
      /\ trust = EXTERNAL => Arriving(h).sha.wrapped
  BY <1>5, <1>7 DEF Marked
<1>9. \A edges : Marked(Arriving(h), h.key, edges)
  BY <1>5, <1>6, <1>8 DEF Marked
<1>10. ASSUME NEW key \in DOMAIN wfArtifacts'
       PROVE  Marked(wfArtifacts'[key], key, DOMAIN wf'.handoffs)
  <2>1. /\ key \in DOMAIN wfArtifacts \cup {h.key}
        /\ wfArtifacts'[key] = IF key = h.key THEN Arriving(h) ELSE wfArtifacts[key]
    BY <1>1, <1>10 DEF Put
  <2>2. CASE key = h.key
    BY <1>9, <2>1, <2>2
  <2>3. CASE key # h.key
    <3>1. Marked(wfArtifacts[key], key, DOMAIN wf.handoffs)
      BY <2>1, <2>3 DEF TaintInv
    <3> QED BY <1>2, <2>1, <2>3, <3>1 DEF Marked
  <2> QED BY <2>2, <2>3
<1> QED BY <1>3, <1>10 DEF TaintInv

LEMMA TaintRestart ==
  ASSUME TaintInv, Restart
  PROVE  TaintInv'
<1>1. WfInv' /\ wfArtifacts' = <<>>
  BY WfRestart DEF TaintInv, Restart
<1> QED BY <1>1 DEF TaintInv

\* What the other operations leave alone.
LEMMA TaintRest ==
  ASSUME TaintInv,
         \/ \E id \in DOMAIN Pipelines : Validate(id)
         \/ \E s : Approve(s) \/ CreateDraft(s)
         \/ \E state : SetState(state)
         \/ Checkpoint \/ FileChanges \/ UNCHANGED wfVars
  PROVE  wfArtifacts' = wfArtifacts /\ wf'.handoffs = wf.handoffs
<1>1. /\ wfArtifacts' = wfArtifacts
      /\ \/ wf' = wf
         \/ \E id, limit, used : wf' = [wf EXCEPT !.pinned = id, !.limit = limit, !.used = used]
         \/ \E approved : wf' = [wf EXCEPT !.approved = approved]
         \/ \E used : wf' = [wf EXCEPT !.used = used]
         \/ \E state : wf' = [wf EXCEPT !.state = state]
  BY Zenon DEF Validate, Approve, CreateDraft, SetState, Checkpoint, FileChanges, wfVars
<1> QED BY <1>1 DEF TaintInv, WfInv, SoundSession, FreshSession

\* Whatever was made from what others write to is held as untrusted, however
\* many steps later, and quarantined once handed over, in every pipeline: a
\* handoff is of what a verified step made, a step is verified once, and trust
\* is the least of what an artifact was made from.
THEOREM TaintStays == WfSpec => []TaintFlowsDown
<1>1. WfInit => TaintInv
  BY WfStarts DEF WfInit, TaintInv
<1>2. TaintInv /\ [WfNext]_wfVars => TaintInv'
  <2> SUFFICES ASSUME TaintInv, [WfNext]_wfVars PROVE TaintInv'
    OBVIOUS
  <2>1. WfInv'
    BY WfStep DEF TaintInv
  <2>2. CASE /\ wfArtifacts' = wfArtifacts /\ wf'.handoffs = wf.handoffs
    BY <2>1, <2>2, TaintUnchanged
  <2> QED BY <2>2, TaintRest, TaintExecute, TaintHandoff, TaintRestart, Zenon DEF WfNext
<1>3. TaintInv => TaintFlowsDown
  BY DEF TaintInv, TaintFlowsDown, Marked, Handed
<1> QED BY <1>1, <1>2, <1>3, PTL DEF WfSpec
-----------------------------------------------------------------------------
(* The five together.                                                      *)

\* The sessions share nothing: whatever is driven, each of them behaves as it
\* does alone, so that what is proved of each holds of all.
THEOREM SessionsCompose ==
  SessionsSpec => BrowserSpec /\ AppSpec /\ DocSpec /\ ComputerSpec /\ WfSpec
<1>1. SessionsInit => BrowserInit /\ AppInit /\ DocInit /\ ComputerInit /\ WfInit
  BY DEF SessionsInit
<1>2. [SessionsNext]_sessionsVars =>
        /\ [BrowserNext]_browserVars /\ [AppNext]_appVars /\ [DocNext]_docVars
        /\ [ComputerNext]_computerVars /\ [WfNext]_wfVars
  BY Zenon DEF SessionsNext, sessionsVars
<1> QED
  BY <1>1, <1>2, PTL DEF SessionsSpec, BrowserSpec, AppSpec, DocSpec, ComputerSpec, WfSpec

SessionsInv == /\ BrowserInv /\ AppInv /\ DocInv /\ DesktopInv /\ WfInv
               /\ driven \in {"browser", "application", "documents", "computer", "workflow"}

LEMMA GuardedBrowser ==
  ASSUME driven = "browser"
  PROVE  /\ BrowserGuarded!GuardInit => Guarded!GuardInit
         /\ driven' = driven /\ [BrowserGuarded!GuardNext]_(BrowserGuarded!guardVars)
                => [Guarded!GuardNext]_(Guarded!guardVars)
<1>1. BrowserGuarded!GuardInit => Guarded!GuardInit
  BY DEF GuardOf, BrowserGuarded!GuardInit, Guarded!GuardInit, Used, Limit, ClickKeys
<1> SUFFICES ASSUME driven' = driven
             PROVE  [BrowserGuarded!GuardNext]_(BrowserGuarded!guardVars) => [Guarded!GuardNext]_(Guarded!guardVars)
  BY <1>1
<1> USE DEF GuardOf, Used, Limit, ClickKeys
<1>2. UNCHANGED BrowserGuarded!guardVars => UNCHANGED Guarded!guardVars
  BY DEF BrowserGuarded!guardVars, Guarded!guardVars
<1>3. BrowserGuarded!MayPerform => Guarded!MayPerform
  BY SMTT(30) DEF BrowserGuarded!MayPerform, Guarded!MayPerform, BrowserGuarded!PerformedKeys, Guarded!PerformedKeys
<1>4. BrowserGuarded!Work => Guarded!Work
  BY <1>3 DEF BrowserGuarded!Work, Guarded!Work
<1>5. BrowserGuarded!Renew => Guarded!Renew
  BY <1>3 DEF BrowserGuarded!Renew, Guarded!Renew
<1>6. BrowserGuarded!Resume => Guarded!Resume
  BY DEF BrowserGuarded!Resume, Guarded!Resume
<1>7. BrowserGuarded!Narrow => Guarded!Narrow
  BY DEF BrowserGuarded!Narrow, Guarded!Narrow
<1> QED BY <1>2, <1>4, <1>5, <1>6, <1>7 DEF BrowserGuarded!GuardNext, Guarded!GuardNext

LEMMA GuardedApplication ==
  ASSUME driven = "application"
  PROVE  /\ AppGuarded!GuardInit => Guarded!GuardInit
         /\ driven' = driven /\ [AppGuarded!GuardNext]_(AppGuarded!guardVars)
                => [Guarded!GuardNext]_(Guarded!guardVars)
<1>1. AppGuarded!GuardInit => Guarded!GuardInit
  BY DEF GuardOf, AppGuarded!GuardInit, Guarded!GuardInit
<1> SUFFICES ASSUME driven' = driven
             PROVE  [AppGuarded!GuardNext]_(AppGuarded!guardVars) => [Guarded!GuardNext]_(Guarded!guardVars)
  BY <1>1
<1> USE DEF GuardOf
<1>2. UNCHANGED AppGuarded!guardVars => UNCHANGED Guarded!guardVars
  BY DEF AppGuarded!guardVars, Guarded!guardVars
<1>3. AppGuarded!MayPerform => Guarded!MayPerform
  BY DEF AppGuarded!MayPerform, Guarded!MayPerform, AppGuarded!PerformedKeys, Guarded!PerformedKeys
<1>4. AppGuarded!Work => Guarded!Work
  BY <1>3 DEF AppGuarded!Work, Guarded!Work
<1>5. AppGuarded!Renew => Guarded!Renew
  BY <1>3 DEF AppGuarded!Renew, Guarded!Renew
<1>6. AppGuarded!Resume => Guarded!Resume
  BY DEF AppGuarded!Resume, Guarded!Resume
<1>7. AppGuarded!Narrow => Guarded!Narrow
  BY DEF AppGuarded!Narrow, Guarded!Narrow
<1> QED BY <1>2, <1>4, <1>5, <1>6, <1>7 DEF AppGuarded!GuardNext, Guarded!GuardNext

LEMMA GuardedDocuments ==
  ASSUME driven = "documents"
  PROVE  /\ DocGuarded!GuardInit => Guarded!GuardInit
         /\ driven' = driven /\ [DocGuarded!GuardNext]_(DocGuarded!guardVars)
                => [Guarded!GuardNext]_(Guarded!guardVars)
<1>1. DocGuarded!GuardInit => Guarded!GuardInit
  BY DEF GuardOf, DocGuarded!GuardInit, Guarded!GuardInit
<1> SUFFICES ASSUME driven' = driven
             PROVE  [DocGuarded!GuardNext]_(DocGuarded!guardVars) => [Guarded!GuardNext]_(Guarded!guardVars)
  BY <1>1
<1> USE DEF GuardOf
<1>2. UNCHANGED DocGuarded!guardVars => UNCHANGED Guarded!guardVars
  BY DEF DocGuarded!guardVars, Guarded!guardVars
<1>3. DocGuarded!MayPerform => Guarded!MayPerform
  BY DEF DocGuarded!MayPerform, Guarded!MayPerform, DocGuarded!PerformedKeys, Guarded!PerformedKeys
<1>4. DocGuarded!Work => Guarded!Work
  BY <1>3 DEF DocGuarded!Work, Guarded!Work
<1>5. DocGuarded!Renew => Guarded!Renew
  BY <1>3 DEF DocGuarded!Renew, Guarded!Renew
<1>6. DocGuarded!Resume => Guarded!Resume
  BY DEF DocGuarded!Resume, Guarded!Resume
<1>7. DocGuarded!Narrow => Guarded!Narrow
  BY DEF DocGuarded!Narrow, Guarded!Narrow
<1> QED BY <1>2, <1>4, <1>5, <1>6, <1>7 DEF DocGuarded!GuardNext, Guarded!GuardNext

LEMMA GuardedDesktop ==
  ASSUME driven = "computer"
  PROVE  /\ ComputerGuarded!GuardInit => Guarded!GuardInit
         /\ driven' = driven /\ [ComputerGuarded!GuardNext]_(ComputerGuarded!guardVars)
                => [Guarded!GuardNext]_(Guarded!guardVars)
<1>1. ComputerGuarded!GuardInit => Guarded!GuardInit
  BY DEF GuardOf, ComputerGuarded!GuardInit, Guarded!GuardInit
<1> SUFFICES ASSUME driven' = driven
             PROVE  [ComputerGuarded!GuardNext]_(ComputerGuarded!guardVars) => [Guarded!GuardNext]_(Guarded!guardVars)
  BY <1>1
<1> USE DEF GuardOf
<1>2. UNCHANGED ComputerGuarded!guardVars => UNCHANGED Guarded!guardVars
  BY DEF ComputerGuarded!guardVars, Guarded!guardVars
<1>3. ComputerGuarded!MayPerform => Guarded!MayPerform
  BY DEF ComputerGuarded!MayPerform, Guarded!MayPerform, ComputerGuarded!PerformedKeys, Guarded!PerformedKeys
<1>4. ComputerGuarded!Work => Guarded!Work
  BY <1>3 DEF ComputerGuarded!Work, Guarded!Work
<1>5. ComputerGuarded!Renew => Guarded!Renew
  BY <1>3 DEF ComputerGuarded!Renew, Guarded!Renew
<1>6. ComputerGuarded!Resume => Guarded!Resume
  BY DEF ComputerGuarded!Resume, Guarded!Resume
<1>7. ComputerGuarded!Narrow => Guarded!Narrow
  BY DEF ComputerGuarded!Narrow, Guarded!Narrow
<1> QED BY <1>2, <1>4, <1>5, <1>6, <1>7 DEF ComputerGuarded!GuardNext, Guarded!GuardNext

LEMMA GuardedWorkflow ==
  ASSUME driven = "workflow"
  PROVE  /\ WfGuarded!GuardInit => Guarded!GuardInit
         /\ driven' = driven /\ [WfGuarded!GuardNext]_(WfGuarded!guardVars)
                => [Guarded!GuardNext]_(Guarded!guardVars)
<1>1. WfGuarded!GuardInit => Guarded!GuardInit
  BY DEF GuardOf, WfGuarded!GuardInit, Guarded!GuardInit
<1> SUFFICES ASSUME driven' = driven
             PROVE  [WfGuarded!GuardNext]_(WfGuarded!guardVars) => [Guarded!GuardNext]_(Guarded!guardVars)
  BY <1>1
<1> USE DEF GuardOf
<1>2. UNCHANGED WfGuarded!guardVars => UNCHANGED Guarded!guardVars
  BY DEF WfGuarded!guardVars, Guarded!guardVars
<1>3. WfGuarded!MayPerform => Guarded!MayPerform
  BY DEF WfGuarded!MayPerform, Guarded!MayPerform, WfGuarded!PerformedKeys, Guarded!PerformedKeys
<1>4. WfGuarded!Work => Guarded!Work
  BY <1>3 DEF WfGuarded!Work, Guarded!Work
<1>5. WfGuarded!Renew => Guarded!Renew
  BY <1>3 DEF WfGuarded!Renew, Guarded!Renew
<1>6. WfGuarded!Resume => Guarded!Resume
  BY DEF WfGuarded!Resume, Guarded!Resume
<1>7. WfGuarded!Narrow => Guarded!Narrow
  BY DEF WfGuarded!Narrow, Guarded!Narrow
<1> QED BY <1>2, <1>4, <1>5, <1>6, <1>7 DEF WfGuarded!GuardNext, Guarded!GuardNext
LEMMA SessionsStart ==
  SessionsInit => SessionsInv /\ Guarded!GuardInit
<1> SUFFICES ASSUME SessionsInit PROVE SessionsInv /\ Guarded!GuardInit
  OBVIOUS
<1>1. /\ BrowserInv /\ BrowserGuarded!GuardInit /\ AppInv /\ AppGuarded!GuardInit
      /\ DocInv /\ DocGuarded!GuardInit /\ DesktopInv /\ ComputerGuarded!GuardInit
      /\ WfInv /\ WfGuarded!GuardInit
  BY BrowserStarts, AppStarts, DocStarts, DesktopStarts, WfStarts DEF SessionsInit
<1>2. driven \in {"browser", "application", "documents", "computer", "workflow"}
  BY DEF SessionsInit
<1>3. Guarded!GuardInit
  BY <1>1, <1>2, GuardedBrowser, GuardedApplication, GuardedDocuments, GuardedDesktop,
     GuardedWorkflow
<1> QED BY <1>1, <1>2, <1>3 DEF SessionsInv

LEMMA SessionsStep ==
  ASSUME SessionsInv, [SessionsNext]_sessionsVars
  PROVE  SessionsInv' /\ [Guarded!GuardNext]_(Guarded!guardVars)
<1>1. /\ [BrowserNext]_browserVars /\ [AppNext]_appVars /\ [DocNext]_docVars
      /\ [ComputerNext]_computerVars /\ [WfNext]_wfVars /\ driven' = driven
  BY Zenon DEF SessionsNext, sessionsVars
<1>2. BrowserInv' /\ [BrowserGuarded!GuardNext]_(BrowserGuarded!guardVars)
  BY <1>1, BrowserStep DEF SessionsInv
<1>3. AppInv' /\ [AppGuarded!GuardNext]_(AppGuarded!guardVars)
  BY <1>1, AppStep DEF SessionsInv
<1>4. DocInv' /\ [DocGuarded!GuardNext]_(DocGuarded!guardVars)
  BY <1>1, DocStep DEF SessionsInv
<1>5. DesktopInv' /\ [ComputerGuarded!GuardNext]_(ComputerGuarded!guardVars)
  BY <1>1, ComputerStep DEF SessionsInv
<1>6. WfInv' /\ [WfGuarded!GuardNext]_(WfGuarded!guardVars)
  BY <1>1, WfStep DEF SessionsInv
<1>7. SessionsInv'
  BY <1>1, <1>2, <1>3, <1>4, <1>5, <1>6 DEF SessionsInv
<1>8. driven \in {"browser", "application", "documents", "computer", "workflow"}
  BY DEF SessionsInv
<1>9. [Guarded!GuardNext]_(Guarded!guardVars)
  BY <1>1, <1>2, <1>3, <1>4, <1>5, <1>6, <1>8, GuardedBrowser, GuardedApplication,
     GuardedDocuments, GuardedDesktop, GuardedWorkflow
<1> QED BY <1>7, <1>9

\* Whichever of the five a process drives, it keeps the one promise: the budget
\* is not overdrawn, a mutation on record is not performed again, in this process
\* or in one that starts from its checkpoint, and nothing is on record that was
\* not performed.
THEOREM SessionsAreGuarded == SessionsSpec => ImplementsGuardedSession
  BY SessionsStart, SessionsStep, PTL
  DEF SessionsSpec, ImplementsGuardedSession, Guarded!GuardSpec
=============================================================================
