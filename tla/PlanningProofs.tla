--------------------------- MODULE PlanningProofs ---------------------------
(***************************************************************************)
(* Proofs about the plans that are made and changed beside ExecutionEngine: *)
(* the adaptive executor, for every plan, replacement and bound, and the   *)
(* graphs of tasks, for every submission of any size.                      *)
(***************************************************************************)
EXTENDS AdaptiveExecution, TaskGraphs, SequenceTheorems, FiniteSetTheorems,
        WellFoundedInduction, TLAPS

-----------------------------------------------------------------------------
\* The adaptive executor: what a replacement does to the steps.

\* What is left of a sequence before and after one of its places.
LEMMA CutBefore ==
  ASSUME NEW S, NEW s \in Seq(S), NEW k \in 1..Len(s)
  PROVE  /\ SubSeq(s, 1, k - 1) \in Seq(S) /\ Len(SubSeq(s, 1, k - 1)) = k - 1
         /\ \A i \in 1..(k - 1) : SubSeq(s, 1, k - 1)[i] = s[i]
<1>1. k \in Nat /\ k - 1 \in Int /\ 1 \in Int /\ Len(s) \in Nat /\ k <= Len(s) /\ 1 <= k
  OBVIOUS
<1>2. \A i \in 1..(k - 1) : s[i] \in S
  BY <1>1, ElementOfSeq
<1>3. /\ SubSeq(s, 1, k - 1) \in Seq(S)
      /\ Len(SubSeq(s, 1, k - 1)) = IF 1 <= k - 1 THEN k - 1 - 1 + 1 ELSE 0
      /\ \A i \in 1..(k - 1 - 1 + 1) : SubSeq(s, 1, k - 1)[i] = s[1 + i - 1]
  BY <1>1, <1>2, SubSeqProperties
<1> QED BY <1>1, <1>3

LEMMA CutAfter ==
  ASSUME NEW S, NEW s \in Seq(S), NEW k \in 1..Len(s)
  PROVE  /\ SubSeq(s, k + 1, Len(s)) \in Seq(S)
         /\ Len(SubSeq(s, k + 1, Len(s))) = Len(s) - k
         /\ \A i \in 1..(Len(s) - k) : SubSeq(s, k + 1, Len(s))[i] = s[k + i]
<1>1. k \in Nat /\ k + 1 \in Int /\ Len(s) \in Nat /\ Len(s) \in Int /\ k <= Len(s) /\ 1 <= k
  OBVIOUS
<1>2. \A i \in (k + 1)..Len(s) : s[i] \in S
  BY <1>1, ElementOfSeq
<1>3. /\ SubSeq(s, k + 1, Len(s)) \in Seq(S)
      /\ Len(SubSeq(s, k + 1, Len(s))) =
            IF k + 1 <= Len(s) THEN Len(s) - (k + 1) + 1 ELSE 0
      /\ \A i \in 1..(Len(s) - (k + 1) + 1) :
            SubSeq(s, k + 1, Len(s))[i] = s[k + 1 + i - 1]
  BY <1>1, <1>2, SubSeqProperties
<1> DEFINE after == SubSeq(s, k + 1, Len(s))
           n == Len(s)
<1> HIDE DEF after, n
<1>4. /\ n \in Nat /\ k \in Nat /\ k <= n /\ after \in Seq(S)
      /\ Len(after) = IF k + 1 <= n THEN n - (k + 1) + 1 ELSE 0
      /\ \A i \in 1..(n - (k + 1) + 1) : after[i] = s[k + 1 + i - 1]
  BY <1>1, <1>3 DEF after, n
<1>5. Len(after) = n - k
  BY <1>4
<1>6. ASSUME NEW i \in 1..(n - k) PROVE after[i] = s[k + i]
  <2>1. k + 1 + i - 1 = k + i /\ i \in 1..(n - (k + 1) + 1)
    BY <1>4
  <2> QED BY <1>4, <2>1
<1> QED BY <1>4, <1>5, <1>6 DEF after, n

\* The steps before the failed one stay where they are, and none but the failed
\* one gets lost.
LEMMA SpliceSteps ==
  ASSUME NEW seq \in Seq(PlanStep), run.steps \in Seq(PlanStep),
         run.index \in 1..Len(run.steps)
  PROVE  /\ Splice(seq) \in Seq(PlanStep) /\ run.index <= Len(Splice(seq)) + 1
         /\ \A i \in 1..(run.index - 1) : Splice(seq)[i] = run.steps[i]
         /\ \A i \in DOMAIN run.steps \ {run.index} :
              \E j \in DOMAIN Splice(seq) : Splice(seq)[j] = run.steps[i]
<1> DEFINE n == Len(run.steps)
           k == run.index
           before == SubSeq(run.steps, 1, k - 1)
           after == SubSeq(run.steps, k + 1, n)
           m == Len(seq)
<1>1. n \in Nat /\ k \in 1..n /\ m \in Nat /\ DOMAIN run.steps = 1..n
  OBVIOUS
<1>2. /\ before \in Seq(PlanStep) /\ Len(before) = k - 1
      /\ \A i \in 1..(k - 1) : before[i] = run.steps[i]
  BY CutBefore
<1>3. /\ after \in Seq(PlanStep) /\ Len(after) = n - k
      /\ \A i \in 1..(n - k) : after[i] = run.steps[k + i]
  BY CutAfter
<1>4. Splice(seq) = before \o seq \o after /\ m = Len(seq)
  BY DEF Splice
<1> HIDE DEF n, k, before, after, m
<1> DEFINE head == before \o seq
<1>5. /\ head \in Seq(PlanStep) /\ Len(head) = k - 1 + m
      /\ \A i \in 1..(k - 1) : head[i] = before[i]
  <2>1. /\ head \in Seq(PlanStep) /\ Len(head) = Len(before) + Len(seq)
        /\ \A i \in 1..(Len(before) + Len(seq)) :
              head[i] = IF i <= Len(before) THEN before[i] ELSE seq[i - Len(before)]
    BY <1>2, ConcatProperties
  <2> QED BY <1>1, <1>2, <1>4, <2>1
<1> HIDE DEF head
<1>6. /\ Splice(seq) \in Seq(PlanStep) /\ Len(Splice(seq)) = k - 1 + m + (n - k)
      /\ \A i \in 1..(k - 1 + m) : Splice(seq)[i] = head[i]
      /\ \A i \in 1..(n - k) : Splice(seq)[k - 1 + m + i] = after[i]
  <2>1. Splice(seq) = head \o after
    BY <1>4 DEF head
  <2>2. /\ head \o after \in Seq(PlanStep) /\ Len(head \o after) = Len(head) + Len(after)
        /\ \A i \in 1..(Len(head) + Len(after)) :
              (head \o after)[i] = IF i <= Len(head) THEN head[i] ELSE after[i - Len(head)]
    BY <1>3, <1>5, ConcatProperties
  <2> DEFINE joined == head \o after
  <2> HIDE DEF joined
  <2>3. /\ joined \in Seq(PlanStep) /\ Len(joined) = k - 1 + m + (n - k)
        /\ \A i \in 1..(k - 1 + m) : joined[i] = head[i]
        /\ \A i \in 1..(n - k) : joined[k - 1 + m + i] = after[i]
    <3>1. /\ joined \in Seq(PlanStep) /\ Len(joined) = k - 1 + m + (n - k)
          /\ \A i \in 1..(k - 1 + m + (n - k)) :
                joined[i] = IF i <= k - 1 + m THEN head[i] ELSE after[i - (k - 1 + m)]
      BY <1>3, <1>5, <2>2 DEF joined
    <3>2. ASSUME NEW i \in 1..(k - 1 + m) PROVE joined[i] = head[i]
      BY <1>1, <3>1
    <3>3. ASSUME NEW i \in 1..(n - k) PROVE joined[k - 1 + m + i] = after[i]
      <4> n \in Int /\ k \in Int /\ m \in Int /\ i \in Int /\ 1 <= k /\ 0 <= m /\ 1 <= i /\ i <= n - k
        BY <1>1
      <4>1. /\ k - 1 + m + i \in 1..(k - 1 + m + (n - k)) /\ ~(k - 1 + m + i <= k - 1 + m)
            /\ k - 1 + m + i - (k - 1 + m) = i
        BY <1>1
      <4> QED BY <3>1, <4>1
    <3> QED BY <3>1, <3>2, <3>3
  <2>4. Splice(seq) = joined
    BY <2>1 DEF joined
  <2> QED BY <2>3, <2>4
<1>7. \A i \in 1..(k - 1) : Splice(seq)[i] = run.steps[i]
  BY <1>1, <1>2, <1>5, <1>6
<1>8. ASSUME NEW i \in DOMAIN run.steps \ {k}
      PROVE  \E j \in DOMAIN Splice(seq) : Splice(seq)[j] = run.steps[i]
  <2>1. DOMAIN Splice(seq) = 1..(k - 1 + m + (n - k))
    BY <1>6
  <2>2. CASE i \in 1..(k - 1)
    BY <1>1, <1>7, <2>1, <2>2
  <2>3. CASE i \in (k + 1)..n
    <3>1. i - k \in 1..(n - k) /\ k + (i - k) = i
      BY <1>1, <2>3
    <3>2. Splice(seq)[k - 1 + m + (i - k)] = run.steps[i]
      BY <1>3, <1>6, <3>1
    <3>3. k - 1 + m + (i - k) \in DOMAIN Splice(seq)
      BY <1>1, <2>1, <3>1
    <3> QED BY <3>2, <3>3
  <2> QED BY <1>1, <2>2, <2>3
<1> QED BY <1>1, <1>6, <1>7, <1>8 DEF k

-----------------------------------------------------------------------------
\* The adaptive executor's invariant.

\* Each step of the caller's plan is still among the steps or was taken out.
PlanAccounted ==
  \A i \in DOMAIN plan : \/ plan[i] \in replaced
                         \/ \E j \in DOMAIN run.steps : run.steps[j] = plan[i]

\* The local variables of a call.
RunState == [place : {"idle", "child", "observed", "exhausted"}, steps : Seq(PlanStep),
             index : Nat, attempt : Nat, replans : Nat, retries : Nat, allowed : Nat,
             approved : BOOLEAN, replanner : BOOLEAN, state : Ended \cup {"none"},
             success : BOOLEAN]

AdaptedTyped ==
  /\ plan \in Plans /\ plan \in Seq(PlanStep)
  /\ DOMAIN children \subseteq ChildId
  /\ \A c \in DOMAIN children : children[c].state \in ChildState
  /\ chain \in BOOLEAN /\ run \in RunState
  /\ run.index \in 1..(Len(run.steps) + 1)
  /\ result \in Ended \cup {"none"} /\ adaptations \in 0..MaxAdaptiveCalls

Progressed ==
  /\ run.place \in {"observed", "exhausted"} => run.index <= Len(run.steps)
  /\ \A i \in 1..(run.index - 1) : run.steps[i] \in proved
  /\ run.place = "observed" /\ run.state = "verified" /\ run.success => Step \in proved
  /\ run.place # "idle" => result = "none" /\ PlanAccounted
  /\ result = "verified" => run.index > Len(run.steps) /\ PlanAccounted

AdaptedInv == AdaptedTyped /\ Progressed

LEMMA AdaptedInit == AdaptiveInit => AdaptedInv
<1> SUFFICES ASSUME AdaptiveInit PROVE AdaptedInv
  OBVIOUS
<1>1. plan \in Seq(PlanStep)
  BY AdaptiveAssumption DEF AdaptiveInit
<1>2. Outside \in RunState /\ Outside.index = 1 /\ Outside.steps = <<>>
      /\ Outside.place = "idle"
  BY DEF Outside, RunState
<1>3. AdaptedTyped
  BY <1>1, <1>2, AdaptiveAssumption DEF AdaptiveInit, AdaptedTyped
<1>4. Progressed
  BY <1>2 DEF AdaptiveInit, Progressed, Ended
<1> QED BY <1>3, <1>4 DEF AdaptedInv

LEMMA CallAdapted ==
  ASSUME AdaptedInv, AdaptiveCall
  PROVE  AdaptedInv'
<1>1. PICK retries \in RetryBounds, allowed \in ReplanBounds, approved \in BOOLEAN,
           replanner \in BOOLEAN :
        run' = [Outside EXCEPT !.place = IF chain THEN "child" ELSE "idle", !.steps = plan,
                               !.retries = retries, !.allowed = allowed,
                               !.approved = approved, !.replanner = replanner]
  BY DEF AdaptiveCall
<1>2. /\ run' = [place |-> IF chain THEN "child" ELSE "idle", steps |-> plan, index |-> 1,
                 attempt |-> 1, replans |-> 0, retries |-> retries, allowed |-> allowed,
                 approved |-> approved, replanner |-> replanner, state |-> "none",
                 success |-> FALSE]
      /\ plan' = plan /\ children' = children /\ chain' = chain /\ replaced' = {}
      /\ result' = IF chain THEN "none" ELSE "blocked"
      /\ adaptations < MaxAdaptiveCalls /\ adaptations' = adaptations + 1
  BY <1>1 DEF AdaptiveCall, Outside
<1>3. retries \in Nat /\ allowed \in Nat /\ plan \in Seq(PlanStep)
  BY AdaptiveAssumption DEF AdaptedInv, AdaptedTyped
<1>4. run' \in RunState
  BY <1>2, <1>3 DEF RunState
<1>5. adaptations' \in 0..MaxAdaptiveCalls
  BY <1>2, AdaptiveAssumption DEF AdaptedInv, AdaptedTyped
<1>6. run'.index \in 1..(Len(run'.steps) + 1)
  BY <1>2, <1>3
<1>7. AdaptedTyped'
  BY <1>2, <1>4, <1>5, <1>6 DEF AdaptedInv, AdaptedTyped, Ended
<1>8. PlanAccounted'
  BY <1>2 DEF PlanAccounted
<1>9. Progressed'
  BY <1>2, <1>8 DEF Progressed
<1> QED BY <1>7, <1>9 DEF AdaptedInv

\* What a child's step leaves on disk is typed.
LEMMA LeavesTyped ==
  ASSUME AdaptedTyped, InLoop, NEW state \in ChildState, Leaves(state)
  PROVE  /\ DOMAIN children' \subseteq ChildId
         /\ \A c \in DOMAIN children' : children'[c].state \in ChildState
<1>1. run.steps \in Seq(PlanStep) /\ run.index \in 1..Len(run.steps)
      /\ run.replans \in Nat /\ run.attempt \in Nat
  BY DEF AdaptedTyped, RunState, InLoop
<1>2. Step \in PlanStep
  BY <1>1 DEF Step
<1>3. ThisChild \in ChildId
  BY <1>1, <1>2 DEF ThisChild, ChildId
<1>4. DOMAIN children' = DOMAIN children \cup {ThisChild}
  BY DEF Leaves
<1>5. ASSUME NEW c \in DOMAIN children' PROVE children'[c].state \in ChildState
  BY <1>4, <1>5 DEF Leaves, AdaptedTyped
<1> QED BY <1>3, <1>4, <1>5 DEF AdaptedTyped

\* A child is observed: the step is verified with a result of its own only when
\* its tool ran and was verified.
LEMMA ObservedAdapted ==
  ASSUME AdaptedInv, InLoop, NEW state \in Ended, NEW success \in BOOLEAN,
         Observes(state, success),
         UNCHANGED <<plan, chain, result, adaptations, replaced>>,
         proved \subseteq proved', state = "verified" /\ success => Step \in proved',
         DOMAIN children' \subseteq ChildId,
         \A c \in DOMAIN children' : children'[c].state \in ChildState
  PROVE  AdaptedInv'
<1>1. /\ run' = [run EXCEPT !.place = "observed", !.state = state, !.success = success]
      /\ run \in RunState /\ run.index \in 1..Len(run.steps)
  BY DEF Observes, AdaptedInv, AdaptedTyped, RunState, InLoop
<1>2. /\ run' \in RunState /\ run'.steps = run.steps /\ run'.index = run.index
      /\ run'.place = "observed" /\ run'.state = state /\ run'.success = success
  BY <1>1 DEF RunState
<1>3. AdaptedTyped'
  BY <1>2 DEF AdaptedInv, AdaptedTyped
<1>4. Step' = Step
  BY <1>2 DEF Step
<1>5. run.place # "idle" /\ result = "none" /\ PlanAccounted
  BY DEF InLoop, AdaptedInv, Progressed
<1>6. PlanAccounted'
  BY <1>2, <1>5 DEF PlanAccounted
<1>7. Progressed'
  BY <1>1, <1>2, <1>4, <1>5, <1>6 DEF AdaptedInv, Progressed
<1> QED BY <1>3, <1>7 DEF AdaptedInv

LEMMA ChildAdapted ==
  ASSUME AdaptedInv, ChildRuns \/ ChildRefuses \/ ChildRecalls
  PROVE  AdaptedInv'
<1>1. AdaptedTyped /\ InLoop
  BY DEF AdaptedInv, ChildRuns, ChildRefuses, ChildRecalls
<1>2. CASE ChildRuns
  <2>1. PICK success \in BOOLEAN :
          LET state == IF success THEN "verified" ELSE "failed"
          IN  /\ Leaves(state) /\ Observes(state, success)
              /\ proved' = IF success THEN proved \cup {Step} ELSE proved
    BY <1>2 DEF ChildRuns
  <2>2. CASE success
    <3>1. /\ Leaves("verified") /\ Observes("verified", success)
          /\ proved' = proved \cup {Step}
      BY <2>1, <2>2
    <3> QED BY <1>1, <1>2, <3>1, LeavesTyped, ObservedAdapted
            DEF ChildRuns, ChildState, Ended
  <2>3. CASE ~success
    <3>1. Leaves("failed") /\ Observes("failed", success) /\ proved' = proved
      BY <2>1, <2>3
    <3> QED BY <1>1, <1>2, <3>1, LeavesTyped, ObservedAdapted
            DEF ChildRuns, ChildState, Ended
  <2> QED BY <2>2, <2>3
<1>3. CASE ChildRefuses
  BY <1>1, <1>3, LeavesTyped, ObservedAdapted DEF ChildRefuses, ChildState, Ended
<1>4. CASE ChildRecalls
  <2>1. Observes(Recalled, FALSE) /\ UNCHANGED <<plan, chain, result, adaptations, replaced>>
        /\ proved' = proved /\ (Leaves("verified") \/ UNCHANGED children)
    BY <1>4 DEF ChildRecalls
  <2>2. Recalled \in Ended
    BY DEF Recalled, Ended
  <2>3. /\ DOMAIN children' \subseteq ChildId
        /\ \A c \in DOMAIN children' : children'[c].state \in ChildState
    BY <1>1, <2>1, LeavesTyped DEF AdaptedTyped, ChildState
  <2> HIDE DEF Recalled
  <2> QED BY <1>1, <2>1, <2>2, <2>3, ObservedAdapted
<1> QED BY <1>2, <1>3, <1>4

\* A call that ends without being verified.
LEMMA EndsAdapted ==
  ASSUME AdaptedInv, NEW state \in (Ended \ {"verified"}) \cup {"none"}, Ends(state),
         UNCHANGED <<plan, adaptations, proved, replaced>>, chain' \in BOOLEAN,
         DOMAIN children' \subseteq ChildId,
         \A c \in DOMAIN children' : children'[c].state \in ChildState
  PROVE  AdaptedInv'
<1>1. /\ run' \in RunState /\ run'.steps = run.steps /\ run'.index = run.index
      /\ run'.place = "idle" /\ result' = state /\ state # "verified"
  BY DEF Ends, AdaptedInv, AdaptedTyped, RunState, Ended
<1>2. AdaptedTyped'
  BY <1>1 DEF AdaptedInv, AdaptedTyped
<1>3. Progressed'
  BY <1>1 DEF AdaptedInv, Progressed
<1> QED BY <1>2, <1>3 DEF AdaptedInv

LEMMA VerdictAdapted ==
  ASSUME AdaptedInv, StepVerified \/ Retry
  PROVE  AdaptedInv'
<1>1. /\ AdaptedTyped /\ run \in RunState /\ run.steps \in Seq(PlanStep)
      /\ run.index \in 1..Len(run.steps) /\ run.place # "idle"
      /\ result = "none" /\ PlanAccounted /\ run.attempt + 1 \in Nat
      /\ run.index + 1 \in Nat
  BY DEF AdaptedInv, AdaptedTyped, Progressed, RunState, StepVerified, Retry, Unsuccessful
<1>2. UNCHANGED <<plan, children, chain, result, adaptations, proved, replaced>>
  BY DEF StepVerified, Retry
<1>3. CASE StepVerified
  <2>1. /\ run' = [run EXCEPT !.place = "child", !.index = @ + 1, !.attempt = 1]
        /\ run.place = "observed" /\ run.state = "verified" /\ run.success
    BY <1>3 DEF StepVerified
  <2>2. /\ run' \in RunState /\ run'.steps = run.steps /\ run'.index = run.index + 1
        /\ run'.place = "child"
    BY <1>1, <2>1 DEF RunState
  <2>3. run.steps[run.index] \in proved
    BY <2>1 DEF AdaptedInv, Progressed, Step
  <2>4. AdaptedTyped'
    BY <1>1, <1>2, <2>2 DEF AdaptedTyped
  <2>5. PlanAccounted'
    BY <1>1, <1>2, <2>2 DEF PlanAccounted
  <2>6. \A i \in 1..(run'.index - 1) : run'.steps[i] \in proved'
    BY <1>1, <1>2, <2>2, <2>3 DEF AdaptedInv, Progressed
  <2>7. Progressed'
    BY <1>1, <1>2, <2>2, <2>5, <2>6 DEF Progressed
  <2> QED BY <2>4, <2>7 DEF AdaptedInv
<1>4. CASE Retry
  <2>1. run' \in {[run EXCEPT !.place = "child", !.attempt = @ + 1],
                  [run EXCEPT !.place = "exhausted"]}
    BY <1>4 DEF Retry
  <2>2. /\ run' \in RunState /\ run'.steps = run.steps /\ run'.index = run.index
        /\ run'.place \in {"child", "exhausted"}
    BY <1>1, <2>1 DEF RunState
  <2>3. AdaptedTyped'
    BY <1>1, <1>2, <2>2 DEF AdaptedTyped
  <2>4. PlanAccounted'
    BY <1>1, <1>2, <2>2 DEF PlanAccounted
  <2>5. Progressed'
    BY <1>1, <1>2, <2>2, <2>4 DEF AdaptedInv, Progressed
  <2> QED BY <2>3, <2>5 DEF AdaptedInv
<1> QED BY <1>3, <1>4

LEMMA ReplanAdapted ==
  ASSUME AdaptedInv, Replan
  PROVE  AdaptedInv'
<1>1. /\ AdaptedTyped /\ run \in RunState /\ run.steps \in Seq(PlanStep)
      /\ run.index \in 1..Len(run.steps) /\ run.place = "exhausted"
      /\ result = "none" /\ PlanAccounted /\ run.replans + 1 \in Nat
      /\ \A i \in 1..(run.index - 1) : run.steps[i] \in proved
  BY DEF AdaptedInv, AdaptedTyped, Progressed, RunState, Replan
<1>2. UNCHANGED <<plan, children, chain, adaptations, proved>>
  BY DEF Replan
<1>3. PICK seq \in Replacements :
        IF Checked(seq) = "accepted"
          THEN /\ run' = [run EXCEPT !.place = "child", !.steps = Splice(seq),
                                     !.attempt = 1, !.replans = @ + 1]
               /\ replaced' = replaced \cup {Step}
               /\ UNCHANGED result
          ELSE /\ Ends(Checked(seq))
               /\ UNCHANGED replaced
  BY DEF Replan
<1>4. seq \in Seq(PlanStep)
  BY AdaptiveAssumption
<1>5. Checked(seq) \in {"failed", "blocked", "accepted"}
  BY DEF Checked
<1> HIDE DEF Checked
<1>6. CASE Checked(seq) # "accepted"
  <2>1. Checked(seq) \in (Ended \ {"verified"}) \cup {"none"}
    BY <1>5, <1>6 DEF Ended
  <2>2. Ends(Checked(seq)) /\ UNCHANGED replaced
    BY <1>3, <1>6
  <2> QED BY <1>1, <1>2, <2>1, <2>2, EndsAdapted DEF AdaptedTyped
<1>7. CASE Checked(seq) = "accepted"
  <2>1. /\ run' = [run EXCEPT !.place = "child", !.steps = Splice(seq),
                              !.attempt = 1, !.replans = @ + 1]
        /\ replaced' = replaced \cup {Step} /\ result' = result
    BY <1>3, <1>7
  <2>2. /\ Splice(seq) \in Seq(PlanStep) /\ run.index <= Len(Splice(seq)) + 1
        /\ \A i \in 1..(run.index - 1) : Splice(seq)[i] = run.steps[i]
        /\ \A i \in DOMAIN run.steps \ {run.index} :
              \E j \in DOMAIN Splice(seq) : Splice(seq)[j] = run.steps[i]
    BY <1>1, <1>4, SpliceSteps
  <2> HIDE DEF Splice
  <2>3. /\ run' \in RunState /\ run'.steps = Splice(seq) /\ run'.index = run.index
        /\ run'.place = "child"
    BY <1>1, <2>1, <2>2 DEF RunState
  <2>4. run'.index \in 1..(Len(run'.steps) + 1)
    BY <1>1, <2>2, <2>3
  <2>5. AdaptedTyped'
    BY <1>1, <1>2, <2>1, <2>3, <2>4 DEF AdaptedTyped
  <2>6. ASSUME NEW i \in DOMAIN plan
        PROVE  plan[i] \in replaced' \/ \E j \in DOMAIN Splice(seq) : Splice(seq)[j] = plan[i]
    <3>1. CASE plan[i] \in replaced
      BY <2>1, <3>1
    <3>2. CASE \E j \in DOMAIN run.steps : run.steps[j] = plan[i]
      <4>1. PICK j \in DOMAIN run.steps : run.steps[j] = plan[i]
        BY <3>2
      <4>2. CASE j = run.index
        BY <2>1, <4>1, <4>2 DEF Step
      <4>3. CASE j # run.index
        BY <2>2, <4>1, <4>3
      <4> QED BY <4>2, <4>3
    <3> QED BY <1>1, <3>1, <3>2 DEF PlanAccounted
  <2>7. PlanAccounted'
    BY <1>2, <2>3, <2>6 DEF PlanAccounted
  <2>8. \A i \in 1..(run'.index - 1) : run'.steps[i] \in proved'
    BY <1>1, <1>2, <2>2, <2>3
  <2>9. Progressed'
    BY <1>1, <2>1, <2>3, <2>7, <2>8 DEF Progressed
  <2> QED BY <2>5, <2>9 DEF AdaptedInv
<1> QED BY <1>6, <1>7

LEMMA CompletedAdapted ==
  ASSUME AdaptedInv, TaskCompleted
  PROVE  AdaptedInv'
<1>1. /\ run' \in RunState /\ run'.steps = run.steps /\ run'.index = run.index
      /\ run'.place = "idle" /\ result' = "verified" /\ run.index > Len(run.steps)
      /\ PlanAccounted
      /\ UNCHANGED <<plan, children, chain, adaptations, proved, replaced>>
  BY DEF TaskCompleted, Ends, AdaptedInv, AdaptedTyped, Progressed, RunState
<1>2. AdaptedTyped'
  BY <1>1 DEF AdaptedInv, AdaptedTyped, Ended
<1>3. PlanAccounted'
  BY <1>1 DEF PlanAccounted
<1>4. Progressed'
  BY <1>1, <1>3 DEF AdaptedInv, Progressed
<1> QED BY <1>2, <1>4 DEF AdaptedInv

LEMMA CrashAdapted ==
  ASSUME AdaptedInv, AdaptiveCrash
  PROVE  AdaptedInv'
<1>1. /\ Ends("none") /\ UNCHANGED <<plan, adaptations, proved, replaced>>
      /\ chain' \in BOOLEAN
  BY DEF AdaptiveCrash, AdaptedInv, AdaptedTyped
<1>2. /\ DOMAIN children' \subseteq ChildId
      /\ \A c \in DOMAIN children' : children'[c].state \in ChildState
  <2>1. CASE UNCHANGED children
    BY <2>1 DEF AdaptedInv, AdaptedTyped
  <2>2. CASE InLoop /\ \E state \in CutOff(OnDisk) : Leaves(state)
    <3>1. OnDisk \in ChildState
      BY DEF OnDisk, AdaptedInv, AdaptedTyped, ChildState
    <3>2. CutOff(OnDisk) \subseteq ChildState
      BY <3>1 DEF CutOff, ChildState
    <3> QED BY <2>2, <3>2, LeavesTyped DEF AdaptedInv
  <2> QED BY <2>1, <2>2 DEF AdaptiveCrash
<1> QED BY <1>1, <1>2, EndsAdapted

LEMMA AdaptedStep == AdaptedInv /\ [AdaptiveNext]_adaptiveVars => AdaptedInv'
<1> SUFFICES ASSUME AdaptedInv, [AdaptiveNext]_adaptiveVars PROVE AdaptedInv'
  OBVIOUS
<1>1. CASE NoReplan
  BY <1>1, EndsAdapted DEF NoReplan, Ended, AdaptedInv, AdaptedTyped
<1>2. CASE AdaptationBlocked
  BY <1>2, EndsAdapted DEF AdaptationBlocked, Ended, AdaptedInv, AdaptedTyped
<1>3. CASE UNCHANGED adaptiveVars
  BY <1>3 DEF adaptiveVars, AdaptedInv, AdaptedTyped, Progressed, PlanAccounted, Step
<1> QED BY <1>1, <1>2, <1>3, CallAdapted, ChildAdapted, VerdictAdapted, ReplanAdapted,
           CompletedAdapted, CrashAdapted DEF AdaptiveNext

THEOREM AdaptedInvariant == AdaptiveSpec => []AdaptedInv
  BY AdaptedInit, AdaptedStep, PTL DEF AdaptiveSpec

\* The types of the adaptive executor.
THEOREM AdaptiveTypes == AdaptiveSpec => []AdaptiveTypeOK
<1>1. AdaptedInv => AdaptiveTypeOK
  BY DEF AdaptedInv, AdaptedTyped, RunState, AdaptiveTypeOK
<1> QED BY <1>1, AdaptedInvariant, PTL

\* A call that reports verified has verified, itself, every step of what its plan
\* became, for any plans, replanners, retries and crashes (execute_adaptive_plan).
THEOREM AdaptedIsVerified == AdaptiveSpec => []AdaptedPlanIsVerified
<1>1. AdaptedInv => AdaptedPlanIsVerified
  <2> SUFFICES ASSUME AdaptedInv PROVE AdaptedPlanIsVerified
    OBVIOUS
  <2>1. \A i \in 1..(run.index - 1) : run.steps[i] \in proved
    BY DEF AdaptedInv, Progressed
  <2>2. ASSUME result = "verified"
        PROVE  /\ \A i \in DOMAIN run.steps : run.steps[i] \in proved
               /\ \A i \in DOMAIN plan : plan[i] \in proved \cup replaced
    <3>1. run.steps \in Seq(PlanStep) /\ run.index \in Nat /\ run.index > Len(run.steps)
      BY <2>2 DEF AdaptedInv, AdaptedTyped, RunState, Progressed
    <3>2. \A i \in DOMAIN run.steps : run.steps[i] \in proved
      BY <2>1, <3>1
    <3> QED BY <2>2, <3>2 DEF AdaptedInv, Progressed, PlanAccounted
  <2> QED BY <2>1, <2>2 DEF AdaptedPlanIsVerified
<1> QED BY <1>1, AdaptedInvariant, PTL
-----------------------------------------------------------------------------
(* Task graphs: sequences without repetition, tables and ranks. *)

LEMMA LeastNatural ==
  ASSUME NEW T \in SUBSET Nat, T # {}
  PROVE  \E x \in T : \A y \in T : x <= y
<1>1. PICK x \in T : \A y \in T : <<y, x>> \notin OpToRel(<, Nat)
  BY NatLessThanWellFounded, WFMin
<1>2. \A n, m \in Nat : n < m => <<n, m>> \in OpToRel(<, Nat)
  <2>1. OpToRel(<, Nat) = {pair \in Nat \X Nat : pair[1] < pair[2]}
    BY Zenon DEF OpToRel
  <2>2. \A n, m \in Nat : n < m => <<n, m>> \in {pair \in Nat \X Nat : pair[1] < pair[2]}
    OBVIOUS
  <2> QED
    BY <2>1, <2>2, Zenon
<1>3. \A y \in T : ~(y < x)
  BY <1>1, <1>2, Zenon
<1> QED
  BY <1>3

\* Each row of a table is made of the one before it.
IsTable(f, n, X, base, step) ==
  /\ f \in [0..n -> X] /\ f[0] = base
  /\ \A i \in 1..n : f[i] = step[i][f[i - 1]]

LEMMA TableExists ==
  ASSUME NEW N \in Nat, NEW X, NEW base \in X, NEW step \in [1..N -> [X -> X]]
  PROVE  \E f : IsTable(f, N, X, base, step)
<1> DEFINE Bad == {n \in 0..N : ~ \E f : IsTable(f, n, X, base, step)}
<1> SUFFICES ASSUME Bad # {} PROVE FALSE
  <2>1. N \in 0..N
    OBVIOUS
  <2> QED
    BY <2>1, Zenon
<1>0. Bad \in SUBSET Nat
  OBVIOUS
<1> HIDE DEF Bad
<1>1. PICK m \in Bad : \A k \in Bad : m <= k
  BY <1>0, LeastNatural
<1> USE DEF Bad
<1>2. m \in 0..N /\ ~ \E f : IsTable(f, m, X, base, step)
  BY <1>1
<1>3. m # 0
  <2>1. IsTable([i \in 0..0 |-> base], 0, X, base, step)
    BY DEF IsTable
  <2> QED
    BY <1>2, <2>1
<1>4. m - 1 \in 0..N /\ ~(m <= m - 1) /\ m \in 1..N /\ m - 1 \in 0..(m - 1)
  BY <1>2, <1>3
<1>5. PICK g : IsTable(g, m - 1, X, base, step)
  BY <1>1, <1>4
<1> HIDE DEF Bad
<1>6. PICK f : f = [i \in 0..m |-> IF i = m THEN step[m][g[m - 1]] ELSE g[i]]
  OBVIOUS
<1>7. g[m - 1] \in X /\ step[m] \in [X -> X]
  BY <1>4, <1>5 DEF IsTable
<1>8. step[m][g[m - 1]] \in X
  BY <1>7
<1>9. f[m] = step[m][g[m - 1]] /\ \A i \in 0..(m - 1) : f[i] = g[i] /\ g[i] \in X
  BY <1>2, <1>4, <1>5, <1>6 DEF IsTable
<1>10. f \in [0..m -> X]
  <2>1. ASSUME NEW i \in 0..m PROVE f[i] \in X
    <3>1. CASE i = m
      BY <1>8, <1>9, <3>1
    <3>2. CASE i # m
      <4>1. i \in 0..(m - 1)
        BY <1>2, <3>2
      <4> QED
        BY <1>9, <4>1
    <3> QED
      BY <3>1, <3>2
  <2> QED
    BY <1>6, <2>1
<1>11. ASSUME NEW i \in 1..m PROVE f[i] = step[i][f[i - 1]]
  <2>1. i - 1 \in 0..(m - 1) /\ f[i - 1] = g[i - 1]
    BY <1>2, <1>9
  <2>2. CASE i = m
    BY <1>9, <2>1, <2>2
  <2>3. CASE i # m
    <3>1. i \in 1..(m - 1) /\ i \in 0..(m - 1)
      BY <1>2, <2>3
    <3>2. g[i] = step[i][g[i - 1]]
      BY <1>5, <3>1 DEF IsTable
    <3> QED
      BY <1>9, <2>1, <3>1, <3>2
  <2> QED
    BY <2>2, <2>3
<1>12. f[0] = base
  BY <1>4, <1>5, <1>9 DEF IsTable
<1>13. IsTable(f, m, X, base, step)
  BY <1>10, <1>11, <1>12 DEF IsTable
<1> QED
  BY <1>2, <1>13

Distinctly(seq) == \A i, j \in DOMAIN seq : i # j => seq[i] # seq[j]
RangeOf(seq) == {seq[i] : i \in DOMAIN seq}

LEMMA RangeSize ==
  ASSUME NEW S, NEW seq \in Seq(S)
  PROVE  /\ IsFiniteSet(RangeOf(seq)) /\ Cardinality(RangeOf(seq)) \in Nat
         /\ Cardinality(RangeOf(seq)) <= Len(seq)
         /\ Cardinality(RangeOf(seq)) = Len(seq) <=> Distinctly(seq)
<1> DEFINE R == RangeOf(seq)
<1>1. DOMAIN seq = 1..Len(seq) /\ Len(seq) \in Nat
  OBVIOUS
<1>2. IsFiniteSet(DOMAIN seq) /\ Cardinality(DOMAIN seq) = Len(seq)
  BY <1>1, FS_Interval
<1>3. seq \in Surjection(DOMAIN seq, R)
  BY DEF Surjection, RangeOf
<1>4. seq \in Injection(DOMAIN seq, R) <=> Distinctly(seq)
  BY DEF Injection, IsInjective, RangeOf, Distinctly
<1> HIDE DEF R
<1>5. /\ IsFiniteSet(R) /\ Cardinality(R) <= Cardinality(DOMAIN seq)
      /\ Cardinality(R) = Cardinality(DOMAIN seq) <=> seq \in Injection(DOMAIN seq, R)
  BY <1>2, <1>3, FS_Surjection
<1>6. Cardinality(R) \in Nat
  BY <1>5, FS_CardinalityType
<1> QED
  BY <1>2, <1>4, <1>5, <1>6 DEF R

\* The elements of a finite set of naturals have the ranks from 0.
Rank(S, x) == Cardinality({y \in S : y < x})

LEMMA RankIs ==
  ASSUME NEW S \in SUBSET Nat, IsFiniteSet(S)
  PROVE  /\ Cardinality(S) \in Nat
         /\ \A x \in S : Rank(S, x) \in 0..(Cardinality(S) - 1)
         /\ \A x, y \in S : x # y => Rank(S, x) # Rank(S, y)
         /\ \A r \in 0..(Cardinality(S) - 1) : \E x \in S : Rank(S, x) = r
<1> DEFINE under(x) == {y \in S : y < x}
           n == Cardinality(S)
<1>1. n \in Nat
  BY FS_CardinalityType
<1>2. \A x : IsFiniteSet(under(x)) /\ Rank(S, x) = Cardinality(under(x)) /\ Rank(S, x) \in Nat
  <2> TAKE x
  <2>1. IsFiniteSet(under(x))
    <3>1. under(x) \in SUBSET S
      OBVIOUS
    <3> QED
      BY <3>1, FS_Subset
  <2> QED
    BY <2>1, FS_CardinalityType DEF Rank
<1>3. ASSUME NEW x, NEW T, IsFiniteSet(T), under(x) \in SUBSET T, under(x) # T
      PROVE  Rank(S, x) < Cardinality(T)
  <2> DEFINE U == under(x)
  <2>1. Rank(S, x) = Cardinality(U) /\ Rank(S, x) \in Nat
    BY <1>2
  <2>2. Cardinality(T) \in Nat
    BY <1>3, FS_CardinalityType
  <2>3. U \in SUBSET T /\ U # T
    BY <1>3
  <2> HIDE DEF U
  <2>4. Cardinality(U) <= Cardinality(T) /\ (Cardinality(T) = Cardinality(U) => T = U)
    BY <1>3, <2>3, FS_Subset
  <2> QED
    BY <2>1, <2>2, <2>3, <2>4
<1>4. ASSUME NEW x \in S PROVE Rank(S, x) \in 0..(n - 1)
  <2>1. under(x) \in SUBSET S /\ x \notin under(x)
    OBVIOUS
  <2>2. Rank(S, x) < Cardinality(S)
    BY <1>3, <2>1
  <2>3. Rank(S, x) \in Nat
    BY <1>2
  <2> QED
    BY <1>1, <2>2, <2>3
<1>5. ASSUME NEW x \in S, NEW y \in S, x < y PROVE Rank(S, x) < Rank(S, y)
  <2>1. PICK U, V : U = under(x) /\ V = under(y)
    OBVIOUS
  <2>2. U \in SUBSET V /\ x \in V /\ x \notin U
    <3>1. \A z \in S : z < x => z < y
      BY <1>5
    <3>2. x \in Nat /\ ~(x < x)
      OBVIOUS
    <3> QED
      BY <1>5, <2>1, <3>1, <3>2
  <2>3. IsFiniteSet(V) /\ Rank(S, y) = Cardinality(V)
    BY <1>2, <2>1
  <2>4. U # V
    BY <2>2
  <2> HIDE DEF under
  <2>5. Rank(S, x) < Cardinality(V)
    BY <1>3, <2>1, <2>2, <2>3, <2>4
  <2> QED
    BY <2>3, <2>5
<1>6. ASSUME NEW x \in S, NEW y \in S, x # y PROVE Rank(S, x) # Rank(S, y)
  <2>1. Rank(S, x) \in Nat /\ Rank(S, y) \in Nat
    BY <1>2
  <2>2. x < y \/ y < x
    BY <1>6
  <2> QED
    BY <1>5, <2>1, <2>2
<1> HIDE DEF n
<1>7. PICK f : f = [x \in S |-> Rank(S, x)]
  OBVIOUS
<1>8. f \in Injection(S, 0..(n - 1))
  <2>1. f \in [S -> 0..(n - 1)]
    BY <1>4, <1>7
  <2>2. \A x, y \in S : f[x] = f[y] => x = y
    BY <1>6, <1>7
  <2> QED
    BY <2>1, <2>2 DEF Injection, IsInjective
<1>9. IsFiniteSet(0..(n - 1)) /\ Cardinality(0..(n - 1)) = n
  <2>1. 0 \in Int /\ n - 1 \in Int
    BY <1>1
  <2>2. IsFiniteSet(0..(n - 1))
    BY <2>1, FS_Interval
  <2>3. Cardinality(0..(n - 1)) = IF 0 > n - 1 THEN 0 ELSE (n - 1) - 0 + 1
    BY <2>1, FS_Interval
  <2> QED
    BY <1>1, <2>2, <2>3
<1>10. f \in Surjection(S, 0..(n - 1))
  <2>1. Cardinality(S) = n
    BY DEF n
  <2> QED
    BY <1>8, <1>9, <2>1, FS_Injection
<1>11. \A r \in 0..(n - 1) : \E x \in S : Rank(S, x) = r
  BY <1>7, <1>10 DEF Surjection
<1> QED
  BY <1>1, <1>4, <1>6, <1>11 DEF n

LEMMA SortedIs ==
  ASSUME NEW S \in SUBSET Nat, IsFiniteSet(S)
  PROVE  /\ Sorted(S) \in Seq(S) /\ Len(Sorted(S)) = Cardinality(S)
         /\ RangeOf(Sorted(S)) = S /\ Distinctly(Sorted(S))
<1> DEFINE n == Cardinality(S)
           at(i) == CHOOSE x \in S : Rank(S, x) = i - 1
<1>1. n \in Nat /\ \A i \in 1..n : i - 1 \in 0..(n - 1)
  BY RankIs
<1>2. Sorted(S) = [i \in 1..n |-> at(i)]
  BY DEF Sorted, Rank
<1>3. ASSUME NEW i \in 1..n PROVE at(i) \in S /\ Rank(S, at(i)) = i - 1
  <2>1. \E x \in S : Rank(S, x) = i - 1
    BY <1>1, RankIs
  <2> QED
    BY <2>1
<1>4. ASSUME NEW x \in S PROVE \E i \in 1..n : at(i) = x
  <2>1. Rank(S, x) \in 0..(n - 1)
    BY RankIs
  <2>2. PICK i : i = Rank(S, x) + 1
    OBVIOUS
  <2>3. i \in 1..n /\ Rank(S, x) = i - 1
    BY <1>1, <2>1, <2>2
  <2>4. at(i) \in S /\ Rank(S, at(i)) = Rank(S, x)
    BY <1>3, <2>3
  <2> HIDE DEF at
  <2>5. at(i) = x
    BY <2>4, RankIs
  <2> QED
    BY <2>3, <2>5
<1> HIDE DEF at, n
<1>5. PICK s : s = Sorted(S)
  OBVIOUS
<1>6. s \in Seq(S) /\ DOMAIN s = 1..n /\ Len(s) = n /\ \A i \in 1..n : s[i] = at(i)
  BY <1>1, <1>2, <1>3, <1>5
<1>7. RangeOf(s) = S
  <2>1. ASSUME NEW i \in 1..n PROVE s[i] \in S
    BY <1>3, <1>6
  <2>2. ASSUME NEW x \in S PROVE \E i \in DOMAIN s : s[i] = x
    <3>1. PICK i \in 1..n : at(i) = x
      BY <1>4
    <3>2. s[i] = x /\ i \in DOMAIN s
      BY <1>6, <3>1
    <3> QED
      BY <3>2
  <2>3. \A x : x \in RangeOf(s) <=> \E i \in DOMAIN s : s[i] = x
    BY DEF RangeOf
  <2> QED
    BY <1>6, <2>1, <2>2, <2>3
<1>8. Distinctly(s)
  <2>1. ASSUME NEW i \in 1..n, NEW j \in 1..n, at(i) = at(j) PROVE i = j
    <3>1. i - 1 = j - 1
      BY <1>3, <2>1
    <3> QED
      BY <1>1, <3>1
  <2> QED
    BY <1>6, <2>1 DEF Distinctly
<1> QED
  BY <1>5, <1>6, <1>7, <1>8 DEF n
-----------------------------------------------------------------------------
(* The order of the layers. *)

LEMMA SpecsAre ==
  ASSUME specs \in Submissions
  PROVE  /\ specs \in Seq([id : NodeIds, depends_on : SUBSET NodeIds])
         /\ Ids \subseteq NodeIds /\ Ids \in SUBSET Nat /\ IsFiniteSet(Ids)
         /\ Cardinality(Ids) \in Nat /\ (specs = <<>> <=> Ids = {})
         /\ \A id \in Ids : /\ DependsOn(id) \in SUBSET NodeIds /\ IsFiniteSet(DependsOn(id))
                            /\ DependsOn(id) \in SUBSET Nat
                            /\ NodeOf(id).id = id
                            /\ \E i \in DOMAIN specs : NodeOf(id) = specs[i]
         /\ Distinct => \A i \in DOMAIN specs : NodeOf(specs[i].id) = specs[i]
<1>1. /\ specs \in Seq([id : NodeIds, depends_on : SUBSET NodeIds])
      /\ \A i \in DOMAIN specs : IsFiniteSet(specs[i].depends_on)
  BY GraphAssumption
<1>0. /\ DOMAIN specs = 1..Len(specs) /\ Len(specs) \in Nat
      /\ \A i \in DOMAIN specs : /\ specs[i].id \in NodeIds
                                 /\ specs[i].depends_on \in SUBSET NodeIds
  <2>1. \A i \in DOMAIN specs : specs[i] \in [id : NodeIds, depends_on : SUBSET NodeIds]
    <3>1. PICK X : X = [id : NodeIds, depends_on : SUBSET NodeIds]
      OBVIOUS
    <3>2. specs \in Seq(X)
      BY <1>1, <3>1
    <3>3. \A i \in DOMAIN specs : specs[i] \in X
      BY <3>2
    <3> QED
      BY <3>1, <3>3
  <2>2. DOMAIN specs = 1..Len(specs) /\ Len(specs) \in Nat
    BY <1>1
  <2> QED
    BY <2>1, <2>2
<1>2. PICK ids : ids = [i \in DOMAIN specs |-> specs[i].id]
  OBVIOUS
<1>3. ids \in Seq(NodeIds) /\ Len(ids) = Len(specs) /\ RangeOf(ids) = Ids
  <2>1. ids \in [1..Len(specs) -> NodeIds]
    BY <1>0, <1>2
  <2>2. ids \in Seq(NodeIds) /\ DOMAIN ids = DOMAIN specs /\ Len(ids) = Len(specs)
    BY <1>0, <2>1
  <2>3. \A i \in DOMAIN specs : ids[i] = specs[i].id
    BY <1>2
  <2>4. RangeOf(ids) = Ids
    BY <2>2, <2>3 DEF RangeOf, Ids
  <2> QED
    BY <2>2, <2>4
<1>4. /\ IsFiniteSet(Ids) /\ Cardinality(Ids) \in Nat
      /\ Cardinality(Ids) = Len(specs) <=> Distinctly(ids)
  BY <1>3, RangeSize
<1>5. ASSUME NEW id \in Ids PROVE \E i \in DOMAIN specs : specs[i].id = id /\ NodeOf(id) = specs[i]
  <2>1. \E i \in DOMAIN specs : specs[i].id = id
    BY DEF Ids
  <2> QED
    BY <2>1 DEF NodeOf
<1>6. ASSUME NEW id \in Ids
      PROVE  /\ DependsOn(id) \in SUBSET NodeIds /\ IsFiniteSet(DependsOn(id))
             /\ NodeOf(id).id = id /\ \E i \in DOMAIN specs : NodeOf(id) = specs[i]
  <2>1. PICK i \in DOMAIN specs : specs[i].id = id /\ NodeOf(id) = specs[i]
    BY <1>5
  <2>2. DependsOn(id) = specs[i].depends_on
    BY <2>1 DEF DependsOn
  <2> QED
    BY <1>0, <1>1, <2>1, <2>2
<1>7. ASSUME Distinct, NEW i \in DOMAIN specs PROVE NodeOf(specs[i].id) = specs[i]
  <2>1. Distinctly(ids)
    BY <1>4, <1>7 DEF Distinct
  <2>2. \A j \in DOMAIN specs : specs[j].id = specs[i].id => j = i
    BY <1>2, <2>1 DEF Distinctly
  <2>3. specs[i].id \in Ids
    BY DEF Ids
  <2> QED
    BY <1>5, <2>2, <2>3
<1>8. Ids \subseteq NodeIds /\ NodeIds \subseteq Nat
  BY <1>0, GraphAssumption DEF Ids
<1>9. specs = <<>> <=> Ids = {}
  <2>1. specs = <<>> <=> Len(specs) = 0
    BY <1>1
  <2>2. Ids = {} <=> DOMAIN specs = {}
    BY DEF Ids
  <2>3. DOMAIN specs = {} <=> Len(specs) = 0
    BY <1>0
  <2> QED
    BY <2>1, <2>2, <2>3
<1> QED
  BY <1>1, <1>4, <1>6, <1>7, <1>8, <1>9

LEMMA TopologicalIsAcyclic ==
  ASSUME NEW o \in Seq(NodeIds), Topological(o)
  PROVE  Acyclic
<1> SUFFICES ASSUME NEW set \in (SUBSET Ids) \ {{}}
             PROVE  \E id \in set : DependsOn(id) \cap set = {}
  BY DEF Acyclic
<1>1. RangeOf(o) = Ids
  BY DEF Topological, ToSet, RangeOf
<1> DEFINE T == {i \in DOMAIN o : o[i] \in set}
<1>2. T \in SUBSET Nat /\ T # {}
  BY <1>1 DEF RangeOf
<1> HIDE DEF T
<1>3. PICK i \in T : \A j \in T : i <= j
  BY <1>2, LeastNatural
<1>4. i \in DOMAIN o /\ o[i] \in set
  BY <1>3 DEF T
<1>5. ASSUME NEW d \in DependsOn(o[i]) \cap set PROVE FALSE
  <2>1. PICK j \in 1..(i - 1) : o[j] = d
    BY <1>4 DEF Topological
  <2>2. j \in T /\ ~(i <= j)
    BY <1>4, <2>1 DEF T
  <2> QED
    BY <1>3, <2>2
<1> QED
  BY <1>4, <1>5

Layer(f, R) == IF Ready(R) = {} THEN <<>> ELSE Sorted(Ready(R)) \o f[R \ Ready(R)]
Small(n) == {R \in SUBSET Ids : Cardinality(R) <= n}
LayeredUpTo(f, n) == f = [R \in Small(n) |-> Layer(f, R)]

LEMMA RestIsSmaller ==
  ASSUME specs \in Submissions, NEW R \in SUBSET Ids
  PROVE  /\ IsFiniteSet(R) /\ Cardinality(R) \in Nat
         /\ Ready(R) \in SUBSET R /\ Ready(R) \in SUBSET Nat /\ IsFiniteSet(Ready(R))
         /\ Ready(R) # {} => /\ R \ Ready(R) \in SUBSET Ids
                             /\ Cardinality(R \ Ready(R)) \in Nat
                             /\ Cardinality(R \ Ready(R)) < Cardinality(R)
<1>1. IsFiniteSet(R)
  BY SpecsAre, FS_Subset
<1>2. Ready(R) \in SUBSET R
  BY DEF Ready
<1>3. IsFiniteSet(Ready(R))
  BY <1>1, <1>2, FS_Subset
<1>4. PICK T : T = R \ Ready(R)
  OBVIOUS
<1>5. T \in SUBSET R /\ (Ready(R) # {} => T # R)
  BY <1>2, <1>4
<1>6. /\ IsFiniteSet(T) /\ Cardinality(T) <= Cardinality(R)
      /\ Cardinality(R) = Cardinality(T) => R = T
  BY <1>1, <1>5, FS_Subset
<1>7. Cardinality(R) \in Nat /\ Cardinality(T) \in Nat
  BY <1>1, <1>6, FS_CardinalityType
<1>8. R \in SUBSET Nat /\ Ready(R) \in SUBSET Nat
  BY <1>2, SpecsAre
<1>9. Ready(R) # {} => Cardinality(T) < Cardinality(R)
  BY <1>5, <1>6, <1>7
<1> QED
  BY <1>1, <1>2, <1>3, <1>4, <1>5, <1>7, <1>8, <1>9

LEMMA LayersExist ==
  ASSUME specs \in Submissions
  PROVE  \E f : f = [R \in SUBSET Ids |-> Layer(f, R)]
<1> DEFINE Bad == {n \in Nat : ~ \E f : LayeredUpTo(f, n)}
<1>1. Bad = {}
  <2> SUFFICES ASSUME Bad # {} PROVE FALSE
    OBVIOUS
  <2>0. Bad \in SUBSET Nat
    OBVIOUS
  <2> HIDE DEF Bad
  <2>1. PICK m \in Bad : \A k \in Bad : m <= k
    BY <2>0, LeastNatural
  <2> USE DEF Bad
  <2>2. m \in Nat /\ ~ \E f : LayeredUpTo(f, m)
    BY <2>1
  <2>3. \E g : m # 0 => LayeredUpTo(g, m - 1)
    <3>1. CASE m = 0
      BY <3>1
    <3>2. CASE m # 0
      <4>1. m - 1 \in Nat /\ ~(m <= m - 1)
        BY <2>2, <3>2
      <4> QED
        BY <2>1, <4>1
    <3> QED
      BY <3>1, <3>2
  <2> HIDE DEF Bad
  <2>4. PICK g : m # 0 => LayeredUpTo(g, m - 1)
    BY <2>3
  <2>5. PICK f : f = [R \in Small(m) |-> Layer(g, R)]
    OBVIOUS
  <2>6. ASSUME NEW R \in Small(m) PROVE Layer(g, R) = Layer(f, R)
    <3>1. CASE Ready(R) = {}
      BY <3>1 DEF Layer
    <3>2. CASE Ready(R) # {}
      <4>1. R \in SUBSET Ids /\ Cardinality(R) <= m
        BY DEF Small
      <4>2. PICK T : T = R \ Ready(R)
        OBVIOUS
      <4>3. /\ T \in SUBSET Ids /\ Cardinality(T) \in Nat /\ Cardinality(R) \in Nat
            /\ Cardinality(T) < Cardinality(R)
        BY <3>2, <4>1, <4>2, RestIsSmaller
      <4>4. m # 0 /\ Cardinality(T) <= m - 1 /\ Cardinality(T) <= m
        BY <2>2, <4>1, <4>3
      <4>5. T \in Small(m) /\ T \in Small(m - 1)
        BY <4>3, <4>4 DEF Small
      <4>6. g = [Q \in Small(m - 1) |-> Layer(g, Q)]
        BY <2>4, <4>4 DEF LayeredUpTo
      <4>7. g[T] = Layer(g, T) /\ f[T] = Layer(g, T)
        BY <2>5, <4>5, <4>6, Zenon
      <4> QED
        BY <4>2, <4>7 DEF Layer
    <3> QED
      BY <3>1, <3>2
  <2>7. LayeredUpTo(f, m)
    <3>1. [R \in Small(m) |-> Layer(g, R)] = [R \in Small(m) |-> Layer(f, R)]
      BY <2>6, Zenon
    <3> QED
      BY <2>5, <3>1 DEF LayeredUpTo
  <2> QED
    BY <2>2, <2>7
<1>2. Cardinality(Ids) \in Nat
  BY SpecsAre
<1>3. PICK f : LayeredUpTo(f, Cardinality(Ids))
  BY <1>1, <1>2
<1>4. Small(Cardinality(Ids)) = SUBSET Ids
  <2>1. ASSUME NEW R \in SUBSET Ids PROVE Cardinality(R) <= Cardinality(Ids)
    BY SpecsAre, FS_Subset
  <2> QED
    BY <2>1 DEF Small
<1> QED
  BY <1>3, <1>4 DEF LayeredUpTo

\* o lists R up to what never becomes ready.
Lists(o, R, U) ==
  /\ o \in Seq(R) /\ Distinctly(o)
  /\ U \in SUBSET R /\ Ready(U) = {} /\ RangeOf(o) = R \ U
  /\ \A i \in DOMAIN o : DependsOn(o[i]) \cap R \subseteq {o[j] : j \in 1..(i - 1)}

LEMMA LayerInFront ==
  ASSUME NEW R, NEW U, NEW s, NEW t,
         s \in Seq(R), RangeOf(s) = Ready(R), Distinctly(s),
         Lists(t, R \ Ready(R), U)
  PROVE  Lists(s \o t, R, U)
<1>1. t \in Seq(R)
  BY DEF Lists
<1>2. PICK o, k : o = s \o t /\ k = Len(s)
  OBVIOUS
<1>3. /\ o \in Seq(R) /\ k \in Nat /\ Len(t) \in Nat /\ DOMAIN s = 1..k
      /\ DOMAIN t = 1..Len(t) /\ DOMAIN o = 1..(k + Len(t))
      /\ \A i \in 1..k : o[i] = s[i]
      /\ \A i \in 1..(k + Len(t)) : i > k => i - k \in DOMAIN t /\ o[i] = t[i - k]
  BY <1>1, <1>2
<1>4. \A i \in DOMAIN t : i + k \in DOMAIN o /\ i + k > k /\ o[i + k] = t[i]
  <2> SUFFICES ASSUME NEW i \in DOMAIN t
               PROVE  i + k \in DOMAIN o /\ i + k > k /\ o[i + k] = t[i]
    OBVIOUS
  <2>1. i + k \in 1..(k + Len(t)) /\ i + k > k /\ (i + k) - k = i
    BY <1>3
  <2> QED
    BY <1>3, <2>1
<1>5. \A i \in 1..k : s[i] \in Ready(R)
  BY <1>3 DEF RangeOf
<1>6. \A i \in DOMAIN t : t[i] \in R \ Ready(R) /\ t[i] \notin U
  BY DEF Lists, RangeOf
<1>7. RangeOf(o) = R \ U
  <2>1. U \in SUBSET (R \ Ready(R)) /\ Ready(R) \in SUBSET R
    BY DEF Lists, Ready
  <2>2. RangeOf(o) = RangeOf(s) \cup RangeOf(t)
    <3>1. ASSUME NEW i \in DOMAIN o PROVE o[i] \in RangeOf(s) \cup RangeOf(t)
      <4>1. CASE i <= k
        <5>1. i \in DOMAIN s /\ o[i] = s[i]
          BY <1>3, <4>1
        <5> QED
          BY <5>1 DEF RangeOf
      <4>2. CASE i > k
        <5>1. i - k \in DOMAIN t /\ o[i] = t[i - k]
          BY <1>3, <4>2
        <5> QED
          BY <5>1 DEF RangeOf
      <4> QED
        BY <1>3, <4>1, <4>2
    <3>2. ASSUME NEW i \in DOMAIN s PROVE s[i] \in RangeOf(o)
      <4>1. i \in DOMAIN o /\ o[i] = s[i]
        BY <1>3
      <4> QED
        BY <4>1 DEF RangeOf
    <3>3. ASSUME NEW i \in DOMAIN t PROVE t[i] \in RangeOf(o)
      BY <1>4 DEF RangeOf
    <3> QED
      BY <3>1, <3>2, <3>3 DEF RangeOf
  <2>3. RangeOf(t) = (R \ Ready(R)) \ U
    BY DEF Lists
  <2> QED
    BY <2>1, <2>2, <2>3
<1>8. Distinctly(o)
  <2> SUFFICES ASSUME NEW i \in DOMAIN o, NEW j \in DOMAIN o, i # j PROVE o[i] # o[j]
    BY DEF Distinctly
  <2>1. CASE i <= k /\ j <= k
    BY <1>3, <2>1 DEF Distinctly
  <2>2. CASE i > k /\ j > k
    <3>1. /\ i - k \in DOMAIN t /\ j - k \in DOMAIN t /\ o[i] = t[i - k] /\ o[j] = t[j - k]
          /\ i - k # j - k
      BY <1>3, <2>2
    <3>2. \A a, b \in DOMAIN t : a # b => t[a] # t[b]
      BY DEF Lists, Distinctly
    <3> QED
      BY <3>1, <3>2
  <2>3. \A x \in DOMAIN o : x <= k => o[x] \in Ready(R)
    BY <1>3, <1>5
  <2>4. \A x \in DOMAIN o : x > k => o[x] \notin Ready(R)
    BY <1>3, <1>6
  <2>5. (i <= k \/ i > k) /\ (j <= k \/ j > k)
    BY <1>3
  <2> QED
    BY <2>1, <2>2, <2>3, <2>4, <2>5
<1>9. ASSUME NEW i \in DOMAIN o
      PROVE  DependsOn(o[i]) \cap R \subseteq {o[j] : j \in 1..(i - 1)}
  <2>1. CASE i <= k
    <3>1. o[i] \in Ready(R)
      BY <1>3, <1>5, <2>1
    <3> QED
      BY <3>1 DEF Ready
  <2>2. CASE i > k
    <3>1. i - k \in DOMAIN t /\ o[i] = t[i - k]
      BY <1>3, <2>2
    <3> SUFFICES ASSUME NEW d \in DependsOn(o[i]) \cap R
                 PROVE  \E j \in 1..(i - 1) : o[j] = d
      OBVIOUS
    <3>2. CASE d \in Ready(R)
      <4>1. PICK j \in DOMAIN s : s[j] = d
        BY <3>2 DEF RangeOf
      <4>2. j \in 1..(i - 1) /\ o[j] = d
        BY <1>3, <2>2, <4>1
      <4> QED
        BY <4>2
    <3>3. CASE d \notin Ready(R)
      <4>1. PICK j \in 1..((i - k) - 1) : t[j] = d
        BY <3>1, <3>3 DEF Lists
      <4>2. j \in DOMAIN t /\ j + k \in 1..(i - 1)
        BY <1>3, <2>2, <3>1, <4>1
      <4> QED
        BY <1>4, <4>1, <4>2
    <3> QED
      BY <3>2, <3>3
  <2> QED
    BY <1>3, <2>1, <2>2
<1>10. U \in SUBSET R /\ Ready(U) = {}
  BY DEF Lists
<1>11. \A i \in DOMAIN o : DependsOn(o[i]) \cap R \subseteq {o[j] : j \in 1..(i - 1)}
  BY <1>9
<1>12. o \in Seq(R)
  BY <1>3
<1>13. Lists(o, R, U)
  BY <1>7, <1>8, <1>10, <1>11, <1>12 DEF Lists
<1> QED
  BY <1>2, <1>13

LEMMA LayersList ==
  ASSUME specs \in Submissions, NEW f, f = [R \in SUBSET Ids |-> Layer(f, R)]
  PROVE  \E U : Lists(f[Ids], Ids, U)
<1> DEFINE Bad == {n \in Nat : \E R \in SUBSET Ids : /\ Cardinality(R) = n
                                                     /\ ~ \E U : Lists(f[R], R, U)}
<1>1. Bad = {}
  <2> SUFFICES ASSUME Bad # {} PROVE FALSE
    OBVIOUS
  <2>0. Bad \in SUBSET Nat
    OBVIOUS
  <2> HIDE DEF Bad
  <2>1. PICK m \in Bad : \A k \in Bad : m <= k
    BY <2>0, LeastNatural
  <2>2. PICK R \in SUBSET Ids : Cardinality(R) = m /\ ~ \E U : Lists(f[R], R, U)
    BY <2>1 DEF Bad
  <2>3. f[R] = Layer(f, R)
    BY Zenon
  <2>4. CASE Ready(R) = {}
    <3>1. f[R] = <<>>
      BY <2>3, <2>4 DEF Layer
    <3>2. Lists(<<>>, R, R)
      BY <2>4 DEF Lists, Distinctly, RangeOf
    <3> QED
      BY <2>2, <3>1, <3>2
  <2>5. CASE Ready(R) # {}
    <3>1. PICK T : T = R \ Ready(R)
      OBVIOUS
    <3>2. /\ T \in SUBSET Ids /\ Cardinality(T) \in Nat /\ Cardinality(R) \in Nat
          /\ Cardinality(T) < Cardinality(R)
          /\ Ready(R) \in SUBSET R /\ Ready(R) \in SUBSET Nat /\ IsFiniteSet(Ready(R))
      BY <2>5, <3>1, RestIsSmaller
    <3>3. PICK U : Lists(f[T], T, U)
      <4>1. Cardinality(T) \notin Bad
        BY <2>1, <2>2, <3>2
      <4> QED
        BY <3>2, <4>1 DEF Bad
    <3>4. PICK s : s = Sorted(Ready(R))
      OBVIOUS
    <3>5. s \in Seq(Ready(R)) /\ RangeOf(s) = Ready(R) /\ Distinctly(s)
      BY <3>2, <3>4, SortedIs
    <3>6. s \in Seq(R)
      BY <3>2, <3>5
    <3>7. Lists(s \o f[T], R, U)
      BY <3>1, <3>3, <3>5, <3>6, LayerInFront
    <3>8. f[R] = s \o f[T]
      BY <2>3, <2>5, <3>1, <3>4 DEF Layer
    <3> QED
      BY <2>2, <3>7, <3>8
  <2> QED
    BY <2>4, <2>5
<1>2. Ids \in SUBSET Ids /\ Cardinality(Ids) \in Nat
  BY SpecsAre
<1> QED
  BY <1>1, <1>2

\* topological_order is short only of a cycle, and puts what it lists in order.
LEMMA OrderIs ==
  ASSUME specs \in Submissions, ValidSpecs
  PROVE  /\ Order \in Seq(NodeIds) /\ Len(Order) \in Nat
         /\ Len(Order) < Cardinality(Ids) => ~Acyclic
         /\ ~(Len(Order) < Cardinality(Ids)) => Acyclic /\ Topological(Order)
<1> DEFINE f == CHOOSE g : g = [R \in SUBSET Ids |-> Layer(g, R)]
<1>1. Order = f[Ids]
  BY DEF Order, Layer
<1>2. f = [R \in SUBSET Ids |-> Layer(f, R)]
  BY LayersExist
<1> HIDE DEF f
<1>3. PICK U : Lists(f[Ids], Ids, U)
  BY <1>2, LayersList
<1>4. PICK o : o = Order
  OBVIOUS
<1>5. Lists(o, Ids, U)
  BY <1>1, <1>3, <1>4
<1>6. o \in Seq(NodeIds) /\ Len(o) \in Nat
  BY <1>5, SpecsAre DEF Lists
<1>7. Cardinality(Ids \ U) = Len(o)
  BY <1>5, RangeSize DEF Lists
<1>8. CASE U = {}
  <2>1. Len(o) = Cardinality(Ids) /\ ~(Len(o) < Cardinality(Ids))
    <3>1. Ids \ U = Ids
      BY <1>8
    <3>2. Cardinality(Ids) = Len(o)
      BY <1>7, <3>1
    <3>3. ~(Len(o) < Len(o))
      BY <1>6
    <3> QED
      BY <3>2, <3>3
  <2>2. \A id \in Ids : DependsOn(id) \subseteq Ids
    BY SpecsAre DEF ValidSpecs, DependsOn
  <2>3. RangeOf(o) = Ids
    BY <1>5, <1>8 DEF Lists
  <2>4. Topological(o)
    <3>1. \A i \in DOMAIN o : DependsOn(o[i]) \subseteq {o[j] : j \in 1..(i - 1)}
      BY <1>5, <2>2, <2>3 DEF Lists, RangeOf
    <3> QED
      BY <2>1, <2>3, <3>1 DEF Topological, ToSet, RangeOf
  <2>5. Acyclic
    BY <1>6, <2>4, TopologicalIsAcyclic
  <2> QED
    BY <1>4, <1>6, <2>1, <2>4, <2>5
<1>9. CASE U # {}
  <2>1. U \in SUBSET Ids /\ Ready(U) = {}
    BY <1>5 DEF Lists
  <2>2. ~Acyclic
    BY <1>9, <2>1 DEF Acyclic, Ready
  <2>3. Len(o) < Cardinality(Ids)
    <3>1. PICK T : T = Ids \ U
      OBVIOUS
    <3>2. T \in SUBSET Ids /\ T # Ids /\ Cardinality(T) = Len(o)
      BY <1>7, <1>9, <2>1, <3>1
    <3>3. Cardinality(T) <= Cardinality(Ids) /\ (Cardinality(Ids) = Cardinality(T) => Ids = T)
      BY <3>2, SpecsAre, FS_Subset
    <3> QED
      BY <1>6, <3>2, <3>3, SpecsAre
  <2> QED
    BY <1>4, <1>6, <2>2, <2>3
<1> QED
  BY <1>8, <1>9
-----------------------------------------------------------------------------
(* What a failure blocks. *)

LEMMA TableGrows ==
  ASSUME NEW f, NEW N \in Nat, \A i \in 1..N : f[i - 1] \subseteq f[i]
  PROVE  \A j \in 0..N : \A i \in 0..j : f[i] \subseteq f[j]
<1> DEFINE Bad == {j \in 0..N : \E i \in 0..j : ~(f[i] \subseteq f[j])}
<1> SUFFICES ASSUME Bad # {} PROVE FALSE
  OBVIOUS
<1>0. Bad \in SUBSET Nat
  OBVIOUS
<1> HIDE DEF Bad
<1>1. PICK m \in Bad : \A k \in Bad : m <= k
  BY <1>0, LeastNatural
<1>2. m \in 0..N
  BY <1>1 DEF Bad
<1>3. PICK i \in 0..m : ~(f[i] \subseteq f[m])
  BY <1>1 DEF Bad
<1>4. i # m
  BY <1>3
<1>5. m \in 1..N /\ m - 1 \in 0..N /\ i \in 0..(m - 1) /\ ~(m <= m - 1)
  BY <1>2, <1>3, <1>4
<1>6. m - 1 \notin Bad
  BY <1>1, <1>5
<1>7. f[i] \subseteq f[m - 1] /\ f[m - 1] \subseteq f[m]
  BY <1>5, <1>6 DEF Bad
<1> QED
  BY <1>3, <1>7

LEMMA TableBounded ==
  ASSUME NEW f, NEW N \in Nat, NEW C, f[0] \subseteq C,
         \A i \in 1..N : f[i - 1] \subseteq C => f[i] \subseteq C
  PROVE  \A i \in 0..N : f[i] \subseteq C
<1> DEFINE Bad == {i \in 0..N : ~(f[i] \subseteq C)}
<1> SUFFICES ASSUME Bad # {} PROVE FALSE
  OBVIOUS
<1>0. Bad \in SUBSET Nat
  OBVIOUS
<1> HIDE DEF Bad
<1>1. PICK m \in Bad : \A k \in Bad : m <= k
  BY <1>0, LeastNatural
<1>2. m \in 0..N /\ ~(f[m] \subseteq C)
  BY <1>1 DEF Bad
<1>3. m \in 1..N /\ m - 1 \in 0..N /\ ~(m <= m - 1)
  BY <1>2
<1>4. m - 1 \notin Bad
  BY <1>1, <1>3
<1>5. f[m - 1] \subseteq C
  BY <1>3, <1>4 DEF Bad
<1> QED
  BY <1>2, <1>3, <1>5

\* What depends on a node of the set is in it.
Closed(set) == \A id \in Ids : DependsOn(id) \cap set # {} => id \in set

\* What the i-th node adds, and the table that Pass walks.
Adds(i, set) == IF specs[i].depends_on \cap set = {} THEN set ELSE set \cup {specs[i].id}
PassTable(f, set) == f = [i \in 0..Len(specs) |-> IF i = 0 THEN set ELSE Adds(i, f[i - 1])]

LEMMA PassIs ==
  ASSUME specs \in Submissions, Distinct, NEW set \in SUBSET Ids
  PROVE  /\ Pass(set) \in SUBSET Ids /\ set \subseteq Pass(set)
         /\ \A C : set \subseteq C /\ Closed(C) => Pass(set) \subseteq C
         /\ Pass(set) = set => Closed(set)
<1> DEFINE N == Len(specs)
           X == SUBSET Ids
           f == CHOOSE g : PassTable(g, set)
<1>1. N \in Nat /\ DOMAIN specs = 1..N
  BY SpecsAre
<1>2. \A i \in 1..N : \A S \in X : Adds(i, S) \in X
  BY <1>1 DEF Adds, Ids
<1>3. PassTable(f, set)
  <2> DEFINE step == [i \in 1..N |-> [S \in X |-> Adds(i, S)]]
  <2>1. step \in [1..N -> [X -> X]]
    BY <1>2
  <2>2. set \in X
    OBVIOUS
  <2>3. \A i \in 1..N : \A S \in X : step[i][S] = Adds(i, S)
    OBVIOUS
  <2> HIDE DEF step, X, N
  <2>4. PICK g : IsTable(g, N, X, set, step)
    BY <1>1, <2>1, <2>2, TableExists
  <2>5. ASSUME NEW i \in 0..N
        PROVE  g[i] = IF i = 0 THEN set ELSE Adds(i, g[i - 1])
    <3>1. CASE i = 0
      BY <2>4, <3>1 DEF IsTable
    <3>2. CASE i # 0
      <4>1. i \in 1..N /\ i - 1 \in 0..N
        BY <1>1, <3>2
      <4>2. g[i] = step[i][g[i - 1]] /\ g[i - 1] \in X
        BY <2>4, <4>1 DEF IsTable
      <4> QED
        BY <2>3, <3>2, <4>1, <4>2
    <3> QED
      BY <3>1, <3>2
  <2>6. g = [i \in 0..N |-> g[i]]
    BY <2>4 DEF IsTable
  <2>7. [i \in 0..N |-> g[i]] = [i \in 0..N |-> IF i = 0 THEN set ELSE Adds(i, g[i - 1])]
    BY <2>5, Zenon
  <2>8. PassTable(g, set)
    BY <2>6, <2>7, Zenon DEF PassTable, N
  <2> QED
    BY <2>8
<1>4. Pass(set) = f[N]
  BY DEF Pass, PassTable, Adds
<1> HIDE DEF f, X, N
<1>5. f[0] = set /\ \A i \in 1..N : f[i] = Adds(i, f[i - 1])
  <2>1. \A i \in 0..N : f[i] = IF i = 0 THEN set ELSE Adds(i, f[i - 1])
    BY <1>3, Zenon DEF PassTable, N
  <2>2. 0 \in 0..N /\ \A i \in 1..N : i \in 0..N /\ i # 0
    BY <1>1
  <2> QED
    BY <2>1, <2>2
<1>6. \A i \in 1..N : f[i - 1] \subseteq f[i]
  BY <1>5 DEF Adds
<1>7. \A j \in 0..N : \A i \in 0..j : f[i] \subseteq f[j]
  BY <1>1, <1>6, TableGrows
<1>8. 0 \in 0..N /\ N \in 0..N
  BY <1>1
<1>9. set \subseteq f[N]
  BY <1>5, <1>7, <1>8
<1>10. ASSUME NEW C, set \subseteq C, \A i \in 1..N : Adds(i, C) \subseteq C
       PROVE  f[N] \subseteq C
  <2>1. \A i \in 1..N : f[i - 1] \subseteq C => f[i] \subseteq C
    BY <1>5, <1>10 DEF Adds
  <2>2. \A i \in 0..N : f[i] \subseteq C
    BY <1>1, <1>5, <1>10, <2>1, TableBounded
  <2> QED
    BY <1>8, <2>2
<1>11. f[N] \in SUBSET Ids
  <2>1. \A i \in 1..N : Adds(i, Ids) \subseteq Ids
    BY <1>2 DEF X
  <2> QED
    BY <1>10, <2>1
<1>12. ASSUME NEW C, set \subseteq C, Closed(C) PROVE f[N] \subseteq C
  <2>1. ASSUME NEW i \in 1..N PROVE Adds(i, C) \subseteq C
    <3>1. specs[i].id \in Ids /\ DependsOn(specs[i].id) = specs[i].depends_on
      BY <1>1, SpecsAre DEF DependsOn, Ids
    <3> QED
      BY <1>12, <3>1 DEF Closed, Adds
  <2> QED
    BY <1>10, <1>12, <2>1
<1>13. ASSUME f[N] = set PROVE Closed(set)
  <2>1. ASSUME NEW i \in 1..N PROVE f[i] = set /\ f[i - 1] = set
    <3>1. i \in 0..N /\ i - 1 \in 0..N
      BY <1>1
    <3>2. ASSUME NEW j \in 0..N PROVE f[j] = set
      <4>1. 0 \in 0..j /\ j \in 0..N
        BY <1>1
      <4>2. f[0] \subseteq f[j] /\ f[j] \subseteq f[N]
        BY <1>7, <1>8, <4>1
      <4> QED
        BY <1>5, <1>13, <4>2
    <3> QED
      BY <3>1, <3>2
  <2>2. SUFFICES ASSUME NEW id \in Ids, DependsOn(id) \cap set # {} PROVE id \in set
    BY DEF Closed
  <2>3. PICK i \in 1..N : NodeOf(id) = specs[i] /\ NodeOf(id).id = id
    BY <1>1, SpecsAre
  <2>4. set = Adds(i, set) /\ specs[i].id = id /\ specs[i].depends_on = DependsOn(id)
    BY <1>5, <2>1, <2>3 DEF DependsOn
  <2> QED
    BY <2>2, <2>4 DEF Adds
<1> QED
  BY <1>4, <1>9, <1>11, <1>12, <1>13

\* Of the sets closed so that hold the failed node, the least, without that node.
LEMMA AffectedIs ==
  ASSUME specs \in Submissions, Distinct, NEW failed \in Ids
  PROVE  \E K \in SUBSET Ids :
           /\ Affected(failed) = K \ {failed} /\ failed \in K /\ Closed(K)
           /\ \A C : failed \in C /\ Closed(C) => K \subseteq C
<1> DEFINE N == Len(specs)
           X == SUBSET Ids
           Walks(g) == g = [n \in 0..N |-> IF n = 0 THEN {failed} ELSE Pass(g[n - 1])]
           f == CHOOSE g : Walks(g)
<1>1. N \in Nat /\ Cardinality(Ids) = N /\ IsFiniteSet(Ids)
  BY SpecsAre DEF Distinct
<1>2. \A S \in X : Pass(S) \in X
  BY PassIs
<1>3. Affected(failed) = f[N] \ {failed}
  BY DEF Affected
<1>4. Walks(f)
  <2> DEFINE step == [n \in 1..N |-> [S \in X |-> Pass(S)]]
  <2>1. step \in [1..N -> [X -> X]]
    BY <1>2
  <2>2. {failed} \in X
    OBVIOUS
  <2>3. \A n \in 1..N : \A S \in X : step[n][S] = Pass(S)
    OBVIOUS
  <2> HIDE DEF step, X, N
  <2>4. PICK g : IsTable(g, N, X, {failed}, step)
    BY <1>1, <2>1, <2>2, TableExists
  <2>5. ASSUME NEW n \in 0..N
        PROVE  g[n] = IF n = 0 THEN {failed} ELSE Pass(g[n - 1])
    <3>1. CASE n = 0
      BY <2>4, <3>1 DEF IsTable
    <3>2. CASE n # 0
      <4>1. n \in 1..N /\ n - 1 \in 0..N
        BY <1>1, <3>2
      <4>2. g[n] = step[n][g[n - 1]] /\ g[n - 1] \in X
        BY <2>4, <4>1 DEF IsTable
      <4> QED
        BY <2>3, <3>2, <4>1, <4>2
    <3> QED
      BY <3>1, <3>2
  <2>6. g = [n \in 0..N |-> g[n]]
    BY <2>4 DEF IsTable
  <2>7. [n \in 0..N |-> g[n]] = [n \in 0..N |-> IF n = 0 THEN {failed} ELSE Pass(g[n - 1])]
    BY <2>5, Zenon
  <2>8. Walks(g)
    BY <2>6, <2>7, Zenon
  <2> QED
    BY <2>8
<1>5. f[0] = {failed} /\ \A n \in 1..N : f[n] = Pass(f[n - 1])
  <2> HIDE DEF f
  <2>1. \A n \in 0..N : f[n] = IF n = 0 THEN {failed} ELSE Pass(f[n - 1])
    BY <1>4, Zenon
  <2>2. 0 \in 0..N /\ \A n \in 1..N : n \in 0..N /\ n # 0
    BY <1>1
  <2> QED
    BY <2>1, <2>2
<1> HIDE DEF f, X, N
<1>6. \A n \in 0..N : f[n] \subseteq Ids
  <2>1. \A n \in 1..N : f[n - 1] \subseteq Ids => f[n] \subseteq Ids
    BY <1>2, <1>5 DEF X
  <2>2. f[0] \subseteq Ids
    BY <1>5
  <2> QED
    BY <1>1, <2>1, <2>2, TableBounded
<1>7. 0 \in 0..N /\ N \in 0..N /\ \A n \in 1..N : n \in 0..N /\ n - 1 \in 0..N
  BY <1>1
<1>8. failed \in f[N]
  <2>1. \A n \in 1..N : f[n - 1] \subseteq f[n]
    BY <1>5, <1>6, <1>7, PassIs
  <2>2. \A j \in 0..N : \A i \in 0..j : f[i] \subseteq f[j]
    BY <1>1, <2>1, TableGrows
  <2> QED
    BY <1>5, <1>7, <2>2
<1>9. ASSUME NEW C, failed \in C, Closed(C) PROVE f[N] \subseteq C
  <2>1. \A n \in 1..N : f[n - 1] \subseteq C => f[n] \subseteq C
    <3>1. ASSUME NEW n \in 1..N, f[n - 1] \subseteq C PROVE f[n] \subseteq C
      <4>1. f[n - 1] \in SUBSET Ids /\ f[n] = Pass(f[n - 1])
        BY <1>5, <1>6, <1>7
      <4> QED
        BY <1>9, <3>1, <4>1, PassIs
    <3> QED
      BY <3>1
  <2>2. f[0] \subseteq C
    BY <1>5, <1>9
  <2>3. \A n \in 0..N : f[n] \subseteq C
    BY <1>1, <2>1, <2>2, TableBounded
  <2> QED
    BY <1>7, <2>3
<1>10. \A n \in 0..N : IsFiniteSet(f[n]) /\ Cardinality(f[n]) \in Nat
  BY <1>1, <1>6, FS_Subset, FS_CardinalityType
<1>11. \A n \in 0..N : Cardinality(f[n]) >= n + 1 \/ Pass(f[n]) = f[n]
  <2> DEFINE Bad == {n \in 0..N : ~(Cardinality(f[n]) >= n + 1 \/ Pass(f[n]) = f[n])}
  <2> SUFFICES ASSUME Bad # {} PROVE FALSE
    OBVIOUS
  <2>0. Bad \in SUBSET Nat
    OBVIOUS
  <2> HIDE DEF Bad
  <2>1. PICK m \in Bad : \A k \in Bad : m <= k
    BY <2>0, LeastNatural
  <2>2. m \in 0..N /\ ~(Cardinality(f[m]) >= m + 1) /\ Pass(f[m]) # f[m]
    BY <2>1 DEF Bad
  <2>3. m # 0
    <3>1. Cardinality({failed}) = 1
      BY FS_Singleton
    <3> QED
      BY <1>5, <2>2, <3>1
  <2>4. m \in 1..N /\ m - 1 \in 0..N /\ ~(m <= m - 1) /\ m \in Nat
    BY <1>1, <2>2, <2>3
  <2>5. Cardinality(f[m - 1]) >= (m - 1) + 1 \/ Pass(f[m - 1]) = f[m - 1]
    <3>1. m - 1 \notin Bad
      BY <2>1, <2>4
    <3> QED
      BY <2>4, <3>1 DEF Bad
  <2>6. f[m] = Pass(f[m - 1]) /\ f[m - 1] \in SUBSET Ids
    BY <1>5, <1>6, <2>4
  <2>7. f[m] # f[m - 1]
    BY <2>2, <2>6
  <2>8. PICK S, T : S = f[m] /\ T = f[m - 1]
    OBVIOUS
  <2>9. T \in SUBSET S /\ IsFiniteSet(S) /\ T # S
    BY <1>10, <2>2, <2>6, <2>7, <2>8, PassIs
  <2>10. Cardinality(T) <= Cardinality(S) /\ (Cardinality(S) = Cardinality(T) => S = T)
    BY <2>9, FS_Subset
  <2>11. Cardinality(T) >= (m - 1) + 1 /\ Cardinality(T) \in Nat /\ Cardinality(S) \in Nat
    BY <1>10, <2>2, <2>4, <2>5, <2>6, <2>7, <2>8
  <2>12. Cardinality(S) >= m + 1
    BY <2>4, <2>9, <2>10, <2>11
  <2> QED
    BY <2>2, <2>8, <2>12
<1>12. Closed(f[N])
  <2>1. f[N] \in SUBSET Ids
    BY <1>6, <1>7
  <2>2. Cardinality(f[N]) <= N /\ Cardinality(f[N]) \in Nat
    BY <1>1, <1>7, <1>10, <2>1, FS_Subset
  <2>3. Pass(f[N]) = f[N]
    BY <1>1, <1>7, <1>11, <2>2
  <2> QED
    BY <2>1, <2>3, PassIs
<1>13. f[N] \in SUBSET Ids
  BY <1>6, <1>7
<1> QED
  BY <1>3, <1>8, <1>9, <1>12, <1>13
LEMMA DistinctOrder ==
  ASSUME NEW o \in Seq(NodeIds), Topological(o)
  PROVE  Distinctly(o) /\ RangeOf(o) = Ids
<1>1. RangeOf(o) = Ids /\ Cardinality(RangeOf(o)) = Len(o)
  BY DEF Topological, ToSet, RangeOf
<1> QED
  BY <1>1, RangeSize

\* What the failed node of an order blocks is what depends on it, and stands behind it.
LEMMA AffectedIsDependents ==
  ASSUME specs \in Submissions, Distinct, NEW o \in Seq(NodeIds), Topological(o),
         NEW n \in DOMAIN o
  PROVE  /\ Affected(o[n]) = Dependents(o[n]) /\ Dependents(o[n]) \in SUBSET NodeIds
         /\ \A i \in 1..n : o[i] \notin Dependents(o[n])
<1>1. /\ DOMAIN o = 1..Len(o) /\ Len(o) \in Nat /\ n \in Nat
      /\ \A i, j \in DOMAIN o : o[i] = o[j] => i = j
      /\ \A id : id \in Ids <=> \E i \in DOMAIN o : o[i] = id
  BY DistinctOrder DEF Distinctly, RangeOf
<1>2. PICK failed : failed = o[n]
  OBVIOUS
<1>3. failed \in Ids
  BY <1>1, <1>2
<1>4. PICK K \in SUBSET Ids :
        /\ Affected(failed) = K \ {failed} /\ failed \in K /\ Closed(K)
        /\ \A C : failed \in C /\ Closed(C) => K \subseteq C
  BY <1>3, AffectedIs
<1> DEFINE Later == {id \in Ids : \E j \in DOMAIN o : n <= j /\ o[j] = id}
<1>5. ASSUME NEW k \in DOMAIN o, NEW d \in DependsOn(o[k]) \cap Later PROVE n < k
  <2>1. PICK j \in DOMAIN o : n <= j /\ o[j] = d
    OBVIOUS
  <2>2. PICK i \in 1..(k - 1) : o[i] = d
    BY DEF Topological
  <2>3. i \in DOMAIN o /\ i = j
    BY <1>1, <2>1, <2>2
  <2> QED
    BY <1>1, <2>1, <2>2, <2>3
<1>6. failed \in Later /\ Closed(Later)
  <2>1. failed \in Later
    BY <1>1, <1>2, <1>3
  <2>2. ASSUME NEW id \in Ids, DependsOn(id) \cap Later # {} PROVE id \in Later
    <3>1. PICK k \in DOMAIN o : o[k] = id
      BY <1>1
    <3>2. n < k
      BY <1>5, <2>2, <3>1
    <3> QED
      BY <1>1, <3>1, <3>2
  <2> QED
    BY <2>1, <2>2 DEF Closed
<1>7. K \subseteq Later
  BY <1>4, <1>6
<1>8. DependsOn(failed) \cap K = {}
  <2>1. SUFFICES ASSUME NEW d \in DependsOn(failed) \cap K PROVE FALSE
    OBVIOUS
  <2>2. d \in DependsOn(o[n]) \cap Later
    BY <1>2, <1>7
  <2>3. n < n
    BY <1>5, <2>2
  <2> QED
    BY <1>1, <2>3
<1>9. PICK S : S = K \ {failed}
  OBVIOUS
<1> DEFINE Good(set) == \A id \in Ids : DependsOn(id) \cap (set \cup {failed}) # {} => id \in set
           family == {set \in SUBSET Ids : Good(set)}
<1>10. S \in family
  <2>1. S \cup {failed} = K
    BY <1>4, <1>9
  <2>2. Good(S)
    BY <1>4, <1>8, <1>9, <2>1 DEF Closed
  <2> QED
    BY <1>9, <2>2
<1>11. ASSUME NEW other \in family PROVE S \subseteq other
  <2>1. PICK C : C = other \cup {failed}
    OBVIOUS
  <2>2. Good(other)
    OBVIOUS
  <2>3. Closed(C) /\ failed \in C
    BY <2>1, <2>2 DEF Closed
  <2> QED
    BY <1>4, <1>9, <2>1, <2>3
<1>12. Dependents(failed) = CHOOSE set \in family : \A other \in family : set \subseteq other
  BY DEF Dependents
<1> HIDE DEF family
<1>13. Dependents(failed) = S
  <2>1. \E set \in family : \A other \in family : set \subseteq other
    BY <1>10, <1>11
  <2>2. PICK T : T = Dependents(failed)
    OBVIOUS
  <2>3. T \in family /\ \A other \in family : T \subseteq other
    BY <1>12, <2>1, <2>2
  <2>4. T \subseteq S /\ S \subseteq T
    BY <1>10, <1>11, <2>3
  <2> QED
    BY <2>2, <2>4
<1>14. ASSUME NEW i \in 1..n PROVE o[i] \notin S
  <2>1. SUFFICES ASSUME o[i] \in S PROVE FALSE
    OBVIOUS
  <2>2. o[i] \in Later /\ o[i] # o[n]
    BY <1>2, <1>7, <1>9, <2>1
  <2>3. PICK j \in DOMAIN o : n <= j /\ o[j] = o[i]
    BY <2>2
  <2>4. i \in DOMAIN o /\ j = i /\ i # n
    BY <1>1, <2>2, <2>3
  <2> QED
    BY <1>1, <2>3, <2>4
<1>15. S \in SUBSET NodeIds
  BY <1>4, <1>9, SpecsAre
<1> QED
  BY <1>2, <1>4, <1>9, <1>13, <1>14, <1>15

-----------------------------------------------------------------------------
(* The planners and the runs of a graph. *)

\* Either planner accepts what is submitted exactly when this holds.
Accepted == ValidSpecs /\ Acyclic /\ Ids \subseteq grants.plans
WorkflowAccepted == /\ ValidSpecs /\ Len(specs) <= WorkflowLimit /\ Acyclic
                    /\ Ids \subseteq grants.capabilities

AnswerIsRight ==
  /\ dag.answer = "refused" => ~ValidSpecs
  /\ dag.answer = "cyclic" => ValidSpecs /\ ~Acyclic
  /\ dag.answer = "blocked" => /\ ValidSpecs /\ Acyclic /\ Topological(dag.order)
                               /\ ~(Ids \subseteq grants.plans)
  /\ dag.answer = "executable" => Accepted /\ Topological(dag.order)

\* What ran is the front of the order.
RanInOrder ==
  /\ execution.next \in Nat \ {0}
  /\ dag.answer # "executable" => execution.next = 1
  /\ dag.answer = "executable" => execution.next <= Len(dag.order) + 1
  /\ ran = {dag.order[i] : i \in 1..(execution.next - 1)}

FailedIsNext ==
  execution.failed # 0 =>
    /\ dag.answer = "executable" /\ execution.next <= Len(dag.order)
    /\ execution.failed = dag.order[execution.next]
    /\ execution.blocked = Dependents(execution.failed)
    /\ execution.ended

EndIsRight ==
  /\ execution.ended => dag.answer # "none"
  /\ IsSuccess /\ dag.answer # "refused" => ran = Ids

\* A dependency of a node under way is visited, still to look at, or under way above it.
Above(s, i) == IF i < Len(s) THEN {s[i + 1].key} ELSE {}
Frames(s, done) == \A i \in DOMAIN s :
  /\ s[i].key \in Ids /\ s[i].key \notin done
  /\ DependsOn(s[i].key) \subseteq done \cup RangeOf(s[i].left) \cup Above(s, i)
  /\ RangeOf(s[i].left) \cup Above(s, i) \subseteq DependsOn(s[i].key)
  /\ \A j \in DOMAIN s : j # i => s[j].key # s[i].key

Listed(o, done) ==
  /\ done = RangeOf(o) /\ done \subseteq Ids /\ Distinctly(o)
  /\ \A i \in DOMAIN o : DependsOn(o[i]) \subseteq {o[j] : j \in 1..(i - 1)}

Begun == specs # <<>> /\ Len(specs) <= WorkflowLimit /\ Distinct
VisitInOrder ==
  /\ visit.stack # <<>> \/ visit.visited # {} => Begun
  /\ Frames(visit.stack, visit.visited) /\ Listed(visit.ordered, visit.visited)

WorkflowIsRight ==
  /\ workflow = "refused" => ~WorkflowAccepted
  /\ workflow = "executable" => WorkflowAccepted /\ Topological(visit.ordered)

Frame == [key : NodeIds, left : Seq(NodeIds)]
DagTyped == dag \in [answer : Answer \cup {"cyclic", "blocked"}, order : Seq(NodeIds)]
ExecutionTyped ==
  /\ execution \in [next : Nat, completed : Seq(NodeIds), blocked : SUBSET NodeIds,
                    failed : NodeIds \cup {0}, ended : BOOLEAN]
  /\ ran \subseteq NodeIds
VisitTyped ==
  /\ visit \in [stack : Seq(Frame), visited : SUBSET NodeIds, ordered : Seq(NodeIds)]
  /\ workflow \in Answer

GraphInv ==
  /\ specs \in Submissions /\ grants \in Grantings
  /\ DagTyped /\ ExecutionTyped /\ VisitTyped
  /\ AnswerIsRight /\ RanInOrder /\ FailedIsNext /\ EndIsRight
  /\ VisitInOrder /\ WorkflowIsRight

LEMMA GraphInitInv == GraphInit => GraphInv
<1> SUFFICES ASSUME GraphInit PROVE GraphInv
  OBVIOUS
<1>1. dag = [answer |-> "none", order |-> <<>>] /\ workflow = "none" /\ ran = {}
  BY DEF GraphInit
<1>2. execution = [next |-> 1, completed |-> <<>>, blocked |-> {}, failed |-> 0, ended |-> FALSE]
  BY DEF GraphInit
<1>3. visit.stack = <<>> /\ visit.visited = {} /\ visit.ordered = <<>>
  BY DEF GraphInit
<1>4. specs \in Submissions /\ grants \in Grantings
  BY GraphAssumption DEF GraphInit
<1>5. DagTyped /\ ExecutionTyped
  BY <1>1, <1>2 DEF DagTyped, ExecutionTyped, Answer
<1>6. VisitTyped
  BY <1>1 DEF GraphInit, VisitTyped, Answer
<1>7. AnswerIsRight /\ WorkflowIsRight
  BY <1>1 DEF AnswerIsRight, WorkflowIsRight
<1>8. RanInOrder /\ FailedIsNext /\ EndIsRight
  BY <1>1, <1>2 DEF RanInOrder, FailedIsNext, EndIsRight, IsSuccess
<1>9. VisitInOrder
  BY <1>3 DEF VisitInOrder, Frames, Listed, RangeOf, Distinctly
<1> QED
  BY <1>4, <1>5, <1>6, <1>7, <1>8, <1>9 DEF GraphInv

\* What is said of the submission stays said.
LEMMA Frozen ==
  ASSUME UNCHANGED specs
  PROVE  /\ Ids' = Ids /\ (ValidSpecs' <=> ValidSpecs) /\ (Acyclic' <=> Acyclic)
         /\ Begun' <=> Begun
         /\ \A id : DependsOn(id)' = DependsOn(id)
         /\ \A o : Topological(o)' <=> Topological(o)
         /\ \A id : Dependents(id)' = Dependents(id)
         /\ \A s, done : Frames(s, done)' <=> Frames(s, done)
         /\ \A o, done : Listed(o, done)' <=> Listed(o, done)
<1>1. Ids' = Ids /\ \A id : DependsOn(id)' = DependsOn(id)
  BY DEF Ids, DependsOn, NodeOf
<1>2. (ValidSpecs' <=> ValidSpecs) /\ (Begun' <=> Begun)
  BY <1>1 DEF ValidSpecs, Begun, Distinct
<1>3. Acyclic' <=> Acyclic
  BY <1>1 DEF Acyclic
<1>4. \A o : Topological(o)' <=> Topological(o)
  BY <1>1 DEF Topological
<1>5. \A id : Dependents(id)' = Dependents(id)
  BY DEF Dependents, Ids, DependsOn, NodeOf
<1>6. \A s, done : Frames(s, done)' <=> Frames(s, done)
  BY <1>1 DEF Frames
<1>7. \A o, done : Listed(o, done)' <=> Listed(o, done)
  BY <1>1 DEF Listed
<1> QED
  BY <1>1, <1>2, <1>3, <1>4, <1>5, <1>6, <1>7

\* Steps of one part leave what is said of the others.
LEMMA OtherParts ==
  ASSUME GraphInv, UNCHANGED <<specs, grants>>
  PROVE  /\ UNCHANGED dag => DagTyped' /\ AnswerIsRight'
         /\ UNCHANGED <<dag, execution, ran>> =>
              ExecutionTyped' /\ RanInOrder' /\ FailedIsNext' /\ EndIsRight'
         /\ UNCHANGED <<visit, workflow>> => VisitTyped' /\ VisitInOrder' /\ WorkflowIsRight'
<1>1. UNCHANGED dag => DagTyped' /\ AnswerIsRight'
  BY Frozen DEF GraphInv, DagTyped, AnswerIsRight, Accepted
<1>2. UNCHANGED <<dag, execution, ran>> =>
        ExecutionTyped' /\ RanInOrder' /\ FailedIsNext' /\ EndIsRight'
  BY Frozen DEF GraphInv, ExecutionTyped, RanInOrder, FailedIsNext, EndIsRight, IsSuccess
<1>3. UNCHANGED <<visit, workflow>> => VisitTyped' /\ WorkflowIsRight'
  BY Frozen DEF GraphInv, VisitTyped, WorkflowIsRight, WorkflowAccepted
<1>4. UNCHANGED visit => VisitInOrder'
  BY Frozen DEF GraphInv, VisitInOrder
<1> QED
  BY <1>1, <1>2, <1>3, <1>4
LEMMA PlanDagInv == GraphInv /\ PlanDag => GraphInv'
<1> SUFFICES ASSUME GraphInv, PlanDag PROVE GraphInv'
  OBVIOUS
<1>1. UNCHANGED <<specs, grants, execution, visit, workflow, ran>> /\ dag.answer = "none"
  BY DEF PlanDag
<1>2. VisitTyped' /\ VisitInOrder' /\ WorkflowIsRight'
  BY <1>1, OtherParts
<1>3. PICK answer, o :
        /\ dag' = [answer |-> answer, order |-> o] /\ o \in Seq(NodeIds)
        /\ answer \in {"refused", "cyclic", "blocked", "executable"}
        /\ answer = "refused" => ~ValidSpecs
        /\ answer = "cyclic" => ValidSpecs /\ ~Acyclic
        /\ answer = "blocked" => /\ ValidSpecs /\ Acyclic /\ Topological(o)
                                 /\ ~(Ids \subseteq grants.plans)
        /\ answer = "executable" => Accepted /\ Topological(o)
  <2>1. CASE ~ValidSpecs
    <3>1. dag' = [answer |-> "refused", order |-> <<>>] /\ <<>> \in Seq(NodeIds)
      BY <2>1 DEF PlanDag
    <3> WITNESS "refused", <<>>
    <3> QED
      BY <2>1, <3>1
  <2>2. CASE ValidSpecs
    <3>1. PICK o : o = Order
      OBVIOUS
    <3>2. /\ o \in Seq(NodeIds) /\ (Len(o) < Cardinality(Ids) => ~Acyclic)
          /\ ~(Len(o) < Cardinality(Ids)) => Acyclic /\ Topological(o)
      BY <2>2, <3>1, OrderIs DEF GraphInv
    <3>3. dag' = [order |-> o,
                  answer |-> IF Len(o) < Cardinality(Ids) THEN "cyclic"
                             ELSE IF Ids \subseteq grants.plans THEN "executable"
                             ELSE "blocked"]
      BY <2>2, <3>1 DEF PlanDag
    <3>4. CASE Len(o) < Cardinality(Ids)
      <4>1. dag' = [answer |-> "cyclic", order |-> o]
        BY <3>3, <3>4
      <4> WITNESS "cyclic", o
      <4> QED
        BY <2>2, <3>2, <3>4, <4>1
    <3>5. CASE ~(Len(o) < Cardinality(Ids)) /\ Ids \subseteq grants.plans
      <4>1. dag' = [answer |-> "executable", order |-> o]
        BY <3>3, <3>5
      <4> WITNESS "executable", o
      <4> QED
        BY <2>2, <3>2, <3>5, <4>1 DEF Accepted
    <3>6. CASE ~(Len(o) < Cardinality(Ids)) /\ ~(Ids \subseteq grants.plans)
      <4>1. dag' = [answer |-> "blocked", order |-> o]
        BY <3>3, <3>6
      <4> WITNESS "blocked", o
      <4> QED
        BY <2>2, <3>2, <3>6, <4>1
    <3> QED
      BY <3>4, <3>5, <3>6
  <2> QED
    BY <2>1, <2>2
<1>4. dag'.answer = answer /\ dag'.order = o /\ DagTyped'
  BY <1>3 DEF DagTyped, Answer
<1>5. AnswerIsRight'
  BY <1>1, <1>3, <1>4, Frozen DEF AnswerIsRight, Accepted
<1>6. execution.next = 1 /\ ran = {} /\ execution.failed = 0 /\ execution.ended = FALSE
  BY <1>1 DEF GraphInv, RanInOrder, FailedIsNext, EndIsRight, ExecutionTyped
<1>7. ExecutionTyped' /\ FailedIsNext' /\ EndIsRight'
  BY <1>1, <1>6 DEF GraphInv, ExecutionTyped, FailedIsNext, EndIsRight, IsSuccess
<1>8. RanInOrder'
  <2>1. Len(o) \in Nat
    BY <1>3
  <2> QED
    BY <1>1, <1>4, <1>6, <2>1 DEF RanInOrder
<1> QED
  BY <1>1, <1>2, <1>4, <1>5, <1>7, <1>8 DEF GraphInv

\* A submission that is accepted, and the order it is run in.
LEMMA OrderAtHand ==
  ASSUME GraphInv, Executing, dag.answer = "executable"
  PROVE  /\ ValidSpecs /\ Distinct /\ dag.order \in Seq(NodeIds) /\ Topological(dag.order)
         /\ RangeOf(dag.order) = Ids /\ Distinctly(dag.order)
         /\ DOMAIN dag.order = 1..Len(dag.order) /\ Len(dag.order) \in Nat
         /\ execution.failed = 0 /\ execution.next \in Nat \ {0}
         /\ execution.next <= Len(dag.order) + 1
         /\ ran = {dag.order[i] : i \in 1..(execution.next - 1)}
<1>1. dag.order \in Seq(NodeIds)
  BY DEF GraphInv, DagTyped
<1>2. ValidSpecs /\ Topological(dag.order)
  BY DEF GraphInv, AnswerIsRight, Accepted
<1>3. execution.failed = 0
  BY DEF GraphInv, FailedIsNext, Executing
<1>4. PICK o : o = dag.order
  OBVIOUS
<1>5. RangeOf(o) = Ids /\ Distinctly(o)
  BY <1>1, <1>2, <1>4, DistinctOrder
<1>6. DOMAIN o = 1..Len(o) /\ Len(o) \in Nat
  BY <1>1, <1>4
<1> QED
  BY <1>1, <1>2, <1>3, <1>4, <1>5, <1>6 DEF GraphInv, RanInOrder, ValidSpecs

LEMMA NotExecutableInv == GraphInv /\ NotExecutable => GraphInv'
<1> SUFFICES ASSUME GraphInv, NotExecutable PROVE GraphInv'
  OBVIOUS
<1>1. /\ UNCHANGED <<specs, grants, dag, visit, workflow, ran>>
      /\ dag.answer # "none" /\ dag.answer # "executable"
  BY DEF NotExecutable, Executing
<1>2. DagTyped' /\ AnswerIsRight' /\ VisitTyped' /\ VisitInOrder' /\ WorkflowIsRight'
  BY <1>1, OtherParts
<1>3. PICK blocked : /\ execution' = [execution EXCEPT !.ended = TRUE, !.blocked = blocked]
                     /\ blocked = IF dag.answer = "refused" THEN {} ELSE Ids
  BY DEF NotExecutable
<1>4. Ids \subseteq NodeIds
  BY SpecsAre DEF GraphInv
<1>5. /\ execution'.next = execution.next /\ execution'.failed = execution.failed
      /\ execution'.ended = TRUE /\ execution'.blocked = blocked
      /\ ExecutionTyped'
  BY <1>1, <1>3, <1>4 DEF GraphInv, ExecutionTyped
<1>6. RanInOrder' /\ FailedIsNext'
  BY <1>1, <1>5 DEF GraphInv, RanInOrder, FailedIsNext
<1>7. dag.answer # "refused" => Ids # {}
  <2>1. dag.answer # "refused" => ValidSpecs
    BY <1>1 DEF GraphInv, AnswerIsRight, DagTyped, Answer
  <2> QED
    BY <2>1, SpecsAre DEF GraphInv, ValidSpecs
<1>8. EndIsRight'
  BY <1>1, <1>3, <1>5, <1>7 DEF EndIsRight, IsSuccess
<1> QED
  BY <1>1, <1>2, <1>5, <1>6, <1>8 DEF GraphInv

LEMMA RunNodeInv == GraphInv /\ RunNode => GraphInv'
<1> SUFFICES ASSUME GraphInv, RunNode PROVE GraphInv'
  OBVIOUS
<1>1. /\ UNCHANGED <<specs, grants, dag, visit, workflow>>
      /\ Executing /\ dag.answer = "executable" /\ execution.next <= Len(dag.order)
  BY DEF RunNode, AtNode
<1>2. DagTyped' /\ AnswerIsRight' /\ VisitTyped' /\ VisitInOrder' /\ WorkflowIsRight'
  BY <1>1, OtherParts
<1>3. PICK o, n : o = dag.order /\ n = execution.next
  OBVIOUS
<1>4. /\ o \in Seq(NodeIds) /\ DOMAIN o = 1..Len(o) /\ Len(o) \in Nat
      /\ n \in Nat \ {0} /\ n <= Len(o) /\ ran = {o[i] : i \in 1..(n - 1)}
      /\ execution.failed = 0 /\ ~execution.ended
  BY <1>1, <1>3, OrderAtHand DEF Executing
<1>5. n \in DOMAIN o /\ o[n] \in NodeIds
  BY <1>4
<1>6. execution' = [execution EXCEPT !.next = n + 1,
                                     !.completed = Append(execution.completed, o[n])]
  BY <1>3 DEF RunNode, GraphInv, ExecutionTyped
<1>7. ran' = ran \cup {o[n]}
  BY <1>3 DEF RunNode
<1>8. /\ execution'.next = n + 1 /\ execution'.failed = 0 /\ execution'.ended = FALSE
      /\ ExecutionTyped'
  <2>1. Append(execution.completed, o[n]) \in Seq(NodeIds)
    BY <1>5 DEF GraphInv, ExecutionTyped
  <2>2. ran' \subseteq NodeIds
    BY <1>5, <1>7 DEF GraphInv, ExecutionTyped
  <2>3. n + 1 \in Nat
    BY <1>4
  <2>4. PICK c : c = Append(execution.completed, o[n])
    OBVIOUS
  <2>5. execution' = [execution EXCEPT !.next = n + 1, !.completed = c]
    BY <1>6, <2>4
  <2>6. execution' \in [next : Nat, completed : Seq(NodeIds), blocked : SUBSET NodeIds,
                        failed : NodeIds \cup {0}, ended : BOOLEAN]
    BY <2>1, <2>3, <2>4, <2>5 DEF GraphInv, ExecutionTyped
  <2>7. execution'.next = n + 1 /\ execution'.failed = 0 /\ execution'.ended = FALSE
    BY <1>4, <2>5 DEF GraphInv, ExecutionTyped
  <2> QED
    BY <2>2, <2>6, <2>7 DEF ExecutionTyped
<1>9. ran' = {o[i] : i \in 1..((n + 1) - 1)}
  <2>1. 1..((n + 1) - 1) = 1..(n - 1) \cup {n}
    BY <1>4
  <2> QED
    BY <1>4, <1>7, <2>1
<1>10. RanInOrder'
  <2>1. n + 1 \in Nat \ {0} /\ n + 1 <= Len(o) + 1 /\ dag'.order = o
    BY <1>1, <1>3, <1>4
  <2> QED
    BY <1>1, <1>8, <1>9, <2>1 DEF RanInOrder
<1>11. FailedIsNext' /\ EndIsRight'
  BY <1>8 DEF FailedIsNext, EndIsRight, IsSuccess
<1> QED
  BY <1>1, <1>2, <1>8, <1>10, <1>11 DEF GraphInv

LEMMA NodeFailsInv == GraphInv /\ NodeFails => GraphInv'
<1> SUFFICES ASSUME GraphInv, NodeFails PROVE GraphInv'
  OBVIOUS
<1>1. /\ UNCHANGED <<specs, grants, dag, visit, workflow, ran>>
      /\ Executing /\ dag.answer = "executable" /\ execution.next <= Len(dag.order)
  BY DEF NodeFails, AtNode
<1>2. DagTyped' /\ AnswerIsRight' /\ VisitTyped' /\ VisitInOrder' /\ WorkflowIsRight'
  BY <1>1, OtherParts
<1>3. PICK o, n : o = dag.order /\ n = execution.next
  OBVIOUS
<1>4. /\ o \in Seq(NodeIds) /\ DOMAIN o = 1..Len(o) /\ Len(o) \in Nat
      /\ n \in Nat \ {0} /\ n <= Len(o) /\ Distinct /\ Topological(o)
  BY <1>1, <1>3, OrderAtHand
<1>5. n \in DOMAIN o /\ o[n] \in NodeIds /\ o[n] # 0
  BY <1>4, GraphAssumption
<1>6. /\ Affected(o[n]) = Dependents(o[n]) /\ Dependents(o[n]) \in SUBSET NodeIds
  BY <1>4, <1>5, AffectedIsDependents DEF GraphInv
<1>7. execution' = [execution EXCEPT !.failed = o[n], !.blocked = Dependents(o[n]),
                                     !.ended = TRUE]
  BY <1>3, <1>6 DEF NodeFails
<1>8. /\ execution'.next = n /\ execution'.failed = o[n] /\ execution'.ended = TRUE
      /\ execution'.blocked = Dependents(o[n]) /\ ExecutionTyped'
  BY <1>1, <1>3, <1>5, <1>6, <1>7 DEF GraphInv, ExecutionTyped
<1>9. RanInOrder'
  BY <1>1, <1>3, <1>8 DEF GraphInv, RanInOrder
<1>10. FailedIsNext'
  <2>1. execution'.failed = o[n] /\ specs' = specs
    BY <1>1, <1>8
  <2>2. Dependents(execution.failed)' = Dependents(o[n])
    BY <2>1 DEF Dependents, Ids, DependsOn, NodeOf
  <2> QED
    BY <1>1, <1>3, <1>4, <1>8, <2>2 DEF FailedIsNext
<1>11. EndIsRight'
  BY <1>1, <1>5, <1>8 DEF EndIsRight, IsSuccess
<1> QED
  BY <1>1, <1>2, <1>8, <1>9, <1>10, <1>11 DEF GraphInv

LEMMA AllRanInv == GraphInv /\ AllRan => GraphInv'
<1> SUFFICES ASSUME GraphInv, AllRan PROVE GraphInv'
  OBVIOUS
<1>1. /\ UNCHANGED <<specs, grants, dag, visit, workflow, ran>>
      /\ Executing /\ dag.answer = "executable" /\ execution.next > Len(dag.order)
  BY DEF AllRan
<1>2. DagTyped' /\ AnswerIsRight' /\ VisitTyped' /\ VisitInOrder' /\ WorkflowIsRight'
  BY <1>1, OtherParts
<1>3. PICK o, n : o = dag.order /\ n = execution.next
  OBVIOUS
<1>4. /\ RangeOf(o) = Ids /\ DOMAIN o = 1..Len(o) /\ Len(o) \in Nat
      /\ n \in Nat \ {0} /\ n <= Len(o) + 1 /\ n > Len(o)
      /\ ran = {o[i] : i \in 1..(n - 1)} /\ execution.failed = 0
  BY <1>1, <1>3, OrderAtHand
<1>5. ran = Ids
  <2>1. n - 1 = Len(o)
    BY <1>4
  <2> QED
    BY <1>4, <2>1 DEF RangeOf
<1>6. execution' = [execution EXCEPT !.ended = TRUE]
  BY DEF AllRan
<1>7. /\ execution'.next = execution.next /\ execution'.failed = execution.failed
      /\ execution'.ended = TRUE /\ ExecutionTyped'
  BY <1>1, <1>6 DEF GraphInv, ExecutionTyped
<1>8. RanInOrder' /\ FailedIsNext'
  BY <1>1, <1>4, <1>7 DEF GraphInv, RanInOrder, FailedIsNext
<1>9. EndIsRight'
  <2>1. Ids' = Ids
    BY <1>1, Frozen
  <2> QED
    BY <1>1, <1>5, <2>1 DEF EndIsRight
<1> QED
  BY <1>1, <1>2, <1>7, <1>8, <1>9 DEF GraphInv
\* t is the stack s with the top past its next dependency, d.
Past(s, t, d) ==
  /\ Len(s) \in Nat \ {0} /\ DOMAIN s = 1..Len(s) /\ Len(t) = Len(s) /\ DOMAIN t = DOMAIN s
  /\ \A i \in DOMAIN s : t[i].key = s[i].key /\ (i # Len(s) => t[i] = s[i])
  /\ RangeOf(s[Len(s)].left) = RangeOf(t[Len(s)].left) \cup {d}

LEMMA TailRange ==
  ASSUME NEW l \in Seq(NodeIds), l # <<>>
  PROVE  /\ RangeOf(l) = RangeOf(Tail(l)) \cup {Head(l)} /\ Head(l) \in NodeIds
         /\ Tail(l) \in Seq(NodeIds)
<1>1. PICK m, t : m = Len(l) /\ t = Tail(l)
  OBVIOUS
<1>2. /\ t \in Seq(NodeIds) /\ m \in Nat \ {0} /\ DOMAIN l = 1..m /\ DOMAIN t = 1..(m - 1)
      /\ \A k \in 1..(m - 1) : t[k] = l[k + 1]
      /\ Head(l) = l[1] /\ l[1] \in NodeIds
  BY <1>1
<1>3. ASSUME NEW k \in DOMAIN t PROVE t[k] \in RangeOf(l)
  <2>1. k + 1 \in DOMAIN l /\ t[k] = l[k + 1]
    BY <1>2
  <2> QED
    BY <2>1 DEF RangeOf
<1>4. ASSUME NEW k \in DOMAIN l PROVE l[k] \in RangeOf(t) \cup {l[1]}
  <2>1. CASE k = 1
    BY <2>1
  <2>2. CASE k # 1
    <3>1. k - 1 \in DOMAIN t /\ (k - 1) + 1 = k
      BY <1>2, <2>2
    <3>2. t[k - 1] = l[k]
      BY <1>2, <3>1
    <3> QED
      BY <3>1, <3>2 DEF RangeOf
  <2> QED
    BY <2>1, <2>2
<1>5. l[1] \in RangeOf(l)
  BY <1>2 DEF RangeOf
<1>6. RangeOf(l) = RangeOf(t) \cup {l[1]}
  BY <1>3, <1>4, <1>5 DEF RangeOf
<1> QED
  BY <1>1, <1>2, <1>6

LEMMA AdvancedIs ==
  ASSUME NEW s \in Seq(Frame), s # <<>>, NEW n, n = Len(s), s[n].left # <<>>
  PROVE  LET t == Append(SubSeq(s, 1, n - 1), [s[n] EXCEPT !.left = Tail(@)]) IN
         /\ t \in Seq(Frame) /\ Past(s, t, Head(s[n].left)) /\ Head(s[n].left) \in NodeIds
<1>1. n \in Nat \ {0} /\ DOMAIN s = 1..n /\ n \in DOMAIN s
  OBVIOUS
<1>2. s[n] \in Frame
  BY <1>1
<1>3. PICK l : l = s[n].left
  OBVIOUS
<1>4. l \in Seq(NodeIds) /\ l # <<>>
  BY <1>2, <1>3 DEF Frame
<1>5. PICK top : top = [s[n] EXCEPT !.left = Tail(@)]
  OBVIOUS
<1>6. top \in Frame /\ top.key = s[n].key /\ top.left = Tail(l)
  <2>1. Tail(l) \in Seq(NodeIds)
    BY <1>4, TailRange
  <2> QED
    BY <1>2, <1>3, <1>5, <2>1 DEF Frame
<1>7. PICK b : b = SubSeq(s, 1, n - 1)
  OBVIOUS
<1>8. b \in Seq(Frame) /\ Len(b) = n - 1 /\ \A i \in 1..(n - 1) : b[i] = s[i]
  BY <1>1, <1>7
<1>9. PICK t : t = Append(b, top)
  OBVIOUS
<1>10. /\ t \in Seq(Frame) /\ Len(t) = n /\ DOMAIN t = 1..n /\ t[n] = top
       /\ \A i \in 1..n : i # n => t[i] = s[i]
  BY <1>1, <1>6, <1>8, <1>9
<1>11. \A i \in 1..n : t[i].key = s[i].key
  BY <1>6, <1>10
<1>12. RangeOf(l) = RangeOf(Tail(l)) \cup {Head(l)} /\ Head(l) \in NodeIds
  BY <1>4, TailRange
<1>13. Past(s, t, Head(l))
  BY <1>1, <1>3, <1>6, <1>10, <1>11, <1>12 DEF Past
<1> QED
  BY <1>3, <1>5, <1>7, <1>9, <1>10, <1>12, <1>13

LEMMA FramesAdvance ==
  ASSUME NEW s, NEW t, NEW d, Past(s, t, d), NEW done, Frames(s, done), d \in done
  PROVE  Frames(t, done)
<1>1. PICK n : n = Len(s)
  OBVIOUS
<1>2. /\ n \in Nat \ {0} /\ DOMAIN s = 1..n /\ Len(t) = n /\ DOMAIN t = 1..n
      /\ \A i \in 1..n : t[i].key = s[i].key /\ (i # n => t[i] = s[i])
      /\ RangeOf(s[n].left) = RangeOf(t[n].left) \cup {d}
  BY <1>1, Zenon DEF Past
<1>3. ASSUME NEW i \in 1..n PROVE Above(t, i) = Above(s, i)
  <2>1. CASE i < n
    <3>1. i + 1 \in 1..n
      BY <1>2, <2>1
    <3>2. t[i + 1].key = s[i + 1].key
      BY <1>2, <3>1
    <3> QED
      BY <1>1, <1>2, <2>1, <3>2 DEF Above
  <2>2. CASE ~(i < n)
    BY <1>1, <1>2, <2>2 DEF Above
  <2> QED
    BY <2>1, <2>2
<1> SUFFICES ASSUME NEW i \in 1..n
      PROVE  /\ t[i].key \in Ids /\ t[i].key \notin done
             /\ DependsOn(t[i].key) \subseteq done \cup RangeOf(t[i].left) \cup Above(t, i)
             /\ RangeOf(t[i].left) \cup Above(t, i) \subseteq DependsOn(t[i].key)
             /\ \A j \in DOMAIN t : j # i => t[j].key # t[i].key
  BY <1>2 DEF Frames
<1>4. /\ s[i].key \in Ids /\ s[i].key \notin done
      /\ DependsOn(s[i].key) \subseteq done \cup RangeOf(s[i].left) \cup Above(s, i)
      /\ RangeOf(s[i].left) \cup Above(s, i) \subseteq DependsOn(s[i].key)
      /\ \A j \in DOMAIN s : j # i => s[j].key # s[i].key
  BY <1>2 DEF Frames
<1>5. t[i].key = s[i].key /\ \A j \in DOMAIN t : t[j].key = s[j].key
  BY <1>2
<1>6. CASE i = n
  BY <1>2, <1>3, <1>4, <1>5, <1>6
<1>7. CASE i # n
  BY <1>2, <1>3, <1>4, <1>5, <1>7
<1> QED
  BY <1>6, <1>7

\* A call of visit lists all it depends on.
LEMMA CallIs ==
  ASSUME specs \in Submissions, NEW d \in Ids
  PROVE  /\ VisitCall(d) \in Frame /\ VisitCall(d).key = d
         /\ RangeOf(VisitCall(d).left) = DependsOn(d)
<1>1. /\ DependsOn(d) \in SUBSET Nat /\ IsFiniteSet(DependsOn(d)) /\ d \in NodeIds
      /\ DependsOn(d) \in SUBSET NodeIds
  BY SpecsAre
<1>2. PICK l : l = Sorted(DependsOn(d))
  OBVIOUS
<1>3. l \in Seq(DependsOn(d)) /\ RangeOf(l) = DependsOn(d)
  BY <1>1, <1>2, SortedIs
<1>4. l \in Seq(NodeIds)
  BY <1>1, <1>3
<1>5. VisitCall(d) = [key |-> d, left |-> l]
  BY <1>2 DEF VisitCall
<1> QED
  BY <1>1, <1>3, <1>4, <1>5 DEF Frame

LEMMA FramesCall ==
  ASSUME NEW s, NEW t \in Seq(Frame), NEW d, Past(s, t, d), NEW done, Frames(s, done),
         d \in Ids, d \notin done, \A i \in DOMAIN s : s[i].key # d,
         NEW c \in Frame, c.key = d, RangeOf(c.left) = DependsOn(d)
  PROVE  Append(t, c) \in Seq(Frame) /\ Frames(Append(t, c), done)
<1>1. PICK n, u : n = Len(s) /\ u = Append(t, c)
  OBVIOUS
<1>2. /\ n \in Nat \ {0} /\ DOMAIN s = 1..n /\ Len(t) = n /\ DOMAIN t = 1..n
      /\ \A i \in 1..n : t[i].key = s[i].key /\ (i # n => t[i] = s[i])
      /\ RangeOf(s[n].left) = RangeOf(t[n].left) \cup {d}
  BY <1>1, Zenon DEF Past
<1>3. /\ u \in Seq(Frame) /\ Len(u) = n + 1 /\ DOMAIN u = 1..(n + 1) /\ u[n + 1] = c
      /\ \A i \in 1..n : u[i] = t[i]
  BY <1>1, <1>2
<1>4. /\ Above(u, n) = {d} /\ Above(u, n + 1) = {} /\ Above(s, n) = {}
      /\ \A i \in 1..n : i # n => Above(u, i) = Above(s, i)
  <2>1. Above(u, n) = {d} /\ Above(u, n + 1) = {} /\ Above(s, n) = {}
    BY <1>1, <1>2, <1>3 DEF Above
  <2>2. ASSUME NEW i \in 1..n, i # n PROVE Above(u, i) = Above(s, i)
    <3>1. i < n /\ i + 1 \in 1..n /\ i < Len(u) /\ i < Len(s)
      BY <1>1, <1>2, <1>3, <2>2
    <3>2. u[i + 1].key = s[i + 1].key
      BY <1>2, <1>3, <3>1
    <3> QED
      BY <3>1, <3>2 DEF Above
  <2> QED
    BY <2>1, <2>2
<1>5. \A i \in 1..n : u[i].key = s[i].key
  BY <1>2, <1>3
<1>6. ASSUME NEW i \in DOMAIN u
      PROVE  /\ u[i].key \in Ids /\ u[i].key \notin done
             /\ DependsOn(u[i].key) \subseteq done \cup RangeOf(u[i].left) \cup Above(u, i)
             /\ RangeOf(u[i].left) \cup Above(u, i) \subseteq DependsOn(u[i].key)
             /\ \A j \in DOMAIN u : j # i => u[j].key # u[i].key
  <2>1. \A j \in DOMAIN u : j = n + 1 \/ j \in 1..n
    BY <1>2, <1>3
  <2>2. CASE i = n + 1
    <3>1. \A j \in DOMAIN u : j # i => u[j].key # d
      BY <1>2, <1>5, <2>1, <2>2
    <3>2. u[i] = c
      BY <1>3, <2>2
    <3> QED
      BY <1>4, <2>2, <3>1, <3>2
  <2>3. CASE i \in 1..n
    <3>1. /\ s[i].key \in Ids /\ s[i].key \notin done
          /\ DependsOn(s[i].key) \subseteq done \cup RangeOf(s[i].left) \cup Above(s, i)
          /\ RangeOf(s[i].left) \cup Above(s, i) \subseteq DependsOn(s[i].key)
          /\ \A j \in DOMAIN s : j # i => s[j].key # s[i].key
      BY <1>2, <2>3 DEF Frames
    <3>2. \A j \in DOMAIN u : j # i => u[j].key # u[i].key
      BY <1>2, <1>3, <1>5, <2>1, <2>3, <3>1
    <3>3. u[i].key = s[i].key /\ u[i] = t[i]
      BY <1>3, <1>5, <2>3
    <3>4. CASE i = n
      BY <1>2, <1>4, <3>1, <3>2, <3>3, <3>4
    <3>5. CASE i # n
      BY <1>2, <1>4, <2>3, <3>1, <3>2, <3>3, <3>5
    <3> QED
      BY <3>4, <3>5
  <2> QED
    BY <2>1, <2>2, <2>3
<1>7. Frames(u, done)
  BY <1>6 DEF Frames
<1> QED
  BY <1>1, <1>3, <1>7

LEMMA FramesReturn ==
  ASSUME NEW s \in Seq(Frame), s # <<>>, NEW n, n = Len(s), s[n].left = <<>>,
         NEW done, Frames(s, done)
  PROVE  /\ SubSeq(s, 1, n - 1) \in Seq(Frame)
         /\ Frames(SubSeq(s, 1, n - 1), done \cup {s[n].key})
         /\ s[n].key \in Ids /\ s[n].key \in NodeIds /\ s[n].key \notin done
         /\ DependsOn(s[n].key) \subseteq done
<1>1. n \in Nat \ {0} /\ DOMAIN s = 1..n /\ n \in DOMAIN s
  OBVIOUS
<1>2. PICK t, x : t = SubSeq(s, 1, n - 1) /\ x = s[n].key
  OBVIOUS
<1>3. /\ t \in Seq(Frame) /\ Len(t) = n - 1 /\ DOMAIN t = 1..(n - 1)
      /\ \A i \in 1..(n - 1) : t[i] = s[i]
  BY <1>1, <1>2
<1>4. x \in Ids /\ x \notin done /\ x \in NodeIds /\ DependsOn(x) \subseteq done
  <2>1. s[n] \in Frame
    BY <1>1
  <2>2. RangeOf(s[n].left) = {} /\ Above(s, n) = {}
    BY <1>1 DEF RangeOf, Above
  <2> QED
    BY <1>1, <1>2, <2>1, <2>2 DEF Frames, Frame
<1>5. ASSUME NEW i \in DOMAIN t
      PROVE  /\ t[i].key \in Ids /\ t[i].key \notin done \cup {x}
             /\ DependsOn(t[i].key) \subseteq (done \cup {x}) \cup RangeOf(t[i].left)
                                               \cup Above(t, i)
             /\ RangeOf(t[i].left) \cup Above(t, i) \subseteq DependsOn(t[i].key)
             /\ \A j \in DOMAIN t : j # i => t[j].key # t[i].key
  <2>1. i \in 1..(n - 1) /\ i \in DOMAIN s /\ i # n /\ t[i] = s[i]
    BY <1>1, <1>3
  <2>2. /\ s[i].key \in Ids /\ s[i].key \notin done
        /\ DependsOn(s[i].key) \subseteq done \cup RangeOf(s[i].left) \cup Above(s, i)
        /\ RangeOf(s[i].left) \cup Above(s, i) \subseteq DependsOn(s[i].key)
        /\ \A j \in DOMAIN s : j # i => s[j].key # s[i].key
    BY <2>1 DEF Frames
  <2>3. s[i].key # x
    BY <1>1, <1>2, <2>1, <2>2
  <2>4. \A j \in DOMAIN t : j # i => t[j].key # t[i].key
    <3>1. \A j \in DOMAIN t : j \in DOMAIN s /\ t[j] = s[j]
      BY <1>1, <1>3
    <3> QED
      BY <2>1, <2>2, <3>1
  <2>5. CASE i = n - 1
    <3>1. Above(t, i) = {} /\ Above(s, i) = {x}
      BY <1>1, <1>2, <1>3, <2>5 DEF Above
    <3> QED
      BY <2>1, <2>2, <2>3, <2>4, <3>1
  <2>6. CASE i # n - 1
    <3>1. i < n - 1 /\ i < n /\ i + 1 \in 1..(n - 1)
      BY <1>1, <2>1, <2>6
    <3>2. Above(t, i) = Above(s, i)
      BY <1>3, <3>1 DEF Above
    <3> QED
      BY <2>1, <2>2, <2>3, <2>4, <3>2
  <2> QED
    BY <2>5, <2>6
<1>6. Frames(t, done \cup {x})
  BY <1>5 DEF Frames
<1> QED
  BY <1>2, <1>3, <1>4, <1>6

LEMMA ListedReturn ==
  ASSUME NEW o \in Seq(NodeIds), NEW done, Listed(o, done), NEW x \in NodeIds, x \in Ids,
         x \notin done, DependsOn(x) \subseteq done
  PROVE  Append(o, x) \in Seq(NodeIds) /\ Listed(Append(o, x), done \cup {x})
<1>1. PICK p, n : p = Append(o, x) /\ n = Len(o) + 1
  OBVIOUS
<1>2. /\ p \in Seq(NodeIds) /\ n \in Nat /\ DOMAIN p = 1..n /\ DOMAIN o = 1..(n - 1)
      /\ p[n] = x /\ n \in 1..n /\ \A i \in 1..(n - 1) : p[i] = o[i] /\ i \in 1..n
  BY <1>1
<1>3. RangeOf(p) = done \cup {x}
  <2>1. \A i \in 1..n : i = n \/ i \in 1..(n - 1)
    BY <1>2
  <2> QED
    BY <1>2, <2>1 DEF Listed, RangeOf
<1>4. Distinctly(p)
  <2> SUFFICES ASSUME NEW i \in 1..n, NEW j \in 1..n, i # j PROVE p[i] # p[j]
    BY <1>2 DEF Distinctly
  <2>1. \A k \in 1..(n - 1) : o[k] # x
    BY <1>2 DEF Listed, RangeOf
  <2>2. CASE i # n /\ j # n
    BY <1>2, <2>2 DEF Listed, Distinctly
  <2>3. CASE i = n \/ j = n
    BY <1>2, <2>1, <2>3
  <2> QED
    BY <2>2, <2>3
<1>5. ASSUME NEW i \in 1..n PROVE DependsOn(p[i]) \subseteq {p[j] : j \in 1..(i - 1)}
  <2>1. {p[j] : j \in 1..(i - 1)} = {o[j] : j \in 1..(i - 1)}
    <3>1. \A j \in 1..(i - 1) : p[j] = o[j]
      BY <1>2
    <3> QED
      BY <3>1
  <2>2. CASE i = n
    BY <1>2, <2>1, <2>2 DEF Listed, RangeOf
  <2>3. CASE i # n
    BY <1>2, <2>1, <2>3 DEF Listed
  <2> QED
    BY <2>2, <2>3
<1>6. done \cup {x} \subseteq Ids
  BY DEF Listed
<1>7. Listed(p, done \cup {x})
  BY <1>2, <1>3, <1>4, <1>5, <1>6 DEF Listed
<1> QED
  BY <1>1, <1>2, <1>7
LEMMA RefuseTasksInv == GraphInv /\ RefuseTasks => GraphInv'
<1> SUFFICES ASSUME GraphInv, RefuseTasks PROVE GraphInv'
  OBVIOUS
<1>1. UNCHANGED <<specs, grants, dag, execution, visit, ran>> /\ workflow' = "refused"
  BY DEF RefuseTasks, Refuses
<1>2. /\ DagTyped' /\ AnswerIsRight' /\ ExecutionTyped' /\ RanInOrder' /\ FailedIsNext'
      /\ EndIsRight'
  BY <1>1, OtherParts
<1>3. VisitTyped' /\ VisitInOrder'
  BY <1>1, Frozen DEF GraphInv, VisitTyped, VisitInOrder, Answer
<1>4. ~WorkflowAccepted
  <2>1. Len(specs) \in Nat /\ WorkflowLimit \in Nat
    BY SpecsAre, GraphAssumption DEF GraphInv
  <2>2. specs = <<>> \/ Len(specs) > WorkflowLimit \/ ~Distinct
    BY DEF RefuseTasks
  <2>3. Len(specs) > WorkflowLimit => ~(Len(specs) <= WorkflowLimit)
    BY <2>1
  <2> QED
    BY <2>2, <2>3 DEF WorkflowAccepted, ValidSpecs
<1>5. WorkflowIsRight'
  BY <1>1, <1>4, Frozen DEF WorkflowIsRight, WorkflowAccepted
<1> QED
  BY <1>1, <1>2, <1>3, <1>5 DEF GraphInv

LEMMA VisitRootInv == GraphInv /\ VisitRoot => GraphInv'
<1> SUFFICES ASSUME GraphInv, VisitRoot PROVE GraphInv'
  OBVIOUS
<1>1. /\ UNCHANGED <<specs, grants, dag, execution, workflow, ran>>
      /\ workflow = "none" /\ Begun /\ visit.stack = <<>> /\ visit.visited # Ids
  BY DEF VisitRoot, TasksAccepted, Begun
<1>2. /\ DagTyped' /\ AnswerIsRight' /\ ExecutionTyped' /\ RanInOrder' /\ FailedIsNext'
      /\ EndIsRight'
  BY <1>1, OtherParts
<1> DEFINE Open(i) == /\ specs[i].id \notin visit.visited
                      /\ \A j \in 1..(i - 1) : specs[j].id \in visit.visited
           next == CHOOSE i \in DOMAIN specs : Open(i)
<1>3. next \in DOMAIN specs /\ specs[next].id \notin visit.visited
  <2> DEFINE T == {i \in DOMAIN specs : specs[i].id \notin visit.visited}
  <2>1. DOMAIN specs = 1..Len(specs) /\ Len(specs) \in Nat
    BY SpecsAre DEF GraphInv
  <2>2. T # {}
    BY <1>1 DEF GraphInv, VisitInOrder, Listed, Ids
  <2>3. T \in SUBSET Nat
    BY <2>1
  <2> HIDE DEF T
  <2>4. PICK i \in T : \A j \in T : i <= j
    BY <2>2, <2>3, LeastNatural
  <2>5. i \in DOMAIN specs /\ specs[i].id \notin visit.visited
    BY <2>4 DEF T
  <2>6. \A j \in 1..(i - 1) : specs[j].id \in visit.visited
    <3> SUFFICES ASSUME NEW j \in 1..(i - 1), specs[j].id \notin visit.visited PROVE FALSE
      OBVIOUS
    <3>1. j \in T /\ ~(i <= j)
      BY <2>1, <2>5 DEF T
    <3> QED
      BY <2>4, <3>1
  <2>7. \E k \in DOMAIN specs : Open(k)
    BY <2>5, <2>6
  <2> QED
    BY <2>7
<1>4. PICK id, c : id = specs[next].id /\ c = VisitCall(id)
  OBVIOUS
<1>5. visit' = [visit EXCEPT !.stack = <<c>>]
  BY <1>4 DEF VisitRoot
<1> HIDE DEF next
<1>6. id \in Ids /\ id \notin visit.visited
  BY <1>3, <1>4 DEF Ids
<1>7. c \in Frame /\ c.key = id /\ RangeOf(c.left) = DependsOn(id)
  BY <1>4, <1>6, CallIs DEF GraphInv
<1>8. /\ visit'.stack = <<c>> /\ visit'.visited = visit.visited
      /\ visit'.ordered = visit.ordered /\ VisitTyped'
  <2>1. PICK u : u = <<c>>
    OBVIOUS
  <2>2. u \in Seq(Frame)
    BY <1>7, <2>1
  <2>3. visit \in [stack : Seq(Frame), visited : SUBSET NodeIds, ordered : Seq(NodeIds)]
    BY DEF GraphInv, VisitTyped
  <2>4. visit' = [visit EXCEPT !.stack = u]
    BY <1>5, <2>1
  <2>5. /\ visit'.stack = u /\ visit'.visited = visit.visited
        /\ visit'.ordered = visit.ordered
        /\ visit' \in [stack : Seq(Frame), visited : SUBSET NodeIds, ordered : Seq(NodeIds)]
    BY <2>2, <2>3, <2>4
  <2> QED
    BY <1>1, <2>1, <2>5 DEF GraphInv, VisitTyped
<1>9. Frames(<<c>>, visit.visited)
  <2>1. PICK s : s = <<c>>
    OBVIOUS
  <2>2. DOMAIN s = {1} /\ Len(s) = 1 /\ s[1] = c
    BY <2>1
  <2>3. Above(s, 1) = {}
    BY <2>2 DEF Above
  <2>4. Frames(s, visit.visited)
    BY <1>6, <1>7, <2>2, <2>3 DEF Frames
  <2> QED
    BY <2>1, <2>4
<1>10. VisitInOrder'
  BY <1>1, <1>8, <1>9, Frozen DEF GraphInv, VisitInOrder
<1>11. WorkflowIsRight'
  BY <1>1 DEF WorkflowIsRight
<1> QED
  BY <1>1, <1>2, <1>8, <1>10, <1>11 DEF GraphInv

\* A dependency that is under way, or is not there, is a reason to refuse.
LEMMA RefusedRightly ==
  ASSUME specs \in Submissions, NEW s \in Seq(Frame), s # <<>>, NEW done, Frames(s, done),
         NEW d \in DependsOn(s[Len(s)].key), (\E i \in DOMAIN s : s[i].key = d) \/ d \notin Ids
  PROVE  ~WorkflowAccepted
<1>1. PICK n : n = Len(s)
  OBVIOUS
<1>2. n \in Nat \ {0} /\ DOMAIN s = 1..n
  BY <1>1
<1>3. /\ \A i \in 1..n : s[i].key \in Ids
      /\ \A i \in 1..n : i # n => s[i + 1].key \in DependsOn(s[i].key)
  <2>1. \A i \in 1..n : s[i].key \in Ids
    BY <1>2 DEF Frames
  <2>2. ASSUME NEW i \in 1..n, i # n PROVE s[i + 1].key \in DependsOn(s[i].key)
    <3>1. Above(s, i) = {s[i + 1].key}
      BY <1>1, <1>2, <2>2 DEF Above
    <3> QED
      BY <1>2, <3>1 DEF Frames
  <2> QED
    BY <2>1, <2>2
<1>4. CASE d \notin Ids
  <2>1. s[n].key \in Ids
    BY <1>2, <1>3
  <2>2. PICK i \in DOMAIN specs : NodeOf(s[n].key) = specs[i]
    BY <2>1, SpecsAre
  <2>3. ~(specs[i].depends_on \subseteq Ids)
    BY <1>1, <1>4, <2>2 DEF DependsOn
  <2> QED
    BY <2>3 DEF WorkflowAccepted, ValidSpecs
<1>5. CASE \E i \in DOMAIN s : s[i].key = d
  <2>1. PICK j \in 1..n : s[j].key = d
    BY <1>2, <1>5
  <2>2. PICK set : set = {id \in Ids : \E i \in 1..n : j <= i /\ s[i].key = id}
    OBVIOUS
  <2>3. d \in set
    BY <1>2, <1>3, <2>1, <2>2
  <2>4. ASSUME NEW id \in set PROVE DependsOn(id) \cap set # {}
    <3>1. PICK i \in 1..n : j <= i /\ s[i].key = id
      BY <2>2
    <3>2. CASE i = n
      BY <1>1, <2>3, <3>1, <3>2
    <3>3. CASE i # n
      <4>1. i + 1 \in 1..n /\ j <= i + 1 /\ s[i + 1].key \in DependsOn(id)
        BY <1>2, <1>3, <3>1, <3>3
      <4>2. s[i + 1].key \in set
        BY <1>3, <2>2, <4>1
      <4> QED
        BY <4>1, <4>2
    <3> QED
      BY <3>2, <3>3
  <2>5. set \in (SUBSET Ids) \ {{}}
    BY <2>2, <2>3
  <2>6. ~Acyclic
    BY <2>4, <2>5 DEF Acyclic
  <2> QED
    BY <2>6 DEF WorkflowAccepted
<1> QED
  BY <1>4, <1>5

LEMMA VisitDependencyInv == GraphInv /\ VisitDependency => GraphInv'
<1> SUFFICES ASSUME GraphInv, VisitDependency PROVE GraphInv'
  OBVIOUS
<1>1. /\ UNCHANGED <<specs, grants, dag, execution, ran>>
      /\ workflow = "none" /\ visit.stack # <<>> /\ Top.left # <<>>
  BY DEF VisitDependency
<1>2. /\ DagTyped' /\ AnswerIsRight' /\ ExecutionTyped' /\ RanInOrder' /\ FailedIsNext'
      /\ EndIsRight'
  BY <1>1, OtherParts
<1>3. PICK s, n, done, t, d :
        /\ s = visit.stack /\ n = Len(s) /\ done = visit.visited
        /\ t = Append(SubSeq(s, 1, n - 1), [s[n] EXCEPT !.left = Tail(@)])
        /\ d = Head(s[n].left)
  OBVIOUS
<1>4. /\ s \in Seq(Frame) /\ s # <<>> /\ s[n].left # <<>> /\ Frames(s, done) /\ Begun
      /\ Listed(visit.ordered, done) /\ done \in SUBSET NodeIds
      /\ visit.ordered \in Seq(NodeIds)
  BY <1>1, <1>3 DEF GraphInv, VisitTyped, VisitInOrder, Top
<1>5. t \in Seq(Frame) /\ Past(s, t, d) /\ d \in NodeIds
  BY <1>3, <1>4, AdvancedIs
<1>6. t # <<>> /\ n \in DOMAIN s /\ d \in DependsOn(s[n].key)
  <2>1. n \in Nat \ {0} /\ n \in DOMAIN s /\ Len(t) = n
    BY <1>3, <1>5 DEF Past
  <2>2. d \in RangeOf(s[n].left)
    BY <1>3, <1>5 DEF Past
  <2>3. t # <<>>
    BY <2>1
  <2>4. RangeOf(s[n].left) \cup Above(s, n) \subseteq DependsOn(s[n].key)
    BY <1>4, <2>1 DEF Frames
  <2> QED
    BY <2>1, <2>2, <2>3, <2>4
<1>7. Visiting = {s[i].key : i \in DOMAIN s}
  BY <1>3 DEF Visiting
<1>8. IF d \in done THEN visit' = [visit EXCEPT !.stack = t] /\ UNCHANGED workflow
      ELSE IF d \in Visiting \/ d \notin Ids THEN Refuses
      ELSE /\ visit' = [visit EXCEPT !.stack = Append(t, VisitCall(d))]
           /\ UNCHANGED workflow
  BY <1>3 DEF VisitDependency, Top, Below, Seen
<1>9. ASSUME NEW u \in Seq(Frame), u # <<>>, Frames(u, done),
             visit' = [visit EXCEPT !.stack = u], UNCHANGED workflow
      PROVE  GraphInv'
  <2>1. /\ visit'.stack = u /\ visit'.visited = done /\ visit'.ordered = visit.ordered
        /\ VisitTyped'
    BY <1>3, <1>4, <1>9 DEF GraphInv, VisitTyped
  <2>2. VisitInOrder'
    BY <1>1, <1>4, <1>9, <2>1, Frozen DEF VisitInOrder
  <2>3. WorkflowIsRight'
    BY <1>1, <1>9 DEF WorkflowIsRight
  <2> QED
    BY <1>1, <1>2, <2>1, <2>2, <2>3 DEF GraphInv
<1>10. CASE d \in done
  <2>1. Frames(t, done)
    BY <1>4, <1>5, <1>10, FramesAdvance
  <2> QED
    BY <1>5, <1>6, <1>8, <1>9, <1>10, <2>1
<1>11. CASE d \notin done /\ (d \in Visiting \/ d \notin Ids)
  <2>1. workflow' = "refused" /\ UNCHANGED visit
    BY <1>8, <1>11 DEF Refuses
  <2>2. ~WorkflowAccepted
    <3>1. (\E i \in DOMAIN s : s[i].key = d) \/ d \notin Ids
      BY <1>7, <1>11
    <3>2. d \in DependsOn(s[Len(s)].key) /\ specs \in Submissions
      BY <1>3, <1>6 DEF GraphInv
    <3> QED
      BY <1>4, <3>1, <3>2, RefusedRightly
  <2>3. VisitTyped' /\ VisitInOrder'
    BY <1>1, <2>1, Frozen DEF GraphInv, VisitTyped, VisitInOrder, Answer
  <2>4. WorkflowIsRight'
    BY <1>1, <2>1, <2>2, Frozen DEF WorkflowIsRight, WorkflowAccepted
  <2> QED
    BY <1>1, <1>2, <2>3, <2>4 DEF GraphInv
<1>12. CASE d \notin done /\ ~(d \in Visiting \/ d \notin Ids)
  <2>1. PICK c : c = VisitCall(d)
    OBVIOUS
  <2>2. c \in Frame /\ c.key = d /\ RangeOf(c.left) = DependsOn(d)
    BY <1>12, <2>1, CallIs DEF GraphInv
  <2>3. \A i \in DOMAIN s : s[i].key # d
    BY <1>7, <1>12
  <2>4. Append(t, c) \in Seq(Frame) /\ Frames(Append(t, c), done)
    BY <1>4, <1>5, <1>12, <2>2, <2>3, FramesCall
  <2>5. PICK u : u = Append(t, c)
    OBVIOUS
  <2>6. u \in Seq(Frame) /\ Frames(u, done) /\ u # <<>>
    BY <1>5, <2>2, <2>4, <2>5
  <2> QED
    BY <1>8, <1>9, <1>12, <2>1, <2>5, <2>6
<1> QED
  BY <1>10, <1>11, <1>12

LEMMA VisitReturnsInv == GraphInv /\ VisitReturns => GraphInv'
<1> SUFFICES ASSUME GraphInv, VisitReturns PROVE GraphInv'
  OBVIOUS
<1>1. /\ UNCHANGED <<specs, grants, dag, execution, workflow, ran>>
      /\ workflow = "none" /\ visit.stack # <<>> /\ Top.left = <<>>
  BY DEF VisitReturns
<1>2. /\ DagTyped' /\ AnswerIsRight' /\ ExecutionTyped' /\ RanInOrder' /\ FailedIsNext'
      /\ EndIsRight'
  BY <1>1, OtherParts
<1>3. PICK s, n, done, t, x, o, p :
        /\ s = visit.stack /\ n = Len(s) /\ done = visit.visited
        /\ t = SubSeq(s, 1, n - 1) /\ x = s[n].key /\ o = visit.ordered /\ p = Append(o, x)
  OBVIOUS
<1>4. /\ s \in Seq(Frame) /\ s # <<>> /\ s[n].left = <<>> /\ Frames(s, done) /\ Begun
      /\ Listed(o, done) /\ done \in SUBSET NodeIds /\ o \in Seq(NodeIds)
  BY <1>1, <1>3 DEF GraphInv, VisitTyped, VisitInOrder, Top
<1>5. /\ t \in Seq(Frame) /\ Frames(t, done \cup {x}) /\ x \in Ids /\ x \in NodeIds
      /\ x \notin done /\ DependsOn(x) \subseteq done
  <2>1. n = Len(s)
    BY <1>3
  <2>2. /\ SubSeq(s, 1, n - 1) \in Seq(Frame)
        /\ Frames(SubSeq(s, 1, n - 1), done \cup {s[n].key})
        /\ s[n].key \in Ids /\ s[n].key \in NodeIds /\ s[n].key \notin done
        /\ DependsOn(s[n].key) \subseteq done
    BY <1>4, <2>1, FramesReturn
  <2> QED
    BY <1>3, <2>2
<1>6. p \in Seq(NodeIds) /\ Listed(p, done \cup {x})
  BY <1>3, <1>4, <1>5, ListedReturn
<1>7. visit' = [stack |-> t, visited |-> done \cup {x}, ordered |-> p]
  BY <1>3 DEF VisitReturns, Top, Below
<1>8. /\ visit'.stack = t /\ visit'.visited = done \cup {x} /\ visit'.ordered = p
      /\ VisitTyped'
  BY <1>1, <1>4, <1>5, <1>6, <1>7 DEF GraphInv, VisitTyped
<1>9. VisitInOrder'
  BY <1>1, <1>4, <1>5, <1>6, <1>8, Frozen DEF VisitInOrder
<1>10. WorkflowIsRight'
  BY <1>1 DEF WorkflowIsRight
<1> QED
  BY <1>1, <1>2, <1>8, <1>9, <1>10 DEF GraphInv

\* What the visit lists in full is in order, and then the submission is valid.
LEMMA ListedInFull ==
  ASSUME specs \in Submissions, Begun, NEW o \in Seq(NodeIds), Listed(o, Ids)
  PROVE  ValidSpecs /\ Acyclic /\ Topological(o)
<1>1. /\ RangeOf(o) = Ids /\ Distinctly(o)
      /\ \A i \in DOMAIN o : DependsOn(o[i]) \subseteq {o[j] : j \in 1..(i - 1)}
  BY DEF Listed
<1>2. Cardinality(Ids) = Len(o)
  BY <1>1, RangeSize
<1>3. Topological(o)
  BY <1>1, <1>2 DEF Topological, ToSet, RangeOf
<1>4. Acyclic
  BY <1>3, TopologicalIsAcyclic
<1>5. ASSUME NEW i \in DOMAIN specs PROVE specs[i].depends_on \subseteq Ids \ {specs[i].id}
  <2>1. specs[i].id \in Ids /\ DependsOn(specs[i].id) = specs[i].depends_on
    BY SpecsAre DEF Begun, DependsOn, Ids
  <2>2. PICK k \in DOMAIN o : o[k] = specs[i].id
    BY <1>1, <2>1 DEF RangeOf
  <2>3. DOMAIN o = 1..Len(o) /\ Len(o) \in Nat
    OBVIOUS
  <2>4. \A j \in 1..(k - 1) : j \in DOMAIN o /\ j # k
    BY <2>3
  <2>5. \A j \in 1..(k - 1) : o[j] \in Ids /\ o[j] # o[k]
    BY <1>1, <2>4 DEF RangeOf, Distinctly
  <2> QED
    BY <1>1, <2>1, <2>2, <2>5
<1>6. Len(specs) \in Nat
  BY SpecsAre
<1>7. Len(specs) <= DagLimit
  BY <1>6, GraphAssumption DEF Begun
<1>8. ValidSpecs
  BY <1>5, <1>7 DEF ValidSpecs, Begun
<1> QED
  BY <1>3, <1>4, <1>8

LEMMA ListStepsInv == GraphInv /\ ListSteps => GraphInv'
<1> SUFFICES ASSUME GraphInv, ListSteps PROVE GraphInv'
  OBVIOUS
<1>1. /\ UNCHANGED <<specs, grants, dag, execution, visit, ran>>
      /\ Begun /\ visit.stack = <<>> /\ visit.visited = Ids
      /\ workflow' = IF Ids \subseteq grants.capabilities THEN "executable" ELSE "refused"
  BY DEF ListSteps, TasksAccepted, Begun
<1>2. /\ DagTyped' /\ AnswerIsRight' /\ ExecutionTyped' /\ RanInOrder' /\ FailedIsNext'
      /\ EndIsRight'
  BY <1>1, OtherParts
<1>3. VisitTyped' /\ VisitInOrder'
  BY <1>1, Frozen DEF GraphInv, VisitTyped, VisitInOrder, Answer
<1>4. ValidSpecs /\ Acyclic /\ Topological(visit.ordered)
  <2>1. PICK o : o = visit.ordered
    OBVIOUS
  <2>2. o \in Seq(NodeIds) /\ Listed(o, Ids) /\ specs \in Submissions
    BY <1>1, <2>1 DEF GraphInv, VisitTyped, VisitInOrder
  <2> QED
    BY <1>1, <2>1, <2>2, ListedInFull
<1>5. WorkflowIsRight'
  <2>1. PICK o : o = visit.ordered
    OBVIOUS
  <2>2. visit'.ordered = o /\ Topological(o)
    BY <1>1, <1>4, <2>1
  <2> QED
    BY <1>1, <1>4, <2>2, Frozen DEF WorkflowIsRight, WorkflowAccepted, Begun
<1> QED
  BY <1>1, <1>2, <1>3, <1>5 DEF GraphInv

\* The answers are right, what ran is the front of the order, what is blocked is what
\* depends on the failed node, and the depth-first visit keeps a path whose nodes are
\* not listed and lists each node behind its dependencies.
THEOREM GraphInvariant == GraphSpec => []GraphInv
<1>1. GraphInv /\ [GraphNext]_graphVars => GraphInv'
  <2> SUFFICES ASSUME GraphInv, [GraphNext]_graphVars PROVE GraphInv'
    OBVIOUS
  <2>1. CASE PlanDag
    BY <2>1, PlanDagInv
  <2>2. CASE NotExecutable
    BY <2>2, NotExecutableInv
  <2>3. CASE RunNode
    BY <2>3, RunNodeInv
  <2>4. CASE NodeFails
    BY <2>4, NodeFailsInv
  <2>5. CASE AllRan
    BY <2>5, AllRanInv
  <2>6. CASE RefuseTasks
    BY <2>6, RefuseTasksInv
  <2>7. CASE VisitRoot
    BY <2>7, VisitRootInv
  <2>8. CASE VisitDependency
    BY <2>8, VisitDependencyInv
  <2>9. CASE VisitReturns
    BY <2>9, VisitReturnsInv
  <2>10. CASE ListSteps
    BY <2>10, ListStepsInv
  <2>11. CASE UNCHANGED graphVars
    <3>1. UNCHANGED <<specs, grants, dag, execution, visit, workflow, ran>>
      BY <2>11 DEF graphVars
    <3> QED
      BY <3>1, OtherParts DEF GraphInv
  <2> QED
    BY <2>1, <2>2, <2>3, <2>4, <2>5, <2>6, <2>7, <2>8, <2>9, <2>10, <2>11 DEF GraphNext
<1> QED
  BY <1>1, GraphInitInv, PTL DEF GraphSpec

\* Whatever is submitted, the orders, the lists of a run and the visit stay well formed.
THEOREM GraphTypes == GraphSpec => []GraphTypeOK
<1>1. GraphInv => GraphTypeOK
  <2> SUFFICES ASSUME GraphInv PROVE GraphTypeOK
    OBVIOUS
  <2>1. /\ specs \in Seq([id : NodeIds, depends_on : SUBSET NodeIds])
        /\ grants.plans \subseteq NodeIds /\ grants.capabilities \subseteq NodeIds
    BY GraphAssumption DEF GraphInv
  <2>2. dag.answer \in Answer \cup {"cyclic", "blocked"} /\ dag.order \in Seq(NodeIds)
    BY DEF GraphInv, DagTyped
  <2>3. /\ execution.next \in Nat /\ execution.failed \in NodeIds \cup {0}
        /\ execution.completed \in Seq(NodeIds) /\ execution.blocked \subseteq NodeIds
        /\ execution.ended \in BOOLEAN /\ ran \subseteq NodeIds
    BY DEF GraphInv, ExecutionTyped
  <2>4. /\ workflow \in Answer
        /\ visit.ordered \in Seq(NodeIds) /\ visit.visited \subseteq NodeIds
    BY DEF GraphInv, VisitTyped
  <2> QED
    BY <2>1, <2>2, <2>3, <2>4 DEF GraphTypeOK
<1> QED
  BY <1>1, GraphInvariant, PTL

\* For every graph that is submitted and whatever is permitted, both planners accept it
\* only without a cycle, an unknown or a doubled node, and put every node behind all it
\* depends on; they differ in the length they take and in what permits a node only
\* (topological_order, build_workflow_plan).
THEOREM PlansAreTopological == GraphSpec => []OrdersAreTopological
<1>1. GraphInv => OrdersAreTopological
  <2> SUFFICES ASSUME GraphInv PROVE OrdersAreTopological
    OBVIOUS
  <2>1. Len(specs) \in Nat /\ WorkflowLimit \in Nat
    BY SpecsAre, GraphAssumption DEF GraphInv
  <2>2. ~(Len(specs) <= WorkflowLimit) => Len(specs) > WorkflowLimit
    BY <2>1
  <2> QED
    BY <2>2 DEF GraphInv, AnswerIsRight, WorkflowIsRight, Accepted, WorkflowAccepted,
                OrdersAreTopological
<1> QED
  BY <1>1, GraphInvariant, PTL

\* For every graph and whatever fails in it: nodes run behind their dependencies, what
\* is blocked is what depends on the failed node, and a success ran all (execute_dag).
THEOREM FailuresBlockDependents == GraphSpec => []FailureReachesDependents
<1>1. GraphInv => FailureReachesDependents
  <2> SUFFICES ASSUME GraphInv PROVE FailureReachesDependents
    OBVIOUS
  <2>1. PICK o, n : o = dag.order /\ n = execution.next
    OBVIOUS
  <2>2. n \in Nat \ {0} /\ ran = {o[i] : i \in 1..(n - 1)} /\ o \in Seq(NodeIds)
    BY <2>1 DEF GraphInv, RanInOrder, DagTyped
  <2>3. \A id \in ran : DependsOn(id) \subseteq ran
    <3>1. CASE dag.answer # "executable"
      <4>1. n = 1
        BY <2>1, <3>1 DEF GraphInv, RanInOrder
      <4> QED
        BY <2>2, <4>1
    <3>2. CASE dag.answer = "executable"
      <4>1. Topological(o) /\ n <= Len(o) + 1
        BY <2>1, <3>2 DEF GraphInv, RanInOrder, AnswerIsRight
      <4> SUFFICES ASSUME NEW i \in 1..(n - 1) PROVE DependsOn(o[i]) \subseteq ran
        BY <2>2
      <4>2. i \in DOMAIN o /\ \A j \in 1..(i - 1) : j \in 1..(n - 1)
        BY <2>2, <4>1
      <4>3. DependsOn(o[i]) \subseteq {o[j] : j \in 1..(i - 1)}
        BY <4>1, <4>2 DEF Topological
      <4> QED
        BY <2>2, <4>2, <4>3
    <3> QED
      BY <3>1, <3>2
  <2>4. ASSUME execution.failed # 0
        PROVE  /\ execution.blocked = Dependents(execution.failed)
               /\ execution.blocked \cap ran = {} /\ execution.failed \notin ran
    <3>1. /\ dag.answer = "executable" /\ n <= Len(o) /\ execution.failed = o[n]
          /\ execution.blocked = Dependents(execution.failed)
      BY <2>1, <2>4 DEF GraphInv, FailedIsNext
    <3>2. Topological(o) /\ Distinct /\ specs \in Submissions
      BY <2>1, <3>1 DEF GraphInv, AnswerIsRight, Accepted, ValidSpecs
    <3>3. n \in DOMAIN o
      BY <2>2, <3>1
    <3>4. \A i \in 1..n : o[i] \notin Dependents(o[n])
      BY <2>2, <3>2, <3>3, AffectedIsDependents
    <3>5. \A i \in 1..(n - 1) : i \in 1..n /\ i # n /\ i \in DOMAIN o
      BY <2>2, <3>1
    <3>6. Distinctly(o)
      BY <2>2, <3>2, DistinctOrder
    <3>7. \A i \in 1..(n - 1) : o[i] # o[n]
      BY <3>3, <3>5, <3>6 DEF Distinctly
    <3>8. execution.blocked = Dependents(o[n])
      BY <3>1
    <3> QED
      BY <2>2, <3>1, <3>4, <3>5, <3>7, <3>8
  <2>5. IsSuccess /\ dag.answer # "refused" => ran = Ids
    BY DEF GraphInv, EndIsRight
  <2> QED
    BY <2>3, <2>4, <2>5 DEF FailureReachesDependents
<1> QED
  BY <1>1, GraphInvariant, PTL
=============================================================================
