-------------------------- MODULE ChangeMonitoring --------------------------
(***************************************************************************)
(* The observation of a pull request (github_post_change_observer.py), the *)
(* comparison of health before and after it (post_change_monitoring.py),   *)
(* and the bounded memory both write to (cross_project_memory.py).         *)
(*                                                                         *)
(* The observer reads GitHub in several requests, any of which may show an *)
(* older state than an earlier one did; it then asks, reads and writes the *)
(* memory under a lock of its own each time.  Other parts of the program   *)
(* write to the same memory in between and push old entries out.           *)
(***************************************************************************)
EXTENDS Naturals, Sequences, FiniteSets

CONSTANTS Heads,            \* the commits of the pull request, 1..n in the order pushed
          Signed,           \* those whose signature GitHub verified
          Statuses,         \* of a CI run: pending, or its conclusion
          Timelines,        \* what GitHub may show of the pull request over time
          MemoryLimit,      \* max_entries
          PerProject,       \* max_entries_per_project
          MaxOtherEvents,   \* bound on the events of other parts, for model checking
          MaxObservations   \* bound on the observations made, for model checking

VARIABLES shown,      \* the timeline of this pull request; a request may be answered from
                      \* any moment of it
          memory,     \* the entries of the memory file
          observer,   \* the local variables of the observation under way
          others,     \* how many events other parts have recorded
          observations \* how many observations were begun

monitorVars == <<shown, memory, observer, others, observations>>

-----------------------------------------------------------------------------
\* updated: updated_at of the pull request and of its newest run.
PullState == [head : Heads, runs : Seq(Statuses), updated : Nat]

ASSUME MonitorAssumption ==
  /\ 1 \in Heads /\ \A timeline \in Timelines : timeline \in Seq(PullState)
  /\ MemoryLimit \in Nat \ {0} /\ PerProject \in Nat \ {0}
  /\ MaxOtherEvents \in Nat /\ MaxObservations \in Nat

\* GitHubObservation as its fingerprint sees it: observed_at is not in it.
ChangeEvidence == [head : Heads, runs : Seq(Statuses)]
NothingSeen == [head |-> 1, runs |-> <<>>]

\* The other outcomes are not told apart from "improved" by what is decided here.
Outcomes == {"regressed", "improved"}

Entry == [project : {"ours", "other"}, kind : {"observation", "finding", "event"},
          evidence : ChangeEvidence, outcome : Outcomes \cup {"none"}, at : Nat]

Away == [at |-> "away", evidence |-> NothingSeen, observed |-> 0, outcome |-> "none"]

MonitorTypeOK ==
  /\ shown \in Seq(PullState) /\ observations \in 0..MaxObservations
  /\ memory \in Seq(Entry)
  /\ observer.at \in {"away", "reading", "asking", "learning", "finding", "recording"}
  /\ observer.evidence \in ChangeEvidence
  /\ others \in 0..MaxOtherEvents

MonitorInit ==
  /\ shown \in Timelines
  /\ memory = <<>> /\ observer = Away /\ others = 0 /\ observations = 0

-----------------------------------------------------------------------------
\* CrossProjectMemory.

\* _save: the newest entries, and of them the newest of each project.
Bounded(entries) ==
  LET last == IF Len(entries) <= MemoryLimit THEN entries
              ELSE SubSeq(entries, Len(entries) - MemoryLimit + 1, Len(entries))
      newer(i) == {j \in DOMAIN last : j > i /\ last[j].project = last[i].project}
      kept[i \in 0..Len(last)] ==
        IF i = 0 THEN <<>>
        ELSE IF Cardinality(newer(i)) < PerProject THEN Append(kept[i - 1], last[i])
             ELSE kept[i - 1]
  IN  kept[Len(last)]

\* record: under the lock, with the file replaced in one step.
Records(entry) == memory' = Bounded(Append(memory, entry))

\* learn: where the entries stand.
Learned(project, kind) ==
  {i \in DOMAIN memory : memory[i].project = project /\ memory[i].kind = kind}

\* has: the digest of project, kind and fingerprint is among the entries.
Known(project, kind, evidence) ==
  \E i \in DOMAIN memory : /\ memory[i].project = project /\ memory[i].kind = kind
                           /\ memory[i].evidence = evidence

\* Tool executions, episodes, recommendations and findings of any project.
RecordOther ==
  /\ others < MaxOtherEvents /\ others' = others + 1
  /\ \E project \in {"ours", "other"} :
        Records([project |-> project, kind |-> "event", evidence |-> NothingSeen,
                 outcome |-> "none", at |-> 0])
  /\ UNCHANGED <<shown, observer, observations>>

-----------------------------------------------------------------------------
\* observe_github_pull_request.

\* _ci_conclusion
CiConclusion(runs) ==
  LET of == {runs[i] : i \in DOMAIN runs} IN
  CASE "failure" \in of  -> "failure"
    [] "pending" \in of  -> "pending"
    [] of = {"success"}  -> "success"
    [] OTHER             -> "unknown"

\* compare_health: a health source may report any scores; CI that failed is a
\* regression whatever they are.
MayCompare(ci, outcome) == ci = "failure" => outcome = "regressed"

Verified(evidence) == /\ CiConclusion(evidence.runs) = "success"
                      /\ evidence.head \in Signed

ObservePull ==
  /\ observer.at = "away" /\ observations < MaxObservations
  /\ observations' = observations + 1
  /\ \E i \in DOMAIN shown :
        observer' = [Away EXCEPT !.at = "reading", !.observed = shown[i].updated,
                                 !.evidence = [head |-> shown[i].head, runs |-> <<>>]]
  /\ UNCHANGED <<shown, memory, others>>

\* The runs and checks of the head that was read; runs of other commits are dropped.
ObserveRuns ==
  /\ observer.at = "reading"
  /\ \E i \in DOMAIN shown, outcome \in Outcomes :
        LET seen == {j \in 1..i : shown[j].head = observer.evidence.head}
            last == shown[CHOOSE j \in seen : \A k \in seen : k <= j]
            runs == IF seen = {} THEN <<>> ELSE last.runs
        IN  /\ MayCompare(CiConclusion(runs), outcome)
            /\ observer' = [at |-> "asking",
                            evidence |-> [observer.evidence EXCEPT !.runs = runs],
                            observed |-> IF runs = <<>> THEN observer.observed
                                         ELSE last.updated,
                            outcome |-> outcome]
  /\ UNCHANGED <<shown, memory, others, observations>>

\* GitHub is not reached, or the identity of the pull request does not match.
ObservationFails == /\ observer.at = "reading" /\ observer' = Away
                    /\ UNCHANGED <<shown, memory, others, observations>>

AskMemory ==
  /\ observer.at = "asking"
  /\ observer' = IF Known("ours", "observation", observer.evidence) THEN Away
                 ELSE [observer EXCEPT !.at = "learning"]
  /\ UNCHANGED <<shown, memory, others, observations>>

\* The earlier observations of this change.
Prior == {i \in Learned("ours", "observation") :
             memory[i].evidence.head = observer.evidence.head}
LastPrior == memory[CHOOSE i \in Prior : \A j \in Prior : j <= i]

\* Mutant: what was observed earlier is not compared.
BugOutdated == FALSE

Outdated == observer.observed < LastPrior.at

Recovered == LastPrior.outcome = "regressed" /\ Verified(observer.evidence)

LearnPrior ==
  /\ observer.at = "learning"
  /\ observer' = IF Prior = {} THEN [observer EXCEPT !.at = "finding"]
                 ELSE IF Outdated THEN Away
                 ELSE [observer EXCEPT !.at = "finding",
                                       !.outcome = IF Recovered THEN "improved" ELSE @]
  /\ UNCHANGED <<shown, memory, others, observations>>

OwnEntry(kind) == [project |-> "ours", kind |-> kind, evidence |-> observer.evidence,
                   outcome |-> observer.outcome, at |-> observer.observed]

\* The finding first; when it cannot be saved, the evidence is not recorded either.
RecordFinding ==
  /\ observer.at = "finding"
  /\ \/ Records(OwnEntry("finding")) /\ observer' = [observer EXCEPT !.at = "recording"]
     \/ observer' = Away /\ UNCHANGED memory
  /\ UNCHANGED <<shown, others, observations>>

RecordEvidence ==
  /\ observer.at = "recording"
  /\ Records(OwnEntry("observation")) \/ UNCHANGED memory
  /\ observer' = Away
  /\ UNCHANGED <<shown, others, observations>>

ObserverCrash == /\ observer.at # "away" /\ observer' = Away
                 /\ UNCHANGED <<shown, memory, others, observations>>

MonitorNext ==
  \/ RecordOther
  \/ ObservePull \/ ObserveRuns \/ ObservationFails \/ AskMemory \/ LearnPrior
  \/ RecordFinding \/ RecordEvidence \/ ObserverCrash

MonitorSpec == MonitorInit /\ [][MonitorNext]_monitorVars

-----------------------------------------------------------------------------
\* Whatever old state GitHub answers with, whatever other parts push out of the
\* memory and wherever the observer dies, the observations that are remembered of a
\* change are in the order of what they observed, no evidence is there twice, and a
\* verified success right after a regression is remembered as an improvement
\* (observe_github_pull_request).
ObservationsNeverGoBack ==
  \A i, j \in DOMAIN memory :
     /\ memory[i].kind = "observation" /\ memory[j].kind = "observation"
     /\ i < j /\ memory[i].evidence.head = memory[j].evidence.head
     => /\ memory[i].at <= memory[j].at /\ memory[i].evidence # memory[j].evidence
        /\ (/\ memory[i].outcome = "regressed" /\ Verified(memory[j].evidence)
            /\ \A k \in (i + 1)..(j - 1) :
                 \/ memory[k].kind # "observation"
                 \/ memory[k].evidence.head # memory[i].evidence.head)
           => memory[j].outcome = "improved"
=============================================================================
