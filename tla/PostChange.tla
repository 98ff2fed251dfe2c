------------------------------ MODULE PostChange ------------------------------
(***************************************************************************)
(* Verification after a change: evidence about a pull request is collected *)
(* from GitHub one read at a time, while others push to the branch, change *)
(* the pull request and rerun its checks; the evidence is then judged by a *)
(* pure verifier, and a release boundary relies on its report.  A request  *)
(* names the commit, the manifest of files and the checks it expects; its  *)
(* digest is the request.  The live verifier has a policy of its own: both *)
(* say, each for itself, whether a check nobody expected is malformed      *)
(* evidence (require_all_reported).                                        *)
(***************************************************************************)
EXTENDS Integers, FiniteSets

CONSTANTS
    Tree,           \* commit -> (path -> file); the commits of the branch
    Changed,        \* commit -> the paths the pull request changes at that head
    ChangeRequests, \* the requests: [commit, manifest, required, known, reported]
    Policies,       \* the live verifier's own: [kinds, renames, events, workflows, reported]
    Workflows,      \* names of the workflows that run
    CiEvents, CiConclusions,    \* what triggers a run, how it ends
    MaxPushes, MaxCiRuns, MaxCollections    \* bounds of the model

VARIABLES
    pull,           \* the pull request on GitHub
    ciRuns,         \* id -> workflow run
    pushes, collections,
    collecting,     \* the request evidence is collected for, and the next read
    evidence,       \* what was read
    reports,        \* the reports made
    released,       \* requests the release boundary found eligible
    green           \* history: what the checks of the commit were when read

postVars == <<pull, ciRuns, pushes, collections, collecting, evidence, reports, released, green>>

Commits == DOMAIN Tree
Missing == [seen |-> FALSE]
NoEvidence == [commit |-> Missing, pull |-> Missing, files |-> Missing, tests |-> Missing]
Idle == [step |-> "idle"]

PostInit == /\ \E c \in Commits : pull = [head |-> c, state |-> "open", draft |-> FALSE,
                                          merged |-> FALSE]
            /\ ciRuns = <<>> /\ pushes = 0 /\ collections = 0 /\ collecting = Idle
            /\ evidence = NoEvidence /\ reports = {} /\ released = {} /\ green = FALSE

-----------------------------------------------------------------------------
\* Others

Push(c) ==
    /\ pull.state = "open" /\ pushes < MaxPushes /\ c # pull.head
    /\ pull' = [pull EXCEPT !.head = c] /\ pushes' = pushes + 1
    /\ UNCHANGED <<ciRuns, collections, collecting, evidence, reports, released, green>>

ChangePull ==
    /\ pushes < MaxPushes /\ pushes' = pushes + 1
    /\ pull' \in {[pull EXCEPT !.draft = ~@],
                  [pull EXCEPT !.state = IF @ = "open" THEN "closed" ELSE "open"],
                  [pull EXCEPT !.state = "closed", !.merged = TRUE]}
    /\ ~pull.merged
    /\ UNCHANGED <<ciRuns, collections, collecting, evidence, reports, released, green>>

StartCi(name, event) ==
    /\ Cardinality(DOMAIN ciRuns) < MaxCiRuns
    /\ ciRuns' = [id \in 1 .. Cardinality(DOMAIN ciRuns) + 1 |->
                    IF id \in DOMAIN ciRuns THEN ciRuns[id]
                    ELSE [commit |-> pull.head, name |-> name, event |-> event,
                          completed |-> FALSE, conclusion |-> "none"]]
    /\ UNCHANGED <<pull, pushes, collections, collecting, evidence, reports, released, green>>

FinishCi(id, conclusion) ==
    /\ ~ciRuns[id].completed
    /\ ciRuns' = [ciRuns EXCEPT ![id].completed = TRUE, ![id].conclusion = conclusion]
    /\ UNCHANGED <<pull, pushes, collections, collecting, evidence, reports, released, green>>

-----------------------------------------------------------------------------
\* The evidence provider

CollectFor(q) ==
    /\ collecting = Idle /\ collections < MaxCollections
    /\ collections' = collections + 1
    /\ collecting' = [step |-> "commit", request |-> q]
    /\ evidence' = NoEvidence /\ green' = FALSE
    /\ UNCHANGED <<pull, ciRuns, pushes, reports, released>>

Reads(step, next) == collecting.step = step /\ collecting' = [collecting EXCEPT !.step = next]
Unmoved == UNCHANGED <<pull, ciRuns, pushes, collections, reports, released>>

\* The head of the branch; a read that fails is evidence that was not collected.
ReadCommit(fails) ==
    /\ Reads("commit", "pull")
    /\ evidence' = [evidence EXCEPT !.commit =
                      IF fails THEN Missing ELSE [seen |-> TRUE, sha |-> pull.head]]
    /\ UNCHANGED green /\ Unmoved

\* An observation that contradicts itself, a closed draft, is refused as it is made.
ReadPull(fails) ==
    /\ Reads("pull", "files")
    /\ evidence' = [evidence EXCEPT !.pull =
                      IF fails \/ (pull.state = "closed" /\ pull.draft) THEN Missing
                      ELSE [seen |-> TRUE, pr |-> pull]]
    /\ UNCHANGED green /\ Unmoved

\* The files the pull request lists now, as they are in the tree of the expected
\* commit; one that is not there, a removed one too, leaves the snapshot incomplete.
Snapshot(q, paths) ==
    LET readable == paths \cap DOMAIN Tree[q.commit]
    IN [seen |-> TRUE, complete |-> readable = paths,
        entries |-> [p \in readable |-> Tree[q.commit][p]]]

ReadFiles(fails) ==
    /\ Reads("files", "tests")
    /\ evidence' = [evidence EXCEPT !.files =
                      IF fails THEN Missing ELSE Snapshot(collecting.request, Changed[pull.head])]
    /\ UNCHANGED green /\ Unmoved

RunsOf(q, name) == {id \in DOMAIN ciRuns : ciRuns[id].commit = q.commit /\ ciRuns[id].name = name}
\* The worst conclusion of a workflow's runs counts.
AggregateConclusion(values) ==
    CASE "failure" \in values -> "failure" [] "cancelled" \in values -> "cancelled"
      [] values = {"success"} -> "success" [] OTHER -> "unknown"
AggregateEvent(values) ==
    IF values \subseteq {"push", "pull_request"}
    THEN IF "pull_request" \in values THEN "pull_request" ELSE "push"
    ELSE CHOOSE v \in values : v \notin {"push", "pull_request"}
BugAttested(q, name) ==
    LET runs == RunsOf(q, name)
    IN [completed |-> \E id \in runs : ciRuns[id].completed,
        conclusion |-> AggregateConclusion({ciRuns[id].conclusion : id \in
                            {i \in runs : ciRuns[i].completed}}),
        event |-> AggregateEvent({ciRuns[id].event : id \in runs})]

\* Every run of the workflow on the commit together, reruns included.
Attested(q, name) ==
    LET runs == RunsOf(q, name)
    IN [completed |-> \A id \in runs : ciRuns[id].completed,
        conclusion |-> AggregateConclusion({ciRuns[id].conclusion : id \in runs}),
        event |-> AggregateEvent({ciRuns[id].event : id \in runs})]

ReadTests(fails) ==
    LET q == collecting.request
        names == {name \in Workflows : RunsOf(q, name) # {}}
    IN /\ Reads("tests", "judge")
       /\ evidence' = [evidence EXCEPT !.tests =
                         IF fails THEN Missing
                         ELSE [seen |-> TRUE, checks |-> [name \in names |-> Attested(q, name)]]]
       /\ green' = \A name \in q.required : /\ RunsOf(q, name) # {}
                                            /\ \A id \in RunsOf(q, name) :
                                                   ciRuns[id].conclusion = "success"
       /\ Unmoved

-----------------------------------------------------------------------------
\* The verifier

IdentityStage(q, ev) ==
    CASE ~ev.commit.seen -> "missing" [] ev.commit.seen /\ ev.commit.sha # q.commit -> "fail"
      [] OTHER -> "pass"
PullStage(q, ev) ==
    IF ~ev.pull.seen THEN "missing"
    ELSE IF ev.pull.pr.head # q.commit THEN "stale"
    ELSE IF ev.pull.pr.state = "open" /\ ~ev.pull.pr.draft THEN "pass" ELSE "fail"
FileAllowed(file, expected, policy) ==
    /\ file.kind \in policy.kinds /\ (policy.renames \/ ~file.renamed)
    /\ file.content = expected
BugFilesStage(q, ev, policy) ==
    IF ~ev.files.seen THEN "missing"
    ELSE IF DOMAIN ev.files.entries \ DOMAIN q.manifest # {} THEN "fail"
    ELSE IF DOMAIN q.manifest \ DOMAIN ev.files.entries # {} THEN "missing"
    ELSE IF \A p \in DOMAIN q.manifest : FileAllowed(ev.files.entries[p], q.manifest[p], policy)
         THEN "pass" ELSE "fail"
FilesStage(q, ev, policy) ==
    IF ~ev.files.seen \/ ~ev.files.complete THEN "missing"
    ELSE IF DOMAIN ev.files.entries \ DOMAIN q.manifest # {} THEN "fail"
    ELSE IF DOMAIN q.manifest \ DOMAIN ev.files.entries # {} THEN "missing"
    ELSE IF \A p \in DOMAIN q.manifest : FileAllowed(ev.files.entries[p], q.manifest[p], policy)
         THEN "pass" ELSE "fail"

\* The checks are judged in the order they are reported, any of them first.
TestStates(q, ev, policy) ==
    IF ~ev.tests.seen THEN {"missing"}
    ELSE LET checks == ev.tests.checks
             Judged(n) ==
                 IF checks[n].event \notin policy.events \/ n \notin policy.workflows THEN "fail"
                 ELSE IF n \notin q.required THEN "pass"
                 ELSE IF ~checks[n].completed THEN "blocked"
                 ELSE IF checks[n].conclusion = "success" THEN "pass" ELSE "fail"
             wrong == {Judged(n) : n \in DOMAIN checks} \ {"pass"}
         IN IF policy.reported /\ DOMAIN checks \ q.known # {} THEN {"malformed"}
            ELSE IF q.required \ DOMAIN checks # {} THEN {"missing"}
            ELSE IF wrong = {} THEN {"pass"} ELSE wrong

\* A stage is judged only when those before it passed; the first that did not
\* decides.
RulingOf(state) == CASE state = "pass" -> "pass" [] state = "fail" -> "fail" [] OTHER -> "blocked"
Phase6(q, ev, policy) ==
    LET stages == <<IdentityStage(q, ev), PullStage(q, ev), FilesStage(q, ev, policy)>>
        wrong == {i \in 1 .. 3 : stages[i] # "pass"}
    IN IF wrong # {} THEN {RulingOf(stages[CHOOSE i \in wrong : \A j \in wrong : i <= j])}
       ELSE {RulingOf(s) : s \in TestStates(q, ev, policy)}

\* The earlier gate over the same evidence: drafts pass, and only the manifest and
\* the required checks count.
GateIdentity(q, ev) == ev.commit.seen /\ ev.commit.sha = q.commit
GatePull(q, ev) ==
    /\ ev.pull.seen /\ ev.pull.pr.head = q.commit /\ ev.pull.pr.state \in {"open", "draft"}
GateFiles(q, ev) ==
    /\ ev.files.seen /\ ev.files.complete /\ DOMAIN ev.files.entries = DOMAIN q.manifest
    /\ \A p \in DOMAIN q.manifest : ev.files.entries[p].content = q.manifest[p]
GateTests(q, ev) ==
    IF ~ev.tests.seen \/ q.required \ DOMAIN ev.tests.checks # {} THEN "missing"
    ELSE IF q.reported /\ DOMAIN ev.tests.checks \ q.known # {} THEN "malformed"
    ELSE IF \A n \in q.required : /\ ev.tests.checks[n].completed
                                 /\ ev.tests.checks[n].conclusion = "success"
         THEN "pass" ELSE "fail"
Gate(q, ev) ==
    IF GateIdentity(q, ev) /\ GatePull(q, ev) /\ GateFiles(q, ev) THEN GateTests(q, ev)
    ELSE "refused"

Judge ==
    /\ collecting.step = "judge"
    /\ \E policy \in Policies : \E ruling \in Phase6(collecting.request, evidence, policy) :
         reports' = reports \cup {[request |-> collecting.request, ruling |-> ruling,
                                   policy |-> policy,
                                   gate |-> Gate(collecting.request, evidence),
                                   green |-> green]}
    /\ collecting' = Idle /\ evidence' = NoEvidence /\ green' = FALSE
    /\ UNCHANGED <<pull, ciRuns, pushes, collections, released>>

-----------------------------------------------------------------------------
\* The release boundary

ReportAccepted(report, q) == report.request = q /\ report.ruling = "pass"

\* A release of q's change is asked for, with a report and the other gates' answers.
EvaluateRelease(q, report, ciPassed, reviewAllowed, approved, target) ==
    /\ q \notin released
    /\ ciPassed /\ approved /\ target = "staging"
    /\ ReportAccepted(report, q) /\ reviewAllowed
    /\ released' = released \cup {q}
    /\ UNCHANGED <<pull, ciRuns, pushes, collections, collecting, evidence, reports, green>>

PostNext ==
    \/ \E c \in Commits : Push(c)
    \/ ChangePull
    \/ \E name \in Workflows, event \in CiEvents : StartCi(name, event)
    \/ \E id \in DOMAIN ciRuns, conclusion \in CiConclusions :
          FinishCi(id, conclusion)
    \/ \E q \in ChangeRequests : CollectFor(q)
    \/ \E fails \in BOOLEAN :
          ReadCommit(fails) \/ ReadPull(fails) \/ ReadFiles(fails) \/ ReadTests(fails)
    \/ Judge
    \/ \E q \in ChangeRequests, report \in reports, ciPassed, reviewAllowed, approved \in BOOLEAN,
          target \in {"staging", "production"} :
          EvaluateRelease(q, report, ciPassed, reviewAllowed, approved, target)

PostSpec == PostInit /\ [][PostNext]_postVars

-----------------------------------------------------------------------------
\* A report passes only if every run of every required check on the commit had
\* succeeded when the checks were read: a rerun in progress or one green run among
\* failed ones does not hide the others (post_change_github.py, read_test_attestation).
PassedWasGreen == \A r \in reports : r.ruling = "pass" => r.green

\* Whatever the live verifier passes, under any policy, the earlier gate passes on the
\* same evidence, or finds malformed for one reason only: the request does not let
\* unexpected checks be reported and the live policy does.  Under the default policy
\* verify_phase6 takes nothing back from evaluate_verification.
PassedPassesTheGate ==
    \A r \in reports :
        r.ruling = "pass" =>
            r.gate = "pass"
                \/ (r.gate = "malformed" /\ r.request.reported /\ ~r.policy.reported)

\* "complete snapshot matches repository, exact commit and expected manifest": a
\* report that passes means that the pull request, at the expected commit, changes
\* the files of the manifest and no others.
PassedSnapshotIsOfTheCommit ==
    \A r \in reports :
        r.ruling = "pass" => Changed[r.request.commit] = DOMAIN r.request.manifest
===============================================================================
