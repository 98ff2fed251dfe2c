------------------------ MODULE MCApprovedExecution ------------------------
(***************************************************************************)
(* Three stretches of the way of a change on small instances: from the     *)
(* proposal to the commit (ImprovementLoop), the decision about an action  *)
(* and its execution (ApprovedExecution), and the observation of the pull  *)
(* request that came of it (ChangeMonitoring); and the queue's workers     *)
(* whose processes overlap (BackgroundWorker).  They share nothing, so     *)
(* each behaviour drives the one chosen in the initial state.              *)
(***************************************************************************)
EXTENDS ApprovedExecution, ChangeMonitoring, ImprovementLoop, BackgroundWorker, TLC

CONSTANTS a1, a2, p1, d1, e1, e2, k1, k2, w1, w2, t1

VARIABLE driven     \* the stretch this behaviour drives

\* What GitHub may show of a pull request: a rerun that recovers and fails again,
\* and a push with a second workflow that fails first.
Shows(head_, runs_, updated_) == [head |-> head_, runs |-> runs_, updated |-> updated_]
Timeline(n) ==
    IF n = 1 THEN <<Shows(1, <<>>, 1), Shows(1, <<"success">>, 2), Shows(1, <<"failure">>, 3),
                    Shows(1, <<"success">>, 4)>>
    ELSE <<Shows(1, <<"pending">>, 1), Shows(1, <<"failure">>, 2), Shows(2, <<>>, 3),
           Shows(2, <<"success", "failure">>, 4), Shows(2, <<"success", "success">>, 5)>>
TwoTimelines == {Timeline(1), Timeline(2)}

WayInit ==
    /\ driven \in {"approval", "monitoring", "improvement", "workers"}
    /\ ExecInit /\ MonitorInit /\ ImproveInit /\ WorkerInit
    /\ driven # "monitoring" => shown = Timeline(1)

WayNext ==
    \/ /\ driven = "approval" /\ ExecNext
       /\ UNCHANGED <<driven, monitorVars, improveVars, workerVars>>
    \/ /\ driven = "monitoring" /\ MonitorNext
       /\ UNCHANGED <<driven, vars, improveVars, workerVars>>
    \/ /\ driven = "improvement" /\ ImproveNext
       /\ UNCHANGED <<driven, vars, monitorVars, workerVars>>
    \/ /\ driven = "workers" /\ WorkerNext
       /\ UNCHANGED <<driven, vars, monitorVars, improveVars>>

WaySpec == WayInit /\ [][WayNext]_<<driven, vars, monitorVars, improveVars, workerVars>>

-----------------------------------------------------------------------------
OneAction == {a1}
TwoActions == {a1, a2}
OneProposer == {p1}
OneDecider == {d1}
OneExecutor == {e1}
TwoExecutors == {e1, e2}
TwoTokens == {k1, k2}
TwoWorkers == {w1, w2}
OneTask == {t1}
RankOf == [a \in Action |-> IF a = a1 THEN 1 ELSE 2]

Symmetric == Permutations(Executor) \cup Permutations(Token)

-----------------------------------------------------------------------------
\* Two files of two regions, one of them with a secret and one with line ends that
\* are not LF, and a workflow file.  The
\* model may answer with a right diff, one that replaces the redaction mark, one that
\* does not fit what it was shown, none, or one of a file it was not asked about,
\* each with the files it should have, others, or none.
FileOf(one, two) == [lines |-> <<one, two>>, ends |-> "lf"]
Ending(ends_, file_) == [file_ EXCEPT !.ends = ends_]
MCBase == [app |-> FileOf("old", "password"), lib |-> Ending("other", FileOf("old", "old")),
           workflow |-> FileOf("old", "old")]
Change(f, region_, old_, new_) == [file |-> f, region |-> region_, old |-> old_, new |-> new_]
MCDiffs == {{}, {Change("app", 1, "old", "new")}, {Change("app", 2, "[REDACTED]", "new")},
            {Change("app", 1, "edited", "new")}, {Change("lib", 1, "old", "new")},
            {Change("workflow", 1, "old", "new")}}
MCFiles == {[f \in {} |-> FileOf("old", "old")],
            [f \in {"app"} |-> FileOf("new", "[REDACTED]")],
            [f \in {"app"} |-> FileOf("new", "password")],
            [f \in {"lib"} |-> Ending("other", FileOf("new", "old"))],
            [f \in {"app", "lib"} |-> FileOf("new", "old")],
            [f \in {"workflow"} |-> FileOf("new", "old")]}
AnswerOf(diff_, files_, commands_) ==
    [diff |-> diff_, files |-> files_, commands |-> commands_]
MCAnswers == {AnswerOf(diff, answered, "none") : diff \in MCDiffs, answered \in MCFiles}
             \cup {AnswerOf({Change("app", 1, "old", "new")}, [f \in {} |-> FileOf("old", "old")],
                          commands) : commands \in {"approved", "allowed", "refused"}}
MCEdits == [file : {"app", "lib"}, region : {1}, text : {"edited"}]
MCProviders == <<[cost |-> "paid", key |-> TRUE, attempts |-> 1],
                 [cost |-> "free", key |-> TRUE, attempts |-> 2],
                 [cost |-> "free", key |-> FALSE, attempts |-> 1]>>
=============================================================================
