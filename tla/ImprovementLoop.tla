--------------------------- MODULE ImprovementLoop ---------------------------
(***************************************************************************)
(* From an improvement proposal to the contents that are committed for it. *)
(* The loop (self_improvement.py) shows a coding model the affected files, *)
(* redacted (ai_coding_brain.py), through the router of the configured     *)
(* providers (provider_router.py); it repairs what the model answers       *)
(* (coding_provider.py), reviews it (patch_review.py) and runs the tests   *)
(* on it in a sandbox (sandbox_runner.py), a bounded number of times.  The *)
(* command stores what passed (coding_cli.py), and after the approval the  *)
(* worker compares it with the approved commit (github_changes.py).        *)
(*                                                                         *)
(* A file is the lines of its regions and how they end; a diff is a set of *)
(* hunks, each the old and the new lines of a region: hunks, reviews and   *)
(* comparisons split texts into lines and do not see how the lines end.    *)
(* Whether a file ends with a line end is compared, so it belongs to the   *)
(* lines of its last region.  The checkout that is read and tested may *)
(* be edited at any time and need not be the approved commit.  What the    *)
(* model is not shown of a file, as redacted or as cut off at the limit,   *)
(* is a region with a secret here.  Who may approve and execute, and that  *)
(* a run is executed once, is the subject of CodingRun.                    *)
(***************************************************************************)
EXTENDS Naturals, Sequences, FiniteSets

CONSTANTS Base,           \* the files at the approved commit (--expected-head-sha)
          RegionText,     \* what a region may say
          SecretText, Redacted,  \* a text with a secret, and what is shown of it
          Forbidden,      \* the paths no patch may touch (.git, .env, workflows, ...)
          AffectedAreas,  \* the affected areas a proposal may name
          Providers,      \* the configured providers by priority: their cost class,
                          \* whether their key is set, their max_attempts
          Answers,        \* what a model may answer: a diff, files, test commands
          RevisionBounds, \* the --max-revisions a command may be given
          Edits,          \* a file, a region and what an editor may write there
          MaxEdits        \* bound on the edits of the checkout, for model checking

File == DOMAIN Base
LineEnds == {"lf", "other"}     \* every line ends with LF, or some do not
Contents == [lines : [1..2 -> RegionText], ends : LineEnds]
SomeFiles == UNION {[files -> Contents] : files \in SUBSET File}
Hunk == [file : File, region : 1..2, old : RegionText, new : RegionText]

\* PatchCandidate; its commands are "none", "approved", "allowed" or "refused".
PatchCandidate == [diff : SUBSET Hunk, files : SomeFiles,
                   commands : {"none", "approved", "allowed", "refused"}]

ASSUME ImprovementAssumption ==
  /\ Base \in [File -> Contents]
  /\ SecretText \in RegionText /\ Redacted \in RegionText /\ SecretText # Redacted
  /\ RevisionBounds \subseteq 0..3 /\ MaxEdits \in Nat
  /\ AffectedAreas \subseteq SUBSET File
  /\ Providers \in Seq([cost : {"free", "paid", "unknown"}, key : BOOLEAN, attempts : Nat])
  /\ Edits \subseteq [file : File, region : 1..2, text : RegionText]
  /\ Answers \subseteq PatchCandidate
  /\ \A answer \in Answers : \A h1, h2 \in answer.diff :      \* hunks do not overlap
       h1 # h2 => h1.file # h2.file \/ h1.region # h2.region

VARIABLES checkout,   \* the files of the working tree
          edits,      \* how often it was edited
          headMoved,  \* whether the base branch has left the approved commit
          loop,       \* the local variables of the run under way
          storedRun,  \* the candidate in the coding run store
          committed   \* the files of the commit on the head branch

improveVars == <<checkout, edits, headMoved, loop, storedRun, committed>>

-----------------------------------------------------------------------------
NoFiles == [f \in {} |-> Base[f]]
NoCandidate == [diff |-> {}, files |-> NoFiles, commands |-> "none"]
FilesOf(diff) == {hunk.file : hunk \in diff}

Fresh == [at |-> "away", area |-> {}, allowPaid |-> FALSE, approved |-> FALSE, bound |-> 0,
          revision |-> 0, provider |-> 1, attempt |-> 0, context |-> NoFiles,
          candidate |-> NoCandidate]

ImproveTypeOK ==
  /\ checkout \in [File -> Contents] /\ edits \in 0..MaxEdits /\ headMoved \in BOOLEAN
  /\ loop.at \in {"away", "inspecting", "asking", "reviewing", "validating", "ready",
                  "rejected", "failed", "comparing", "committing", "closed"}
  /\ loop.revision \in 0..loop.bound /\ loop.provider \in 1..(Len(Providers) + 1)
  /\ loop.candidate.diff \subseteq Hunk
  /\ \A f \in DOMAIN committed : committed[f] \in Contents

ImproveInit ==
  /\ checkout = Base /\ edits = 0 /\ headMoved = FALSE
  /\ loop = Fresh /\ storedRun = NoCandidate /\ committed = NoFiles

-----------------------------------------------------------------------------
\* patch_review.py.

\* The files a diff makes of some base, when it applies to it.
AppliesTo(diff, base) ==
  \A hunk \in diff : hunk.file \in DOMAIN base /\ base[hunk.file].lines[hunk.region] = hunk.old

\* The lines of every file of the diff, joined with LF.
Applied(diff, base) ==
  [f \in FilesOf(diff) |->
     [lines |-> [region \in 1..2 |->
        IF \E hunk \in diff : hunk.file = f /\ hunk.region = region
        THEN (CHOOSE hunk \in diff : hunk.file = f /\ hunk.region = region).new
        ELSE base[f].lines[region]],
      ends |-> "lf"]]

SameLines(files, others) ==
  /\ DOMAIN files = DOMAIN others
  /\ \A f \in DOMAIN files : files[f].lines = others[f].lines

\* Mutant: the supplied files are taken without the base they came from.
BugProducedFrom(diff, base, files) == TRUE

\* validate_patch_applies_to_base
ProducedFrom(diff, base, files) ==
  AppliesTo(diff, base) /\ SameLines(files, Applied(diff, base))

\* validate_patch_file_contents: no more than the lines the hunks result in.
HunksMatch(diff, files) ==
  /\ diff # {} /\ FilesOf(diff) = DOMAIN files
  /\ \A hunk \in diff : files[hunk.file].lines[hunk.region] = hunk.new

\* review_patch
Reviewable(diff) == diff # {} /\ FilesOf(diff) \cap Forbidden = {}

-----------------------------------------------------------------------------
\* The environment: edits of the checkout, pushes to the base branch.

EditCheckout ==
  /\ edits < MaxEdits /\ edits' = edits + 1
  /\ \E edit \in Edits : checkout' = [checkout EXCEPT ![edit.file].lines[edit.region] = edit.text]
  /\ UNCHANGED <<headMoved, loop, storedRun, committed>>

MoveHead == /\ ~headMoved /\ headMoved' = TRUE
            /\ UNCHANGED <<checkout, edits, loop, storedRun, committed>>

-----------------------------------------------------------------------------
\* The loop.

LoopGoes(to) == loop' = [loop EXCEPT !.at = to]
OnlyLoop == UNCHANGED <<checkout, edits, headMoved, storedRun, committed>>

\* approved: the proposal's validation strategy has commands the sandbox allows.
StartImprovement ==
  /\ loop.at \in {"away", "rejected", "failed"} /\ storedRun = NoCandidate
  /\ \E area \in AffectedAreas, paid, approved \in BOOLEAN, bound \in RevisionBounds :
        loop' = [Fresh EXCEPT !.at = "inspecting", !.area = area, !.allowPaid = paid,
                              !.approved = approved, !.bound = bound]
  /\ OnlyLoop

\* inspect: the affected files that can be read, with LF for every line end (read_text)
\* and with their secrets redacted; a path outside the boundary ends the run.
Shown(contents) ==
  [lines |-> [region \in 1..2 |-> IF contents.lines[region] = SecretText THEN Redacted
                                  ELSE contents.lines[region]],
   ends |-> "lf"]
Inspect ==
  /\ loop.at = "inspecting"
  /\ IF loop.area \cap Forbidden # {} THEN LoopGoes("failed")
     ELSE \E read \in SUBSET loop.area :
            loop' = [loop EXCEPT !.at = "asking", !.provider = 1, !.attempt = 0,
                                 !.context = [f \in read |-> Shown(checkout[f])]]
  /\ OnlyLoop

\* CodingProviderRouter.
Asked == Providers[loop.provider]
Eligible == Asked.key /\ (Asked.cost = "free" \/ (Asked.cost = "paid" /\ loop.allowPaid))
NextProvider == [loop EXCEPT !.provider = @ + 1, !.attempt = 0]

SkipProvider ==
  /\ loop.at = "asking" /\ loop.provider <= Len(Providers) /\ ~Eligible
  /\ loop' = NextProvider
  /\ OnlyLoop

\* The diff is the patch when it applies to what was shown; otherwise the files the
\* model gave, of them the affected ones if there are any, and a diff rebuilt from
\* what was shown when that is possible.
Differences(files, context) ==
  {[file |-> f, region |-> region, old |-> context[f].lines[region],
    new |-> files[f].lines[region]] : f \in DOMAIN files, region \in 1..2}

Rebuilt(files, context, diff) ==
  IF /\ DOMAIN files # {} /\ DOMAIN files \subseteq DOMAIN context
     /\ \A f \in DOMAIN files : files[f].lines # context[f].lines
  THEN {hunk \in Differences(files, context) : hunk.old # hunk.new}
  ELSE diff

Candidate(answer) ==
  LET shown == loop.context
      bounded == [f \in DOMAIN answer.files \cap loop.area \cap DOMAIN shown |->
                    answer.files[f]]
      files == IF DOMAIN bounded # {} THEN bounded ELSE answer.files
  IN  IF answer.diff # {} /\ AppliesTo(answer.diff, shown)
      THEN [answer EXCEPT !.files = Applied(answer.diff, shown)]
      ELSE [answer EXCEPT !.files = files, !.diff = Rebuilt(files, shown, answer.diff)]

ModelAnswers ==
  /\ loop.at = "asking" /\ loop.provider <= Len(Providers) /\ Eligible
  /\ \E answer \in Answers :
        loop' = [loop EXCEPT !.at = "reviewing", !.candidate = Candidate(answer)]
  /\ OnlyLoop

\* No answer, an error, or an answer that is not a candidate.
ModelFails ==
  /\ loop.at = "asking" /\ loop.provider <= Len(Providers) /\ Eligible
  /\ loop' = IF loop.attempt + 1 < Asked.attempts THEN [loop EXCEPT !.attempt = @ + 1]
             ELSE NextProvider
  /\ OnlyLoop

\* No provider had a candidate.
NoneAnswered ==
  /\ loop.at = "asking" /\ loop.provider > Len(Providers)
  /\ LoopGoes(IF loop.revision > 0 THEN "failed" ELSE "rejected")
  /\ OnlyLoop

\* The next revision, or the end of the budget.
Again == loop' = IF loop.revision < loop.bound
                 THEN [loop EXCEPT !.at = "inspecting", !.revision = @ + 1]
                 ELSE [loop EXCEPT !.at = "failed"]

HasSecret(files) == \E f \in DOMAIN files : SecretText \in {files[f].lines[1], files[f].lines[2]}

Review ==
  LET c == loop.candidate IN
  /\ loop.at = "reviewing"
  /\ IF /\ Reviewable(c.diff) /\ HunksMatch(c.diff, c.files) /\ ~HasSecret(c.files)
     THEN LoopGoes("validating")
     ELSE Again
  /\ OnlyLoop

\* validate: the commands of the candidate if it has any, which must be approved when
\* the proposal has approved ones ("approved" are the proposal's, if it has any, and
\* "allowed" are others on the sandbox's own list).
MayRun(commands) ==
  /\ commands = "none" => loop.approved
  /\ commands = "allowed" => ~loop.approved
  /\ commands # "refused"

TestsPass ==
  /\ loop.at = "validating" /\ MayRun(loop.candidate.commands)
  /\ LoopGoes("ready")
  /\ OnlyLoop

\* Commands that may not run, no isolation, a failure or a timeout.
TestsFail == loop.at = "validating" /\ Again /\ OnlyLoop

-----------------------------------------------------------------------------
\* After the loop.

\* _validate_record, which looks for secrets in the whole record, the diff included.
Storable(c) ==
  /\ Reviewable(c.diff) /\ HunksMatch(c.diff, c.files)
  /\ \A hunk \in c.diff : SecretText \notin {hunk.old, hunk.new}

StoreRun ==
  /\ loop.at = "ready"
  /\ \/ /\ Storable(loop.candidate) /\ storedRun' = loop.candidate
        /\ loop' = Fresh
     \/ /\ UNCHANGED storedRun            \* an error of the queue or the store
        /\ LoopGoes("failed")
  /\ UNCHANGED <<checkout, edits, headMoved, committed>>

\* build_draft_pr_request takes the stored diff once more through the review.
DraftRequested == Reviewable(storedRun.diff)

\* prepare_draft_pr of an approved run: the head of the base branch is asked for.
PrepareDraft ==
  /\ loop.at = "away" /\ storedRun # NoCandidate
  /\ \/ /\ DraftRequested /\ HunksMatch(storedRun.diff, storedRun.files)
        /\ ~headMoved
        /\ LoopGoes("comparing")
     \/ LoopGoes("closed")
  /\ OnlyLoop

\* execute_approved_change compares with the files at the approved commit, and commits
\* on a branch made at it.
CompareWithBase ==
  /\ loop.at = "comparing"
  /\ LoopGoes(IF ProducedFrom(storedRun.diff, [f \in FilesOf(storedRun.diff) |-> Base[f]],
                          storedRun.files)
          THEN "committing" ELSE "closed")
  /\ OnlyLoop

CommitFiles ==
  /\ loop.at = "committing"
  /\ committed' = storedRun.files \/ UNCHANGED committed
  /\ LoopGoes("closed")
  /\ UNCHANGED <<checkout, edits, headMoved, storedRun>>

\* The command or the worker dies; a run whose execution began is not begun again.
ImproveCrash ==
  /\ loop.at \in {"inspecting", "asking", "validating", "ready", "comparing", "committing"}
  /\ loop' = IF loop.at \in {"comparing", "committing"} THEN [loop EXCEPT !.at = "closed"]
             ELSE Fresh
  /\ OnlyLoop

ImproveNext ==
  \/ EditCheckout \/ MoveHead
  \/ StartImprovement \/ Inspect
  \/ SkipProvider \/ ModelAnswers \/ ModelFails \/ NoneAnswered
  \/ Review \/ TestsPass \/ TestsFail
  \/ StoreRun \/ PrepareDraft \/ CompareWithBase \/ CommitFiles \/ ImproveCrash

ImproveSpec == ImproveInit /\ [][ImproveNext]_improveVars

-----------------------------------------------------------------------------
\* However the checkout was edited, whatever the model was not shown and whatever it
\* answered, the lines of a commit differ from the approved commit's in the reviewed
\* hunks only, each of which found there what it replaces; it touches no forbidden path
\* and puts no secret and no redaction mark where the approved commit has another text
\* that no hunk replaced (validate_patch_applies_to_base in execute_approved_change).
\* It is a property of lines: how they end is nobody's to compare, and a committed file
\* may end all of its lines otherwise than the approved commit does.
CommittedIsReviewed ==
  \A f \in DOMAIN committed :
     /\ f \notin Forbidden
     /\ \A region \in 1..2 :
          \/ committed[f].lines[region] = Base[f].lines[region]
          \/ /\ committed[f].lines[region] # SecretText
             /\ [file |-> f, region |-> region, old |-> Base[f].lines[region],
                 new |-> committed[f].lines[region]] \in storedRun.diff
=============================================================================
