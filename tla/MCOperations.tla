----------------------------- MODULE MCOperations -----------------------------
(***************************************************************************)
(* Four parts of the program's daily operation on small instances: the     *)
(* triggers and their dispatches, the ledger of external side effects, the *)
(* digital runtime and the verification after a change.  They share        *)
(* nothing, so each behaviour drives the one chosen in the initial state.  *)
(***************************************************************************)
EXTENDS TriggerDispatch, ExternalSideEffects, DigitalRuntime, PostChange

CONSTANTS tr1, tr2, d1, d2, t1, t2, c1, c2, p1, p2, k1, k2, r1, r2

VARIABLE driven     \* the part this behaviour drives

OperationsInit ==
    /\ driven \in {"triggers", "ledger", "digital", "changes"}
    /\ Init /\ LedgerInit /\ DigitalInit /\ PostInit
    /\ driven # "changes" => pull.head = "first"

OperationsNext ==
    \/ /\ driven = "triggers" /\ Next
       /\ UNCHANGED <<driven, ledgerVars, digitalVars, postVars>>
    \/ /\ driven = "ledger" /\ LedgerNext
       /\ UNCHANGED <<driven, vars, digitalVars, postVars>>
    \/ /\ driven = "digital" /\ DigitalNext
       /\ UNCHANGED <<driven, vars, ledgerVars, postVars>>
    \/ /\ driven = "changes" /\ PostNext
       /\ UNCHANGED <<driven, vars, ledgerVars, digitalVars>>

OperationsSpec ==
    OperationsInit /\ [][OperationsNext]_<<driven, vars, ledgerVars, digitalVars, postVars>>

-----------------------------------------------------------------------------
\* Triggers with different cooldowns, of which the registry holds one.
TwoTriggers == {tr1, tr2}
TwoDispatchers == {d1, d2}
TwoTasks == {t1, t2}
TwoCooldowns == [tr \in {tr1, tr2} |-> IF tr = tr1 THEN 1 ELSE 2]

-----------------------------------------------------------------------------
\* REST: any key may come with any request.  Each process makes its calls on its own.
TwoCallers == {c1, c2}
TwoProcesses == {p1, p2}
TwoKeys == {k1, k2}
TwoRequests == {r1, r2}
Threads == [c \in Caller |-> IF c = c2 THEN p2 ELSE p1]
AnyKeys == [r \in {r1, r2} |-> Key]

-----------------------------------------------------------------------------
\* The file domain lists and reads by default and writes when asked; no
\* capability serves the voice domain.
Tool(domain, place_, mode, words) ==
    [domain |-> domain, place |-> place_, mode |-> mode, words |-> words,
     permission |-> mode, risk |-> IF mode = "read_only" THEN "low" ELSE "high",
     approval |-> IF mode = "read_only" THEN "none" ELSE "explicit",
     safe |-> mode = "read_only", sandbox |-> mode # "read_only", available |-> TRUE,
     maxAttempts |-> IF mode = "read_only" THEN 2 ELSE 1]
MCCatalog == [list |-> Tool("file", 1, "read_only", {"list"}),
              save |-> Tool("file", 3, "write", {"save"}),
              speak |-> [Tool("voice", 2, "read_only", {"say"}) EXCEPT !.available = FALSE]]
MCDomainWords == [file |-> {"file"}, voice |-> {"voice"}]
MCDefaults == [file |-> {"list"}, voice |-> {}]
MCGoals == {{"file"}, {"file", "list", "save"}, {"file", "voice"}, {"file", "wipe"}}
MCGrants == {{}, {"read_only", "write", "secrets"}}
MCValidFor == [one |-> {"list", "save"}, two |-> {"list"}]

-----------------------------------------------------------------------------
\* The first commit changes the feature and, by mistake, a note; the second takes
\* the note back and leaves a link nobody changed.
Text(content) == [content |-> content, kind |-> "text", renamed |-> FALSE]
MCTree == [first |-> [feature |-> Text("new"), note |-> Text("draft")],
           second |-> [feature |-> Text("new"), link |-> [Text("new") EXCEPT !.kind = "symlink"]]]
MCChanged == [first |-> {"feature", "note"}, second |-> {"feature"}]
\* A request may take any check that is reported, or only those it knows.
RequestFor(c, all) == [commit |-> c, manifest |-> [feature |-> "new"], required |-> {"CI"},
                       known |-> {"CI"}, reported |-> all]
MCChangeRequests == {RequestFor("first", FALSE), RequestFor("second", TRUE)}

\* The default policy, and one that allows links, renames, lint and unexpected checks.
MCPolicies ==
    {[kinds |-> {"text"}, renames |-> FALSE, events |-> {"push", "pull_request"},
      workflows |-> {"CI"}, reported |-> TRUE],
     [kinds |-> {"text", "symlink"}, renames |-> TRUE, events |-> {"push", "pull_request"},
      workflows |-> {"CI", "lint"}, reported |-> FALSE]}
===============================================================================
