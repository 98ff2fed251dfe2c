------------------------------ MODULE MCSessions ------------------------------
(***************************************************************************)
(* The five bounded sessions on small instances.  They share nothing, *)
(* so each behaviour drives the one chosen in the initial state; all five  *)
(* are held against the same promise, GuardedSession.                      *)
(***************************************************************************)
EXTENDS BrowserSession, ApplicationSession, DocumentSession, ComputerControl,
        CrossDomainWorkflow

VARIABLE driven     \* the session this behaviour drives

SessionsInit == /\ driven \in {"browser", "application", "documents", "computer", "workflow"}
                /\ BrowserInit /\ AppInit /\ DocInit /\ ComputerInit /\ WfInit
                /\ driven # "workflow" => wfKind = "mock"

SessionsNext ==
    \/ /\ driven = "browser" /\ BrowserNext
       /\ UNCHANGED <<driven, appVars, docVars, computerVars, wfVars>>
    \/ /\ driven = "application" /\ AppNext
       /\ UNCHANGED <<driven, browserVars, docVars, computerVars, wfVars>>
    \/ /\ driven = "documents" /\ DocNext
       /\ UNCHANGED <<driven, browserVars, appVars, computerVars, wfVars>>
    \/ /\ driven = "computer" /\ ComputerNext
       /\ UNCHANGED <<driven, browserVars, appVars, docVars, wfVars>>
    \/ /\ driven = "workflow" /\ WfNext
       /\ UNCHANGED <<driven, browserVars, appVars, docVars, computerVars>>

sessionsVars == <<driven, browserVars, appVars, docVars, computerVars, wfVars>>
SessionsSpec == SessionsInit /\ [][SessionsNext]_sessionsVars

-----------------------------------------------------------------------------
\* A shop: its home page links through a redirect to the order page.
At(host, redirect, elements) ==
    [scheme |-> "https", userinfo |-> FALSE, port |-> 0, host |-> host,
     redirect |-> redirect, elements |-> elements, download |-> FALSE]
MCSite == [home |-> At("shop", "home", {"go", "note"}),
           moved |-> At("shop", "order", {}),
           trap |-> At("shop", "router", {}),
           order |-> [At("shop", "order", {"buy", "pin"}) EXCEPT !.download = TRUE],
           router |-> At("local", "router", {"buy"})]
Plain == [enabled |-> TRUE, credential |-> FALSE, consequential |-> FALSE,
          link |-> "none", options |-> {}]
MCElement == [go |-> [Plain EXCEPT !.link = "moved"],
              note |-> [Plain EXCEPT !.options = {"hello"}],
              buy |-> [Plain EXCEPT !.consequential = TRUE],
              pin |-> [Plain EXCEPT !.credential = TRUE]]
MCAllowLists == {{"shop"}, {"shop", "local"}}

-----------------------------------------------------------------------------
\* An editor and a viewer that does not write.
MCApps == [editor |-> {"open_document", "write_text", "focus_view"},
           viewer |-> {"open_document", "close_document"}]

\* A workspace with one file under two spellings of its name, an image and a
\* file outside.
MCPaths == [plan |-> [confined |-> TRUE, blocked |-> FALSE, name |-> "plan",
                      consequential |-> FALSE, pdf |-> TRUE],
            deep |-> [confined |-> TRUE, blocked |-> FALSE, name |-> "plan",
                      consequential |-> FALSE, pdf |-> FALSE],
            script |-> [confined |-> TRUE, blocked |-> FALSE, name |-> "script",
                        consequential |-> TRUE, pdf |-> FALSE],
            tool |-> [confined |-> TRUE, blocked |-> TRUE, name |-> "tool",
                      consequential |-> FALSE, pdf |-> FALSE],
            outside |-> [confined |-> FALSE, blocked |-> FALSE, name |-> "plan",
                         consequential |-> FALSE, pdf |-> FALSE]]
MCContent == [plan |-> {"text"}, deep |-> {}, script |-> {"script"},
              tool |-> {"code"}, outside |-> {"private"}]

-----------------------------------------------------------------------------
\* A desktop one pixel wide, and what the model may answer.
MCCoordinates == {0, 2}
MCKeySets == {{"a"}, {"ctrl", "del"}, {"ctrl", "del", "a"}}
MCBlockedCombos == {{"ctrl", "del"}}
Types(text) == [type |-> "type", at |-> <<0, 0>>, text |-> text, keys |-> {"a"}]
Does(type) == [Types("hi") EXCEPT !.type = type]
CallOf(checks, actions) == [identified |-> TRUE, checks |-> checks, actions |-> actions]
MCReplies == { <<>>,
    <<CallOf("none", <<Types("hi"), Does("click")>>)>>,
    <<CallOf("none", <<Does("move")>>), CallOf("known", <<Types("secret")>>)>>,
    <<CallOf("known", <<Does("keypress"), Does("drag")>>)>>,
    <<CallOf("nameless", <<Does("scroll"), Does("wait")>>)>>,
    <<CallOf("none", <<Does("screenshot"), Does("double_click")>>)>>,
    <<CallOf("none", <<Does("dance")>>)>>, <<CallOf("none", <<>>)>>,
    <<[CallOf("none", <<>>) EXCEPT !.identified = FALSE]>> }

-----------------------------------------------------------------------------
\* A brief: a web page is read, noted in a file and used by a command.  Reports:
\* one file read, one written (and one whose outputs are declared wrong).  The
\* undeclared pipeline lacks a handoff.
Reads(domain, produces) ==
    [domain |-> domain, mutating |-> FALSE, writes |-> FALSE, consequential |-> FALSE,
     approval |-> FALSE, deps |-> {}, consumes |-> {}, produces |-> produces, cost |-> 1,
     precondition |-> "none", content |-> "none"]
Writes(produces) ==
    [Reads("filesystem", produces) EXCEPT !.mutating = TRUE, !.writes = TRUE, !.approval = TRUE,
        !.precondition = "old", !.content = "new"]
Edge(from, to, key, trust) ==
    [from |-> from, to |-> to, key |-> key, kind |-> "text", trust |-> trust]
Brief == [steps |-> [search |-> Reads("web", {"page"}),
                     note |-> [Writes({"note"}) EXCEPT !.deps = {"search"}, !.consumes = {"page"}],
                     act |-> [Reads("shell", {}) EXCEPT !.deps = {"search", "note"},
                                !.consumes = {"note"}, !.approval = TRUE]],
          handoffs |-> {Edge("search", "note", "page", 0), Edge("note", "act", "note", 1)},
          budget |-> 4]
MCPipelines == [brief |-> Brief,
                undeclared |-> [Brief EXCEPT !.handoffs = {}],
                reports |-> [steps |-> [look |-> Reads("filesystem", {"result"}),
                                        save |-> Writes({"result"}),
                                        odd |-> [Writes({"other"}) EXCEPT !.deps = {"look", "save"}]],
                             handoffs |-> {}, budget |-> 3]]

-----------------------------------------------------------------------------
Keyed == {k \in computer.launched \cup computer.typed : k.op # "ticket"}
GuardOf(b, a, d, c, w) ==
    CASE driven = "browser" -> b [] driven = "application" -> a [] driven = "documents" -> d
      [] driven = "computer" -> c [] OTHER -> w

Guarded == INSTANCE GuardedSession WITH
    life <- GuardOf(opened, appLives, docLives, 0, wfLives),
    used <- GuardOf(IF session = NoSession THEN 0 ELSE session.used, app.used, doc.used,
                    computer.used, wf.used),
    limit <- GuardOf(IF session = NoSession THEN DefaultBudget ELSE session.limit, AppBudget,
                     doc.limit, ActionLimit, wf.limit),
    done <- GuardOf(completed, appDone, docDone, Keyed, wf.mutations),
    performed <- GuardOf([i \in DOMAIN clicks |-> clicks[i].key], appRuns, docRuns,
                         computer.inputs, wfRuns)

\* Each connector keeps GuardedSession's promise: its budget is never overdrawn,
\* a mutation on record is not performed again, in this process or in one that
\* starts from its checkpoint, and nothing is on record that was not performed.
ImplementsGuardedSession == Guarded!GuardSpec
=============================================================================
