-------------------------- MODULE ApplicationSession --------------------------
(***************************************************************************)
(* The bounded application connector: one session bound to one adapter at  *)
(* a time, a backend that holds each application's own state, and the      *)
(* record of completed mutating commands.                                  *)
(***************************************************************************)
EXTENDS Integers, Sequences, FiniteSets

CONSTANTS
    Apps,           \* the registered adapters: app -> the commands it allows
    Documents,      \* document paths; "outside" escapes the workspace
    Payloads,       \* command payloads; "secret" is credential material
    Flagged,        \* payloads with a consequential wording
    AppBudget, MaxAppEpoch, MaxAppLives      \* the budget, and bounds of the model

ASSUME AppAssumption == AppBudget \in Nat

VARIABLES
    app,            \* the connector's session
    desk,           \* the backend: app -> its state
    appDone,        \* keys of the completed commands
    appRuns,        \* ghost: keys of the mutating commands performed
    appSaved,       \* the keys of the last checkpoint
    appLives        \* ghost: processes started before this one

appVars == <<app, desk, appDone, appRuns, appSaved, appLives>>

FreshApp == [state |-> "closed", id |-> "none", doc |-> "none", epoch |-> 0, used |-> 0]
FreshDesk == [a \in DOMAIN Apps |->
                [state |-> "closed", doc |-> "none", text |-> <<>>, view |-> "main", epoch |-> 0]]

AppInit == /\ app = FreshApp /\ desk = FreshDesk /\ appDone = {} /\ appRuns = <<>>
           /\ appSaved = {} /\ appLives = 0

-----------------------------------------------------------------------------
\* Policy

InWorkspace(doc) == doc # "outside"
CommandAllowed(a, command) == command \in Apps[a]
PayloadAllowed(payload) == payload # "secret"
MutatingCommands == {"write_text", "save_document", "open_document", "close_document"}

CommandKey(a, command, arg, payload, target) ==
    [app |-> a, command |-> command, arg |-> arg, payload |-> payload, target |-> target]

-----------------------------------------------------------------------------
\* The backend

Opened(a, doc) == [desk EXCEPT ![a].state = "open", ![a].doc = doc, ![a].epoch = @ + 1]
Closed(a) == [desk EXCEPT ![a].state = "closed", ![a].doc = "none", ![a].epoch = @ + 1]

\* What a command does to its application, if the backend accepts it.
Executed(a, command, arg, payload) ==
    IF ~( /\ desk[a].state = "open" /\ CommandAllowed(a, command)
          /\ PayloadAllowed(payload)
          /\ command = "open_document" => InWorkspace(arg))
    THEN {}
    ELSE {[desk EXCEPT ![a] =
            [@ EXCEPT !.epoch = @ + 1,
                      !.text = IF command = "write_text" THEN Append(@, payload) ELSE @,
                      !.view = IF command = "focus_view" THEN arg ELSE @,
                      !.doc = CASE command = "open_document" -> arg
                                [] command = "close_document" -> "none"
                                [] OTHER -> @]]}

-----------------------------------------------------------------------------
\* The session

CanSpend == app.state = "open" /\ app.used < AppBudget
Spent == [app EXCEPT !.used = @ + 1]

\* The application is opened, and the session bound to it, before the action
\* is charged: with the budget spent the session is open all the same.
AppOpen(a, doc) ==
    /\ app.epoch < MaxAppEpoch /\ InWorkspace(doc)
    /\ desk' = Opened(a, doc)
    /\ app' = [state |-> "open", id |-> a, doc |-> doc, epoch |-> app.epoch + 1,
               used |-> IF app.used < AppBudget THEN app.used + 1 ELSE app.used]
    /\ UNCHANGED <<appDone, appRuns, appSaved, appLives>>

AppClose ==
    /\ CanSpend
    /\ desk' = Closed(app.id)
    /\ app' = [Spent EXCEPT !.state = "closed", !.doc = "none", !.epoch = @ + 1]
    /\ UNCHANGED <<appDone, appRuns, appSaved, appLives>>

AppTurn ==
    /\ \/ app.state = "open" /\ app' = [app EXCEPT !.state = "suspended"]
       \/ app.state = "suspended" /\ app' = [app EXCEPT !.state = "open"]
    /\ UNCHANGED <<desk, appDone, appRuns, appSaved, appLives>>

\* Observation, and the resolution of a view or document on what it shows.
AppObserve ==
    /\ CanSpend /\ app' = Spent
    /\ UNCHANGED <<desk, appDone, appRuns, appSaved, appLives>>

\* A target carries the epoch of the observation it was resolved on.
AppTargets == {[view |-> "none", epoch |-> -1]} \cup [view : {"main"}, epoch : 0 .. app.epoch]

\* Consequential commands and repeats are refused before anything is charged;
\* the backend's own refusals come after.
AppCommand(command, arg, payload, target) ==
    LET key == CommandKey(app.id, command, arg, payload, target)
        mutating == command \in MutatingCommands
    IN /\ CanSpend /\ app.epoch < MaxAppEpoch
       /\ payload \notin Flagged
       /\ mutating => key \notin appDone
       /\ IF Executed(app.id, command, arg, payload) = {}
          THEN app' = Spent /\ UNCHANGED <<desk, appDone, appRuns>>
          ELSE /\ desk' \in Executed(app.id, command, arg, payload)
               /\ app' = [Spent EXCEPT !.epoch = @ + 1]
               /\ IF mutating
                  THEN /\ appRuns' = Append(appRuns, key)
                       /\ appDone' = appDone \cup {key}
                  ELSE UNCHANGED <<appRuns, appDone>>
       /\ UNCHANGED <<appSaved, appLives>>

AppCheckpoint == /\ appSaved # appDone /\ appSaved' = appDone
                 /\ UNCHANGED <<app, desk, appDone, appRuns, appLives>>

AppRestart == /\ appLives < MaxAppLives /\ appLives' = appLives + 1
              /\ app' = FreshApp /\ desk' = FreshDesk
              /\ appDone' = appSaved /\ appRuns' = <<>>
              /\ UNCHANGED appSaved

AppNext ==
    \/ \E a \in DOMAIN Apps, doc \in Documents : AppOpen(a, doc)
    \/ AppClose \/ AppTurn \/ AppObserve
    \/ \E command \in (UNION {Apps[a] : a \in DOMAIN Apps}) \cup {"shutdown"},
          arg \in Documents, payload \in Payloads, target \in AppTargets :
            AppCommand(command, arg, payload, target)
    \/ AppCheckpoint \/ AppRestart

AppSpec == AppInit /\ [][AppNext]_appVars
=============================================================================
