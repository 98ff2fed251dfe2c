--------------------------- MODULE ComputerControl ---------------------------
(***************************************************************************)
(* Desktop control: a connector with an action budget and a record of      *)
(* launches and typed texts, the post-condition observer, and the          *)
(* controller that lets a model choose the actions turn by turn.  The      *)
(* desktop is shared with the user, the provider may answer late or never. *)
(***************************************************************************)
EXTENDS Integers, Sequences, FiniteSets

CONSTANTS
    Programs,       \* executables; those in Denied may not be launched
    Denied,
    Coordinates,    \* coordinates that are asked for, on and off the display
    Width, Height,
    Buttons,        \* mouse buttons, "none" is not one
    KeySets,        \* key combinations
    KnownKeys,      \* the keys the policy knows
    BlockedCombos,  \* the system-security combinations
    KeyTexts,       \* what is typed or copied; "secret" is credential material
    Tickets,        \* idempotency keys; "none" is no key
    ActionLimit,    \* the connector's budget
    Replies,        \* what the model may answer: sequences of computer calls
    Retries, TurnLimit,
    MaxRuns, MaxWindows, MaxInputs      \* bounds of the model

ASSUME ComputerAssumption == ActionLimit \in Nat

VARIABLES
    computer,       \* connector and desktop
    run,            \* the controller
    posts           \* ghost: how often each answer of the controller was posted

computerVars == <<computer, run, posts>>

FirstComputer == [used |-> 0, windows |-> <<>>, handles |-> 0, active |-> 0,
                  pointer |-> <<0, 0>>, clip |-> "empty", launched |-> {},
                  typed |-> {}, inputs |-> <<>>]
NoRun == [state |-> "idle", no |-> 0, turn |-> 0, actions |-> 0, attempt |-> 0,
          calls |-> <<>>, approved |-> FALSE, replied |-> FALSE]

ComputerInit == computer = FirstComputer /\ run = NoRun /\ posts = <<>>

-----------------------------------------------------------------------------
\* Policy

OnScreen(point) == point[1] \in 0 .. Width /\ point[2] \in 0 .. Height
RegionValid(corner, size) == /\ corner[1] + size[1] <= Width /\ corner[2] + size[2] <= Height
                             /\ corner[1] >= 0 /\ corner[2] >= 0 /\ size[1] > 0 /\ size[2] > 0
ClickValid(point, button) == button \in Buttons /\ OnScreen(point)
ScrollValid(amount) == amount # 0 /\ amount \in -10000 .. 10000
DragValid(path) == Len(path) \in 2 .. 100 /\ \A i \in DOMAIN path : OnScreen(path[i])
\* A key press is refused for exactly a blocked combination, a hotkey for any
\* combination that contains one.
PressValid(keys) == Cardinality(keys) \in 1 .. 8 /\ keys \subseteq KnownKeys
                    /\ keys \notin BlockedCombos
HotkeyValid(keys) == keys # {} /\ keys \subseteq KnownKeys
                     /\ \A combo \in BlockedCombos : ~(combo \subseteq keys)
TypedTextValid(text) == text # "secret"
ClipboardTextValid(text) == text # "secret"
LaunchValid(program) == program \notin Denied

-----------------------------------------------------------------------------
\* The desktop

Handles(c) == {c.windows[i].handle : i \in DOMAIN c.windows}

\* The active window, else the first one, else none.
ActiveHandle(c) == IF c.active \in Handles(c) THEN c.active
                   ELSE IF c.windows # <<>> THEN c.windows[1].handle ELSE 0

Focused(c, handle) == IF handle \in Handles(c) THEN [c EXCEPT !.active = handle] ELSE c

Started(c, program) ==
    LET handle == c.handles + 1
    IN [c EXCEPT !.handles = handle, !.active = handle,
                 !.windows = Append(@, [program |-> program, handle |-> handle])]

HasWindow(c, program) == \E i \in DOMAIN c.windows : c.windows[i].program = program

-----------------------------------------------------------------------------
\* The connector.  An operation maps the state to the next one and says
\* whether it succeeded; it is charged before anything is validated.

Charged1(c, valid, after) ==
    IF c.used >= ActionLimit THEN [ok |-> FALSE, to |-> c]
    ELSE [ok |-> valid, to |-> [(IF valid THEN after ELSE c) EXCEPT !.used = @ + 1]]

ScreenCapture(c, corner, size) == Charged1(c, RegionValid(corner, size), c)
WindowQuery(c) == Charged1(c, TRUE, c)
WindowFocus(c, handle) == Charged1(c, TRUE, Focused(c, handle))
MouseMove(c, point) == Charged1(c, OnScreen(point), [c EXCEPT !.pointer = point])
MouseClick(c, point, button) == Charged1(c, ClickValid(point, button), [c EXCEPT !.pointer = point])
MouseScroll(c, point, amount) ==
    Charged1(c, OnScreen(point) /\ ScrollValid(amount), [c EXCEPT !.pointer = point])
MouseDrag(c, path, button, keys) ==
    Charged1(c, /\ DragValid(path) /\ button \in {"left", "right", "middle"}
                /\ keys # {} => PressValid(keys),
             [c EXCEPT !.pointer = path[Len(path)]])
KeyboardPress(c, keys) == Charged1(c, PressValid(keys), c)
KeyboardHotkey(c, keys) == Charged1(c, HotkeyValid(keys), c)
ComputerWait(c) == Charged1(c, TRUE, c)
ClipboardRead(c) == Charged1(c, TRUE, c)
ClipboardWrite(c, text) == Charged1(c, ClipboardTextValid(text), [c EXCEPT !.clip = text])

\* A launch on record, under its ticket or its own key, is answered from the
\* record; one whose program has a window is answered with that window.
Launch(program) == [op |-> "launch", what |-> program, where |-> 0]
Ticket(ticket) == [op |-> "ticket", what |-> ticket, where |-> 0]
KnownLaunch(c, program, ticket) ==
    \/ ticket # "none" /\ Ticket(ticket) \in c.launched
    \/ Launch(program) \in c.launched
    \/ HasWindow(c, program)
Recorded(done, key, ticket) ==
    done \cup {key} \cup IF ticket = "none" THEN {} ELSE {Ticket(ticket)}

AppLaunch(c, program, ticket) ==
    LET s == Started(c, program)
    IN Charged1(c, LaunchValid(program),
        IF KnownLaunch(c, program, ticket) THEN c
        ELSE [s EXCEPT !.launched = Recorded(@, Launch(program), ticket),
                       !.inputs = Append(@, Launch(program))])

\* Text is on record for the window that was active when it was typed.
Typing(c, text) == [op |-> "type", what |-> text, where |-> ActiveHandle(c)]
KnownTyping(c, text, ticket) == \/ ticket # "none" /\ Ticket(ticket) \in c.typed
                                \/ Typing(c, text) \in c.typed

KeyboardType(c, text, ticket) ==
    Charged1(c, TypedTextValid(text),
        IF KnownTyping(c, text, ticket) THEN c
        ELSE [c EXCEPT !.typed = Recorded(@, Typing(c, text), ticket),
                       !.inputs = Append(@, Typing(c, text))])

-----------------------------------------------------------------------------
\* Structured actions of the model

MutatingActions == {"click", "double_click", "drag", "type", "keypress"}

CuaAction(c, action, approved) ==
    IF action.type \in MutatingActions /\ ~approved THEN [ok |-> FALSE, to |-> c]
    ELSE CASE action.type = "screenshot" -> WindowQuery(c)
           [] action.type \in {"click", "double_click"} -> MouseClick(c, action.at, "left")
           [] action.type = "move" -> MouseMove(c, action.at)
           [] action.type = "scroll" -> MouseScroll(c, action.at, 1)
           [] action.type = "drag" -> MouseDrag(c, <<c.pointer, action.at>>, "left", {})
           [] action.type = "type" -> KeyboardType(c, action.text, "none")
           [] action.type = "keypress" -> KeyboardPress(c, action.keys)
           [] action.type = "wait" -> ComputerWait(c)
           [] OTHER -> [ok |-> FALSE, to |-> c]

-----------------------------------------------------------------------------
\* The controller

BugRetrySafe == run.state \in {"posting", "verifying"}

\* A request that carries the outcome of performed actions is not retried.
RetrySafe == run.state = "verifying" \/ run.turn = 1
Attempts == IF RetrySafe THEN 1 + Retries ELSE 1

Ended(state) == run' = [run EXCEPT !.state = state, !.calls = <<>>]

RunStart(approved) ==
    /\ run.state \notin {"posting", "verifying", "acting"} /\ run.no < MaxRuns
    /\ run' = [NoRun EXCEPT !.state = "posting", !.no = run.no + 1, !.turn = 1,
                            !.attempt = 1, !.approved = approved]
    /\ posts' = posts /\ computer' = computer

Request == <<run.no, run.turn, run.state>>
Posted == posts' = IF Request \in DOMAIN posts THEN [posts EXCEPT ![Request] = @ + 1]
                   ELSE [r \in DOMAIN posts \cup {Request} |->
                            IF r = Request THEN 1 ELSE posts[r]]

\* No usable answer: a transport error or a busy provider may be tried again.
PostFails(retryable) ==
    /\ run.state \in {"posting", "verifying"} /\ Posted
    /\ IF retryable /\ run.attempt < Attempts
       THEN run' = [run EXCEPT !.attempt = @ + 1] ELSE Ended("failed")
    /\ computer' = computer

\* The model proposes calls, or ends; after actions it is asked to verify.
PostReplied(reply) ==
    /\ run.state = "posting" /\ Posted
    /\ IF reply # <<>>
       THEN run' = [run EXCEPT !.state = "acting", !.calls = reply]
       ELSE IF run.actions > 0
       THEN run' = [run EXCEPT !.state = "verifying", !.attempt = 1]
       ELSE Ended("completed")
    /\ computer' = computer

PostVerified(confirmed) ==
    /\ run.state = "verifying" /\ Posted
    /\ Ended(IF confirmed THEN "completed_verified" ELSE "completed_unverified")
    /\ computer' = computer

Call == Head(run.calls)

\* A call is checked before the first of its actions.
CallRefused ==
    /\ run.state = "acting" /\ run.calls # <<>> /\ ~run.replied
    /\ \/ ~Call.identified /\ Ended("failed")
       \/ Call.identified /\ Call.checks # "none" /\ ~run.approved /\ Ended("requires_approval")
       \/ /\ Call.identified /\ (Call.checks = "none" \/ run.approved)
          /\ \/ Call.actions = <<>> /\ Ended("failed")
             \/ /\ ~run.approved
                /\ \E i \in DOMAIN Call.actions : Call.actions[i].type \in MutatingActions
                /\ Ended("requires_approval")
    /\ UNCHANGED <<computer, posts>>

CallAccepted ==
    /\ run.replied \/ /\ Call.identified /\ Call.actions # <<>>
                      /\ Call.checks # "none" => run.approved
                      /\ \A i \in DOMAIN Call.actions :
                            Call.actions[i].type \in MutatingActions => run.approved

RunAct ==
    /\ run.state = "acting" /\ run.calls # <<>> /\ CallAccepted /\ Call.actions # <<>>
    /\ Len(computer.inputs) < MaxInputs
    /\ LET done == CuaAction(computer, Head(Call.actions), run.approved) IN
       /\ computer' = done.to
       /\ IF done.ok
          THEN run' = [run EXCEPT !.actions = @ + 1, !.replied = TRUE,
                                  !.calls[1].actions = Tail(@)]
          ELSE Ended("failed")
    /\ posts' = posts

\* A screenshot answers the call; checks must be acknowledged with it.  With
\* every call answered the next turn posts the answers, if there is one.
RunScreenshot ==
    /\ run.state = "acting" /\ run.calls # <<>> /\ run.replied /\ Call.actions = <<>>
    /\ LET shot == WindowQuery(computer)
           more == Len(run.calls) > 1
           last == run.turn = TurnLimit
       IN /\ computer' = shot.to
          /\ IF ~shot.ok \/ Call.checks = "nameless" THEN Ended("failed")
             ELSE run' = [run EXCEPT
                    !.calls = Tail(@), !.replied = FALSE, !.attempt = 1,
                    !.state = IF more THEN "acting" ELSE IF last THEN "bounded" ELSE "posting",
                    !.turn = IF more \/ last THEN @ ELSE @ + 1]
    /\ posts' = posts

Points == Coordinates \X Coordinates

ControllerIdle == run.state \notin {"posting", "verifying", "acting"}

-----------------------------------------------------------------------------
\* The user opens and closes windows and moves the focus at any time.
UserActs ==
    /\ \/ \E i \in DOMAIN computer.windows :
            computer' = [computer EXCEPT !.windows =
                            SelectSeq(@, LAMBDA w : w # computer.windows[i])]
       \/ \E handle \in Handles(computer) \ {computer.active} :
            computer' = Focused(computer, handle)
       \/ /\ computer.handles < MaxWindows
          /\ \E program \in Programs : computer' = Started(computer, program)
    /\ UNCHANGED <<run, posts>>

\* One operation of the connector, called directly.
DirectOperation ==
    /\ ControllerIdle
    /\ \/ computer' = WindowQuery(computer).to
       \/ computer' = ClipboardRead(computer).to
       \/ \E h \in Handles(computer) : computer' = WindowFocus(computer, h).to
       \/ \E t \in KeyTexts : computer' = ClipboardWrite(computer, t).to
       \/ \E k \in KeySets : \/ computer' = KeyboardPress(computer, k).to
                             \/ computer' = KeyboardHotkey(computer, k).to
       \/ \E p \in Points : \/ computer' = ScreenCapture(computer, p, <<1, 1>>).to
                            \/ computer' = MouseMove(computer, p).to
                            \/ computer' = MouseScroll(computer, p, p[1]).to
       \/ \E p \in Points, b \in Buttons \cup {"none"} :
             \/ computer' = MouseClick(computer, p, b).to
             \/ computer' = MouseDrag(computer, <<computer.pointer, p>>, b, {}).to
       \/ /\ Len(computer.inputs) < MaxInputs
          /\ \E t \in KeyTexts, k \in Tickets : computer' = KeyboardType(computer, t, k).to
       \/ /\ computer.handles < MaxWindows
          /\ \E p \in Programs, k \in Tickets : computer' = AppLaunch(computer, p, k).to
    /\ UNCHANGED <<run, posts>>

ComputerNext ==
    \/ DirectOperation \/ UserActs
    \/ \E approved \in BOOLEAN : RunStart(approved) \/ PostFails(approved) \/ PostVerified(approved)
    \/ \E reply \in Replies : PostReplied(reply)
    \/ CallRefused \/ RunAct \/ RunScreenshot

ComputerSpec == ComputerInit /\ [][ComputerNext]_computerVars

-----------------------------------------------------------------------------
\* The controller posts the outcome of the actions it performed at most once,
\* however its requests fail and are tried again: _retry_safe_payload.  (The
\* opening request and the verification carry none and may be repeated.)
OutcomesPostedOnce ==
    \A request \in DOMAIN posts :
        request[2] > 1 /\ request[3] = "posting" => posts[request] = 1
=============================================================================
