------------------------------- MODULE Terminal -------------------------------
(***************************************************************************)
(* The terminal: which part of packages/tui/src/components gets a key, what *)
(* it does with it, what is on the screen, and the bridge by which tools   *)
(* ask the user (askHandler, approval and cancelTurn of controller.ts).    *)
(*                                                                         *)
(* Text arrives in pieces, numbered over all replies and attempts.  What   *)
(* the draft shows is a set of them.  The turn itself is AgentLoop's; a    *)
(* second turn beside the first is Controller's.                           *)
(***************************************************************************)
EXTENDS Naturals, FiniteSets

CONSTANTS
    Request,       \* what tools of the turn and of children ask, each once
    Asks,          \* of each: "approval" or "question"
    ByChild,       \* those of children
    Questions,     \* how many questions a question has
    Vacant,
    MaxPieces, MaxKeys    \* bounds

ASSUME TerminalAssumption ==
    /\ Asks \in [Request -> {"approval", "question"}]
    /\ ByChild \subseteq Request /\ Vacant \notin Request
    /\ \A r \in ByChild : Asks[r] = "approval"
    /\ {Questions, MaxPieces, MaxKeys} \subseteq Nat

VARIABLES
    turn,       \* "off", "between" steps, "streaming", "tool"; or "compaction"
    submitted,  \* the turn was started by a prompt, not by a drain
    attempt,    \* pieces of the reply that is being streamed
    draft,      \* draft.assistant
    replies,    \* pieces in the transcript, in replies
    partials,   \* pieces in the transcript, left by interruptions
    cancels,    \* texts of the cancelTurn calls that await the turn's fiber
    asked,      \* per request: "no", "waiting", "stale" once its call is gone, "done"
    approval, question, dialog, help,    \* the App's state
    sheet,      \* QuestionPrompt: the step shown and the questions answered
    connecting,      \* a connection is under way: "no", or whether it is the first
    armed, exited,
    pieces, keys

turnState  == <<turn, submitted, attempt, replies>>
screen     == <<approval, question, dialog, help, sheet>>
ending     == <<armed, exited>>
terminalVars == <<turnState, draft, partials, cancels, asked, screen, connecting, ending,
                  pieces, keys>>

Blank == [step |-> 1, answered |-> {}]

TerminalInit ==
    /\ turn = "off" /\ submitted = FALSE
    /\ attempt = {} /\ draft = {} /\ replies = {} /\ partials = {} /\ cancels = {}
    /\ asked = [r \in Request |-> "no"]
    /\ approval = Vacant /\ question = Vacant /\ dialog = Vacant /\ help = FALSE
    /\ sheet = Blank
    /\ connecting = "no"
    /\ armed = FALSE /\ exited = FALSE
    /\ pieces = 0 /\ keys = 0

Running == turn # "off"
Waits   == {r \in Request \ ByChild : asked[r] = "waiting"}

\* The main input and, mounted as the overlay, the others.
MainActive  == approval = Vacant /\ question = Vacant /\ dialog = Vacant
AtApproval  == ~help /\ approval # Vacant
AtQuestion  == ~help /\ approval = Vacant /\ question # Vacant
AtDialog    == ~help /\ approval = Vacant /\ question = Vacant /\ dialog # Vacant

\* A prompt for questions that leaves the screen forgets what was ticked.
Remount == sheet' = IF ~help' /\ approval' = Vacant /\ question' = question THEN sheet ELSE Blank

-----------------------------------------------------------------------------
(* The turn, as its events reach the draft (foldEvent).                    *)

Others == UNCHANGED <<partials, cancels, asked, screen, connecting, ending, keys>>

StartTurn(prompted) ==
    /\ turn' = "between" /\ submitted' = prompted
    /\ attempt' = {}

\* A drain starts a turn.
Drain ==
    /\ turn = "off" /\ ~exited
    /\ StartTurn(FALSE)
    /\ UNCHANGED <<replies, draft, pieces>> /\ Others

StepStart ==
    /\ turn = "between" /\ cancels = {}
    /\ turn' = "streaming"
    /\ draft' = {} /\ attempt' = {}
    /\ UNCHANGED <<submitted, replies, pieces>> /\ Others

TextDelta ==
    /\ turn = "streaming" /\ cancels = {} /\ pieces < MaxPieces
    /\ pieces' = pieces + 1
    /\ attempt' = attempt \cup {pieces'}
    /\ draft' = draft \cup {pieces'}
    /\ UNCHANGED <<turn, submitted, replies>> /\ Others

\* A retry begins the reply anew; no event tells of it.
Retry ==
    /\ turn = "streaming" /\ cancels = {}
    /\ attempt' = {}
    /\ UNCHANGED <<turn, submitted, replies, draft, pieces>> /\ Others

\* The turn is over; submit clears the draft of a turn it has awaited.
OverWith(text) ==
    /\ turn' = "off" /\ submitted' = FALSE /\ attempt' = {}
    /\ draft' = IF submitted THEN {} ELSE text

\* Mutant: what was streamed stays in the draft when its message is there.
StepEndKeeping ==
    /\ turn = "streaming" /\ cancels = {}
    /\ replies' = replies \cup attempt
    /\ \/ OverWith(draft)
       \/ turn' = "tool" /\ attempt' = {} /\ UNCHANGED <<submitted, draft>>
    /\ UNCHANGED pieces /\ Others

\* The reply is in the transcript; it calls tools or ends the turn.
StepEnd ==
    /\ turn = "streaming" /\ cancels = {}
    /\ replies' = replies \cup attempt
    /\ \/ OverWith({})
       \/ turn' = "tool" /\ attempt' = {} /\ draft' = {} /\ UNCHANGED submitted
    /\ UNCHANGED pieces /\ Others

\* The results are in; the loop may first compact, before the next step.
ToolsDone ==
    /\ turn = "tool" /\ cancels = {} /\ Waits = {}
    /\ turn' = "between"
    /\ UNCHANGED <<submitted, attempt, replies, draft, pieces>> /\ Others

TurnFails ==
    /\ turn \in {"between", "streaming"} /\ cancels = {}
    /\ OverWith(draft)
    /\ UNCHANGED <<replies, pieces>> /\ Others

CompactionEnds ==
    /\ turn = "compaction"
    /\ OverWith(draft)
    /\ UNCHANGED <<replies, pieces>> /\ Others

-----------------------------------------------------------------------------
(* Tools ask the user.  There is one place on the screen for each kind, and *)
(* the last to ask has it.                                                  *)

Ask(r) ==
    /\ asked[r] = "no" /\ ~exited
    /\ r \notin ByChild => turn = "tool" /\ cancels = {} /\ Waits = {}
    /\ asked' = [asked EXCEPT ![r] = "waiting"]
    /\ IF Asks[r] = "approval" THEN approval' = r /\ UNCHANGED question
                               ELSE question' = r /\ UNCHANGED approval
    /\ UNCHANGED <<dialog, help>> /\ Remount
    /\ UNCHANGED <<turnState, draft, partials, cancels, connecting, ending, pieces, keys>>

Settle(r) == asked' = [asked EXCEPT ![r] = "done"]

-----------------------------------------------------------------------------
(* Keys.                                                                   *)

Key == ~exited /\ keys < MaxKeys /\ keys' = keys + 1
TurnStays == UNCHANGED <<turnState, partials, cancels, pieces>>
Disarm    == armed' = FALSE /\ UNCHANGED exited

\* The fiber is interrupted; its tool's request stays on the screen.
Abandon ==
    /\ asked' = [r \in Request |-> IF r \in Waits THEN "stale" ELSE asked[r]]
    /\ UNCHANGED <<approval, question, dialog>>

\* Ctrl+C, whatever has the keyboard.  The main handler, if it is active, closes
\* the help as well.
CtrlC ==
    /\ Key
    /\ help' = (help /\ ~MainActive)
    /\ \/ /\ Running
          /\ IF turn = "compaction"
             THEN UNCHANGED <<turnState, draft, asked, approval, question, dialog>>
             ELSE OverWith(draft) /\ Abandon /\ UNCHANGED replies
          /\ UNCHANGED ending
       \/ /\ ~Running /\ help
          /\ UNCHANGED <<turnState, draft, asked, approval, question, dialog, ending>>
       \/ /\ ~Running /\ ~help /\ dialog # Vacant
          /\ dialog' = Vacant
          /\ UNCHANGED <<turnState, draft, asked, approval, question, ending>>
       \/ /\ ~Running /\ ~help /\ dialog = Vacant
          /\ IF armed THEN exited' = TRUE /\ UNCHANGED armed
                      ELSE armed' = TRUE /\ UNCHANGED exited
          /\ UNCHANGED <<turnState, draft, asked, approval, question, dialog>>
    /\ Remount
    /\ UNCHANGED <<partials, cancels, connecting, pieces>>

\* Two seconds pass.
Timeout ==
    /\ armed /\ ~exited
    /\ Disarm
    /\ UNCHANGED <<turnState, draft, partials, cancels, asked, screen, connecting, pieces, keys>>

\* Any other key at the main input: the help goes away, ...
CloseHelp ==
    /\ Key /\ MainActive /\ help
    /\ help' = FALSE
    /\ Disarm /\ TurnStays
    /\ UNCHANGED <<draft, asked, approval, question, dialog, sheet, connecting>>

\* ... Esc calls cancelTurn with the draft, ...
Escape ==
    /\ Key /\ MainActive /\ ~help /\ Running
    /\ cancels' = cancels \cup {[text |-> draft, nth |-> Cardinality(cancels)]}
    /\ Disarm
    /\ UNCHANGED <<turnState, draft, partials, asked, screen, connecting, pieces>>

\* ... and Enter submits what was typed.
SubmitPrompt ==
    /\ Key /\ MainActive /\ ~help /\ ~Running
    /\ StartTurn(TRUE)
    /\ draft' = {}
    /\ Disarm
    /\ UNCHANGED <<replies, partials, cancels, asked, screen, connecting, pieces>>

SubmitCompact ==
    /\ Key /\ MainActive /\ ~help
    /\ IF Running THEN UNCHANGED <<turn, submitted>>
                  ELSE turn' = "compaction" /\ submitted' = TRUE
    /\ draft' = {}
    /\ Disarm
    /\ UNCHANGED <<attempt, replies, partials, cancels, asked, screen, connecting, pieces>>

\* /help; and the commands that open a dialog.
SubmitHelp ==
    /\ Key /\ MainActive /\ ~help
    /\ help' = TRUE
    /\ Disarm /\ TurnStays
    /\ UNCHANGED <<draft, asked, approval, question, dialog, sheet, connecting>>

OpenDialog(kind) ==
    /\ Key /\ MainActive /\ ~help
    /\ dialog' = kind
    /\ Disarm /\ TurnStays
    /\ UNCHANGED <<draft, asked, approval, question, help, sheet, connecting>>

\* The dialogs: Esc, or a choice, closes them.  A list without rows has no
\* handler at all; the router's stays open; a connection is awaited.
DialogKey ==
    /\ Key /\ AtDialog /\ dialog # "empty"
    /\ \/ dialog' = Vacant /\ UNCHANGED connecting
       \/ /\ dialog = "connect" /\ connecting = "no"
          /\ connecting' \in {"first", "another"} /\ UNCHANGED dialog
       \/ dialog = "router" /\ UNCHANGED <<dialog, connecting>>
    /\ UNCHANGED ending /\ TurnStays
    /\ UNCHANGED <<draft, asked, approval, question, help, sheet>>

\* The provider is connected, or not: the first time the models are offered.
Connected ==
    /\ connecting # "no" /\ ~exited
    /\ dialog' \in IF connecting = "first" THEN {Vacant, "list", "empty"} ELSE {Vacant}
    /\ connecting' = "no"
    /\ UNCHANGED <<turnState, draft, partials, cancels, asked, approval, question, help, sheet,
                   ending, pieces, keys>>

\* PermissionPrompt: Enter takes the choice, Esc denies.
Decide ==
    /\ Key /\ AtApproval
    /\ Settle(approval)
    /\ approval' = Vacant
    /\ UNCHANGED <<question, dialog, help>> /\ Remount
    /\ UNCHANGED <<draft, connecting, ending>> /\ TurnStays

\* QuestionPrompt: to another step; an answer, or one taken back; all of them.
Turnover(step) ==
    /\ Key /\ AtQuestion
    /\ step \in {sheet.step - 1, sheet.step + 1} \cap 1..(Questions + 1)
    /\ sheet' = [sheet EXCEPT !.step = step]
    /\ UNCHANGED <<draft, asked, approval, question, dialog, help, connecting, ending>> /\ TurnStays

Tick ==
    /\ Key /\ AtQuestion /\ sheet.step <= Questions
    /\ \E ticked \in {sheet.answered \cup {sheet.step}, sheet.answered \ {sheet.step}} :
            sheet' = [sheet EXCEPT !.answered = ticked]
    /\ UNCHANGED <<draft, asked, approval, question, dialog, help, connecting, ending>> /\ TurnStays

Answer ==
    /\ Key /\ AtQuestion /\ sheet.step > Questions /\ sheet.answered = 1..Questions
    /\ Settle(question)
    /\ question' = Vacant
    /\ UNCHANGED <<approval, dialog, help>> /\ Remount
    /\ UNCHANGED <<draft, connecting, ending>> /\ TurnStays

\* A cancelTurn has its fiber interrupted and records it: calls without results
\* get theirs, else the partial text stays.
Cancelled ==
    \E c \in cancels :
        /\ cancels' = cancels \ {c}
        /\ partials' = IF turn = "tool" THEN partials ELSE partials \cup c.text
        /\ asked' = [r \in Request |-> IF r \in Waits THEN "stale" ELSE asked[r]]
        /\ IF turn = "compaction" THEN UNCHANGED <<turn, submitted, attempt>>
           ELSE turn' = "off" /\ submitted' = FALSE /\ attempt' = {}
        /\ draft' = {}
        /\ UNCHANGED <<replies, screen, connecting, ending, pieces, keys>>

TerminalNext ==
    \/ Drain \/ StepStart \/ TextDelta \/ Retry \/ StepEnd \/ ToolsDone \/ TurnFails
    \/ CompactionEnds
    \/ \E r \in Request : Ask(r)
    \/ CtrlC \/ Timeout \/ CloseHelp \/ Escape \/ Cancelled
    \/ SubmitPrompt \/ SubmitCompact \/ SubmitHelp
    \/ \E kind \in {"list", "empty", "connect", "router"} : OpenDialog(kind)
    \/ DialogKey \/ Connected
    \/ Decide \/ Tick \/ Answer
    \/ \E step \in 1..(Questions + 1) : Turnover(step)

TerminalSpec == TerminalInit /\ [][TerminalNext]_terminalVars

-----------------------------------------------------------------------------
(* What must hold.                                                         *)

\* What a reply has said is not said again by the interruption of what follows:
\* the text that cancelTurn is handed comes from the screen, the reply from the
\* loop, and the draft outlives steps, failures and turns that nobody submitted.
ReplyIsNotPartial == replies \cap partials = {}

\* App.tsx:371: Ctrl+C works everywhere, to interrupt a running turn, dismiss a
\* picker, or step toward exit.
CtrlCWorks ==
    ~exited => \/ Running
               \/ help /\ MainActive
               \/ ~help
=============================================================================
