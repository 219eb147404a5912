---------------------------- MODULE BrowserParts ----------------------------
(***************************************************************************)
(* The parts of the page that share no state (src/webui/static/app.js,     *)
(* src/complex/static/board.js), side by side: a behaviour picks one of    *)
(* them in its first state and stays with it.  The variables of the other  *)
(* parts are Off; `moves' is common to all.                                *)
(***************************************************************************)
EXTENDS Integers

CONSTANTS
    ToolIds, MaxEvents, Turns, TranscriptMoves,                \* Transcript
    PageSize, WindowSize, FirstRows, WindowMoves,              \* HistoryWindow
    Keys, Default, Pinnable, MaxPins, PickerMoves,             \* EndpointPicker
    Boards, Owner, NoScope, BoardMoves,                        \* Board
    Sessions, MaxTexts, MaxFiles, ComposerMoves,               \* Composer
    MaxItems, RenderingMoves,                                  \* Rendering
    NoSession                                                  \* the view without an id

VARIABLES
    part, moves,
    page, turn, ask,                                           \* Transcript
    store, w, load, tail, live, view,                          \* HistoryWindow
    served, pins, last, sent, away, disputed,                  \* EndpointPicker
    srv, board, loads, saves, polls,                           \* Board
    box, media, uploads, running, busy, posts, cancels, text, file,    \* Composer
    answer, final, nodes, bundle, theme, config, drawing, redraw, crossed  \* Rendering

Off == "off"

T == INSTANCE Transcript WITH MaxTurns <- Turns, MaxMoves <- TranscriptMoves
H == INSTANCE HistoryWindow WITH MaxTurns <- Turns, MaxMoves <- WindowMoves
E == INSTANCE EndpointPicker WITH
        Sessions <- Pinnable, Nobody <- NoSession, MaxMoves <- PickerMoves
B == INSTANCE Board WITH Sessions <- Boards, MaxMoves <- BoardMoves
C == INSTANCE Composer WITH MaxMoves <- ComposerMoves
R == INSTANCE Rendering WITH MaxMoves <- RenderingMoves

ASSUME WindowAssumption ==
    PageSize \in Nat \ {0} /\ WindowSize \in Nat /\ PageSize <= WindowSize /\ FirstRows \in Nat
ASSUME PickerAssumption ==
    Default \in Keys /\ E!NoKey \notin Keys /\ NoSession \notin Pinnable /\ MaxPins \in Nat
ASSUME BoardAssumption == NoSession \notin Boards
ASSUME ComposerAssumption == MaxTexts \in Nat /\ MaxFiles \in Nat

\* What only the one part has; page, turn and view belong to several.
OfTranscript == <<ask>>
OfWindow == <<store, w, load, tail, live>>
OfPicker == <<served, pins, last, sent, away, disputed>>
OfBoard == <<srv, board, loads, saves, polls>>
OfComposer == <<box, media, uploads, running, busy, posts, cancels, text, file>>
OfRendering == <<answer, final, nodes, bundle, theme, config, drawing, redraw, crossed>>

vars == <<part, moves, page, turn, view, OfTranscript, OfWindow, OfPicker, OfBoard, OfComposer,
          OfRendering>>

NoTranscript == ask = Off
NoWindow == store = Off /\ w = Off /\ load = Off /\ tail = Off /\ live = Off
NoPicker == served = Off /\ pins = Off /\ last = Off /\ sent = Off /\ away = Off /\ disputed = Off
NoBoard == srv = Off /\ board = Off /\ loads = Off /\ saves = Off /\ polls = Off
NoComposer == /\ box = Off /\ media = Off /\ uploads = Off /\ running = Off /\ busy = Off
              /\ posts = Off /\ cancels = Off /\ text = Off /\ file = Off
NoRendering == /\ answer = Off /\ final = Off /\ nodes = Off /\ bundle = Off /\ theme = Off
               /\ config = Off /\ drawing = Off /\ redraw = Off /\ crossed = Off

Init ==
    \/ /\ part = "transcript" /\ T!Init /\ view = Off
       /\ NoWindow /\ NoPicker /\ NoBoard /\ NoComposer /\ NoRendering
    \/ /\ part = "window" /\ H!Init /\ page = Off
       /\ NoTranscript /\ NoPicker /\ NoBoard /\ NoComposer /\ NoRendering
    \/ /\ part = "picker" /\ E!Init /\ turn = Off /\ view = Off
       /\ NoTranscript /\ NoWindow /\ NoBoard /\ NoComposer /\ NoRendering
    \/ /\ part = "board" /\ B!Init /\ page = Off /\ turn = Off
       /\ NoTranscript /\ NoWindow /\ NoPicker /\ NoComposer /\ NoRendering
    \/ /\ part = "composer" /\ C!Init /\ page = Off /\ turn = Off
       /\ NoTranscript /\ NoWindow /\ NoPicker /\ NoBoard /\ NoRendering
    \/ /\ part = "rendering" /\ R!Init /\ page = Off /\ turn = Off /\ view = Off
       /\ NoTranscript /\ NoWindow /\ NoPicker /\ NoBoard /\ NoComposer

Next ==
    /\ UNCHANGED part
    /\ \/ /\ part = "transcript" /\ T!Next
          /\ UNCHANGED <<view, OfWindow, OfPicker, OfBoard, OfComposer, OfRendering>>
       \/ /\ part = "window" /\ H!Next
          /\ UNCHANGED <<page, OfTranscript, OfPicker, OfBoard, OfComposer, OfRendering>>
       \/ /\ part = "picker" /\ E!Next
          /\ UNCHANGED <<turn, view, OfTranscript, OfWindow, OfBoard, OfComposer, OfRendering>>
       \/ /\ part = "board" /\ B!Next
          /\ UNCHANGED <<page, turn, OfTranscript, OfWindow, OfPicker, OfComposer, OfRendering>>
       \/ /\ part = "composer" /\ C!Next
          /\ UNCHANGED <<page, turn, OfTranscript, OfWindow, OfPicker, OfBoard, OfRendering>>
       \/ /\ part = "rendering" /\ R!Next
          /\ UNCHANGED <<page, turn, view, OfTranscript, OfWindow, OfPicker, OfBoard, OfComposer>>

Spec == Init /\ [][Next]_vars

-----------------------------------------------------------------------------
\* Properties

\* A turn replayed from its stream reads as it was drawn live, but for rows of the
\* moment; nothing that arrived is left unpainted; the work stays above the answer it
\* led to; a pending row goes with its turn (addMsg to endTurn of app.js).  Excepted: a
\* turn spoilt by an undone send or a covered echo, what a lost turn leaves until the
\* next one, and a view torn by the late news of another turn (app.js, 1451-1458).
TranscriptFaithful == part = "transcript" => T!TranscriptFaithful

\* The window is a gapless stretch of the stored rows, and its two cursors reach all
\* the others, but for a refresh that an older page overtook (app.js, 1800-1966).
WindowFaithful == part = "window" => H!WindowFaithful

\* The next send names an endpoint of the list, and the one its conversation is
\* pinned to (app.js, 640-773).
PickerFaithful == part = "picker" => E!PickerFaithful

\* The board polls once at a time, draws only its own conversation, and lets a send
\* go only with the mode the server has (board.js).
BoardFaithful == part = "board" => B!BoardFaithful

\* Neither a draft nor a picture is lost while requests are answered late (app.js,
\* 600-632, 2150-2286, 2419-2472).
ComposerFaithful == part = "composer" => C!ComposerFaithful

\* Media are fetched once and figures wear the page's theme (app.js, 117-560).
RenderingFaithful == part = "rendering" => R!RenderingFaithful
=============================================================================
