# deepwiki in TLA+

deepwiki is a chat service over an agent library (hermes): a web UI server in
Python that runs agent turns and streams them to browsers (`webui/`), a second
server with task groups of worker agents on top of it (`complex/`), a browser
client in plain JavaScript (`webui/static/app.js`, `complex/static/board.js`), a
login service in Go (`authd/`), a code and document index (`lance-mcp/`), and a
diagram tool the agents call, Archify (`webui/hermes/skills/diagram/archify/`), a
Node program of its own. This directory holds TLA+ specifications of the parts
whose correctness depends on the order in which threads, requests, callbacks,
processes and failures meet, and of the checks by which the diagram tool accepts
or refuses a document; the TLC runs that check them on small instances; and TLAPS
proofs of safety properties of eleven of them.

Every definition follows the code; where a comment or a document says something
else, the specification follows the code. Three such differences have a run that
exhibits them (`findings` in `PROJECT.json`); the others met while modelling are
described in section 5, and the properties that hold say which of them they except.

How to run, inside this directory: `tlc -workers 2 -config X.cfg M` checks module
`M`, `tlapm M.tla` checks proofs. `PROJECT.json` lists the runs, maps every
definition to the source lines it models, and lists the hazards.

## 1. The system

### What talks to what

    browser tab --POST start/stop/approve/delete--> HTTP routes --> TurnManager --> _TurnPool worker
    browser tab <--SSE-- write_stream <-- TurnStream (one per turn) <-- EventSink <-- hermes agent
    browser tab <--SSE-- write_session_stream <-- TurnManager.publish (control channel)
    hermes process registry --completion_queue--> dispatcher thread --> TurnManager.start(internal)
    complex server: the same, plus Kanban board (SQLite) <--> workers (subprocesses), notifier, tick
    board.js --GET/POST mode, poll task groups--> complex server
    agent --shell--> archify CLI --spawns--> renderer, checker, Chrome, delivery child of the preview
    archify check-update (any number of processes) <--cache directory--> one another; --HTTPS--> release manifest

Threads of the web server: one per HTTP request (an SSE response keeps its thread
for as long as the tab listens), the workers of `_TurnPool`, the tool threads
hermes itself starts inside a turn (they emit into the same `TurnStream`), the
completion dispatcher, the reaper that calls `forget_finished`, and an MCP
recovery thread. They share the `TurnManager` (one lock), each `TurnStream` (one
condition), the `AgentPool` (one lock), the approval state of hermes, and the
session store (SQLite).

The browser runs one thread, but every `await` is a place where the reader may
have opened another conversation, another tab may have logged in as somebody else
and another answer may have overtaken this one. The page guards itself with
generation counters, with the stream a frame came on, and with the login a request
was made under. Archify's processes share nothing but files: they agree by
creating and renaming directories, and a process may be killed between any two of
those calls.

A conversation is not one session id. When hermes compresses the context it
continues under a new id, whose row points to the old one; the turn's next frame
tells the manager, which re-keys what it holds. A route object ties the ids of
one conversation together.

### Inventory

| Component (code) | State it keeps | Operations | Correct when |
|---|---|---|---|
| Turn event log and its SSE writers (`webui/turn_stream.py`, `webui/sse.py`) | bounded deque of numbered events, `running`, `session_id`; per connection a cursor and a pending list | `emit`, `finish`, `after`, `gap_before`, `wait`, `_check_rotation`; `resolve_cursor`, `write_stream` | every view is replayed in order, nothing twice, losses only by eviction and announced, everyone is told the end |
| TurnManager (`webui/turns.py`) | `_streams`, `_live`, `_routes` (tip, endpoint, aliases), `_forgotten_sessions`, `_last_error`, ownership | `start`, `_rotated`, `_run_turn`, `forget_finished`, `forget_sessions`, `running_on`, `last_error` | one reply per conversation, endpoint capacity, a running turn can always be found, deletion only of idle conversations |
| Background completions (`webui/turns.py`) | per route the pending events and their ids, `_delivered_completions` | `_queue_completion`, `_pending_routes`, `_dispatch_pending_completions`, `run_completion_dispatcher` | each exit resumes its own conversation once, in order, never a deleted one, and eventually |
| EventSink (`webui/turn_stream.py`) | open tool rows, output buffers | `tool_start`, `tool_complete`, `text`, `reasoning` | each completion closes the row of its own call |
| Worker pool `_TurnPool` (`webui/turns.py`) | queue, workers, `_busy` | `submit`, worker loop, idle exit | an admitted turn gets a worker |
| AgentPool and `run_turn` (`webui/hermes_agent.py`) | LRU cache of agents by session, running agents by stream | `acquire`, `rename`, `evict`, `note_running`, `clear_running`, `interrupt` | a turn runs on an agent nobody else uses, Stop reaches it |
| Approvals (`webui/turns.py`, hermes) | per session key a hook and a queue of blocked requests | install, notify, resolve, release, cancel | no tool waits forever, an answer goes to the request shown |
| Control channel (`webui/turns.py`, `webui/sse.py`) | subscribers per session | `subscribe`, `publish`, `write_session_stream` | a tab learns of turns it did not start |
| HTTP routes and server shell (`webui/app_routes.py`, `webui/main.py`, `webui/http_shell.py`) | none of their own | validation, calls into the manager and the store | multi-step requests (delete, start) keep the rules across their steps |
| Session store API, history paging (`webui/hermes_session_api.py`, `webui/history_paging.py`) | hermes' SQLite rows | lineage, rename, delete, pages by cursor | pages join without hole or repetition while rows are added |
| Tool budget (`webui/tool_budget.py`) | characters left per wave, the last 32 waves | `take`, `shrink` | parallel calls of a wave share one budget |
| MCP recovery (`webui/mcp_resilience.py`) | names of servers not connected | retry loop | every server ends up connected, shutdown ends the loop |
| Artifacts and media (`webui/artifact_store.py`, `artifact_http.py`, ...) | files, `.pending` marks, objects in S3 | mark, conditional PUT, verify, unlink, retry | the local file goes only when the object is complete |
| Authentication (`webui/auth.py`) | JWKS cache | verify a signed token | - |
| Browser: feeds, lists, opening (`webui/static/app.js`) | `S` (id on screen, focus stream, generation, live map), one EventSource per turn, the control channel | `attach`, `apply`, `loadSessions`, `openSession`, `newSession`, send, `boot` | rows, focus and live marks belong to the conversation and the login on screen; no turn is missing after an opening |
| Browser: transcript and history window (`app.js`) | `#messages`, the open segment, tool rows, task card; `messageWindow`, page and tail requests | `addMsg`, `appendToken`, `toolRow`, `endTurn`; `loadMessagePage`, `refreshMessageTail` | what was drawn live is what a replay draws; the window has no hole and every stored row can be reached |
| Browser: composer, endpoint picker, rendering (`app.js`) | draft, picture, posts; pins per conversation, last choice; nodes, figures, theme | send, upload, Stop; pick, list, rename; `renderMD`, `renderMermaid`, `restyleMermaid` | no draft or picture is lost, a send names the pinned endpoint, media are fetched once |
| Browser: task-group board (`complex/static/board.js`) | mode and lock of the conversation on screen, a poll | `loadMode`, `chooseMode`, `refresh`, `toggle` | one poll at a time, only the own board is drawn, a send carries the server's mode |
| Archify: update check (`scripts/check-update.mjs`) | a cache directory: operations, `active-claim`, retired claims, committed states | `check`, `acknowledge`: reserve, claim, lease, fence, commit | acknowledgements last, nobody is told twice, one call asks the server at a time |
| Archify: command line, publication (`bin/archify.mjs`) | arguments; staging directory, targets, backups | nine commands; `deliver`, `compare`, `migrate` | a line is refused or obeyed whole, one report; all of the files are replaced or none |
| Archify: preview (`bin/preview.mjs`) | source hash and epoch, child, artifact, page | watch, build, publish, stop | the page shows a verified render of what the source holds |
| Archify: visual check (`bin/visual-check.mjs`) | Chrome, pending commands, sidecar files | inspect, capture, receipt, close | the receipt vouches for the artifact it names |
| Archify: output paths (`renderers/shared/output-path.mjs`) | the file system | resolve, compare, write | no output replaces an input or another output |
| Archify: architecture comparison (`delta/architecture-delta.mjs`) | rows of changes, the drawing, the player | compare, draw, self-check, play | the rows rebuild the head from the base and the page carries what they say |
| Archify: document checks (`renderers/shared/engineering-profiles.mjs`, `repository-evidence.mjs`, ...) | the document, a local checkout | guided views, ids, ownership; sources at a revision | an accepted document means what its profile and its evidence say |
| Archify: architecture routing (`renderers/architecture/render-architecture.mjs`, `renderers/shared/geometry.mjs`) | ports, routes, problems | place, route, gate | an accepted drawing hides no arrow behind a box or along a border, and keeps other arrows off a label |
| Archify: workflow compiler, other renderers, tables | none | layout and drawing of the other diagram kinds | - |
| Task groups (`complex/swarm.py`) | Kanban board, settings files | `create`, `reassign`, `cancel`, `tick`, mode of a conversation | creation is all or nothing, a worker runs only in a complete group |
| Coordinator, session agents (`complex/coordinator.py`, `session_agent.py`) | agents by mode | acquire by mode, scoped tools | a reply runs in the conversation's mode |
| Run-time extensions (`complex/budgets.py`) | requests and decisions as task comments | request, resolve | one grant per request, only to the run that asked |
| Publication notifier (`complex/notifications.py`) | cursor per subscription | route, deliver, advance | every publication announced, repeats only after failure |
| Bounded commands (`complex/command_timeout.py`, `worker_runtime.py`) | a process group and its deadline | launch, owner watch, signals, kill | nothing outlives its deadline or its owner |
| Worker runtime, clocks (`complex/request_timeouts.py`, `native_*.py`) | patches over hermes | adapters | - |
| Complex server (`complex/main.py`) | loop threads | dispatch, notify, routes | - |
| authd (`authd/`) | OAuth states and authorization codes (SQL), signing key | login, authorize, callbacks, exchange, expiry | a code or state is honoured once, in time, by its own browser and host |
| lance-mcp (`lance-mcp/`) | LanceDB tables | ingest, replace, search | a re-ingest replaces exactly its own corpus |
| Deployment (`k8s/`, `docker/`, `general/`) | - | scripts, manifests | - |

### What is hard here

* A reader and a producer meet on a log that evicts: the cursor of a connection
  is stale as soon as it is read, its pending list is fixed before it is written,
  and the end of the turn is signalled twice (an event and a flag).
* Session ids rotate under everything that is keyed by them: admission, capacity,
  Stop, the sidebar, approvals, completions, deletion, and a tab that still shows
  the old id.
* The dispatcher takes and drops the lock several times per event, and any of
  start, rotation, finish and deletion fits between two of its steps.
* Deletion is three steps (look, retire, delete rows) and only the middle one is
  locked.
* A turn that has finished is not over: it unwinds (approvals, agent) while its
  conversation already accepts the next turn.
* In the browser every answer may be late: a list that left the server before a
  turn started arrives after the push that announced it, a history page after
  another conversation was opened, an upload after its picture was replaced.
* Whether a turn still runs and what the history holds are two questions; a turn
  that ends between them must not fall between the answers.
* Tokens are painted one animation frame after they arrive, and a page row, a
  replayed row and an optimistic echo may all stand for the same message.
* Processes that share only a directory decide by `mkdir` and `rename`; one that
  stalls past its lease goes on as if it still held it.
* A publication of two files is two renames; the second, the rollback or the
  process may fail between them.
* Timers race with what they guard: the debounce of the preview with an edit, the
  grace period of its child with its exit, the visual check's load timer with the
  navigation it belongs to.

The full list, at the lines where each bites, is `hazards` in `PROJECT.json`.

## 2. The modules

| Module | Models | Checked by | Proved in |
|---|---|---|---|
| `TurnDelivery` | what a turn's log promises its readers; abstract | `Delivers` of run TurnStream | `TurnStreamProofs` |
| `TurnStream` | log, writers, browser views | TurnStream | `TurnStreamProofs` |
| `TurnManager` | admission, rotation, retirement, delete route | TurnManager, TurnManagerTaken, TurnManagerEarly | `TurnManagerProofs` |
| `Completions` | dispatcher thread among users, rotations, deletions | Completions, CompletionsServed | `CompletionsProofs` |
| `Approvals` | permission requests: hook, queue, card, answer, teardown | Approvals | `ApprovalsProofs` |
| `BrowserFeeds` | which conversation is on screen, whose frames are painted | BrowserFeeds, BrowserReload | `BrowserFeedsProofs` |
| `Transcript` | how a turn is drawn, echoed, replayed, lost | BrowserParts | `BrowserPartsProofs`, `TranscriptTerms`, `PartsTerms` |
| `HistoryWindow` | the stored rows on screen, paging, tail refresh | BrowserParts | `BrowserPartsProofs` |
| `EndpointPicker` | which endpoint the next send names | BrowserParts | `BrowserPartsProofs` |
| `Board` | mode and panel of the task groups | BrowserParts | `BrowserPartsProofs` |
| `Composer` | draft, picture, send, Stop | BrowserParts | `BrowserPartsProofs` |
| `Rendering` | artifact links, media, diagrams, theme | BrowserParts | `BrowserPartsProofs` |
| `BrowserParts` | the six parts of the page above, side by side | BrowserParts | `BrowserPartsProofs` |
| `UpdateCheck` | processes that share the update cache | UpdateCheck | `UpdateCheckProofs` |
| `Preview` | live preview: watch, build, publish, stop | Archify | `ArchifyProofs` |
| `Publish` | how deliver, compare, migrate replace files | Archify | `ArchifyProofs` |
| `VisualCheck` | Chrome behind pipes, captures, receipt | Archify | `ArchifyProofs` |
| `OutputPath` | where a command may write | Archify | - |
| `Commands` | arguments, refusals, reports | Archify | `ArchifyProofs` (reports) |
| `Delta` | comparison of two snapshots and its player | Archify | `ArchifyProofs` (rows, player) |
| `Ownership` | guided views, ids, deployment profile | Archify | `ArchifyProofs` |
| `Evidence` | references into a repository | Archify | `ArchifyProofs` |
| `ArchifyParts` | the seven parts above that are proved about, side by side | Archify | `ArchifyProofs` |
| `Geometry`, `Routing` | routes and gates of an architecture diagram | Archify | - |

The MC modules hold the instances: capacities and symmetry in `MCTurnManager`,
`MCCompletions`, `MCApprovals`, `MCUpdateCheck`, the ids and their chains in
`MCBrowserFeeds`, the logins of the board's conversations in `MCBrowserParts`.
`BrowserParts` and `MCArchify` each put several parts that share no state into one run:
a behaviour picks its part in the first state and stays with it. `BrowserParts` and
`ArchifyParts` have the constants and the variables of all their parts by name (`moves`
serves several, in `BrowserParts` also `page`, `turn` and `view`; the variables of the
other parts stay `Off`); the parts of `ArchifyParts` that judge an input keep their
variables in common slots, `x1` to `x6`. `MCArchify` adds two more of these,
`OutputPath` and `Routing`. Nothing is composed there: a property of such a run speaks
of the states of one part only. `MCArchifyInputs` holds the input sets of the parts that
judge an input (documents, drawings, command lines, file systems, repositories,
snapshots).
Operators whose comment begins "Mutant of" are faulty variants of the definition
below them; the `mutants` of `PROJECT.json` pair each with the property that
refutes it. They are part of no specification.

### TurnStream

State. The deque always holds consecutive numbers, so two counters stand for it:
it holds `dropped+1 .. seq`. `endAt` is the number of the terminal event,
`running` the flag. Per reader: `pc` and the locals of `write_stream` (`cur` is
`after`, `pending` the not yet written part of the list), and the browser's side:
`got` (Last-Event-ID), `told`, `gap`, plus the history `base`, `missed` of the
connection.

Actions. `emit`, `finish_emit`, `finish_close` are the producer; `finish` is two
steps because it emits the terminal event before it lowers `running`, and writers
look in between. `GapCheck`, `Drain`, `Write`, `Check`, `Recheck`, `Wake`,
`Keepalive` are the loop of `write_stream`, cut wherever the thread can be
overtaken. `Attach`, `Cut`, `Reload` are the browser and the network.

What is checked. `ToldLast`: a view told of the end has everything up to it
behind it. `HonestGap`: a gap frame is never a false alarm. `Delivers`:
refinement of `TurnDelivery`. `EveryReaderTold`: every attached view is
eventually told, however often its connection breaks.

Fairness. The turn ends (`_run_turn` finishes its stream on every path, and
threads that run are scheduled): WF of `finish_emit` and `finish_close`. A request
thread runs, and an EventSource reopens a lost connection: WF per reader of
`Serve \/ Keepalive`. `Cut` and `Reload` owe nothing; they are bounded by
`MaxCuts`, `MaxReloads`, without which a network that always breaks would never
deliver.

Bounds of the run: one reader (readers share nothing but the log, and the proofs
hold for any set), a backlog of 2, six events so that the deque wraps several
times, two cuts, one reload.

### TurnManager

State. `_streams`, `_live`, `_routes`, `_forgotten_sessions`, `_last_error` as in
the code; a route is named by the turn that created it and split into `tip`,
`routeEp`, `aliases`. Per turn its `stage`
(new, queued, armed, ended, closed, unwinding, settled), `home` (the id it was
started with), `sid` (the id its frames carry), endpoint, outcome, finishing
time. hermes and its store: `minted`, `parent`, `rows`, `agentSid`.

Actions. `Admit` is `start` under the lock, for its three callers (`StartNew`,
`StartUser`, `StartInternal`). `Begin`, `FailEarly`, `FinishRun`, `Close`,
`RecordError`, `Settle` are `_run_turn` step by step; `Rotate` is hermes,
`Notice` the frame that reports it (`_rotated`). `forget_finished` is the reaper.
`Delete` and `DeleteRows`/`DeleteFails` are the route of
`POST /api/session/delete`, before and after the point where the lock is dropped.

Simplifications. Ownership by user is left out: every operation asks for it first
and it only refuses. The bound on `_last_error` (200 entries) is not modelled.
Two turns that finish at the same clock reading are not: the clock is logical.
Reading the agent's id and reporting a rotation are one step (two threads of one
turn reporting two rotations out of order belong to a later module). The delete
route's own look at `running` before `forget_sessions` is subsumed by the test
inside it. One deletion is in flight at a time.

What a client may name. A tab names ids a start or a frame gave it. The sidebar,
however, is read from the store, where a rotated id appears before the manager is
told of it, and `EarlyNames` (TRUE in the main run) lets clients use such ids. A turn
started under one slips past `taken` and past the count of its endpoint, and the late
news of the rotation then takes its place in `_live`. The history variable `early`
holds these turns; nothing but the properties reads it. `CapacityNeverExceeded`, the
unrestricted claim of the comments, is what TurnManagerEarly refutes.

What is checked, of every turn but an early one. `RunningIsLive`: a running turn is
always found under the id its frames carry. `EndpointCapacity`: no endpoint runs more
such turns than it admits, although the code counts over a map that rotations re-key
and the reaper prunes. `RouteIntegrity`: every id a conversation ever had leads to the
same route until the whole conversation is deleted (an id an early turn was started
with may lead to another). `TombstonesAreIdle`: a deletion, even one whose lineage read
failed, never retires an id of a conversation that replies.

Bounds: three session ids (a conversation and two rotations, or a conversation
and a rotated other), two turns, two endpoints of capacity one and two, the
reaper keeping one. TurnManagerEarly needs three turns and two ids; with these and
`EarlyNames` the invariants were checked once too (6.2 million states, three minutes).

### Completions

State. Conversations as in `TurnManager`, reduced to what the dispatcher can tell
apart: one endpoint, no store rows, per id the stage of the turn `_live` holds and
how many unwinding turns it has displaced (`shed`), a rotation that reaches the
manager at once. hermes' registry: each process, the session key captured when
it was started, whether its exit was consumed, and the completion queue. The
manager's `pending` (events and ids change together everywhere in the code: one
sequence stands for both) and `delivered`. The dispatcher's `pc` and locals. The
histories `filed` and `resumed`.

Actions. `Get`, `Vet`, `File` are `completions.get` and `_queue_completion` before
and under the lock; `Scan` is `_pending_routes`; `Look`, `Ask`, `FormatFails`,
`Call`, `Resume`, `Refuse`, `Pop` are `_dispatch_pending_completions`, one per lock region or
question to the registry; `Call` is the reading of `route.session_id` for `start`, without the
lock (turns.py:805), so that a rotation or a deletion may come between it and `start`. Around it `UserStart`, `Rotate`, `Finish`, `Settle`,
`forget_sessions`, `Spawn`, `Exit`, `Repeat`, `Consume`.

Simplifications. Malformed events and events without a process id are dropped by
the code before any of this and are not modelled. The set of delivered ids is not
bounded to 4096 here (the code then evicts an arbitrary element; hazard list).

What is checked. `ExactlyOnce`, `ArrivalOrder`, `NoResurrection` (an injection
goes to the existing conversation that started the process, even if its id was
deleted and brought back by a user between the dispatcher's look and its start),
`NotLost`, and `Served`: nothing waits forever behind a running turn, a full
endpoint, an unsettled turn or a raising formatter.

Fairness of `Served`. The dispatcher thread loops while the server is up
(WF of `Dispatch`); every turn ends and unwinds (WF of `Finish`, `Settle`). Users
are bounded by `MaxStarts`: with users who always start a turn first the event may
indeed wait forever. Formatter faults are bounded by `MaxFaults`: one that always
raises keeps its event for ever by design.

Bounds: three ids, two routes, two processes, one slot, two user starts, one
repeated report, one fault; `Served` on two ids without repeats.

### Approvals

State. Of the manager `_live`, per turn its `stage` (new, queued, armed: the hook
is installed, ended, denied, settled: the two halves of the teardown), `sid`, the
pinned `key`, and `log`, the approval events its stream carries before `end`. Of
hermes' `tools.approval`, per key the registered `hook` and the FIFO `queue`; per
request its `asker`, whether its hook call is over (`notified`) and its `verdict`,
for an answered request the card the reader had pressed. Of a view: the turn on
screen (`watch`), `S.sessionId` (`at`), how much of the stream it has applied,
the docked `card` and an `answer` on its way.

Actions. `Start`, `_install_approval`, `Rotate`, `Finish`, `ReleaseQueue`,
`ReleaseHook`, `cancel` are the turn's; `Ask`, `_notify_approval`, `Expire` the
request's: hermes queues first and calls the hook after releasing its lock, so
hooks run in any order and after the request may be gone; `openSession`, `apply`,
`endTurn`, `Adopt`, `pollApprovals`, `answerApproval`, `_perm_answer` the view's.
Two turns come to share a key when one is started under the id another has
rotated away from, or while one unwinds; then one hook replaces the other.

Simplifications. How hermes' threads learn the key (contextvar, environment) and
the ownership tests of the two routes are left out; so is the option chosen, which
changes nothing here. A tool asks only while its turn is armed. A poll is one step
(a late reply could only dock a card that is stale, as the stream's own lag does),
and an empty one changes nothing. A view follows a turn by opening its
conversation. The queue is hermes', modelled as the repository's test double has it
(`tests/test_turns.py`); `Expire` is its timeout, of which the view is told nothing:
no code emits `approval_expired`.

What is checked. `Releasable`: no tool is parked where the Stop and the teardown of
its own turn cannot reach it. `NoOrphans`: nor does one stay parked when its turn
has settled. `PollFinds`: while the turn replies, a poll under its id of the moment
reads the queue the request is in, even if the announcing event was evicted or
went to another turn's stream. That the poll thereby finds a card in the end
follows from its timer (every 1.5 s) and is not stated as a liveness property.

Bounds: two turns, two ids, two requests of which one is smart-denied, one view
that opens a conversation once; turns and ids are symmetric.

### BrowserFeeds

State. `S` as in `app.js`, reduced to what decides whose frames are painted: the id
on screen, the focus stream, the view generation, whether the view is fresh, the
stream of its own send, the conversation being switched to, the live map
`streaming`, the login the page believes in. `feed` counts the frames each
EventSource has delivered; `screen` is the set of turns with a row in `#messages`;
`control` is the session control channel. Every `await` is a record in flight:
`lists`, `opens`, `posts`, `probes`, and `boot` for the time before the first list.
The server is what the tab can observe: turns that run, end, are stored or
forgotten, under ids that rotate.

Actions. `OpenSession`, `OpenStatus`, `OpenRead`, `OpenPaint` are `openSession` cut at
its awaits; `Send`, `Start`, `SendLost`, `SendAnswer` the send; `ListAnswer`,
`ListApply` the session list, `Reload`, `BootRead`, `BootList` a new page; `apply` a
frame, `Announced` a control frame, `FeedError`, `FeedProbe` a broken feed. Around
them the server starts, rotates, finishes turns, restarts, and another tab logs in.

What is checked. `OwnScreen`: no row of another conversation, whatever feeds stay
open and whatever arrives late. `FocusIsHome`: the stop button names a turn of the
conversation on screen. `MapIsHome`: a conversation is marked live by a turn of its
own. `ScopeClean`: after a list of another login was applied, nothing of the
previous one is left. `NeverMissing`: a turn the opening took for finished is in the
history it is about to paint. `Discovered`: a list that is applied to a settled view
subscribes it to the turn that runs in it, whatever push was lost.

Simplifications. A turn has two frames, one that paints and its end. Titles,
deletion and renaming in the sidebar are left out. Bounds: a conversation `a1` that
rotates to `a2` and a new one `b1`, two turns, two sends in flight, three moves of
reader or network.

`OwnScreen` has one exception, stated in it: `send` refuses only a view that owns a
running turn or is being switched (2179-2180), a fresh view owns none before its first
answer, and so a second message sent from it asks for a new conversation too (2202).
Both answers find the generation they left with (2225) and name the view (2277), the
second one after frames of the first conversation were painted there. The history
variable `twice` keeps the generation of such a view; with two sends in flight the run
reaches it, and shows (and the proof, for any number of sends) that no other way leads
to a foreign row.

### Transcript, HistoryWindow

`Transcript` is what `apply` draws: the echo of a prompt, the segment that grows and
is painted one frame later, the row of the work above the answer, tool rows, the
task card, the pending row; sends that are refused or fail; a conversation that is
left and reopened in the middle of a turn, which is then replayed. Texts are
lengths. `ReplayFaithful` compares what is on screen with what a replay of the
turn's events into an empty view draws: nothing twice, nothing missing.
`NothingUnpainted`, `WorkAbove`, `PendingHonest` say that a closed segment is
painted, that the work stands above the answer it led to, and that at most one
pending row exists, and none under no turn. Rows read back from the store are
`HistoryWindow`'s and are not drawn here.

`Aside` is a row of the moment: `answerApproval` and the slash commands append one, and
so does a conversation found empty, and no replay draws it; the comparison leaves these
rows out, wherever they stand. `Vanish` takes the turn's stream from the server (a
restart, or the reaper), `StreamGone` is the page's `es.onerror` learning it
(`loseTurn`): the segment is closed and a note appended, but the pending row, the
activity row and `turnTop` stay. `es.onerror` asks and then acts on whatever view is
there (section 5): `late` is such an answer still under way after the view was reopened
or the turn was lost, and `LateNews` its arrival. The fields `lost` and `torn` of the
turn keep the two exceptions that follow: the pending row of a lost turn stays until
the next turn is on screen, and a view in which late news closed another turn promises
nothing until it is reopened. Two more, kept by `spoilt`: a view whose last row was taken
by the undo of a send made elsewhere, and a prompt drawn twice because an announced
turn covered its echo; a lost turn, and one announced right after it, are spoilt too.
One restriction: the page learns that a stream has vanished before the conversation's
next turn begins (the guard `~turn.attached` of `NextTurn`). Bounds: five events over
two turns, one tool id, two moves.

`HistoryWindow` is the stored part: `loadMessagePage` in both directions,
`refreshMessageTail` when a turn ends, reopening, and scrolling, with both requests
in flight together. `Contiguous`: the window is a stretch of the store without holes
or repetitions. `EarlierReachable`, `LaterReachable`: what is not in it can be paged
in or is drawn live. The latter excepts a refresh that an older page overtook
(section 5). Bounds: pages of two, a window of four, six rows at the start, two
turns, four moves: the window is filled and cut at both ends.

### EndpointPicker, Composer, Rendering

`EndpointPicker`: the list the server advertises, the choice each conversation is
pinned to (bounded, in insertion order, kept over a reload), the last-used default;
`Listed`, `Reconfigured`, `pickEndpoint`, `openSession`, `newSession`, `send`,
`sendAnswered`, `rotated`, `Reload`. `PickerFollows`: the picker shows what the
conversation on screen is pinned to, in whatever order these come. Two exceptions:
an endpoint that was withdrawn and came back, and a conversation left and reopened
before its send was answered (`disputed`, section 5). Bounds: two endpoints, three
ids, two pins, five moves.

`Composer`: a draft and a picture leave the box with a send and come back when it is
refused, while the reader types, attaches, leaves or is logged out. `NeverEaten`: a
draft is in the box, on its way or accepted, or one of the listed exceptions
happened to it. `PictureKept` says the same of the picture, `TrayTrue` that the tray
is not called ready on another picture's behalf. Histories `text` and `file` record
what became of each. Bounds: two conversations, two drafts, two pictures, six moves.

`Rendering`: an answer is a sequence of items, one per shape `renderMD` tells apart
(code span, bare path, link, embed, quoted block, the reader's own picture, a
diagram that draws or does not). `FetchedOnce`: media are fetched at most once and
not before the segment is closed. `FiguresThemed`: at rest every figure wears the
page's theme, with two exceptions named there. Bounds: two items, three moves.

### Board

The mode of a conversation (`single`, or a team on a Kanban board) is loaded, chosen, locked
by the first send, and polled for. Server state per conversation and page state are
apart; each request is served at one time and heard of at another. `PollsOnce`:
either the timer runs or exactly one poll is out. `DrawnHere`: what is drawn belongs
to the conversation the board follows and to the login. `ModeTrue`: a send that may
go carries the mode the server has. `LockTrue`: what is shown as fixed is fixed.
`ModeTrue` excepts a save that failed (`doubt`) and a choice of an earlier visit
(`stray`), see section 5. The drawing of the panel is abstracted to the conversation
it shows. Bounds: two conversations of one login and one of another, five moves.

### UpdateCheck

State. The cache directory: per generation `op`, the directory of an operation, its
name (`free`, `reserved`, `pending`, `committed`, `cancelled`, `fenced`), whether its
owner file is there, whether its lease runs (`fresh`), the state it holds; `active`,
the claim that lies at `active-claim`; `retired`, the claims put away. Per process
`proc`: the place in the code, its generation, the claim it looked at, what it
fetched, the state it is about to commit, the lower operations it still has to
fence. `release` is what the manifest names. Histories: `told` and `heard`, and per
call `before`, the acknowledgements confirmed before it began.

Actions. One per file-system call another process can see: `Reserve`, `MakePending`,
`WriteOwner` reserve a generation; `Inspect`, `Retire`, `MoveAway`, `Gone`,
`Promote`, `Promoted` take the claim; `Owns`, `Fetch`, `List`, `Fence`, `Mutate`,
`Commit` do the work; `GiveWay`, `Cancel`, `Reread` are the ways out. `Crash` ends a
process anywhere, `ExpireLease` is a process that stalled, `Publish` a new release,
`Tick` a check interval.

What is checked. `NothingLost`: what was announced can be acknowledged, what was
acknowledged stays so. `NoNagging`: a call begun after an acknowledgement never
announces that release again. `SingleFlight`: two processes with a running lease
never ask the release server at once. `LiveClaimKept`: nobody puts away the claim of
an operation whose lease runs, not even a process that looked at an older claim
before. `TypeOK` includes that every committed state can be read back.

Simplifications. A digest is a number, the manifest an input; the state file's byte
limit is a bound on the digests it lists. Bounds: two symmetric processes, three
generations, two attempts to promote, one digest in the state, one tick, one move.

### Preview, Publish, VisualCheck

`Preview`: `observeSource` sees an edit, queues a stable build behind a debounce
timer, `launch` starts a child for one content and one epoch, `Delivered`, `Crashed`
and `CommitFails` are its ends, `Requeue` what happens when the source moved
meanwhile; `Load` is the page's iframe; `Stop` ends it all with a grace period and a
kill. `TellsTheSource`: at rest the page speaks of the source as it is.
`OnlyVerified`: only verified artifacts are shown, and the output file is the one
served. `StopsCleanly`: once stopping nothing is published, and the staging
directory goes last. Four moves; three diagrams of which two render alike, a broken
file, a missing one.

`Publish`: `deliver`, `compare` and `migrate` each as the sequence of their
file-system steps, each of which may fail, with `Edit` and `Kill` between them.
`commitComparePair` is `Preflight`, `Backup`, `Commit`, `RollbackRemove`,
`RollbackRestore`; the verdict of the rollback is whether one of its steps failed
(`rollbackErrors`, `moved.failed`), never a look at the files. `AllOrNothing`: a success
put everything in place, made from the bytes that were read, a refusal and a rollback
that says it restored left everything. `NothingLost`: what was there lies
at its place or in a staging directory that is kept, also after a kill.
`FailureNamed`: a rollback that failed names what it could not restore. Four moves.

`VisualCheck`: `PipeCdp` keeps at most one command and one awaited event; a promise
rejected with nobody awaiting it ends the process, which is modelled (`Unawaited`,
`LoadTimeout`, `Crash`). `ReceiptTrue`: the receipt left behind is this run's, and a
verdict has every view and picture behind it. `LeavesNothing`: an answered call
leaves no Chrome, no command and no profile. The verdict over the values measured
in a view is left out. Three views, two captured, two moves.

### OutputPath, Commands

`OutputPath`: small file systems (an input, a page that may be a link to anything, a
subdirectory that may be a link, a directory outside; with and without case; with
and without permission to try case out), the requests of `loadDiagram`,
`writeDiagram` and `compare`, and what another process may change between the check
and the write. `InputsKept`, `OutputsApart`, `MetaStaysInside`, and `AliasesExact`:
`pathsAlias` says that two names are one exactly if what is written under one is read
under the other. `canonicalFuturePath` recurses over links, with RECURSIVE, so
nothing is proved about this module.

`Commands`: nine commands, lines of up to three words of every kind and longer ones
that start well. `OptionsAreNotPaths`, `NothingDropped`, `OneReport` (one JSON
document, an exit status that says the same, a failure with a reason),
`NothingLeft`.

### Delta, Ownership, Evidence

`Delta`: rows, summary, drawn states and self-check are operators; the player of the
page is the state machine. `RowsRebuildHead`: the baseline with the listed changes
applied is the current snapshot. `SummaryCounts`, `DrawnAsPromised`: the page the
tool draws is never refused by its own check. `PlayerSound`: a review that plays has
exactly one timer, and what is lit is the change under review. Pairs that differ in
one element in every way, and pairs that differ in all four; four moves.

`Ownership` asks in the order of `loadDiagram`: guided views, relationship ids, the
deployment profile. The properties are stated over the document, not over the
code's questions: `OwnedAndPlaced`, `NamedCrossings`, `LinksResolve`,
`RefusedWithReason`.

`Evidence` verifies a diagram's references one after another against a checkout:
`ReferencesExist`, `NoFalseRefusal` (lines counted as a reader counts them, over all
texts of up to four characters of which line ends matter), `SameRepository` and
`AddressKept` over https, http, ssh and scp spellings of addresses on two forges and
elsewhere.

### Geometry, Routing

`Geometry` holds boxes, routes and the gates' arithmetic in quarter pixels, so that
the halves of the code are exact; `Routing` places ports, routes the arrows in
document order (`pathFor`, `routeVia`, `sideAwareBridgeCandidates`,
`automaticPortRhythmBridge`) and asks the gates of `validateArchitecture` one after
another. The properties are stated with a geometry of their own (a line misses a box
when some line separates them): `NothingBehindABox`, `OwnBoxesKept`, `PortsApart`,
`ArrowsApart`, `BordersFree`, `LabelsReadable`, `FramesNest`. Inputs: one arrow on
every pair of sides over five placements, fans that share a side, two unrelated
arrows on authored ways, frames that nest or not. Boundary titles, text widths, the
view box, the metrics of the route budget and the merging of border overlaps are
left out; ties between ports are broken in document order.

## 3. The runs

| Run | Question | Distinct states |
|---|---|---|
| TurnStream | do writers deliver, and end, under eviction, cuts and reloads? | 43,712 |
| TurnManager | are maps, capacity and tombstones consistent under rotation, reaping and deletion? | 494,110 |
| TurnManagerTaken | one reply per conversation? No: `taken` is decided per id | violation |
| TurnManagerEarly | does capacity survive a client that names a rotated id early? No | violation |
| Completions | exactly once, in order, to the right conversation, never lost? | 600,774 |
| CompletionsServed | is every completion eventually dealt with? | 369,334 |
| Approvals | can every request be released and found, and does none outlive its turn? | 888,705 |
| BrowserFeeds | does the page stay with its conversation and login through late answers? | 2.56 million |
| BrowserReload | does a reload never miss a turn? No: its history is read before the status | violation |
| BrowserParts | do transcript, window, picker, board, composer and rendering follow the server? | 4.10 million |
| UpdateCheck | do processes that share the cache lose nothing and repeat nothing? | 1,105,380 |
| Archify | do the diagram tool's commands and pages tell the truth? | 365,177 |

Of the last run: preview 93,468 states, publication 2,898, visual check 639, output
paths 42,412, command lines 18,594, comparison 19,303, ownership 12,472, evidence
169,290, routing 6,101.

Deadlock checking is off in all runs: the systems may stop, when the turns are
over and the users idle or a command has ended, and the bounds stop them earlier.

Fairness is assumed by TurnStream and CompletionsServed only, as described above;
the modules of the browser and of Archify state safety and action properties, since
neither a reader, a network nor a killed process owes the next step.

The bound `MaxMoves` counts what the reader does and what goes wrong (edits,
faults, kills, lost connections); answers to requests that are out, callbacks and
the server's own turns are not counted, so every late answer can be overtaken by as
many moves as there are. The bounds are about the largest that check within a few
minutes; under them every action of every module is taken, and each property is
violated once a plausible bug is put into the code (`mutants` in `PROJECT.json`).

## 4. The proofs

All proofs are for every value of the constants that satisfies the modules'
`ASSUME`s, and none takes a fact on trust.

`TurnStreamProofs`. Inductive invariant `IInv`: the log's shape (once something
was evicted the deque is full), the server's cursor is the view's, a list being
written starts right after the cursor or where eviction left off, a told view is
done and has passed the terminal event, and a gap frame means the next frame is
beyond the hole. Hence `TypeOK`, `ToldLast`, `HonestGap`, and `Implements`: every
step is a step of `TurnDelivery` or a stutter (safety part).

`TurnManagerProofs`, whatever ids clients name. `EndpointCapacity` is not inductive:
it needs that running turns, early ones aside, and live ids correspond one to one
(`RunningIsLive`, `LiveInv`), which needs that nobody but an early turn holds the id a
rotation is moving to (`MovedInv`), which needs that what agents, routes and the store
know can not be minted again (`MintedInv`). The capacity argument then is one on cardinalities: the turns
of an endpoint inject into the live ids counted by `running_on`.

`CompletionsProofs`. `IInv`: what waits on a route belongs to it, once, and was
never injected; the event in hand is the first of its route or no longer waits;
what was injected is delivered, the event between start and pop apart. Hence
`TypeOK`, `ExactlyOnce`, `NoResurrection` and `NotLost`. `ArrivalOrder` compares two
histories, `filed` and `resumed`, and nothing in the code's state remembers either:
`OInv` adds that of two exits of one route that wait, the one filed earlier waits
ahead (`WaitingOrder`), behind all that was resumed, and that the exit the
dispatcher is about to resume heads its queue (`HandInv`). Then a resumption, which
always takes the head of its queue, keeps the order.

`BrowserFeedsProofs`. Nothing in the page says which turn a row or a mark stands for,
so `IInv` (in `BrowserFeeds`, checked by TLC on the run's instance first) gives every
turn a home, the conversation its ids belong to, and says of each place that holds an
id or a stream that it names its home: the view and its generation (`ViewInv`), the
focus, which has a feed and is of the conversation on screen or the fresh view's own
send (`FocusFed`), the live map and the lists on their way (`ListInv`), the control
channel (`ControlInv`), the openings at each of their awaits (`OpenInv`: the
generation they carry is the view's only if the view is still the one they left), a
stream dropped as finished (`DropInv`), sends (`PostInv`), the reload (`BootInv`), and
the login all of these were made under (`ScopeInv`). Hence `TypeOK`, `FocusIsHome`,
`MapIsHome`, `ScopeClean`, `NeverMissing` and, as an action property, `Discovered`.
`OwnScreen` needs `ScreenInv` besides, of any view but one that sent twice before it had
an id: a send from a view with an id is to the view's conversation, one without an id
has a single send, and the rows of a view with an id are of turns at home there. The theorems hold for any conversations, chains of ids,
turns and moves.

`BrowserPartsProofs` has one section per part, each with the part's `IInv` (at the end
of its module; TLC checked each on a larger instance first) and a theorem about the
property of the run, for every value of that part's constants. `WindowHolds`:
`LaterReachable` needs that the rows a running turn will store are drawn (`LiveInv`),
that the window keeps the row a page was asked for from and that what the page leaves
out is drawn (`LoadInv`), and that a refresh reads all there is (`TailInv`).
`PickerHolds`: only withdrawn endpoints are missing from a list (`ListInv`), and the
pins, a bounded sequence in insertion order, change for the conversation pinned and
forget only the oldest (`PinSet`). `BoardHolds`: requests carry the generation they
were made under; of those of the present one, a load's answer is what the server has
(`LoadInv`), a save is of the choice shown (`SaveInv`), and there is one poll or the
timer (`PollInv`); the board follows the view but for a draft just sent (`ViewInv`).
`ComposerHolds`: a draft is in one send at most (`SentOnce`). `RenderingHolds`: what is
being drawn is drawn in the page's theme or noted as crossed (`DrawingInv`), and a
figure wears it or is due to be drawn again (`ThemeInv`).

`TranscriptHolds`, in the same module with its vocabulary in `TranscriptTerms` (that of
the other parts is in `PartsTerms`), is the longest proof here. `ReplayFaithful`
speaks of what a replay of the whole log draws, and nothing about a recursive function
can be proved by induction over the log. So the induction is the one over the
behaviour: the log grows by one event at a time, and `ReplayInv` says that there is a
function `f` that starts with an empty view and draws event after event, and that of
any such `f` the view `f[pos]`, what the replay shows at the event the page has read up
to, is followed by the page (`FollowInv`). Followed means (`Same`, `Follows`) that a
bijection takes the rows this turn has drawn on the page to those of the replay, keeps
their order and what they say, and takes the open segment, the activity row, the first
answer and each tool's row to one another, none of them to a row of an earlier turn or
to one that is gone (`Refers`). What keeps that from being inductive is everything else
on the page: rows of earlier turns and the echo of a prompt which may be refused and
taken away again lie outside the bijection (`Mine`, `Echo`, `AskInv`), a turn may begin
under its own echo before its first event is read (`Echoed`), and a turn nobody reads is
either undrawn or read to its end. `PageInv` is the invariant of one view (numbers of
rows are new, closed segments are painted, `turnTop` is the first answer of the turn),
`LogInv` that of a log (a prompt can only come first, an end only last, and only a log
whose stream is gone may stop without one). A view that late news has torn keeps next to
nothing of this: `TornInv` is what reopening it needs, and until then
`TranscriptFaithful` claims nothing. TLC checked all of it on a larger instance first;
the theorem holds for every number of turns, events, tools and moves. To be proved
about, `Transcript` finds rows by their places rather than by filtering the sequence,
and writes out the two operators on sequences it needs, so that the rest of
`SequencesExt` is not in the scope of every step.

`ArchifyProofs` does the same for seven parts of Archify, the three processes with TLC
on a larger instance first. `PreviewHolds`: a build that carries the present epoch is of
the source that is queued and no other build is due (`ChildInv`), the artifact that is
kept is the last one verified and of the good source (`KeptInv`), and with no build and
no timer the status is about what is queued (`RestInv`). `PublishHolds`: before the pair
is moved nothing has been touched (`UntouchedInv`), and while it is moved (`MovingInv`)
each target lies in its place or in the backup, and whoever has a backup is on the list
of the rollback or named for recovery, and without a failed step what was not there is
not there again (`TargetInv`); so the end of the rollback, whichever of its renames
fail, loses nothing, and one without a failure restored everything. `VisualHolds`: a command is out only at a
step that awaits one, and an answered call is past all of them (`BrowserInv`); the views
before the present one are seen and exactly their pictures taken (`ProgressInv`).
`OwnershipHolds`: what was asked so far and found no problem holds of the document
(`AskedInv`); what a private boundary holds lies in one region because all of it
together does (`OneRegionInside`). `EvidenceHolds`: every reference before the present
one was found in the checkout (`VerifiedInv`), a refusal is about the one before
(`RefusedInv`); that the code's count of lines, by the line ends, is the number of
places where a line starts is a bijection between the two (`LinesCounted`), and that an
address shown is the one declared goes through forms of four kinds. `ReportsHold`:
`StepInv` says what a run has printed where it is, and the last step prints at most one
word (`EndReports`). `ReviewHolds` has two halves. The rows are complete: the numbers of
changes before a change are those below the number of changes, each once
(`RanksAreNumbers`, an injection between finite sets of one size), so each change has
one row (`RowsAreChanges`); what has no row differs in no field (`UnlistedAreSame`); so
the rows rebuild the current snapshot (`RowsComplete`). The player: its one timer is the
one it holds on to, for the row it shows (`PlayInv`). To be proved about, `Delta` gives
each row its number by the changes before it instead of by `SortSeq`, which the prover
takes as given without a definition.

Assumed of the constants: "none" is no source, every source has its artifact, there is a
view, and the captured views are among the numbered ones; a document has finitely many
boundaries; addresses, references and texts have the shapes the modules' comments say;
an entity of a snapshot has all the fields of its kind. The theorems, `PartsHold` among
them, speak of `PartSpec`; the run adds `OutputPath` and `Routing`, in other states, and
narrows the pairs of claims and checkouts it tries.

`ApprovalsProofs`. `Releasable` alone is not inductive: taking the head or one entry
out of a queue must leave no second copy behind and no other request released, so
`IInv` (in `Approvals`) says that each queue holds exactly the requests waiting
under its key (`Waits`, `Only`), once (`Distinct`), that a request's turn has pinned
its key and is armed or ended, and that a replying turn is the live one of its id,
which leads the poll from the id to the key. Hence `TypeOK`, `Releasable`,
`NoOrphans`, `PollFinds`. `Without`, the removal by identity, has a lemma of its own
(`WithoutKeeps`).

`UpdateCheckProofs`. `NothingLost` depends on who may still commit, so `IInv` (in
`UpdateCheck`) says: a call past its reservation has a generation nobody else has
(`Alone`, `Claimed`); a claim seen releasable stays so and is put away at most once
(`Holds`); of two calls that could both commit, the one with the higher generation
still has the lower one on its list of operations to fence (`Listed`, `Emptied`),
and nothing is committed above a call that may still commit (`Highest`); and what is
about to be committed contains what is read, so states only grow (`Grows`). With
`NothingLost` and `NoNagging` themselves this is inductive. A call that fetches under
a running lease owns the active claim: hence `SingleFlight`; only `MoveAway` removes
a claim, and it removes the one that was seen releasable: hence `LiveClaimKept`.
Steps that commit nothing and leave the claim alone share one frame lemma
(`Steady`). The highest committed generation exists by well-foundedness
(`MinExists`, `MaxExists`). The theorems hold for any set of processes and any
bounds, crashes and expired leases anywhere.

Only model-checked: `EveryReaderTold`, `Served` (liveness under fairness is out of the
prover's reach, as is ENABLED); `InputsFaithful`: where the outputs of a command fall
(`OutputPath` recurses over links and directories), which arguments are used (folds over
the line), that a comparison counts and draws what it lists (folds over sequences of
tags), and the gates of `Routing` over polylines are induction over data; every
violation. What `Lineage` computes (recursion over the parents) is only evaluated by
TLC: the proofs treat it as some set of sessions.

## 5. Findings

Three places where comment and code part are runs, with source lines and quotations
in `PROJECT.json`: two replies in one conversation after a rotation
(TurnManagerTaken); capacity overrun through an id seen in the store before its
rotation is reported (TurnManagerEarly); a reload that misses a turn which ended
between its history and its status question (BrowserReload).

Other differences met while modelling, which the properties above except by name or
leave aside:

Server.
* The gap test runs once per connection (`sse.py:83`): a hole that opens behind a
  slow reader while the connection lasts is not announced, although
  `turn_stream.py:22-24` promises it.
* A failure is recorded under the id the turn started with (`turns.py:690`), and
  looked for under the id of the moment (`turns.py:913`).
* A turn started between retiring and deleting loses its rows (`app_routes.py:521`
  against `503-504`).
* The dispatcher's wait for teardown looks at the turn `_live` holds
  (`turns.py:789`); one it has displaced may still unwind (`362-365`).
* An answer to a permission card resolves the head of the queue
  (`app_routes.py:608`), which need not be the request on the card
  (`turns.py:472-473`).

Browser (`app.js` unless noted).
* A fresh view does not own its first send until it is answered: a second one goes
  out (2179-2180), and both answers name the view (the exception of `OwnScreen`), although
  1301-1303 promises that no stream paints into another's transcript.
* `es.onerror` asks about the broken stream and lowers `busy`, closes the segment and
  appends its note in whatever view is there when the answer comes (1442-1458). And it
  does not call `clearPending`: the pending row of a lost turn stays.
* `openSession` deletes the live mark of its conversation when the stream it knew is
  over (2029); by then it may be a newer one.
* A prompt is drawn twice when a background turn is announced while its send is out:
  the announced turn takes the mark that the echo is there (864-871).
* A stop on its way in one conversation makes Stop in another do nothing (1510,
  1538), while the button's title offers it (1588).
* A tail refresh that an older page overtakes is dropped (1928-1929); the rows of the
  finished turn are then neither live nor reachable by a later page.
* The answer to a send without a picture clears one picked meanwhile (2236, 2254).
* A draft refused after the reader left is given back only if the server was busy
  (2232).
* A theme change with no figure on the page is not told to mermaid (533-536), and a
  bundle that failed to load once is never asked for again (408).
* A late answer to a send pins its endpoint over a newer pick, and when the
  conversation was left and reopened meanwhile the picker does not follow (2238);
  a new conversation keeps the endpoint of the one that was left.
* An answer of blanks only is removed again and the work then stands below what
  follows; a failed send takes the last prompt of whatever view is there.
* `board.js`: a save made in an earlier visit is stored after the conversation was
  reopened and its mode loaded, and a send after a failed save tells the server the
  mode the page shows.

Archify.
* `visual-check`: when a navigation hangs, the 15 s timer of the awaited load event
  rejects a promise nobody awaits yet, and the process dies without a receipt
  (`visual-check.mjs:352-354`; `references/delivery-contract.md:74` promises exit 1
  and a receipt with status "fail" for a runtime error). `ReceiptTrue` speaks of
  answered calls only.
* Architecture routing: with one box above the other and both ends authored `top`,
  the last resort of `routeVia` runs through the arrow's own box, and every gate
  accepts (`render-architecture.mjs:899-903`; `geometry.mjs:335-337` exempts the
  boxes an arrow joins). `OwnBoxesKept` is therefore stated for arrows whose sides
  the renderer chooses.
* Comparison: symbols of the current element are placed where the baseline's was
  drawn; clicking Pause when its button had lost the focus before stops and restarts
  the review.
* Options are extracted in two passes, so `--repo-root --quality=standard dir` is
  accepted with `dir` as the root; an address that ends in `.git.git` is not left as
  it is by a second normalisation; the crossing gate of the architecture renderer
  does not merge waypoints on one line; components inside a frame they do not belong
  to are not reported.

## 6. Not modelled, and the plan

Not modelled, with the reasons per component in `PROJECT.json`. In this order, each
with its type invariant, safety properties and, where stated, proofs:

1. `TurnRun`: AgentPool, `_TurnPool`, Stop and the control channel around one
   another (Stop before the agent is registered; two acquires that both build; the
   cache renamed after the lock of `_rotated` is released; a submit behind a turn
   that waits for a permission). Proof of type and of agent ownership.
2. `SessionRotation`: two threads of one turn emitting across two rotations, id
   read before the lock.
3. `EventSink`: pairing of tool events into rows.
4. `Extensions`, `SwarmCreate`, `Notifier`, `CommandTimeout`: the complex server.
5. `ArtifactPublish`: mark, conditional PUT, verify, unlink, retry under crashes.
6. `ToolBudget`: a pure algorithm against a reference definition.
7. `AuthCodes`: authd's single-use codes and states.
8. `McpRecovery` and lance-mcp's re-ingest, small.

Composition: `Approvals` and `TurnRun` refine the stages of `TurnManager` (`armed` ..
`settled`);
`SessionRotation` details the single step `Notice`; `Completions` is the
dispatcher over the abstraction of `TurnManager` stated in its header;
`BrowserFeeds` sees of a turn what `TurnStream` delivers to one view, and `Transcript`
details the one frame that `BrowserFeeds` paints.

Left out for good: token verification and key handling (library calls),
search and parsing in lance-mcp (pure data), deployment, the adapters that patch
hermes; Archify's workflow compiler and its other renderers (a layout search and
drawing over pixel geometry: functions of one document without state, whose gates
are those of `geometry.mjs`), its catalogues and translations; markdown, layout and
sizes in the browser.
