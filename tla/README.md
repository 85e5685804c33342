# TLA+ models of WinTermDriver

WinTermDriver is a terminal workspace manager for Windows: a host process keeps
workspaces of tabs, panes and terminal sessions, UIs mirror them, and a command
line (and agents behind it) drives them. These modules model the state machines of
host, UI and command line and how they interleave, check them with TLC, and prove part of
what the checks show for every value of the constants with TLAPS. Paths below are
relative to `src/` (`crates/...`).

## 1. The system

| Part | State | Operations | Works with |
| --- | --- | --- | --- |
| Layout tree (`wtd-core/src/layout.rs`) | an arena of nodes, root, free list, id index, focus, zoom, id counter | build, split, close, focus, swap, zoom, retile, resize | held by a tab |
| Workspace instance (`wtd-host/src/workspace_instance.rs`) | lifecycle state, tabs, active tab, pane records, sessions, id counters, job object | open, close, recreate, add/close/move/rename tab, spawn/stop/restart sessions, status of panes, snapshot | request handler, sessions |
| Actions (`wtd-host/src/action.rs`) | none | resolves the target pane of an action and applies it | workspace instance, layout tree |
| Request handler (`wtd-host/src/request_handler.rs`) | one mutex over the map of workspaces, settings, pending broadcasts | one handler per message; the drain the broadcaster calls | everything in the host |
| Session (`wtd-host/src/session.rs`, `wtd-pty/src/pty.rs`) | state, pseudo-console, reader thread and channel, screen, backoff | start, restart, stop, check exit, write now, write later, drain output, resize | child process, system handles |
| Output broadcaster (`wtd-host/src/output_broadcaster.rs`) | last titles and progress | every 50 ms: drain all sessions, send events | request handler, IPC server |
| IPC server (`wtd-host/src/ipc_server.rs`, `wtd-ipc`) | registry of clients, a queue per client | accept, handshake, read a request, answer it, forward queued events | clients |
| UI host bridge (`wtd-ui/src/host_bridge.rs`, `host_client.rs`) | connection, channels to the UI thread | attach, refresh, read events, send commands | IPC server, UI loop |
| UI (`wtd-ui/src/*`) | mirrors of sessions, tab strip, prefix keys, selection, paint scheduler | events, keys, mouse, painting | host bridge |
| Host lifecycle (`wtd-host/src/host_lifecycle.rs`, `wtd-ipc/src/connect.rs`) | pid file, pipe | single-instance check, automatic start, shutdown | operating system |
| CLI (`wtd-cli`) | one connection | one request, one answer, a timeout | IPC server |
| Algorithms | none | target resolution, layout geometry, backoff, profile merging, prompt encoding | |

How they interact. Every request, and the broadcaster's drain, runs under the
host's one mutex; what runs outside it is where most of the hard behaviour is:

* a reader thread per session feeds an unbounded channel;
* threads that sleep and then write to a pipe through a raw handle value;
* the broadcaster sends what it drained after it let the mutex go;
* a task per connection forwards queued events, except while it handles a request;
* the UI applies snapshots (answers) and events on one stream, acts on what the last
  snapshot showed, and changes some of it before the host answers;
* hosts and commands are processes that share only a pipe and the file `host.pid`.

What makes each part correct:

* **layout tree**: links, index and free list agree; focus and zoom name panes of
  the tree; edits keep the order of the panes;
* **workspace**: panes and sessions own each other one to one; ids are not
  reused; the active tab exists; a half-failed launch leaves nothing behind;
* **sessions**: one child and one pipe per session, none leaked; exits reported
  once; input reaches the child it was meant for, in order;
* **output**: a UI sees all output, in order, once, and every exit;
* **host lifecycle**: one host, which `host.pid` names; **status**: it tells what really
  happened, and waiting for it is not over too early;

* **registry and launch**: a refused request changes nothing; what is saved is on disk; a pane
  runs what its definition says; a prompt arrives whole;
* **screen**: a mirror shows what the host shows; history and the hidden screen survive;
* **command line**: an exit code tells what the host did;
* **UI**: a click acts on what was clicked; a key or press has one effect and ends; what is
  selected, found and scrolled to stays what it was.

`PROJECT.json` lists each component, and each hazard at the line where it bites.

## 2. Modules

| Module | Models | Composition |
| --- | --- | --- |
| `TabLayout` | what a tab's layout does to the set of its panes, focus, zoom and counter: an abstract layout as a record | used by `Workspace` and `TabLayoutSpec` |
| `TabLayoutSpec` | the same as a state machine: the abstract specification of a layout tree | refined by `LayoutTree` |
| `LayoutTree` | the arena of `layout.rs`, slot by slot | implements `TabLayoutSpec` (`ImplementsTabLayout`) |
| `Tiling` | orientations, ratios, rectangles, resizes and splitters | the arena's other half |
| `Workspace` | one `WorkspaceInstance` under all requests that change tabs, panes and sessions | its tabs are `TabLayout` records |
| `Definitions` | definition files: where they are looked for, what the loader accepts | extended by `Registry` |
| `Registry` | the workspaces a host has open, their names, files and targets | |
| `PromptDriver` | pane drivers and what a prompt becomes | extended by `Launch` |
| `Launch` | what panes start, through five layers of settings, and what saving keeps of it | |
| `Session` | the sessions of a host, their children, handles and input | |
| `OutputStream` | the way of one session's output from pipe to the screens of UIs | |
| `Sgr`, `ScreenBuffer` | control functions on a screen, pure operators | extended by `ScreenMirror` |
| `ScreenMirror` | a host's screen and a UI's copy of it | gets what `OutputStream` delivers |
| `PaneStatus` | attention, status, titles: host, broadcaster, UI | |
| `HostLifecycle` | hosts and commands around pipe and pid file | extended by `Commands` |
| `Commands` | what a command asks of a host and what its exit code tells | |
| `Actions` | actions by name: bindings, palette, who does them | |
| `UiTabs` | the tabs of a window against those of the host | |
| `TabStrip` | the strip along the x axis | the order of tabs that `UiTabs` lets change |
| `UiKeys` | the two events of a key press through the UI's lanes | extended by `UiMouse` |
| `UiMouse` | the mouse together with the keyboard | |
| `KeyEncoding` | what applications read of keys and mouse | |
| `UiView` | scrolling, selection, search and scrollbar of panes | |
| `WorkspaceProofs` | theorems about `Workspace` | |
| `HostProofs` | theorems about `Session`, `HostLifecycle` and `Commands` | |
| `StreamProofs` | theorems about `OutputStream` | |
| `StatusProofs` | theorems about `PaneStatus` | |
| `InputProofs` | theorems about `UiKeys`, `UiMouse`, `UiView` and `KeyEncoding` | |
| `TabsProofs` | theorems about `UiTabs`, `TabStrip` and `Actions` | |
| `RegistryProofs` | theorems about `Registry` and `Launch` | |
| `TreeProofs` | theorems about `LayoutTree` and `Tiling` | |
| `MC*` | values of the constants for TLC | |

`MCLayoutTree`, `MCRegistry`, `MCUiTabs` and `MCUiInput` check two or three
specifications in one run: a variable `part`, which never changes, says which of
them a behaviour is of, and the state of the others stands still. The parts share no state,
so nothing is shown about them together. `MCKeyboard` holds the keys of the UI's tables.

### TabLayout, TabLayoutSpec, LayoutTree

`LayoutTree` keeps the variables of the Rust struct: `nodes` (a sequence of slots,
`Hole` for `None`), `root`, `focus`, `zoomed`, `nextPane`, `index` (`pane_index`)
and `free` (`free_list`, a stack). Each operation is an action: `Split`, `Close`
(promotion of the sibling into the parent's slot, freeing, focus and zoom),
`SetFocus`, `FocusNext`, `FocusPrev`, `FocusDirection`, `Swap`, `ToggleZoom`,
`RetileEven`, `RetileGrid`, `RetileMain`. Orientations and ratios only matter for
rectangles and are left out; the nearest pane in a direction is therefore any
other pane, or none. A tree whose last pane was closed has a root in a
freed slot; every walk panics there, so no operation that walks is enabled.

`TabLayout` abstracts a tree to `[panes, focus, zoomed, next]`. `Workspace` uses
it in place of the arena, and the refinement (`layout_tree`, property
`ImplementsTabLayout`) shows that this is what the arena does.

### Workspace

Variables: `state`, `tabs`, `active` (`active_tab_index`), `nextPane` and
`nextSession` (counters of the instance), `rec` (pane records: session id or
`NoSession` for `Detached`), `sess` (the session map: whether the process started). One action
per request: `NewTab`, `NextTab`, `PrevTab`, `GotoTab`, `CloseTab`, `SplitPane`,
`ClosePane`, `ClosePanePanics`, `MoveFocus`, `FocusPane`, `ZoomPane`,
`ChangeProfile`, `RestartSession`, `Recreate`, `RecreateFails`, `Close`. An action names its pane as the
code does: by an id, or not at all and then through the first tab (`Resolved`).
The start of a session has three outcomes: the launch spec does not resolve,
the process does not start, or it runs.

`ClosePanePanics` is the case in which the search for the tab walks a tree without panes:
the handler stops the session and then panics; the mutex is recovered and the
rest of the state stays. Other requests that would panic change nothing before
they do, so they are not enabled.

### OutputStream

Chunks are numbered. `written`, `received`, `screen` say how far the child, the reader thread and the
host's screen are; `batch` is what the broadcaster holds between drain and
send; `inbox` is a client's queue in the registry; `request`/`answer` are the
attach in progress; `mirror` is the sequence of chunks a UI fed to its screen.
`stolen` is a history variable: the chunks drained by somebody else
than the broadcaster. `Tick` contains the exit check of `drain_session_events`,
with the drain it makes after the chunks were collected. Writing a frame
and reading it on the other side is one step: the pipe is FIFO, and nothing
looks at what is in it.

### Session

Variables: `state`, `attached` (the pane's record), `pty` (the handle a session holds), `owner`
(which child's pipe a handle value leads to now), `children` (all children started, with what
they were given), `pending` (sleeping writes), `writes`. The system may give a closed handle's value to
the next pipe, and only pipes of sessions are represented: a write
through a stale value that nobody has reused fails, as `WriteFile` on a closed handle does.
Delays have no length: a sleeping thread may wake at any later moment.

### Tiling

A tree is a function from paths to nodes; `Rects` computes what both sides compute of it.
The host knows no window: `Viewport` is the largest width and height of any session, as
`estimated_viewport_size` has it. `drag` is the splitter being dragged, by its index in a
list whose order is any, since it is found again in the order of a HashMap. Ratios are exact
fractions, where the code has floating point. `TilesAssumption` says of the trees a tab starts with what `PaneNode` spells,
and that a half is not more than the whole; the loader accepts ratios of 0.1 to 0.9 (workspace_loader.rs:275).

### Definitions and Registry

`open` maps names to instances, `disk` paths to definitions, `author` (a history variable) says which
instance wrote or loaded a file last. One action per handler (`Open`, `Close`,
`Recreate`, `Save`, `Rename`) with its refusals, and the edits that make a workspace differ
from its file. Each tab has the counter of its tree (`next`), so that a split may get the id, and the default name, of a
pane of another tab, whose record it takes over; `collided` (history) says that this happened, `cut` (history) that the
instance's own last save cut its file off. `Resolve` is the resolution of targets: by number, by path of one to four
names, by a name that is searched for in every workspace. Users write and delete
files at any time; a save may fail before or after it has cut the file off.

### PromptDriver and Launch

`Resolved` is `resolve_launch_spec`: executable, arguments, directory, environment and startup
command from session, defaults, profile, settings and host. `from` keeps the definition the
workspace was opened from; panes that are added later do not see it, as in
the code. `EnvOf` ends with what `apply_runtime_terminal_env` sets over all layers. `Plan` is `build_prompt_input_plan`: the pieces a prompt is typed in, or that
it is refused, or that the handler panics.

### Sgr, ScreenBuffer, ScreenMirror

`ScreenBuffer` has one operator per control function, over records with grid, cursor, pen,
margins, saved cursors, history and modes. What a panicking index does is part of
it (`panicked`). `ScreenMirror` drains chunks into `host` and, while the UI
follows, into `mirror`; `Attach` builds the mirror from a snapshot as `snapshot.rs` does;
resizes and clears change the mirror first and wait in `asked` for the host. In the host a parser's panic ends the
tick, not the broadcaster (output_broadcaster.rs:95-103): the host's screen keeps what was drawn until then and goes on,
and what the tick had collected, of this session and of those before it, is never sent. `Drain` loses it when its own chunk panics or
a session after it does (`panicsLater`), and `lost` records it. A UI whose parser panics is gone.

### PaneStatus

`record` is the host's, `screen` what the program set, `previous` the broadcaster's map of titles, `shown` the
UI's. Events pass through `pending`, `queue` and `inbox`; an attach's answer goes past the
queue. `gap`, `seen` and `prompted` are history variables, which say what no event told.
`TickPanics` is a tick that a parser's panic ends: the events that were pending are lost, and with them the titles and
notifications of the panes drained before it, any set of them, though the broadcaster has entered their titles and
the host taken their notifications.

### HostLifecycle and Commands

A host goes through probe, reading and cleaning of the stale file, writing its own, binding
the pipe, serving, leaving and exit, and may crash at each step. A command probes, starts a
host, polls, opens the pipe and greets. `Commands` adds the requests: a plan is
what a command will ask, `wire` the frame between the two, `log` (history) what the host
really did. A request that was written is handled even when the command is gone.

### UiTabs, TabStrip and Actions

`UiTabs` keeps `host` and `ui` apart: actions of the UI append requests to `asked`, which
`Serve` handles in order and whose snapshots `Read` applies. What the UI changes without waiting is
in `moved`, what other clients did since the last snapshot in `foreign` (history variables).
`TabStrip` has the layout of `layout()` in pixels, hits as `on_mouse_down` tests them, and
what `paint` draws on top. `Actions` makes one step of an action from its key or entry to
the host's answer, and records whether some place did it (`last`): a request may be refused for its arguments or its name, and may fail
where it needs a session (`OnSession`: a detached pane, one without a record, a restart that does not start) or a file.
A focus key of `UiTabs` asks with the pane that had the focus, and moves the focus of the window then.

### UiKeys, UiMouse, KeyEncoding, UiView

A press in `UiKeys` is two passes, one for the key event and one for the text event, each through
the lanes of `main.rs` in their order. `UiMouse` adds the buttons, drags, the palette that takes events, and the
snapshot that renumbers panes; `upset` says that one of those came between press and release.
`KeyEncoding` encodes by the UI (`input.rs`) and by the host (`terminal_input.rs`) and compares. `UiView`
knows a line by its number in the order of printing, so that it can say whether a
selection by rows still names the lines it named. Columns are left out, of selections and of matches:
`find_matches` keeps a byte offset of the lower-cased line as a column of cells (main.rs:1811-1815), which is another cell
when what precedes it is not ASCII; nothing here speaks of it.

## 3. Runs

| Run | Shows | Bounds |
| --- | --- | --- |
| `workspace` | `LayoutsSound`, `SessionsNotShared`; on every step `OwnershipLostOnlyThere`, `RecreateRestoresOwnership`, `SessionIdsFresh` | definitions of one tab and of two tabs, 2 tabs, pane ids to 3, session ids to 3 |
| `layout_tree` | the arena stays a tree (`TreeSound`) and implements `TabLayoutSpec`; only a swap and retile-main change the order of its panes (`OrderStable`); rectangles fill the tab (`PanesTile`), directions reach every pane (`DirectionsLink`) and a resize does what was asked (`ResizesHeeded`) | built with 1 to 3 panes, ids 2 to 5; one pane or two columns of two, 2 steps, areas 12x8 and 7x4 |
| `output_stream` | `ScreensComplete`, `StreamEnds` | 2 UIs, 2 chunks, 1 refresh each |
| `session` | `PipesOwned`, `NoOrphans`, `ReportedOnce`, `StraysOnlyAfterClose`, `WorkEnds` | 2 sessions, 2 handle values, 2 children, 2 writes |
| `screen` | `MirrorDraws` (`MirrorFollows` and `DrawnAlike`), `ScreensKept` | screens 2x3 and 3x2, 4 states to begin with, 49 control functions, 3 steps |
| `registry` | `SavedAndNamed`, `ChangesMeant`; `RunAsDefined`, `PromptsWhole` | 3 names, 3 files, 4 panes, 5 steps; definitions of 1 and 2 panes, 3 panes, 4 steps, prompts to 3 lines |
| `pane_status` | `ShownMatches`, `WaitNotStale`, `AttentionReached` | 3 panes, 1 title, 2 reports, queues to 4, 3 steps of clients and programs |
| `commands` | `OneHost`, `ExitsTell`, `CommandsEnd` | 2 commands that may start a host each, 1 stop |
| `ui_tabs` | `InStep`, `ActsOnClicked`; `EntriesMatch`, `HitAsDrawn`; `OneTabMoves` | two workspaces of 3 panes, 3 tabs, 4 steps; two sets of bindings, hosts of one workspace of 1 or 2 tabs and of two workspaces; strips of up to 3 tabs, windows of 330 and 600 px, 3 moves |
| `ui_input` | `OneEffect`, `PressesEnd`; `ReadAsMeant` (`ToldApart` and `SentAsTyped`); `ViewsKept`, `ScrollsLand` | 2 panes; every key of the tables with every modifier; 2 sessions of 4 lines in 2 rows, 4 steps |

Why the bounds are enough: an id collision needs two tabs and one split or new tab
(three pane ids); the rebuild after a collision and a stale tab index need a
definition with fewer tabs than the workspace; promotion of a split, of a leaf
at the root, and reuse of freed slots all occur with four panes; a duplicate or
a loss takes one chunk before the snapshot and one after it; a stray write takes a handle
value, its owner and its next owner. A lost or foreign `host.pid` takes two hosts, and a third process, the
stop, that removes it. A saved workspace that is opened again takes open, edit, save, close and
open. What a palette, a snapshot or an action of another client can upset comes between
two steps of the UI, so four steps have it before, between and after. Screens of two columns or rows
have a wide character in the last column, margins shorter than the screen and a row that
scrolls off. Counters and steps are bounded only to make the state space
finite: actions that would exceed a bound are disabled, and deadlock is checked in
`layout_tree` and `ui_input`, where something can always be done (`Over` is the end of
their bounded parts). In the other runs `CHECK_DEADLOCK FALSE` is set since the system really may
stop: a workspace that was closed, output that has all arrived, processes that have ended, or
the bound on steps is reached.

Many properties have an exception, named in their comment, since without it TLC finds a
counterexample. These exceptions, and what the models do in a single guard or assignment as the code
does, are where documents and code part (spec: WINTERMDRIVER_SPEC.md, by line or section):

* pane ids collide between tabs, and a pane is then without its session and a session without a pane
  (spec:1387: "no headless sessions"); the close of a last pane leaves an empty tab (`OwnershipLostOnlyThere`);
* an untargeted action acts on the focused pane of the first tab (action.rs:762 says
  the active one), and in the first workspace of a HashMap when several are open (run `acts_elsewhere`);
* output that a capture, a wait or an attach drains never reaches the UIs, and
  queued events follow a snapshot that already holds them (`ScreensComplete`);
* a startup command or submit that sleeps reaches a child started later (`StraysOnlyAfterClose`); a second prompt
  within the submit delay lands before the submit of the first (docs/AGENT_GUIDE.md: "submit safely");
* what a pane id collision does to a saved workspace: the file has the surviving record once for each pane, and the path
  of a reply leads to the pane of the first tab that has the id; default names collide the same way and a
  path with one of them is ambiguous (`SavedAndNamed`: `collided`, `Unmistaken`);
* a save that fails after it has cut the file off leaves a workspace that shows as saved as before, with no
  definition on disk (request_handler.rs:723; `SavedAndNamed`: `cut`);
* TERM_PROGRAM, COLORTERM, WT_* and, with a driver, WTD_* are overwritten whatever a definition sets them
  to (workspace_instance.rs:1604-1662; `RunAsDefined`: `OfTerminal`, `OfDriver`);
* a parser's panic takes the whole tick's output, titles, exits and notifications with it, of other sessions too: a mirror lacks that output
  until its next attach (`MirrorDraws`), and titles and attention stay as they were (`ShownMatches`). `ScreensComplete`,
  `StreamEnds` and `ReportedOnce` are about ticks that do not panic: `OutputStream` and `Session` have no others;
* the host resizes, and looks for the pane in a direction, in an estimate of the window (workspace_instance.rs:939), which after a split or a zoom is not
  what is drawn: `ResizesHeeded` and `DirectionsLink` hold in the estimate and say nothing of the drawn area;
* `recreate()` keeps `active_tab_index` (spec 26.4); `restart-session` is refused for a pane whose session failed to
  start (17.5, step 4); no exited session is started again by the host (17.6, step 5);
* a prompt whose write failed leaves its pane marked as working, and a title that a new session shares with
  what an old one of its id last showed is not sent (`ShownMatches`);
* `ready` needs one sign only: a pane that works and still has a completion or "ready" from before
  satisfies it (README.md:127: "no longer working"); `WaitNotStale` is about accepted prompts only;
* a request that the CLI gave up on is carried out nevertheless (docs/AGENT_GUIDE.md:820), `ask` goes on
  after a refused prompt, and a `wait --json` without a match exits with 0 (`ExitsTell`);
* `follow` gets one capture and then nothing (spec:1987): it is the exception of `CommandsEnd`;
* two hosts serve at once when a second one binds in the moment in which the first has no free
  instance (docs/AGENT_GUIDE.md:274 advises against first uses at the same time), and a host that cannot bind, one on its way
  out and a stop remove the file of the one that serves (`OneHost`);
* a saved workspace has lost its profiles and may not load again (spec:2604), which no property excludes: they
  say what is on disk and what runs, not that it can be opened; panes added later see neither profiles nor
  defaults of their workspace (`SavedAndNamed`, `RunAsDefined`);
* `null` in a workspace's bindings cannot remove a global key, and the UI reads neither settings nor
  workspace bindings (spec 11); nine actions that are bound or listed are done by nobody
  (`Undone` of `Actions`; docs/WT_KEYBINDING_MAP.md:276 lists one of them);
* prefix chords that need a character are not seen, since key events carry none (README.md:74); Alt with a letter is
  sent without the Alt (input.rs:539), keys from the command line never in the encoding of
  Kitty (docs/AGENT_HOST_COMPATIBILITY.md:13), and X10 reports beyond column 222 lie (`SentAsTyped`, `ToldApart`);
* a binding with Alt that acts on a key which types nothing (Ctrl+Alt+1) leaves the flag that drops text, and the next
  key's text is lost (main.rs:1190, 3360, 3400; `OneEffect`);
* a request of the UI may be refused for its name, fail for want of a session or a file, or, when it names no pane, go to another workspace
  (`EntriesMatch`: `MayBe`, `TabRequests`);
* a dragged splitter changes the UI's copy only and is undone by the next snapshot; splitters that merge during a drag
  make the next move index behind the end (pane_layout.rs:283); a press that palette or snapshot interrupts is
  not released (`PressesEnd`);
* a reordered strip is undone by the next snapshot (spec:2034), a tab dropped to its right lands one
  place past the indicator, and a release outside the strip leaves the drag on (`OneTabMoves`);
* the alternate screen can be scrolled back and typing does not return from it;
  new output does not scroll to the bottom (spec:2582); selections and matches do not
  follow rows that are dropped (`ViewsKept`, `ScrollsLand`).

Runs that TLC must find violated: each states what the repository
says and the code does not do (`findings` in `PROJECT.json` has the quotes).

| Run | Property | What happens |
| --- | --- | --- |
| `acts_elsewhere` | `ShownActedOn` | with two workspaces open, an action of one window is done to the other |
| `prompt_panics` | `PromptsAnswered` | a pane set to `pi` keeps "no soft break", and a prompt of two lines panics the handler |

### Fairness

`OutputStream!Fairness`: the reader thread loops over blocking reads (`Receive`);
the broadcaster's interval fires every 50 ms and its loop sends what it
drained (`Tick`, `Broadcast`); a connection task reads a request that is there,
answers what it holds and forwards what is queued (`Attach`, `Answer`,
`Forward`, per client). Weak fairness is enough because nothing disables these for good but
themselves. The child, capture requests, connects and refreshes are not fair.

`Session!Fairness`: the broadcaster ticks; a thread that sleeps wakes. Requests
and exits are not fair.

`Commands!Fairness`: a command is a process with timers of its own and goes on as long as
it can. Nothing is assumed of hosts, which may hang or die at every step, nor of the
user's Ctrl+C.

The other modules are about safety only.

## 4. Proofs

Assumed are only the named assumptions of the modules, which TLC evaluates on its runs:

* `LayoutTree`: definitions have at least one pane, and ids begin above zero.
* `Workspace`: definitions are non-empty sequences of growing positive pane counts, and the bounds are naturals.
* `Session`: the sessions with a typed command are sessions, `"none"` is no handle, and the bounds
  are naturals; sessions and handles may be any sets, infinite ones too.
* `HostLifecycle`, `Commands`: commands are not stops and `None` is neither (`Apart`); a plan has steps, that
  of `ask` is prompt, wait, capture, and only `follow` follows (`PlansAreAskable`, dispatch.rs).
* `OutputStream`: the bounds are naturals; clients may be any set.
* `PaneStatus`: panes are `1 .. n` in the order they are walked in, for any `n`; titles are not empty; a
  report sets fields of a status (`ReportsAreStatuses`, from `SetPaneStatus` in message.rs).
* `UiKeys`: layouts are non-empty sequences of known panes (`UiKeysAssumption`); of the keys that are bound, those
  that type something have Alt, and the prefix types nothing (`KeysAssumption`). The presets are like
  that. A user may bind a letter, which then acts and is typed too: `OneEffect` does not hold of such bindings.
* `KeyEncoding`: letters have their place in the alphabet, other keys two characters that are neither letters nor the space; no key is of two kinds
  and no two keys type the same character (`KeyEncodingAssumption`, `KeyboardAssumption`): a keyboard is like that.
* `UiView`: a tab has finitely many sessions and at least one; panes have rows, columns and a height; a scrollback starts
  within its bound.
* `UiTabs`: a workspace starts with an active tab and at most two panes to a tab, and its tabs have ids of their own
  below its counter; a request of another client has an operation, and a tab is gone to by its number.
* `Registry`, `Launch`: the files users write have the shape the loader accepts (`IsDefinition`, `IsFile`), which every file
  that can be opened has; prompts are sequences of lines; the bounds are naturals.
* `TabStrip`: labels and widths are naturals, places of the pointer are integers (`StripAssumption`).
* `Actions`: in every host at least one workspace is open and each has a tab; a palette shows at least one row; there are
  finitely many profiles (`ActionsAssumption`); keys are bound to actions that can be bound (`BindingsAssumption`).

`WorkspaceProofs`: the inductive invariant is
`IInv == TypeOK /\ LayoutsSound /\ SessionsNotShared`. None of the three is
inductive alone: layouts stay sound only because the ids and counters are
naturals, types are kept by a close only because focus and zoom are on panes of
the tab, and a session is not shared only because every id in records and
session map is below the counter. The proof works on an equivalent form
(`Parts`), one predicate per group of variables, with a lemma per helper
(`SplitSound`, `CloseSound`, `BuiltTabsSound`, `BuiltRecordsSound`, `SpawnSound`, ...)
and one step per action, grouped as `Next` is: `TabStep`, `PaneStep`,
`LifecycleStep`. From `Invariance` follow `TypeCorrect`, `LayoutsStaySound` and
`SessionsNeverShared`.

In its second half are the action properties. `SessionIdsStayFresh` goes by the
groups of actions with `IInv`. `RecreateRepairs` shows that `populate` builds
ownership from nothing: the tabs of a definition get consecutive blocks of ids, and
every id of `1 .. PaneCount` lies in exactly one block (`LeastElement`, from
the well-foundedness of the naturals, finds the block). `OwnershipKept`: `Owned`
and a step that is neither a colliding id nor the close of a last pane keep each
of the five parts of `Owned`, action by action.

`HostProofs`: of `Session`, the inductive invariant is `Typing /\ PipesOwned /\ NoOrphans /\
ReportedOnce /\ Unreported`. `PipesOwned` ties handles, children and sessions together
both ways, so that what a session closes and kills is its own and nothing
else; without it neither of the others survives a restart. `Unreported` (the child of
a running session has no report yet) is what makes `ReportedOnce` inductive.
Spawn, restart and stop share their argument: `Clean` describes handles
and children once the old pseudo-console of a session is gone
(`TornDownClean`, `AbsentClean`), and `StartSound` and `EndSound` go on from there.
Writes keep the shape of the children (`ShapeKept`), so that only their
typing is at stake. `Typing` is coarser than `TypeOK`, which bounds the
items by the counters; TLC checks the finer one.

Then comes the input of sessions. `StraysOnlyAfterClose` is no invariant by itself, since it does
not speak of the writes still asleep. `InputInv` does: the handle of a sleeping
write leads to the child it was for (`Aimed`), or that child has lost its pipe for good
and the handle leads nowhere or to a later child. `PipesChanged`
covers the steps that open and close pipes, `ItemsWritten` those that write.

Of `Commands`, the two halves of the state hardly meet. `LifeInv` is about hosts and holds
whatever the commands ask: `OneHost` becomes inductive once it says that a host whose start met
nobody has the file to itself from its first look at it (`Undisturbed`), and its name in it from the moment it has
written it (`PidWritten`). `CmdInv` is about each command by itself, and holds whatever becomes of the hosts:
`Progress` ties how far the log is to the stage of the command and the frame on the wire. The log is a request ahead
of the command exactly while the answer is on its way, which is why an exit code after a loss
leaves one request open.

`StreamProofs`: a chunk the host's screen has seen is stolen, or shown, or on its way in the broadcaster's
batch or the queue of a connection (`Shown`). An attach whose answer is held gets the same promise for the chunks after its
snapshot (`Held`), which holds because nothing is forwarded to it meanwhile. That screens step back at most once
needs the order of everything on its way (`InOrder`) and that a screen that has stepped back is behind
all of it (`Rewinds`, `Past`).

`StatusProofs`: what a UI will show of a pane is what the last frame on its way tells of it, or what it shows when none does.
`AttentionComes`, `StatusComes` and `TitleComes` say that this is what the host keeps, at all times, except where the history names a
gap. A snapshot overtakes the events of the queue, so the frames after it may be older than it: the last of them is not. The
tick pushes a sequence joined of one sequence per pane. What such a join holds is shown
for any number of panes by `SetInduction` (from the well-foundedness of the naturals, with a set in place of the predicate, which is
why it can be cited), `Joined` and `Flattened`. `AttentionReached` needs no invariant but that the focus is a pane: panes from which
the next leads to no others are all there are (`ClosedIsAll`), and as many steps as there are such panes either come to each once or
come back before, so that those met are closed (`GoingReaches`, by pigeonholes).

`InputProofs`: keys and palette leave the panes of a window as they are and can only end a selection or forget a press (`Becomes`, a
lemma per function of the key lane), so that the argument about the mouse need not look at them.
A release settles everything only because one press began at most one thing: `InHand` says which excludes which while the
button is down (`Apart`). `OneEffect` needs types only, and goes through both lanes of a press by cases of the key. It says who may lose text, too: a flag that is left
behind was set by a key that types nothing and acted, or was there before, and no key that types leaves one.
Of `UiView`, the invariant (`ViewInv`) says that the rows a selection and a search keep still hold the lines they were kept for
(`SelectionsHeld`, `StillThere`). A line that is printed moves every line one row further from the live end and none
from the oldest one, until the scrollback is full: that the lines of a buffer stay where they are (`SameLines`) is all
the proof knows of it. `ViewsKept` also needs that the thumb's place, rounded, gives its offset back (`ThumbRoundTrip`), and `ScrollsLand`
that a match is below the oldest line on the screen by less than its rows (`ApplyFindShown`).
Of `KeyEncoding`, what was read last is what one of the ways to send makes of a key or a cell (`ReadSound`), whatever the modes are when it is
looked at. The first code of a press tells its key (`FirstTold`): kinds of keys have forms of their own, or numbers that
do not meet, and the parameter spells the modifiers (`ParamTells`). So two presses with the same codes are the same or `Alike`
(`FirstTells`), for any letters and characters. `SentAsTyped` compares the encoder of the UI with that of the host, kind by kind (`PressedIs`, `SpecIs`). Both make `ReadAsMeant`.

`TabsProofs`: a snapshot is always on its way to a window that may be out of step. The last that is asked is a snapshot
(`RequestsEnd`), or the last answer is the workspace as it is now (`TabsCome`). A request that bears an old name is not
answered; but then the answer to the rename is still to be read (`NameComes`), and reading it asks for another snapshot.
That clicks act on what was clicked (`ActsOnClicked`) needs more, as many requests may wait between a click and
the host: each that was sound is `Right` of the tabs as those before it will leave them (`RightAll`). What is asked later leaves
the ones before alone (`RightMore`), and what the host does is what was foreseen, even when a session does not
start, since nothing a click means depends on that (`Same`, `RightLess`). Tabs are told apart by ids below the counter (`HostSound`).

In its second part are strip, palette and actions. The edges of the tabs in a strip are a recursive function over them; that they exist and
grow is shown by `SetInduction` on the numbers of tabs for which they do, so that no two parts that answer a press are at one place
(`TabsBeside`, `HitIsSeen`) and arrows bring every close button between them (`ButtonsReached`). `OneTabMoves` needs that ids in a
strip stay apart and that a held tab is one of them (`StripSound`), since the release finds the tab by its id. `ReorderedIs`
says where each tab comes to stand. A palette keeps what is selected among the rows it shows (`PaletteSound`, `InView`): that is what Enter takes.
`EntriesMatch` follows an action from its key or entry through the question it may begin with to the verdicts of
the host, and through each of the workspaces that may get it. An action comes without arguments, with the index of a binding, or with the answer to its own question
(`Fitted`, `AllFit`, `Asking`): an open question is always one the action on display asks. Then each kind of action gets its expected verdict
(`Expected`), in whatever workspaces are open: a request that names a pane comes to the one shown (`Met`, `Sane`), one that names none may
go to another, and its answer is then not from the one shown. That it may is what the run `acts_elsewhere` finds.

`RegistryProofs`: of `Registry`, the invariant (`RegistrySound`) says that instances have ids of their own below the counter, that tabs and panes of
each have the shape that saving needs, and that what an instance saved or loaded last is on disk as long as the instance is the author
of that file (`OnDisk`), or its own last save cut it off. Neither half of `SavedAndNamed` is inductive without it: a rename or an edit must not lose what was saved, a write of another
instance or of a user must end the authorship, and a path in a reply leads back to the pane itself only while ids are apart, which they are until one is handed out that another tab
holds (`Owned`, under `~inst.collided`). That a save is what the instance has, tab by tab
and pane by pane, takes the numbering of panes across tabs (`Numbered`, `Counts`, by `SetInduction`). `ChangesMeant` goes action by
action (`Meant`). Of `Launch`, each pane keeps the definition it was made of and the workspace it was opened in, if any (`PanesSound`), from which both
what it runs and what would be saved are computed. A prompt of any number of lines is joined by recursion over its lines; what is joined is
found again line by line (`Joins`, `JoinedUpTo`), so that `PromptsWhole` holds for every length.

`TreeProofs`: the invariant (`TreeInv`) says of every slot only what is seen at the slot itself and at its neighbours: a split's
children point back, one slot has no parent, no pane is in two slots, and there are ranks that grow from
children to their split, so that nothing goes in circles (`Tree`). That is easy to keep by a splice: `SplitTree`
puts a split where a leaf was, `BypassTree` moves a sibling into its parent's slot, `TradeTree` exchanges two panes. That a walk
from the root meets every slot that is not free exactly once, and so that the index, the free list and the order of
panes are what the code takes them for, follows by induction on the ranks (`FirstOrder`, `PanesAre`, `Counted`).
Retiling and loading glue two finished arenas together (`Plan`, `GluedPlan`), level by level of the recursion
(`EvenSpells`, `GridSpells`, `MainSpells`, `BuiltPlan`). With the invariant each step of the arena is one of the abstract layout
(`TreeStep`): `ImplementsTabLayout` holds for every tree, and with it what `Workspace` relies on.
The order of panes is read off the walk as well (`Ordered`): a splice leaves two walks that differ in one leaf, or in one side of a split that
is gone (`SameOrder`), and a retiled tree spells the list it was given (`OrderStep`): `OrderStable`.

The second part of `TreeProofs` is about `Tiling`. Its invariant (`TilesInv`) says that the trees of host and UI are binary trees of paths
(`TileTree`: `WellFormed`, every pane once, ratios that are fractions of at most one), and that every pane has a session's size.
Of a drag it says nothing: whatever pane a stale splitter names, a resize leaves the tree one (`ResizedTree`). An edit keeps it by the paths it moves (`SplitFine`, `CloseFine`), a resize
because a ratio is clamped between bounds that are fractions themselves. The rounded cut of a whole is between 0 and the whole (`Cut`), so the
halves are rectangles that share its cells. Then a cell is in the rectangle of exactly one path of each length that reaches so far, and in one leaf:
`PanesTile`, for windows of every size. `ResizesHeeded` needs order and rounding of fractions: a cut
that moves by cells over the whole moves by that many cells, and clamping and rounding only take from it (`CutMoved`), as long as the ratio was within
the bounds. No split between the one that is moved and the pane has its orientation (`Plain`), so the pane changes by what its half does.

The proofs were also a check of the models. Arms of a `CASE` that overlap mean any of them to the prover and
the first one to TLC: the functions of `UiKeys`, `Definitions`, `Registry` and
`KeyEncoding` that mirrored a Rust `match` in that form now say the order, and so does `MinDim` of `Tiling`. `KeysAssumption`,
`PlansAreAskable` and `ReportsAreStatuses` were facts of the checked instances only, until a proof needed them said. The proof of
`EntriesMatch` did not go through while `Perform` took a changed palette as the sign that an action had asked a question: an entry may leave the
palette as it was and still have asked. It now asks as main.rs does (`Asked`). `PromptsWhole`, `SetAsDefined` and `OneTabMoves`
are stated so that they mean the same for inputs of every length as for those of the runs.

Only model-checked are:

* liveness: `StreamEnds`, `WorkEnds` and `CommandsEnd` need fairness and ENABLED, which are out of the prover's reach;
* what a data structure's content is after many operations, where the functions that compute it recurse over
  data: the screens (`MirrorDraws`, `ScreensKept`, whose modules declare RECURSIVE operators). The recursions of `LayoutTree` are over slots and over levels
  and were reached by ranks and by sets of levels, those of `Tiling` by the lengths of paths;
* `DirectionsLink`: that the nearest centres link every pane with every other is geometry of the whole tiling, and no step of a proof was found
  that does not need a plane embedding of it.

## 5. Not modelled

See the components of `PROJECT.json` with their reasons. In short:

* frames as bytes (`wtd-ipc/src/framing.rs`), pipe security, logging, YAML, argument parsing: no state, or one step;
* the read that `select!` cancels in the middle of a frame (ipc_server.rs:311): listed as a hazard, without a property;
* the pseudo-console that a failed CreateProcess leaves open (pty.rs:188);
* Direct2D, fonts, colours, paint scheduling, hover effects, the fuzzy ranking of palette entries;
* loss of the host's connection while the UI runs, and what the UI does offline;
* restart backoff, which only its tests call; restart policies, which nothing acts on;
* liveness of the UI: users need not act.

Several of the modules leave out what another one has: sessions are in `Session` and not in `Registry`,
splits of a tab in `Workspace` and not in `UiTabs`, the tree in `LayoutTree` and not in `UiKeys`.

## 6. Plan

What is left, in order:

1. The screens: `ScreenBuffer` and `Sgr` without RECURSIVE operators, then `MirrorFollows`.
2. `DirectionsLink`, at first for tabs of rows and columns.

Modules to be proved about declare no RECURSIVE operators.
