# kild, in TLA+

kild manages AI coding agents, each in a git worktree of its own. Its command
line (`crates/kild`), its GUI (`crates/kild-ui`) and the agents' own `tmux`
calls (`crates/kild-tmux-shim`) work on shared state: session files under
`~/.kild`, git worktrees, and a daemon (`crates/kild-daemon`) that owns the PTYs
the agents run in. This directory models the parts of it that are concurrent or
can fail half way, checks the models with TLC on small instances and proves
what matters most with TLAPS for every instance.

## 1. The system

| part | state | operations | hard because |
|---|---|---|---|
| daemon session store (`kild-daemon/src/session`, `pty`, `server/mod.rs`) | map of sessions, map of PTYs, attached clients, a reader task and a child per PTY, a channel of exit events | create, attach, detach, resize, write, stop, destroy, exit event, shutdown | exit events arrive late and name a session id only; kill and reader clone may fail; requests race the shutdown |
| PTY streaming (`pty/output.rs`, `server/connection.rs`, `commands/attach.rs`) | scrollback ring, broadcast channel with a cursor per client, the socket to each client | read loop, attach (resize, subscribe, replay), stream task, lag notice, detach | push and broadcast are two steps; slow clients lose output; the stream task is not tied to the attachment |
| daemon life cycle (`pid.rs`, `server/mod.rs`, `kild-core/src/daemon/autostart.rs`) | pid file, bin file, socket | start, stop, crash, auto-start, replace a stale daemon | the check of the pid file and its writing are two steps; files outlive processes |
| hook endpoint (`kild-daemon/src/hooks`) | idle gate, status sidecars, the brain's inbox | Stop and SubagentStop hooks | the gate is armed whether or not the message can be delivered |
| sessions (`kild-core/src/sessions`) | one `kild.json` per session, worktree, branch, daemon sessions, pid files | create, open, stop, destroy, complete, list (with status sync), attach | no lock between processes; each operation is a sequence of external effects that may stop half way |
| persistence and index (`sessions/persistence`) | session files, `branch_index.json`, sidecars | save (write and rename), patch, load, lookup by branch | read-modify-write without a lock; the index is a cache that may be stale |
| port allocation (`sessions/ports.rs`) | port ranges in the session files | allocate a range | u16 arithmetic; the scan and the save are two steps |
| tmux shim (`kild-tmux-shim`) | pane registry under `flock`, daemon sessions of the panes | split-window, kill-pane, new-window, break-pane, join-pane | daemon calls between load and save; kild-core touches the same files without the lock |
| fleet and inbox (`sessions/fleet.rs`, `inbox.rs`, `dropbox`) | inbox and task files of the agents | write, deliver, clear | several writers, read-modify-write |
| clean-up and health (`cleanup`, `health`, `process`) | orphaned branches, worktrees, files, processes | scan, remove | acts on a scan that may be stale; pids are reused |
| protocol client and pool (`kild-protocol`) | pooled connections | request, reuse, reconnect | a pooled connection may be dead |
| GUI (`kild-ui`) | the list of kilds, the tabs of each, the pane grid, the active terminal and the focus, attaches in flight | clicks and keys, refreshes by a file watcher and a poll, events of its own commands, attach | results of background work are applied to newer state; four structures name the same kilds and tabs |
| team watcher (`kild-teams`) | the state of Claude's team files | watch, parse, map | file events are coalesced |
| kild-config, kild-paths, kild-git, kild-peek, kild-peek-core, forge, editor, terminal, notify | none kept between calls | pure functions or single external calls | not concurrent |

How they interact: the CLI, the GUI and the shim send JSON-lines requests over
the daemon's Unix socket (or TLS), one connection per request batch, and every
request is handled under the daemon's store lock. kild-core is a library: each
CLI or GUI process runs it in its own address space, and the processes meet only
in the file system, in git, and in the daemon.

## 2. Plan

Done, in this order, each with its proofs: the daemon's registry
(`DaemonStore`), output (`PtyStreaming`), input (`TerminalInput` under the
abstract `InputPipe`), the commands over one kild (`KildSessions`), the daemon's
files and life (`DaemonLifecycle`), the tmux shim (`ShimPanes`), the session files
of several kilds with their ports, index and clean-up (`SessionFiles` over
`PortRanges`), the fleet's files with the hook endpoint (`Fleet`), and the GUI's
main view (`MainView`).

What is left, most important first:

1. `KildSessions`, second part: the sweep of UI shells, terminal-mode agents with
   their pid files.
2. The GUI's workspaces and its dialogs.
3. The agent-status sidecars and `clear_idle_gate`, if it gets a caller.

## 3. The modules

A module is one component's state machine; `MC*` modules only give TLC the
symmetries and functions a `.cfg` cannot write; `*_proofs` modules hold the
theorems. Some operators carry a comment "Mutant": variants of the definition
next to them in which a plausible bug was planted, used to confirm that each
property can fail.

### DaemonStore

| variable | in the code |
|---|---|
| `sessions` | `DaemonSessionStore.sessions`: state, output_tx, attached_clients, exit_code |
| `ptys` | `PtyStore.ptys`, by session id |
| `child`, `reader` | the process of a PTY; its read task (`spawn_pty_reader`) |
| `exit_rx` | the channel of `PtyExitEvent`s that the select loop receives |
| `waiting` | the PTY `handle_pty_exit` has taken out of the store and calls `wait()` on |
| `conn` | `handle_connection`, by client |
| `writing` | the PTY a handler is writing into (`WriteStdin`), with the read lock |
| `shutdown`, `main` | the cancellation token; how far `run_server` has come |
| `owner`, `killFailed` | history: the id a PTY was opened for, kills that failed |

A request holds the store's `RwLock` from its first look to its last write, so it
is one step, with two exceptions that may block with the lock held: the exit handler
calls `wait()` on a child with the write lock (`waiting`), and `WriteStdin` calls
`write_all` on a tty with the read lock (`writing`), which returns when the child reads
or is gone (`WriteReturns`) and need not otherwise. tokio's `RwLock` is fair: once the
main loop asks for the write lock (`main` = "handling" after `TakeExitEvent`, or
"stopping") no reader gets in before it (`ReadLockFree`). `PtyIds` are
identities the code does not have: it knows a PTY by its session id only, which is
what `EventSession` models. A
session in state Creating is never visible outside the lock. A refused request
changes nothing and is a stutter. `ReuseIds` says whether clients create a session
under an id that was used before (they may); `ReaderMayFail` whether a reader can
end before its child (a read error, or a child that closed its terminal).

### PtyStreaming

One PTY, its read loop (push to the scrollback, then broadcast: two steps), the
connections' handlers, the streaming tasks and the clients. `scrollback` is the
interval of the output that the ring holds, `out` the history of the chunks, `task` a
streaming task with the next chunk its receiver will get and the chunk or lag
notice it has received and not yet written, `resp` the messages of an answer the
handler still has to write (the writer's mutex is held until they are gone),
`sock` the messages in the socket. Bytes are numbers: a chunk is the position its
last byte has in the output. `upto`, the end of what a client has been given, is
history. `Streams` are the identities of attachments. `child` is
whoever has the PTY's terminal open: a stop may fail to kill it, or leave a process
it started; the session is stopped, and the reader goes on with its sender.

### TerminalInput and InputPipe

A terminal's unbounded channel (`cmds`), the socket to the daemon (`req`), the
connection's handler (`phase`, `cur`, `written`), the acks on their way back
(`acks`), the PTY's writer mutex (`mutex`), the tty's bounded buffer
(`fed`, `read`) and a stop request that waits for the store's write lock (`stop`).
tokio's `RwLock` is fair, so a waiting writer keeps new readers out
(`WriterWaiting`). `write_all` is one step per unit written, so that it can wait
half way. `AckReaders` are the terminals that read their acks: `kild attach` does,
the GUI does not. A child reads its input until it is "deaf": alive, and reading no
more (`ChildStopsReading`), which any child may become at any time.
`InputPipe` says what all this is for: each terminal's messages arrive whole and
in order, or are reported lost, and none stays behind unless some living child is
deaf.

### KildSessions

One kild, any number of `kild` processes. `file` is its `kild.json` (status and
the ids of its agents), `worktree` whether it exists and is dirty, `daemon` and
`pty` what the daemon runs under each spawn id; `pc`, `cmd`, `mem`, `left` are a
process's place in a command, the session it has read, and the agents it has
still to kill. Every effect outside the process's memory - a load, a save, a
patch, a worktree made or removed, a daemon request - is a step. A process may die
at any of them (`Die`, which is also a save that fails), the daemon may stop,
an answer may not come in time (the request was then handled or not), an agent may
exit, the worktree may be edited and committed. `complete` is a destroy with a step of
the forge between the check for uncommitted changes and the first effect. `calm` is
history: no two commands have overlapped, none died half way and no answer was missed.

### DaemonLifecycle

`pid_file`, `bin_file` and `socket` are the files `daemon.pid`, `daemon.bin` and
`daemon.sock`: which daemon each stands for. A daemon goes through the steps of
`run_server` (`daemon`), each access to a file one step, and may crash between any
two; its pid may then be given to another program (`reused`). A process runs
`start`, `start --foreground`, `restart`, `stop` or the automatic start that every
other command begins with (`ensure`: is it reachable, is its binary the installed
one, replace it, wait). `peer` is the daemon behind its pooled connection. What a
daemon serves is `DaemonStore`. `calm` is history: no daemon was started or told to
stop while another was on its way up or down; `undisturbed`: only starts and
upgrades, one at a time, without a time-out.

### ShimPanes

The registry `panes.json` of one kild (`file`: next pane id, the panes with their
windows), the panes' sessions in the daemon (`pty`), the shims that hold `flock`
from load to save (`opened` is the directory whose lock file a shim has: a new
directory has a new lock), and the parts of `kild create`, `stop <teammate>` and
`destroy` that touch the registry and the panes with no lock (`core`). A save
truncates and fills the file in two steps. `alone` is history: kild-core has
not touched the directory while a shim was in it; `sound`: nothing died half way and
every request was answered.

### SessionFiles and PortRanges

The sessions directory with any number of kilds: for each the old file (`flat`),
the new one (`file`), the temporary file all its writers share (`tmp`), its
directory, worktree and entry in `branch_index.json`. A process looks a branch up
(index, check, scan, repair), loads, migrates, allocates ports, saves (open and
truncate, fill, rename: `fd` says where the temporary file it has open is now),
patches, removes, and sweeps. A session is abstracted to its port range;
`PortRanges` has `find_next_available_range` in arithmetic modulo `Width`. `raced`
is history: two commands have met in one of the ways of `Clash*`, each of which
goes wrong in the code (section 7); the properties hold while that has not happened,
which leaves every other interleaving and crash. `PortsDisjoint` also asks that no
session found at first has the last port (`TopIsFree`).

### Fleet

`inbox` are the files Claude Code polls, `config` the members in the team's
`config.json`, `task_dir` the directories of `kild inject`. `write_to_inbox` holds a
`flock` from read to write; `ensure_fleet_member` (create, open) and
`remove_fleet_member` (destroy) take none. `armed` is the daemon's idle gate, `op`
what a process does: an inject, an initial prompt, a create, open or destroy, or
the daemon's task for a Stop hook. `sent` and `joined` are history: the messages
whose sender was told so, the members who joined and did not leave. `disturbed` are
the inboxes that were made, removed or left torn beside another access; `mixed` says
that two processes changed `config.json` at once.

### MainView

The main view of the GUI. Its handlers run one at a time on the UI thread, so a
handler is a step; the attaches it leaves to the background come back as handlers
of their own. `disk` are the kilds with a session file, `events` says whether the
watcher's queue holds a relevant event, `pending` is the watcher task's
`pending_refresh`, `displays` the list shown. `view` is `terminal_tabs` (per kild the
number of tabs and the active one), `active_terminal_id`, `focus_region`, the active
workspace's `PaneGrid` (slots, focused and maximized slot, focus order) and the
attaches in flight, counted by kild and kind. Handlers are functions from view to
view, which the code's handlers compose. A refresh lists what is on the disk or, when
the listing fails, nothing; both prune. Whether a click on a button in a row reaches
the row as well is up to gpui, so both happen. `late` is history: kilds a terminal was
attached for since the last prune when they were no longer listed. What the terminals
show and send is in `PtyStreaming` and `TerminalInput`.

## 4. Runs

Every type invariant is proved; the runs check those of `SessionFiles` and `MainView`
(`ViewTypeOK`) as well, whose functions build the records of their state piece by piece.

| run | instance | states | what it shows |
|---|---|---|---|
| `store_reuse` | 2 sessions, 2 clients, 2 PTYs, ids reused, readers may fail | 138,046 | the maps agree whenever the lock is free (`MapsAgree`); a PTY is without a session only after a failed reader clone; no living child is untracked unless its kill failed; no session counts a client that is gone |
| `store_fresh` | 2 sessions, 1 client, 2 PTYs, no reuse, fairness | 45,524 | the exit handler never blocks on a living child, exit codes are not erased; exits are noticed and `run_server` returns after a shutdown, unless a `WriteStdin` is stuck for ever in the tty of a living child |
| `store_stale_exit` | 1 session, 2 PTYs, ids reused | violated | finding 1 |
| `streaming_output` | 1 client, 2 attachments, 2 chunks of 2 bytes, ring of 3 bytes, channel and socket of 1, fairness | 152,187 | the ring is the tail of the output; replay and stream have no silent gap; nothing is written between an answer's parts; streaming tasks end once the session is stopped and its child gone, or with the daemon; output is delivered or reported dropped |
| `input_pipe` | 2 terminals on 1 session, 2 messages of 2 units each, tty of 1 unit, fairness | 54,078 | typing implements `InputPipe` with its fairness; messages stay whole; a stop is served unless a message for ever waits for a deaf child |
| `kild_commands` | 2 processes, up to 2 agents | 503,001 | agents stay numbered whatever happens; between calm commands the next ids are free; a session marked Stopped has no running latest agent; no worktree is removed under an agent |
| `kild_lost_work` | 1 process, 1 agent | violated | finding 6 |
| `lifecycle_files` | 2 processes, 2 daemons, 2 versions of the binary | 337,593 | one start or stop at a time leaves one daemon that the files lead to, through crashes; upgrades keep to that; no start is refused for a dead daemon's files |
| `shim_panes` | 2 shims, 2 pane ids, 2 windows, 2 further directories | 339,568 | a readable registry is valid; under the lock no update is lost; no pane is left that nobody lists |
| `session_files` | 3 kilds on 2 branches, 2 processes, 3 commands, ports 0 to 6 in ranges of 2, a kild on ports 4 and 5 or none at first | 534,389 | a saved session is readable at every moment; one kild per branch; disjoint ports; clean-up removes no worktree of a saved kild |
| `fleet_messages` | 2 processes, the brain and a worker, 4 commands or hooks | 2,430,215 | no message reported sent is overwritten; members stay listed |
| `main_view` | 2 kilds, a grid of 2 panes, 2 tabs a kild, those being attached included, 1 attach in flight | 186,349 | the grid's books agree; the active tab exists; tabs, panes and the active terminal belong to listed kilds, and outlive every refresh but a failed one; no change on disk is forgotten |

The bounds. Two sessions, PTYs or clients suffice for the store: an event, a wait
and the entry they meet involve one id and two PTYs, and what matters of the
others is that they are not touched; `store_fresh` also passes with two clients
(453,032 states), of which one writes while the other is in a request. In the streaming model a ring of 3 bytes
meets a chunk that fits and one that pushes part of it out (other sizes are left to
the proofs), a channel of one chunk
lags as soon as a task is slow, a socket of one message is full after each, and
one client with two attachments has two tasks competing for one writer. For
input, a tty of one unit and messages of two make every write wait half way;
`input_pipe` also passes with a second session, shown by one of the terminals (467,856
states) or by none (378,546), where one session's deaf child keeps the other's stop waiting. Two
processes give every pairwise interleaving of commands, and two agents the cases
of a first, a latest and none; `kild_commands` also passes with three agents (4.6
million states). Two daemons are an old one and its successor; a third adds only
a repetition. Two shims compete for one lock; `shim_panes` also passes with three
pane ids and one further directory. With seven ports there is room for two
ranges and a rest, a gap below the old range, and a range that would end at the last
port, which the search refuses; three kilds on two branches give a pair with one name, in two projects, and a third;
three commands give two that overlap and one that sees what they left.
`session_files` also passes with two old ranges (2.3 million states). Four commands
make a fleet member, two writers and a reader of what they left. A grid of two panes
is full with two terminals of one kild or of two, so that a third evicts one; two tabs
have a first and a last to close. Deadlock is checked
in every run; finished states are `Terminated` or `Rest` self-loops that say what
finished means.

## 5. Fairness

Only liveness properties assume any. Weak fairness of the daemon's steps and the
tasks' steps: tokio polls every task that was woken, and its `select!` picks
among ready branches at random, and a woken task finds a worker thread. The last is
an assumption: `write_all` blocks the worker thread it runs on, so it takes fewer
blocked writes than tokio has workers, one per core. (The main loop has a thread of its
own, that of `block_on`.) The store's
write lock is granted when its holders release it, which is not taken for granted: a
`WriteStdin` returns if its child is gone (`DaemonStore`) or reads (`TerminalInput`),
a child may live and never read, and the properties that need the lock name that one
way of waiting for ever (`StuckWriting`, "deaf"; finding 4). `PtyStreaming` assumes no
fairness of the steps that need the lock. Strong fairness of `WriteResponse` and
`WriteOutput`: the connection's writer is a tokio `Mutex`, which serves its
waiters first come first served, so a task that keeps finding it taken
gets it. Weak fairness of a client that reads its socket, of a terminal that reads
its acks when it is in `AckReaders`, and of a child that reads its input as long as it is
not deaf. Never assumed: that a child exits, keeps reading, a user types, leaves, stops
a session or sends any request. `KildSessions`, `DaemonLifecycle`, `ShimPanes`,
`SessionFiles`, `Fleet` and `MainView` state safety only: people and agents run the
commands, any of which may die, and click.

## 6. Proofs

Checked by TLAPS for all values of the constants, under the assumptions stated in
the modules (`DistinctConstants`, `Switches`, `NoSessionIsNone`, `Bounds`,
`NoneDistinct`, `Shape`, `MaxAgentsAssumption`, `PortsAssumption`,
`SessionsAssumption`): the model values that mean "none" differ from the others,
capacities and bounds are positive integers, the sets whose size matters are finite.

- `DaemonStore_proofs`. `MapsAgree` is not inductive: an exit event finds a PTY by
  the id of another PTY's session, so one must know where PTYs come from.
  `StoreInv` adds `Provenance` (nothing refers to an unopened PTY, events come from
  readers that are done, a PTY is filed under the id it was opened for, the one
  waited for has left) and `SessionsMatch` (a running session's PTY is in the store
  or being waited for). From it follow `TypeCorrect`, `StoreConsistent`,
  `NothingStranded` and `NothingForgotten`; `NoClientIsAGhost` needs nothing more.
  If no id is used twice, `OwnersDistinct` makes an event find its own
  PTY: with readers that outlive their child (`DoneIsDead`) this gives
  `WaitIsImmediate`, and with the facts that an event is in the channel once and is
  gone when its exit code is recorded (`EventsDistinct`, `EventConsumed`) it gives
  `ExitCodesAreKept`, for readers that fail too.
- `PtyStreaming_proofs`. `ScrollbackIsTail` follows from `Push` by arithmetic on the
  ring. `StreamIsGapless` compares what a client was given with where its receiver
  stands; the strengthening is `Receivers` (a receiver is never ahead of the sender,
  and what it holds ends where it will go on) and `OpeningTask`. Theorems
  `ScrollbackCorrect` and `NoSilentGap`, for any capacity, chunk size, number of
  clients and attachments. `ReplayIsUnbroken` needs `AnswerHoldsWriter`: the answer to
  an Attach has its only ack first, and from the ack to its last message the handler
  has the writer; only the handler and the tasks of one client make its socket longer.
- `Gui_proofs`, on typing. `MessagesWhole` needs `WriterIsExclusive` (exactly the
  writing handler has the mutex) and `HalfWritten` (an unfinished message at the end
  of the tty is the one being written, unless the child is dead). Theorem
  `MessagesStayWhole`. From the same invariant `TypingIsAPipe`, the safety half of
  `IsFairInputPipe`: a message on its way from queue to socket to handler is a stutter
  of `InputPipe`, the last unit is its `Deliver`, a refused or failed write its `Lose`.
  That the messages in the tty, a function defined by recursion, grow by one with a
  last unit is lemma `WholeAppend`.
- `KildSessions_proofs`. `KildInv` says, for each phase of a command that runs in
  calm, what its process knows: the session it read is still the file
  (`ReadIsCurrent`), the daemon has nothing the file or the process does not list
  (`NoStray`), a destroy that reached the worktree has killed all (`KillsAll`).
  Without calm only `AgentsAreNumbered` and `MemoryIsNumbered` are left. Theorems
  `AgentsStayNumbered`, `NextIdStaysFree`, `StoppedAgentsAreDead`, `AgentsDieFirst`,
  for any number of processes and agents.
- `DaemonLifecycle_proofs`. `ServingIsKnown` says nothing of a daemon that is still
  on its way. `LifeInv` adds, while calm, `Turns`: one daemon is in transit at a
  time and none serves meanwhile except beside one that is only checking
  (`OneInTransit`, `OneServes`, `OthersOnlyCheck`), and what each file holds at each
  step of start and end (`FilesMatch`). For undisturbed commands it adds that one
  command runs, that the daemon in transit is its child or the one it replaces
  (`OneCommand`, `Attended`, `Replaces`), and for `StartsGetPast` that a refused
  daemon met a living one (`NotRefused`). Theorems `LifecycleTypeCorrect`,
  `TheFilesTell`, `UpgradesKeepCalm`, `StartsGetPast`.
- `ShimPanes_proofs`. The registry's validity is a property of the operators
  `WithPane`, `WithoutPane`, `WithWindow`, proved for each first. `ShimInv` adds what a
  shim's memory is (`Commits`) and, while alone, the lock (`Lock`: one holder, all on
  the one directory, whose memory is the file). For `EveryPaneIsListed` one must know
  that a shim about to save has done its request and no other (`Killed`, `Known`).
- `Fleet_proofs`. `FleetInv` says, step by step, what a process in an access has in
  memory (`Stage`); that one process holds an inbox's lock (`OneHolder`), that an
  undisturbed inbox has no unlocked access beside it (`Alone`) and what it then holds
  (`Kept`); and that one process changes `config.json` (`OneChanges`, `Listed`).
- `SessionFiles_proofs`. First the ports, as facts of arithmetic modulo `Width`:
  what the search returns is below the top (`AllocatedRangeIsBelowTop`) and meets no
  range in use (`AllocatedRangeIsFree`), for any set of ranges whose ends do not
  overflow. The properties speak of saved files only; `FilesInv` adds `Stage`, what a
  process knows at each step (the file it has open, the range it chose, what it found),
  and, while `~raced`, `Sound`: what it knows is still so. `Clash*` name the
  commands that may not meet for that; everything else, every crash included, keeps it.
  Theorems `FilesTypeCorrect`, `SavedKildsAreReadable`, `BranchesAreUnique`,
  `PortsAreDisjoint`, `WorktreesAreSpared`, for any number of kilds, processes, ports.
- `Gui_proofs`, on the main view. `Views(L)` is the set of views that know only kilds
  of `L`, with a grid whose books agree and tabs whose active one exists. Each
  handler is shown to lead from `Views(L)` to `Views(L)`, a prune to the views of what it
  lists, an attach to those of `L` and its kild; since handlers compose, that is the
  proof of every step. `ViewInv` says that the view is in `Views(L)` for the
  kilds listed or attached late. `retain` and `auto_populate` are functions defined by
  recursion: lemma `Recursion` (a function whose steps keep a set exists) and induction
  by least number (`UpTo`) say what they return. Theorems `ViewTypeCorrect`,
  `GridsAreConsistent`, `ActiveTabsExist`, `ViewsStayListed`, `FocusedTerminalExists`,
  `NoChangeIsForgotten`, and `TerminalsAreKept` for every step, for any number of
  kilds, slots, tabs and attaches.

Only model-checked: every liveness property and the fair half of the refinement
(`ExitIsNoticed`, `ShutdownCompletes`, `StreamsEnd`, `DeliveredOrReported`,
`StopIsServed`, `IsFairInputPipe`, each with the exceptions it names), because the prover has no rule for fairness and
ENABLED. Every invariant and every action property of the passing runs is a theorem.

## 7. Where the code and its documents disagree

The runs `store_stale_exit` and `kild_lost_work` show 1 and 6; the others were met
while modelling, and the models have the behaviour.

1. `handle_pty_exit` waits for whichever PTY its session id names now. After
   destroy and create under one id, the old reader's event makes it wait for the
   new, living child with the write lock held: the daemon answers nobody until
   that child exits. The comment at `session/manager.rs:377` says `wait()` returns
   immediately. `WaitIsImmediate` shows it does if ids are not reused.
2. Nobody tells an attached client that its session's process exited: the
   `"stopped"` event that `attach.rs:454` waits for is sent by no code.
3. The GUI's keyboard connection never reads its acks
   (`kild-ui/src/daemon_client.rs:469`). When they fill the socket, typing is
   accepted and never sent.
4. `WriteStdin` writes into the tty under the store's read lock. One child that
   does not read its input keeps every stop, of any session, waiting, and with it
   every later request; the main loop waits as well, so that exits go unnoticed and a
   shutdown never stops the sessions. `StopIsServed`, `ExitIsNoticed` and
   `ShutdownCompletes` have this as their only exception, and TLC refutes each
   without it.
5. The guard of `open` asks about the latest agent only. After `open --no-agent`
   and the end of that shell, a second agent starts beside the first.
6. `remove_worktree_by_path` deletes uncommitted work without force. `kild destroy
   --all` does not look for any; `kild destroy <branch>`, `kild complete` and the GUI
   look before the kills, the merge or the dialog that come first.
7. `patching.rs:17` says "Writes are atomic via temp file + rename". All writers of a
   session share one temporary file: the second truncates what the first is about
   to rename, and a torn `kild.json` is skipped by every reader. cleanup reports it
   under the id "kild", so it is never cleaned although the comment in
   `cleanup/handler.rs` says it is.
8. `autostart.rs:38` says "Old daemon is still running — return Ok" where the old
   daemon may have died since it was found stale.
9. `hooks/mod.rs:297` says that `forward_to_brain` forwards "to the Honryū brain
   session"; it writes to the inbox of the worker's own branch.
10. `idle_gate.rs:5` says that idle events are suppressed "until the next task write
   clears it"; `clear_idle_gate` has no caller, and the gate is armed before it is
   known whether the brain runs. Only the first Stop of a branch in a daemon's life is forwarded.
11. `terminal_handlers.rs:152` says that `sync_teammate_tabs` "removes tabs for
   teammates that are no longer present". Nothing removes them. It looks for an
   existing tab before the attach, so two events in a row attach twice.
12. `rendering.rs:396` says that without its guards "keys would reach a non-visible
   terminal". With them they may as well: the active tab of a kild need not be in the
   grid, for instance after Ctrl+Tab, or after a selection, which shows tab 0.

Not disagreements with a document, but reachable in the models and worth knowing.

- `KildSessions`: `stop` and `open` at the same time lose each other's writes, so
  that an agent runs that the file does not list, and the next `open` is refused
  because its id is taken; a save after another process's destroy brings the file
  back without a worktree.
- `DaemonLifecycle`: `restart`, and `stop` followed by `start`, wait for the pid file
  only, which goes first. The old daemon then removes the bin file and the socket of
  the new one, which lives on unreachable: starts fail with AlreadyRunning, and stop
  says that nothing runs.
- `ShimPanes`: destroy during a split leaves a PTY that nobody lists, or the directory
  comes back; a shim that dies while it saves leaves a file that no command loads.
- `SessionFiles`: two creates that overlap choose the same ports, or make two kilds of
  one branch; a scan misses an old file that another process is moving, and then
  creates the branch again or takes its worktree for an orphan; `cleanup --orphans`
  removes the worktree of a create that has not saved yet; a save or patch after a
  destroy brings the kild back; a create that dies after it made the worktree makes
  later creates fail until `cleanup --orphans`. (A range that ended at port 65535 would
  make `allocated_end + 1` overflow; `AllocatedRangeIsBelowTop` says that none is
  allocated, and `TopIsFree` that the sessions found at first have none.)
- `Fleet`: creating the directory of the inbox turns fleet mode on without a
  brain; create, open and destroy make and remove an inbox beside a writer that
  has its lock; changes of `config.json` at the same time lose members, and a torn
  one blocks every later change; branches `a/b` and `a-b`, and one branch in two
  projects, share an inbox.
- `MainView`: a failed listing empties the list and drops every terminal; panes keep
  their tab index when a tab before theirs closes, and then show another terminal or
  none; closing a kild's last tab takes the focus from another kild's terminal; a
  second click while an attach is in flight attaches twice (with MaxAttaches = 2, which
  TLC finishes too, in 447,309 states); a late attach brings back
  the tabs of a kild that is gone, active, until the next refresh. Without a watcher, a
  create and a destroy between two polls leave the number of files as it was, and the
  list stays wrong.

## 8. Not modelled

The map covers the parts of the code that keep shared state, which are a small
share of its lines. The largest parts of the rest are the drawing of the GUI and its
terminal emulation (`kild-ui`), screen capture and interface automation (`kild-peek`,
`kild-peek-core`), configuration (`kild-config`), argument parsing and printing
(`kild`, the shim's parser), the tests, which stand in the source files themselves,
and single calls to git, to the forge or to the operating system. They have
no state between calls that another actor changes, so a state machine of them would
have one step and nothing to say. The transports (Unix socket or TLS carry the same
messages), the codec, naming and notification calls are left out for the same
reason, and the team watcher, which only reads.

Left out of what is modelled: in `DaemonStore` a PTY's size; in `KildSessions`
terminal-mode agents, `--main` sessions, windows, prompt delivery and what the forge
says of a pull request, and a save is one step there, as `SessionFiles` takes it apart; in `SessionFiles`
the strategies `--older-than` and orphaned branches of cleanup, the sidecars, `--main`, and
the checks for uncommitted changes and running agents, of which it has both outcomes
where they skip a worktree; in `ShimPanes` titles and styles; in `Fleet` agents
other than Claude, who get their tasks typed into the PTY; in `MainView` workspaces
beyond the active one, which of the three views is on the screen, dialogs, errors, the
selection, tab names and the start of the daemon. A child whose kill
succeeds is dead at once, and a child keeps its terminal open until it exits unless `ReaderMayFail`.
`PROJECT.json` lists the parts and the main hazards, with the reason for each that no
property covers.
