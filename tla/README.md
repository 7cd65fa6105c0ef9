# HoverClock in TLA+

HoverClock is a desktop overlay: one binary that runs as a single-instance
daemon, shows a clock when the pointer dwells in a strip along the top edge of a
monitor (or on Super+T, or on a command over a Unix socket), hides it again, and
updates itself. These modules model its control behaviour, TLC checks them on
small instances, and TLAPS proves every invariant of theirs, and the refinements of
the two abstract specifications, for every value of the constants. Liveness is
model-checked only.

Paths below are relative to the repository root.

## Inventory

| Component | Where | State | Operations | Module |
| --- | --- | --- | --- | --- |
| Overlay controller and event glue | `src/main.rs` | window visibility and opacity, monitor, the cells `dwell`, `hide_timer`, `fade`, glib timeouts | dispatch of five activation events and five commands, timeout callbacks, fades | `Overlay` |
| Activation contract | `src/backend/mod.rs` | none (what events mean) | `ActivationEvent` | `ActivationContract` |
| X11 activation | `src/backend/x11.rs` | `in_corner`, `last_desktop`, `overlay_visible`, the socket and x11rb's queue | `start`, event source, `poll_events`, `handle_event`, Esc grabs | `X11Activation`, `Daemon`, `DaemonX11` |
| Wayland activation | `src/backend/wayland.rs` | one sentinel window per monitor, `in_corner` | enter and leave handlers | `WaylandActivation`, `Daemon`, `DaemonWayland` |
| Single-instance guard | `src/ipc.rs`, `src/main.rs` | socket file, listeners, bus name | `bind_daemon_at`, `run_daemon`, shutdown hook, `reexec_daemon` | `SocketGuard` |
| Control plane | `src/ipc.rs`, `src/main.rs` | connections, retries, answers | `request`, `run_client`, `install` | `ControlPlane` |
| Version check and button | `src/main.rs`, `src/version.rs` | button, label, pending release | `run_version_check`, `show_version`, click, result closure | `SelfUpdate` |
| Self-update | `src/update.rs` | work directory, staged copy, installed binary | `run`, `restart` | `SelfUpdate` |
| Placement | `src/main.rs`, `src/backend/x11.rs`, `src/backend/wayland.rs` | monitor, position wanted, settle chains | `place`, `move_to`, `reapply_position`, `start_settle` | `Placement`, `Screens` |
| Window configuration | `src/backend/*.rs` | none read back | `configure`, `prepare` | not modelled |
| Clock widget, style | `src/main.rs`, `src/style.css` | none | once a second | not modelled |
| Lifecycle scripts | `scripts/*.sh` | state file, stash, lock, registration, installed binaries | install, upgrade, swap, uninstall | `Lifecycle` |
| Release scripts, workflows | `scripts/deploy.sh`, `.github` | git, GitHub | one maintainer at a time | not modelled |

How they interact:

* The backend calls the glue through the `dispatch` closure, on the GTK main
  loop. The glue calls the backend back (`set_overlay_visible`) to grab Esc; on
  X11 that waits for a reply and so reads the very socket the backend's event
  source waits for.
* Commands reach the glue through the same main loop (`ipc_dispatch`), from gio
  futures; `stop` and `restart` answer first and act 50 ms later. `app.quit()` only
  makes the current iteration of the main loop the last one: a restart that is due in
  it still re-executes the daemon.
* Dwell, auto-hide and fade are glib timeouts; each remembers its id in a cell
  so that others can cancel it. Cancelling an id that has fired panics.
* Release checks and updates run on threads and post closures to the main loop.
* A show hands a position to the window backend, whose checks of it run on for two
  seconds and outlive hides and later shows.
* Scripts and daemons meet only through the installed binary; scripts exclude each
  other by a lock file, where the machine has a `flock` command.
* Daemon processes meet only through the socket file, the bus name and the
  installed binary; any of them may be killed at any step.

What is hard: callbacks that interleave around timers and superseded fades; the
two queues of an X connection; a window manager that works late and has a will
of its own; system calls of two processes on one path; crashes that leave files;
scripts that stop between two commands; results that arrive after the state they were computed
from; retries. What makes each component correct:

* **Overlay**: cells and timeouts agree; dwell only inside a strip and auto-hide
  only outside; never visible and translucent at rest; Esc grabbed exactly while
  visible; never left on a workspace the user left; comes to rest.
* **Backends**: enter only from outside, leave only from inside, and up to date
  once their queues are drained, as far as anybody told them.
* **Guard and control plane**: one daemon, which owns its socket file; a stale
  file never keeps a start out; clients end, and fail only when nothing was done.
* **Placement**: at rest the overlay is where the last show asked for it, inside
  the monitor that triggered it.
* **Scripts**: one at a time; what would start the daemon finds its binary; what a
  swap has put away can be put back.
* **Update**: one at a time; the installed binary is always whole and verified;
  no downgrade; the button comes back; a replaced binary gets to run.

`PROJECT.json` lists every hazard at its line, with the properties that cover it.

## Modules

* `Overlay`: one action per callback of the main loop, since callbacks are
  atomic with respect to each other. `source` is the main loop's table of
  cancellable timeouts, `dwell`, `hideTimer` and `fade` are the code's cells.
  Handlers (`OnCornerEntered`, ...) have no guard of their own and are shared
  with the daemons below; the guarded actions (`CornerEntered`, ...) add the activation
  contract. Time is abstract: an armed timeout may fire at any later step, so
  nothing depends on 200 ms or 250 ms; the deferred ends all take 50 ms and so
  stay in order (`endings`). A quit sets `quitting`: everything that is ready in the
  last iteration of the main loop may still run, a restart included, until `LoopEnds`.
  Opacity has three values. Esc, when grabbed, is taken to be grabbed: the code
  goes by its own `overlay_visible` and logs a grab that is refused.
* `OverlayPromise`: what a user is promised, as four phases. `Overlay` and
  both daemons implement it under the mapping `Phase` (property `KeepsPromise`).
* `ActivationContract`: the abstract specification of `ActivationEvent`. The consumer
  knows of a side, inside a strip or outside, since that is all that
  `WorkspaceChanged` says.
* `Strips`, `Workspaces`, `Activation`: what glue and backends share. `edge` is the
  side the events dispatched so far put the pointer on, `desktop` the current
  workspace; `Activation` has what the two backends have in common, `pointer`, `wire`,
  `in_corner` and the last `event`, and states that they keep the contract.
* `X11Activation`: the X server's events go from `wire` (the socket) to `inq`
  (x11rb's queue, filled by any wait for a reply) to `out` (activation events of
  one poll). `QueryPointer` and `HandleProperty` wait for replies; between their
  steps the server goes on. It begins where `start()` has selected motion events, with
  the pointer anywhere, and goes through the rest of `start()` one reply at a time:
  the workspace is read before its changes are subscribed to, and nobody asks where
  the pointer is. The pointer moves from any place to any other, so strips may touch
  and the pointer may jump. `NoDesktop` is a workspace that is not advertised.
  `untold` is history: what has changed, or was there, without any event or answer to
  tell the backend. A request fails only when the X connection is lost, and the
  daemon's windows with it; that is not modelled.
* `Daemon`: an overlay and a backend in one state, by extending both: what they share
  is one variable. `overridden` (history: a key or command acted after the last
  pointer event) is what "the overlay follows the pointer" has to except; `inputs` is
  a bound.
* `DaemonX11`: `Overlay`'s handlers fed by `X11Activation`'s queues. While the
  event source polls and dispatches no timeout or command runs; each handler that
  shows the overlay moves `wire` into `inq`. Its actions begin with `DX`, those of the
  backend alone with `X` where the overlay has one of that name.
* `SocketGuard`: one system call per step for every process of `Daemons`.
  `file` is the process whose `bind` made the socket file; `listens` the processes
  whose socket listens. `due` is what a running daemon has accepted to do 50 ms later, "both" a restart after a stop: `QuitDue` sets the flag,
  and in the same last iteration the restart may still re-execute (`RestartFires`).
  `overlapped` and `crowded` are history: whether any start
  began (or restart re-executed) while another was not through, and which starts
  had company. `remove_file` fails only for a file that is gone, `bind` only for
  one that is there.
* `ControlPlane`: clients against the processes of `SocketGuard`. `link` is a
  connection as its client sees it; `full` the listeners whose queue of connections to
  accept is full, where `connect()` blocks, without a timeout (`Block`), and so does a
  start's probe; `executed` remembers what was carried out.
* `SelfUpdate`: threads (`step`), results in posting order (`inbox`), files that
  outlive the process. `faults`, one of `FaultSets`, names what may go wrong around
  the daemon. Versions are numbers and `Bad` any file that is absent, partial or
  corrupt. `stray` is the file that an update puts under the name of a deleted one,
  which is what `--restart` then runs.
* `WaylandActivation`: the compositor's crossings wait on `wire`; GDK delivers the
  first, any number of times, to the enter and leave handlers, which run with the
  strips' shared `in_corner`. A pointer that rests where a strip is mapped enters it
  then, so starting with the pointer outside loses nothing.
* `DaemonWayland`: `Overlay`'s handlers called straight from those of
  `WaylandActivation`, with timeouts and commands in between; its actions begin with
  `DW`, those of the backend with `W`.
* `Placement`: the X11 window backend's `last_pos`, its settle chains (`chains`, one
  count of checks left each) and the re-applies after a mapped notification,
  against a window manager with a queue of `requests`, a will of its own when it
  manages a window without a position hint, and moves it drops. Checks and
  re-applies are the callbacks of glib timeouts, so any may run between two
  requests.
* `Screens`: rectangles. Strips of the monitors listed at the start, `place`, and
  the output that `move_to` picks on Wayland, while outputs come, go and move, down to
  none at all (`ShowUnplaced`). On Wayland margins count from what bars and the strip
  itself reserve of the output; `Reserved` bounds that for the top edge, the others
  are taken to reserve nothing.
* `Lifecycle`: one action per command that changes a file or a registration, `pc`
  being the command a script is about to run. `installed`, `stash`, `state`, `unit`,
  `desktop` (the autostart entry) and `hidden` (the one put away) are the files, a
  unit and an entry being the path that they start; `wanted` says that the unit is
  enabled. `install`, which unlinks what it replaces, and `rm -rf`, which goes
  file by file, are several steps. A script `Stops` before any of them: it is
  killed, or the command fails under `set -e`. `Mishap` names what goes wrong and lets
  the script go on: `disable ... || true` fails ("disable"), `install.sh` installs a
  unit for `~/.local/bin` and the binary elsewhere ("elsewhere"), a directory cannot be
  written to restore a binary ("unwritable"). `cut` collects these names and the steps
  scripts stopped at. `flock` says whether the machine has that command: without it
  `install-release.sh` and `uninstall.sh` go on unlocked, and the others take its
  failure for a lock that is held. `generation` tells the lock file that is at the
  path from those removed; two uninstalls that each hold a lock file of their own may
  take it past `MaxRemovals`, which only keeps a third from starting.

`MCDaemonX11`, `MCDaemonWayland`, `MCScreens`, `MCLifecycle` and `MCSelfUpdate` only
give TLC symmetry sets, layouts, sets of faults and a constraint; the other instances
need nothing but a cfg. Definitions
whose name contains an underscore and whose comment begins with `mutant:` are
faulty variants, one for each property checked, and no part of the specifications.

## Runs

| Run | Instance | Shows |
| --- | --- | --- |
| `overlay` | 2 monitors, 2 workspaces, 3 source ids, fades of 2 steps, 2 deferred ends, fair timeouts | the invariants of the overlay, `KeepsPromise`, it comes to rest, and a stop ends the daemon unless a restart is pending with it |
| `daemon_x11` | 2 strips, pointer anywhere and jumping, 2 workspaces or none advertised, 3 events in flight, 5 inputs | glue and backend together: the backend keeps the contract and is up to date once drained, timers consistent, promise kept, overlay up exactly if the pointer is in a strip |
| `socket_guard` | 3 processes, crashes, fair processes | until starts overlap, one daemon, which owns its file; a start alone gets through, a stop that no restart follows releases, restart comes back |
| `control_plane` | 2 processes that overlap, crash and may have a full queue, 1 client with 3 attempts, fair client | failure means not done, no client hangs but on a queue full for good, what is written is carried out |
| `self_update` | 2 threads, 2 versions, three sets of faults, fair | one update, intact install, no downgrade; the button is not left dead, the new version runs |
| `daemon_wayland` | 2 monitors, strips touching or apart, 7 inputs, crossings repeated | the backend keeps the contract and is up to date; at rest the overlay is where the pointer is |
| `placement` | 2 positions, 3 shows, 3 checks a chain, 1 move dropped, fair | the overlay ends where the last show asked, and is not dragged away once there |
| `screens` | layouts of no, one or two monitors, side by side, stacked and shifted; both platforms | a strip triggers its own monitor, the overlay is inside it and, on Wayland, on that output |
| `lifecycle` | 2 scripts, 2 paths, with and without flock, 1 mishap, 1 uninstall | scripts exclude each other, a registration finds its binary, a swap can be undone, but for the mishaps named |
| `x11_lost_wakeup` | refuted, fair main loop | an event left in x11rb's queue |
| `x11_lingers` | refuted | the overlay left behind on a workspace the user has left |
| `socket_guard_two_daemons` | refuted | two starts past the guard |

A refuted run checks one sentence of the repository that the code does not keep;
`findings` in `PROJECT.json` quote it. The models show the same of the following,
for which there is no run:

* `src/src/main.rs:411`, "Showing again is a no-op when the overlay is already
  visible": the dwell timeout fades an opaque overlay in again from transparent
  (`DwellFires`).
* `src/src/backend/x11.rs:28`, the overlay "follows the pointer into the corner" on
  a workspace switch: it comes up on the monitor of the last `CornerEntered`
  (`OnWorkspaceChanged`).
* `src/src/backend/mod.rs:105`, "each transition is reported exactly once": from
  one strip straight into the next nothing is reported (`HandleMotion`).
* `src/src/backend/mod.rs:105` again: `start()` (`src/src/backend/x11.rs:573`) does not
  ask where the pointer is, so a daemon started, or re-executed, with the pointer
  resting in a strip does not know of it until it moves (`XInit`; `"pointer" \notin
  untold` in `UpToDateWhenDrained` and `FollowsThePointer`).
* `src/src/ipc.rs:36`, "so a wedged daemon cannot hang the client forever": the read
  has a timeout, `connect()` has none, and a daemon that listens and does not accept
  holds every client once its queue is full (`Block`; the premise of
  `EveryClientEnds`).
* `src/src/update.rs:173`: the helper's command names the binary without quotes, so a
  path with a space starts nothing, and the daemon is gone (fault `unquoted`).
* `src/src/main.rs:635`, after a successful update there is "nothing to restore": a
  daemon that the enabled unit did not start survives `systemctl restart` with its
  button disabled (`SystemctlStartsAnother`); and after a failed restart the next
  update goes to a file named after the deleted one (`Rename`).
* `src/src/main.rs:641-642`, "Restore the orange button so the click can be retried":
  a check that reports while an update runs hides or relabels the button
  (`ApplyCheck`), and what `ApplyFailed` restores is then not a retry.
* `src/src/main.rs:32-33`, stop "exits cleanly and releases the control socket": a
  stop accepted up to 50 ms after a restart is swallowed by it, and so is one that a
  restart follows closely enough to be due in the same iteration of the main loop
  (`Deferred`, `Quit`, `RestartDue` of `Overlay`; `RestartFires` of `SocketGuard`).
  `StopEndsDaemon` and `StopReleases` except a restart that is pending with the stop.
* `src/docs/DEPLOYMENT.md:170`, after an install "hover-clock --restart works too":
  `/proc/self/exe` of the running daemon names a deleted file by then, so the
  restart quits it, unless an update has since put a file under that name
  (`InPlaceRestart`).
* `src/src/backend/x11.rs:229`, "the chain stops as soon as the position matches (or
  the window hides)": the code runs every check of every chain. It had better:
  a chain that stopped would miss a placement that lands late (`Check_Stops`, the
  faulty variant that `EndsInPlace` refutes).
* `src/src/backend/wayland.rs:112`, "coordinates outside every output fall back to"
  the first: the output does, the margins stay those of the position, so the overlay
  may be off every output (`PickOutput`; `StillThere` in `OnItsMonitor`), and with no
  output at all it is not placed (`ShowUnplaced`). A window higher than its monitor less
  twice the offset starts above the monitor and falls onto the output there, if any
  (`Fits` in `OnItsMonitor`).
* `src/docs/DEPLOYMENT.md:181`, the stash is "never deleted": a swap killed between
  moving a binary and recording it leaves the binary in a slot that no state file
  names, and the next swap moves another over it (`Stash`).
* `src/scripts/swap-to-prod.sh:142`, "restore manually": the state file that says what
  and where to is removed all the same (`LeaveStashed`, `Forget`); so it is when
  `daemon-reload` or `enable` fails after it (`Stops` at "enable").
* `src/scripts/install.sh:90`: with `HOVERCLOCK_BIN_DIR` the unit starts a path the
  binary is not at (`RegisterUnit`); and `src/scripts/swap-to-dev.sh:73` puts the binary
  away although the unit may still be enabled (`Unregister`).
* `src/scripts/uninstall.sh:37-39`, which takes the lock against "an uninstall racing":
  it removes the lock file it holds, so that a script that starts after that locks a
  new file at the same path (`RemoveLock`), and without `flock` neither it nor
  `install-release.sh` takes any (`Passes`). `Serialized` excepts both.

`LoginWindows` and `SwapWindows` name every command at which a stop, and every failure
that is passed over, costs what `LoginFindsBinary` and `Recoverable` claim. Each name is
needed: without it TLC finds the property violated.

### Bounds

* Source ids: the code holds at most one dwell or auto-hide (they exclude each
  other, `TimersMatchPointer`) and one fade at a time. Three ids leave one to
  spare, so a leaked timeout would show and an exhausted table would deadlock;
  deadlock is checked in the `overlay` run.
* A fade of two steps has a first, an interpolated and a last step, like one of
  ten; of one step, in the X11 runs, a last one only. `MaxEndings = 2` lets each order
  of stop and restart occur.
* `MaxInFlight = 3` lets a motion event wait behind a property event that has
  been answered ahead of it, with one more to come; `MaxInputs = 5` is enough for
  enter, switch, leave, re-enter and a command or key.
* Three processes: one that owns, one that leaves and one that starts. With a
  client two are enough: the one it is connected to and its successor.
* Two versions: what a check finds is older than what runs, the same or newer, which
  are all the cases the updater tells apart, and may change between the check and the
  click. The theorems hold for any number.
* With three attempts a client can meet a dead daemon, a deaf one and its successor.
* `SmallFaultSets` holds a daemon nothing happens to, for the liveness; one that is
  stopped and replaced and cannot restart itself, by either way; and one run by
  hand beside its unit, at a path that sh does not take for one word. More sets at a
  time multiply states without new order.
* `daemon_wayland`: three crossings in flight are a leave and enter with one
  delivered late; seven inputs are two passes over both strips and commands.
* `placement`: a chain of three checks must outlast one dropped move, as twenty do
  any number less than that (`CheckAssumption` asks for no more, and `Outlasts`
  says what a chain's length relies on: its last checks find the window manager
  idle). Three shows let two old chains run beside the last, five requests let each
  re-map meet moves still queued.
* `screens`: widths and heights that differ by odd numbers, so that halves round,
  negative origins, and sizes that fit, fit exactly and do not fit.
* `lifecycle`: two scripts are enough for a race and two paths for a stash with a
  second slot. One mishap lets a script stop, or a failure pass, anywhere, and any
  number of scripts run after it. The constraint `Apart` does not follow what happens
  once two scripts have overlapped, since every claim but `Serialized` ends there and
  that one is checked in the state where they first do. The theorems know neither
  bound nor constraint.
* The runs of the X11 and Wayland backends, `placement` and `control_plane` do not
  check deadlock, since their environment is bounded or acts once; their cfg says so.

### Fairness

glib dispatches a timeout or idle source that is ready, so every armed timeout
and every due end is weakly fair, each timeout on its own. The X11 event source
is fair only while it is ready, which is what `x11_lost_wakeup` is about.
Processes and threads that can run do. In `placement` timeouts and the window
manager are fair. Nothing outside is otherwise: no user, no X server, no network.
`control_plane` assumes a fair client only, so `EveryClientEnds` counts on no daemon, but
that queues of connections do not stay full for good; `WrittenIsDone` names the daemon's
fairness as its premise.

## Proofs

Every invariant and every action property that a passing run checks is also a theorem,
so are both refinements; `theorems` in `PROJECT.json` lists them. They hold for any value of the constants that the named assumptions allow: the bounds of the runs (events in
flight, inputs, shows, mishaps, removals) are any natural numbers, the sets of processes,
scripts, clients and threads any sets.

### Overlay and backends

`Overlay_proofs` proves the six invariants of the `overlay` run. The inductive
invariant `IInv` is their conjunction: what `NeverStuckTranslucent` says
of a fade's last step, for one, holds only since the timeout that fires is the one
`fade` names (`CellsOwnTheirSources`). The part of it that holds whatever the
backend reports, `TInv`, has one lemma per handler, so that the daemons can use
them; `OnCurrentWorkspace` needs a workspace switch to be reported. One lemma per
helper (`Show`, `Hide`, `HideInstant`) carries the handlers, then there is one step
per action. From the same invariant `Overlay` implements `OverlayPromise`: a show
leads to appearing, a hide to vanishing, a fade's last tick settles and any other is
not seen. Since a timeout that fires must find the daemon alive, `DeadIsIdle` is
invariant too.

`Activation_proofs` proves, for any strips and jumps between them, that the X11 backend
implements `ActivationContract`. The difficulty is that a pointer query is ahead of
the motion events still queued. `LastMotion` says that the last motion event queued
tells where the pointer is (without one `in_corner` does, if anybody has told of the
pointer); `DesktopKnown`, that a workspace other than the one known has its
notification queued, if it was subscribed to; `Told`, that the reports of a poll,
applied one after the other, lead the consumer from the side it knows to the one
`in_corner` is on. `UpToDateWhenDrained` follows, without a premise on the strips. What
it speaks of is `in_corner` and the side of the strips the consumer believes in: which
strip the consumer does not learn after a jump from one into another. Of the Wayland
backend it proves the contract and `UpToDate`, touching strips included, from `OneWay`:
what is on the wire is one way of the pointer, enter and leave in turns, and starts
from the strip `in_corner` holds, if any. So the leave handler, which takes whatever that is, is never wrong.

`Daemon_proofs` composes the two. Each daemon implements its backend alone (`DXIsX11`,
`DWIsWayland`): a grab of Esc is a wait for replies, the rest leaves the backend's
variables alone. So the contract holds in the daemon, and with it what the glue's
handlers rely on, that a strip is entered from outside and left from inside. This
gives `GlueConsistent` and the promise on both. That the overlay at rest is where
the pointer is needs one more invariant, `Settling`: unless a key or command decided
otherwise the overlay is where the events say the pointer is, on its way there, or
has the timeout armed that will take it there; at rest the first is all that is left,
and the backend's invariant says the events are right. On X11 they are right about
whether the pointer is in a strip, not about which; on Wayland about both, and
`PlacedAtEdge` follows the monitor from the event to the dwell timeout.

### Guard, control plane, update

`ControlPlane_proofs` proves that, until two starts overlap, one daemon is past the
guard and owns its file, for any number of processes, with crashes and with or
without a session bus, and that the shutdown hook removes no other's file. The
strengthening `Exclusive` says that at most one process is starting, that a process
listens from `add_address` to the end of its image, that the file is its own from
bind to the hook, and that a file once found stale stays stale (`StaleStaysStale`),
which is exactly what overlapping starts break. Since `overlapped` never goes back
to FALSE (`OverlapStays`), a state without it had none before. `StartAloneSucceeds` needs
an invariant of its own, `Alone`, whether or not starts have overlapped before: a start
without company is the one process alive, so that the file it finds stays there until it
removes it, and the path stays free until it binds. Of the clients it proves
that one which reports failure has changed nothing (`WrittenOnce`: a command is written
once, after the last attempt, and only what is written is carried out), and that each
of their steps is a step of `SocketGuard` or leaves it alone, so that `SingleInstance`
holds with any number of clients about.

`SelfUpdate_proofs` proves that one thread updates at a time (`Button`: the button is
enabled only if no update is on its way, nor the message that re-enables it), that
nothing older is installed (`Newer`: what can be clicked is newer than what runs),
that the install is intact (`Made`: each file a thread goes on from is that of the
release it wants), and that the button comes back: a thread that ends other than with
its process posts a failure (`EndsWithFailure`), and no check's result that is posted
or applied meanwhile loses it (`FailureStays`).

### Placement

`Placement_proofs` proves `StaysInPlace` from `OnePosition`: whatever chain re-applies a
position, it is that of the last show, since chains share the cell. `EndsInPlace` is
a matter of counting: each of the last `MaxDrops + 1` checks of the last chain
finds no request outstanding, so from the first of them on nothing but the one place
is asked for (`OneWay`), and each check that did not find the window there has cost
a drop, or has a move on its way that will bring it there or cost one
(`OnItsWay`). There are more checks than drops.
`Screens_proofs` proves the two claims of `screens` for any monitors that do not
overlap, strips no higher than their monitor and any offset; the arithmetic of the
centred position is a lemma of its own.

### Scripts

`Lifecycle_proofs` proves the four invariants of the `lifecycle` run. None of them is
inductive. While scripts exclude each other (`OneHolder`) the holder of the lock may
rely on what it has done so far: `Knows` says, step by step, what that is, for instance
that the registration is hidden before the first binary is stashed, and that every slot
on record is below the next one, so that `mv` overwrites nothing. `Record` says that no
slot is recorded twice, and `Room` that the slots outnumber the binaries left to stash;
this one counts, and is why `PathsAssumption` wants finitely many paths. On top of these
are one invariant per claim: `Stashed` (a stashed binary is on record, or about to be),
`Kept` (`InPlace`: what is registered finds its binary; `WithinReach`: what is put away
has its binary in place or in the stash, unless an uninstall is removing both) and
`OnRecord` (a registration put away is on record or in a script's variables). Each of the three is lost by stops at different steps and by different
failures, which its premise on `cut` names; the proofs show that no other one hurts,
however many there are and however many scripts run in between.

### Only model-checked

Liveness: `ComesToRest`, `StopEndsDaemon`, `StopReleases`, `RestartComesBack`,
`EveryClientEnds`, `WrittenIsDone`, `UpdateTakesEffect`, `ComesToPlace`. They hold under
fairness only, which is out of TLAPS's reach here since its reasoning about `ENABLED` is
not available. The three refuted runs need no proof.

Type correctness is proved of `Overlay`, `X11Activation`, `SocketGuard`,
`ControlPlane`, `SelfUpdate`, `Placement` and `Lifecycle`, so that only `overlay` and
`lifecycle` spend a check on it. What is proved of `WaylandActivation` by itself
`daemon_wayland` checks with the glue behind it.

## Not modelled

Pixels, styling, text and logging; the once-a-second clock; clap's parser; the
JSON scan and the parts of a version number (their result is an input); window
manager hints and layer-shell properties, written once and never read back; release
tooling, run by one maintainer over git and GitHub. The daemon's second overlay when
another process activates it over the session bus is not modelled (`HandsOver` shows
when it would happen). Of the scripts, builds, downloads and the processes they stop and
start are left out; of directories that cannot be written, what `swap-to-dev` and
`swap-to-prod` do about them is modelled. Nothing keeps an update from putting an older
release over a newer one that a script installed meanwhile: `NeverDowngrades` speaks of
the version that runs.

## Plan

Done: `Overlay` with its promise; both backends with their contract, each composed with
`Overlay`; `SocketGuard` and `ControlPlane`; `SelfUpdate`; `Placement` and `Screens`;
`Lifecycle`; every safety property of these as a theorem.

Left, most useful first:

1. An abstract specification of the scripts (an installation that is in production,
   in dev mode or gone) that `Lifecycle` implements between mishaps.
2. `ControlPlane` as an implementation of an abstract request: done once, refused or
   unanswered.
3. `Versions`: the order of version numbers against a reference definition.

To keep the whole project quick to re-check, a new module joins an existing run
where it can; otherwise its run takes the place of a refuted one, whose sentence
moves to the list under Runs.
