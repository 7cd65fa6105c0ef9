----------------------------- MODULE Lifecycle -----------------------------
(***************************************************************************)
(* The lifecycle scripts (src/scripts): swap-to-dev, swap-to-prod, the     *)
(* installers (install and upgrade; install-release) and uninstall, one    *)
(* action for each command that changes a file or a registration.  They    *)
(* serialize on a lock file, which is released with the process that holds *)
(* it.  A script may stop before any command: it is killed, or the command *)
(* fails under set -e.                                                     *)
(*                                                                         *)
(* Whether a dev process is running, which makes installers refuse,        *)
(* whether a download or build succeeds, and which directories a script    *)
(* finds binaries in are left open.                                        *)
(***************************************************************************)
EXTENDS Naturals, FiniteSets

CONSTANTS
  Scripts,      \* script processes at a time
  Paths, Main,  \* where binaries are installed; ~/.local/bin/hover-clock
  None,         \* no such file
  MaxMishaps,   \* bound: scripts stopped, commands that failed
  MaxRemovals   \* bound: uninstalls that removed the lock file

ASSUME PathsAssumption == IsFiniteSet(Paths) /\ Main \in Paths /\ None \notin Paths
ASSUME LimitAssumption == MaxMishaps \in Nat /\ MaxRemovals \in Nat

VARIABLES
  flock,        \* the machine has a flock command
  \* files
  installed,    \* paths with a binary
  stash,        \* slots of prod-bin in use, with the path each binary came from
  unit, wanted, \* the path the systemd unit starts, if any; it is enabled
  desktop,      \* the path the autostart entry starts, if any,
  hidden,       \* and the one that a swap has put away
  state,        \* the swap state file: whether it exists and what it records
  generation,   \* which file the lock's path names
  \* scripts
  pc, prog,     \* what each is about to do, in which script
  opened,       \* generation of the lock file it has open
  bindir,       \* where an installer puts the binary
  todo, moved,  \* binaries left to handle; <<slot, path>> moved, not recorded
  slot,         \* the shell variable i of swap-to-dev
  service, autostart,  \* the shell variables of these names
  \* history
  mishaps,      \* so far
  cut,          \* steps at which a script stopped, and what else went wrong
  overlapped    \* two have been past the lock at a time

binaries     == <<installed, stash>>
registration == <<unit, wanted, desktop, hidden>>
files        == <<binaries, registration, state>>
locals       == <<bindir, todo, moved, slot, service, autostart>>
history      == <<mishaps, cut, overlapped>>
vars == <<flock, installed, stash, unit, wanted, desktop, hidden, state, generation, pc, prog,
          opened, bindir, todo, moved, slot, service, autostart, mishaps, cut, overlapped>>

Programs == {"swap-to-dev", "swap-to-prod", "install", "release", "uninstall"}
Slots    == 0 .. Cardinality(Paths) - 1
NoState  == [exists |-> FALSE, service |-> FALSE, autostart |-> FALSE, bins |-> {}]
Nothing  == <<>>

Init ==
  /\ flock \in BOOLEAN
  /\ installed \in {{}, {Main}, Paths}
  /\ unit \in {None} \cup ({Main} \cap installed) /\ wanted = (unit # None)
  /\ desktop \in {None} \cup (IF unit = None THEN {Main} \cap installed ELSE {})
  /\ hidden = None /\ stash = {} /\ state = NoState /\ generation = 0
  /\ pc = [s \in Scripts |-> "idle"] /\ prog = [s \in Scripts |-> "install"]
  /\ opened = [s \in Scripts |-> 0] /\ bindir = [s \in Scripts |-> Main]
  /\ todo = [s \in Scripts |-> {}] /\ moved = [s \in Scripts |-> Nothing]
  /\ slot = [s \in Scripts |-> 0]
  /\ service = [s \in Scripts |-> FALSE] /\ autostart = [s \in Scripts |-> FALSE]
  /\ mishaps = 0 /\ cut = {} /\ overlapped = FALSE

-----------------------------------------------------------------------------
Goto(s, step) == pc' = [pc EXCEPT ![s] = step]

\* A step of s goes from one command to the next; the files it leaves alone and
\* the shell variables it does not set are each action's own to say.
Step(s, program, from, to) ==
  /\ pc[s] = from /\ prog[s] = program
  /\ Goto(s, to)
  /\ UNCHANGED <<flock, generation, prog, opened>>

Clear(f, s, value) == [f EXCEPT ![s] = value]

\* The script is over, and with it its shell variables and its lock.
Ends(s) ==
  /\ Goto(s, "idle")
  /\ prog' = Clear(prog, s, "install") /\ opened' = Clear(opened, s, 0)
  /\ bindir' = Clear(bindir, s, Main)
  /\ todo' = Clear(todo, s, {}) /\ moved' = Clear(moved, s, Nothing)
  /\ slot' = Clear(slot, s, 0)
  /\ service' = Clear(service, s, FALSE) /\ autostart' = Clear(autostart, s, FALSE)
  /\ UNCHANGED <<flock, generation>>

\* Something went wrong, but the script goes on.
Mishap(what) ==
  /\ mishaps < MaxMishaps /\ mishaps' = mishaps + 1
  /\ cut' = cut \cup {what}
  /\ UNCHANGED overlapped

\* Past the lock, which is held on the file opened: its path may no longer name it.
Holds(s) == pc[s] \notin {"idle", "lock"}

\* exec 9>lock ...
Launch(s, program) ==
  /\ pc[s] = "idle"
  /\ Goto(s, "lock")
  /\ prog' = [prog EXCEPT ![s] = program]
  /\ opened' = [opened EXCEPT ![s] = generation]
  /\ UNCHANGED <<flock, files, generation, locals, history>>

Passes_Shared(s) == flock \/ prog[s] \in {"release", "uninstall"}   \* mutant: a shared lock
\* ... and flock -n: refused when it is held.  Where there is no flock command most
\* scripts take its failure for that; two ask first, and do without the lock.
Passes(s) ==
  IF flock THEN \A t \in Scripts : ~(Holds(t) /\ opened[t] = opened[s])
           ELSE prog[s] \in {"release", "uninstall"}

Lock(s) ==
  /\ pc[s] = "lock" /\ Passes(s)
  /\ Goto(s, "check")
  /\ overlapped' = (overlapped \/ \E t \in Scripts : Holds(t))
  /\ UNCHANGED <<flock, files, generation, prog, opened, locals, mishaps, cut>>

LockedOut(s) ==
  /\ pc[s] = "lock" /\ ~Passes(s)
  /\ Ends(s)
  /\ UNCHANGED <<files, history>>

\* swap-to-dev and the installers refuse in dev mode, swap-to-prod outside it.
Refuses(s) ==
  /\ pc[s] = "check"
  /\ \/ prog[s] = "swap-to-dev" /\ state.exists
     \/ prog[s] = "swap-to-prod" /\ ~state.exists
     \/ prog[s] \in {"install", "release"}
  /\ Ends(s)
  /\ UNCHANGED <<files, history>>

-----------------------------------------------------------------------------
(***************************************************************************)
(* swap-to-dev: hide the registration, write the state file, then stash    *)
(* and record one binary at a time.                                        *)
(***************************************************************************)

\* `disable ... || true`: when it fails the script goes on.
Unregister(s) ==
  /\ Step(s, "swap-to-dev", "check", "hide") /\ ~state.exists
  /\ service' = [service EXCEPT ![s] = unit # None]
  /\ \/ wanted' = (wanted /\ unit = None) /\ UNCHANGED history
     \/ unit # None /\ Mishap("disable") /\ UNCHANGED wanted
  /\ UNCHANGED <<binaries, unit, desktop, hidden, state, bindir, todo, moved, slot, autostart>>

HideEntry(s) ==
  /\ Step(s, "swap-to-dev", "hide", "record")
  /\ autostart' = [autostart EXCEPT ![s] = desktop # None]
  /\ desktop' = None /\ hidden' = IF desktop # None THEN desktop ELSE hidden
  /\ UNCHANGED <<binaries, unit, wanted, state, bindir, todo, moved, slot, service, history>>

WriteState(s) ==
  /\ Step(s, "swap-to-dev", "record", "stash")
  /\ state' = [exists |-> TRUE, service |-> service[s], autostart |-> autostart[s], bins |-> {}]
  /\ todo' = [todo EXCEPT ![s] = installed]
  /\ UNCHANGED <<binaries, registration, bindir, moved, slot, service, autostart, history>>

\* mv overwrites what the slot may hold.
Stash_Unnamed(s, p) ==              \* mutant: the record names nothing
  /\ Step(s, "swap-to-dev", "stash", "append")
  /\ p \in todo[s] /\ p \in installed
  /\ stash' = {b \in stash : b[1] # slot[s]} \cup {<<slot[s], p>>}
  /\ installed' = installed \ {p}
  /\ todo' = [todo EXCEPT ![s] = @ \ {p}]
  /\ UNCHANGED <<registration, state, bindir, moved, slot, service, autostart, history>>
Stash(s, p) ==
  /\ Step(s, "swap-to-dev", "stash", "append")
  /\ p \in todo[s] /\ p \in installed
  /\ stash' = {b \in stash : b[1] # slot[s]} \cup {<<slot[s], p>>}
  /\ moved' = [moved EXCEPT ![s] = <<slot[s], p>>]
  /\ installed' = installed \ {p}
  /\ todo' = [todo EXCEPT ![s] = @ \ {p}]
  /\ UNCHANGED <<registration, state, bindir, slot, service, autostart, history>>

Append(s) ==
  /\ Step(s, "swap-to-dev", "append", "stash")
  /\ state' = [state EXCEPT !.exists = TRUE, !.bins = @ \cup {moved[s]}]
  /\ moved' = [moved EXCEPT ![s] = Nothing]
  /\ slot' = [slot EXCEPT ![s] = @ + 1]
  /\ UNCHANGED <<binaries, registration, bindir, todo, service, autostart, history>>

\* flock -u, and cargo run.  What is not stashed was in none of the directories it
\* looked in, or in one that it cannot write.
DevReady(s) ==
  /\ pc[s] = "stash"
  /\ Ends(s)
  /\ UNCHANGED <<files, history>>

-----------------------------------------------------------------------------
(***************************************************************************)
(* swap-to-prod: put back what the state file records, remove it, then     *)
(* restore the registration.                                               *)
(***************************************************************************)
ReadState(s) ==
  /\ Step(s, "swap-to-prod", "check", "restore") /\ state.exists
  /\ service' = [service EXCEPT ![s] = state.service]
  /\ autostart' = [autostart EXCEPT ![s] = state.autostart]
  /\ todo' = [todo EXCEPT ![s] = state.bins]
  /\ UNCHANGED <<files, bindir, moved, slot, history>>

\* A recorded binary goes back, unless there is one in its place by now.
Restore(s, b) ==
  /\ Step(s, "swap-to-prod", "restore", "restore")
  /\ b \in todo[s]
  /\ todo' = [todo EXCEPT ![s] = @ \ {b}]
  /\ installed' = IF \E c \in stash : c[1] = b[1] THEN installed \cup {b[2]} ELSE installed
  /\ stash' = {c \in stash : c[1] # b[1]}
  /\ UNCHANGED <<registration, state, bindir, moved, slot, service, autostart, history>>

\* "cannot restore ... (directory not writable)": it stays in the stash.
LeaveStashed(s, b) ==
  /\ Step(s, "swap-to-prod", "restore", "restore")
  /\ b \in todo[s] /\ b[2] \notin installed
  /\ todo' = [todo EXCEPT ![s] = @ \ {b}]
  /\ Mishap("unwritable")
  /\ UNCHANGED <<files, bindir, moved, slot, service, autostart>>

Forget_Early(s) ==                  \* mutant: the state file goes first
  /\ Step(s, "swap-to-prod", "restore", "unhide")
  /\ todo' = [todo EXCEPT ![s] = {}] /\ state' = NoState
  /\ UNCHANGED <<binaries, registration, bindir, moved, slot, service, autostart, history>>
Forget(s) ==
  /\ Step(s, "swap-to-prod", "restore", "unhide")
  /\ todo[s] = {}
  /\ state' = NoState
  /\ UNCHANGED <<binaries, registration, locals, history>>

Unhide(s) ==
  /\ Step(s, "swap-to-prod", "unhide", "enable")
  /\ IF autostart[s] /\ hidden # None THEN desktop' = hidden /\ hidden' = None
                                      ELSE UNCHANGED <<desktop, hidden>>
  /\ UNCHANGED <<binaries, unit, wanted, state, locals, history>>

\* daemon-reload and enable, where there is a unit to enable.
Enable(s) ==
  /\ pc[s] = "enable"
  /\ wanted' = (wanted \/ (service[s] /\ unit # None))
  /\ Ends(s)
  /\ UNCHANGED <<binaries, unit, desktop, hidden, state, history>>

-----------------------------------------------------------------------------
(***************************************************************************)
(* The installers put the binary first, in HOVERCLOCK_BIN_DIR, then        *)
(* register it (upgrade and --no-service do not): with a unit that is      *)
(* enabled next, or with an autostart entry.                               *)
(***************************************************************************)

\* install unlinks what it replaces ...
Replace(s, p) ==
  /\ \E program \in {"install", "release"} : Step(s, program, "check", "copy")
  /\ ~state.exists
  /\ bindir' = [bindir EXCEPT ![s] = p]
  /\ installed' = installed \ {p}
  /\ UNCHANGED <<stash, registration, state, todo, moved, slot, service, autostart, history>>

\* ... and then copies.
PutBinary(s) ==
  /\ Step(s, prog[s], "copy", "register")
  /\ installed' = installed \cup {bindir[s]}
  /\ UNCHANGED <<stash, registration, state, locals, history>>

\* install-release writes the directory into the unit; install copies a unit that
\* names ~/.local/bin, wherever the binary is.
RegisterUnit(s) ==
  /\ Step(s, prog[s], "register", "enroll")
  /\ unit' = IF prog[s] = "release" THEN bindir[s] ELSE Main
  /\ IF unit' = bindir[s] THEN UNCHANGED history ELSE Mishap("elsewhere")
  /\ UNCHANGED <<binaries, wanted, desktop, hidden, state, locals>>

Enroll(s) ==
  /\ pc[s] = "enroll"
  /\ wanted' = TRUE
  /\ Ends(s)
  /\ UNCHANGED <<binaries, unit, desktop, hidden, state, history>>

RegisterEntry(s) ==
  /\ pc[s] = "register"
  /\ desktop' \in {desktop, bindir[s]}
  /\ Ends(s)
  /\ UNCHANGED <<binaries, unit, wanted, hidden, state, history>>

\* Somebody installs a binary without the scripts (cargo install, tar).
ByHand(p) ==
  /\ installed' = installed \cup {p}
  /\ UNCHANGED <<flock, stash, registration, state, generation, pc, prog, opened, locals, history>>

-----------------------------------------------------------------------------
(***************************************************************************)
(* uninstall: registration, then binaries, then the whole state directory, *)
(* the lock file it holds included.                                        *)
(***************************************************************************)
RemoveBinaries_First(s) ==          \* mutant: binaries before the registration
  /\ Step(s, "uninstall", "check", "deregister") /\ generation < MaxRemovals
  /\ installed' = {}
  /\ UNCHANGED <<stash, registration, state, locals, history>>
Disable(s) ==                       \* ... || true
  /\ Step(s, "uninstall", "check", "deregister") /\ generation < MaxRemovals
  /\ wanted' \in {wanted, FALSE}
  /\ UNCHANGED <<binaries, unit, desktop, hidden, state, locals, history>>

RemoveUnit(s) ==
  /\ Step(s, "uninstall", "deregister", "dismiss")
  /\ unit' = None
  /\ UNCHANGED <<binaries, wanted, desktop, hidden, state, locals, history>>

RemoveEntry(s) ==
  /\ Step(s, "uninstall", "dismiss", "remove")
  /\ desktop' = None
  /\ UNCHANGED <<binaries, unit, wanted, hidden, state, locals, history>>

RemoveBinary(s, p) ==
  /\ Step(s, "uninstall", "remove", "remove")
  /\ p \in installed /\ installed' = installed \ {p}
  /\ UNCHANGED <<stash, registration, state, locals, history>>

\* It has looked everywhere it looks.
BinariesRemoved(s) ==
  /\ Step(s, "uninstall", "remove", "purge")
  /\ UNCHANGED <<files, locals, history>>

\* rm -rf takes the files of the state directory in any order, ...
RemoveState(s) ==
  /\ pc[s] \in {"purge", "unlocked"}
  /\ \/ state.exists /\ state' = NoState /\ UNCHANGED <<stash, hidden>>
     \/ \E b \in stash : stash' = stash \ {b} /\ UNCHANGED <<state, hidden>>
     \/ hidden # None /\ hidden' = None /\ UNCHANGED <<state, stash>>
  /\ UNCHANGED <<flock, installed, unit, wanted, desktop, generation, pc, prog, opened, locals,
                 history>>

\* ... the lock file among them: from now on its path names another, ...
RemoveLock(s) ==
  /\ pc[s] = "purge" /\ Goto(s, "unlocked")
  /\ generation' = generation + 1
  /\ UNCHANGED <<flock, files, prog, opened, locals, history>>

\* ... until none is left but what another script has put there meanwhile.
Purged(s) ==
  /\ pc[s] = "unlocked"
  /\ (~state.exists /\ stash = {} /\ hidden = None) \/ overlapped
  /\ Ends(s)
  /\ UNCHANGED <<files, history>>

-----------------------------------------------------------------------------
\* A script is killed, the machine goes down, or a command fails under set -e: the
\* command it was about to run is not run, nor are those after it.
Stops(s) ==
  /\ pc[s] # "idle"
  /\ Mishap(pc[s])
  /\ Ends(s)
  /\ UNCHANGED files

ScriptStep(s) ==
  \/ \E program \in Programs : Launch(s, program)
  \/ Lock(s) \/ LockedOut(s) \/ Refuses(s)
  \/ Unregister(s) \/ HideEntry(s) \/ WriteState(s)
  \/ \E p \in Paths : Stash(s, p) \/ Replace(s, p) \/ RemoveBinary(s, p)
  \/ Append(s) \/ DevReady(s)
  \/ ReadState(s)
  \/ \E b \in Slots \X Paths : Restore(s, b) \/ LeaveStashed(s, b)
  \/ Forget(s) \/ Unhide(s) \/ Enable(s)
  \/ PutBinary(s) \/ RegisterUnit(s) \/ Enroll(s) \/ RegisterEntry(s)
  \/ Disable(s) \/ RemoveUnit(s) \/ RemoveEntry(s) \/ BinariesRemoved(s)
  \/ RemoveState(s) \/ RemoveLock(s) \/ Purged(s)
  \/ Stops(s)

Next ==
  \/ \E s \in Scripts : ScriptStep(s)
  \/ \E p \in Paths : ByHand(p)

Spec == Init /\ [][Next]_vars

-----------------------------------------------------------------------------
(***************************************************************************)
(* Properties.                                                             *)
(***************************************************************************)

\* Every variable has its type.
TypeOK ==
  /\ flock \in BOOLEAN /\ generation \in Nat
  /\ installed \subseteq Paths /\ stash \subseteq Slots \X Paths
  /\ unit \in Paths \cup {None} /\ wanted \in BOOLEAN
  /\ desktop \in Paths \cup {None} /\ hidden \in Paths \cup {None}
  /\ state \in [exists : BOOLEAN, service : BOOLEAN, autostart : BOOLEAN,
                bins : SUBSET (Slots \X Paths)]
  /\ \A s \in Scripts : moved[s] \in (Slots \X Paths) \cup {Nothing}

\* On a machine that has flock, and until an uninstall removes the lock file that
\* it holds, two scripts are never past the lock at a time.
Serialized == overlapped => ~flock \/ generation > 0

\* What the desktop starts at the next login.
Started == {p \in {unit} : wanted} \cup {desktop}

\* Whenever the user logs in, a registration that would start the daemon finds its
\* binary, unless it is just being replaced: also after scripts were stopped half-way
\* and others run after them.  What can break it: a stop between the stashing of a
\* binary and its recording, in the replacing of one, or while uninstall removes
\* binaries and state; a disable that fails and is ignored; an install whose
\* directory is not the unit's; a stashed binary that cannot be put back.
LoginWindows == {"append", "copy", "remove", "purge", "unlocked",
                 "disable", "elsewhere", "unwritable"}

LoginFindsBinary ==
  ~overlapped /\ cut \cap LoginWindows = {} =>
    \A p \in Started \ {None} :
      p \in installed \/ \E s \in Scripts : pc[s] = "copy" /\ bindir[s] = p

\* Everything a swap has put away is on record, or in the hands of the script
\* that is putting it away or back, or removes it: swap-to-prod can always be run
\* again.  Stops between a change and its recording, or between the removal of the
\* record and what it asks for, are the exceptions.
Hiding(s)     == pc[s] \in {"hide", "record"}
Finishing(s)  == pc[s] \in {"unhide", "enable"}
Purging(s)    == pc[s] \in {"purge", "unlocked"}
SwapWindows   == {"hide", "record", "append", "unhide", "enable", "enroll", "deregister",
                  "purge", "unlocked", "unwritable"}

Recoverable ==
  ~overlapped /\ cut \cap SwapWindows = {} =>
    /\ \A b \in stash : b \in state.bins \/ \E s \in Scripts : moved[s] = b \/ Purging(s)
    /\ hidden # None =>
         \/ state.autostart
         \/ \E s \in Scripts : (autostart[s] /\ (Hiding(s) \/ Finishing(s))) \/ Purging(s)
    /\ unit # None /\ ~wanted =>
         \/ state.service
         \/ \E s \in Scripts : service[s] /\ (Hiding(s) \/ Finishing(s))
         \/ \E s \in Scripts : pc[s] \in {"enroll", "deregister"}
=============================================================================
