----------------------------- MODULE SelfUpdate -----------------------------
(***************************************************************************)
(* The release check and the click-to-update button (VersionUi in          *)
(* src/src/main.rs), and the update a click starts (src/src/update.rs).    *)
(*                                                                         *)
(* Checks and updates run on worker threads; what they find reaches the    *)
(* widgets through the main context, in the order in which they finish.    *)
(* The update works on files that outlive it: the staged copy and the      *)
(* installed binary.  A version is a number; Bad is a file that is absent, *)
(* partial or corrupt, or a check without an answer.                       *)
(***************************************************************************)
EXTENDS Naturals, Sequences

CONSTANTS
  Workers,      \* update threads
  MaxVersion,   \* bound: versions published
  FaultSets     \* what may go wrong around the daemon, for each behaviour

ASSUME VersionAssumption == MaxVersion \in Nat \ {0}
ASSUME FaultAssumption ==
  FaultSets \subseteq SUBSET
                   {"spawn",      \* the re-exec helper cannot be spawned
                    "systemctl",  \* systemctl restart fails
                    "manual",     \* the enabled unit did not start this daemon
                    "unquoted",   \* the binary's path is not one word to sh
                    "replaced",   \* somebody else installs a binary meanwhile
                    "stopped"}    \* the user stops, kills or restarts the daemon

Bad      == 0
Versions == 1 .. MaxVersion

VARIABLES
  faults,       \* what may go wrong in this behaviour
  published,    \* latest release on GitHub
  \* the daemon's process image
  alive, runs,  \* ... and the version it runs
  managed,      \* the systemd unit started it
  exe,          \* what /proc/self/exe names: the "path" or a "deleted" file
  \* the version UI
  visible, sensitive, label, release,
  \* worker threads
  checking,     \* a release check is under way
  step, wants,  \* what each update thread is about to do, for which release
  target,       \* ... and what current_exe() named when it staged
  inbox,        \* results posted to the main context, not yet applied
  \* files
  tarball, extracted, staged, disk,
  stray,        \* what an update has put under the name of a deleted file
  helper        \* the detached helper, and the file it will exec

outside == <<faults, published, stray>>
image   == <<alive, runs, managed, exe>>
ui      == <<visible, sensitive, label, release>>
threads == <<step, wants, target>>
files   == <<tarball, extracted, staged, disk>>
vars    == <<faults, published, alive, runs, managed, exe, visible, sensitive, label, release,
             checking, step, wants, target, inbox, tarball, extracted, staged, disk, stray,
             helper>>

Phases == {"idle", "download", "verify", "extract", "stage", "copy", "rename", "restart"}

\* Is the systemd unit enabled?  (It is whenever it started the daemon.)
UnitEnabled == managed \/ "manual" \in faults

FreshUi ==
  /\ visible' = FALSE /\ sensitive' = TRUE /\ label' = Bad /\ release' = Bad
  /\ checking' = FALSE /\ inbox' = <<>>
  /\ step' = [w \in Workers |-> "idle"] /\ wants' = [w \in Workers |-> Bad]
  /\ target' = [w \in Workers |-> "path"]
  /\ tarball' = Bad /\ extracted' = Bad

Init ==
  /\ faults \in FaultSets /\ published \in Versions
  /\ alive = TRUE /\ runs = 1 /\ disk = 1 /\ exe = "path"
  /\ managed \in BOOLEAN
  /\ visible = FALSE /\ sensitive = TRUE /\ label = Bad /\ release = Bad
  /\ checking = FALSE /\ inbox = <<>>
  /\ step = [w \in Workers |-> "idle"] /\ wants = [w \in Workers |-> Bad]
  /\ target = [w \in Workers |-> "path"]
  /\ tarball = Bad /\ extracted = Bad /\ staged = Bad /\ stray = Bad
  /\ helper = "none"

\* The daemon starts from the installed binary, or from a stray one.
NewImage(byUnit, from) ==
  /\ alive' = TRUE /\ managed' = byUnit
  /\ exe' = from /\ runs' = IF from = "path" THEN disk ELSE stray
  /\ FreshUi
  /\ UNCHANGED <<staged, disk>>

\* The process ends; its threads vanish, its files stay.
Dies ==
  /\ alive' = FALSE
  /\ FreshUi
  /\ UNCHANGED <<runs, managed, exe, staged, disk>>

-----------------------------------------------------------------------------
(***************************************************************************)
(* The version check.                                                      *)
(***************************************************************************)

\* A release is published, or retracted.
Publish(v) ==
  /\ v # published
  /\ published' = v
  /\ UNCHANGED <<faults, stray, image, ui, checking, threads, inbox, files, helper>>

\* At startup and hourly; its timeouts are much shorter than an hour.
StartCheck ==
  /\ alive /\ ~checking
  /\ checking' = TRUE
  /\ UNCHANGED <<outside, image, ui, threads, inbox, files, helper>>

\* latest_release: what is published now, or nothing when it cannot be told.
Posted(kind) == \E i \in DOMAIN inbox : inbox[i].kind = kind

CheckReturns ==
  /\ checking /\ ~Posted("check")
  /\ \E latest \in {published, Bad} :
       inbox' = Append(inbox, [kind |-> "check", version |-> latest])
  /\ UNCHANGED <<outside, image, ui, checking, threads, files, helper>>

\* show_version, with label_text's verdict whether this is outdated.
ApplyCheck_Enables ==              \* mutant: the button comes back enabled
  /\ inbox # <<>> /\ Head(inbox).kind = "check"
  /\ LET latest == Head(inbox).version
     IN  release' = latest /\ visible' = (latest > runs) /\ sensitive' = TRUE
           /\ label' = IF latest > runs THEN latest ELSE label
  /\ checking' = FALSE /\ inbox' = Tail(inbox)
  /\ UNCHANGED <<outside, image, threads, files, helper>>
ApplyCheck_Shows ==                \* mutant: the button is not hidden again
  /\ inbox # <<>> /\ Head(inbox).kind = "check"
  /\ LET latest == Head(inbox).version
     IN  release' = latest /\ visible' = (visible \/ latest > runs)
           /\ label' = IF latest > runs THEN latest ELSE label
  /\ checking' = FALSE /\ inbox' = Tail(inbox)
  /\ UNCHANGED <<outside, image, sensitive, threads, files, helper>>
ApplyCheck ==
  /\ inbox # <<>> /\ Head(inbox).kind = "check"
  /\ LET latest   == Head(inbox).version
         outdated == latest > runs
     IN  /\ release' = latest
         /\ visible' = outdated
         /\ label' = IF outdated THEN latest ELSE label
  /\ checking' = FALSE
  /\ inbox' = Tail(inbox)
  /\ UNCHANGED <<outside, image, sensitive, threads, files, helper>>

-----------------------------------------------------------------------------
(***************************************************************************)
(* The update.                                                             *)
(***************************************************************************)

\* A click starts a thread for the pending release; the label names none.
Click(w) ==
  /\ alive /\ visible /\ sensitive /\ release # Bad
  /\ step[w] = "idle"
  /\ step' = [step EXCEPT ![w] = "download"]
  /\ wants' = [wants EXCEPT ![w] = release]
  /\ label' = Bad /\ sensitive' = FALSE
  /\ UNCHANGED <<outside, image, visible, release, checking, target, inbox, files, helper>>

Advance(w, from, to) == step[w] = from /\ step' = [step EXCEPT ![w] = to]

UpdateOnly == UNCHANGED <<outside, image, ui, checking, helper>>

\* The thread ends; its result says which release it was for.
Post(w, kind) ==
  /\ inbox' = Append(inbox, [kind |-> kind, version |-> wants[w]])
  /\ step' = [step EXCEPT ![w] = "idle"]
  /\ wants' = [wants EXCEPT ![w] = Bad]
  /\ target' = [target EXCEPT ![w] = "path"]

\* The tarball arrives whole or corrupt.
Download(w) ==
  /\ Advance(w, "download", "verify")
  /\ tarball' \in {wants[w], Bad}
  /\ UpdateOnly /\ UNCHANGED <<wants, target, inbox, extracted, staged, disk>>

\* The checksum is that of the release.
Verify_Trusts(w) ==                \* mutant: any checksum will do
  /\ Advance(w, "verify", "extract")
  /\ UpdateOnly /\ UNCHANGED <<wants, target, inbox, files>>
Verify(w) ==
  /\ Advance(w, "verify", "extract") /\ tarball = wants[w]
  /\ UpdateOnly /\ UNCHANGED <<wants, target, inbox, files>>

Extract(w) ==
  /\ Advance(w, "extract", "stage")
  /\ extracted' = tarball
  /\ UpdateOnly /\ UNCHANGED <<wants, target, inbox, tarball, staged, disk>>

\* fs::copy truncates the staged file, then fills it.
BeginStage(w) ==
  /\ Advance(w, "stage", "copy")
  /\ staged' = Bad
  /\ target' = [target EXCEPT ![w] = exe]
  /\ UpdateOnly /\ UNCHANGED <<wants, inbox, tarball, extracted, disk>>

EndStage(w) ==
  /\ Advance(w, "copy", "rename")
  /\ staged' = extracted
  /\ UpdateOnly /\ UNCHANGED <<wants, target, inbox, tarball, extracted, disk>>

\* rename(2) over what current_exe() named; the running file loses its name.  If
\* it had lost it already, the name of a deleted file is not where the next start
\* looks.
Rename(w) ==
  /\ Advance(w, "rename", "restart")
  /\ disk' = IF target[w] = "path" THEN staged ELSE disk
  /\ stray' = IF target[w] = "path" THEN stray ELSE staged
  /\ exe' = "deleted"
  /\ staged' = Bad /\ tarball' = Bad /\ extracted' = Bad
  /\ UNCHANGED <<faults, published, alive, runs, managed, ui, checking, wants, target, inbox,
                 helper>>

\* Any step but the restart may fail; verifying a corrupt tarball always does.  A
\* mismatch or a failed extraction removes the work directory.
Fails(w) ==
  /\ step[w] \notin {"idle", "restart"}
  /\ Post(w, "failed")
  /\ IF step[w] \in {"verify", "extract"}
     THEN tarball' = Bad /\ extracted' = Bad
     ELSE UNCHANGED <<tarball, extracted>>
  /\ UpdateOnly /\ UNCHANGED <<staged, disk>>

\* restart(): the unit if it is enabled, and a detached helper otherwise.
SystemctlRestarts(w) ==
  /\ step[w] = "restart" /\ managed
  /\ NewImage(TRUE, "path")
  /\ UNCHANGED <<outside, helper>>

\* The unit starts a second daemon, which the socket guard refuses.
SystemctlStartsAnother(w) ==
  /\ step[w] = "restart" /\ ~managed /\ UnitEnabled
  /\ Post(w, "updated")
  /\ UpdateOnly /\ UNCHANGED files

HelperNeeded == ~UnitEnabled \/ "systemctl" \in faults

ExitForHelper_Stays(w) ==          \* mutant: the process does not exit
  /\ step[w] = "restart" /\ HelperNeeded /\ Post(w, "updated")
  /\ UNCHANGED <<outside, image, ui, checking, files, helper>>
ExitForHelper(w) ==
  /\ step[w] = "restart" /\ HelperNeeded
  /\ Dies
  /\ helper' = IF managed THEN "none" ELSE target[w]   \* systemd ends the unit's processes
  /\ UNCHANGED outside

SpawnFails(w) ==
  /\ step[w] = "restart" /\ HelperNeeded /\ "spawn" \in faults
  /\ Post(w, "failed")
  /\ UpdateOnly /\ UNCHANGED files

\* After a second the helper execs what current_exe() named, without quotes: no
\* command sh knows when the file had lost its name or the path is more than a
\* word.  A daemon that is there already refuses it.
HelperStarts ==
  /\ helper = "path" /\ "unquoted" \notin faults /\ ~alive
  /\ NewImage(FALSE, "path")
  /\ helper' = "none"
  /\ UNCHANGED outside

HelperEnds ==
  /\ helper = "deleted" \/ (helper = "path" /\ (alive \/ "unquoted" \in faults))
  /\ helper' = "none"
  /\ UNCHANGED <<outside, image, ui, checking, threads, inbox, files>>

\* The result reaches the button: an error enables it again.
ApplyFailed_Dims ==                \* mutant: the button stays disabled
  /\ inbox # <<>> /\ Head(inbox).kind = "failed"
  /\ label' = Head(inbox).version /\ inbox' = Tail(inbox)
  /\ UNCHANGED <<outside, image, visible, sensitive, release, checking, threads, files, helper>>
ApplyFailed ==
  /\ inbox # <<>> /\ Head(inbox).kind = "failed"
  /\ label' = Head(inbox).version
  /\ sensitive' = TRUE
  /\ inbox' = Tail(inbox)
  /\ UNCHANGED <<outside, image, visible, release, checking, threads, files, helper>>

ApplyUpdated ==
  /\ inbox # <<>> /\ Head(inbox).kind = "updated"
  /\ inbox' = Tail(inbox)
  /\ UNCHANGED <<outside, image, ui, checking, threads, files, helper>>

-----------------------------------------------------------------------------
(***************************************************************************)
(* The daemon around it.                                                   *)
(***************************************************************************)
Stopped == "stopped" \in faults /\ alive /\ Dies /\ UNCHANGED <<outside, helper>>

StartDaemon ==
  /\ ~alive
  /\ \E byUnit \in BOOLEAN : NewImage(byUnit, "path")
  /\ UNCHANGED <<outside, helper>>

\* `hover-clock --restart` execs what /proc/self/exe names, and quits if it cannot:
\* a deleted file has a name of its own, which an update may have filled.
InPlaceRestart ==
  /\ "stopped" \in faults /\ alive
  /\ IF exe = "path" \/ stray # Bad THEN NewImage(managed, exe) ELSE Dies
  /\ UNCHANGED <<outside, helper>>

\* The install scripts and tar put a new file in the place of the old one.
Replaced(v) ==
  /\ "replaced" \in faults
  /\ disk' = v
  /\ exe' = IF alive THEN "deleted" ELSE exe
  /\ UNCHANGED <<outside, alive, runs, managed, ui, checking, threads, inbox,
                 tarball, extracted, staged, helper>>

-----------------------------------------------------------------------------
Check == StartCheck \/ CheckReturns \/ ApplyCheck

UpdateStep(w) ==
  \/ Download(w) \/ Verify(w) \/ Extract(w) \/ BeginStage(w) \/ EndStage(w)
  \/ Rename(w) \/ Fails(w)
  \/ SystemctlRestarts(w) \/ SystemctlStartsAnother(w)
  \/ ExitForHelper(w) \/ SpawnFails(w)

Apply == ApplyFailed \/ ApplyUpdated

Helper == HelperStarts \/ HelperEnds

Next ==
  \/ \E v \in Versions : Publish(v) \/ Replaced(v)
  \/ Check
  \/ \E w \in Workers : Click(w) \/ UpdateStep(w)
  \/ Apply \/ Helper
  \/ Stopped \/ StartDaemon \/ InPlaceRestart

Spec == Init /\ [][Next]_vars

\* Threads run, the main loop applies what they post, the helper wakes up.
Fairness == /\ \A w \in Workers : WF_vars(UpdateStep(w))
            /\ WF_vars(Apply \/ ApplyCheck) /\ WF_vars(Helper)

FairSpec == Spec /\ Fairness

-----------------------------------------------------------------------------
(***************************************************************************)
(* Properties.                                                             *)
(***************************************************************************)

\* Every variable has its type.
TypeOK ==
  /\ faults \in FaultSets /\ published \in Versions /\ runs \in Versions
  /\ {label, release, tarball, extracted, staged, disk, stray} \subseteq Versions \cup {Bad}
  /\ {alive, managed, visible, sensitive, checking} \subseteq BOOLEAN
  /\ exe \in {"path", "deleted"} /\ helper \in {"none", "path", "deleted"}
  /\ step \in [Workers -> Phases]
  /\ wants \in [Workers -> Versions \cup {Bad}]
  /\ target \in [Workers -> {"path", "deleted"}]
  /\ inbox \in Seq([kind : {"check", "failed", "updated"}, version : Versions \cup {Bad}])

Updating == {w \in Workers : step[w] # "idle"}

\* Updates share one work directory and one staged file, so at most one thread
\* updates at a time, also when checks report while it does.
OneUpdate == \A v, w \in Updating : v = w

\* The installed binary is always a whole, verified release, at whatever step
\* an update fails, is repeated or dies with the daemon.
InstallIntact == disk # Bad

\* An update only ever installs a release newer than the one that runs, even if
\* releases are retracted between a check and the click.  (What somebody else
\* installed meanwhile may be newer still.)
NeverDowngrades ==
  [][\A w \in Workers : Rename(w) /\ disk' # disk => disk' > runs]_vars

\* Unless the unit that `systemctl restart` starts is not what runs this daemon,
\* the button is disabled only while an update, or its failure, is on its way.
DisabledOnlyWhileUpdating ==
  "manual" \notin faults /\ ~sensitive => Updating # {} \/ Posted("failed")

\* Where nothing around it fails, an update that has replaced the binary ends
\* with a daemon that runs it, by the unit or by the helper.
UpdateTakesEffect ==
  (faults = {} /\ \E w \in Workers : step[w] = "restart") ~> (alive /\ runs = disk)
=============================================================================
