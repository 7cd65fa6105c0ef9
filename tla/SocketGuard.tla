---------------------------- MODULE SocketGuard ----------------------------
(***************************************************************************)
(* The life of the daemon process around its control socket: the           *)
(* single-instance guard `bind_daemon_at` (src/src/ipc.rs), call by call,  *)
(* and `run_daemon` and `reexec_daemon` (src/src/main.rs).                 *)
(*                                                                         *)
(* Every step is one system call of one process; others may take theirs in *)
(* between.  A socket file stays behind when its process dies, and a file  *)
(* that is removed leaves its listener unreachable.  A restart keeps the   *)
(* process and replaces its image.                                         *)
(***************************************************************************)
CONSTANTS
  Daemons,      \* processes that may be started with --start
  Nobody,
  MayCrash,     \* may a process be killed?
  SessionBus    \* is there a session bus to own the application's name on?

ASSUME NobodyAssumption  == Nobody \notin Daemons
ASSUME SwitchAssumption  == {MayCrash, SessionBus} \subseteq BOOLEAN

VARIABLES
  pc,         \* what each process is about to do, or how it ended
  again,      \* ... and whether its bind is the second one
  due,        \* deferred ends a running daemon has accepted
  file,       \* process whose bind made the socket file, or Nobody
  listens,    \* processes whose socket listens
  name,       \* owner of the application's bus name, or Nobody
  serving,    \* processes that installed the control plane
  crowded,    \* history: starts during which another process was alive
  overlapped  \* history: has a start ever begun while another was not through?

vars == <<pc, again, due, file, listens, name, serving, crowded, overlapped>>

Startup == {"bind", "listen", "probe", "check", "reclaim", "register"}
Gone    == {"down", "killed"}
InLoop  == {"running", "quitting"}
Steps   == Startup \cup Gone \cup InLoop \cup {"hook", "exiting"}
Dues    == {"none", "stop", "restart", "both"}

Starting == {d \in Daemons : pc[d] \in Startup}
Alive    == {d \in Daemons : pc[d] \notin Gone}

Init ==
  /\ pc = [d \in Daemons |-> "down"]
  /\ again = [d \in Daemons |-> FALSE]
  /\ due = [d \in Daemons |-> "none"]
  /\ file = Nobody
  /\ listens = {}
  /\ name = Nobody
  /\ serving = {}
  /\ crowded = {}
  /\ overlapped = FALSE

Goto(d, step) == pc' = [pc EXCEPT ![d] = step]

\* The kernel and the bus forget an image of d; the socket file stays.
Forget(d) ==
  /\ listens' = listens \ {d}
  /\ serving' = serving \ {d}
  /\ name' = IF name = d THEN Nobody ELSE name
  /\ due' = [due EXCEPT ![d] = "none"]
  /\ again' = [again EXCEPT ![d] = FALSE]

-----------------------------------------------------------------------------
(***************************************************************************)
(* Starting: bind_daemon_at, then GTK.                                     *)
(***************************************************************************)

\* History: an image of d begins, beside the others that are alive.
Begins(d) ==
  /\ crowded' = IF Alive \subseteq {d} THEN crowded \ {d} ELSE crowded \cup Starting \cup {d}
  /\ overlapped' = (overlapped \/ Starting # {})

\* `hover-clock --start`.
Start(d) ==
  /\ pc[d] \in Gone
  /\ Goto(d, "bind")
  /\ Begins(d)
  /\ UNCHANGED <<again, due, file, listens, name, serving>>

Leaves(d, how) ==
  /\ Goto(d, how)
  /\ Forget(d)
  /\ UNCHANGED <<file, crowded, overlapped>>

GivesUp(d) == Leaves(d, "down")

\* bind() fails while the file exists; a second failure is final.
Bind(d) ==
  /\ pc[d] = "bind"
  /\ file = Nobody
  /\ file' = d
  /\ Goto(d, "listen")
  /\ UNCHANGED <<again, due, listens, name, serving, crowded, overlapped>>

BindFails(d) ==
  /\ pc[d] = "bind" /\ file # Nobody
  /\ ~again[d]
  /\ Goto(d, "probe")
  /\ UNCHANGED <<again, due, file, listens, name, serving, crowded, overlapped>>

BindFailsAgain(d) == pc[d] = "bind" /\ file # Nobody /\ again[d] /\ GivesUp(d)

\* add_address listens only after it has bound.
Listen(d) ==
  /\ pc[d] = "listen"
  /\ listens' = listens \cup {d}
  /\ Goto(d, "register")
  /\ UNCHANGED <<again, due, file, name, serving, crowded, overlapped>>

\* Whoever answers is another daemon; no answer makes the file a stale one.
Answers == file \in listens
ProbeAnswered(d) == pc[d] = "probe" /\ Answers /\ GivesUp(d)

ProbeRefused_Trusts(d) ==          \* mutant: an existing file is never probed
  /\ pc[d] = "probe" /\ Goto(d, "check")
  /\ UNCHANGED <<again, due, file, listens, name, serving, crowded, overlapped>>
ProbeRefused(d) ==
  /\ pc[d] = "probe" /\ ~Answers
  /\ Goto(d, "check")
  /\ UNCHANGED <<again, due, file, listens, name, serving, crowded, overlapped>>

CheckFindsFile(d) ==
  /\ pc[d] = "check" /\ file # Nobody
  /\ Goto(d, "reclaim")
  /\ UNCHANGED <<again, due, file, listens, name, serving, crowded, overlapped>>

CheckFindsNone(d) == pc[d] = "check" /\ file = Nobody /\ GivesUp(d)

\* remove_file takes whatever is there now, then bind is tried once more.
Reclaim_NoRetry(d) ==              \* mutant: does not bind again
  pc[d] = "reclaim" /\ file # Nobody /\ file' = Nobody /\ Goto(d, "down")
    /\ Forget(d) /\ UNCHANGED <<crowded, overlapped>>
Reclaim(d) ==
  /\ pc[d] = "reclaim" /\ file # Nobody
  /\ file' = Nobody
  /\ again' = [again EXCEPT ![d] = TRUE]
  /\ Goto(d, "bind")
  /\ UNCHANGED <<due, listens, name, serving, crowded, overlapped>>

ReclaimFails(d) == pc[d] = "reclaim" /\ file = Nobody /\ GivesUp(d)

\* GTK registers the application.  The owner of the bus name builds the
\* overlay, and serves the socket if activation is available; anyone else hands
\* over to the owner and exits, without the shutdown hook.
Register(d) ==
  /\ pc[d] = "register" /\ (SessionBus => name = Nobody)
  /\ name' = d
  /\ Goto(d, "running")
  /\ serving' \in {serving, serving \cup {d}}
  /\ UNCHANGED <<again, due, file, listens, crowded, overlapped>>

HandsOver(d) == pc[d] = "register" /\ SessionBus /\ name # Nobody /\ GivesUp(d)

-----------------------------------------------------------------------------
(***************************************************************************)
(* Running and ending.                                                     *)
(***************************************************************************)

\* stop or restart is accepted, to happen 50 ms later: "both" is a restart after
\* a stop.  A stop after a restart finds the image replaced, or quitting; so does
\* what is accepted while the main loop ends.
Accept(d, kind) ==
  /\ pc[d] \in InLoop
  /\ due' = [due EXCEPT ![d] = CASE pc[d] = "running" /\ @ = "none" -> kind
                               [] pc[d] = "running" /\ @ = "stop" /\ kind = "restart" -> "both"
                               [] OTHER -> @]
  /\ UNCHANGED <<pc, again, file, listens, name, serving, crowded, overlapped>>

\* app.quit() ends the main loop once this iteration is through with what is ready.
QuitDue(d) ==
  /\ pc[d] = "running" /\ due[d] \in {"stop", "both"}
  /\ Goto(d, "quitting")
  /\ UNCHANGED <<again, due, file, listens, name, serving, crowded, overlapped>>

\* A restart fires on its own, or in the iteration that a stop has ended.
RestartFires(d) ==
  \/ pc[d] = "running" /\ due[d] = "restart"
  \/ pc[d] = "quitting" /\ due[d] = "both"

\* exec closes the sockets of the old image and leaves the file.
RestartDue_Binds(d) ==             \* mutant: the new image counts as the second try
  /\ RestartFires(d) /\ Goto(d, "bind") /\ Begins(d)
  /\ listens' = listens \ {d} /\ serving' = serving \ {d}
  /\ name' = IF name = d THEN Nobody ELSE name
  /\ due' = [due EXCEPT ![d] = "none"] /\ again' = [again EXCEPT ![d] = TRUE]
  /\ UNCHANGED file
RestartDue(d) ==
  /\ RestartFires(d)
  /\ Goto(d, "bind")
  /\ Forget(d)
  /\ Begins(d)
  /\ UNCHANGED file

\* A failed exec ends in app.quit() instead.
RestartFails(d) ==
  /\ RestartFires(d)
  /\ Goto(d, "quitting")
  /\ due' = [due EXCEPT ![d] = "stop"]
  /\ UNCHANGED <<again, file, listens, name, serving, crowded, overlapped>>

\* The main loop returns; timeouts that are still armed never fire.
LeavesLoop(d) ==
  /\ pc[d] = "quitting"
  /\ Goto(d, "hook")
  /\ UNCHANGED <<again, due, file, listens, name, serving, crowded, overlapped>>

\* The shutdown hook removes the file at the path, whoever made it.
Hook_Skips(d) ==                   \* mutant: the file is left behind
  pc[d] = "hook" /\ Goto(d, "exiting")
    /\ UNCHANGED <<again, due, file, listens, name, serving, crowded, overlapped>>
Hook(d) ==
  /\ pc[d] = "hook"
  /\ file' = Nobody
  /\ Goto(d, "exiting")
  /\ UNCHANGED <<again, due, listens, name, serving, crowded, overlapped>>

Exit(d) == pc[d] = "exiting" /\ GivesUp(d)

\* SIGKILL, SIGTERM (there is no handler for it), a panic, the end of the session.
Crash(d) == MayCrash /\ pc[d] \notin Gone /\ Leaves(d, "killed")

-----------------------------------------------------------------------------
StartupStep(d) ==
  \/ Bind(d) \/ BindFails(d) \/ BindFailsAgain(d) \/ Listen(d)
  \/ ProbeAnswered(d) \/ ProbeRefused(d)
  \/ CheckFindsFile(d) \/ CheckFindsNone(d)
  \/ Reclaim(d) \/ ReclaimFails(d)
  \/ Register(d) \/ HandsOver(d)

Ending(d) ==
  QuitDue(d) \/ RestartDue(d) \/ RestartFails(d) \/ LeavesLoop(d) \/ Hook(d) \/ Exit(d)

Next ==
  \E d \in Daemons :
    \/ Start(d) \/ StartupStep(d) \/ Ending(d) \/ Crash(d)
    \/ \E kind \in {"stop", "restart"} : Accept(d, kind)

Spec == Init /\ [][Next]_vars

\* A process that can run does.
Fairness == \A d \in Daemons : WF_vars(StartupStep(d) \/ Ending(d))

FairSpec == Spec /\ Fairness

-----------------------------------------------------------------------------
(***************************************************************************)
(* Properties.                                                             *)
(***************************************************************************)

\* Every variable has its type.
TypeOK ==
  /\ pc \in [Daemons -> Steps]
  /\ again \in [Daemons -> BOOLEAN]
  /\ due \in [Daemons -> Dues]
  /\ file \in Daemons \cup {Nobody} /\ name \in Daemons \cup {Nobody}
  /\ listens \subseteq Daemons /\ serving \subseteq Daemons
  /\ crowded \subseteq Daemons /\ overlapped \in BOOLEAN

\* The guard let these through and they have not begun to leave.
Instances == {d \in Daemons : pc[d] \in InLoop \cup {"register", "hook"}}

\* While no two starts have overlapped: never two daemons, and the one there is
\* owns the socket file, listens on it and so can be reached, through crashes,
\* stale files, restarts in place and daemons that are still exiting.
SingleInstance ==
  ~overlapped => \A d \in Instances : d \in listens /\ file = d /\ Instances = {d}

\* While no two starts have overlapped, the shutdown hook removes nobody else's
\* socket file.
HookRemovesOwn ==
  [][\A d \in Daemons : Hook(d) /\ ~overlapped => file \in {d, Nobody}]_vars

\* A start with no other process alive meanwhile gets through, even on a stale
\* socket file, whenever the process that left it died.
StartAloneSucceeds ==
  [][\A d \in Starting \ crowded : pc'[d] # "down"]_vars

\* A stop releases the control socket, unless a restart is accepted before it has
\* fired or the daemon is killed on its way.
StopReleases ==
  \A d \in Daemons :
    (pc[d] = "running" /\ due[d] = "stop")
      ~> (file # d /\ d \notin listens) \/ due[d] = "both" \/ pc[d] = "killed"

\* A restart in place comes back under the same process, although the new image
\* finds the socket file of the old one, unless the exec itself failed, the
\* process is killed or another start got in.
RestartComesBack ==
  \A d \in Daemons :
    (pc[d] = "running" /\ due[d] = "restart")
      ~> \/ pc[d] = "running" /\ due[d] = "none"
         \/ pc[d] \in {"quitting", "killed"} \/ overlapped

\* What proposal.md says of the guard: "never two daemons".  Two starts that
\* overlap can both get past it: one finds the other's file bound but not yet
\* listening, takes it for stale and removes it.
NeverTwoDaemons == \A d, e \in Instances : d = e
=============================================================================
