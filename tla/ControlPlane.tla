---------------------------- MODULE ControlPlane ----------------------------
(***************************************************************************)
(* Client invocations against the daemon: `request` (src/src/ipc.rs) and   *)
(* `run_client` (src/src/main.rs) on one side, `install` on the other.     *)
(* Each client sends one command; SocketGuard says which process listens   *)
(* on the path meanwhile, which may change at any step.                    *)
(*                                                                         *)
(* A connection belongs to the image that listened when it was made; when  *)
(* that image ends the client reads the end of the stream.  connect() has  *)
(* no timeout: while the queue of connections that a daemon has yet to     *)
(* accept is full, it waits.                                               *)
(***************************************************************************)
EXTENDS SocketGuard, Naturals

CONSTANTS
  Clients,      \* invocations, each with its command
  Retries       \* CLIENT_RETRIES

ASSUME RetriesAssumption == Retries \in Nat \ {0}

VARIABLES
  at,           \* what each client is doing, or how it ended
  left,         \* connection attempts it has left
  command,      \* what it was asked to send
  peer,         \* process it is connected to
  link,         \* "none", "open", "answered" or "closed", seen from the client
  sent,         \* clients whose command is in the stream
  full,         \* listeners whose queue of connections to accept is full
  executed      \* history: clients whose command a daemon carried out

guard   == <<pc, again, due, file, listens, name, serving, crowded, overlapped>>
clients == <<at, left, command, peer, link, sent, executed>>
cvars   == <<vars, clients, full>>

Commands == {"show", "stop", "restart"}
Ends     == {"unreachable", "unsent", "answered", "empty"}

CInit ==
  /\ Init
  /\ at = [c \in Clients |-> "idle"]
  /\ left = [c \in Clients |-> Retries]
  /\ command \in [Clients -> Commands]
  /\ peer = [c \in Clients |-> Nobody]
  /\ link = [c \in Clients |-> "none"]
  /\ sent = {} /\ executed = {} /\ full = {}

-----------------------------------------------------------------------------
(***************************************************************************)
(* The client.                                                             *)
(***************************************************************************)
GotoClient(c, state) == at' = [at EXCEPT ![c] = state]

Request(c) ==
  /\ at[c] = "idle"
  /\ GotoClient(c, "connecting")
  /\ UNCHANGED <<guard, left, command, peer, link, sent, full, executed>>

Connect(c) ==
  /\ at[c] = "connecting" /\ Answers /\ file \notin full
  /\ peer' = [peer EXCEPT ![c] = file]
  /\ link' = [link EXCEPT ![c] = "open"]
  /\ GotoClient(c, "connected")
  /\ UNCHANGED <<guard, left, command, sent, full, executed>>

\* connect() waits for room in the queue of the listener it has found ...
Block(c) ==
  /\ at[c] = "connecting" /\ Answers /\ file \in full
  /\ peer' = [peer EXCEPT ![c] = file]
  /\ GotoClient(c, "blocked")
  /\ UNCHANGED <<guard, left, command, link, sent, full, executed>>

\* ... or for its end, and then looks at the path again.
Unblocks(c) ==
  /\ at[c] = "blocked" /\ peer[c] \notin listens \cap full
  /\ GotoClient(c, "connecting")
  /\ UNCHANGED <<guard, left, command, peer, link, sent, full, executed>>

\* Nobody listens: sleep and try again, three times in all.
ConnectFails_Forever(c) ==         \* mutant: the attempt is not counted
  /\ at[c] = "connecting" /\ ~Answers
  /\ UNCHANGED cvars
ConnectFails(c) ==
  /\ at[c] = "connecting" /\ ~Answers
  /\ left' = [left EXCEPT ![c] = @ - 1]
  /\ GotoClient(c, IF left[c] = 1 THEN "unreachable" ELSE "connecting")
  /\ UNCHANGED <<guard, command, peer, link, sent, full, executed>>

\* Writing to an image that has ended is an error.
Send(c) ==
  /\ at[c] = "connected"
  /\ sent' = IF link[c] = "open" THEN sent \cup {c} ELSE sent
  /\ GotoClient(c, IF link[c] = "open" THEN "waiting" ELSE "unsent")
  /\ UNCHANGED <<guard, left, command, peer, link, full, executed>>

\* The end of the stream, with or without an answer before it ...
ReadAnswer(c) ==
  /\ at[c] = "waiting" /\ link[c] # "open"
  /\ GotoClient(c, IF link[c] = "answered" THEN "answered" ELSE "empty")
  /\ UNCHANGED <<guard, left, command, peer, link, sent, full, executed>>

\* ... or two seconds without one: read errors are ignored.
TimesOut_Resends(c) ==             \* mutant: the client connects anew
  /\ at[c] = "waiting" /\ link[c] = "open" /\ GotoClient(c, "connecting")
  /\ UNCHANGED <<guard, left, command, peer, link, sent, full, executed>>
TimesOut(c) ==
  /\ at[c] = "waiting" /\ link[c] = "open"
  /\ GotoClient(c, "empty")
  /\ UNCHANGED <<guard, left, command, peer, link, sent, full, executed>>

-----------------------------------------------------------------------------
(***************************************************************************)
(* The daemon.  The kernel accepts connections for a socket that listens;  *)
(* they are served once the control plane is installed.                    *)
(***************************************************************************)

\* What is left of the connections once the guard's step has been taken.
Sever ==
  link' = [c \in Clients |-> IF link[c] = "open" /\ peer[c] \notin listens' THEN "closed" ELSE link[c]]

\* The probe of a start is such a connect() too.
Process(d) ==
  /\ Start(d) \/ StartupStep(d) \/ Ending(d) \/ Crash(d)
  /\ ProbeAnswered(d) => file \notin full
  /\ Sever
  /\ full' = full \cap listens'
  /\ UNCHANGED <<at, left, command, peer, sent, executed>>

\* A command is carried out and answered, also for a client that has gone.
Serve_Present(d, c) ==             \* mutant: not for a client that has gone
  /\ at[c] = "waiting" /\ peer[c] = d /\ link[c] = "open" /\ c \in sent /\ d \in serving
  /\ IF command[c] = "show" THEN pc[d] \in InLoop /\ UNCHANGED guard ELSE Accept(d, command[c])
  /\ link' = [link EXCEPT ![c] = "answered"] /\ executed' = executed \cup {c}
  /\ UNCHANGED <<at, left, command, peer, sent, full>>
Serve(d, c) ==
  /\ peer[c] = d /\ link[c] = "open" /\ c \in sent
  /\ d \in serving
  /\ IF command[c] = "show"
     THEN pc[d] \in InLoop /\ UNCHANGED guard
     ELSE Accept(d, command[c])
  /\ link' = [link EXCEPT ![c] = "answered"]
  /\ executed' = executed \cup {c}
  /\ UNCHANGED <<at, left, command, peer, sent, full>>

\* Without a control plane the service accepts the connection and drops it.
DropUnserved(d, c) ==
  /\ peer[c] = d /\ link[c] = "open"
  /\ pc[d] \in InLoop /\ d \notin serving
  /\ link' = [link EXCEPT ![c] = "closed"]
  /\ UNCHANGED <<guard, at, left, command, peer, sent, full, executed>>

\* Connections of others fill the queue; the main loop accepts them.
FillQueue(d) ==
  /\ d \in listens \ full
  /\ full' = full \cup {d}
  /\ UNCHANGED <<guard, clients>>

AcceptQueued(d) ==
  /\ d \in full /\ pc[d] \in InLoop
  /\ full' = full \ {d}
  /\ UNCHANGED <<guard, clients>>

-----------------------------------------------------------------------------
ClientStep(c) ==
  \/ Connect(c) \/ Block(c) \/ Unblocks(c) \/ ConnectFails(c)
  \/ Send(c) \/ ReadAnswer(c) \/ TimesOut(c)

ServerStep(d) == \E c \in Clients : Serve(d, c) \/ DropUnserved(d, c)

CNext ==
  \/ \E c \in Clients : Request(c) \/ ClientStep(c)
  \/ \E d \in Daemons : Process(d) \/ ServerStep(d) \/ FillQueue(d) \/ AcceptQueued(d)

CSpec == CInit /\ [][CNext]_cvars

\* Clients run; whether any daemon does is left open.
CFairSpec == CSpec /\ \A c \in Clients : WF_cvars(ClientStep(c))

\* A daemon's main loop serves what is ready, and a process that can run does.
DaemonsRun ==
  \A d \in Daemons :
    WF_cvars(ServerStep(d)) /\ WF_cvars((StartupStep(d) \/ Ending(d)) /\ Process(d))

-----------------------------------------------------------------------------
(***************************************************************************)
(* Properties.                                                             *)
(***************************************************************************)

\* Every variable has its type.
CTypeOK ==
  /\ TypeOK
  /\ at \in [Clients -> {"idle", "connecting", "blocked", "connected", "waiting"} \cup Ends]
  /\ left \in [Clients -> 0 .. Retries]
  /\ command \in [Clients -> Commands]
  /\ peer \in [Clients -> Daemons \cup {Nobody}]
  /\ link \in [Clients -> {"none", "open", "answered", "closed"}]
  /\ sent \subseteq Clients /\ executed \subseteq Clients /\ full \subseteq Daemons

\* A client that reports failure has changed nothing, and never will: a daemon
\* that dies, restarts or is replaced between its attempts does not make it
\* send the command twice or report an error for one that is carried out.
FailureMeansNotDone ==
  \A c \in Clients :
    /\ at[c] \in {"unreachable", "unsent"} => c \notin executed
    /\ at[c] \in {"connecting", "blocked"} => c \notin sent

\* No client hangs, whatever daemons do: none there, one that never answers,
\* one that dies or restarts with the connection open, one that does not accept
\* for a while.  Only a queue that stays full holds a client for good: the read
\* has a timeout, connect() has none.
EveryClientEnds ==
  <>[](full = {}) => \A c \in Clients : at[c] = "connecting" ~> at[c] \in Ends

\* A command once written is carried out, also when the client gave up waiting
\* for the answer, unless the image it was written to ends or never serves.
WrittenIsDone ==
  DaemonsRun => \A c \in Clients : c \in sent ~> c \in executed \/ link[c] = "closed"
=============================================================================
