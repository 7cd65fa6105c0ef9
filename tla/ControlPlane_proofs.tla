------------------------- MODULE ControlPlane_proofs -------------------------
(***************************************************************************)
(* Proofs about the control plane, for any number of daemons, clients and  *)
(* connection attempts.                                                    *)
(*                                                                         *)
(* SocketGuard: as long as no two starts have overlapped, the guard lets   *)
(* one daemon through at a time and it owns its socket file.               *)
(*                                                                         *)
(* ControlPlane: a client that reports failure has changed nothing, and    *)
(* clients never take the guard where it would not go by itself.           *)
(***************************************************************************)
EXTENDS ControlPlane, TLAPS

\* At most one process is starting up.
OneStarting == \A d, e \in Starting : d = e

\* A socket listens from add_address to the end of the image.
ListensWhileUp ==
  \A d \in Daemons :
    d \in listens <=> pc[d] \in {"register", "running", "quitting", "hook", "exiting"}

\* The file is the process's own from bind to the shutdown hook.
OwnsFile ==
  \A d \in Daemons : pc[d] \in {"listen", "register", "running", "quitting", "hook"} => file = d

\* A file once found stale stays stale until it is removed.
StaleStaysStale ==
  \A d \in Daemons : pc[d] \in {"check", "reclaim"} => file \notin listens

Exclusive ==
  /\ OneStarting
  /\ ListensWhileUp
  /\ OwnsFile
  /\ StaleStaysStale

IInv == TypeOK /\ (~overlapped => Exclusive)

-----------------------------------------------------------------------------
\* The initial states satisfy the inductive invariant: nobody is up.
LEMMA Initially == Init => IInv
  BY NobodyAssumption
  DEF Init, IInv, Exclusive, TypeOK, OneStarting, ListensWhileUp, OwnsFile,
      StaleStaysStale, Starting, Startup, Steps, Dues, Gone

\* An image that ends leaves every variable in its type.
LEMMA LeavingTypes ==
  ASSUME TypeOK, NEW d \in Daemons, NEW how \in Gone, Leaves(d, how)
  PROVE  TypeOK'
  BY DEF TypeOK, Leaves, Goto, Forget, Steps, Dues

\* So does every other step.
LEMMA Types ==
  ASSUME TypeOK, [Next]_vars
  PROVE  TypeOK'
<1> USE DEF Goto, Steps, Startup, Starting, InLoop, Dues
<1>1. ASSUME NEW d \in Daemons, StartupStep(d) PROVE TypeOK'
  <2>1. CASE Bind(d) \/ BindFails(d) \/ Listen(d)
    BY <2>1 DEF TypeOK, Bind, BindFails, Listen
  <2>2. CASE ProbeRefused(d) \/ CheckFindsFile(d)
    BY <2>2 DEF TypeOK, ProbeRefused, CheckFindsFile
  <2>3. CASE Reclaim(d)
    BY <2>3 DEF TypeOK, Reclaim
  <2>4. CASE Register(d)
    BY <2>4 DEF TypeOK, Register
  <2>5. CASE BindFailsAgain(d) \/ ProbeAnswered(d) \/ CheckFindsNone(d)
               \/ ReclaimFails(d) \/ HandsOver(d)
    BY <2>5, LeavingTypes
    DEF Gone, GivesUp, BindFailsAgain, ProbeAnswered, CheckFindsNone, ReclaimFails, HandsOver
  <2> QED BY <1>1, <2>1, <2>2, <2>3, <2>4, <2>5 DEF StartupStep
<1>2. ASSUME NEW d \in Daemons, Ending(d) PROVE TypeOK'
  <2>1. CASE QuitDue(d) \/ RestartFails(d) \/ LeavesLoop(d) \/ Hook(d)
    BY <2>1 DEF TypeOK, QuitDue, RestartFails, LeavesLoop, Hook
  <2>2. CASE RestartDue(d)
    BY <2>2 DEF TypeOK, RestartDue, Begins, Forget
  <2>3. CASE Exit(d)
    BY <2>3, LeavingTypes DEF Exit, GivesUp, Gone
  <2> QED BY <1>2, <2>1, <2>2, <2>3 DEF Ending
<1>3. ASSUME NEW d \in Daemons, Start(d) PROVE TypeOK'
  BY <1>3 DEF TypeOK, Start, Begins
<1>4. ASSUME NEW d \in Daemons, NEW kind \in {"stop", "restart"}, Accept(d, kind)
      PROVE  TypeOK'
  <2>1. due' \in [Daemons -> Dues]
    BY <1>4 DEF TypeOK, Accept
  <2> QED
    BY <1>4, <2>1 DEF TypeOK, Accept
<1>5. ASSUME NEW d \in Daemons, Crash(d) PROVE TypeOK'
  BY <1>5, LeavingTypes DEF Crash, Gone
<1>6. CASE UNCHANGED vars
  BY <1>6 DEF TypeOK, vars
<1> QED BY <1>1, <1>2, <1>3, <1>4, <1>5, <1>6 DEF Next

-----------------------------------------------------------------------------
\* An image that ends (a refusal, an exit or a crash) disturbs nobody.
LEMMA GivingUp ==
  ASSUME TypeOK, Exclusive, NEW d \in Daemons, NEW how \in Gone, Leaves(d, how)
  PROVE  Exclusive'
<1>1. pc' = [pc EXCEPT ![d] = how] /\ listens' = listens \ {d} /\ file' = file
  BY DEF Leaves, Goto, Forget
<1>2. OneStarting'
  BY <1>1 DEF Exclusive, TypeOK, OneStarting, Starting, Startup, Gone
<1>3. ListensWhileUp' /\ OwnsFile' /\ StaleStaysStale'
  BY <1>1 DEF Gone, Exclusive, TypeOK, ListensWhileUp, OwnsFile, StaleStaysStale
<1> QED BY <1>2, <1>3 DEF Exclusive

\* One step of the startup sequence preserves Exclusive.
LEMMA StartingUp ==
  ASSUME TypeOK, Exclusive, NEW d \in Daemons, StartupStep(d)
  PROVE  Exclusive'
<1> USE NobodyAssumption
<1>1. CASE Bind(d)
  <2>1. pc[d] = "bind" /\ file = Nobody /\ file' = d /\ listens' = listens
        /\ pc' = [pc EXCEPT ![d] = "listen"]
    BY <1>1 DEF Bind, Goto
  <2>2. OneStarting' BY <2>1 DEF Exclusive, TypeOK, OneStarting, Starting, Startup
  <2>3. ListensWhileUp' BY <2>1 DEF Exclusive, TypeOK, ListensWhileUp
  <2>4. OwnsFile' BY <2>1 DEF Exclusive, TypeOK, OwnsFile
  <2>5. StaleStaysStale'
    BY <2>1 DEF Exclusive, TypeOK, OneStarting, StaleStaysStale, Starting, Startup
  <2> QED BY <2>2, <2>3, <2>4, <2>5 DEF Exclusive
<1>2. CASE BindFails(d)
  <2>1. pc[d] = "bind" /\ file' = file /\ listens' = listens
        /\ pc' = [pc EXCEPT ![d] = "probe"]
    BY <1>2 DEF BindFails, Goto
  <2>2. OneStarting' BY <2>1 DEF Exclusive, TypeOK, OneStarting, Starting, Startup
  <2>3. ListensWhileUp' /\ OwnsFile' /\ StaleStaysStale'
    BY <2>1 DEF Exclusive, TypeOK, ListensWhileUp, OwnsFile, StaleStaysStale
  <2> QED BY <2>2, <2>3 DEF Exclusive
<1>3. CASE Listen(d)
  <2>1. pc[d] = "listen" /\ file' = file /\ listens' = listens \cup {d}
        /\ pc' = [pc EXCEPT ![d] = "register"]
    BY <1>3 DEF Listen, Goto
  <2>2. OneStarting' BY <2>1 DEF Exclusive, TypeOK, OneStarting, Starting, Startup
  <2>3. ListensWhileUp' /\ OwnsFile'
    BY <2>1 DEF Exclusive, TypeOK, ListensWhileUp, OwnsFile
  <2>4. StaleStaysStale'
    BY <2>1 DEF Exclusive, TypeOK, OneStarting, StaleStaysStale, Starting, Startup
  <2> QED BY <2>2, <2>3, <2>4 DEF Exclusive
<1>4. CASE ProbeRefused(d)
  <2>1. pc[d] = "probe" /\ file \notin listens /\ file' = file /\ listens' = listens
        /\ pc' = [pc EXCEPT ![d] = "check"]
    BY <1>4 DEF ProbeRefused, Answers, Goto
  <2>2. OneStarting' BY <2>1 DEF Exclusive, TypeOK, OneStarting, Starting, Startup
  <2>3. ListensWhileUp' /\ OwnsFile' /\ StaleStaysStale'
    BY <2>1 DEF Exclusive, TypeOK, ListensWhileUp, OwnsFile, StaleStaysStale
  <2> QED BY <2>2, <2>3 DEF Exclusive
<1>5. CASE CheckFindsFile(d)
  <2>1. pc[d] = "check" /\ file' = file /\ listens' = listens
        /\ pc' = [pc EXCEPT ![d] = "reclaim"]
    BY <1>5 DEF CheckFindsFile, Goto
  <2>2. OneStarting' BY <2>1 DEF Exclusive, TypeOK, OneStarting, Starting, Startup
  <2>3. ListensWhileUp' /\ OwnsFile' /\ StaleStaysStale'
    BY <2>1 DEF Exclusive, TypeOK, ListensWhileUp, OwnsFile, StaleStaysStale
  <2> QED BY <2>2, <2>3 DEF Exclusive
<1>6. CASE Reclaim(d)
  <2>1. pc[d] = "reclaim" /\ file' = Nobody /\ listens' = listens
        /\ pc' = [pc EXCEPT ![d] = "bind"]
    BY <1>6 DEF Reclaim, Goto
  <2>2. OneStarting' BY <2>1 DEF Exclusive, TypeOK, OneStarting, Starting, Startup
  <2>3. ListensWhileUp' BY <2>1 DEF Exclusive, TypeOK, ListensWhileUp
  <2>4. ASSUME NEW e \in Daemons, pc'[e] \in {"listen", "register", "running", "quitting", "hook"}
        PROVE  FALSE
    <3>1. e # d /\ pc[e] = pc'[e] BY <2>1, <2>4 DEF Exclusive, TypeOK
    <3>2. file = e /\ file \notin listens
      BY <2>1, <2>4, <3>1 DEF Exclusive, OwnsFile, StaleStaysStale
    <3>3. pc[e] = "listen" BY <2>4, <3>1, <3>2 DEF Exclusive, ListensWhileUp
    <3> QED BY <2>1, <3>1, <3>3 DEF Exclusive, OneStarting, Starting, Startup
  <2>5. OwnsFile' BY <2>4 DEF OwnsFile
  <2>6. StaleStaysStale' BY <2>1 DEF Exclusive, TypeOK, StaleStaysStale
  <2> QED BY <2>2, <2>3, <2>5, <2>6 DEF Exclusive
<1>7. CASE Register(d)
  <2>1. pc[d] = "register" /\ file' = file /\ listens' = listens
        /\ pc' = [pc EXCEPT ![d] = "running"]
    BY <1>7 DEF Register, Goto
  <2>2. OneStarting' BY <2>1 DEF Exclusive, TypeOK, OneStarting, Starting, Startup
  <2>3. ListensWhileUp' /\ OwnsFile' /\ StaleStaysStale'
    BY <2>1 DEF Exclusive, TypeOK, ListensWhileUp, OwnsFile, StaleStaysStale
  <2> QED BY <2>2, <2>3 DEF Exclusive
<1>8. CASE BindFailsAgain(d) \/ ProbeAnswered(d) \/ CheckFindsNone(d)
             \/ ReclaimFails(d) \/ HandsOver(d)
  BY <1>8, GivingUp
  DEF Gone, GivesUp, BindFailsAgain, ProbeAnswered, CheckFindsNone, ReclaimFails, HandsOver
<1> QED
  BY <1>1, <1>2, <1>3, <1>4, <1>5, <1>6, <1>7, <1>8 DEF StartupStep

\* A step towards the end of a daemon, or of its image, preserves Exclusive.
LEMMA EndingDown ==
  ASSUME TypeOK, Exclusive, ~overlapped', NEW d \in Daemons, Ending(d)
  PROVE  Exclusive'
<1> USE NobodyAssumption
<1>1. CASE QuitDue(d) \/ RestartFails(d) \/ LeavesLoop(d)
  <2>1. PICK step \in {"quitting", "hook"} :
          /\ pc[d] \in InLoop /\ file' = file /\ listens' = listens
          /\ pc' = [pc EXCEPT ![d] = step]
    BY <1>1 DEF QuitDue, RestartFails, RestartFires, LeavesLoop, Goto, InLoop
  <2>2. OneStarting'
    BY <2>1 DEF Exclusive, TypeOK, OneStarting, Starting, Startup, InLoop
  <2>3. ListensWhileUp' /\ OwnsFile' /\ StaleStaysStale'
    BY <2>1 DEF Exclusive, TypeOK, ListensWhileUp, OwnsFile, StaleStaysStale, InLoop
  <2> QED BY <2>2, <2>3 DEF Exclusive
<1>2. CASE RestartDue(d)
  <2>1. Starting = {} /\ file' = file /\ listens' = listens \ {d}
        /\ pc' = [pc EXCEPT ![d] = "bind"]
    BY <1>2 DEF RestartDue, Begins, Goto, Forget
  <2>2. OneStarting' BY <2>1 DEF Exclusive, TypeOK, OneStarting, Starting, Startup
  <2>3. ListensWhileUp' /\ OwnsFile' /\ StaleStaysStale'
    BY <2>1 DEF Exclusive, TypeOK, ListensWhileUp, OwnsFile, StaleStaysStale
  <2> QED BY <2>2, <2>3 DEF Exclusive
<1>3. CASE Hook(d)
  <2>1. pc[d] = "hook" /\ file' = Nobody /\ listens' = listens
        /\ pc' = [pc EXCEPT ![d] = "exiting"]
    BY <1>3 DEF Hook, Goto
  <2>2. OneStarting' BY <2>1 DEF Exclusive, TypeOK, OneStarting, Starting, Startup
  <2>3. ListensWhileUp' BY <2>1 DEF Exclusive, TypeOK, ListensWhileUp
  <2>4. OwnsFile' BY <2>1 DEF Exclusive, TypeOK, OwnsFile
  <2>5. StaleStaysStale' BY <2>1 DEF Exclusive, TypeOK, StaleStaysStale
  <2> QED BY <2>2, <2>3, <2>4, <2>5 DEF Exclusive
<1>4. CASE Exit(d)
  BY <1>4, GivingUp DEF Exit, GivesUp, Gone
<1> QED BY <1>1, <1>2, <1>3, <1>4 DEF Ending

\* Every step but the start that overlaps another preserves it.
LEMMA Stepwise ==
  ASSUME TypeOK, Exclusive, ~overlapped', [Next]_vars
  PROVE  Exclusive'
<1>1. ASSUME NEW d \in Daemons, Start(d) PROVE Exclusive'
  <2>1. pc[d] \in Gone /\ Starting = {} /\ file' = file /\ listens' = listens
        /\ pc' = [pc EXCEPT ![d] = "bind"]
    BY <1>1 DEF Start, Begins, Goto
  <2>2. OneStarting' BY <2>1 DEF Exclusive, TypeOK, OneStarting, Starting, Startup
  <2>3. ListensWhileUp' /\ OwnsFile' /\ StaleStaysStale'
    BY <2>1 DEF Gone, Exclusive, TypeOK, ListensWhileUp, OwnsFile, StaleStaysStale
  <2> QED BY <2>2, <2>3 DEF Exclusive
<1>2. ASSUME NEW d \in Daemons, NEW kind \in {"stop", "restart"}, Accept(d, kind)
      PROVE  Exclusive'
  BY <1>2
  DEF Accept, Exclusive, OneStarting, Starting, ListensWhileUp, OwnsFile, StaleStaysStale
<1>3. ASSUME NEW d \in Daemons, Crash(d) PROVE Exclusive'
  BY <1>3, GivingUp DEF Crash, Gone
<1>4. CASE UNCHANGED vars
  BY <1>4
  DEF Exclusive, TypeOK, OneStarting, Starting, ListensWhileUp, OwnsFile, StaleStaysStale, vars
<1> QED BY <1>1, <1>2, <1>3, <1>4, StartingUp, EndingDown DEF Next

-----------------------------------------------------------------------------
\* Starts that have overlapped once have overlapped for good.
LEMMA OverlapStays ==
  ASSUME TypeOK, [Next]_vars, ~overlapped'
  PROVE  ~overlapped
  BY DEF Next, vars, TypeOK, Start, Begins, StartupStep, Bind, BindFails, BindFailsAgain,
         Listen, ProbeAnswered, ProbeRefused, CheckFindsFile, CheckFindsNone, Reclaim,
         ReclaimFails, Register, HandsOver, Ending, QuitDue, RestartDue, RestartFails, LeavesLoop,
         Hook, Exit, Crash, Accept, GivesUp, Leaves

\* The inductive invariant always holds.
THEOREM Invariance == Spec => []IInv
<1>1. Init => IInv BY Initially
<1>2. IInv /\ [Next]_vars => IInv' BY Types, Stepwise, OverlapStays DEF IInv
<1> QED BY <1>1, <1>2, PTL DEF Spec

\* Every variable keeps its type.
THEOREM TypeCorrect == Spec => []TypeOK
<1>1. IInv => TypeOK BY DEF IInv
<1> QED BY <1>1, Invariance, PTL

\* Never two daemons, and the one there is owns the socket file and listens on
\* it: for any number of processes, crashes and restarts, with a session bus or
\* without, until two starts overlap.
THEOREM GuardHolds == Spec => []SingleInstance
<1>1. IInv => SingleInstance
  <2> SUFFICES ASSUME IInv, ~overlapped, NEW d \in Instances
               PROVE  d \in listens /\ file = d /\ Instances = {d}
    BY DEF SingleInstance
  <2>1. ASSUME NEW e \in Instances PROVE e \in listens /\ file = e
    BY <2>1 DEF IInv, Exclusive, Instances, InLoop, ListensWhileUp, OwnsFile
  <2> QED BY <2>1
<1> QED BY <1>1, Invariance, PTL

\* Until two starts overlap, the shutdown hook never removes the socket file of
\* another daemon.
THEOREM HookIsHarmless == Spec => HookRemovesOwn
<1>1. IInv => [\A d \in Daemons : Hook(d) /\ ~overlapped => file \in {d, Nobody}]_vars
  BY DEF IInv, Exclusive, OwnsFile, Hook
<1> QED BY <1>1, Invariance, PTL DEF HookRemovesOwn

-----------------------------------------------------------------------------
(***************************************************************************)
(* A start alone.                                                          *)
(***************************************************************************)

\* What a process has not done yet, or not since its image began.
Fresh ==
  \A d \in Daemons :
    /\ pc[d] \in Gone => ~again[d]
    /\ d \in listens => pc[d] \in {"register", "hook", "exiting"} \cup InLoop
    /\ name = d => pc[d] \in {"hook", "exiting"} \cup InLoop

\* A start without company: whatever file it has found stays there, and the path
\* stays free once it has removed it.
Alone ==
  \A d \in Starting \ crowded :
    /\ Alive = {d}
    /\ pc[d] = "bind" /\ again[d] => file = Nobody
    /\ pc[d] \in {"probe", "check", "reclaim"} => file # Nobody

AInv == TypeOK /\ Fresh /\ Alone

\* An image that begins, in a process that has nothing left of an older one, is
\* alone or has made everybody's company known.
LEMMA BeginsAlone ==
  ASSUME AInv, NEW d \in Daemons, Begins(d), pc' = [pc EXCEPT ![d] = "bind"], ~again'[d]
  PROVE  Alone'
<1> USE DEF AInv, TypeOK, Starting, Startup, Alive, Gone
<1>1. CASE Alive \subseteq {d}
  <2>1. Starting' = {d} /\ Alive' = {d}
    BY <1>1
  <2> QED
    BY <2>1 DEF Alone
<1>2. CASE ~(Alive \subseteq {d})
  <2>1. Starting' \subseteq crowded'
    BY <1>2 DEF Begins
  <2> QED
    BY <2>1 DEF Alone
<1> QED BY <1>1, <1>2

\* Any other step is the start's own, if there is one without company.
LEMMA OwnStep ==
  ASSUME AInv, NEW d \in Daemons, NEW step \in Steps, pc' = [pc EXCEPT ![d] = step],
         pc[d] \notin Gone, crowded' = crowded, step \in Startup => pc[d] \in Startup,
         NEW e \in (Starting \ crowded)'
  PROVE  e = d /\ d \in Starting \ crowded /\ Alive = {d} /\ Alive' = {d}
<1> USE DEF AInv, TypeOK, Starting, Startup, Alive, Gone
<1>1. e \in Starting \ crowded
  OBVIOUS
<1>2. Alive = {e} /\ d \in Alive
  BY <1>1 DEF Alone
<1> QED BY <1>1, <1>2

LEMMA LeavesAlone ==
  ASSUME AInv, NEW d \in Daemons, pc[d] \notin Gone, NEW how \in Gone, Leaves(d, how)
  PROVE  AInv'
<1>1. TypeOK'
  BY LeavingTypes DEF AInv
<1>2. pc' = [pc EXCEPT ![d] = how] /\ crowded' = crowded /\ listens' = listens \ {d}
      /\ again' = [again EXCEPT ![d] = FALSE] /\ name' = (IF name = d THEN Nobody ELSE name)
  BY DEF Leaves, Goto, Forget
<1>3. Fresh'
  BY <1>2, NobodyAssumption DEF AInv, TypeOK, Fresh, Gone, InLoop
<1>4. ASSUME NEW e \in (Starting \ crowded)' PROVE FALSE
  <2>1. e # d
    BY <1>2 DEF AInv, TypeOK, Starting, Startup, Gone
  <2> QED
    BY <1>2, <1>4, <2>1, OwnStep DEF Gone, Steps, Startup
<1> QED BY <1>1, <1>3, <1>4 DEF AInv, Alone

\* Every step preserves the invariant.
LEMMA AInvNext == AInv /\ [Next]_vars => AInv'
<1> SUFFICES ASSUME AInv, [Next]_vars PROVE AInv'
  OBVIOUS
<1> USE NobodyAssumption
<1>t. TypeOK'
  BY Types DEF AInv
<1>1. ASSUME NEW d \in Daemons, Start(d) PROVE AInv'
  <2>1. pc' = [pc EXCEPT ![d] = "bind"] /\ pc[d] \in Gone /\ Begins(d)
        /\ UNCHANGED <<again, listens, name>>
    BY <1>1 DEF Start, Goto
  <2>2. ~again[d] /\ d \notin listens /\ name # d
    BY <2>1 DEF AInv, Fresh, Gone, InLoop
  <2>3. Fresh'
    BY <2>1, <2>2 DEF AInv, TypeOK, Fresh, Gone
  <2> QED
    BY <1>t, <2>1, <2>2, <2>3, BeginsAlone DEF AInv
<1>2. ASSUME NEW d \in Daemons, RestartDue(d) PROVE AInv'
  <2>1. pc' = [pc EXCEPT ![d] = "bind"] /\ Begins(d) /\ again' = [again EXCEPT ![d] = FALSE]
        /\ listens' = listens \ {d} /\ name' = (IF name = d THEN Nobody ELSE name)
    BY <1>2 DEF RestartDue, Goto, Forget
  <2>2. Fresh' /\ ~again'[d]
    BY <2>1 DEF AInv, TypeOK, Fresh, Gone
  <2> QED
    BY <1>t, <2>1, <2>2, BeginsAlone DEF AInv
<1>3. ASSUME NEW d \in Daemons,
             Bind(d) \/ BindFails(d) \/ Listen(d) \/ ProbeRefused(d) \/ CheckFindsFile(d)
             \/ Reclaim(d) \/ Register(d)
      PROVE  AInv'
  <2>1. PICK step \in {"listen", "probe", "register", "check", "reclaim", "bind", "running"} :
          pc' = [pc EXCEPT ![d] = step] /\ pc[d] \in Startup /\ crowded' = crowded
    BY <1>3 DEF Bind, BindFails, Listen, ProbeRefused, CheckFindsFile, Reclaim, Register,
                Goto, Startup
  <2>2. Fresh'
    BY <1>3 DEF AInv, TypeOK, Fresh, Gone, InLoop, Bind, BindFails, Listen, ProbeRefused,
                CheckFindsFile, Reclaim, Register, Goto
  <2>3. ASSUME NEW e \in (Starting \ crowded)'
        PROVE  e = d /\ d \in Starting \ crowded /\ Alive' = {d}
    BY <2>1, <2>3, OwnStep DEF Startup, Gone, Steps, InLoop
  <2>4. ASSUME NEW e \in (Starting \ crowded)'
        PROVE  /\ pc'[e] = "bind" /\ again'[e] => file' = Nobody
               /\ pc'[e] \in {"probe", "check", "reclaim"} => file' # Nobody
    BY <1>3, <2>3, <2>4 DEF AInv, TypeOK, Alone, Bind, BindFails, Listen, ProbeRefused,
                       CheckFindsFile, Reclaim, Register, Goto
  <2> QED
    BY <1>t, <2>2, <2>3, <2>4 DEF AInv, Alone
<1>4. ASSUME NEW d \in Daemons,
             BindFailsAgain(d) \/ ProbeAnswered(d) \/ CheckFindsNone(d) \/ ReclaimFails(d)
             \/ HandsOver(d) \/ Exit(d) \/ Crash(d)
      PROVE  AInv'
  BY <1>4, LeavesAlone DEF Gone, GivesUp, BindFailsAgain, ProbeAnswered, CheckFindsNone,
                           ReclaimFails, HandsOver, Exit, Crash
<1>5. ASSUME NEW d \in Daemons, QuitDue(d) \/ RestartFails(d) \/ LeavesLoop(d) \/ Hook(d)
      PROVE  AInv'
  <2>1. PICK step \in {"quitting", "hook", "exiting"} :
          pc' = [pc EXCEPT ![d] = step] /\ pc[d] \in {"hook"} \cup InLoop /\ crowded' = crowded
    BY <1>5 DEF QuitDue, RestartFails, RestartFires, LeavesLoop, Hook, Goto, InLoop
  <2>2. Fresh'
    BY <1>5 DEF AInv, TypeOK, Fresh, Gone, InLoop, QuitDue, RestartFails, RestartFires,
                LeavesLoop, Hook, Goto
  <2>3. ASSUME NEW e \in (Starting \ crowded)' PROVE FALSE
    BY <2>1, <2>3, OwnStep DEF Starting, Startup, Gone, Steps, InLoop
  <2> QED
    BY <1>t, <2>2, <2>3 DEF AInv, Alone
<1>6. ASSUME NEW d \in Daemons, NEW kind \in {"stop", "restart"}, Accept(d, kind)
      PROVE  AInv'
  BY <1>t, <1>6 DEF Accept, AInv, Fresh, Alone, Starting, Alive
<1>7. CASE UNCHANGED vars
  BY <1>t, <1>7 DEF vars, AInv, Fresh, Alone, Starting, Alive
<1> QED
  BY <1>1, <1>2, <1>3, <1>4, <1>5, <1>6, <1>7 DEF Next, StartupStep, Ending

\* A start that has no company never gives up: there is nobody to answer its
\* probe, to take the file away under it or to bind before it.
LEMMA AloneGetsThrough ==
  ASSUME AInv, [Next]_vars, NEW d \in Starting \ crowded
  PROVE  pc'[d] # "down"
<1> SUFFICES ASSUME pc'[d] = "down" PROVE FALSE
  OBVIOUS
<1> USE NobodyAssumption DEF Starting, Startup
<1>1. d \in Daemons /\ pc[d] \in Startup /\ Alive = {d}
  BY DEF AInv, Alone
<1>2. file \notin listens
      \/ pc[d] \notin {"bind", "listen", "probe", "check", "reclaim"}
  BY <1>1 DEF AInv, TypeOK, Fresh, Alive, Gone, InLoop
<1>3. pc[d] = "register" => name = Nobody
  BY <1>1 DEF AInv, TypeOK, Fresh, Alive, Gone, InLoop
<1>4. BindFailsAgain(d) \/ ProbeAnswered(d) \/ CheckFindsNone(d) \/ ReclaimFails(d) \/ HandsOver(d)
  BY <1>1 DEF AInv, TypeOK, Next, vars, Start, StartupStep, Ending, Crash, Accept, Bind,
              BindFails, Listen, ProbeRefused, CheckFindsFile, Reclaim, Register,
              BindFailsAgain, ProbeAnswered, CheckFindsNone, ReclaimFails, HandsOver, QuitDue,
              RestartDue, RestartFails, LeavesLoop, Hook, Exit, GivesUp, Leaves, Goto
<1> QED
  BY <1>1, <1>2, <1>3, <1>4 DEF AInv, Alone, BindFailsAgain, ProbeAnswered, Answers, CheckFindsNone,
                                ReclaimFails, HandsOver

\* A start with no other process alive meanwhile gets through bind_daemon_at and
\* on to the main loop, whatever socket file it finds.
THEOREM AloneSucceeds == Spec => StartAloneSucceeds
<1>1. Init => AInv
  BY NobodyAssumption
  DEF Init, AInv, TypeOK, Fresh, Alone, Steps, Dues, Starting, Startup, Gone
<1>2. AInv /\ [Next]_vars => [\A d \in Starting \ crowded : pc'[d] # "down"]_vars
  BY AloneGetsThrough
<1> QED BY <1>1, <1>2, AInvNext, PTL DEF Spec, StartAloneSucceeds

-----------------------------------------------------------------------------
(***************************************************************************)
(* The daemons and their clients.                                          *)
(***************************************************************************)
USE RetriesAssumption

Unsent == {"idle", "connecting", "blocked", "connected", "unreachable", "unsent"}

\* A client writes its command once, when it has done with connecting; only what
\* was written is carried out.
WrittenOnce ==
  /\ \A c \in Clients : at[c] \in Unsent => c \notin sent
  /\ executed \subseteq sent

\* An attempt is left while there is one to make.
AttemptsLeft == \A c \in Clients : at[c] \in {"idle", "connecting", "blocked"} => left[c] > 0

CIInv == CTypeOK /\ WrittenOnce /\ AttemptsLeft

\* Every step takes the guard to where one of its own would, or leaves it be.
LEMMA GuardSteps ==
  ASSUME CTypeOK, [CNext]_cvars PROVE [Next]_vars
<1>1. ASSUME NEW d \in Daemons, NEW c \in Clients, Serve(d, c) PROVE [Next]_vars
  <2>1. CASE command[c] = "show"
    BY <1>1, <2>1 DEF Serve, guard, vars
  <2>2. CASE command[c] # "show"
    <3>1. command[c] \in {"stop", "restart"}
      BY <2>2 DEF CTypeOK, Commands
    <3> QED
      BY <1>1, <2>2, <3>1 DEF Serve, Next
  <2> QED
    BY <2>1, <2>2
<1>2. ASSUME NEW d \in Daemons, Process(d) PROVE [Next]_vars
  BY <1>2 DEF Process, Next
<1>3. ASSUME NEW d \in Daemons, NEW c \in Clients, DropUnserved(d, c) PROVE [Next]_vars
  BY <1>3 DEF DropUnserved, guard, vars
<1>4. ASSUME NEW c \in Clients, Request(c) \/ ClientStep(c) PROVE [Next]_vars
  BY <1>4
  DEF Request, ClientStep, Connect, Block, Unblocks, ConnectFails, Send, ReadAnswer,
      TimesOut, guard, vars
<1>5. ASSUME NEW d \in Daemons, FillQueue(d) \/ AcceptQueued(d) PROVE [Next]_vars
  BY <1>5 DEF FillQueue, AcceptQueued, guard, vars
<1>6. CASE UNCHANGED cvars
  BY <1>6 DEF cvars
<1> QED
  BY <1>1, <1>2, <1>3, <1>4, <1>5, <1>6 DEF CNext, ServerStep

\* What a client does for itself keeps the invariant.
LEMMA ClientInv ==
  ASSUME CIInv, NEW c \in Clients, Request(c) \/ ClientStep(c) PROVE CIInv'
<1> USE DEF CIInv, CTypeOK, GotoClient
<1>1. TypeOK'
  <2>1. [Next]_vars
    BY GuardSteps DEF CNext
  <2> QED
    BY <2>1, Types
<1>2. CASE Request(c)
  BY <1>1, <1>2 DEF Request, WrittenOnce, AttemptsLeft, Unsent
<1>3. CASE Connect(c)
  <2>1. file \in Daemons
    BY <1>3 DEF Connect, Answers, TypeOK
  <2> QED
    BY <1>1, <1>3, <2>1 DEF Connect, WrittenOnce, AttemptsLeft, Unsent
<1>4. CASE Block(c) \/ Unblocks(c)
  <2>1. Answers => file \in Daemons
    BY DEF Answers, TypeOK
  <2> QED
    BY <1>1, <1>4, <2>1 DEF Block, Unblocks, WrittenOnce, AttemptsLeft, Unsent
<1>5. CASE ConnectFails(c)
  <2>1. left[c] \in 1 .. Retries
    BY <1>5 DEF ConnectFails, AttemptsLeft
  <2>2. /\ left' \in [Clients -> 0 .. Retries]
        /\ left'[c] = left[c] - 1 /\ \A e \in Clients \ {c} : left'[e] = left[e]
    BY <1>5, <2>1 DEF ConnectFails
  <2>3. at' \in [Clients -> {"idle", "connecting", "blocked", "connected", "waiting"} \cup Ends]
    BY <1>5 DEF ConnectFails, Ends
  <2>4. CTypeOK'
    BY <1>1, <1>5, <2>2, <2>3 DEF ConnectFails
  <2>5. WrittenOnce'
    BY <1>5 DEF ConnectFails, WrittenOnce, Unsent
  <2>6. AttemptsLeft'
    BY <1>5, <2>1, <2>2 DEF ConnectFails, AttemptsLeft
  <2> QED
    BY <2>4, <2>5, <2>6
<1>6. CASE Send(c)
  BY <1>1, <1>6 DEF Send, WrittenOnce, AttemptsLeft, Unsent, Ends
<1>7. CASE ReadAnswer(c) \/ TimesOut(c)
  BY <1>1, <1>7 DEF ReadAnswer, TimesOut, WrittenOnce, AttemptsLeft, Unsent, Ends
<1> QED
  BY <1>2, <1>3, <1>5, <1>6, <1>7, <1>4 DEF ClientStep

\* So does what daemons do, which never touches where a client is.
LEMMA DaemonInv ==
  ASSUME CIInv, NEW d \in Daemons,
         Process(d) \/ ServerStep(d) \/ FillQueue(d) \/ AcceptQueued(d)
  PROVE  CIInv'
<1> USE DEF CIInv, CTypeOK
<1>1. TypeOK'
  <2>1. [Next]_vars
    BY GuardSteps DEF CNext
  <2> QED
    BY <2>1, Types
<1>2. CASE Process(d)
  <2>1. link' \in [Clients -> {"none", "open", "answered", "closed"}]
    BY <1>2 DEF Process, Sever
  <2> QED
    BY <1>1, <1>2, <2>1 DEF Process, WrittenOnce, AttemptsLeft
<1>3. ASSUME NEW c \in Clients, Serve(d, c) PROVE CIInv'
  BY <1>1, <1>3 DEF Serve, WrittenOnce, AttemptsLeft
<1>4. ASSUME NEW c \in Clients, DropUnserved(d, c) PROVE CIInv'
  BY <1>1, <1>4 DEF DropUnserved, WrittenOnce, AttemptsLeft
<1>5. CASE FillQueue(d) \/ AcceptQueued(d)
  <2>1. full' \subseteq Daemons
    BY <1>5 DEF FillQueue, AcceptQueued, TypeOK
  <2> QED
    BY <1>1, <1>5, <2>1 DEF FillQueue, AcceptQueued, clients, WrittenOnce, AttemptsLeft
<1> QED
  BY <1>2, <1>3, <1>4, <1>5 DEF ServerStep

LEMMA CNextInv ==
  CIInv /\ [CNext]_cvars => CIInv'
<1> SUFFICES ASSUME CIInv, [CNext]_cvars PROVE CIInv'
  OBVIOUS
<1>1. CASE CNext
  BY <1>1, ClientInv, DaemonInv DEF CNext
<1>2. CASE UNCHANGED cvars
  BY <1>2 DEF cvars, clients, vars, CIInv, CTypeOK, TypeOK, WrittenOnce, AttemptsLeft
<1> QED
  BY <1>1, <1>2

LEMMA CIInvHolds ==
  CSpec => []CIInv
<1>1. CInit => CIInv
  <2> SUFFICES ASSUME CInit PROVE CIInv
    OBVIOUS
  <2>1. TypeOK
    BY Initially DEF CInit, IInv
  <2>2. CTypeOK
    BY <2>1 DEF CInit, CTypeOK
  <2> QED
    BY <2>2 DEF CInit, CIInv, WrittenOnce, AttemptsLeft
<1> QED
  BY <1>1, CNextInv, PTL DEF CSpec

-----------------------------------------------------------------------------
\* Every variable has its type: the attempts in particular are never overdrawn.
THEOREM ClientTypeCorrect ==
  CSpec => []CTypeOK
<1>1. CIInv => CTypeOK
  BY DEF CIInv
<1> QED
  BY <1>1, CIInvHolds, PTL

\* A client that reports that it could not connect or write has changed nothing,
\* and one that tries again has not sent its command yet.
THEOREM FailedClientsDidNothing ==
  CSpec => []FailureMeansNotDone
<1>1. CIInv => FailureMeansNotDone
  BY DEF CIInv, WrittenOnce, Unsent, FailureMeansNotDone
<1> QED
  BY <1>1, CIInvHolds, PTL

\* With clients about, the guard still does what it does alone: stop and restart
\* that arrive over the socket, for one, never make two daemons.
THEOREM GuardHoldsWithClients ==
  CSpec => Spec /\ []SingleInstance
<1>1. CSpec => Spec
  <2>1. CIInv /\ [CNext]_cvars => [Next]_vars
    BY GuardSteps DEF CIInv
  <2>2. CInit => Init
    BY DEF CInit
  <2> QED
    BY <2>1, <2>2, CIInvHolds, PTL DEF CSpec, Spec
<1> QED
  BY <1>1, GuardHolds, PTL
=============================================================================
