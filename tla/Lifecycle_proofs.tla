-------------------------- MODULE Lifecycle_proofs --------------------------
(***************************************************************************)
(* Proofs about the lifecycle scripts, for any number of scripts at a time *)
(* and any paths.  Where there is a flock the lock serializes them until   *)
(* an uninstall removes the lock file; while scripts do not overlap, the   *)
(* one past the lock may rely on what it found and did before, and what it *)
(* has put away is on record or in its hands.  What a stop at a given step *)
(* or an ignored failure gives up is in the hypotheses.                    *)
(***************************************************************************)
EXTENDS Lifecycle, FiniteSetTheorems, TLAPS

USE PathsAssumption

Steps == {"idle", "lock", "check", "hide", "record", "stash", "append", "restore", "unhide",
          "enable", "copy", "register", "enroll", "deregister", "dismiss", "remove", "purge",
          "unlocked"}

\* Types in full, what a script has opened, and the room its stash loop has left:
\* the slots are as many as the binaries there may be.
Room(s) ==
  /\ pc[s] = "stash"  => todo[s] \subseteq Paths /\ slot[s] + Cardinality(todo[s]) <= Cardinality(Paths)
  /\ pc[s] = "append" => /\ todo[s] \subseteq Paths
                         /\ slot[s] + 1 + Cardinality(todo[s]) <= Cardinality(Paths)
                         /\ moved[s] \in Slots \X Paths /\ moved[s][1] = slot[s]
  /\ pc[s] = "restore" => todo[s] \subseteq Slots \X Paths
  /\ pc[s] \notin {"stash", "append"} => slot[s] = 0

LocalTypes ==
  /\ pc \in [Scripts -> Steps] /\ prog \in [Scripts -> Programs]
  /\ opened \in [Scripts -> Nat] /\ bindir \in [Scripts -> Paths]
  /\ todo \in [Scripts -> SUBSET (Paths \cup (Slots \X Paths))]
  /\ moved \in [Scripts -> (Slots \X Paths) \cup {Nothing}]
  /\ slot \in [Scripts -> Nat]
  /\ service \in [Scripts -> BOOLEAN] /\ autostart \in [Scripts -> BOOLEAN]

TypeInv ==
  /\ TypeOK /\ LocalTypes
  /\ overlapped \in BOOLEAN
  /\ \A s \in Scripts : Room(s)

OpenedBefore == \A s \in Scripts : opened[s] <= generation

OneHolder == \A s, t \in Scripts : Holds(s) /\ Holds(t) => s = t

\* What the script that holds the lock may rely on at each of its steps.
Knows(s) ==
  /\ pc[s] \in {"hide", "record", "unhide", "enable"} => ~state.exists
  /\ pc[s] \in {"stash", "append", "restore"} => state.exists
  /\ pc[s] \in {"idle", "lock", "check", "hide"} => ~autostart[s]
  /\ pc[s] \in {"hide", "record", "stash", "append"} /\ "disable" \notin cut => unit = None \/ ~wanted
  /\ pc[s] \in {"record", "stash", "append"} => desktop = None
  /\ pc[s] \in {"stash", "append"} => \A b \in state.bins : b[1] < slot[s]
  /\ pc[s] = "restore" => /\ service[s] = state.service /\ autostart[s] = state.autostart
                          /\ todo[s] \subseteq state.bins
  /\ pc[s] = "enable" => ~(autostart[s] /\ hidden # None)
  /\ pc[s] = "register" => bindir[s] \in installed
  /\ pc[s] = "enroll" /\ "elsewhere" \notin cut => unit \in installed
  /\ pc[s] \in {"dismiss", "remove", "purge", "unlocked"} => unit = None
  /\ pc[s] \in {"remove", "purge", "unlocked"} => desktop = None

Record ==
  /\ ~state.exists => state = NoState
  /\ \A b, c \in state.bins : b[1] = c[1] => b = c

Orderly == OneHolder /\ Record /\ \A s \in Scripts : Knows(s)

\* What is stashed is recorded, about to be, or about to be removed.
StashWindows == {"append", "purge", "unlocked", "unwritable"}

Stashed ==
  /\ \A b \in stash : b \in state.bins \/ \E s \in Scripts : (pc[s] = "append" /\ moved[s] = b) \/ Purging(s)
  /\ \A s \in Scripts : pc[s] = "restore" => stash \subseteq todo[s]

\* The binary that a registration names is in place, or put away with it.
InPlace(p)  == p \in installed \/ \E s \in Scripts : pc[s] = "copy" /\ bindir[s] = p
WithinReach(p) ==
  \/ InPlace(p)
  \/ \E b \in stash : b[2] = p
  \/ \E s \in Scripts : pc[s] \in {"remove", "purge", "unlocked"}

Kept ==
  /\ unit # None /\ wanted => InPlace(unit)
  /\ desktop # None => InPlace(desktop)
  /\ unit # None => WithinReach(unit)
  /\ hidden # None => WithinReach(hidden)

Put(var, s) == var[s] /\ (Hiding(s) \/ Finishing(s))
OnRecord ==
  /\ hidden # None => state.autostart \/ \E s \in Scripts : Put(autostart, s) \/ Purging(s)
  /\ unit # None /\ ~wanted =>
       \/ state.service
       \/ \E s \in Scripts : Put(service, s)
       \/ \E s \in Scripts : pc[s] \in {"enroll", "deregister"}

IInv ==
  /\ TypeInv /\ OpenedBefore
  /\ Serialized
  /\ ~overlapped => Orderly
  /\ ~overlapped /\ cut \cap StashWindows = {} => Stashed
  /\ ~overlapped /\ cut \cap LoginWindows = {} => Kept
  /\ ~overlapped /\ cut \cap SwapWindows = {} => OnRecord

-----------------------------------------------------------------------------
(***************************************************************************)
(* Types, and room for every binary that swap-to-dev stashes.              *)
(***************************************************************************)

\* The other scripts stay where they are, with their variables.
Others(s) ==
  \A t \in Scripts \ {s} :
    /\ pc'[t] = pc[t] /\ prog'[t] = prog[t] /\ opened'[t] = opened[t] /\ bindir'[t] = bindir[t]
    /\ todo'[t] = todo[t] /\ moved'[t] = moved[t] /\ slot'[t] = slot[t]
    /\ service'[t] = service[t] /\ autostart'[t] = autostart[t]

\* A script that ends leaves nothing behind but its files.
LEMMA EndsTypes ==
  ASSUME LocalTypes, NEW s \in Scripts, Ends(s)
  PROVE  /\ LocalTypes' /\ Others(s) /\ UNCHANGED <<flock, generation>>
         /\ pc'[s] = "idle" /\ opened'[s] = 0 /\ moved'[s] = Nothing /\ slot'[s] = 0
         /\ service'[s] = FALSE /\ autostart'[s] = FALSE
BY DEF LocalTypes, Others, Ends, Goto, Clear, Steps, Programs

LEMMA NoStateType ==
  /\ NoState \in [exists : BOOLEAN, service : BOOLEAN, autostart : BOOLEAN,
                  bins : SUBSET (Slots \X Paths)]
  /\ ~NoState.exists /\ ~NoState.service /\ ~NoState.autostart /\ NoState.bins = {}
<1>1. {} \in SUBSET (Slots \X Paths)
  OBVIOUS
<1> QED
  BY <1>1 DEF NoState

LEMMA ScriptTypes ==
  ASSUME TypeInv, NEW s \in Scripts, ScriptStep(s)
  PROVE  TypeInv' /\ Others(s)
<1> USE DEF TypeInv
<1>1. ASSUME TypeOK', LocalTypes', overlapped' \in BOOLEAN, Room(s)', Others(s)
      PROVE  TypeInv' /\ Others(s)
  <2>1. \A t \in Scripts \ {s} : Room(t)'
    BY <1>1 DEF Others, Room
  <2> QED
    BY <1>1, <2>1
<1>2. ASSUME Ends(s), TypeOK', overlapped' = overlapped
      PROVE  TypeInv' /\ Others(s)
  <2>1. LocalTypes' /\ Others(s) /\ pc'[s] = "idle" /\ slot'[s] = 0
    BY <1>2, EndsTypes
  <2>2. Room(s)'
    BY <2>1 DEF Room
  <2> QED
    BY <1>1, <1>2, <2>1, <2>2
<1>3. ASSUME NEW program \in Programs, Launch(s, program) PROVE TypeInv' /\ Others(s)
  <2>1. LocalTypes' /\ Others(s) /\ overlapped' = overlapped
    BY <1>3 DEF Launch, Goto, locals, history, TypeOK, LocalTypes, Others, Steps
  <2>2. TypeOK'
    BY <1>3 DEF Launch, files, binaries, registration, locals, TypeOK
  <2>3. Room(s)'
    BY <1>3 DEF Launch, Goto, locals, LocalTypes, Room, Steps
  <2> QED
    BY <1>1, <2>1, <2>2, <2>3
<1>4. CASE Lock(s)
  <2>1. LocalTypes' /\ Others(s) /\ overlapped' \in BOOLEAN
    BY <1>4 DEF Lock, Goto, locals, LocalTypes, Others, Steps
  <2>2. TypeOK'
    BY <1>4 DEF Lock, files, binaries, registration, locals, TypeOK
  <2>3. Room(s)'
    BY <1>4 DEF Lock, Goto, locals, LocalTypes, Room, Steps
  <2> QED
    BY <1>1, <2>1, <2>2, <2>3
<1>5. CASE LockedOut(s) \/ Refuses(s) \/ DevReady(s) \/ Stops(s)
  <2>1. Ends(s) /\ overlapped' = overlapped
    BY <1>5 DEF LockedOut, Refuses, DevReady, Stops, Mishap, history
  <2>2. TypeOK'
    BY <1>5, <2>1, EndsTypes DEF LockedOut, Refuses, DevReady, Stops, files, binaries,
       registration, TypeOK, LocalTypes
  <2> QED
    BY <1>2, <2>1, <2>2
<1>6. CASE Unregister(s)
  <2>1. LocalTypes' /\ Others(s) /\ overlapped' = overlapped
    BY <1>6 DEF Unregister, Step, Goto, Mishap, locals, history, LocalTypes, Others, Steps
  <2>2. TypeOK'
    BY <1>6 DEF Unregister, Step, Mishap, files, binaries, registration, locals, TypeOK, LocalTypes
  <2>3. Room(s)'
    BY <1>6 DEF Unregister, Step, Goto, Mishap, locals, LocalTypes, Room, Steps
  <2> QED
    BY <1>1, <2>1, <2>2, <2>3
<1>7. CASE HideEntry(s)
  <2>1. LocalTypes' /\ Others(s) /\ overlapped' = overlapped
    BY <1>7 DEF HideEntry, Step, Goto, Mishap, locals, history, LocalTypes, Others, Steps
  <2>2. TypeOK'
    BY <1>7 DEF HideEntry, Step, Mishap, files, binaries, registration, locals, TypeOK, LocalTypes
  <2>3. Room(s)'
    BY <1>7 DEF HideEntry, Step, Goto, Mishap, locals, LocalTypes, Room, Steps
  <2> QED
    BY <1>1, <2>1, <2>2, <2>3
<1>8. CASE WriteState(s)
  <2>1. LocalTypes' /\ Others(s) /\ overlapped' = overlapped
    BY <1>8 DEF WriteState, Step, Goto, history, TypeOK, LocalTypes, Others, Steps
  <2>2. TypeOK'
    BY <1>8 DEF WriteState, Step, binaries, registration, TypeOK, LocalTypes
  <2>3. installed \in SUBSET Paths /\ Cardinality(installed) <= Cardinality(Paths)
    BY FS_Subset DEF TypeOK
  <2>4. pc'[s] = "stash" /\ slot'[s] = 0 /\ todo'[s] = installed
    BY <1>8 DEF WriteState, Step, Goto, LocalTypes, Room
  <2>5. Cardinality(installed) \in Nat
    BY <2>3, FS_Subset, FS_CardinalityType
  <2>6. Room(s)'
    BY <2>3, <2>4, <2>5 DEF Room
  <2> QED
    BY <1>1, <2>1, <2>2, <2>6
<1>9. ASSUME NEW p \in Paths, Stash(s, p) PROVE TypeInv' /\ Others(s)
  <2> DEFINE n == Cardinality(Paths)
             k == Cardinality(todo[s])
             rest == todo[s] \ {p}
  <2>1. todo[s] \in SUBSET Paths /\ slot[s] + k <= n /\ p \in todo[s] /\ slot[s] \in Nat
    BY <1>9 DEF Stash, Step, Room, LocalTypes
  <2>2. IsFiniteSet(todo[s]) /\ k \in Nat /\ n \in Nat /\ Cardinality(rest) = k - 1
    <3>1. IsFiniteSet(todo[s])
      BY <2>1, FS_Subset
    <3> QED
      BY <2>1, <3>1, FS_CardinalityType, FS_RemoveElement
  <2>3. Cardinality(rest) \in Nat
    BY <2>2, FS_RemoveElement, FS_CardinalityType
  <2> HIDE DEF n, k, rest
  <2>4. slot[s] \in 0 .. n - 1 /\ slot[s] + 1 + Cardinality(rest) <= n
    BY <2>1, <2>2, <2>3
  <2>5. <<slot[s], p>> \in Slots \X Paths
    BY <2>4 DEF Slots, n
  <2>6. /\ pc' = [pc EXCEPT ![s] = "append"] /\ UNCHANGED <<prog, opened, flock, generation, history>>
        /\ stash' = {b \in stash : b[1] # slot[s]} \cup {<<slot[s], p>>}
        /\ moved' = [moved EXCEPT ![s] = <<slot[s], p>>]
        /\ installed' = installed \ {p}
        /\ todo' = [todo EXCEPT ![s] = rest]
        /\ UNCHANGED <<registration, state, slot, bindir, service, autostart>>
    BY <1>9 DEF Stash, Step, Goto, LocalTypes, rest
  <2>7. rest \subseteq Paths
    BY <2>1 DEF rest
  <2>8. LocalTypes' /\ Others(s) /\ overlapped' = overlapped
    BY <2>5, <2>6, <2>7 DEF history, LocalTypes, Others, Steps
  <2>9. TypeOK'
    BY <2>5, <2>6 DEF TypeOK, LocalTypes, registration
  <2>10. Room(s)'
    <3>1. /\ pc'[s] = "append" /\ todo'[s] = rest /\ slot'[s] = slot[s]
          /\ moved'[s] = <<slot[s], p>>
      BY <2>6 DEF LocalTypes
    <3> QED
      BY <2>4, <2>5, <2>7, <3>1 DEF Room, n
  <2> QED
    BY <1>1, <2>8, <2>9, <2>10
<1>10. CASE Append(s)
  <2>1. /\ pc[s] = "append" /\ pc'[s] = "stash" /\ todo'[s] = todo[s]
        /\ slot'[s] = slot[s] + 1 /\ slot[s] \in Nat
    BY <1>10 DEF Append, Step, Goto, LocalTypes
  <2>2. LocalTypes' /\ Others(s) /\ overlapped' = overlapped
    BY <1>10 DEF Append, Step, Goto, history, TypeOK, LocalTypes, Others, Steps
  <2>3. TypeOK'
    BY <1>10, <2>1 DEF Append, Step, binaries, registration, TypeOK, LocalTypes, Room
  <2>4. Room(s)'
    BY <2>1 DEF Room
  <2> QED
    BY <1>1, <2>2, <2>3, <2>4
<1>11. CASE ReadState(s)
  <2>1. LocalTypes' /\ Others(s) /\ overlapped' = overlapped
    BY <1>11 DEF ReadState, Step, Goto, history, TypeOK, LocalTypes, Others, Steps
  <2>2. TypeOK'
    BY <1>11 DEF ReadState, Step, files, binaries, registration, TypeOK
  <2>3. Room(s)'
    BY <1>11 DEF ReadState, Step, Goto, TypeOK, LocalTypes, Room, Steps
  <2> QED
    BY <1>1, <2>1, <2>2, <2>3
<1>12. ASSUME NEW b \in Slots \X Paths, Restore(s, b) PROVE TypeInv' /\ Others(s)
  <2>1. b[2] \in Paths
    OBVIOUS
  <2>2. LocalTypes' /\ Others(s) /\ overlapped' = overlapped
    BY <1>12 DEF Restore, Step, Goto, history, LocalTypes, Others, Steps
  <2>3. TypeOK'
    BY <1>12, <2>1 DEF Restore, Step, registration, TypeOK, LocalTypes
  <2>4. Room(s)'
    BY <1>12 DEF Restore, Step, Goto, LocalTypes, Room, Steps
  <2> QED
    BY <1>1, <2>2, <2>3, <2>4
<1>13. ASSUME NEW b \in Slots \X Paths, LeaveStashed(s, b) PROVE TypeInv' /\ Others(s)
  <2>1. LocalTypes' /\ Others(s) /\ overlapped' = overlapped
    BY <1>13 DEF LeaveStashed, Step, Goto, Mishap, locals, history, LocalTypes, Others, Steps
  <2>2. TypeOK'
    BY <1>13 DEF LeaveStashed, Step, Mishap, files, binaries, registration, locals, TypeOK,
       LocalTypes
  <2>3. Room(s)'
    BY <1>13 DEF LeaveStashed, Step, Goto, Mishap, locals, LocalTypes, Room, Steps
  <2> QED
    BY <1>1, <2>1, <2>2, <2>3
<1>14. CASE Forget(s)
  <2>1. LocalTypes' /\ Others(s) /\ overlapped' = overlapped
    BY <1>14 DEF Forget, Step, Goto, Mishap, locals, history, LocalTypes, Others, Steps
  <2>2. TypeOK'
    BY <1>14, NoStateType DEF Forget, Step, Mishap, files, binaries, registration, locals,
       TypeOK, LocalTypes
  <2>3. Room(s)'
    BY <1>14 DEF Forget, Step, Goto, Mishap, locals, LocalTypes, Room, Steps
  <2> QED
    BY <1>1, <2>1, <2>2, <2>3
<1>15. CASE Unhide(s)
  <2>1. LocalTypes' /\ Others(s) /\ overlapped' = overlapped
    BY <1>15 DEF Unhide, Step, Goto, Mishap, locals, history, LocalTypes, Others, Steps
  <2>2. TypeOK'
    BY <1>15 DEF Unhide, Step, Mishap, files, binaries, registration, locals, TypeOK, LocalTypes
  <2>3. Room(s)'
    BY <1>15 DEF Unhide, Step, Goto, Mishap, locals, LocalTypes, Room, Steps
  <2> QED
    BY <1>1, <2>1, <2>2, <2>3
<1>16. CASE Enable(s)
  <2>1. Ends(s) /\ overlapped' = overlapped
    BY <1>16 DEF Enable, Mishap, history
  <2>2. TypeOK'
    BY <1>16, <2>1, EndsTypes DEF Enable, files, binaries, registration, TypeOK, LocalTypes
  <2> QED
    BY <1>2, <2>1, <2>2
<1>17. ASSUME NEW p \in Paths, Replace(s, p) PROVE TypeInv' /\ Others(s)
  <2>1. LocalTypes' /\ Others(s) /\ overlapped' = overlapped
    BY <1>17 DEF Replace, Step, Goto, Mishap, locals, history, LocalTypes, Others, Steps
  <2>2. TypeOK'
    BY <1>17 DEF Replace, Step, Mishap, files, binaries, registration, locals, TypeOK, LocalTypes
  <2>3. Room(s)'
    BY <1>17 DEF Replace, Step, Goto, Mishap, locals, LocalTypes, Room, Steps
  <2> QED
    BY <1>1, <2>1, <2>2, <2>3
<1>18. CASE PutBinary(s)
  <2>1. LocalTypes' /\ Others(s) /\ overlapped' = overlapped
    BY <1>18 DEF PutBinary, Step, Goto, Mishap, locals, history, LocalTypes, Others, Steps
  <2>2. TypeOK'
    BY <1>18 DEF PutBinary, Step, Mishap, files, binaries, registration, locals, TypeOK, LocalTypes
  <2>3. Room(s)'
    BY <1>18 DEF PutBinary, Step, Goto, Mishap, locals, LocalTypes, Room, Steps
  <2> QED
    BY <1>1, <2>1, <2>2, <2>3
<1>19. CASE RegisterUnit(s)
  <2>1. LocalTypes' /\ Others(s) /\ overlapped' = overlapped
    BY <1>19 DEF RegisterUnit, Step, Goto, Mishap, locals, history, LocalTypes, Others, Steps
  <2>2. TypeOK'
    BY <1>19 DEF RegisterUnit, Step, Mishap, files, binaries, registration, locals, TypeOK,
       LocalTypes
  <2>3. Room(s)'
    BY <1>19 DEF RegisterUnit, Step, Goto, Mishap, locals, LocalTypes, Room, Steps
  <2> QED
    BY <1>1, <2>1, <2>2, <2>3
<1>20. CASE Enroll(s)
  <2>1. Ends(s) /\ overlapped' = overlapped
    BY <1>20 DEF Enroll, Mishap, history
  <2>2. TypeOK'
    BY <1>20, <2>1, EndsTypes DEF Enroll, files, binaries, registration, TypeOK, LocalTypes
  <2> QED
    BY <1>2, <2>1, <2>2
<1>21. CASE RegisterEntry(s)
  <2>1. Ends(s) /\ overlapped' = overlapped /\ desktop' \in Paths \cup {None}
    BY <1>21 DEF RegisterEntry, history, TypeOK, LocalTypes
  <2>2. TypeOK'
    BY <1>21, <2>1, EndsTypes DEF RegisterEntry, binaries, TypeOK, LocalTypes
  <2> QED
    BY <1>2, <2>1, <2>2
<1>22. CASE Disable(s)
  <2>1. LocalTypes' /\ Others(s) /\ overlapped' = overlapped
    BY <1>22 DEF Disable, Step, Goto, Mishap, locals, history, LocalTypes, Others, Steps
  <2>2. TypeOK'
    BY <1>22 DEF Disable, Step, Mishap, files, binaries, registration, locals, TypeOK, LocalTypes
  <2>3. Room(s)'
    BY <1>22 DEF Disable, Step, Goto, Mishap, locals, LocalTypes, Room, Steps
  <2> QED
    BY <1>1, <2>1, <2>2, <2>3
<1>23. CASE RemoveUnit(s) \/ RemoveEntry(s) \/ BinariesRemoved(s)
  <2>1. LocalTypes' /\ Others(s) /\ overlapped' = overlapped
    BY <1>23 DEF RemoveUnit, RemoveEntry, BinariesRemoved, Step, Goto, Mishap, locals, history,
       LocalTypes, Others, Steps
  <2>2. TypeOK'
    BY <1>23 DEF RemoveUnit, RemoveEntry, BinariesRemoved, Step, Mishap, files, binaries,
       registration, locals, TypeOK, LocalTypes
  <2>3. Room(s)'
    BY <1>23 DEF RemoveUnit, RemoveEntry, BinariesRemoved, Step, Goto, Mishap, locals,
       LocalTypes, Room, Steps
  <2> QED
    BY <1>1, <2>1, <2>2, <2>3
<1>24. ASSUME NEW p \in Paths, RemoveBinary(s, p) PROVE TypeInv' /\ Others(s)
  <2>1. LocalTypes' /\ Others(s) /\ overlapped' = overlapped
    BY <1>24 DEF RemoveBinary, Step, Goto, Mishap, locals, history, LocalTypes, Others, Steps
  <2>2. TypeOK'
    BY <1>24 DEF RemoveBinary, Step, Mishap, files, binaries, registration, locals, TypeOK,
       LocalTypes
  <2>3. Room(s)'
    BY <1>24 DEF RemoveBinary, Step, Goto, Mishap, locals, LocalTypes, Room, Steps
  <2> QED
    BY <1>1, <2>1, <2>2, <2>3
<1>25. CASE RemoveState(s)
  <2>1. LocalTypes' /\ Others(s) /\ overlapped' = overlapped /\ Room(s)'
    BY <1>25 DEF RemoveState, locals, history, LocalTypes, Others, Room
  <2>2. /\ state' \in {state, NoState} /\ stash' \subseteq stash /\ hidden' \in {hidden, None}
        /\ UNCHANGED <<flock, installed, unit, wanted, desktop, generation, moved>>
    BY <1>25 DEF RemoveState, locals
  <2>3. TypeOK'
    BY <2>2, NoStateType DEF TypeOK
  <2> QED
    BY <1>1, <2>1, <2>3
<1>26. CASE RemoveLock(s)
  <2>1. LocalTypes' /\ Others(s) /\ overlapped' = overlapped
    BY <1>26 DEF RemoveLock, Goto, locals, history, LocalTypes, Others, Steps
  <2>2. TypeOK'
    BY <1>26 DEF RemoveLock, files, binaries, registration, locals, TypeOK
  <2>3. Room(s)'
    BY <1>26 DEF RemoveLock, Goto, locals, LocalTypes, Room, Steps
  <2> QED
    BY <1>1, <2>1, <2>2, <2>3
<1>27. CASE Purged(s)
  <2>1. Ends(s) /\ overlapped' = overlapped
    BY <1>27 DEF Purged, Mishap, history
  <2>2. TypeOK'
    BY <1>27, <2>1, EndsTypes DEF Purged, files, binaries, registration, TypeOK, LocalTypes
  <2> QED
    BY <1>2, <2>1, <2>2
<1> QED
  BY <1>3, <1>4, <1>5, <1>6, <1>7, <1>8, <1>9, <1>10, <1>11, <1>12, <1>13, <1>14, <1>15, <1>16,
     <1>17, <1>18, <1>19, <1>20, <1>21, <1>22, <1>23, <1>24, <1>25, <1>26, <1>27 DEF ScriptStep

LEMMA InitTypes == Init => TypeInv /\ OpenedBefore /\ Serialized
<1> SUFFICES ASSUME Init PROVE TypeInv /\ OpenedBefore /\ Serialized
  OBVIOUS
<1>1. TypeOK
  BY NoStateType DEF Init, TypeOK
<1>2. LocalTypes
  BY DEF Init, LocalTypes, Steps, Programs
<1>3. \A s \in Scripts : Room(s)
  BY DEF Init, Room
<1>4. OpenedBefore /\ cut = {} /\ overlapped = FALSE
  BY DEF Init, OpenedBefore
<1> QED
  BY <1>1, <1>2, <1>3, <1>4 DEF TypeInv, Serialized

LEMMA ByHandTypes ==
  ASSUME TypeInv, NEW p \in Paths, ByHand(p) PROVE TypeInv'
<1>1. LocalTypes' /\ overlapped' = overlapped /\ \A s \in Scripts : Room(s)'
  BY DEF TypeInv, ByHand, LocalTypes, locals, history, Room
<1>2. TypeOK'
  BY DEF TypeInv, ByHand, TypeOK, registration, locals
<1> QED
  BY <1>1, <1>2 DEF TypeInv

-----------------------------------------------------------------------------
(***************************************************************************)
(* The lock.                                                               *)
(***************************************************************************)

\* The history only grows, the files change in the hands of the script that is
\* past the lock, and only `Lock` lets a script go past it.
LEMMA StepFrame ==
  ASSUME TypeInv, NEW s \in Scripts, ScriptStep(s)
  PROVE  /\ cut \subseteq cut' /\ (overlapped => overlapped') /\ flock' = flock
         /\ (overlapped' => overlapped \/ Lock(s))
         /\ generation' \in {generation, generation + 1}
         /\ opened'[s] \in {opened[s], generation, 0}
         /\ Holds(s) \/ UNCHANGED <<files, generation>>
         /\ Holds(s)' => Holds(s) \/ Lock(s)
<1> USE DEF TypeInv
<1>1. CASE \E program \in Programs : Launch(s, program)
  <2>1. UNCHANGED <<files, flock, generation, cut, overlapped>>
    BY <1>1 DEF Launch, history
  <2>2. opened'[s] = generation /\ pc'[s] = "lock"
    BY <1>1 DEF Launch, Goto, LocalTypes
  <2> QED
    BY <2>1, <2>2 DEF Holds
<1>2. CASE Lock(s)
  BY <1>2 DEF Lock
<1>3. CASE LockedOut(s)
  BY <1>3, EndsTypes DEF LockedOut, history, Holds
<1>4. CASE Refuses(s) \/ DevReady(s) \/ Enable(s) \/ Enroll(s) \/ RegisterEntry(s) \/ Purged(s)
  <2>1. pc[s] \notin {"idle", "lock"} /\ Ends(s) /\ UNCHANGED history
    BY <1>4 DEF Refuses, DevReady, Enable, Enroll, RegisterEntry, Purged
  <2> QED
    BY <2>1, EndsTypes DEF history, Holds
<1>5. CASE Stops(s)
  BY <1>5, EndsTypes DEF Stops, Mishap, Holds
<1>6. CASE RemoveState(s) \/ RemoveLock(s)
  BY <1>6 DEF RemoveState, RemoveLock, history, Holds
<1>7. ASSUME pc[s] \notin {"idle", "lock"}, UNCHANGED <<flock, generation, opened>>,
             UNCHANGED history \/ \E what \in {"disable", "unwritable", "elsewhere"} : Mishap(what)
      PROVE  /\ cut \subseteq cut' /\ overlapped' = overlapped
             /\ Holds(s) /\ generation' = generation /\ opened'[s] = opened[s]
  BY <1>7 DEF Mishap, history, Holds
<1>8. CASE \/ HideEntry(s) \/ WriteState(s) \/ \E p \in Paths : Stash(s, p) \/ Replace(s, p)
           \/ Append(s) \/ ReadState(s) \/ \E b \in Slots \X Paths : Restore(s, b)
           \/ Forget(s) \/ Unhide(s) \/ PutBinary(s)
  <2>1. pc[s] \notin {"idle", "lock"} /\ UNCHANGED <<flock, generation, opened, history>>
    BY <1>8 DEF HideEntry, WriteState, Stash, Replace, Append, ReadState, Restore, Forget, Unhide,
       PutBinary, Step
  <2> QED
    BY <1>7, <2>1
<1>9. CASE \/ Disable(s) \/ RemoveUnit(s) \/ RemoveEntry(s) \/ BinariesRemoved(s)
           \/ \E p \in Paths : RemoveBinary(s, p)
  <2>1. pc[s] \notin {"idle", "lock"} /\ UNCHANGED <<flock, generation, opened, history>>
    BY <1>9 DEF Disable, RemoveUnit, RemoveEntry, BinariesRemoved, RemoveBinary, Step
  <2> QED
    BY <1>7, <2>1
<1>10. CASE Unregister(s) \/ RegisterUnit(s) \/ \E b \in Slots \X Paths : LeaveStashed(s, b)
  <2>1. pc[s] \notin {"idle", "lock"} /\ UNCHANGED <<flock, generation, opened>>
    BY <1>10 DEF Unregister, RegisterUnit, LeaveStashed, Step
  <2>2. UNCHANGED history \/ \E what \in {"disable", "unwritable", "elsewhere"} : Mishap(what)
    BY <1>10 DEF Unregister, RegisterUnit, LeaveStashed
  <2> QED
    BY <1>7, <2>1, <2>2
<1> QED
  BY <1>1, <1>2, <1>3, <1>4, <1>5, <1>6, <1>8, <1>9, <1>10 DEF ScriptStep

\* A script that gets the lock while another one holds it has opened another file.
LEMMA SerialInv ==
  ASSUME TypeInv, OpenedBefore, Serialized, NEW s \in Scripts, ScriptStep(s)
  PROVE  OpenedBefore' /\ Serialized'
<1>1. /\ generation \in Nat /\ generation' \in {generation, generation + 1} /\ flock' = flock
      /\ opened \in [Scripts -> Nat] /\ opened' \in [Scripts -> Nat]
      /\ opened'[s] \in {opened[s], generation, 0}
      /\ \A t \in Scripts \ {s} : opened'[t] = opened[t]
  BY StepFrame, ScriptTypes DEF TypeInv, TypeOK, LocalTypes, Others
<1>2. OpenedBefore'
  <2>1. ASSUME NEW t \in Scripts PROVE opened'[t] <= generation'
    <3>1. opened'[t] \in {opened[t], generation, 0} /\ opened[t] <= generation /\ opened[t] \in Nat
      BY <1>1 DEF OpenedBefore
    <3> QED
      BY <1>1, <3>1
  <2> QED
    BY <2>1 DEF OpenedBefore
<1>3. ASSUME overlapped', ~overlapped, flock PROVE generation > 0
  <2>1. Lock(s)
    BY <1>3, StepFrame
  <2>2. PICK t \in Scripts : Holds(t) /\ opened[t] # opened[s]
    BY <1>3, <2>1 DEF Lock, Passes
  <2> QED
    BY <1>1, <2>2 DEF OpenedBefore
<1>4. overlapped' => ~flock' \/ generation' > 0
  BY <1>1, <1>3 DEF Serialized
<1> QED
  BY <1>2, <1>4 DEF Serialized

\* While the scripts have not overlapped, at most one is past the lock.
LEMMA HolderInv ==
  ASSUME TypeInv, ~overlapped => OneHolder, NEW s \in Scripts, ScriptStep(s), ~overlapped'
  PROVE  /\ OneHolder'
         /\ Holds(s) \/ Holds(s)' => \A t \in Scripts \ {s} : ~Holds(t) /\ ~Holds(t)'
<1>1. ~overlapped /\ OneHolder
  BY StepFrame
<1>2. \A t \in Scripts \ {s} : Holds(t)' <=> Holds(t)
  BY ScriptTypes DEF Others, Holds
<1>3. CASE Lock(s)
  <2>1. \A t \in Scripts : ~Holds(t)
    BY <1>3 DEF Lock
  <2> QED
    BY <1>2, <2>1 DEF OneHolder
<1>4. CASE ~Lock(s)
  <2>1. Holds(s)' => Holds(s)
    BY <1>4, StepFrame
  <2> QED
    BY <1>1, <1>2, <2>1 DEF OneHolder
<1> QED
  BY <1>3, <1>4

-----------------------------------------------------------------------------
(***************************************************************************)
(* What the holder of the lock knows, and the state file.                  *)
(***************************************************************************)
LEMMA KnowsInv ==
  ASSUME TypeInv, ~overlapped => Orderly, NEW s \in Scripts, ScriptStep(s), ~overlapped'
  PROVE  Record' /\ \A t \in Scripts : Knows(t)'
<1> USE DEF TypeInv, Orderly
<1>1. Record /\ Knows(s) /\ (\A t \in Scripts : Knows(t)) /\ cut \subseteq cut'
  BY StepFrame
<1>2. ASSUME NEW t \in Scripts \ {s} PROVE Knows(t)'
  <2>1. CASE Holds(s)
    <3>1. pc'[t] \in {"idle", "lock"} /\ pc'[t] = pc[t] /\ autostart'[t] = autostart[t]
      BY <2>1, HolderInv, ScriptTypes DEF Holds, Others
    <3> QED
      BY <1>1, <3>1 DEF Knows
  <2>2. CASE ~Holds(s)
    <3>1. UNCHANGED <<installed, unit, wanted, desktop, hidden, state>>
      BY <2>2, StepFrame DEF files, binaries, registration
    <3> QED
      BY <1>1, <3>1, ScriptTypes DEF Knows, Others
  <2> QED
    BY <2>1, <2>2
<1>3. ASSUME Record', Knows(s)' PROVE Record' /\ \A t \in Scripts : Knows(t)'
  BY <1>2, <1>3
<1>4. ASSUME UNCHANGED state PROVE Record'
  BY <1>1, <1>4 DEF Record
<1>5. ASSUME pc'[s] \in {"idle", "lock", "check", "copy", "deregister"},
             pc'[s] \in {"idle", "lock", "check"} => ~autostart'[s]
      PROVE  Knows(s)'
  BY <1>5 DEF Knows
<1>6. CASE (\E program \in Programs : Launch(s, program)) \/ Lock(s)
  <2>1. UNCHANGED <<state, autostart>> /\ pc[s] \in {"idle", "lock"} /\ pc'[s] \in {"lock", "check"}
    BY <1>6 DEF Launch, Lock, Goto, files, locals, LocalTypes
  <2>2. ~autostart[s]
    BY <1>1, <2>1 DEF Knows
  <2> QED
    BY <1>3, <1>4, <1>5, <2>1, <2>2
<1>7. CASE \/ LockedOut(s) \/ Refuses(s) \/ DevReady(s) \/ Stops(s)
           \/ Enable(s) \/ Enroll(s) \/ RegisterEntry(s) \/ Purged(s)
  <2>1. UNCHANGED state /\ pc'[s] = "idle" /\ ~autostart'[s]
    BY <1>7, EndsTypes DEF LockedOut, Refuses, DevReady, Stops, Enable, Enroll, RegisterEntry,
       Purged,
       files
  <2> QED
    BY <1>3, <1>4, <1>5, <2>1
<1>8. CASE Unregister(s)
  <2>1. /\ pc[s] = "check" /\ pc'[s] = "hide" /\ ~state.exists /\ UNCHANGED <<state, unit, autostart>>
        /\ (wanted' = (wanted /\ unit = None)) \/ "disable" \in cut'
    BY <1>8 DEF Unregister, Step, Goto, Mishap, LocalTypes
  <2>2. "disable" \notin cut' => unit' = None \/ ~wanted'
    BY <2>1
  <2>3. Knows(s)'
    BY <1>1, <2>1, <2>2 DEF Knows
  <2> QED
    BY <1>3, <1>4, <2>1, <2>3
<1>9. CASE HideEntry(s)
  <2>1. /\ pc[s] = "hide" /\ pc'[s] = "record" /\ UNCHANGED <<state, unit, wanted>>
        /\ desktop' = None
    BY <1>9 DEF HideEntry, Step, Goto, LocalTypes
  <2>2. Knows(s)'
    BY <1>1, <2>1 DEF Knows
  <2> QED
    BY <1>3, <1>4, <2>1, <2>2
<1>10. CASE WriteState(s)
  <2>1. /\ pc[s] = "record" /\ pc'[s] = "stash" /\ UNCHANGED <<unit, wanted, desktop>>
        /\ state'.exists /\ state'.bins = {}
    BY <1>10 DEF WriteState, Step, Goto, LocalTypes, registration
  <2>2. Record'
    BY <2>1 DEF Record
  <2>3. Knows(s)'
    BY <1>1, <2>1 DEF Knows
  <2> QED
    BY <1>3, <2>2, <2>3
<1>11. CASE \E p \in Paths : Stash(s, p)
  <2>1. /\ pc[s] = "stash" /\ pc'[s] = "append"
        /\ UNCHANGED <<state, unit, wanted, desktop, slot>>
    BY <1>11 DEF Stash, Step, Goto, LocalTypes, registration
  <2>2. Knows(s)'
    BY <1>1, <2>1 DEF Knows
  <2> QED
    BY <1>3, <1>4, <2>1, <2>2
<1>12. CASE Append(s)
  <2>1. /\ pc[s] = "append" /\ pc'[s] = "stash" /\ UNCHANGED <<unit, wanted, desktop>>
        /\ slot'[s] = slot[s] + 1 /\ slot[s] \in Nat
        /\ state' = [state EXCEPT !.exists = TRUE, !.bins = @ \cup {moved[s]}]
    BY <1>12 DEF Append, Step, Goto, LocalTypes, registration
  <2>2. state'.exists = TRUE /\ state'.bins = state.bins \cup {moved[s]}
    BY <2>1 DEF TypeOK
  <2>3. moved[s] \in Slots \X Paths /\ moved[s][1] = slot[s]
    BY <2>1 DEF Room
  <2>4. \A b \in state.bins : b[1] < slot[s] /\ b[1] \in Nat
    BY <1>1, <2>1 DEF Knows, TypeOK, Slots
  <2>5. Record'
    BY <1>1, <2>1, <2>2, <2>3, <2>4 DEF Record
  <2>6. \A b \in state'.bins : b[1] < slot'[s]
    BY <2>1, <2>2, <2>3, <2>4
  <2>7. Knows(s)'
    BY <1>1, <2>1, <2>2, <2>6 DEF Knows
  <2> QED
    BY <1>3, <2>5, <2>7
<1>13. CASE ReadState(s)
  <2>1. /\ pc'[s] = "restore" /\ state.exists /\ UNCHANGED state
        /\ service'[s] = state.service /\ autostart'[s] = state.autostart /\ todo'[s] = state.bins
    BY <1>13 DEF ReadState, Step, Goto, LocalTypes, files
  <2>2. Knows(s)'
    BY <2>1 DEF Knows
  <2> QED
    BY <1>3, <1>4, <2>1, <2>2
<1>14. CASE \E b \in Slots \X Paths : Restore(s, b) \/ LeaveStashed(s, b)
  <2>1. /\ pc[s] = "restore" /\ pc'[s] = "restore"
        /\ UNCHANGED <<state, service, autostart>> /\ todo'[s] \subseteq todo[s]
    BY <1>14 DEF Restore, LeaveStashed, Step, Goto, LocalTypes, files
  <2>2. Knows(s)'
    BY <1>1, <2>1 DEF Knows
  <2> QED
    BY <1>3, <1>4, <2>1, <2>2
<1>15. CASE Forget(s)
  <2>1. pc'[s] = "unhide" /\ state' = NoState
    BY <1>15 DEF Forget, Step, Goto, LocalTypes
  <2>2. Record' /\ Knows(s)'
    BY <2>1, NoStateType DEF Record, Knows
  <2> QED
    BY <1>3, <2>2
<1>16. CASE Unhide(s)
  <2>1. /\ pc[s] = "unhide" /\ pc'[s] = "enable" /\ UNCHANGED <<state, autostart>>
        /\ autostart[s] => hidden' = None
    BY <1>16 DEF Unhide, Step, Goto, LocalTypes, locals
  <2>2. Knows(s)'
    BY <1>1, <2>1 DEF Knows
  <2> QED
    BY <1>3, <1>4, <2>1, <2>2
<1>17. CASE \E p \in Paths : Replace(s, p)
  <2>1. pc'[s] = "copy" /\ UNCHANGED state
    BY <1>17 DEF Replace, Step, Goto, LocalTypes
  <2> QED
    BY <1>3, <1>4, <1>5, <2>1
<1>18. CASE PutBinary(s)
  <2>1. pc'[s] = "register" /\ UNCHANGED state /\ bindir'[s] \in installed'
    BY <1>18 DEF PutBinary, Step, Goto, LocalTypes, locals
  <2>2. Knows(s)'
    BY <2>1 DEF Knows
  <2> QED
    BY <1>3, <1>4, <2>1, <2>2
<1>19. CASE RegisterUnit(s)
  <2>1. /\ pc[s] = "register" /\ pc'[s] = "enroll" /\ UNCHANGED <<state, installed>>
        /\ unit' = bindir[s] \/ "elsewhere" \in cut'
    BY <1>19 DEF RegisterUnit, Step, Goto, Mishap, LocalTypes, binaries
  <2>2. Knows(s)'
    BY <1>1, <2>1 DEF Knows
  <2> QED
    BY <1>3, <1>4, <2>1, <2>2
<1>20. CASE Disable(s)
  <2>1. pc'[s] = "deregister" /\ UNCHANGED state
    BY <1>20 DEF Disable, Step, Goto, LocalTypes
  <2> QED
    BY <1>3, <1>4, <1>5, <2>1
<1>21. CASE RemoveUnit(s)
  <2>1. pc'[s] = "dismiss" /\ UNCHANGED state /\ unit' = None
    BY <1>21 DEF RemoveUnit, Step, Goto, LocalTypes
  <2>2. Knows(s)'
    BY <2>1 DEF Knows
  <2> QED
    BY <1>3, <1>4, <2>1, <2>2
<1>22. CASE RemoveEntry(s)
  <2>1. pc[s] = "dismiss" /\ pc'[s] = "remove" /\ UNCHANGED <<state, unit>> /\ desktop' = None
    BY <1>22 DEF RemoveEntry, Step, Goto, LocalTypes
  <2>2. Knows(s)'
    BY <1>1, <2>1 DEF Knows
  <2> QED
    BY <1>3, <1>4, <2>1, <2>2
<1>23. CASE (\E p \in Paths : RemoveBinary(s, p)) \/ BinariesRemoved(s)
  <2>1. pc[s] = "remove" /\ pc'[s] \in {"remove", "purge"} /\ UNCHANGED <<state, unit, desktop>>
    BY <1>23 DEF RemoveBinary, BinariesRemoved, Step, Goto, LocalTypes, files, registration
  <2>2. Knows(s)'
    BY <1>1, <2>1 DEF Knows
  <2> QED
    BY <1>3, <1>4, <2>1, <2>2
<1>24. CASE RemoveState(s) \/ RemoveLock(s)
  <2>1. /\ pc[s] \in {"purge", "unlocked"} /\ pc'[s] \in {"purge", "unlocked"}
        /\ UNCHANGED <<unit, desktop>> /\ state' \in {state, NoState}
    BY <1>24 DEF RemoveState, RemoveLock, Goto, LocalTypes, files, registration
  <2>2. Record'
    BY <1>1, <2>1, NoStateType DEF Record
  <2>3. Knows(s)'
    BY <1>1, <2>1 DEF Knows
  <2> QED
    BY <1>3, <2>2, <2>3
<1> QED
  BY <1>6, <1>7, <1>8, <1>9, <1>10, <1>11, <1>12, <1>13, <1>14, <1>15, <1>16, <1>17, <1>18,
     <1>19, <1>20, <1>21, <1>22, <1>23, <1>24 DEF ScriptStep

-----------------------------------------------------------------------------
(***************************************************************************)
(* What has been put away.                                                 *)
(***************************************************************************)

\* While a script is past the lock the others are outside.
LEMMA OthersWait ==
  ASSUME TypeInv, ~overlapped => Orderly, NEW s \in Scripts, ScriptStep(s), ~overlapped', Holds(s)
  PROVE  \A t \in Scripts \ {s} : pc[t] \in {"idle", "lock"} /\ pc'[t] \in {"idle", "lock"}
BY HolderInv DEF Orderly, Holds

\* Without a state file nothing is stashed.
LEMMA NothingStashed ==
  ASSUME TypeInv, Orderly, Stashed, NEW s \in Scripts, Holds(s), pc[s] # "append", ~Purging(s),
         ~state.exists
  PROVE  stash = {}
<1>1. state.bins = {}
  BY NoStateType DEF Orderly, Record
<1>2. \A t \in Scripts : pc[t] # "append" /\ ~Purging(t)
  BY DEF Orderly, OneHolder, Holds, Purging
<1> QED
  BY <1>1, <1>2 DEF Stashed

\* Outside its windows each stashed binary is recorded, or in a script's hands.
LEMMA StashedInv ==
  ASSUME TypeInv, ~overlapped => Orderly, ~overlapped /\ cut \cap StashWindows = {} => Stashed,
         NEW s \in Scripts, ScriptStep(s), ~overlapped', cut' \cap StashWindows = {}
  PROVE  Stashed'
<1> USE DEF TypeInv
<1>1. Stashed /\ Orderly /\ Record /\ Knows(s)
  BY StepFrame DEF Orderly
<1>2. /\ \A t \in Scripts \ {s} : pc'[t] = pc[t] /\ moved'[t] = moved[t] /\ todo'[t] = todo[t]
      /\ Holds(s) => \A t \in Scripts \ {s} : pc[t] \in {"idle", "lock"} /\ pc'[t] \in {"idle", "lock"}
  BY ScriptTypes, OthersWait DEF Others
<1>3. ASSUME UNCHANGED <<stash, state>>, pc[s] \notin {"append", "purge", "unlocked"}, pc'[s] # "restore"
      PROVE  Stashed'
  BY <1>1, <1>2, <1>3 DEF Stashed, Purging
<1>4. CASE \/ \E program \in Programs : Launch(s, program)
           \/ Lock(s) \/ LockedOut(s) \/ Refuses(s) \/ DevReady(s)
  <2>1. UNCHANGED <<stash, state>> /\ pc[s] \notin {"append", "purge", "unlocked"} /\ pc'[s] # "restore"
    BY <1>4, EndsTypes DEF Launch, Lock, LockedOut, Refuses, DevReady, Goto, LocalTypes, files,
       binaries
  <2> QED
    BY <1>3, <2>1
<1>5. CASE \/ Unregister(s) \/ HideEntry(s) \/ Unhide(s)
           \/ (\E p \in Paths : Replace(s, p)) \/ PutBinary(s) \/ RegisterUnit(s)
  <2>1. UNCHANGED <<stash, state>> /\ pc[s] \notin {"append", "purge", "unlocked"} /\ pc'[s] # "restore"
    BY <1>5 DEF Unregister, HideEntry, Unhide, Replace, PutBinary, RegisterUnit, Step, Goto,
       LocalTypes,
       binaries
  <2> QED
    BY <1>3, <2>1
<1>6. CASE \/ Disable(s) \/ RemoveUnit(s) \/ RemoveEntry(s) \/ BinariesRemoved(s)
           \/ \E p \in Paths : RemoveBinary(s, p)
  <2>1. UNCHANGED <<stash, state>> /\ pc[s] \notin {"append", "purge", "unlocked"} /\ pc'[s] # "restore"
    BY <1>6 DEF Disable, RemoveUnit, RemoveEntry, BinariesRemoved, RemoveBinary, Step, Goto,
       LocalTypes,
       files, binaries
  <2> QED
    BY <1>3, <2>1
<1>7. CASE Enable(s) \/ Enroll(s) \/ RegisterEntry(s)
  <2>1. UNCHANGED <<stash, state>> /\ pc[s] \notin {"append", "purge", "unlocked"} /\ pc'[s] # "restore"
    BY <1>7, EndsTypes DEF Enable, Enroll, RegisterEntry, binaries
  <2> QED
    BY <1>3, <2>1
<1>8. CASE Stops(s)
  <2>1. /\ UNCHANGED <<stash, state>> /\ pc'[s] # "restore"
        /\ pc[s] \in cut'
    BY <1>8, EndsTypes DEF Stops, Mishap, files, binaries
  <2>2. pc[s] \notin {"append", "purge", "unlocked"}
    BY <2>1 DEF StashWindows
  <2> QED
    BY <1>3, <2>1, <2>2
<1>9. CASE WriteState(s)
  <2>1. pc[s] = "record" /\ pc'[s] = "stash" /\ UNCHANGED stash /\ ~state.exists
    BY <1>1, <1>9 DEF WriteState, Step, Goto, LocalTypes, Knows, binaries
  <2>2. stash' = {}
    BY <1>1, <2>1, NothingStashed DEF Holds, Purging
  <2> QED
    BY <1>2, <2>1, <2>2 DEF Stashed
<1>10. ASSUME NEW p \in Paths, Stash(s, p) PROVE Stashed'
  <2>1. /\ pc[s] = "stash" /\ pc'[s] = "append" /\ UNCHANGED state
        /\ moved'[s] = <<slot[s], p>> /\ stash' \subseteq stash \cup {<<slot[s], p>>}
    BY <1>10 DEF Stash, Step, Goto, LocalTypes
  <2>2. \A b \in stash : b \in state.bins
    BY <1>1, <1>2, <2>1 DEF Stashed, Holds, Purging
  <2>3. \A t \in Scripts : pc'[t] # "restore"
    BY <1>2, <2>1 DEF Holds
  <2> QED
    BY <2>1, <2>2, <2>3 DEF Stashed
<1>11. CASE Append(s)
  <2>1. /\ pc[s] = "append" /\ pc'[s] = "stash" /\ UNCHANGED stash
        /\ state' = [state EXCEPT !.exists = TRUE, !.bins = @ \cup {moved[s]}]
    BY <1>11 DEF Append, Step, Goto, LocalTypes, binaries
  <2>2. state'.bins = state.bins \cup {moved[s]}
    BY <2>1 DEF TypeOK
  <2>3. \A t \in Scripts : pc'[t] # "restore" /\ (pc[t] = "append" => t = s) /\ ~Purging(t)
    BY <1>2, <2>1 DEF Holds, Purging
  <2> QED
    BY <1>1, <2>1, <2>2, <2>3 DEF Stashed
<1>12. CASE ReadState(s)
  <2>1. pc[s] = "check" /\ pc'[s] = "restore" /\ UNCHANGED <<stash, state>> /\ todo'[s] = state.bins
    BY <1>12 DEF ReadState, Step, Goto, LocalTypes, files, binaries
  <2>2. \A b \in stash : b \in state.bins
    BY <1>1, <1>2, <2>1 DEF Stashed, Holds, Purging
  <2>3. \A t \in Scripts : pc'[t] = "restore" => t = s
    BY <1>2, <2>1 DEF Holds
  <2> QED
    BY <2>1, <2>2, <2>3 DEF Stashed
<1>13. ASSUME NEW b \in Slots \X Paths, Restore(s, b) PROVE Stashed'
  <2>1. /\ pc[s] = "restore" /\ pc'[s] = "restore" /\ UNCHANGED state
        /\ stash' = {c \in stash : c[1] # b[1]} /\ todo'[s] = todo[s] \ {b}
    BY <1>13 DEF Restore, Step, Goto, LocalTypes
  <2>2. stash \subseteq todo[s]
    BY <1>1, <2>1 DEF Stashed
  <2>3. stash' \subseteq todo'[s]
    BY <2>1, <2>2
  <2>4. \A c \in stash : c \in state.bins
    BY <1>1, <2>1, <2>2 DEF Knows
  <2>5. \A t \in Scripts : pc'[t] = "restore" => t = s
    BY <1>2, <2>1 DEF Holds
  <2> QED
    BY <2>1, <2>3, <2>4, <2>5 DEF Stashed
<1>14. CASE \E b \in Slots \X Paths : LeaveStashed(s, b)
  <2>1. "unwritable" \in cut'
    BY <1>14 DEF LeaveStashed, Mishap
  <2> QED
    BY <2>1 DEF StashWindows
<1>15. CASE Forget(s)
  <2>1. pc[s] = "restore" /\ pc'[s] = "unhide" /\ UNCHANGED stash /\ todo[s] = {}
    BY <1>15 DEF Forget, Step, Goto, LocalTypes, binaries
  <2>2. stash' = {}
    BY <1>1, <2>1 DEF Stashed
  <2>3. \A t \in Scripts : pc'[t] # "restore"
    BY <1>2, <2>1 DEF Holds
  <2> QED
    BY <2>2, <2>3 DEF Stashed
<1>16. CASE RemoveState(s) \/ RemoveLock(s)
  <2>1. pc[s] \in {"purge", "unlocked"} /\ pc'[s] \in {"purge", "unlocked"}
    BY <1>16 DEF RemoveState, RemoveLock, Goto, LocalTypes
  <2>2. \A t \in Scripts : pc'[t] # "restore"
    BY <1>2, <2>1 DEF Holds
  <2> QED
    BY <2>1, <2>2 DEF Stashed, Purging
<1>17. CASE Purged(s)
  <2>1. pc[s] = "unlocked" /\ pc'[s] = "idle" /\ stash' = {}
    BY <1>17, StepFrame, EndsTypes DEF Purged, files, binaries
  <2>2. \A t \in Scripts : pc'[t] # "restore"
    BY <1>2, <2>1 DEF Holds
  <2> QED
    BY <2>1, <2>2 DEF Stashed
<1> QED
  BY <1>4, <1>5, <1>6, <1>7, <1>8, <1>9, <1>10, <1>11, <1>12, <1>13, <1>14, <1>15, <1>16, <1>17
  DEF ScriptStep

\* The binary that something would start is in place, or being replaced, and what a
\* registration put away would start is within reach.
LEMMA KeptInv ==
  ASSUME TypeInv, ~overlapped => Orderly, ~overlapped /\ cut \cap StashWindows = {} => Stashed,
         ~overlapped /\ cut \cap LoginWindows = {} => Kept,
         NEW s \in Scripts, ScriptStep(s), ~overlapped', cut' \cap LoginWindows = {}
  PROVE  Kept'
<1> USE DEF TypeInv
<1>1. Kept /\ Orderly /\ Record /\ Knows(s) /\ cut \subseteq cut'
  BY StepFrame DEF Orderly
<1>2. Stashed
  BY StepFrame DEF StashWindows, LoginWindows
<1>3. /\ \A t \in Scripts \ {s} : pc'[t] = pc[t] /\ bindir'[t] = bindir[t]
      /\ Holds(s) => \A t \in Scripts \ {s} : pc[t] \in {"idle", "lock"} /\ pc'[t] \in {"idle", "lock"}
  BY ScriptTypes, OthersWait DEF Others
\* What moves no binary and registers nothing new.
<1>4. ASSUME installed \subseteq installed', stash \subseteq stash',
             pc[s] \notin {"copy", "remove", "purge", "unlocked"},
             unit' \in {unit, None}, wanted' => wanted, desktop' \in {desktop, None},
             hidden' \in {hidden, None} \/ (hidden' = desktop)
      PROVE  Kept'
  <2>1. \A p \in Paths : InPlace(p) => InPlace(p)'
    BY <1>3, <1>4 DEF InPlace
  <2>2. \A p \in Paths : WithinReach(p) => WithinReach(p)'
    BY <1>3, <1>4, <2>1 DEF WithinReach
  <2> QED
    BY <1>1, <1>4, <2>1, <2>2 DEF Kept, TypeOK, WithinReach
<1>5. CASE \/ \E program \in Programs : Launch(s, program)
           \/ Lock(s) \/ LockedOut(s) \/ Refuses(s) \/ DevReady(s) \/ ReadState(s)
  <2>1. UNCHANGED files /\ pc[s] \notin {"copy", "remove", "purge", "unlocked"}
    BY <1>5 DEF Launch, Lock, LockedOut, Refuses, DevReady, ReadState, Step
  <2> QED
    BY <1>4, <2>1 DEF files, binaries, registration
<1>6. CASE Stops(s)
  <2>1. UNCHANGED files /\ pc[s] \in cut'
    BY <1>6 DEF Stops, Mishap
  <2>2. pc[s] \notin {"copy", "remove", "purge", "unlocked"}
    BY <2>1 DEF LoginWindows
  <2> QED
    BY <1>4, <2>1, <2>2 DEF files, binaries, registration
<1>7. CASE \/ Unregister(s) \/ WriteState(s) \/ Append(s) \/ Forget(s) \/ HideEntry(s)
  <2>1. /\ UNCHANGED <<stash, installed, unit>> /\ pc[s] \notin {"copy", "remove", "purge", "unlocked"}
        /\ (wanted' => wanted) /\ desktop' \in {desktop, None} /\ hidden' \in {hidden, desktop}
    BY <1>7 DEF Unregister, HideEntry, WriteState, Append, Forget, Step, binaries, registration,
       TypeOK
  <2> QED
    BY <1>4, <2>1
<1>8. CASE Disable(s) \/ RemoveUnit(s) \/ RemoveEntry(s)
  <2>1. /\ UNCHANGED <<stash, installed, hidden>> /\ pc[s] \notin {"copy", "remove", "purge", "unlocked"}
        /\ desktop' \in {desktop, None} /\ unit' \in {unit, None}
    BY <1>8 DEF Disable, RemoveUnit, RemoveEntry, Step, binaries
  <2>2. wanted' = wanted \/ wanted' = FALSE
    BY <1>8 DEF Disable, RemoveUnit, RemoveEntry
  <2>3. wanted' => wanted
    BY <2>2, Zenon
  <2> QED
    BY <1>4, <2>1, <2>3
\* A script before or after swapping finds all it names installed.
<1>9. ASSUME Holds(s), pc[s] \notin {"append", "copy", "remove", "purge", "unlocked"}, ~state.exists
      PROVE  /\ unit # None => unit \in installed
             /\ hidden # None => hidden \in installed
             /\ desktop # None => desktop \in installed
  <2>1. stash = {}
    BY <1>1, <1>2, <1>9, NothingStashed DEF Purging
  <2>2. \A t \in Scripts : pc[t] \notin {"copy", "remove", "purge", "unlocked"}
    BY <1>3, <1>9
  <2> QED
    BY <1>1, <2>1, <2>2 DEF Kept, WithinReach, InPlace
<1>10. ASSUME NEW p \in Paths, Stash(s, p) PROVE Kept'
  <2>1. /\ pc[s] = "stash" /\ UNCHANGED <<unit, wanted, desktop, hidden>>
        /\ stash' = {b \in stash : b[1] # slot[s]} \cup {<<slot[s], p>>}
        /\ installed' = installed \ {p} /\ slot[s] \in Nat
    BY <1>10 DEF Stash, Step, LocalTypes, registration
  <2>2. (unit = None \/ ~wanted) /\ desktop = None
    BY <1>1, <2>1 DEF Knows, LoginWindows
  <2>3. \A t \in Scripts : pc[t] \notin {"append", "copy", "remove", "purge", "unlocked"}
    BY <1>3, <2>1 DEF Holds
  <2>4. \A b \in stash : b[1] < slot[s] /\ b[1] \in Nat
    BY <1>1, <1>2, <2>1, <2>3 DEF Stashed, Knows, TypeOK, Slots, Purging
  <2>5. stash \subseteq stash'
    BY <2>1, <2>4
  <2>6. <<slot[s], p>> \in stash' /\ <<slot[s], p>>[2] = p
    BY <2>1
  <2>7. ASSUME NEW q \in Paths, WithinReach(q) PROVE WithinReach(q)'
    <3>1. q \in installed \/ \E b \in stash : b[2] = q
      BY <2>3, <2>7 DEF WithinReach, InPlace
    <3>2. CASE q = p
      BY <2>6, <3>2 DEF WithinReach
    <3>3. CASE q # p
      BY <2>1, <2>5, <3>1, <3>3 DEF WithinReach, InPlace
    <3> QED
      BY <3>2, <3>3
  <2> QED
    BY <1>1, <2>1, <2>2, <2>7 DEF Kept, TypeOK
<1>11. ASSUME NEW b \in Slots \X Paths, Restore(s, b) PROVE Kept'
  <2>1. /\ pc[s] = "restore" /\ b \in todo[s] /\ UNCHANGED <<unit, wanted, desktop, hidden>>
        /\ installed' = IF \E c \in stash : c[1] = b[1] THEN installed \cup {b[2]} ELSE installed
        /\ stash' = {c \in stash : c[1] # b[1]}
    BY <1>11 DEF Restore, Step, registration
  <2>2. \A c \in stash : c[1] = b[1] => c = b
    <3>1. stash \subseteq state.bins /\ b \in state.bins
      BY <1>1, <1>2, <2>1 DEF Stashed, Knows
    <3> QED
      BY <1>1, <3>1 DEF Record
  <2>3. \A t \in Scripts : pc[t] \notin {"copy", "remove", "purge", "unlocked"}
    BY <1>3, <2>1 DEF Holds
  <2>4. ASSUME NEW c \in stash PROVE c \in stash' \/ c[2] \in installed'
    BY <2>1, <2>2, <2>4
  <2>5. installed \subseteq installed'
    BY <2>1
  <2>6. \A q : InPlace(q) => InPlace(q)'
    BY <2>3, <2>5 DEF InPlace
  <2>7. \A q : WithinReach(q) => WithinReach(q)'
    <3>1. SUFFICES ASSUME NEW q, WithinReach(q) PROVE WithinReach(q)'
      OBVIOUS
    <3>2. InPlace(q) \/ \E c \in stash : c[2] = q
      BY <2>3, <3>1 DEF WithinReach
    <3>3. CASE InPlace(q)
      BY <2>6, <3>3 DEF WithinReach
    <3>4. CASE \E c \in stash : c[2] = q
      BY <2>4, <3>4 DEF WithinReach, InPlace
    <3> QED
      BY <3>2, <3>3, <3>4
  <2> QED
    BY <1>1, <2>1, <2>6, <2>7 DEF Kept
<1>12. CASE \E b \in Slots \X Paths : LeaveStashed(s, b)
  <2>1. "unwritable" \in cut'
    BY <1>12 DEF LeaveStashed, Mishap
  <2> QED
    BY <2>1 DEF LoginWindows
<1>13. CASE Unhide(s) \/ Enable(s)
  <2>1. /\ pc[s] \in {"unhide", "enable"} /\ UNCHANGED <<installed, unit>>
        /\ desktop' \in {desktop, hidden} /\ hidden' \in {hidden, None}
    BY <1>13 DEF Unhide, Enable, Step, binaries
  <2>2. /\ unit # None => unit \in installed
        /\ hidden # None => hidden \in installed
        /\ desktop # None => desktop \in installed
    BY <1>1, <1>9, <2>1 DEF Knows, Holds
  <2> QED
    BY <2>1, <2>2 DEF Kept, WithinReach, InPlace
<1>14. ASSUME NEW p \in Paths, Replace(s, p) PROVE Kept'
  <2>1. /\ pc[s] = "check" /\ pc'[s] = "copy" /\ bindir'[s] = p /\ installed' = installed \ {p}
        /\ UNCHANGED <<stash, unit, wanted, desktop, hidden>>
    BY <1>14 DEF Replace, Step, Goto, LocalTypes, registration
  <2>2. \A t \in Scripts : pc[t] \notin {"copy", "remove", "purge", "unlocked"}
    BY <1>3, <2>1 DEF Holds
  <2>3. InPlace(p)' /\ \A q : InPlace(q) => InPlace(q)'
    BY <2>1, <2>2 DEF InPlace
  <2> QED
    BY <1>1, <2>1, <2>2, <2>3 DEF Kept, WithinReach
<1>15. CASE PutBinary(s)
  <2>1. /\ pc[s] = "copy" /\ installed' = installed \cup {bindir[s]}
        /\ UNCHANGED <<stash, unit, wanted, desktop, hidden>>
    BY <1>15 DEF PutBinary, Step, registration
  <2>2. \A t \in Scripts : pc[t] \notin {"remove", "purge", "unlocked"} /\ (pc[t] = "copy" => t = s)
    BY <1>3, <2>1 DEF Holds
  <2>3. \A q : InPlace(q) => InPlace(q)'
    BY <2>1, <2>2 DEF InPlace
  <2> QED
    BY <1>1, <2>1, <2>2, <2>3 DEF Kept, WithinReach
<1>16. CASE RegisterUnit(s) \/ Enroll(s) \/ RegisterEntry(s)
  <2>1. /\ pc[s] \in {"register", "enroll"} /\ UNCHANGED <<installed, stash, hidden>>
        /\ unit' \in {unit, bindir[s]} /\ (unit' = bindir[s] \/ wanted' = wanted \/ pc[s] = "enroll")
        /\ desktop' \in {desktop, bindir[s]}
        /\ pc[s] = "enroll" => unit' = unit /\ desktop' = desktop
        /\ pc[s] = "register" => wanted' = wanted
    <3>1. CASE RegisterUnit(s)
      <4>1. "elsewhere" \notin cut'
        BY DEF LoginWindows
      <4> QED
        BY <3>1, <4>1 DEF RegisterUnit, Mishap, Step, binaries
    <3>2. CASE Enroll(s) \/ RegisterEntry(s)
      BY <3>2 DEF Enroll, RegisterEntry, binaries
    <3> QED
      BY <1>16, <3>1, <3>2
  <2>2. pc[s] = "register" => bindir[s] \in installed
    BY <1>1 DEF Knows
  <2>3. pc[s] = "enroll" => unit \in installed
    BY <1>1 DEF Knows, LoginWindows
  <2>4. \A t \in Scripts : pc[t] \notin {"copy", "remove", "purge", "unlocked"}
    BY <1>3, <2>1 DEF Holds
  <2>5. \A q : InPlace(q) => InPlace(q)'
    BY <2>1, <2>4 DEF InPlace
  <2>6. \A q : WithinReach(q) => WithinReach(q)'
    BY <2>1, <2>4, <2>5 DEF WithinReach
  <2>7. \A q : q \in installed => InPlace(q)' /\ WithinReach(q)'
    BY <2>1 DEF InPlace, WithinReach
  <2> QED
    BY <1>1, <2>1, <2>2, <2>3, <2>5, <2>6, <2>7 DEF Kept
<1>17. CASE \/ BinariesRemoved(s) \/ (\E p \in Paths : RemoveBinary(s, p))
            \/ RemoveState(s) \/ RemoveLock(s)
  <2>1. /\ pc[s] \in {"remove", "purge", "unlocked"} /\ pc'[s] \in {"remove", "purge", "unlocked"}
        /\ UNCHANGED <<unit, desktop>>
    BY <1>17 DEF BinariesRemoved, RemoveBinary, RemoveState, RemoveLock, Step, Goto, LocalTypes,
       files,
       registration
  <2>2. unit' = None /\ desktop' = None
    BY <1>1, <2>1 DEF Knows
  <2> QED
    BY <2>1, <2>2 DEF Kept, WithinReach
<1>18. CASE Purged(s)
  <2>1. pc[s] = "unlocked" /\ UNCHANGED <<unit, desktop, hidden>> /\ hidden = None
    BY <1>18, StepFrame DEF Purged, files, registration
  <2>2. unit' = None /\ desktop' = None
    BY <1>1, <2>1 DEF Knows
  <2> QED
    BY <2>1, <2>2 DEF Kept
<1> QED
  BY <1>5, <1>6, <1>7, <1>8, <1>10, <1>11, <1>12, <1>13, <1>14, <1>15, <1>16, <1>17, <1>18
  DEF ScriptStep

\* A registration that has been put away is on record, or in the variables of the
\* script that is putting it away or back.
LEMMA OnRecordInv ==
  ASSUME TypeInv, ~overlapped => Orderly, ~overlapped /\ cut \cap SwapWindows = {} => OnRecord,
         NEW s \in Scripts, ScriptStep(s), ~overlapped', cut' \cap SwapWindows = {}
  PROVE  OnRecord'
<1> USE DEF TypeInv
<1> DEFINE Busy == {"hide", "record", "unhide", "enable", "enroll", "deregister", "purge", "unlocked"}
<1>1. OnRecord /\ Orderly /\ Record /\ Knows(s)
  BY StepFrame DEF Orderly
<1>2. /\ \A t \in Scripts \ {s} : /\ pc'[t] = pc[t] /\ service'[t] = service[t]
                                  /\ autostart'[t] = autostart[t]
      /\ Holds(s) => \A t \in Scripts \ {s} : pc[t] \in {"idle", "lock"} /\ pc'[t] \in {"idle", "lock"}
  BY ScriptTypes, OthersWait DEF Others
\* For the holder of the lock what the others do does not matter.
<1>3. ASSUME Holds(s)
      PROVE  /\ hidden # None => state.autostart \/ Put(autostart, s) \/ Purging(s)
             /\ unit # None /\ ~wanted =>
                  state.service \/ Put(service, s) \/ pc[s] \in {"enroll", "deregister"}
  BY <1>1, <1>2, <1>3 DEF OnRecord, Put, Hiding, Finishing, Purging
<1>4. ASSUME hidden' # None => state'.autostart \/ Put(autostart, s)' \/ Purging(s)',
             unit' # None /\ ~wanted' =>
               state'.service \/ Put(service, s)' \/ pc'[s] \in {"enroll", "deregister"}
      PROVE  OnRecord'
  BY <1>4 DEF OnRecord
<1>5. ASSUME hidden' # None => hidden # None, unit' # None /\ ~wanted' => unit # None /\ ~wanted,
             state'.autostart = state.autostart, state'.service = state.service,
             pc[s] \notin Busy
      PROVE  OnRecord'
  BY <1>1, <1>2, <1>5 DEF OnRecord, Put, Hiding, Finishing, Purging
<1>6. CASE \/ \E program \in Programs : Launch(s, program)
           \/ Lock(s) \/ LockedOut(s) \/ Refuses(s) \/ DevReady(s) \/ ReadState(s)
           \/ \E b \in Slots \X Paths : LeaveStashed(s, b)
  <2>1. UNCHANGED files /\ pc[s] \notin Busy
    BY <1>6 DEF Launch, Lock, LockedOut, Refuses, DevReady, ReadState, LeaveStashed, Step
  <2> QED
    BY <1>5, <2>1 DEF files, registration
<1>7. CASE Stops(s)
  <2>1. UNCHANGED files /\ pc[s] \in cut'
    BY <1>7 DEF Stops, Mishap
  <2>2. pc[s] \notin Busy
    BY <2>1 DEF SwapWindows
  <2> QED
    BY <1>5, <2>1, <2>2 DEF files, registration
<1>8. CASE \/ \E p \in Paths : Stash(s, p) \/ Replace(s, p) \/ RemoveBinary(s, p)
           \/ \E b \in Slots \X Paths : Restore(s, b)
           \/ PutBinary(s)
  <2>1. UNCHANGED <<unit, wanted, hidden, state>> /\ pc[s] \notin Busy
    BY <1>8 DEF Stash, Replace, RemoveBinary, Restore, PutBinary, Step, registration
  <2> QED
    BY <1>5, <2>1
<1>9. CASE Append(s)
  <2>1. /\ UNCHANGED <<unit, wanted, hidden>> /\ pc[s] \notin Busy
        /\ state'.autostart = state.autostart /\ state'.service = state.service
    BY <1>9 DEF Append, Step, TypeOK, registration
  <2> QED
    BY <1>5, <2>1
<1>10. CASE RegisterEntry(s) \/ RemoveEntry(s)
  <2>1. UNCHANGED <<unit, wanted, hidden, state>> /\ pc[s] \notin Busy
    BY <1>10 DEF RegisterEntry, RemoveEntry, Step
  <2> QED
    BY <1>5, <2>1
<1>11. CASE BinariesRemoved(s)
  <2>1. UNCHANGED files /\ pc[s] \notin Busy
    BY <1>11 DEF BinariesRemoved, Step
  <2> QED
    BY <1>5, <2>1 DEF files, registration
<1>12. ~state.exists => ~state.autostart /\ ~state.service
  BY <1>1, NoStateType DEF Record
<1>13. CASE Unregister(s)
  <2>1. /\ pc[s] = "check" /\ pc'[s] = "hide" /\ ~state.exists /\ UNCHANGED <<unit, hidden>>
        /\ service'[s] = (unit # None)
    BY <1>13 DEF Unregister, Step, Goto, LocalTypes
  <2>2. hidden' = None
    BY <1>3, <1>12, <2>1 DEF Holds, Put, Hiding, Finishing, Purging
  <2>3. unit' # None => Put(service, s)'
    BY <2>1 DEF Put, Hiding
  <2> QED
    BY <1>4, <2>2, <2>3
<1>14. CASE HideEntry(s)
  <2>1. /\ pc[s] = "hide" /\ pc'[s] = "record" /\ UNCHANGED <<unit, wanted, state, service>>
        /\ autostart'[s] = (desktop # None)
        /\ hidden' = IF desktop # None THEN desktop ELSE hidden
    BY <1>14 DEF HideEntry, Step, Goto, LocalTypes
  <2>2. hidden = None
    BY <1>1, <1>3, <1>12, <2>1 DEF Holds, Put, Knows, Purging
  <2>3. hidden' # None => Put(autostart, s)'
    BY <2>1, <2>2 DEF Put, Hiding
  <2>4. unit' # None /\ ~wanted' => Put(service, s)'
    BY <1>1, <1>3, <1>12, <2>1 DEF Holds, Put, Hiding, Knows
  <2> QED
    BY <1>4, <2>3, <2>4
<1>15. CASE WriteState(s)
  <2>1. /\ pc[s] = "record" /\ UNCHANGED <<unit, wanted, hidden>>
        /\ state'.service = service[s] /\ state'.autostart = autostart[s]
    BY <1>15 DEF WriteState, Step, registration
  <2> QED
    BY <1>1, <1>3, <1>4, <1>12, <2>1 DEF Holds, Put, Knows, Purging
<1>16. CASE Forget(s)
  <2>1. /\ pc[s] = "restore" /\ pc'[s] = "unhide"
        /\ UNCHANGED <<unit, wanted, hidden, service, autostart>>
    BY <1>16 DEF Forget, Step, Goto, LocalTypes, locals, registration
  <2>2. hidden # None => autostart[s]
    BY <1>1, <1>3, <2>1 DEF Holds, Put, Hiding, Finishing, Purging, Knows
  <2>3. unit # None /\ ~wanted => service[s]
    BY <1>1, <1>3, <2>1 DEF Holds, Put, Hiding, Finishing, Knows
  <2> QED
    BY <1>4, <2>1, <2>2, <2>3 DEF Put, Finishing
<1>17. CASE Unhide(s)
  <2>1. /\ pc[s] = "unhide" /\ pc'[s] = "enable" /\ UNCHANGED <<unit, wanted, state, service>>
        /\ autostart[s] => hidden' = None
        /\ hidden' # None => hidden # None
    BY <1>17 DEF Unhide, Step, Goto, LocalTypes, locals
  <2>2. hidden # None => autostart[s]
    BY <1>1, <1>3, <1>12, <2>1 DEF Holds, Put, Knows, Purging
  <2>3. unit # None /\ ~wanted => service[s]
    BY <1>1, <1>3, <1>12, <2>1 DEF Holds, Put, Knows
  <2> QED
    BY <1>4, <2>1, <2>2, <2>3 DEF Put, Finishing
<1>18. CASE Enable(s)
  <2>1. pc[s] = "enable" /\ UNCHANGED <<unit, hidden, state>>
    BY <1>18 DEF Enable
  <2>2. wanted' = (wanted \/ (service[s] /\ unit # None))
    BY <1>18 DEF Enable
  <2>3. hidden = None
    BY <1>1, <1>3, <1>12, <2>1 DEF Holds, Put, Knows, Purging
  <2>4. unit # None /\ ~wanted => service[s]
    BY <1>1, <1>3, <1>12, <2>1 DEF Holds, Put, Knows
  <2>5. unit # None => wanted'
    BY <2>2, <2>4
  <2> QED
    BY <1>4, <2>1, <2>3, <2>5
<1>19. CASE RegisterUnit(s)
  <2>1. pc[s] = "register" /\ pc'[s] = "enroll" /\ UNCHANGED <<hidden, state>>
    BY <1>19 DEF RegisterUnit, Step, Goto, LocalTypes
  <2> QED
    BY <1>3, <1>4, <2>1 DEF Holds, Put, Hiding, Finishing, Purging
<1>20. CASE Enroll(s)
  <2>1. pc[s] = "enroll" /\ UNCHANGED <<hidden, state>> /\ wanted'
    BY <1>20 DEF Enroll
  <2> QED
    BY <1>3, <1>4, <2>1 DEF Holds, Put, Hiding, Finishing, Purging
<1>21. CASE Disable(s)
  <2>1. pc[s] = "check" /\ pc'[s] = "deregister" /\ UNCHANGED <<hidden, state>>
    BY <1>21 DEF Disable, Step, Goto, LocalTypes
  <2> QED
    BY <1>3, <1>4, <2>1 DEF Holds, Put, Hiding, Finishing, Purging
<1>22. CASE RemoveUnit(s)
  <2>1. pc[s] = "deregister" /\ unit' = None /\ UNCHANGED <<hidden, state>>
    BY <1>22 DEF RemoveUnit, Step
  <2> QED
    BY <1>3, <1>4, <2>1 DEF Holds, Put, Hiding, Finishing, Purging
<1>23. CASE RemoveState(s) \/ RemoveLock(s)
  <2>1. pc[s] \in {"purge", "unlocked"} /\ pc'[s] \in {"purge", "unlocked"} /\ UNCHANGED unit
    BY <1>23 DEF RemoveState, RemoveLock, Goto, LocalTypes, files, registration
  <2>2. unit' = None
    BY <1>1, <2>1 DEF Knows
  <2> QED
    BY <1>4, <2>1, <2>2 DEF Purging
<1>24. CASE Purged(s)
  <2>1. pc[s] = "unlocked" /\ UNCHANGED <<unit, hidden>> /\ hidden = None
    BY <1>24, StepFrame DEF Purged, files, registration
  <2>2. unit' = None
    BY <1>1, <2>1 DEF Knows
  <2> QED
    BY <1>4, <2>1, <2>2
<1> QED
  BY <1>6, <1>7, <1>8, <1>9, <1>10, <1>11, <1>13, <1>14, <1>15, <1>16, <1>17, <1>18, <1>19, <1>20,
     <1>21, <1>22, <1>23, <1>24 DEF ScriptStep

-----------------------------------------------------------------------------
(***************************************************************************)
(* The invariants hold of every behaviour.                                 *)
(***************************************************************************)
LEMMA ByHandInv == ASSUME IInv, NEW p \in Paths, ByHand(p) PROVE IInv'
<1>1. /\ installed \subseteq installed'
      /\ UNCHANGED <<flock, stash, unit, wanted, desktop, hidden, state, generation, pc, prog, opened,
                     bindir, todo, moved, slot, service, autostart, mishaps, cut, overlapped>>
  BY DEF ByHand, locals, history, registration
<1>2. TypeInv'
  BY ByHandTypes DEF IInv
<1>3. OpenedBefore' /\ Serialized'
  BY <1>1 DEF IInv, OpenedBefore, Serialized
<1>4. Orderly => Orderly'
  BY <1>1 DEF Orderly, OneHolder, Holds, Record, Knows
<1>5. Stashed => Stashed'
  BY <1>1 DEF Stashed, Purging
<1>6. Kept => Kept'
  BY <1>1 DEF Kept, InPlace, WithinReach
<1>7. OnRecord => OnRecord'
  BY <1>1 DEF OnRecord, Put, Hiding, Finishing, Purging
<1> QED
  BY <1>1, <1>2, <1>3, <1>4, <1>5, <1>6, <1>7 DEF IInv

LEMMA ScriptInv == ASSUME IInv, NEW s \in Scripts, ScriptStep(s) PROVE IInv'
<1> USE DEF IInv
<1>1. TypeInv' /\ OpenedBefore' /\ Serialized'
  BY ScriptTypes, SerialInv
<1>2. ~overlapped' => Orderly'
  BY KnowsInv, HolderInv DEF Orderly
<1>3. ~overlapped' /\ cut' \cap StashWindows = {} => Stashed'
  BY StashedInv
<1>4. ~overlapped' /\ cut' \cap LoginWindows = {} => Kept'
  BY KeptInv
<1>5. ~overlapped' /\ cut' \cap SwapWindows = {} => OnRecord'
  BY OnRecordInv
<1>6. UNCHANGED <<StashWindows, LoginWindows, SwapWindows>>
  BY DEF StashWindows, LoginWindows, SwapWindows
<1> QED
  BY <1>1, <1>2, <1>3, <1>4, <1>5, <1>6

\* The inductive invariant always holds, whatever scripts are started and stopped.
THEOREM Invariance == Spec => []IInv
<1>1. Init => IInv
  <2> SUFFICES ASSUME Init PROVE IInv
    OBVIOUS
  <2>1. TypeInv /\ OpenedBefore /\ Serialized
    BY InitTypes
  <2>2. /\ \A s \in Scripts : pc[s] = "idle" /\ ~autostart[s]
        /\ stash = {} /\ state = NoState /\ hidden = None /\ (unit # None => wanted)
    BY DEF Init
  <2>3. Orderly
    BY <2>2, NoStateType DEF Orderly, OneHolder, Holds, Record, Knows
  <2>4. Stashed
    BY <2>2 DEF Stashed
  <2>5. (unit # None => unit \in installed) /\ (desktop # None => desktop \in installed)
    BY DEF Init
  <2>6. Kept /\ OnRecord
    BY <2>2, <2>5 DEF Kept, InPlace, WithinReach, OnRecord
  <2> QED
    BY <2>1, <2>3, <2>4, <2>6 DEF IInv
<1>2. IInv /\ [Next]_vars => IInv'
  <2> SUFFICES ASSUME IInv, [Next]_vars PROVE IInv'
    OBVIOUS
  <2>1. CASE Next
    BY <2>1, ScriptInv, ByHandInv DEF Next
  <2>2. CASE UNCHANGED vars
    BY <2>2 DEF vars, IInv, TypeInv, TypeOK, LocalTypes, Room, OpenedBefore, Serialized, Orderly,
       OneHolder, Holds, Record, Knows, Stashed, Kept, InPlace, WithinReach, OnRecord, Put, Hiding,
       Finishing, Purging, StashWindows, LoginWindows, SwapWindows
  <2> QED
    BY <2>1, <2>2
<1> QED
  BY <1>1, <1>2, PTL DEF Spec

\* Every variable has its type; in particular swap-to-dev, with as many slots as
\* there may be binaries, never runs out of them.
THEOREM TypeCorrect == Spec => []TypeOK
<1>1. IInv => TypeOK
  BY DEF IInv, TypeInv
<1> QED
  BY <1>1, Invariance, PTL

\* Two scripts are past the lock at a time only on a machine without a flock, or
\* where an uninstall has removed the lock file.
THEOREM LockSerializes == Spec => []Serialized
<1>1. IInv => Serialized
  BY DEF IInv
<1> QED
  BY <1>1, Invariance, PTL

\* Whenever the user logs in, whatever would start the daemon finds its binary, for
\* any scripts in any order, any bin directories, stops at every step but those
\* named and none of the ignored failures that are.
THEOREM LoginWorks == Spec => []LoginFindsBinary
<1>1. IInv => LoginFindsBinary
  BY DEF IInv, LoginFindsBinary, Kept, InPlace, Started
<1> QED
  BY <1>1, Invariance, PTL

\* What a swap has put away is on record or in a running script's hands.
THEOREM SwapIsRecoverable == Spec => []Recoverable
<1>1. IInv => Recoverable
  <2> SUFFICES ASSUME IInv, ~overlapped, cut \cap SwapWindows = {}
               PROVE  /\ \A b \in stash : b \in state.bins \/ \E s \in Scripts : moved[s] = b \/ Purging(s)
                      /\ OnRecord
    BY DEF Recoverable, OnRecord, Put
  <2>1. cut \cap StashWindows = {}
    BY DEF StashWindows, SwapWindows
  <2> QED
    BY <2>1 DEF IInv, Stashed
<1> QED
  BY <1>1, Invariance, PTL
=============================================================================
