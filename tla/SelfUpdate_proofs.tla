-------------------------- MODULE SelfUpdate_proofs --------------------------
(***************************************************************************)
(* Proofs about SelfUpdate, for any number of threads and versions and any *)
(* faults: one thread updates at a time, what is installed is always whole *)
(* and verified, and an update never installs an older release.            *)
(***************************************************************************)
EXTENDS SelfUpdate, TLAPS

USE VersionAssumption DEF Bad, Versions

Files == Versions \cup {Bad}
Kinds == {"check", "failed", "updated"}
Messages == [kind : Kinds, version : Files]

TypeInv ==
  /\ faults \in FaultSets /\ published \in Versions
  /\ alive \in BOOLEAN /\ runs \in Versions /\ managed \in BOOLEAN
  /\ exe \in {"path", "deleted"}
  /\ visible \in BOOLEAN /\ sensitive \in BOOLEAN /\ label \in Files /\ release \in Files
  /\ checking \in BOOLEAN
  /\ step \in [Workers -> Phases] /\ wants \in [Workers -> Files]
  /\ target \in [Workers -> {"path", "deleted"}]
  /\ inbox \in Seq(Messages)
  /\ tarball \in Files /\ extracted \in Files /\ staged \in Files /\ disk \in Versions
  /\ stray \in Files
  /\ helper \in {"none", "path", "deleted"}

\* The button is enabled only if no update is on its way, nor the one message
\* that will enable it.
Button ==
  /\ OneUpdate
  /\ sensitive => Updating = {} /\ ~Posted("failed")
  /\ Posted("failed") => Updating = {}
  /\ \A i, j \in DOMAIN inbox : inbox[i].kind = "failed" /\ inbox[j].kind = "failed" => i = j

\* A release that can be clicked, or that a thread works on, is newer than the
\* one that runs.
Newer ==
  /\ visible => release > runs
  /\ \A w \in Workers : step[w] # "idle" => wants[w] > runs

\* Each file a thread has made is that of the release it wants.
Made ==
  \A w \in Workers :
    /\ step[w] = "extract" => tarball = wants[w]
    /\ step[w] \in {"stage", "copy"} => extracted = wants[w]
    /\ step[w] = "rename" => staged = wants[w]

IInv == TypeInv /\ Button /\ Newer /\ Made

\* A process image that begins or ends has nothing on its way.
LEMMA FreshInv ==
  ASSUME TypeInv, FreshUi,
         alive' \in BOOLEAN, runs' \in Versions, managed' \in BOOLEAN,
         exe' \in {"path", "deleted"}, helper' \in {"none", "path", "deleted"},
         UNCHANGED <<outside, staged, disk>>
  PROVE  IInv'
<1>1. /\ step' \in [Workers -> Phases] /\ \A w \in Workers : step'[w] = "idle"
      /\ wants' \in [Workers -> Files] /\ target' \in [Workers -> {"path", "deleted"}]
  BY DEF FreshUi, Phases, Files
<1>2. inbox' = <<>> /\ inbox' \in Seq(Messages)
  BY DEF FreshUi
<1>3. visible' = FALSE /\ visible' \in BOOLEAN /\ sensitive' \in BOOLEAN /\ checking' \in BOOLEAN
  BY DEF FreshUi
<1>4. TypeInv'
  BY <1>1, <1>2, <1>3 DEF TypeInv, FreshUi, outside, Files
<1>5. Button'
  BY <1>1, <1>2 DEF Button, OneUpdate, Updating, Posted
<1>6. Newer' /\ Made'
  BY <1>1, <1>3 DEF Newer, Made
<1> QED
  BY <1>4, <1>5, <1>6 DEF IInv

\* What a message other than a failure does to the inbox, put in or taken out.
LEMMA InboxAppend ==
  ASSUME TypeInv, NEW msg \in Messages, inbox' = Append(inbox, msg)
  PROVE  /\ inbox' \in Seq(Messages)
         /\ Posted("failed")' <=> Posted("failed") \/ msg.kind = "failed"
         /\ \A i \in DOMAIN inbox' : inbox'[i].kind = "failed" =>
              \/ i \in DOMAIN inbox /\ inbox[i].kind = "failed"
              \/ i = Len(inbox) + 1 /\ msg.kind = "failed"
<1>1. /\ inbox \in Seq(Messages)
      /\ DOMAIN inbox' = 1 .. Len(inbox) + 1 /\ DOMAIN inbox = 1 .. Len(inbox)
      /\ Len(inbox) \in Nat
      /\ inbox'[Len(inbox) + 1] = msg
      /\ \A i \in DOMAIN inbox : inbox'[i] = inbox[i] /\ i \in DOMAIN inbox'
  BY DEF TypeInv
<1>2. inbox' \in Seq(Messages)
  BY <1>1
<1>3. \A i \in DOMAIN inbox' : i \in DOMAIN inbox \/ i = Len(inbox) + 1
  BY <1>1
<1>4. Len(inbox) + 1 \in DOMAIN inbox'
  BY <1>1
<1> QED
  BY <1>1, <1>2, <1>3, <1>4 DEF Posted

LEMMA InboxTail ==
  ASSUME TypeInv, Button, inbox # <<>>, inbox' = Tail(inbox)
  PROVE  /\ inbox' \in Seq(Messages)
         /\ Head(inbox) \in Messages
         /\ Posted("failed")' => Posted("failed")
         /\ Head(inbox).kind = "failed" => Posted("failed") /\ ~Posted("failed")'
         /\ \A i, j \in DOMAIN inbox' :
              inbox'[i].kind = "failed" /\ inbox'[j].kind = "failed" => i = j
<1>a. inbox \in Seq(Messages) /\ Len(inbox) \in Nat /\ Len(inbox) > 0
  BY DEF TypeInv
<1>b. DOMAIN inbox = 1 .. Len(inbox) /\ 1 \in DOMAIN inbox /\ Head(inbox) = inbox[1]
  BY <1>a
<1>c. /\ inbox' \in Seq(Messages)
      /\ DOMAIN inbox' = 1 .. Len(inbox) - 1
      /\ \A i \in 1 .. Len(inbox) - 1 : inbox'[i] = inbox[i + 1]
  BY <1>a
<1>1. /\ inbox \in Seq(Messages)
      /\ Head(inbox) = inbox[1] /\ 1 \in DOMAIN inbox
      /\ DOMAIN inbox' \subseteq Nat \ {0}
      /\ \A i \in DOMAIN inbox' : i + 1 \in DOMAIN inbox /\ inbox'[i] = inbox[i + 1]
  <2>1. DOMAIN inbox' \subseteq Nat \ {0}
    BY <1>a, <1>c
  <2>2. \A i \in DOMAIN inbox' : i + 1 \in DOMAIN inbox /\ inbox'[i] = inbox[i + 1]
    BY <1>a, <1>b, <1>c
  <2> QED
    BY <1>a, <1>b, <2>1, <2>2
<1>2. /\ inbox' \in Seq(Messages)
      /\ Head(inbox) \in Messages
  <2>1. inbox \in [1 .. Len(inbox) -> Messages]
    BY <1>a
  <2>2. inbox[1] \in Messages
    BY <1>b, <2>1
  <2> QED
    BY <1>b, <1>c, <2>2
<1>3. Posted("failed")' => Posted("failed")
  BY <1>1 DEF Posted
<1>4. Head(inbox).kind = "failed" => Posted("failed") /\ ~Posted("failed")'
  <2> SUFFICES ASSUME Head(inbox).kind = "failed" PROVE Posted("failed") /\ ~Posted("failed")'
    OBVIOUS
  <2>1. Posted("failed")
    BY <1>1 DEF Posted
  <2>2. ASSUME NEW i \in DOMAIN inbox', inbox'[i].kind = "failed" PROVE FALSE
    <3>1. i + 1 = 1
      BY <1>1, <2>2 DEF Button
    <3> QED
      BY <1>1, <3>1
  <2> QED
    BY <2>1, <2>2 DEF Posted
<1>5. ASSUME NEW i \in DOMAIN inbox', NEW j \in DOMAIN inbox',
             inbox'[i].kind = "failed", inbox'[j].kind = "failed"
      PROVE  i = j
  <2>1. i + 1 = j + 1
    BY <1>1, <1>5 DEF Button
  <2> QED
    BY <1>1, <2>1
<1> QED
  BY <1>2, <1>3, <1>4, <1>5

\* A step of the update in a thread's work, other than its end.
LEMMA Works ==
  ASSUME IInv, NEW w \in Workers, step[w] # "idle",
         NEW to \in Phases \ {"idle"}, step' = [step EXCEPT ![w] = to],
         UNCHANGED <<faults, published, alive, runs, managed, ui, checking, wants, inbox, helper>>,
         exe' \in {"path", "deleted"}, target' \in [Workers -> {"path", "deleted"}],
         tarball' \in Files, extracted' \in Files, staged' \in Files, disk' \in Versions,
         stray' \in Files,
         to = "extract" => tarball' = wants[w],
         to \in {"stage", "copy"} => extracted' = wants[w],
         to = "rename" => staged' = wants[w]
  PROVE  IInv'
<1>1. /\ step \in [Workers -> Phases] /\ step' \in [Workers -> Phases] /\ step'[w] = to
      /\ \A v \in Workers : v # w => step'[v] = step[v] /\ step[v] = "idle"
  BY Zenon DEF IInv, TypeInv, Button, OneUpdate, Updating
<1>2. TypeInv'
  BY <1>1 DEF IInv, TypeInv, ui
<1>3. Updating' = Updating
  BY <1>1 DEF Updating
<1>4. Posted("failed")' <=> Posted("failed")
  BY DEF Posted
<1>5. Button'
  BY <1>3, <1>4 DEF IInv, Button, OneUpdate, ui
<1>6. Newer'
  BY <1>1 DEF IInv, Newer, ui
<1>7. Made'
  BY <1>1 DEF Made
<1> QED
  BY <1>2, <1>5, <1>6, <1>7 DEF IInv

\* The end of a thread, after the one update there is.
LEMMA Ends ==
  ASSUME IInv, NEW w \in Workers, step[w] # "idle",
         NEW kind \in {"failed", "updated"}, Post(w, kind),
         UNCHANGED <<outside, image, ui, checking, staged, disk, helper>>,
         tarball' \in Files, extracted' \in Files
  PROVE  IInv'
<1>1. /\ step \in [Workers -> Phases] /\ wants \in [Workers -> Files]
      /\ target \in [Workers -> {"path", "deleted"}]
      /\ \A v \in Workers : v # w => step[v] = "idle"
  BY Zenon DEF IInv, TypeInv, Button, OneUpdate, Updating
<1>2. /\ step' \in [Workers -> Phases] /\ \A v \in Workers : step'[v] = "idle"
      /\ wants' \in [Workers -> Files] /\ target' \in [Workers -> {"path", "deleted"}]
  BY <1>1 DEF Post, Phases, Files
<1>3. [kind |-> kind, version |-> wants[w]] \in Messages
  BY <1>1 DEF Kinds, Messages
<1>4. inbox' = Append(inbox, [kind |-> kind, version |-> wants[w]])
  BY DEF Post
<1>5. /\ inbox' \in Seq(Messages)
      /\ Posted("failed")' <=> Posted("failed") \/ kind = "failed"
      /\ \A i \in DOMAIN inbox' : inbox'[i].kind = "failed" =>
           \/ i \in DOMAIN inbox /\ inbox[i].kind = "failed"
           \/ i = Len(inbox) + 1 /\ kind = "failed"
  BY <1>3, <1>4, InboxAppend DEF IInv
<1>6. TypeInv'
  BY <1>2, <1>5 DEF IInv, TypeInv, outside, image, ui
<1>7. ~sensitive /\ ~Posted("failed") /\ Updating' = {}
  BY <1>2 DEF IInv, Button, Updating
<1>8. Button'
  <2>1. OneUpdate' /\ (sensitive' => FALSE) /\ Updating' = {}
    BY <1>7 DEF OneUpdate, ui
  <2>2. ASSUME NEW i \in DOMAIN inbox', NEW j \in DOMAIN inbox',
               inbox'[i].kind = "failed", inbox'[j].kind = "failed"
        PROVE  i = j
    BY <1>5, <1>7, <2>2 DEF Posted
  <2> QED
    BY <2>1, <2>2 DEF Button
<1>9. Newer' /\ Made'
  BY <1>2 DEF IInv, Newer, Made, ui, image
<1> QED
  BY <1>6, <1>8, <1>9 DEF IInv

\* What the main loop does with a message.
LEMMA Applies ==
  ASSUME IInv, inbox # <<>>, inbox' = Tail(inbox),
         UNCHANGED <<outside, image, threads, files, helper>>,
         visible' \in BOOLEAN, sensitive' \in BOOLEAN, checking' \in BOOLEAN,
         label' \in Files, release' \in Files, visible' => release' > runs,
         sensitive' => sensitive \/ Head(inbox).kind = "failed"
  PROVE  IInv'
<1>1. /\ inbox' \in Seq(Messages)
      /\ Posted("failed")' => Posted("failed")
      /\ Head(inbox).kind = "failed" => Posted("failed") /\ ~Posted("failed")'
      /\ \A i, j \in DOMAIN inbox' :
           inbox'[i].kind = "failed" /\ inbox'[j].kind = "failed" => i = j
  BY InboxTail DEF IInv
<1>2. TypeInv'
  BY <1>1 DEF IInv, TypeInv, outside, image, threads, files
<1>3. Updating' = Updating /\ OneUpdate' /\ step' = step /\ wants' = wants
  BY DEF Updating, OneUpdate, threads, IInv, Button
<1>4. Button'
  BY <1>1, <1>3 DEF IInv, Button
<1>5. Newer' /\ Made'
  BY <1>3 DEF IInv, Newer, Made, image, files
<1> QED
  BY <1>2, <1>4, <1>5 DEF IInv

\* The release check keeps the invariant: a message that is no failure is posted,
\* and what it says decides whether the button shows.
LEMMA CheckInv ==
  ASSUME IInv, Check PROVE IInv'
<1>1. CASE StartCheck
  <2>1. TypeInv'
    BY <1>1 DEF StartCheck, IInv, TypeInv, outside, image, ui, threads, files
  <2>2. Button'
    BY <1>1 DEF StartCheck, IInv, Button, OneUpdate, Updating, Posted, ui, threads
  <2>3. Newer' /\ Made'
    BY <1>1 DEF StartCheck, IInv, Newer, Made, image, ui, threads, files
  <2> QED
    BY <2>1, <2>2, <2>3 DEF IInv
<1>2. CASE CheckReturns
  <2>1. PICK latest \in {published, Bad} :
          inbox' = Append(inbox, [kind |-> "check", version |-> latest])
    BY <1>2 DEF CheckReturns
  <2>2. [kind |-> "check", version |-> latest] \in Messages
    BY DEF IInv, TypeInv, Messages, Kinds, Files
  <2>3. /\ inbox' \in Seq(Messages)
        /\ Posted("failed")' <=> Posted("failed")
        /\ \A i \in DOMAIN inbox' : inbox'[i].kind = "failed" =>
             i \in DOMAIN inbox /\ inbox[i].kind = "failed"
    BY <2>1, <2>2, InboxAppend DEF IInv
  <2>4. TypeInv'
    BY <1>2, <2>3 DEF CheckReturns, IInv, TypeInv, outside, image, ui, threads, files
  <2>5. \A i, j \in DOMAIN inbox' :
          inbox'[i].kind = "failed" /\ inbox'[j].kind = "failed" => i = j
    <3>1. ASSUME NEW i \in DOMAIN inbox', NEW j \in DOMAIN inbox',
                 inbox'[i].kind = "failed", inbox'[j].kind = "failed"
          PROVE  i = j
      BY <2>3, <3>1 DEF IInv, Button
    <3> QED
      BY <3>1
  <2>6. Button'
    BY <1>2, <2>3, <2>5 DEF CheckReturns, IInv, Button, OneUpdate, Updating, ui, threads
  <2>7. Newer' /\ Made'
    BY <1>2 DEF CheckReturns, IInv, Newer, Made, image, ui, threads, files
  <2> QED
    BY <2>4, <2>6, <2>7 DEF IInv
<1>3. CASE ApplyCheck
  <2>1. Head(inbox) \in Messages
    BY <1>3, InboxTail DEF ApplyCheck, IInv
  <2>2. Head(inbox).version \in Files
    BY <2>1 DEF Messages
  <2>3. /\ visible' \in BOOLEAN /\ release' \in Files /\ label' \in Files
        /\ visible' => release' > runs
    <3> DEFINE latest == Head(inbox).version
    <3>1. /\ release' = latest /\ visible' = (latest > runs)
          /\ label' = IF latest > runs THEN latest ELSE label
      BY <1>3 DEF ApplyCheck
    <3>2. label \in Files /\ latest \in Files
      BY <2>2 DEF IInv, TypeInv
    <3> HIDE DEF latest
    <3>3. release' \in Files /\ label' \in Files /\ (visible' => release' > runs)
      BY <3>1, <3>2
    <3>4. visible' \in BOOLEAN
      BY <3>1
    <3> QED
      BY <3>3, <3>4
  <2> QED
    BY <1>3, <2>3, Applies DEF ApplyCheck, IInv, TypeInv
<1> QED
  BY <1>1, <1>2, <1>3 DEF Check

\* A click starts the only update, for the release the button shows.
LEMMA ClickInv ==
  ASSUME IInv, NEW w \in Workers, Click(w) PROVE IInv'
<1>1. /\ sensitive /\ visible /\ sensitive' = FALSE /\ visible' = visible /\ label' = Bad
      /\ step' = [step EXCEPT ![w] = "download"] /\ wants' = [wants EXCEPT ![w] = release]
  BY DEF Click
<1>2. Updating = {} /\ ~Posted("failed")
  BY <1>1 DEF IInv, Button
<1>3. /\ step \in [Workers -> Phases] /\ wants \in [Workers -> Files]
      /\ release \in Files /\ release > runs
  BY <1>1 DEF IInv, TypeInv, Newer
<1>4. /\ \A v \in Workers : step[v] = "idle"
      /\ step' \in [Workers -> Phases] /\ wants' \in [Workers -> Files]
      /\ step'[w] = "download" /\ wants'[w] = release
      /\ \A v \in Workers \ {w} : step'[v] = "idle"
  BY <1>1, <1>2, <1>3 DEF Updating, Phases
<1>5. TypeInv'
  BY <1>1, <1>4 DEF Click, IInv, TypeInv, outside, image, files, Files
<1>6. OneUpdate' /\ ~sensitive' /\ ~Posted("failed")' /\ inbox' = inbox
  BY <1>1, <1>2, <1>4 DEF OneUpdate, Updating, Posted, Click
<1>7. Button'
  BY <1>6 DEF IInv, Button
<1>8. Newer' /\ Made'
  BY <1>3, <1>4 DEF Click, IInv, Newer, Made, image
<1> QED
  BY <1>5, <1>7, <1>8 DEF IInv

\* Every step of an update keeps the invariant.
LEMMA UpdateInv ==
  ASSUME IInv, NEW w \in Workers, UpdateStep(w) PROVE IInv'
<1> USE DEF UpdateOnly
<1>t. /\ step \in [Workers -> Phases] /\ wants \in [Workers -> Files]
      /\ target \in [Workers -> {"path", "deleted"}] /\ exe \in {"path", "deleted"}
      /\ tarball \in Files /\ extracted \in Files /\ staged \in Files /\ disk \in Versions
      /\ stray \in Files
  BY DEF IInv, TypeInv
<1>f. Bad \in Files /\ wants[w] \in Files
  BY <1>t DEF Files
<1>1. CASE Download(w)
  <2>1. "verify" \in Phases \ {"idle"} /\ tarball' \in Files
    BY <1>1, <1>f DEF Download, Phases
  <2> QED
    BY <1>1, <1>t, <2>1, Works DEF Download, Advance, image, outside
<1>2. CASE Verify(w)
  <2>1. "extract" \in Phases \ {"idle"}
    BY DEF Phases
  <2> QED
    BY <1>2, <1>t, <2>1, Works DEF Verify, Advance, image, outside, files
<1>3. CASE Extract(w)
  <2>1. "stage" \in Phases \ {"idle"} /\ extracted' = wants[w]
    BY <1>3 DEF Extract, Advance, Phases, IInv, Made
  <2> QED
    BY <1>3, <1>t, <1>f, <2>1, Works DEF Extract, Advance, image, outside
<1>4. CASE BeginStage(w)
  <2>1. "copy" \in Phases \ {"idle"} /\ extracted' = wants[w]
    BY <1>4 DEF BeginStage, Advance, Phases, IInv, Made
  <2>2. target' \in [Workers -> {"path", "deleted"}]
    BY <1>4, <1>t DEF BeginStage
  <2> QED
    BY <1>4, <1>t, <1>f, <2>1, <2>2, Works DEF BeginStage, Advance, image, outside
<1>5. CASE EndStage(w)
  <2>1. "rename" \in Phases \ {"idle"} /\ staged' = wants[w]
    BY <1>5 DEF EndStage, Advance, Phases, IInv, Made
  <2> QED
    BY <1>5, <1>t, <1>f, <2>1, Works DEF EndStage, Advance, image, outside
<1>6. CASE Rename(w)
  <2>1. "restart" \in Phases \ {"idle"}
    BY DEF Phases
  <2>2. wants[w] > runs /\ staged = wants[w] /\ runs \in Versions
    BY <1>6 DEF Rename, Advance, IInv, Newer, Made, TypeInv
  <2>3. staged \in Versions
    BY <1>t, <2>2 DEF Files
  <2>4. disk' \in Versions /\ stray' \in Files
    BY <1>6, <1>t, <2>3 DEF Rename
  <2> QED
    BY <1>6, <1>t, <1>f, <2>1, <2>4, Works DEF Rename, Advance
<1>7. CASE Fails(w)
  <2>1. tarball' \in Files /\ extracted' \in Files
    BY <1>7, <1>t, <1>f DEF Fails
  <2> QED
    BY <1>7, <2>1, Ends DEF Fails
<1>8. CASE SystemctlRestarts(w)
  BY <1>8 , <1>t, FreshInv DEF SystemctlRestarts, NewImage, IInv, TypeInv
<1>9. CASE SystemctlStartsAnother(w)
  BY <1>9, <1>t, Ends DEF SystemctlStartsAnother, files
<1>10. CASE ExitForHelper(w)
  <2>1. helper' \in {"none", "path", "deleted"}
    BY <1>10, <1>t DEF ExitForHelper
  <2> QED
    BY <1>10, <2>1, FreshInv DEF ExitForHelper, Dies, IInv, TypeInv
<1>11. CASE SpawnFails(w)
  BY <1>11, <1>t, Ends DEF SpawnFails, files
<1> QED
  BY <1>1, <1>2, <1>3, <1>4, <1>5, <1>6, <1>7, <1>8, <1>9, <1>10, <1>11 DEF UpdateStep

\* Messages that are applied keep the invariant: only a failure, after which
\* nothing updates, enables the button.
LEMMA ApplyInv ==
  ASSUME IInv, Apply PROVE IInv'
<1>1. CASE ApplyFailed
  <2>1. Head(inbox).version \in Files
    BY <1>1, InboxTail DEF ApplyFailed, IInv, Messages
  <2> QED
    BY <1>1, <2>1, Applies DEF ApplyFailed, IInv, TypeInv, Newer
<1>2. CASE ApplyUpdated
  BY <1>2, Applies DEF ApplyUpdated, IInv, TypeInv, Newer, ui
<1> QED
  BY <1>1, <1>2 DEF Apply

\* So do the processes that start, stop and replace the binary around it.
LEMMA AroundInv ==
  ASSUME IInv, Helper \/ Stopped \/ StartDaemon \/ InPlaceRestart PROVE IInv'
<1> USE DEF IInv, TypeInv
<1>1. CASE HelperStarts
  BY <1>1, FreshInv DEF HelperStarts, NewImage
<1>2. CASE HelperEnds
  <2>1. TypeInv'
    BY <1>2 DEF HelperEnds, outside, image, ui, threads, files
  <2>2. Button'
    BY <1>2 DEF HelperEnds, Button, OneUpdate, Updating, Posted, ui, threads
  <2>3. Newer' /\ Made'
    BY <1>2 DEF HelperEnds, Newer, Made, image, ui, threads, files
  <2> QED
    BY <2>1, <2>2, <2>3
<1>3. CASE Stopped
  BY <1>3, FreshInv DEF Stopped, Dies
<1>4. CASE StartDaemon
  BY <1>4, FreshInv DEF StartDaemon, NewImage
<1>5. CASE InPlaceRestart
  <2>1. CASE exe = "path" \/ stray # Bad
    <3>1. NewImage(managed, exe) /\ UNCHANGED <<outside, helper>>
      BY <1>5, <2>1 DEF InPlaceRestart
    <3>2. runs' \in Versions
      BY <2>1, <3>1 DEF NewImage, Files
    <3> QED
      BY <3>1, <3>2, FreshInv DEF NewImage
  <2>2. CASE ~(exe = "path" \/ stray # Bad)
    BY <1>5, <2>2, FreshInv DEF InPlaceRestart, Dies
  <2> QED
    BY <2>1, <2>2
<1> QED
  BY <1>1, <1>2, <1>3, <1>4, <1>5 DEF Helper

LEMMA WorldInv ==
  ASSUME IInv, NEW v \in Versions, Publish(v) \/ Replaced(v) PROVE IInv'
<1>1. CASE Publish(v)
  <2>1. TypeInv'
    BY <1>1 DEF Publish, IInv, TypeInv, image, ui, threads, files
  <2>2. Button'
    BY <1>1 DEF Publish, IInv, Button, OneUpdate, Updating, Posted, ui, threads
  <2>3. Newer' /\ Made'
    BY <1>1 DEF Publish, IInv, Newer, Made, image, ui, threads, files
  <2> QED
    BY <2>1, <2>2, <2>3 DEF IInv
<1>2. CASE Replaced(v)
  <2>1. TypeInv'
    BY <1>2 DEF Replaced, IInv, TypeInv, outside, ui, threads
  <2>2. Button'
    BY <1>2 DEF Replaced, IInv, Button, OneUpdate, Updating, Posted, ui, threads
  <2>3. Newer' /\ Made'
    BY <1>2 DEF Replaced, IInv, Newer, Made, ui, threads
  <2> QED
    BY <2>1, <2>2, <2>3 DEF IInv
<1> QED
  BY <1>1, <1>2

LEMMA InitInv ==
  Init => IInv
<1> SUFFICES ASSUME Init PROVE IInv
  OBVIOUS
<1>1. TypeInv
  <2>1. inbox \in Seq(Messages)
    BY DEF Init
  <2>2. /\ step \in [Workers -> Phases] /\ wants \in [Workers -> Files]
        /\ target \in [Workers -> {"path", "deleted"}]
    BY DEF Init, Files, Phases
  <2>3. /\ alive \in BOOLEAN /\ managed \in BOOLEAN /\ visible \in BOOLEAN
        /\ sensitive \in BOOLEAN /\ checking \in BOOLEAN
    BY Zenon DEF Init
  <2>4. /\ label \in Files /\ release \in Files /\ runs \in Versions /\ disk \in Versions
        /\ tarball \in Files /\ extracted \in Files /\ staged \in Files /\ stray \in Files
    BY DEF Init, Files
  <2> QED
    BY <2>1, <2>2, <2>3, <2>4 DEF Init, TypeInv
<1>2. Button
  BY DEF Init, Button, OneUpdate, Updating, Posted
<1>3. Newer /\ Made
  BY DEF Init, Newer, Made
<1> QED
  BY <1>1, <1>2, <1>3 DEF IInv

LEMMA NextInv ==
  IInv /\ [Next]_vars => IInv'
<1> SUFFICES ASSUME IInv, [Next]_vars PROVE IInv'
  OBVIOUS
<1>1. CASE Next
  BY <1>1, CheckInv, ClickInv, UpdateInv, ApplyInv, AroundInv, WorldInv DEF Next
<1>2. CASE UNCHANGED vars
  <2>1. TypeInv'
    BY <1>2 DEF vars, IInv, TypeInv
  <2>2. Button'
    BY <1>2 DEF vars, IInv, Button, OneUpdate, Updating, Posted
  <2>3. Newer' /\ Made'
    BY <1>2 DEF vars, IInv, Newer, Made
  <2> QED
    BY <2>1, <2>2, <2>3 DEF IInv
<1> QED
  BY <1>1, <1>2

LEMMA IInvHolds ==
  Spec => []IInv
<1> QED
  BY InitInv, NextInv, PTL DEF Spec

-----------------------------------------------------------------------------
\* Every variable has its type: a message carries a version, each thread is at a
\* step of run, and no file is other than whole or Bad.
THEOREM TypeCorrect ==
  Spec => []TypeOK
<1>1. IInv => TypeOK
  <2> SUFFICES ASSUME TypeInv PROVE TypeOK
    BY DEF IInv
  <2>1. {label, release, tarball, extracted, staged, disk, stray} \subseteq Versions \cup {Bad}
    BY DEF TypeInv, Files
  <2>2. {alive, managed, visible, sensitive, checking} \subseteq BOOLEAN
    <3>1. /\ alive \in BOOLEAN /\ managed \in BOOLEAN /\ visible \in BOOLEAN
          /\ sensitive \in BOOLEAN /\ checking \in BOOLEAN
      BY DEF TypeInv
    <3> QED
      BY <3>1, Zenon
  <2> QED
    BY <2>1, <2>2 DEF TypeInv, TypeOK, Files, Messages, Kinds
<1> QED
  BY <1>1, IInvHolds, PTL

\* The threads share a work directory and a staged file without a lock; the
\* button alone keeps a second update from starting while one is on its way.
THEOREM UpdatesAlone ==
  Spec => []OneUpdate
<1>1. IInv => OneUpdate
  BY DEF IInv, Button
<1> QED
  BY <1>1, IInvHolds, PTL

\* Whatever fails, crashes or is replaced at whatever step, the installed binary
\* is a whole, verified release.
THEOREM AlwaysIntact ==
  Spec => []InstallIntact
<1>1. IInv => InstallIntact
  BY DEF IInv, TypeInv, InstallIntact
<1> QED
  BY <1>1, IInvHolds, PTL

\* The rename installs the release a thread wants, and that was newer than the
\* running one when the button was clicked, and still is.
THEOREM OnlyUpgrades ==
  Spec => NeverDowngrades
<1>1. IInv /\ [Next]_vars =>
        [\A w \in Workers : Rename(w) /\ disk' # disk => disk' > runs]_vars
  <2> SUFFICES ASSUME IInv, NEW w \in Workers, Rename(w), disk' # disk PROVE disk' > runs
    OBVIOUS
  <2>1. disk' = staged /\ step[w] = "rename"
    BY DEF Rename, Advance
  <2> QED
    BY <2>1 DEF IInv, Newer, Made
<1> QED
  BY <1>1, IInvHolds, PTL DEF Spec, NeverDowngrades

-----------------------------------------------------------------------------
(***************************************************************************)
(* The button comes back.                                                  *)
(***************************************************************************)

\* A failure that is posted stays until it is applied.
LEMMA FailureStays ==
  ASSUME TypeInv, Posted("failed"),
         \/ inbox' = inbox
         \/ \E msg \in Messages : inbox' = Append(inbox, msg)
         \/ inbox # <<>> /\ inbox' = Tail(inbox) /\ Head(inbox).kind # "failed"
  PROVE  Posted("failed")'
<1>1. CASE inbox' = inbox
  BY <1>1 DEF Posted
<1>2. ASSUME NEW msg \in Messages, inbox' = Append(inbox, msg) PROVE Posted("failed")'
  BY <1>2, InboxAppend
<1>3. CASE inbox # <<>> /\ inbox' = Tail(inbox) /\ Head(inbox).kind # "failed"
  <2>1. PICK i \in DOMAIN inbox : inbox[i].kind = "failed"
    BY DEF Posted
  <2>2. /\ inbox \in Seq(Messages) /\ Len(inbox) \in Nat /\ i \in 1 .. Len(inbox)
        /\ Head(inbox) = inbox[1]
    BY <1>3 DEF TypeInv
  <2>3. i # 1
    BY <1>3, <2>1, <2>2
  <2>4. i - 1 \in 1 .. Len(inbox) - 1
    BY <2>2, <2>3
  <2>5. i - 1 \in DOMAIN inbox' /\ inbox'[i - 1] = inbox[i]
    BY <1>3, <2>2, <2>4
  <2> QED
    BY <2>1, <2>5 DEF Posted
<1> QED
  BY <1>1, <1>2, <1>3

\* A thread that ends other than with its process posts a failure, unless the
\* unit that systemctl starts is another daemon.
LEMMA EndsWithFailure ==
  ASSUME IInv, NEW w \in Workers, Post(w, "failed") PROVE Posted("failed")'
<1>1. [kind |-> "failed", version |-> wants[w]] \in Messages
  BY DEF IInv, TypeInv, Messages, Kinds
<1> QED
  BY <1>1, InboxAppend DEF Post, IInv

LEMMA DisabledStep ==
  ASSUME IInv, DisabledOnlyWhileUpdating, [Next]_vars PROVE DisabledOnlyWhileUpdating'
<1> SUFFICES ASSUME "manual" \notin faults, ~sensitive', faults' = faults
             PROVE  Updating' # {} \/ Posted("failed")'
  <2>1. faults' = faults
    BY DEF Next, Publish, Replaced, Check, StartCheck, CheckReturns, ApplyCheck, Click, UpdateStep,
       Download, Verify, Extract, BeginStage, EndStage, Rename, Fails, SystemctlRestarts,
       SystemctlStartsAnother, ExitForHelper, SpawnFails, UpdateOnly, Apply, ApplyFailed,
       ApplyUpdated, Helper, HelperStarts, HelperEnds, Stopped, StartDaemon, InPlaceRestart,
       outside, vars
  <2> QED
    BY <2>1 DEF DisabledOnlyWhileUpdating
<1>1. ASSUME FreshUi PROVE FALSE
  BY <1>1 DEF FreshUi
<1>2. ASSUME NEW w \in Workers, NEW to \in Phases \ {"idle"},
             step' = [step EXCEPT ![w] = to]
      PROVE  Updating' # {}
  <2>1. step'[w] = to
    BY <1>2 DEF IInv, TypeInv
  <2> QED
    BY <2>1 DEF Updating
<1>3. ASSUME ~sensitive, UNCHANGED step,
             \/ inbox' = inbox
             \/ \E msg \in Messages : inbox' = Append(inbox, msg)
             \/ inbox # <<>> /\ inbox' = Tail(inbox) /\ Head(inbox).kind # "failed"
      PROVE  Updating' # {} \/ Posted("failed")'
  <2>1. Updating' = Updating
    BY <1>3 DEF Updating
  <2>2. CASE Posted("failed")
    BY <1>3, <2>2, FailureStays DEF IInv
  <2>3. CASE Updating # {}
    BY <2>1, <2>3
  <2> QED
    BY <1>3, <2>2, <2>3 DEF DisabledOnlyWhileUpdating
<1>4. CASE Check
  <2>1. CASE StartCheck
    BY <1>3, <2>1 DEF StartCheck, ui, threads
  <2>2. CASE CheckReturns
    <3>1. PICK latest \in {published, Bad} :
            inbox' = Append(inbox, [kind |-> "check", version |-> latest])
      BY <2>2 DEF CheckReturns
    <3>2. [kind |-> "check", version |-> latest] \in Messages
      BY DEF IInv, TypeInv, Messages, Kinds, Files
    <3> QED
      BY <1>3, <2>2, <3>1, <3>2 DEF CheckReturns, ui, threads
  <2>3. CASE ApplyCheck
    BY <1>3, <2>3 DEF ApplyCheck, threads
  <2> QED
    BY <1>4, <2>1, <2>2, <2>3 DEF Check
<1>5. ASSUME NEW w \in Workers, Click(w) PROVE Updating' # {}
  BY <1>2, <1>5 DEF Click, Phases
<1>6. ASSUME NEW w \in Workers, UpdateStep(w) PROVE Updating' # {} \/ Posted("failed")'
  <2>1. CASE Download(w) \/ Verify(w) \/ Extract(w) \/ BeginStage(w) \/ EndStage(w) \/ Rename(w)
    BY <1>2, <2>1 DEF Download, Verify, Extract, BeginStage, EndStage, Rename, Advance, Phases
  <2>2. CASE Fails(w) \/ SpawnFails(w)
    BY <2>2, EndsWithFailure DEF Fails, SpawnFails
  <2>3. CASE SystemctlRestarts(w) \/ ExitForHelper(w)
    BY <1>1, <2>3 DEF SystemctlRestarts, NewImage, ExitForHelper, Dies
  <2>4. CASE SystemctlStartsAnother(w)
    BY <2>4 DEF SystemctlStartsAnother, UnitEnabled
  <2> QED
    BY <1>6, <2>1, <2>2, <2>3, <2>4 DEF UpdateStep
<1>7. CASE Apply
  BY <1>3, <1>7 DEF Apply, ApplyFailed, ApplyUpdated, ui, threads
<1>8. CASE Helper \/ Stopped \/ StartDaemon \/ InPlaceRestart
  BY <1>1, <1>3, <1>8 DEF Helper, HelperStarts, HelperEnds, Stopped, StartDaemon, InPlaceRestart,
     NewImage, Dies, ui, threads
<1>9. ASSUME NEW v \in Versions, Publish(v) \/ Replaced(v)
      PROVE  Updating' # {} \/ Posted("failed")'
  BY <1>3, <1>9 DEF Publish, Replaced, ui, threads
<1>10. CASE UNCHANGED vars
  BY <1>3, <1>10 DEF vars
<1> QED
  BY <1>4, <1>5, <1>6, <1>7, <1>8, <1>9, <1>10 DEF Next

\* Wherever the unit, if it is enabled, is what runs the daemon, the button is
\* never left disabled: an update that does not end the process ends in a
\* failure, and that is not lost among the results of checks.
THEOREM ButtonComesBack ==
  Spec => []DisabledOnlyWhileUpdating
<1>1. Init => DisabledOnlyWhileUpdating
  BY DEF Init, DisabledOnlyWhileUpdating
<1> QED
  BY <1>1, DisabledStep, IInvHolds, PTL DEF Spec
=============================================================================
