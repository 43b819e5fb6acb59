-------------------------- MODULE WcScanSceneProofs --------------------------
(***************************************************************************)
(* For a census of any size, any mark and any number of names, devices and *)
(* minutes: the safety properties of the scan screens (WcScanScene).       *)
(*                                                                         *)
(* None of them is inductive: each rests on which screen is shown, on      *)
(* which step of its handler is under way, and on what that says of the    *)
(* link, its timer and the census.  IInv says it, for all screens and      *)
(* steps at once.                                                          *)
(***************************************************************************)
EXTENDS WcScanScene, SequenceTheorems, TLAPS

Stacks == {<<"Start">>, <<"Start", "Scan">>, <<"Start", "Scan", "Save">>,
           <<"Start", "Scan", "Msg">>, <<"Start", "Scan", "Save", "Msg">>,
           <<"Start", "SerialDebug">>}

Steps == {"Idle", "Enter", "Link", "RotateStop", "RotateSave", "RotateReset",
          "RotateStart", "Leave"}

(* Only the scan screen has handlers of more than one step.                *)
HandlersInv == doing # "Idle" => Top = "Scan"

(* The worker adds devices only below the scan screen, to a census with    *)
(* its reservation, and not while that census is replaced.                 *)
ListenerInv ==
  /\ listener = "Scan" => Top = "Scan" /\ reserved /\ doing \in {"Idle", "RotateStop"}
  /\ listener = "Debug" => Top = "SerialDebug"
  /\ doing = "RotateStop" => listener = "Scan"

(* The timer is off until the link is up, and on until the handler that    *)
(* takes the link down has ended.                                          *)
TimerInv ==
  /\ doing = "Idle" => (timer <=> listener # "None")
  /\ doing \in {"Enter", "Link"} => ~timer
  /\ doing \in {"RotateStop", "RotateSave", "RotateReset", "RotateStart", "Leave"} =>
       timer /\ link_ok

(* There is something in hand only where there is room for it, and never   *)
(* on the screens that know nothing of a scan.                             *)
HandInv ==
  /\ hand # {} => reserved /\ Top \notin {"Start", "SerialDebug"}
  /\ doing \in {"Link", "RotateStart"} => reserved
  /\ doing = "RotateStart" => hand = {}
  /\ doing = "Idle" /\ Top = "Scan" /\ ~link_ok => hand = {}
  /\ doing = "Idle" /\ Top = "Scan" => (link_ok <=> listener = "Scan")

(* The census has records exactly when it has devices, up to its ceiling.  *)
CountInv == count \in 0 .. MaxDevices /\ (count = 0 <=> hand = {})

(* Between the two steps, the chunk is on the card or given up.            *)
ChunkInv == doing = "RotateReset" => hand \subseteq OnCard \cup refused

ScreensInv ==
  /\ stack \in Stacks /\ doing \in Steps /\ listener \in {"None", "Scan", "Debug"}
  /\ timer \in BOOLEAN /\ link_ok \in BOOLEAN /\ reserved \in BOOLEAN
  /\ HandlersInv /\ ListenerInv /\ TimerInv /\ HandInv /\ ChunkInv

IInv == ScreensInv /\ CountInv

-----------------------------------------------------------------------------
(* The stack of screens.                                                   *)

Scenes == {"Start", "Scan", "Save", "Msg", "SerialDebug"}

(* Showing a screen and going back from it undo each other.                *)
LEMMA OneDeeper ==
  ASSUME NEW below \in Seq(Scenes), NEW above \in Seq(Scenes),
         Len(above) = Len(below) + 1, \A i \in 1 .. Len(below) : above[i] = below[i]
  PROVE  /\ Append(below, above[Len(above)]) = above
         /\ Front(above) = below
<1> DEFINE pushed == Append(below, above[Len(above)])
           popped == SubSeq(above, 1, Len(above) - 1)
<1>1. Len(below) \in Nat /\ above[Len(above)] \in Scenes
  OBVIOUS
<1>2. pushed \in Seq(Scenes) /\ Len(pushed) = Len(above)
  BY <1>1, AppendProperties
<1>3. \A i \in 1 .. Len(above) : pushed[i] = above[i]
  BY <1>1, <1>2, AppendProperties
<1>4. popped \in Seq(Scenes) /\ Len(popped) = Len(below)
  BY <1>1, SubSeqProperties
<1>5. \A i \in 1 .. Len(below) : popped[i] = below[i]
  BY <1>1, <1>4, SubSeqProperties
<1> QED BY <1>2, <1>3, <1>4, <1>5, SeqEqual DEF Front

LEMMA TwoScreens ==
  ASSUME NEW x \in Scenes, NEW y \in Scenes
  PROVE  Append(<<x>>, y) = <<x, y>> /\ Front(<<x, y>>) = <<x>>
<1> DEFINE below == <<x>>
           above == <<x, y>>
<1>1. below \in Seq(Scenes) /\ Len(below) = 1
  OBVIOUS
<1>2. above \in Seq(Scenes) /\ Len(above) = 2 /\ above[2] = y
  OBVIOUS
<1>3. above[1] = below[1]
  OBVIOUS
<1>4. Append(below, y) = above /\ Front(above) = below
  <2> HIDE DEF below, above
  <2>1. \A i \in 1 .. Len(below) : above[i] = below[i]
    BY <1>1, <1>3
  <2>2. Append(below, above[Len(above)]) = above /\ Front(above) = below
    <3>1. Len(above) = Len(below) + 1
      BY <1>1, <1>2
    <3> QED BY <1>1, <1>2, <2>1, <3>1, OneDeeper
  <2> QED BY <1>2, <2>2
<1> QED BY <1>4

LEMMA ThreeScreens ==
  ASSUME NEW x \in Scenes, NEW y \in Scenes, NEW z \in Scenes
  PROVE  Append(<<x, y>>, z) = <<x, y, z>> /\ Front(<<x, y, z>>) = <<x, y>>
<1> DEFINE below == <<x, y>>
           above == <<x, y, z>>
<1>1. below \in Seq(Scenes) /\ Len(below) = 2
  OBVIOUS
<1>2. above \in Seq(Scenes) /\ Len(above) = 3 /\ above[3] = z
  OBVIOUS
<1>3. above[1] = below[1] /\ above[2] = below[2]
  OBVIOUS
<1>4. Append(below, z) = above /\ Front(above) = below
  <2> HIDE DEF below, above
  <2>1. \A i \in 1 .. Len(below) : above[i] = below[i]
    BY <1>1, <1>3
  <2>2. Append(below, above[Len(above)]) = above /\ Front(above) = below
    <3>1. Len(above) = Len(below) + 1
      BY <1>1, <1>2
    <3> QED BY <1>1, <1>2, <2>1, <3>1, OneDeeper
  <2> QED BY <1>2, <2>2
<1> QED BY <1>4

LEMMA FourScreens ==
  ASSUME NEW x \in Scenes, NEW y \in Scenes, NEW z \in Scenes, NEW t \in Scenes
  PROVE  Append(<<x, y, z>>, t) = <<x, y, z, t>> /\ Front(<<x, y, z, t>>) = <<x, y, z>>
<1> DEFINE below == <<x, y, z>>
           above == <<x, y, z, t>>
<1>1. below \in Seq(Scenes) /\ Len(below) = 3
  OBVIOUS
<1>2. above \in Seq(Scenes) /\ Len(above) = 4 /\ above[4] = t
  OBVIOUS
<1>3. above[1] = below[1] /\ above[2] = below[2] /\ above[3] = below[3]
  OBVIOUS
<1>4. Append(below, t) = above /\ Front(above) = below
  <2> HIDE DEF below, above
  <2>1. \A i \in 1 .. Len(below) : above[i] = below[i]
    BY <1>1, <1>3
  <2>2. Append(below, above[Len(above)]) = above /\ Front(above) = below
    <3>1. Len(above) = Len(below) + 1
      BY <1>1, <1>2
    <3> QED BY <1>1, <1>2, <2>1, <3>1, OneDeeper
  <2> QED BY <1>2, <2>2
<1> QED BY <1>4

(* A screen shown on top of another one.                                   *)
LEMMA Deeper ==
  /\ Append(<<"Start">>, "Scan") = <<"Start", "Scan">>
  /\ Append(<<"Start">>, "SerialDebug") = <<"Start", "SerialDebug">>
  /\ Append(<<"Start", "Scan">>, "Save") = <<"Start", "Scan", "Save">>
  /\ Append(<<"Start", "Scan">>, "Msg") = <<"Start", "Scan", "Msg">>
  /\ Append(<<"Start", "Scan", "Save">>, "Msg") = <<"Start", "Scan", "Save", "Msg">>
BY TwoScreens, ThreeScreens, FourScreens DEF Scenes

(* The screen below.                                                       *)
LEMMA Shallower ==
  /\ Front(<<"Start", "Scan">>) = <<"Start">>
  /\ Front(<<"Start", "SerialDebug">>) = <<"Start">>
  /\ Front(<<"Start", "Scan", "Save">>) = <<"Start", "Scan">>
  /\ Front(<<"Start", "Scan", "Msg">>) = <<"Start", "Scan">>
  /\ Front(<<"Start", "Scan", "Save", "Msg">>) = <<"Start", "Scan", "Save">>
BY TwoScreens, ThreeScreens, FourScreens DEF Scenes

(* The screen shown.                                                       *)
LEMMA Shown ==
  /\ Last(<<"Start">>) = "Start"
  /\ Last(<<"Start", "Scan">>) = "Scan"
  /\ Last(<<"Start", "SerialDebug">>) = "SerialDebug"
  /\ Last(<<"Start", "Scan", "Save">>) = "Save"
  /\ Last(<<"Start", "Scan", "Msg">>) = "Msg"
  /\ Last(<<"Start", "Scan", "Save", "Msg">>) = "Msg"
BY DEF Last

(* What is shown tells the stack, but for a message.                       *)
LEMMA StackByTop ==
  ASSUME stack \in Stacks
  PROVE  /\ Top = "Start" => stack = <<"Start">>
         /\ Top = "Scan" => stack = <<"Start", "Scan">>
         /\ Top = "Save" => stack = <<"Start", "Scan", "Save">>
         /\ Top = "SerialDebug" => stack = <<"Start", "SerialDebug">>
         /\ Top = "Msg" => stack \in {<<"Start", "Scan", "Msg">>, <<"Start", "Scan", "Save", "Msg">>}
BY Shown DEF Stacks, Top

-----------------------------------------------------------------------------
(* Each action preserves the invariant.                                    *)

LEMMA InitInv == Init => IInv
<1> SUFFICES ASSUME Init PROVE IInv
  OBVIOUS
<1>1. CountInv
  BY SceneAssumption DEF Init, CountInv
<1> QED BY <1>1, Shown
DEF Init, IInv, ScreensInv, Stacks, Steps, HandlersInv, ListenerInv, TimerInv, HandInv, ChunkInv, Top

(* Only the worker changes the number of records but not the census.       *)
LEMMA CountStep ==
  ASSUME IInv, UNCHANGED <<hand, count>> \/ Emptied \/ Observe \/ ObserveAgain
  PROVE  CountInv'
<1>1. MaxDevices \in Nat /\ count \in 0 .. MaxDevices /\ (count = 0 <=> hand = {})
  BY SceneAssumption DEF IInv, CountInv
<1>2. CASE UNCHANGED <<hand, count>> \/ Emptied
  BY <1>1, <1>2 DEF Emptied, CountInv
<1>3. CASE Observe
  <2>1. hand' # {} /\ count' \in 1 .. MaxDevices
    BY <1>1, <1>3 DEF Observe
  <2> QED BY <1>1, <2>1 DEF CountInv
<1>4. CASE ObserveAgain
  <2>1. hand' = hand /\ count # 0 /\ count' \in 1 .. MaxDevices
    BY <1>1, <1>4 DEF ObserveAgain
  <2> QED BY <1>1, <2>1 DEF CountInv
<1> QED BY <1>2, <1>3, <1>4

(* Every other step leaves both as they are or releases the census.        *)
LEMMA CountKept ==
  ASSUME Minute \/ CardChanges \/ ToggleAutosave \/ ChooseScan \/ serial_debug_on_enter \/ Quit
           \/ Handler \/ Rotate \/ Back
           \/ (\E name : SaveExists(name) \/ SaveDone(name) \/ SaveRefused(name))
  PROVE  UNCHANGED <<hand, count>> \/ Emptied
<1> USE DEF scanVars
<1>1. CASE Minute \/ CardChanges \/ ToggleAutosave \/ ChooseScan \/ serial_debug_on_enter \/ Quit
  BY <1>1 DEF Minute, CardChanges, ToggleAutosave, ChooseScan, serial_debug_on_enter, Quit
<1>2. CASE Handler \/ Rotate
  BY <1>2 DEF Handler, Entering, Rotating, EnterNoRoom, EnterReady, EnterStarted, EnterBusy,
              Rotate, RotateStop, RotateSave, RotateReset, RotateStart, LeaveAutosave
<1>3. CASE Back
  BY <1>3 DEF Back, BackNoLink, BackAutosave, BackToSave, BackToPrevious, serial_debug_on_exit
<1>4. CASE \E name : SaveExists(name) \/ SaveDone(name) \/ SaveRefused(name)
  BY <1>4 DEF SaveExists, SaveDone, SaveRefused
<1> QED BY <1>1, <1>2, <1>3, <1>4

(* Steps that leave the screens and the link alone.                        *)
LEMMA OutsideInv ==
  ASSUME IInv, Observe \/ ObserveAgain \/ Minute \/ CardChanges \/ ToggleAutosave
  PROVE  ScreensInv'
<1> USE DEF IInv, ScreensInv, CountInv, Emptied, HandlersInv, ListenerInv, TimerInv, HandInv, ChunkInv, Top, OnCard
<1>1. CASE Observe \/ ObserveAgain
  BY <1>1 DEF Observe, ObserveAgain, linkVars, seriesVars, cardVars
<1>2. CASE Minute \/ CardChanges
  BY <1>2 DEF Minute, CardChanges, linkVars, scanVars, seriesVars, cardVars
<1>3. CASE ToggleAutosave
  BY <1>3 DEF ToggleAutosave, linkVars, scanVars, seriesVars, cardVars
<1> QED BY <1>1, <1>2, <1>3

LEMMA MenuInv ==
  ASSUME IInv, ChooseScan \/ serial_debug_on_enter \/ serial_debug_on_exit \/ Quit
  PROVE  ScreensInv'
<1> USE Deeper, Shallower, Shown, StackByTop
    DEF IInv, ScreensInv, CountInv, Emptied, Stacks, Steps, HandlersInv, ListenerInv, TimerInv, HandInv, ChunkInv,
        Top, Shows, linkVars, scanVars, seriesVars, cardVars
<1>1. CASE ChooseScan
  BY <1>1 DEF ChooseScan
<1>2. CASE serial_debug_on_enter
  <2>1. /\ stack' = <<"Start", "SerialDebug">> /\ doing' = "Idle"
        /\ UNCHANGED <<link_ok, hand, reserved>>
    BY <1>2 DEF serial_debug_on_enter
  <2>2. hand = {} /\ listener = "None" /\ timer = FALSE
    BY <1>2 DEF serial_debug_on_enter
  <2>3. \/ listener' = "Debug" /\ timer' = TRUE
        \/ listener' = "None" /\ timer' = FALSE
    BY <1>2, <2>2 DEF serial_debug_on_enter
  <2> QED BY <2>1, <2>2, <2>3
<1>3. CASE serial_debug_on_exit
  BY <1>3 DEF serial_debug_on_exit
<1>4. CASE Quit
  BY <1>4 DEF Quit
<1> QED BY <1>1, <1>2, <1>3, <1>4

LEMMA EnteringInv == ASSUME IInv, Entering PROVE ScreensInv'
<1> USE Deeper, Shown, StackByTop
    DEF IInv, ScreensInv, CountInv, Emptied, Stacks, Steps, HandlersInv, ListenerInv, TimerInv, HandInv, ChunkInv,
        Top, linkVars, scanVars, seriesVars, cardVars
<1>1. CASE EnterNoRoom
  BY <1>1 DEF EnterNoRoom
<1>2. CASE EnterReady
  <2>1. /\ doing = "Enter" /\ doing' = "Link"
        /\ UNCHANGED <<stack, listener, timer, link_ok, hand>>
    BY <1>2 DEF EnterReady
  <2>2. reserved' = TRUE
    BY <1>2 DEF EnterReady
  <2>3. Top = "Scan" /\ listener = "None" /\ timer = FALSE
    BY <2>1
  <2> QED BY <2>1, <2>2, <2>3
<1>3. CASE EnterStarted
  BY <1>3 DEF EnterStarted
<1>4. CASE EnterBusy
  BY <1>4 DEF EnterBusy
<1> QED BY <1>1, <1>2, <1>3, <1>4 DEF Entering

(* What was saved is on the card.                                          *)
LEMMA SavedIsOnCard == ASSUME NEW name, Saved(name) PROVE hand \subseteq OnCard'
<1>1. name \in DOMAIN files' /\ files'[name].devices = hand
  BY DEF Saved, With
<1> QED BY <1>1 DEF OnCard

LEMMA ChunkSaved == scan_save_chunk => hand \subseteq (OnCard \cup refused)'
BY SavedIsOnCard DEF scan_save_chunk

LEMMA RotatingInv == ASSUME IInv, Rotate \/ Rotating PROVE ScreensInv'
<1> USE Deeper, Shown, StackByTop
    DEF IInv, ScreensInv, CountInv, Emptied, Stacks, Steps, HandlersInv, ListenerInv, TimerInv, HandInv, ChunkInv,
        Top, Shows, linkVars, scanVars, seriesVars, cardVars
<1>1. CASE Rotate
  <2>1. hand # {}
    BY <1>1, SceneAssumption DEF Rotate
  <2> QED BY <1>1, <2>1 DEF Rotate
<1>2. CASE RotateStop
  BY <1>2 DEF RotateStop
<1>3. CASE RotateSave
  BY <1>3, ChunkSaved DEF RotateSave
<1>4. CASE RotateReset
  BY <1>4 DEF RotateReset
<1>5. CASE RotateStart
  BY <1>5 DEF RotateStart
<1> QED BY <1>1, <1>2, <1>3, <1>4, <1>5 DEF Rotating

LEMMA BackInv == ASSUME IInv, Back \/ LeaveAutosave PROVE ScreensInv'
<1> USE Deeper, Shallower, Shown, StackByTop
    DEF IInv, ScreensInv, CountInv, Emptied, Stacks, Steps, HandlersInv, ListenerInv, TimerInv, HandInv, ChunkInv,
        Top, Shows, scan_on_exit, linkVars, scanVars, seriesVars, cardVars
<1>1. CASE BackNoLink
  BY <1>1 DEF BackNoLink
<1>2. CASE BackAutosave
  BY <1>2 DEF BackAutosave
<1>3. CASE BackToSave
  BY <1>3 DEF BackToSave
<1>4. CASE BackToPrevious
  BY <1>4 DEF BackToPrevious
<1>5. CASE LeaveAutosave
  BY <1>5 DEF LeaveAutosave
<1> QED BY <1>1, <1>2, <1>3, <1>4, <1>5, MenuInv DEF Back

LEMMA NameInv ==
  ASSUME IInv, NEW name, SaveExists(name) \/ SaveDone(name) \/ SaveRefused(name)
  PROVE  ScreensInv'
<1> USE Deeper, Shown, StackByTop
    DEF IInv, ScreensInv, CountInv, Emptied, Stacks, Steps, HandlersInv, ListenerInv, TimerInv, HandInv, ChunkInv,
        Top, Shows, linkVars, scanVars, seriesVars, cardVars
<1>1. CASE SaveExists(name)
  BY <1>1 DEF SaveExists
<1>2. CASE SaveDone(name)
  BY <1>2 DEF SaveDone
<1>3. CASE SaveRefused(name)
  BY <1>3 DEF SaveRefused
<1> QED BY <1>1, <1>2, <1>3

LEMMA StutterInv == ASSUME IInv, UNCHANGED vars PROVE IInv'
BY DEF vars, linkVars, scanVars, seriesVars, cardVars, IInv, ScreensInv, CountInv, HandlersInv, ListenerInv, TimerInv, HandInv,
       ChunkInv, Top, OnCard

LEMMA StepInv == IInv /\ [Next]_vars => IInv'
<1> SUFFICES ASSUME IInv, [Next]_vars PROVE IInv'
  OBVIOUS
<1>1. CASE UNCHANGED vars
  BY <1>1, StutterInv
<1>2. CASE Next
  <2>1. ScreensInv'
    BY <1>2, OutsideInv, MenuInv, EnteringInv, RotatingInv, BackInv, NameInv
    DEF Next, Handler, Back
  <2>2. CountInv'
    BY <1>2, CountStep, CountKept DEF Next
  <2> QED BY <2>1, <2>2 DEF IInv
<1> QED BY <1>1, <1>2

(* The invariant holds, however the screens are walked and whatever fails. *)
THEOREM Invariance == Spec => []IInv
BY InitInv, StepInv, PTL DEF Spec

-----------------------------------------------------------------------------
(* What follows from it.                                                   *)

(* No device is added to a census without its reservation.                 *)
THEOREM AlwaysReserved == Spec => []ReservedWhileScanning
<1>1. IInv => ReservedWhileScanning
  BY DEF IInv, ScreensInv, ListenerInv, ReservedWhileScanning
<1> QED BY <1>1, Invariance, PTL

(* scan_link_ok tells the truth, the menu is never reached with a scan in  *)
(* hand, and the link and its timer run together, only under the two       *)
(* screens that have them.                                                 *)
THEOREM LinkOkTells == Spec => []LinkOkIsTrue
<1>1. IInv => LinkOkIsTrue
  BY Zenon, Shown, StackByTop
  DEF IInv, ScreensInv, ListenerInv, TimerInv, HandInv, LinkOkIsTrue, Shows
<1> QED BY <1>1, Invariance, PTL

-----------------------------------------------------------------------------
(* The action properties.                                                  *)

(* The steps that leave the files, the reservation and what is in hand     *)
(* alone, but for a device more.                                           *)
LEMMA Harmless ==
  ASSUME Observe \/ ObserveAgain \/ Minute \/ CardChanges
           \/ ToggleAutosave \/ ChooseScan \/ serial_debug_on_enter \/ EnterReady \/ EnterStarted \/ Rotate \/ RotateStop \/ RotateStart
           \/ Back \/ (\E name : SaveExists(name)) \/ UNCHANGED vars
  PROVE  files' = files /\ hand \subseteq hand' /\ (reserved => reserved')
<1> USE DEF scanVars, linkVars, seriesVars, cardVars
<1>1. CASE \/ Observe \/ ObserveAgain \/ Minute \/ CardChanges
           \/ ToggleAutosave \/ ChooseScan \/ serial_debug_on_enter
  BY <1>1 DEF Observe, ObserveAgain, Minute, CardChanges, ToggleAutosave, ChooseScan,
              serial_debug_on_enter
<1>2. CASE EnterReady \/ EnterStarted \/ Rotate \/ RotateStop \/ RotateStart
  BY <1>2 DEF EnterReady, EnterStarted, Rotate, RotateStop, RotateStart
<1>3. CASE Back
  BY <1>3 DEF Back, BackNoLink, BackAutosave, BackToSave, BackToPrevious, serial_debug_on_exit
<1>4. CASE (\E name : SaveExists(name)) \/ UNCHANGED vars
  BY <1>4 DEF SaveExists, vars
<1> QED BY <1>1, <1>2, <1>3, <1>4

(* The others: each takes the census or the card when no worker writes.    *)
Taking ==
  EnterNoRoom \/ EnterBusy \/ RotateSave \/ RotateReset \/ LeaveAutosave \/ Quit
    \/ (\E k \in 1 .. UserNames : SaveDone(UserName(k)) \/ SaveRefused(UserName(k)))

LEMMA NextIsHarmlessOrTaking ==
  [Next]_vars =>
    \/ Taking
    \/ Observe \/ ObserveAgain \/ Minute \/ CardChanges
         \/ ToggleAutosave \/ ChooseScan \/ serial_debug_on_enter \/ EnterReady \/ EnterStarted \/ Rotate \/ RotateStop \/ RotateStart
         \/ Back \/ (\E name : SaveExists(name)) \/ UNCHANGED vars
BY DEF Next, Handler, Entering, Rotating, Taking

LEMMA TakingIsQuiet == IInv /\ Taking => listener # "Scan"
BY Shown, StackByTop
DEF Taking, IInv, ScreensInv, ListenerInv, HandlersInv, EnterNoRoom, EnterBusy, RotateSave, RotateReset,
    LeaveAutosave, Quit, SaveDone, SaveRefused, Shows

(* The census is saved, released or replaced only while no worker can be   *)
(* writing it.                                                             *)
THEOREM AlwaysQuiet == Spec => QuietCensus
<1>1. IInv /\ [Next]_vars =>
        [files' # files \/ ~(hand \subseteq hand') \/ (reserved /\ ~reserved')
           => listener # "Scan"]_vars
  BY NextIsHarmlessOrTaking, Harmless, TakingIsQuiet
<1> QED BY <1>1, Invariance, PTL DEF Spec, QuietCensus

(* No device leaves the census unless it is on the card or counted as not  *)
(* saved, or the port is busy.                                             *)
THEOREM AlwaysReleasedWhenSaved == Spec => ReleasedWhenSaved
<1> DEFINE Accounted ==
      hand \ hand' \subseteq OnCard' \cup refused' \/ (doing = "Link" /\ ~link_ok')
<1>1. ASSUME IInv, Taking PROVE Accounted
  <2>1. CASE EnterNoRoom \/ EnterBusy \/ RotateSave
    BY <2>1 DEF EnterNoRoom, EnterBusy, RotateSave, Emptied
  <2>2. CASE RotateReset
    BY <1>1, <2>2 DEF RotateReset, IInv, ScreensInv, ChunkInv, OnCard, cardVars
  <2>3. CASE LeaveAutosave
    BY <1>1, <2>3, ChunkSaved DEF LeaveAutosave, IInv, CountInv
  <2>4. CASE Quit
    BY <1>1, <2>4, StackByTop, Shown DEF Quit, IInv, ScreensInv, HandInv, Shows
  <2>5. CASE \E k \in 1 .. UserNames : SaveDone(UserName(k)) \/ SaveRefused(UserName(k))
    BY <2>5, SavedIsOnCard DEF SaveDone, SaveRefused, scanVars
  <2> QED BY <1>1, <2>1, <2>2, <2>3, <2>4, <2>5 DEF Taking
<1>2. IInv /\ [Next]_vars => [Accounted]_vars
  BY <1>1, NextIsHarmlessOrTaking, Harmless
<1> QED BY <1>2, Invariance, PTL DEF Spec, ReleasedWhenSaved

(* A save touches no other file, however it ends.                          *)
LEMMA OthersKept ==
  ASSUME NEW name, Saved(name) \/ NotSaved(name), NEW n \in DOMAIN files, n # name
  PROVE  n \in DOMAIN files' /\ files'[n] = files[n]
BY DEF Saved, NotSaved, With

LEMMA ChunkTouchesOne ==
  ASSUME scan_save_chunk, NEW n \in DOMAIN files, n # Chunk
  PROVE  n \in DOMAIN files' /\ files'[n] = files[n]
BY OthersKept DEF scan_save_chunk

-----------------------------------------------------------------------------
(* Types.                                                                  *)

DataOK ==
  /\ autosave \in BOOLEAN /\ opens \in BOOLEAN
  /\ seen \in Nat /\ hand \subseteq 1 .. seen
  /\ idx \in Nat /\ base \in Nat /\ failed \in Nat /\ started \in Nat /\ now \in Nat
  /\ \A n \in DOMAIN files : ~files[n].whole => files[n].devices = {}

LEMMA InitData == Init => DataOK
BY DEF Init, DataOK

(* A file that is not whole holds no capture, however a save ends.         *)
LEMMA FilesData ==
  ASSUME DataOK, NEW name, Saved(name) \/ NotSaved(name)
  PROVE  \A n \in DOMAIN files' : ~files'[n].whole => files'[n].devices = {}
BY DEF DataOK, Saved, NotSaved, With

LEMMA ChunkData ==
  ASSUME DataOK, scan_save_chunk
  PROVE  failed' \in Nat /\ \A n \in DOMAIN files' : ~files'[n].whole => files'[n].devices = {}
BY FilesData DEF scan_save_chunk, DataOK

LEMMA StepData == DataOK /\ [Next]_vars => DataOK'
<1> SUFFICES ASSUME DataOK, [Next]_vars PROVE DataOK'
  OBVIOUS
<1> USE DEF scanVars, seriesVars, linkVars, cardVars, Emptied
<1>1. CASE Observe \/ ObserveAgain
  <2>1. /\ UNCHANGED <<autosave, opens, idx, base, failed, started, now, files>>
        /\ \/ seen' = seen + 1 /\ hand' = hand \cup {seen'}
           \/ UNCHANGED <<seen, hand>>
    BY <1>1 DEF Observe, ObserveAgain
  <2>2. seen \in Nat /\ hand \subseteq 1 .. seen
    BY DEF DataOK
  <2>3. CASE seen' = seen + 1 /\ hand' = hand \cup {seen'}
    <3>1. seen' \in Nat /\ seen' \in 1 .. seen' /\ 1 .. seen \subseteq 1 .. seen'
      BY <2>2, <2>3
    <3>2. hand' \subseteq 1 .. seen'
      BY <2>2, <2>3, <3>1
    <3> QED BY <2>1, <3>1, <3>2 DEF DataOK
  <2>4. CASE UNCHANGED <<seen, hand>>
    BY <2>1, <2>4 DEF DataOK
  <2> QED BY <2>1, <2>3, <2>4
<1>2. CASE Minute \/ CardChanges \/ ToggleAutosave \/ ChooseScan \/ serial_debug_on_enter \/ Rotate
             \/ RotateStop \/ RotateStart \/ EnterStarted
  <2>1. CASE Minute
    BY <2>1 DEF Minute, DataOK
  <2>2. CASE CardChanges
    <3>1. UNCHANGED <<autosave, seen, hand, idx, base, failed, started, now, files>>
      BY <2>2 DEF CardChanges
    <3>2. opens' \in BOOLEAN
      BY <2>2 DEF CardChanges
    <3> QED BY <3>1, <3>2 DEF DataOK
  <2>3. CASE ToggleAutosave
    BY <2>3 DEF ToggleAutosave, DataOK
  <2>4. CASE ChooseScan \/ serial_debug_on_enter \/ Rotate \/ RotateStop \/ RotateStart
               \/ EnterStarted
    BY <2>4 DEF ChooseScan, serial_debug_on_enter, Rotate, RotateStop, RotateStart,
                EnterStarted, DataOK
  <2> QED BY <1>2, <2>1, <2>2, <2>3, <2>4
<1>3. CASE Back
  BY <1>3 DEF Back, BackNoLink, BackAutosave, BackToSave, BackToPrevious,
              serial_debug_on_exit, DataOK
<1>4. CASE EnterNoRoom \/ EnterBusy \/ Quit \/ RotateReset
  <2>1. /\ UNCHANGED <<autosave, seen, now, files, opens>>
        /\ hand' \in {hand, {}} /\ idx' \in {idx, 0} /\ base' \in {base, 0} /\ failed' \in {failed, 0}
        /\ started' \in {started, 0}
    <3>1. CASE EnterNoRoom
      BY <3>1 DEF EnterNoRoom
    <3>2. CASE EnterBusy
      BY <3>2 DEF EnterBusy
    <3>3. CASE Quit
      BY <3>3 DEF Quit
    <3>4. CASE RotateReset
      BY <3>4 DEF RotateReset
    <3> QED BY <1>4, <3>1, <3>2, <3>3, <3>4
  <2>2. idx' \in Nat /\ base' \in Nat /\ failed' \in Nat /\ started' \in Nat
    BY <2>1 DEF DataOK
  <2>3. hand' \subseteq 1 .. seen'
    BY <2>1 DEF DataOK
  <2> QED BY <2>1, <2>2, <2>3 DEF DataOK
<1>5. CASE EnterReady
  <2>1. /\ UNCHANGED <<autosave, seen, hand, now, files, opens>>
        /\ idx' \in {idx, 1} /\ started' \in {started, now} /\ base' \in {base, started'}
        /\ failed' \in {failed, 0}
    BY <1>5 DEF EnterReady
  <2> QED BY <2>1 DEF DataOK
<1>6. CASE RotateSave
  BY <1>6, ChunkData DEF RotateSave, DataOK
<1>7. CASE LeaveAutosave
  BY <1>7, ChunkData DEF LeaveAutosave, DataOK
<1>8. CASE \E name : SaveExists(name) \/ SaveDone(name) \/ SaveRefused(name)
  <2> PICK name : SaveExists(name) \/ SaveDone(name) \/ SaveRefused(name)
    BY <1>8
  <2>1. CASE SaveExists(name)
    BY <2>1 DEF SaveExists, DataOK
  <2>2. CASE SaveDone(name)
    BY <2>2, FilesData DEF SaveDone, DataOK
  <2>3. CASE SaveRefused(name)
    BY <2>3, FilesData DEF SaveRefused, DataOK
  <2> QED BY <2>1, <2>2, <2>3
<1>9. CASE UNCHANGED vars
  BY <1>9 DEF vars, DataOK
<1> QED BY <1>1, <1>2, <1>3, <1>4, <1>5, <1>6, <1>7, <1>8, <1>9
        DEF Next, Handler, Entering, Rotating

(* The screens stand in one of the orders the handlers foresee, and the    *)
(* census stays within its ceiling.                                        *)
THEOREM TypeCorrect == Spec => []TypeOK
<1>1. IInv /\ DataOK => TypeOK
  BY DEF IInv, ScreensInv, CountInv, DataOK, TypeOK, Stacks, Steps
<1> QED BY <1>1, Invariance, InitData, StepData, PTL DEF Spec

-----------------------------------------------------------------------------
(* No capture the user named is ever written again unless the card fails   *)
(* to open it when it is asked whether it is there, and no earlier chunk   *)
(* of the series is.                                                       *)
THEOREM AlwaysCapturesKept == Spec => CapturesKept
<1> DEFINE Named(n) == n.by = "user" /\ opens
           Earlier(n) == n.by = "auto" /\ n.at = base /\ n.no < idx
           Kept == \A n \in DOMAIN files :
                     /\ files[n].whole
                     /\ \/ n.by = "user" /\ opens
                        \/ n.by = "auto" /\ n.at = base /\ n.no < idx
                     => n \in DOMAIN files' /\ files'[n] = files[n]
<1>1. ASSUME DataOK, Taking, NEW n \in DOMAIN files, Named(n) \/ Earlier(n)
      PROVE  n \in DOMAIN files' /\ files'[n] = files[n]
  <2>1. n # Chunk
    BY <1>1 DEF Chunk, DataOK
  <2>2. CASE EnterNoRoom \/ EnterBusy \/ RotateReset \/ Quit
    BY <1>1, <2>2 DEF EnterNoRoom, EnterBusy, RotateReset, Quit, cardVars
  <2>3. CASE RotateSave \/ LeaveAutosave
    BY <1>1, <2>1, <2>3, ChunkTouchesOne DEF RotateSave, LeaveAutosave
  <2>4. CASE \E k \in 1 .. UserNames : SaveDone(UserName(k)) \/ SaveRefused(UserName(k))
    <3> PICK k \in 1 .. UserNames : SaveDone(UserName(k)) \/ SaveRefused(UserName(k))
      BY <2>4
    <3>1. ~Exists(UserName(k)) /\ (Saved(UserName(k)) \/ NotSaved(UserName(k)))
      BY DEF SaveDone, SaveRefused
    <3>2. CASE Named(n)
      <4>1. n # UserName(k)
        BY <3>1, <3>2 DEF Exists
      <4> QED BY <3>1, <4>1, OthersKept
    <3>3. CASE Earlier(n)
      <4>1. n # UserName(k)
        BY <3>3 DEF UserName
      <4> QED BY <3>1, <4>1, OthersKept
    <3> QED BY <1>1, <3>2, <3>3
  <2> QED BY <1>1, <2>2, <2>3, <2>4 DEF Taking
<1>2. DataOK /\ [Next]_vars => [Kept]_vars
  BY <1>1, NextIsHarmlessOrTaking, Harmless
<1> QED BY <1>2, InitData, StepData, PTL DEF Spec, CapturesKept
=============================================================================
