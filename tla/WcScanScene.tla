----------------------------- MODULE WcScanScene -----------------------------
(***************************************************************************)
(* The screens that run a scan (wc_scene_scan.c): the live scan with its   *)
(* rotation of chunks, the name screen, the message screen and the serial  *)
(* debug view, on the stack of the scene manager.                          *)
(*                                                                         *)
(* The application thread runs one handler at a time, in steps; between    *)
(* two of them the worker thread may add devices to the census and fold    *)
(* records.  A device is a number, and the census is the set of those that *)
(* its records stand for, and how many records they are; WcCensus says how *)
(* frames become records.  A name the user gives is never a chunk's.       *)
(* seen and refused are history variables.                                 *)
(***************************************************************************)
EXTENDS Integers, Sequences, SequencesExt

CONSTANTS
  MaxDevices,   \* WC_CENSUS_MAX_DEVICES
  RotateAt,     \* WC_AUTOSAVE_ROTATE_AT
  UserNames,    \* how many names the user thinks of
  MaxSeen,      \* bound of the model: devices that ever come along
  MaxMinutes    \* bound of the model: minutes that pass

ASSUME SceneAssumption ==
  /\ RotateAt \in Nat \ {0}
  /\ MaxDevices \in Nat /\ RotateAt <= MaxDevices
  /\ UserNames \in Nat /\ MaxSeen \in Nat /\ MaxMinutes \in Nat

VARIABLES
  stack,      \* the scene manager's stack of screens; the last one is shown
  doing,      \* the next step of the handler under way, "Idle" between two
  autosave,   \* app->autosave
  listener,   \* whose on_line the serial worker calls; "None": no link
  timer,      \* app->scan_timer runs
  link_ok,    \* app->scan_link_ok
  hand,       \* the devices heard into app->scan.census
  count,      \* app->scan.census.count, the records they have there
  reserved,   \* the census holds room for MaxDevices
  idx,        \* app->autosave_idx
  base,       \* app->autosave_base, as the minute it is made of
  failed,     \* app->autosave_failed
  started,    \* app->scan_started, as a minute
  now,        \* the clock, in minutes
  files,      \* the captures on the card
  opens,      \* the card opens a file that is there when it is asked to
  seen,       \* history: devices that have come along
  refused     \* history: the devices of the chunks counted in failed

scanVars == <<hand, count, reserved, seen, refused>>
seriesVars == <<idx, base, failed, started>>
linkVars == <<listener, timer, link_ok>>
cardVars == <<files, opens>>
vars == <<stack, doing, autosave, linkVars, scanVars, seriesVars, now, cardVars>>

Top == Last(stack)
Shows(scene) == doing = "Idle" /\ Top = scene

UserName(k) == [by |-> "user", at |-> 0, no |-> k]
Chunk == [by |-> "auto", at |-> base, no |-> idx]

Init ==
  /\ stack = <<"Start">> /\ doing = "Idle"
  /\ listener = "None" /\ timer = FALSE /\ link_ok = FALSE
  /\ hand = {} /\ count = 0 /\ reserved = FALSE
  /\ idx = 0 /\ base = 0 /\ failed = 0 /\ started = 0
  /\ autosave \in BOOLEAN
  /\ now = 0
  /\ files = << >> /\ opens = TRUE
  /\ seen = 0
  /\ refused = {}

(* wc_census_free.                                                         *)
Emptied == hand' = {} /\ count' = 0

-----------------------------------------------------------------------------
(* The card, as wc_capture_service_save leaves it.                         *)

With(name, whole, devices) ==
  [n \in DOMAIN files \cup {name} |->
     IF n = name THEN [whole |-> whole, devices |-> devices] ELSE files[n]]

(* "Whether <basename>.wcen already exists" is asked by its size: a file   *)
(* without a byte does not exist, one that was only begun does, and one    *)
(* that the card fails to open does not either (store_file_size).          *)
Exists(name) == opens /\ name \in DOMAIN files

Saved(name) == files' = With(name, TRUE, hand)

(* The file could not be opened; or it was truncated and nothing, or not   *)
(* all, was written; or only the sidecar failed.                           *)
NotSaved(name) ==
  \/ UNCHANGED files
  \/ files' = [n \in DOMAIN files \ {name} |-> files[n]]
  \/ files' = With(name, FALSE, {})
  \/ files' = With(name, TRUE, hand)

(* scan_save_chunk: a chunk the card refuses is counted and given up.      *)
scan_save_chunk ==
  \/ Saved(Chunk) /\ UNCHANGED <<failed, refused>>
  \/ NotSaved(Chunk) /\ failed' = failed + 1 /\ refused' = refused \cup hand

-----------------------------------------------------------------------------
(* The world outside.                                                      *)

(* The worker thread hears a device for the first time: a record more, or, *)
(* when its frame names a network, one of the records that are there.      *)
Observe ==
  /\ listener = "Scan"
  /\ seen < MaxSeen
  /\ \/ count < MaxDevices /\ count' = count + 1
     \/ count > 0 /\ UNCHANGED count
  /\ seen' = seen + 1
  /\ hand' = hand \cup {seen'}
  /\ UNCHANGED <<stack, doing, autosave, linkVars, reserved, refused, seriesVars, now, cardVars>>

(* It hears one again: two records turn out to be one and are folded       *)
(* (link_late), or the address is one that a record has forgotten, and is  *)
(* given a record of its own.                                              *)
ObserveAgain ==
  /\ listener = "Scan"
  /\ count > 0
  /\ count' \in {count - 1, count + 1} \cap 1 .. MaxDevices
  /\ UNCHANGED <<stack, doing, autosave, linkVars, hand, reserved, seen, refused,
                 seriesVars, now, cardVars>>

(* The card fails to open files for a while: it is not there, or not yet.  *)
CardChanges ==
  /\ opens' = ~opens
  /\ UNCHANGED <<stack, doing, autosave, linkVars, scanVars, seriesVars, now, files>>

Minute ==
  /\ now < MaxMinutes
  /\ now' = now + 1
  /\ UNCHANGED <<stack, doing, autosave, linkVars, scanVars, seriesVars, cardVars>>

-----------------------------------------------------------------------------
(* The menu.                                                               *)

ToggleAutosave ==
  /\ Shows("Start")
  /\ autosave' = ~autosave
  /\ UNCHANGED <<stack, doing, linkVars, scanVars, seriesVars, now, cardVars>>

ChooseScan ==
  /\ Shows("Start")
  /\ stack' = Append(stack, "Scan")
  /\ doing' = "Enter"
  /\ UNCHANGED <<autosave, linkVars, scanVars, seriesVars, now, cardVars>>

(* Leaving the app releases everything; the next run starts afresh.        *)
Quit ==
  /\ Shows("Start")
  /\ listener' = "None" /\ timer' = FALSE /\ link_ok' = FALSE
  /\ Emptied /\ reserved' = FALSE
  /\ idx' = 0 /\ base' = 0 /\ failed' = 0 /\ started' = 0
  /\ UNCHANGED <<stack, doing, autosave, now, cardVars, seen, refused>>

-----------------------------------------------------------------------------
(* wc_scene_scan_on_enter: from the menu, or back from the name screen or  *)
(* a message.                                                              *)

(* A new scan, but no memory for it.                                       *)
EnterNoRoom ==
  /\ doing = "Enter"
  /\ count = 0
  /\ reserved' = FALSE
  /\ stack' = Append(stack, "Msg")
  /\ doing' = "Idle"
  /\ UNCHANGED <<autosave, linkVars, hand, count, seen, refused, seriesVars, now, cardVars>>

(* A new scan, or the one in hand is resumed.                              *)
EnterReady ==
  /\ doing = "Enter"
  /\ \/ count = 0 /\ reserved' = TRUE /\ started' = now
     \/ count # 0 /\ UNCHANGED <<reserved, started>>
  /\ \/ autosave /\ idx = 0 /\ base' = started' /\ idx' = 1 /\ failed' = 0
     \/ ~(autosave /\ idx = 0) /\ UNCHANGED <<base, idx, failed>>
  /\ doing' = "Link"
  /\ UNCHANGED <<stack, autosave, linkVars, hand, count, seen, refused, now, cardVars>>

EnterStarted ==
  /\ doing = "Link"
  /\ listener' = "Scan" /\ link_ok' = TRUE /\ timer' = TRUE
  /\ doing' = "Idle"
  /\ UNCHANGED <<stack, autosave, scanVars, seriesVars, now, cardVars>>

\* Mutant: the census is not released.
EnterBusy_keeps ==
  /\ doing = "Link"
  /\ link_ok' = FALSE
  /\ idx' = 0
  /\ doing' = "Idle"
  /\ UNCHANGED <<stack, autosave, listener, timer, scanVars, base, failed, started, now, cardVars>>

(* The port is busy: the census is released, also one that was resumed.    *)
EnterBusy ==
  /\ doing = "Link"
  /\ link_ok' = FALSE
  /\ Emptied /\ reserved' = FALSE
  /\ idx' = 0
  /\ doing' = "Idle"
  /\ UNCHANGED <<stack, autosave, listener, timer, seen, refused, base, failed, started,
                 now, cardVars>>

-----------------------------------------------------------------------------
(* The rotation, on a tick of the timer.                                   *)

\* Mutant: one device late.
Rotate_late ==
  /\ Shows("Scan")
  /\ autosave /\ count > RotateAt
  /\ doing' = "RotateStop"
  /\ UNCHANGED <<stack, autosave, linkVars, scanVars, seriesVars, now, cardVars>>

Rotate ==
  /\ Shows("Scan")
  /\ autosave /\ count >= RotateAt
  /\ doing' = "RotateStop"
  /\ UNCHANGED <<stack, autosave, linkVars, scanVars, seriesVars, now, cardVars>>

\* Mutant: the link is left running.
RotateStop_forgotten ==
  /\ doing = "RotateStop"
  /\ doing' = "RotateSave"
  /\ UNCHANGED <<stack, autosave, linkVars, scanVars, seriesVars, now, cardVars>>

RotateStop ==
  /\ doing = "RotateStop"
  /\ listener' = "None"
  /\ doing' = "RotateSave"
  /\ UNCHANGED <<stack, autosave, timer, link_ok, scanVars, seriesVars, now, cardVars>>

RotateSave ==
  /\ doing = "RotateSave"
  /\ scan_save_chunk
  /\ idx' = idx + 1
  /\ doing' = "RotateReset"
  /\ UNCHANGED <<stack, autosave, linkVars, hand, count, reserved, seen, base, started, now, opens>>

\* Mutant: whether there was room is not asked.
RotateReset_unchecked ==
  /\ doing = "RotateReset"
  /\ Emptied
  /\ reserved' \in BOOLEAN
  /\ doing' = "RotateStart"
  /\ UNCHANGED <<stack, autosave, linkVars, seen, refused, seriesVars, now, cardVars>>

(* scan_reset_census, and the message when there is no room again: showing *)
(* it leaves the scan screen, which stops the timer.                       *)
RotateReset ==
  /\ doing = "RotateReset"
  /\ Emptied
  /\ \/ /\ reserved' = TRUE
        /\ doing' = "RotateStart"
        /\ UNCHANGED <<stack, timer, link_ok>>
     \/ /\ reserved' = FALSE
        /\ link_ok' = FALSE /\ timer' = FALSE
        /\ stack' = Append(stack, "Msg")
        /\ doing' = "Idle"
  /\ UNCHANGED <<autosave, listener, seen, refused, seriesVars, now, cardVars>>

(* The link is up again, or it is not and the screen says so.              *)
RotateStart ==
  /\ doing = "RotateStart"
  /\ \/ listener' = "Scan" /\ UNCHANGED <<timer, link_ok>>
     \/ listener' = "None" /\ timer' = FALSE /\ link_ok' = FALSE
  /\ doing' = "Idle"
  /\ UNCHANGED <<stack, autosave, scanVars, seriesVars, now, cardVars>>

-----------------------------------------------------------------------------
(* Back on the scan screen.  Leaving it (wc_scene_scan_on_exit) stops the  *)
(* timer and the link.                                                     *)

scan_on_exit == listener' = "None" /\ timer' = FALSE

(* Nothing runs: back to the menu.                                         *)
BackNoLink ==
  /\ Shows("Scan")
  /\ ~link_ok
  /\ scan_on_exit
  /\ stack' = Front(stack)
  /\ UNCHANGED <<doing, autosave, link_ok, scanVars, seriesVars, now, cardVars>>

BackAutosave ==
  /\ Shows("Scan")
  /\ link_ok /\ autosave
  /\ listener' = "None"
  /\ doing' = "Leave"
  /\ UNCHANGED <<stack, autosave, timer, link_ok, scanVars, seriesVars, now, cardVars>>

(* The last chunk, when there is anything in it, then the menu.            *)
LeaveAutosave ==
  /\ doing = "Leave"
  /\ \/ count > 0 /\ scan_save_chunk
     \/ count = 0 /\ UNCHANGED <<files, failed, refused>>
  /\ Emptied /\ reserved' = FALSE
  /\ idx' = 0
  /\ scan_on_exit
  /\ stack' = <<"Start">>
  /\ doing' = "Idle"
  /\ UNCHANGED <<autosave, link_ok, seen, base, started, now, opens>>

BackToSave ==
  /\ Shows("Scan")
  /\ link_ok /\ ~autosave
  /\ scan_on_exit
  /\ stack' = Append(stack, "Save")
  /\ UNCHANGED <<doing, autosave, link_ok, scanVars, seriesVars, now, cardVars>>

-----------------------------------------------------------------------------
(* The name screen (wc_scene_save_on_event), and the message screen.       *)

SaveExists(name) ==
  /\ Shows("Save")
  /\ Exists(name)
  /\ stack' = Append(stack, "Msg")
  /\ UNCHANGED <<doing, autosave, linkVars, scanVars, seriesVars, now, cardVars>>

\* Mutant: a name that is taken is not asked about.
SaveDone_over(name) ==
  /\ Shows("Save")
  /\ Saved(name)
  /\ Emptied /\ reserved' = FALSE
  /\ idx' = 0
  /\ stack' = <<"Start">>
  /\ UNCHANGED <<doing, autosave, linkVars, seen, refused, base, failed, started,
                 now, opens>>

SaveDone(name) ==
  /\ Shows("Save")
  /\ ~Exists(name)
  /\ Saved(name)
  /\ Emptied /\ reserved' = FALSE
  /\ idx' = 0
  /\ stack' = <<"Start">>
  /\ UNCHANGED <<doing, autosave, linkVars, seen, refused, base, failed, started,
                 now, opens>>

\* Mutant: the census is released whether or not it was saved.
SaveRefused_frees(name) ==
  /\ Shows("Save")
  /\ ~Exists(name)
  /\ NotSaved(name)
  /\ Emptied /\ reserved' = FALSE
  /\ stack' = Append(stack, "Msg")
  /\ UNCHANGED <<doing, autosave, linkVars, seen, refused, seriesVars, now, opens>>

(* "Keep the census: it is the whole scan".                                *)
SaveRefused(name) ==
  /\ Shows("Save")
  /\ ~Exists(name)
  /\ NotSaved(name)
  /\ stack' = Append(stack, "Msg")
  /\ UNCHANGED <<doing, autosave, linkVars, scanVars, seriesVars, now, opens>>

\* Mutant: the name screen is opened anew on top of the message.
BackToPrevious_anew ==
  /\ doing = "Idle" /\ Top \in {"Save", "Msg"}
  /\ stack' = IF Top = "Msg" THEN Append(stack, "Save") ELSE Front(stack)
  /\ doing' = IF Last(stack') = "Scan" THEN "Enter" ELSE "Idle"
  /\ UNCHANGED <<autosave, linkVars, scanVars, seriesVars, now, cardVars>>

(* Neither screen handles Back, so the scene manager shows the previous    *)
(* screen, and enters it again.                                            *)
BackToPrevious ==
  /\ doing = "Idle" /\ Top \in {"Save", "Msg"}
  /\ stack' = Front(stack)
  /\ doing' = IF Last(stack') = "Scan" THEN "Enter" ELSE "Idle"
  /\ UNCHANGED <<autosave, linkVars, scanVars, seriesVars, now, cardVars>>

-----------------------------------------------------------------------------
(* The serial debug view has the link, the timer and app->serial too.      *)

serial_debug_on_enter ==
  /\ Shows("Start")
  /\ stack' = Append(stack, "SerialDebug")
  /\ \/ listener' = "Debug" /\ timer' = TRUE
     \/ UNCHANGED <<listener, timer>>   \* the port is busy
  /\ UNCHANGED <<doing, autosave, link_ok, scanVars, seriesVars, now, cardVars>>

serial_debug_on_exit ==
  /\ Shows("SerialDebug")
  /\ listener' = "None" /\ timer' = FALSE
  /\ stack' = Front(stack)
  /\ UNCHANGED <<doing, autosave, link_ok, scanVars, seriesVars, now, cardVars>>

-----------------------------------------------------------------------------
Entering == EnterNoRoom \/ EnterReady \/ EnterStarted \/ EnterBusy
Rotating == RotateStop \/ RotateSave \/ RotateReset \/ RotateStart

(* A handler that has begun runs to its end.                               *)
Handler == Entering \/ Rotating \/ LeaveAutosave

Back == BackNoLink \/ BackAutosave \/ BackToSave \/ BackToPrevious \/ serial_debug_on_exit

Next ==
  \/ Observe \/ ObserveAgain \/ Minute \/ CardChanges
  \/ Handler \/ Rotate \/ Back
  \/ ToggleAutosave \/ ChooseScan \/ serial_debug_on_enter \/ Quit
  \/ \E k \in 1 .. UserNames :
       SaveExists(UserName(k)) \/ SaveDone(UserName(k)) \/ SaveRefused(UserName(k))

(* Handlers return, and the timer of a scan that runs keeps ticking.       *)
Spec ==
  /\ Init
  /\ [][Next]_vars
  /\ WF_vars(Handler)
  /\ WF_vars(Rotate)

-----------------------------------------------------------------------------
(* Properties.                                                             *)

OnCard == UNION {files[n].devices : n \in DOMAIN files}

(* The screens stand in one of the orders the handlers foresee, the census *)
(* within its ceiling and with a record exactly when there is something in *)
(* hand, and a file that is not whole holds no capture.                    *)
TypeOK ==
  /\ stack \in {<<"Start">>, <<"Start", "Scan">>, <<"Start", "Scan", "Save">>,
                <<"Start", "Scan", "Msg">>, <<"Start", "Scan", "Save", "Msg">>,
                <<"Start", "SerialDebug">>}
  /\ doing \in {"Idle", "Enter", "Link", "RotateStop", "RotateSave", "RotateReset",
                "RotateStart", "Leave"}
  /\ {autosave, timer, link_ok, reserved, opens} \subseteq BOOLEAN
  /\ listener \in {"None", "Scan", "Debug"}
  /\ hand \subseteq 1 .. seen
  /\ count \in 0 .. MaxDevices /\ (count = 0 <=> hand = {})
  /\ {idx, base, failed, started, now} \subseteq Nat
  /\ \A n \in DOMAIN files : ~files[n].whole => files[n].devices = {}

(* The worker never adds a device to a census without its reservation: the *)
(* array would be reallocated under the screen that reads it               *)
(* (scan_reset_census).                                                    *)
ReservedWhileScanning == listener = "Scan" => reserved

(* The application saves, releases or replaces the census only while no    *)
(* worker can be writing it (scan_serial_stop comes first).                *)
QuietCensus ==
  [][files' # files \/ ~(hand \subseteq hand') \/ (reserved /\ ~reserved')
       => listener # "Scan"]_vars

(* Back decides by scan_link_ok: it is true exactly while the scan shown   *)
(* runs, and when it is not there is nothing to save ("never started:      *)
(* nothing to save").  So the menu, from which the app can be left, is     *)
(* never reached with a scan in hand.  And the link and its timer, which   *)
(* two screens keep in the same fields of the app, run together, and only  *)
(* under those two.                                                        *)
LinkOkIsTrue ==
  /\ Shows("Scan") => (link_ok <=> listener = "Scan") /\ (~link_ok => hand = {})
  /\ Shows("Start") => hand = {}
  /\ doing = "Idle" => (timer <=> listener # "None")
  /\ doing = "Idle" /\ Top \notin {"Scan", "SerialDebug"} => listener = "None"

(* A device leaves the census only when it is on the card or its chunk is  *)
(* counted as not saved, whatever fails and in whatever order the screens  *)
(* are walked; or when the port is busy on entering the scan screen (see   *)
(* CaptureInHandKept).                                                     *)
ReleasedWhenSaved ==
  [][hand \ hand' \subseteq OnCard' \cup refused' \/ (doing = "Link" /\ ~link_ok')]_vars

(* "Resetting here would throw away the very capture the user was about to *)
(* name, so a scan already in hand is resumed" (wc_scene_scan_on_enter):   *)
(* no exception for a busy port.  It does not hold.                        *)
CaptureInHandKept == [][hand \ hand' \subseteq OnCard' \cup refused']_vars

(* A capture the user named is never overwritten, nor is an earlier chunk  *)
(* of the series being written, whether the save succeeds or fails: the    *)
(* name is asked about first, "saving would replace it".  That is as much  *)
(* as the code keeps: when the card fails to open the file it is asked     *)
(* about, a capture that is there is taken for absent, and is replaced.    *)
CapturesKept ==
  [][\A n \in DOMAIN files :
       /\ files[n].whole
       /\ \/ n.by = "user" /\ opens
          \/ n.by = "auto" /\ n.at = base /\ n.no < idx
       => n \in DOMAIN files' /\ files'[n] = files[n]]_vars

(* A census that is at the mark is saved and replaced, also when no        *)
(* further device comes, unless the user leaves first, or a fold takes the *)
(* census back below the mark before the next tick looks at it.            *)
RotatesAtTheMark ==
  (Shows("Scan") /\ autosave /\ count >= RotateAt)
    ~> (count < RotateAt \/ Top # "Scan")
=============================================================================
