------------------------------- MODULE WcMenu -------------------------------
(***************************************************************************)
(* The start menu and the settings screen (wc_scene_home.c) on the list,   *)
(* and the settings on the card (wc_settings_service.c, wc_app.c).         *)
(*                                                                         *)
(* The settings file is <<Magic, <<1, baud, 0>>, <<2, autosave, 0>>>>; the *)
(* service reads and writes it in one call.  The other screens stand for   *)
(* the lists they fill (Lists).                                            *)
(***************************************************************************)
EXTENDS WcScrollList, WcCard

CONSTANTS
  Lists,    \* what other screens fill the list with: [rows, titled, noted]
  Stored    \* contents of the settings file the app may find

ASSUME MenuAssumption ==
  /\ \A l \in Lists : l.rows \in Seq(Nat) /\ l.noted \in Nat /\ l.titled \in BOOLEAN
  /\ ListMax >= 9    \* the menu fits

VARIABLES
  screen,    \* "Start", "Settings" or "Other"
  baud, autosave   \* the app's settings

menuVars == <<screen, baud, autosave>>
vars == <<listVars, card, faults, menuVars>>

Settings_file == "settings.db"
Magic == <<0, 0, 0>>
Bauds == {115200, 230400}
BaudDefault == 115200

StartScan == 0
StartSettings == 6
StartRows == <<0, 1, 2, 3, 4, 5, 6, 7, 8>>

-----------------------------------------------------------------------------
(* wc_settings_service.c.                                                  *)

Encoded(b, a) == <<Magic, <<1, b, 0>>, <<2, IF a THEN 1 ELSE 0, 0>> >>
Defaults == [baud |-> BaudDefault, autosave |-> FALSE]

(* A damaged file gives the defaults; a baud the screen does not offer     *)
(* gives the default baud alone.                                           *)
settings_load ==
  LET cells == Cells(Settings_file)
  IN  IF Len(cells) # 3 \/ cells[1] # Magic THEN Defaults
      ELSE [baud |-> IF cells[2][2] \in Bauds THEN cells[2][2] ELSE BaudDefault,
            autosave |-> cells[3][2] # 0]

(* wc_settings_persist: nobody looks at the result.                        *)
persist(b, a) ==
  \/ write_done(Settings_file, Encoded(b, a))
  \/ UNCHANGED card /\ Fault
  \/ Torn(Settings_file, 0, Encoded(b, a)) /\ Fault

-----------------------------------------------------------------------------

FillWith(l) == Fill(l.rows, l.titled, l.noted, NoValue)

\* Mutant: the row with the value is not the first.
start_populate_below == Fill(<<1, 0, 2, 3, 4, 5, 6, 7, 8>>, TRUE, 0, StartScan)

start_populate == Fill(StartRows, TRUE, 0, StartScan)

Start ==
  /\ screen' = "Start"
  /\ start_populate
  /\ visible' = TRUE

(* wc_app_alloc; a read that fails gives the defaults as well.             *)
Load ==
  \E found \in {settings_load, Defaults} :
    /\ baud' = found.baud /\ autosave' = found.autosave
    /\ IF found = settings_load THEN NoFault ELSE Fault

Init ==
  /\ faults = 0
  /\ \E cells \in Stored : card = [x \in IF cells = << >> THEN {} ELSE {Settings_file} |-> cells]
  /\ baud = settings_load.baud /\ autosave = settings_load.autosave
  /\ screen = "Start"
  /\ items = StartRows /\ value_index = StartScan
  /\ header = TRUE /\ hidden = 0
  /\ position = 0 /\ window = 0 /\ counter = 0 /\ overflows = FALSE /\ visible = TRUE

Press(key) ==
  /\ visible
  /\ key
  /\ UNCHANGED <<card, faults, menuVars>>

(* Ok on the menu opens a screen; the settings are not a list.             *)
Ok ==
  /\ screen = "Start" /\ visible /\ CanPick
  /\ IF Selected = StartSettings
     THEN /\ screen' = "Settings" /\ visible' = FALSE
          /\ Fill(<< >>, FALSE, 0, NoValue)
     ELSE /\ screen' = "Other" /\ UNCHANGED visible
          /\ \E l \in Lists : FillWith(l)
  /\ UNCHANGED <<card, faults, baud, autosave>>

(* Left or right on the scan row: autosave_nudge fills the menu again.     *)
Nudge ==
  /\ screen = "Start" /\ visible /\ CanNudge
  /\ autosave' = ~autosave
  /\ persist(baud, autosave')
  /\ start_populate
  /\ UNCHANGED <<screen, baud, visible>>

Change ==
  /\ screen = "Settings"
  /\ \/ baud' \in Bauds \ {baud} /\ UNCHANGED autosave
     \/ autosave' = ~autosave /\ UNCHANGED baud
  /\ UNCHANGED <<listVars, card, faults, screen>>

\* Mutant: leaving the settings saves nothing.
LeaveSettings_unsaved ==
  /\ screen = "Settings"
  /\ Start
  /\ UNCHANGED <<card, faults, baud, autosave>>

LeaveSettings ==
  /\ screen = "Settings"
  /\ persist(baud, autosave)
  /\ Start
  /\ UNCHANGED <<baud, autosave>>

LeaveOther ==
  /\ screen = "Other"
  /\ Start
  /\ UNCHANGED <<card, faults, baud, autosave>>

(* The app is left and started again, or the power goes.                   *)
Restart == Load /\ Start /\ UNCHANGED card

Next ==
  \/ Press(Up) \/ Press(Down) \/ Press(Draw) \/ Press(Timer)
  \/ Ok \/ Nudge
  \/ Change \/ LeaveSettings \/ LeaveOther
  \/ Restart

Spec == Init /\ [][Next]_vars

-----------------------------------------------------------------------------
(* Properties.                                                             *)

TypeOK ==
  /\ ListTypeOK
  /\ screen \in {"Start", "Settings", "Other"}
  /\ baud \in Bauds /\ autosave \in BOOLEAN
  /\ faults \in 0 .. MaxFaults

(* A press left or right leaves the cursor on the row it was pressed on,   *)
(* though the menu is filled anew: a second press undoes the first.        *)
NudgeStays ==
  [][Nudge => items'[position' + 1] = Selected /\ value_index' = Selected]_vars

(* What the app runs with is what it will find when it is started again,   *)
(* outside the settings screen and as long as the card fails at nothing.   *)
SettingsKept ==
  faults = 0 /\ screen # "Settings" => settings_load = [baud |-> baud, autosave |-> autosave]
=============================================================================
