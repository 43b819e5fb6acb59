----------------------------- MODULE WcMenuProofs -----------------------------
(***************************************************************************)
(* For lists of any length: the cursor of the list is always on a full     *)
(* page (PageFull of WcScrollList), under every screen of WcMenu; a press  *)
(* left or right leaves it on its row (NudgeStays); and the settings are   *)
(* found again (SettingsKept).                                             *)
(***************************************************************************)
EXTENDS WcMenu, SequenceTheorems, TLAPS

-----------------------------------------------------------------------------
(* The list.                                                               *)

(* Where the cursor and the window are: PageFull without the set of rows   *)
(* that are drawn, and without the arithmetic of size_t.                   *)
CursorInv ==
  /\ position \in Nat /\ window \in Nat
  /\ count <= ListMax
  /\ items = << >> => position = 0 /\ window = 0
  /\ items # << >> => /\ window <= position /\ position < count
                      /\ position < window + items_on_screen
                      /\ window > 0 => window < position /\ window + items_on_screen <= count
                      /\ position = window + items_on_screen - 1 => position = count - 1

ListInv == ListTypeOK /\ CursorInv

LEMMA CountNat == ASSUME ListTypeOK PROVE count \in Nat /\ (items = << >> <=> count = 0)
BY EmptySeq, LenProperties DEF ListTypeOK, count

LEMMA PageSize == items_on_screen \in 3 .. 4
BY DEF items_on_screen

(* A list that is filled anew begins at its first row.                     *)
LEMMA FillInv ==
  ASSUME ListTypeOK, NEW rows \in Seq(Nat), NEW titled \in BOOLEAN, NEW noted \in Nat,
         NEW value \in Nat \cup {NoValue},
         Fill(rows, titled, noted, value), visible' \in BOOLEAN
  PROVE  ListInv'
<1> DEFINE n == IF Len(rows) < ListMax THEN Len(rows) ELSE ListMax
<1>1. Len(rows) \in Nat /\ ListMax \in Nat /\ n \in 0 .. Len(rows) /\ n <= ListMax
  BY ListAssumption, LenProperties
<1>2. items' \in Seq(Nat) /\ Len(items') = n
  <2>1. items' = SubSeq(rows, 1, n)
    BY DEF Fill
  <2>2. \A i \in 1 .. n : rows[i] \in Nat
    BY <1>1, ElementOfSeq
  <2> QED BY <1>1, <2>1, <2>2, SubSeqProperties
<1>3. /\ hidden' \in Nat /\ header' = titled /\ value_index' = value
      /\ position' = 0 /\ window' = 0 /\ counter' = 0 /\ UNCHANGED overflows
  BY <1>1 DEF Fill
<1>4. ListTypeOK'
  BY <1>1, <1>2, <1>3 DEF ListTypeOK
<1>5. count' \in Nat /\ (items' = << >> <=> count' = 0) /\ count' <= ListMax
  BY <1>1, <1>2, EmptySeq, LenProperties DEF count
<1>6. items_on_screen' \in 3 .. 4
  BY DEF items_on_screen
<1> HIDE DEF n
<1>7. CursorInv'
  <2>1. CASE items' = << >>
    BY <1>3, <1>5, <2>1 DEF CursorInv
  <2>2. CASE items' # << >>
    <3>1. count' > 0 /\ items_on_screen' > 1
      BY <1>5, <1>6, <2>2
    <3>2. ASSUME NEW s \in 3 .. 4 PROVE 0 < 0 + s /\ 0 # 0 + s - 1 /\ ~(0 > 0) /\ 0 <= 0
      OBVIOUS
    <3>3. position' = 0 /\ window' = 0 /\ 0 \in Nat
      BY <1>3
    <3>4. /\ window' <= position' /\ position' < count' /\ position' < window' + items_on_screen'
          /\ ~(window' > 0) /\ position' # window' + items_on_screen' - 1
      BY <1>6, <3>1, <3>2, <3>3, <1>5
    <3> QED BY <1>5, <2>2, <3>3, <3>4, Zenon DEF CursorInv
  <2> QED BY <2>1, <2>2
<1> QED BY <1>4, <1>7 DEF ListInv

(* Up and down keep the cursor on a full page.                             *)
LEMMA UpInv == ASSUME ListInv, Up PROVE ListInv'
<1> DEFINE s == items_on_screen
<1>1. s \in 3 .. 4 /\ items_on_screen' = s /\ count' = count /\ count \in Nat \ {0}
  BY PageSize, CountNat DEF Up, contentVars, count, items_on_screen, has_header_row, ListInv
<1>2. position \in Nat /\ window \in Nat /\ ListMax \in Nat
  BY ListAssumption DEF ListInv, ListTypeOK
<1>3. /\ window <= position /\ position < count /\ position < window + s /\ count <= ListMax
      /\ window > 0 => window < position /\ window + s <= count
      /\ position = window + s - 1 => position = count - 1
  BY DEF ListInv, CursorInv, Up
<1>4. CursorInv'
  <2> SUFFICES /\ position' \in Nat /\ window' \in Nat
               /\ window' <= position' /\ position' < count /\ position' < window' + s
               /\ window' > 0 => window' < position' /\ window' + s <= count
               /\ position' = window' + s - 1 => position' = count - 1
    BY <1>1, <1>3 DEF CursorInv, Up, contentVars
  <2> HIDE DEF s
  <2>1. CASE position > 0
    <3>1. /\ position' = position - 1
          /\ window' = IF position - 1 = window /\ window > 0 THEN window - 1 ELSE window
      BY <2>1 DEF Up
    <3> QED BY <1>1, <1>2, <1>3, <2>1, <3>1
  <2>2. CASE ~(position > 0)
    <3>1. /\ position' = count - 1
          /\ window' = IF count - 1 > s - 1 THEN count - 1 - (s - 1) ELSE window
      BY <2>2 DEF Up, s
    <3> QED BY <1>1, <1>2, <1>3, <2>2, <3>1
  <2> QED BY <2>1, <2>2
<1>5. ListTypeOK'
  BY <1>4 DEF ListInv, ListTypeOK, CursorInv, Up, contentVars
<1> QED BY <1>4, <1>5 DEF ListInv

LEMMA DownInv == ASSUME ListInv, Down PROVE ListInv'
<1> DEFINE s == items_on_screen
<1>1. s \in 3 .. 4 /\ items_on_screen' = s /\ count' = count /\ count \in Nat \ {0}
  BY PageSize, CountNat DEF Down, contentVars, count, items_on_screen, has_header_row, ListInv
<1>2. position \in Nat /\ window \in Nat /\ ListMax \in Nat /\ Word \in Nat /\ Word > 2 * ListMax + 8
  BY ListAssumption DEF ListInv, ListTypeOK
<1>3. /\ window <= position /\ position < count /\ position < window + s /\ count <= ListMax
      /\ window > 0 => window < position /\ window + s <= count
      /\ position = window + s - 1 => position = count - 1
  BY DEF ListInv, CursorInv, Down
<1>4. CursorInv'
  <2> SUFFICES /\ position' \in Nat /\ window' \in Nat
               /\ window' <= position' /\ position' < count /\ position' < window' + s
               /\ window' > 0 => window' < position' /\ window' + s <= count
               /\ position' = window' + s - 1 => position' = count - 1
    BY <1>1, <1>3 DEF CursorInv, Down, contentVars
  <2> HIDE DEF s
  <2>1. CASE position < count - 1
    <3>1. /\ position' = position + 1
          /\ window' = IF /\ position + 1 - window > s - 2
                          /\ window < Minus(count, s)
                       THEN window + 1 ELSE window
      BY <1>2, <1>3, <2>1 DEF Down, Minus, s
    <3>2. CASE count >= s
      <4>1. Minus(count, s) = count - s
        BY <1>1, <3>2 DEF Minus
      <4> QED BY <1>1, <1>2, <1>3, <2>1, <3>1, <3>2, <4>1
    <3>3. CASE count < s
      BY <1>1, <1>2, <1>3, <2>1, <3>1, <3>3
    <3> QED BY <1>1, <3>2, <3>3
  <2>2. CASE ~(position < count - 1)
    <3>1. position' = 0 /\ window' = 0
      BY <2>2 DEF Down
    <3> QED BY <1>1, <1>2, <1>3, <2>2, <3>1
  <2> QED BY <2>1, <2>2
<1>5. ListTypeOK'
  BY <1>4 DEF ListInv, ListTypeOK, CursorInv, Down, contentVars
<1> QED BY <1>4, <1>5 DEF ListInv

(* Drawing, the timer, and all that leaves the list alone.                 *)
LEMMA SameListInv ==
  ASSUME ListInv, UNCHANGED <<cursorVars, contentVars>>,
         counter' \in Nat, overflows' \in BOOLEAN, visible' \in BOOLEAN
  PROVE  ListInv'
BY DEF ListInv, ListTypeOK, CursorInv, cursorVars, contentVars, count, items_on_screen, has_header_row

LEMMA PressInv ==
  ASSUME ListInv, Up \/ Down \/ Draw \/ Timer
  PROVE  ListInv'
<1>1. CASE Draw
  BY <1>1, SameListInv DEF Draw, ListInv, ListTypeOK
<1>2. CASE Timer
  BY <1>2, SameListInv DEF Timer, ListInv, ListTypeOK
<1> QED BY <1>1, <1>2, UpInv, DownInv

(* The cursor's place implies that the page is full.                       *)
LEMMA CursorPage == ASSUME ListInv PROVE PageFull
<1>1. items_on_screen \in 3 .. 4 /\ count \in Nat /\ (items = << >> <=> count = 0)
  BY PageSize, CountNat DEF ListInv
<1>2. position \in Nat /\ window \in Nat
  BY DEF ListInv, ListTypeOK
<1>3. items # << >> => position \in Drawn
  BY <1>1, <1>2 DEF ListInv, CursorInv, Drawn, Minus
<1> QED BY <1>1, <1>2, <1>3 DEF ListInv, CursorInv, PageFull

-----------------------------------------------------------------------------
(* The menu and the settings.                                              *)

Settings == [baud : Bauds, autosave : BOOLEAN]

(* The menu is on the list, and its value on the scan row, whenever the    *)
(* start screen is shown.                                                  *)
IInv ==
  /\ ListInv
  /\ screen \in {"Start", "Settings", "Other"}
  /\ baud \in Bauds /\ autosave \in BOOLEAN
  /\ faults \in Nat
  /\ screen = "Start" => value_index = StartScan
  /\ SettingsKept

LEMMA LoadType == settings_load \in Settings
BY DEF settings_load, Settings, Defaults, Bauds, BaudDefault

LEMMA StartRowsType == StartRows \in Seq(Nat) /\ Len(StartRows) = 9 /\ StartRows[1] = StartScan
BY DEF StartRows, StartScan

(* What was written is what will be read.                                  *)
LEMMA EncodedLoads ==
  ASSUME NEW b \in Bauds, NEW a \in BOOLEAN, card' = With(Settings_file, Encoded(b, a))
  PROVE  settings_load' = [baud |-> b, autosave |-> a]
<1>1. Cells(Settings_file)' = Encoded(b, a)
  BY DEF Cells, With
<1>2. /\ Len(Encoded(b, a)) = 3 /\ Encoded(b, a)[1] = Magic
      /\ Encoded(b, a)[2][2] = b
      /\ Encoded(b, a)[3][2] = IF a THEN 1 ELSE 0
  BY DEF Encoded
<1>3. (Encoded(b, a)[3][2] # 0) = a
  BY <1>2
<1> QED BY <1>1, <1>2, <1>3 DEF settings_load

(* A save that does not fail leaves what the app runs with.                *)
LEMMA PersistKeeps ==
  ASSUME faults \in Nat, NEW b \in Bauds, NEW a \in BOOLEAN, persist(b, a)
  PROVE  faults' \in Nat /\ (faults' = 0 => settings_load' = [baud |-> b, autosave |-> a])
<1>1. faults' \in Nat /\ (faults' = 0 => NoFault)
  BY DEF persist, write_done, Torn, Fault, NoFault
<1>2. ASSUME faults' = 0 PROVE card' = With(Settings_file, Encoded(b, a))
  BY <1>2 DEF persist, write_done, Fault
<1> QED BY <1>1, <1>2, EncodedLoads

LEMMA StartInv ==
  ASSUME ListInv, start_populate, visible' \in BOOLEAN
  PROVE  ListInv' /\ value_index' = StartScan
<1>1. Fill(StartRows, TRUE, 0, StartScan) /\ StartScan \in Nat
  BY DEF start_populate, StartScan
<1>2. ListTypeOK
  BY DEF ListInv
<1>3. ListInv'
  BY <1>1, <1>2, StartRowsType, FillInv
<1> QED BY <1>1, <1>3 DEF Fill

LEMMA InitInv == Init => IInv
<1> SUFFICES ASSUME Init PROVE IInv
  OBVIOUS
<1>1. /\ items = StartRows /\ value_index = StartScan /\ header = TRUE /\ hidden = 0
      /\ position = 0 /\ window = 0 /\ counter = 0 /\ overflows = FALSE /\ visible = TRUE
  BY DEF Init
<1>2. count = 9 /\ items # << >> /\ items_on_screen = 3 /\ ListMax \in Nat /\ ListMax >= 9
  BY <1>1, StartRowsType, ListAssumption, MenuAssumption
  DEF count, items_on_screen, has_header_row, StartRows
<1>3. ListTypeOK
  BY <1>1, <1>2, StartRowsType DEF ListTypeOK, count, StartScan
<1>4. CursorInv
  BY <1>1, <1>2 DEF CursorInv
<1>5. baud = settings_load.baud /\ autosave = settings_load.autosave /\ faults = 0 /\ screen = "Start"
  BY DEF Init
<1>6. baud \in Bauds /\ autosave \in BOOLEAN /\ SettingsKept
  BY <1>5, LoadType DEF Settings, SettingsKept
<1> QED BY <1>1, <1>3, <1>4, <1>5, <1>6 DEF IInv, ListInv

LEMMA StepInv == IInv /\ [Next]_vars => IInv'
<1> SUFFICES ASSUME IInv, [Next]_vars PROVE IInv'
  OBVIOUS
<1> USE DEF IInv
<1>1. Press(Up) \/ Press(Down) \/ Press(Draw) \/ Press(Timer) => IInv'
  <2>1. Press(Up) \/ Press(Down) \/ Press(Draw) \/ Press(Timer) => ListInv'
    BY PressInv DEF Press
  <2>2. Press(Up) \/ Press(Down) \/ Press(Draw) \/ Press(Timer) =>
          value_index' = value_index /\ UNCHANGED <<card, faults, menuVars>>
    BY DEF Press, Up, Down, Draw, Timer, contentVars
  <2> QED BY <2>1, <2>2 DEF menuVars, SettingsKept, settings_load, Cells
<1>2. CASE Ok
  <2>1. UNCHANGED <<card, faults, baud, autosave>> /\ settings_load' = settings_load
    BY <1>2 DEF Ok, settings_load, Cells
  <2>2. CASE Selected = StartSettings
    <3>1. /\ screen' = "Settings" /\ visible' = FALSE /\ Fill(<< >>, FALSE, 0, NoValue)
      BY <1>2, <2>2 DEF Ok
    <3>2. << >> \in Seq(Nat)
      OBVIOUS
    <3>3. ListInv'
      BY <3>1, <3>2, FillInv DEF ListInv
    <3> QED BY <2>1, <3>1, <3>3 DEF SettingsKept
  <2>3. CASE Selected # StartSettings
    <3>1. screen = "Start" /\ screen' = "Other" /\ visible' \in BOOLEAN
      BY <1>2, <2>3 DEF Ok, ListInv, ListTypeOK
    <3>2. PICK l \in Lists : Fill(l.rows, l.titled, l.noted, NoValue)
      BY <1>2, <2>3 DEF Ok, FillWith
    <3>3. ListInv'
      BY <3>1, <3>2, MenuAssumption, FillInv DEF ListInv
    <3> QED BY <2>1, <3>1, <3>3 DEF SettingsKept
  <2> QED BY <2>2, <2>3
<1>3. CASE Nudge
  <2>1. /\ screen' = screen /\ screen = "Start" /\ baud' = baud /\ autosave' \in BOOLEAN
        /\ visible' \in BOOLEAN /\ start_populate /\ persist(baud', autosave')
    BY <1>3 DEF Nudge, ListInv, ListTypeOK
  <2>2. ListInv' /\ value_index' = StartScan
    BY <2>1, StartInv
  <2>3. faults' \in Nat /\ SettingsKept'
    BY <2>1, PersistKeeps DEF SettingsKept
  <2> QED BY <2>1, <2>2, <2>3
<1>4. CASE Change
  <2>1. UNCHANGED <<listVars, card, faults, screen>> /\ screen = "Settings"
    BY <1>4 DEF Change
  <2>2. ListInv'
    BY <2>1, SameListInv DEF listVars, ListInv, ListTypeOK
  <2>3. baud' \in Bauds /\ autosave' \in BOOLEAN
    BY <1>4 DEF Change
  <2> QED BY <2>1, <2>2, <2>3 DEF SettingsKept
<1>5. CASE LeaveSettings
  <2>1. /\ screen' = "Start" /\ UNCHANGED <<baud, autosave>> /\ visible' = TRUE
        /\ start_populate /\ persist(baud', autosave')
    BY <1>5 DEF LeaveSettings, Start
  <2>2. ListInv' /\ value_index' = StartScan
    BY <2>1, StartInv
  <2>3. faults' \in Nat /\ SettingsKept'
    BY <2>1, PersistKeeps DEF SettingsKept
  <2> QED BY <2>1, <2>2, <2>3
<1>6. CASE LeaveOther
  <2>1. /\ screen' = "Start" /\ visible' = TRUE /\ start_populate
        /\ UNCHANGED <<card, faults, baud, autosave>> /\ screen = "Other"
    BY <1>6 DEF LeaveOther, Start
  <2>2. ListInv' /\ value_index' = StartScan
    BY <2>1, StartInv
  <2>3. SettingsKept'
    BY <2>1 DEF SettingsKept, settings_load, Cells
  <2> QED BY <2>1, <2>2, <2>3
<1>7. CASE Restart
  <2>1. screen' = "Start" /\ visible' = TRUE /\ start_populate /\ UNCHANGED card
    BY <1>7 DEF Restart, Start
  <2>2. ListInv' /\ value_index' = StartScan
    BY <2>1, StartInv
  <2>3. PICK found \in {settings_load, Defaults} :
          /\ baud' = found.baud /\ autosave' = found.autosave
          /\ IF found = settings_load THEN NoFault ELSE Fault
    BY <1>7 DEF Restart, Load
  <2>4. found \in Settings /\ settings_load' = settings_load
    <3>1. Defaults \in Settings
      BY DEF Defaults, Settings, Bauds, BaudDefault
    <3>2. settings_load' = settings_load
      BY <2>1 DEF settings_load, Cells
    <3> QED BY <2>3, <3>1, <3>2, LoadType
  <2>5. faults' \in Nat /\ (faults' = 0 => found = settings_load)
    BY <2>3 DEF NoFault, Fault
  <2>6. found = [baud |-> baud', autosave |-> autosave']
    BY <2>3, <2>4 DEF Settings
  <2> QED BY <2>1, <2>2, <2>3, <2>4, <2>5, <2>6 DEF SettingsKept, Settings
<1>8. CASE UNCHANGED vars
  <2>1. ListInv'
    BY <1>8, SameListInv DEF vars, listVars, ListInv, ListTypeOK
  <2> QED BY <1>8, <2>1 DEF vars, listVars, contentVars, menuVars, SettingsKept, settings_load, Cells
<1> QED BY <1>1, <1>2, <1>3, <1>4, <1>5, <1>6, <1>7, <1>8 DEF Next

-----------------------------------------------------------------------------

(* The cursor, the list's types, the menu's value and the settings: what   *)
(* every step preserves.                                                   *)
THEOREM Invariance == Spec => []IInv
BY InitInv, StepInv, PTL DEF Spec

(* On every list, of any length, with and without a header, the cursor is  *)
(* on a row that is drawn, the page is full, and what goes on past the     *)
(* cursor is seen.                                                         *)
THEOREM AlwaysPageFull == Spec => []PageFull
<1>1. IInv => PageFull
  BY CursorPage DEF IInv
<1> QED BY <1>1, Invariance, PTL

(* The settings the app runs with are those it finds when started again.   *)
THEOREM SettingsFound == Spec => []SettingsKept
<1>1. IInv => SettingsKept
  BY DEF IInv
<1> QED BY <1>1, Invariance, PTL

(* A press left or right leaves the cursor on the row with the value.      *)
THEOREM NudgeKeepsRow == Spec => NudgeStays
<1>1. ASSUME IInv, Nudge PROVE items'[position' + 1] = Selected /\ value_index' = Selected
  <2>1. Selected = StartScan
    BY <1>1 DEF IInv, Nudge, CanNudge
  <2>2. Fill(StartRows, TRUE, 0, StartScan)
    BY <1>1 DEF Nudge, start_populate
  <2>3. items' = SubSeq(StartRows, 1, 9)
    BY <2>2, StartRowsType, ListAssumption, MenuAssumption DEF Fill
  <2>4. \A i \in 1 .. 9 : StartRows[i] \in Nat
    BY StartRowsType, ElementOfSeq
  <2>5. items'[1] = StartScan
    BY <2>3, <2>4, StartRowsType, SubSeqProperties
  <2>6. position' + 1 = 1 /\ value_index' = StartScan
    BY <2>2 DEF Fill
  <2> QED BY <2>1, <2>5, <2>6
<1>2. IInv /\ [Next]_vars => [Nudge => items'[position' + 1] = Selected /\ value_index' = Selected]_vars
  BY <1>1
<1> QED BY <1>2, Invariance, PTL DEF Spec, NudgeStays
=============================================================================
