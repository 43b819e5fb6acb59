---------------------------- MODULE WcScrollList ----------------------------
(***************************************************************************)
(* The list every screen of rows is drawn with (wc_scroll_list.c): a       *)
(* cursor, and a window of three or four rows that follows it.             *)
(*                                                                         *)
(* Positions count from 0 and are unsigned: a difference that would be     *)
(* negative is Word larger.  A row is the event it sends; what it says is  *)
(* left out, but whether it overflows the line, which starts the timer's   *)
(* scrolling, is decided anew each time the list is drawn.                 *)
(***************************************************************************)
EXTENDS Integers, Sequences

CONSTANTS
  ListMax,    \* WC_SCROLL_LIST_MAX
  Word,       \* 2^32, for size_t
  MaxScroll   \* bound of the model: steps a text scrolls

ASSUME ListAssumption ==
  /\ ListMax \in Nat /\ Word \in Nat
  /\ Word > 2 * ListMax + 8
  /\ MaxScroll \in Nat

VARIABLES
  items,        \* the rows: the events they send
  position,     \* the cursor
  window,       \* the first row on the screen: window_position
  header,       \* whether the list has a header
  hidden,       \* how many entries are not shown
  value_index,  \* the row that carries a value, or NoValue
  counter,      \* scroll_counter
  overflows,    \* selected_overflows
  visible       \* the list is the view shown, and its timer runs

cursorVars == <<position, window>>
contentVars == <<items, header, hidden, value_index>>
listVars == <<cursorVars, contentVars, counter, overflows, visible>>

NoValue == -1
count == Len(items)

Minus(a, b) == IF a >= b THEN a - b ELSE a - b + Word

has_header_row == header \/ hidden > 0
items_on_screen == IF has_header_row THEN 3 ELSE 4

(* The rows the draw callback puts on the screen.                          *)
Drawn == {p \in 0 .. count - 1 : Minus(p, window) < items_on_screen}

(* reset, set_header, add_item or add_generated, note_hidden and           *)
(* set_item_value, as a screen calls them before the next key is handled.  *)
(* A row past the last one is counted as hidden.                           *)
Fill(rows, titled, noted, value) ==
  /\ items' = SubSeq(rows, 1, IF Len(rows) < ListMax THEN Len(rows) ELSE ListMax)
  /\ hidden' = noted + IF Len(rows) < ListMax THEN 0 ELSE Len(rows) - ListMax
  /\ header' = titled /\ value_index' = value
  /\ position' = 0 /\ window' = 0 /\ counter' = 0
  /\ UNCHANGED overflows

\* Mutant: the window stays where it was when the cursor wraps to the end.
Up_unmoved ==
  /\ items # << >>
  /\ counter' = 0
  /\ IF position > 0
     THEN /\ position' = position - 1
          /\ window' = IF position' = window /\ window > 0 THEN window - 1 ELSE window
     ELSE position' = count - 1 /\ UNCHANGED window
  /\ UNCHANGED <<contentVars, overflows, visible>>

(* process_up                                                              *)
Up ==
  /\ items # << >>
  /\ counter' = 0
  /\ IF position > 0
     THEN /\ position' = position - 1
          /\ window' = IF position' = window /\ window > 0 THEN window - 1 ELSE window
     ELSE /\ position' = count - 1
          /\ window' = IF position' > items_on_screen - 1
                       THEN position' - (items_on_screen - 1) ELSE window
  /\ UNCHANGED <<contentVars, overflows, visible>>

(* process_down: the window moves one row early, to show what comes next,  *)
(* and stops at the last full page.                                        *)
Down ==
  /\ items # << >>
  /\ counter' = 0
  /\ IF position < count - 1
     THEN /\ position' = position + 1
          /\ window' = IF /\ Minus(position', window) > items_on_screen - 2
                          /\ window < Minus(count, items_on_screen)
                       THEN window + 1 ELSE window
     ELSE position' = 0 /\ window' = 0
  /\ UNCHANGED <<contentVars, overflows, visible>>

(* process_ok and process_nudge look at the row under the cursor.          *)
Selected == items[position + 1]
CanPick == position < count
CanNudge == CanPick /\ value_index # NoValue /\ Selected = value_index

(* The row under the cursor is drawn, and its text found long or short.    *)
Draw ==
  /\ visible
  /\ overflows' \in IF position \in Drawn THEN BOOLEAN ELSE {overflows}
  /\ UNCHANGED <<cursorVars, contentVars, counter, visible>>

Timer ==
  /\ visible /\ overflows
  /\ counter < MaxScroll
  /\ counter' = counter + 1
  /\ UNCHANGED <<cursorVars, contentVars, overflows, visible>>

-----------------------------------------------------------------------------
(* Properties of the list, whoever fills it.                               *)

ListTypeOK ==
  /\ items \in Seq(Nat) /\ Len(items) <= ListMax
  /\ position \in Nat /\ window \in Nat /\ hidden \in Nat
  /\ header \in BOOLEAN /\ overflows \in BOOLEAN /\ visible \in BOOLEAN
  /\ value_index \in Nat \cup {NoValue}
  /\ counter \in Nat

(* The cursor is on a row that is drawn; the page is full as long as there *)
(* are rows to fill it with; and a row is drawn on each side of the        *)
(* cursor, where the list has one, so that the user sees that it goes on.  *)
PageFull ==
  LET last == IF window + items_on_screen < count THEN window + items_on_screen ELSE count
  IN  /\ IF items = << >> THEN position = 0 ELSE position \in Drawn
      /\ window > 0 => window + items_on_screen <= count
      /\ position = window => window = 0
      /\ position = last - 1 => last = count
=============================================================================
