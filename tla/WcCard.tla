------------------------------- MODULE WcCard -------------------------------
(***************************************************************************)
(* The storage port on the SD card (wc_store_furi.c).  A file is a         *)
(* sequence of cells, as fine as its readers tell apart; what cannot be    *)
(* cut by a failing write is one cell.  Each call of the port is one step  *)
(* or part of one, and any of them may fail, MaxFaults times in a run.     *)
(*                                                                         *)
(* That a rename never replaces a file is assumed of the firmware: the     *)
(* rename screen tells the user that the new name may be taken.            *)
(***************************************************************************)
EXTENDS Integers, Sequences

CONSTANT MaxFaults   \* bound of the model: calls that fail, power cuts in a call

ASSUME CardAssumption == MaxFaults \in Nat

VARIABLES
  card,    \* the files on the card: name |-> cells
  faults   \* how many calls have failed

Fault == faults < MaxFaults /\ faults' = faults + 1
NoFault == UNCHANGED faults

Cells(f) == IF f \in DOMAIN card THEN card[f] ELSE << >>

(* 0 for a file that is missing, empty, or could not be opened.            *)
file_size(f) == Len(Cells(f))

(* A range past the end comes back short.                                  *)
read_range(f, offset, n) ==
  SubSeq(Cells(f), offset + 1, IF offset + n < file_size(f) THEN offset + n ELSE file_size(f))

(* read_file: all of it, or nothing when it is larger than the buffer.     *)
read_file(f, cap) == IF file_size(f) <= cap THEN Cells(f) ELSE << >>

With(f, cells) == [x \in DOMAIN card \cup {f} |-> IF x = f THEN cells ELSE card[x]]
Without(f) == [x \in DOMAIN card \ {f} |-> card[x]]

\* Mutant: opened for writing without truncating.
open_write_keeping(f) == card' = With(f, Cells(f))

(* FSOM_CREATE_ALWAYS: what was there is gone before the first byte.       *)
open_write(f) == card' = With(f, << >>)

(* The file with cells written at the writer's position.                   *)
Written(f, at, cells) ==
  SubSeq(Cells(f), 1, at) \o cells \o SubSeq(Cells(f), at + Len(cells) + 1, file_size(f))

(* A failed write, with the close after it, leaves some first part.        *)
Torn(f, at, cells) ==
  \E k \in 0 .. Len(Written(f, at, cells)) - 1 :
    card' = With(f, SubSeq(Written(f, at, cells), 1, k))

(* What is written reaches the card for certain when the file is closed:   *)
(* a close that fails, or a power cut before it, can leave any first part. *)
Unflushed(f) == \E k \in 0 .. file_size(f) : card' = With(f, SubSeq(Cells(f), 1, k))

(* One open, seek, write and close, in one call; whether it was closed     *)
(* cleanly is not asked, so a write can succeed and not be there.          *)
write_done(f, cells) ==
  \/ card' = With(f, cells) /\ NoFault
  \/ /\ Fault
     /\ \E k \in 0 .. Len(cells) : card' = With(f, SubSeq(cells, 1, k))

Renamable(f, g) == f \in DOMAIN card /\ g \notin DOMAIN card

rename_file(f, g) ==
  card' = [x \in (DOMAIN card \ {f}) \cup {g} |-> IF x = g THEN card[f] ELSE card[x]]

delete_file(f) == card' = Without(f)
=============================================================================
