------------------------------- MODULE WcPcap -------------------------------
(***************************************************************************)
(* The two readers of a pcap (wc_pcap_reader.c): wc_pcap_read, over a      *)
(* whole file in memory, which the host tools use, and wc_pcap_stream,     *)
(* through a window refilled from the card, which the import uses.         *)
(*                                                                         *)
(* A file is a sequence of cells: the global header is two (magic, link    *)
(* type), a record's header one (its length), and a frame one for each     *)
(* unit of its length.  Offsets count from 0.  A pull past the end of the  *)
(* file comes back short, and one that fails comes back empty.             *)
(***************************************************************************)
EXTENDS Integers, Sequences

CONSTANTS
  MaxFrame,    \* WC_PCAP_MAX_FRAME
  Files,       \* the pcaps the user may pick
  MaxFaults    \* bound of the model: pulls that fail

ASSUME PcapAssumption ==
  MaxFrame \in Nat /\ MaxFaults \in Nat /\ Files \subseteq Seq(Nat)

VARIABLES
  file,      \* the file imported
  base, valid, buf,   \* the window: PcapWindow
  off,       \* the reader's offset
  incl,      \* the length of the record being read
  step,      \* the next call of window_hold: "Global", "Record", "Frame"; or "Done"
  result,    \* what wc_pcap_stream returned
  frames,    \* the frames handed to the callback
  faults

windowVars == <<base, valid, buf>>
vars == <<file, windowVars, off, incl, step, result, frames, faults>>

GlobalHdr == 2
RecHdr == 1
Window == MaxFrame + RecHdr + GlobalHdr

Magic == 9
LinkType == 8
IsPcap(magic, link) == magic = Magic /\ link = LinkType

(* n cells from offset at, or as many as there are.                        *)
Slice(cells, at, n) == SubSeq(cells, at + 1, IF at + n < Len(cells) THEN at + n ELSE Len(cells))

-----------------------------------------------------------------------------
(* wc_pcap_read: the frames from each offset on, the last ones first.      *)

Records(data) ==
  LET From[o \in 0 .. Len(data) + MaxFrame + RecHdr] ==
        IF o + RecHdr > Len(data) THEN << >>
        ELSE LET n == data[o + 1]
             IN  IF n > MaxFrame \/ o + RecHdr + n > Len(data) THEN << >>
                 ELSE <<Slice(data, o + RecHdr, n)>> \o From[o + RecHdr + n]
  IN  From[GlobalHdr]

Accepted(data) == Len(data) >= GlobalHdr /\ IsPcap(data[1], data[2])

-----------------------------------------------------------------------------
(* wc_pcap_stream, a step per call of window_hold.                         *)

Init ==
  /\ file \in Files
  /\ base = 0 /\ valid = 0 /\ buf = << >>
  /\ off = 0 /\ incl = 0 /\ step = "Global"
  /\ result = FALSE /\ frames = << >> /\ faults = 0

Holds(at, need) == at >= base /\ at + need <= base + valid

(* The window is left alone, or refilled from at; Held: it has them then.  *)
window_hold(at, need) ==
  IF Holds(at, need) THEN UNCHANGED <<windowVars, faults>>
  ELSE /\ base' = at
       /\ \/ buf' = Slice(file, at, Window) /\ UNCHANGED faults
          \/ buf' = << >> /\ faults < MaxFaults /\ faults' = faults + 1
       /\ valid' = Len(buf')

Held(at, need) == at >= base' /\ at + need <= base' + valid'

(* The cells at file offset at, from the window.                           *)
InWindow(at, n) == SubSeq(buf', at - base' + 1, at - base' + n)

ReadGlobal ==
  /\ step = "Global"
  /\ window_hold(0, GlobalHdr)
  /\ IF Held(0, GlobalHdr) /\ IsPcap(InWindow(0, 2)[1], InWindow(0, 2)[2])
     THEN step' = "Record" /\ off' = GlobalHdr /\ result' = TRUE
     ELSE step' = "Done" /\ UNCHANGED <<off, result>>
  /\ UNCHANGED <<file, incl, frames>>

(* The end of the file, and an implausible length, end the loop.           *)
ReadRecord ==
  /\ step = "Record"
  /\ window_hold(off, RecHdr)
  /\ IF Held(off, RecHdr)
     THEN /\ incl' = InWindow(off, RecHdr)[1]
          /\ off' = off + RecHdr
          /\ step' = IF incl' > MaxFrame THEN "Done" ELSE "Frame"
     ELSE step' = "Done" /\ UNCHANGED <<incl, off>>
  /\ UNCHANGED <<file, result, frames>>

\* Mutant: the frame is taken from the window's beginning.
ReadFrame_first ==
  /\ step = "Frame"
  /\ window_hold(off, incl)
  /\ IF Held(off, incl)
     THEN /\ frames' = Append(frames, SubSeq(buf', 1, incl))
          /\ off' = off + incl
          /\ step' = "Record"
     ELSE step' = "Done" /\ UNCHANGED <<frames, off>>
  /\ UNCHANGED <<file, incl, result>>

ReadFrame ==
  /\ step = "Frame"
  /\ window_hold(off, incl)
  /\ IF Held(off, incl)
     THEN /\ frames' = Append(frames, InWindow(off, incl))
          /\ off' = off + incl
          /\ step' = "Record"
     ELSE step' = "Done" /\ UNCHANGED <<frames, off>>
  /\ UNCHANGED <<file, incl, result>>

Next == ReadGlobal \/ ReadRecord \/ ReadFrame

Spec == Init /\ [][Next]_vars

-----------------------------------------------------------------------------
(* Properties.                                                             *)

(* Through a window a little larger than a frame the import reads the      *)
(* frames the host tools read with the whole file at hand, wherever a      *)
(* record falls on the window; and no frame that is not in the file, if a  *)
(* pull fails: then the first of them.                                     *)
SameFrames ==
  LET all == IF Accepted(file) THEN Records(file) ELSE << >>
  IN  /\ Len(frames) <= Len(all) /\ frames = SubSeq(all, 1, Len(frames))
      /\ step = "Done" /\ faults = 0 => frames = all /\ result = Accepted(file)
=============================================================================
