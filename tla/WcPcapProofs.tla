----------------------------- MODULE WcPcapProofs -----------------------------
(***************************************************************************)
(* For pcaps of any length and any longest frame: through its window the   *)
(* import reads the frames of the file (SameFrames of WcPcap).             *)
(*                                                                         *)
(* The frames of a file are its records from the first one on, and those   *)
(* from an offset on are the record there followed by those from the next  *)
(* one on.  So what has been handed to the callback, followed by the       *)
(* frames from the reader's offset on, is all of them after every step;    *)
(* the window, wherever it lies, has the cells of the file.                *)
(***************************************************************************)
EXTENDS WcPcap, SequenceTheorems, WellFoundedInduction, TLAPS

-----------------------------------------------------------------------------
(* The frames from an offset on.                                           *)

(* A set of naturals that is not empty has a least element.                *)
LEMMA Least ==
  ASSUME NEW T \in SUBSET Nat, T # {}
  PROVE  \E x \in T : \A y \in T : x <= y
<1>1. PICK x \in T : \A y \in T : ~(<<y, x>> \in OpToRel(<, Nat))
  BY NatLessThanWellFounded, WFMin
<1>2. \A y \in T : ~(y < x)
  BY <1>1 DEF OpToRel
<1> QED BY <1>2

Last(data) == Len(data) + MaxFrame + RecHdr

(* There is no whole record at an offset.                                  *)
Ends(data, o) ==
  \/ o + RecHdr > Len(data)
  \/ data[o + 1] > MaxFrame
  \/ o + RecHdr + data[o + 1] > Len(data)

(* What f says of an offset follows from what it says of the next record.  *)
Reads(data, f, o) ==
  f[o] = IF Ends(data, o) THEN << >>
         ELSE <<Slice(data, o + RecHdr, data[o + 1])>> \o f[o + RecHdr + data[o + 1]]

(* The frames from an offset on, as wc_pcap_read has them.                 *)
Rest(data) ==
  CHOOSE From : From = [o \in 0 .. Last(data) |->
        IF o + RecHdr > Len(data) THEN << >>
        ELSE LET n == data[o + 1]
             IN  IF n > MaxFrame \/ o + RecHdr + n > Len(data) THEN << >>
                 ELSE <<Slice(data, o + RecHdr, n)>> \o From[o + RecHdr + n]]

LEMMA RecordsAreRest == \A data : Records(data) = Rest(data)[GlobalHdr]
  BY DEF Records, Rest, Last

(* A slice within a file is a sequence of its cells.                       *)
LEMMA SliceWithin ==
  ASSUME NEW data \in Seq(Nat), NEW at \in Nat, NEW n \in Nat
  PROVE  /\ Slice(data, at, n) \in Seq(Nat)
         /\ Len(Slice(data, at, n))
              = IF at + n <= Len(data) THEN n
                ELSE IF at <= Len(data) THEN Len(data) - at ELSE 0
         /\ \A k \in 1 .. Len(Slice(data, at, n)) :
              at + k <= Len(data) /\ Slice(data, at, n)[k] = data[at + k]
<1> DEFINE last == IF at + n < Len(data) THEN at + n ELSE Len(data)
           s == SubSeq(data, at + 1, last)
<1>1. Len(data) \in Nat /\ at + 1 \in Int /\ last \in Int
  BY LenProperties
<1>2. \A i \in at + 1 .. last : data[i] \in Nat
  BY <1>1, ElementOfSeq
<1>3. /\ s \in Seq(Nat)
      /\ Len(s) = IF at + 1 <= last THEN last - (at + 1) + 1 ELSE 0
      /\ \A i \in 1 .. last - (at + 1) + 1 : s[i] = data[at + 1 + i - 1]
  <2> HIDE DEF last
  <2> QED  BY <1>1, <1>2, SubSeqProperties
<1>4. Slice(data, at, n) = s
  BY DEF Slice
<1> HIDE DEF s
<1>5. Len(s) = IF at + n <= Len(data) THEN n ELSE IF at <= Len(data) THEN Len(data) - at ELSE 0
  <2>1. CASE at + n <= Len(data)
    <3>1. last = at + n
      BY <1>1, <2>1
    <3> HIDE DEF last
    <3> QED  BY <1>3, <2>1, <3>1
  <2>2. CASE ~(at + n <= Len(data))
    <3>1. last = Len(data)
      BY <1>1, <2>2
    <3> HIDE DEF last
    <3> QED  BY <1>1, <1>3, <2>2, <3>1
  <2> QED  BY <2>1, <2>2
<1>6. ASSUME NEW k \in 1 .. Len(s)  PROVE at + k <= Len(data) /\ s[k] = data[at + k]
  <2>1. k \in 1 .. last - (at + 1) + 1 /\ at + 1 + k - 1 = at + k /\ at + k <= Len(data)
    BY <1>1, <1>3
  <2> HIDE DEF last
  <2> QED  BY <1>3, <2>1
<1> QED  BY <1>3, <1>4, <1>5, <1>6

(* From the last offsets down, one record after the other: there are such  *)
(* frames, m of the offsets at the end considered.                         *)
LEMMA RestExists ==
  ASSUME NEW data \in Seq(Nat), NEW m \in 0 .. Last(data) + 1
  PROVE  \E f : \A o \in 0 .. Last(data) : o > Last(data) - m => Reads(data, f, o)
<1> DEFINE end == Last(data)
           Done(n) == \E f : \A o \in 0 .. end : o > end - n => Reads(data, f, o)
           T == {n \in 0 .. end + 1 : ~Done(n)}
<1> SUFFICES ASSUME T # {} PROVE FALSE
  OBVIOUS
<1>0. end \in Nat /\ Len(data) \in Nat /\ end >= Len(data) + 1
  BY LenProperties, PcapAssumption DEF Last, RecHdr
<1> HIDE DEF end
<1>1. T \in SUBSET Nat
  BY <1>0
<1>2. PICK x \in T : \A y \in T : x <= y
  BY <1>1, Least
<1>3. x \in 0 .. end + 1 /\ ~Done(x)
  BY <1>2
<1>4. x # 0
  <2>1. \A o \in 0 .. end : ~(o > end - 0)
    BY <1>0
  <2>2. Done(0)
    BY <2>1
  <2> QED  BY <1>3, <2>2
<1>5. x - 1 \in 0 .. end + 1 /\ ~(x <= x - 1)
  BY <1>0, <1>3, <1>4
<1>6. Done(x - 1)
  BY <1>2, <1>5
<1>7. PICK f : \A o \in 0 .. end : o > end - (x - 1) => Reads(data, f, o)
  BY <1>6
<1> DEFINE at == end - x + 1
           new == IF Ends(data, at) THEN << >>
                  ELSE <<Slice(data, at + RecHdr, data[at + 1])>> \o f[at + RecHdr + data[at + 1]]
           g == [o \in 0 .. end |-> IF o = at THEN new ELSE f[o]]
<1>8. at \in 0 .. end
  BY <1>0, <1>3, <1>4
<1>9. ASSUME NEW o \in 0 .. end, ~Ends(data, o)
      PROVE  o + RecHdr + data[o + 1] \in 0 .. end /\ o + RecHdr + data[o + 1] > o
  <2>1. o + 1 \in 1 .. Len(data)
    BY <1>0, <1>9 DEF Ends, RecHdr
  <2>2. data[o + 1] \in Nat
    BY <2>1, ElementOfSeq
  <2> QED  BY <1>0, <1>9, <2>2 DEF Ends, RecHdr
<1> HIDE DEF new
<1>10. ASSUME NEW o \in 0 .. end, o > end - x  PROVE Reads(data, g, o)
  <2>1. o >= at
    BY <1>0, <1>3, <1>10
  <2> HIDE DEF at
  <2>2. ASSUME ~Ends(data, o)
        PROVE  g[o + RecHdr + data[o + 1]] = f[o + RecHdr + data[o + 1]]
    <3>1. o + RecHdr + data[o + 1] \in 0 .. end /\ o + RecHdr + data[o + 1] > o
      BY <1>9, <2>2
    <3>2. o + RecHdr + data[o + 1] # at
      BY <1>8, <2>1, <3>1
    <3> QED  BY <3>1, <3>2
  <2>3. CASE o = at
    <3>1. g[o] = new
      BY <2>3
    <3> QED  BY <2>2, <2>3, <3>1 DEF Reads, new
  <2>4. CASE o # at
    <3>1. o > end - (x - 1)
      BY <1>0, <1>3, <2>1, <2>4 DEF at
    <3>2. Reads(data, f, o) /\ g[o] = f[o]
      BY <1>7, <2>4, <3>1
    <3> HIDE DEF g
    <3> QED  BY <2>2, <3>2 DEF Reads
  <2> QED  BY <2>3, <2>4
<1> HIDE DEF g
<1>11. Done(x)
  BY <1>10
<1> QED  BY <1>3, <1>11

LEMMA RestReads ==
  ASSUME NEW data \in Seq(Nat), NEW o \in 0 .. Last(data)
  PROVE  Reads(data, Rest(data), o)
<1> DEFINE S == 0 .. Last(data)
           Def(f) == [p \in S |->
             IF p + RecHdr > Len(data) THEN << >>
             ELSE LET n == data[p + 1]
                  IN  IF n > MaxFrame \/ p + RecHdr + n > Len(data) THEN << >>
                      ELSE <<Slice(data, p + RecHdr, n)>> \o f[p + RecHdr + n]]
<1>0. Last(data) \in Nat /\ Len(data) \in Nat
  BY LenProperties, PcapAssumption DEF Last, RecHdr
<1>1. PICK f : \A p \in S : Reads(data, f, p)
  <2>1. Last(data) + 1 \in 0 .. Last(data) + 1
    BY <1>0
  <2>2. \E f : \A p \in 0 .. Last(data) : p > Last(data) - (Last(data) + 1) => Reads(data, f, p)
    BY <2>1, RestExists
  <2>3. \A p \in S : p > Last(data) - (Last(data) + 1)
    BY <1>0
  <2> QED  BY <2>2, <2>3
<1> DEFINE g == [p \in S |-> f[p]]
<1>2. ASSUME NEW p \in S, ~Ends(data, p)  PROVE p + RecHdr + data[p + 1] \in S
  <2>1. p + 1 \in 1 .. Len(data)
    BY <1>0, <1>2 DEF Ends, RecHdr
  <2>2. data[p + 1] \in Nat
    BY <2>1, ElementOfSeq
  <2> QED  BY <1>0, <1>2, <2>2, PcapAssumption DEF Ends, RecHdr, Last
<1>3. \A p \in S : g[p] = Def(g)[p]
  <2> SUFFICES ASSUME NEW p \in S  PROVE g[p] = Def(g)[p]
    OBVIOUS
  <2>1. g[p] = IF Ends(data, p) THEN << >>
               ELSE <<Slice(data, p + RecHdr, data[p + 1])>> \o g[p + RecHdr + data[p + 1]]
    BY <1>1, <1>2 DEF Reads
  <2> HIDE DEF g
  <2>2. Def(g)[p] = IF Ends(data, p) THEN << >>
               ELSE <<Slice(data, p + RecHdr, data[p + 1])>> \o g[p + RecHdr + data[p + 1]]
    BY DEF Ends
  <2> QED  BY <2>1, <2>2
<1>4. g = Def(g)
  BY <1>3
<1> HIDE DEF g
<1>5. Rest(data) = Def(Rest(data))
  BY <1>4 DEF Rest
<1>6. Rest(data)[o] = Def(Rest(data))[o]
  BY <1>5
<1> QED  BY <1>6 DEF Reads, Ends

(* The frames from an offset on are frames of the file.                    *)
LEMMA RestFrames ==
  ASSUME NEW data \in Seq(Nat), NEW o \in 0 .. Last(data)
  PROVE  Rest(data)[o] \in Seq(Seq(Nat))
<1> DEFINE end == Last(data)
           T == {n \in 0 .. end : Rest(data)[end - n] \notin Seq(Seq(Nat))}
<1>0. end \in Nat /\ Len(data) \in Nat /\ end >= Len(data) + 1
  BY LenProperties, PcapAssumption DEF Last, RecHdr
<1>1. T = {}
  <2> SUFFICES ASSUME T # {} PROVE FALSE
    OBVIOUS
  <2> HIDE DEF end
  <2>1. T \in SUBSET Nat
    BY <1>0
  <2>2. PICK x \in T : \A y \in T : x <= y
    BY <2>1, Least
  <2> DEFINE p == end - x
             next == p + RecHdr + data[p + 1]
  <2>3. x \in 0 .. end /\ p \in 0 .. end /\ Rest(data)[p] \notin Seq(Seq(Nat))
    BY <1>0, <2>2
  <2>4. Reads(data, Rest(data), p)
    BY <2>3, RestReads DEF end
  <2> HIDE DEF p
  <2>5. CASE Ends(data, p)
    BY <2>3, <2>4, <2>5, EmptySeq DEF Reads
  <2>6. CASE ~Ends(data, p)
    <3>1. p + 1 \in 1 .. Len(data)
      BY <1>0, <2>3, <2>6 DEF Ends, RecHdr
    <3>2. data[p + 1] \in Nat
      BY <3>1, ElementOfSeq
    <3>3. next \in 0 .. end /\ next > p
      BY <1>0, <2>3, <2>6, <3>2 DEF Ends, RecHdr
    <3>4. end - next \in 0 .. end /\ end - (end - next) = next /\ ~(x <= end - next)
      BY <1>0, <2>3, <3>3 DEF p
    <3>5. Rest(data)[next] \in Seq(Seq(Nat))
      BY <2>2, <3>4
    <3>6. Slice(data, p + RecHdr, data[p + 1]) \in Seq(Nat)
      <4>1. p + RecHdr \in Nat
        BY <1>0, <2>3 DEF RecHdr
      <4>2. \A at \in Nat, n \in Nat : Slice(data, at, n) \in Seq(Nat)
        BY SliceWithin
      <4> QED  BY <3>2, <4>1, <4>2
    <3>7. <<Slice(data, p + RecHdr, data[p + 1])>> \in Seq(Seq(Nat))
      BY <3>6
    <3>8. <<Slice(data, p + RecHdr, data[p + 1])>> \o Rest(data)[next] \in Seq(Seq(Nat))
      BY <3>5, <3>7, ConcatProperties
    <3> QED  BY <2>3, <2>4, <2>6, <3>8 DEF Reads
  <2> QED  BY <2>5, <2>6
<1>2. end - o \in 0 .. end /\ end - (end - o) = o
  BY <1>0
<1> QED  BY <1>1, <1>2

-----------------------------------------------------------------------------
(* The window.                                                             *)

(* The window has the cells of the file from base on.                      *)
WindowInv ==
  /\ base \in Nat /\ buf \in Seq(Nat) /\ valid = Len(buf)
  /\ \A k \in 1 .. valid : base + k <= Len(file) /\ buf[k] = file[base + k]

CellsOf(data, b, cells) ==
  \A k \in 1 .. Len(cells) : b + k <= Len(data) /\ cells[k] = data[b + k]
SliceOf(data, at, need, x) ==
  /\ at + need <= Len(data)
  /\ x \in Seq(Nat) /\ Len(x) = need
  /\ \A k \in 1 .. need : x[k] = data[at + k]

(* What a window that has them gives are cells of the file.                *)
LEMMA WithinWindow ==
  ASSUME NEW data \in Seq(Nat), NEW b \in Nat, NEW cells \in Seq(Nat),
         CellsOf(data, b, cells), NEW at \in Nat, at <= Len(data), NEW need \in Nat,
         at >= b, at + need <= b + Len(cells),
         NEW x, x = SubSeq(cells, at - b + 1, at - b + need)
  PROVE  SliceOf(data, at, need, x)
<1>1. Len(data) \in Nat /\ Len(cells) \in Nat
  BY LenProperties
<1>2. at + need <= Len(data)
  <2>1. CASE need = 0
    BY <1>1, <2>1
  <2>2. CASE need > 0
    <3>1. Len(cells) \in 1 .. Len(cells)
      BY <1>1, <2>2
    <3>2. b + Len(cells) <= Len(data)
      BY <3>1 DEF CellsOf
    <3> QED  BY <1>1, <3>2
  <2> QED  BY <2>1, <2>2
<1> DEFINE from == at - b + 1
           to == at - b + need
<1>3. from \in Int /\ to \in Int /\ from >= 1 /\ to <= Len(cells) /\ to - from + 1 = need
  BY <1>1
<1>4. \A k \in 1 .. need : /\ from + k - 1 \in 1 .. Len(cells)
                           /\ b + (from + k - 1) = at + k
  BY <1>1
<1> HIDE DEF from, to
<1>5. \A i \in from .. to : cells[i] \in Nat
  BY <1>1, <1>3, ElementOfSeq
<1>6. /\ SubSeq(cells, from, to) \in Seq(Nat)
      /\ Len(SubSeq(cells, from, to)) = IF from <= to THEN to - from + 1 ELSE 0
      /\ \A i \in 1 .. to - from + 1 : SubSeq(cells, from, to)[i] = cells[from + i - 1]
  BY <1>3, <1>5, SubSeqProperties
<1>7. Len(SubSeq(cells, from, to)) = need
  BY <1>3, <1>6
<1>8. \A k \in 1 .. need : SubSeq(cells, from, to)[k] = data[at + k]
  BY <1>3, <1>4, <1>6 DEF CellsOf
<1> QED  BY <1>2, <1>6, <1>7, <1>8 DEF from, to, SliceOf

(* Whatever window_hold did, the window has the cells of the file; when it *)
(* has those asked for they are in the file, and when it does not, and no  *)
(* pull failed, the file is not that long.                                 *)
LEMMA WindowHolds ==
  ASSUME file \in Seq(Nat), file' = file, WindowInv, faults \in Nat,
         NEW at \in Nat, at <= Len(file), NEW need \in Nat, need <= Window,
         window_hold(at, need)
  PROVE  /\ WindowInv' /\ faults' \in Nat /\ (faults' = 0 => faults = 0)
         /\ Held(at, need) =>
              /\ at + need <= Len(file)
              /\ InWindow(at, need) \in Seq(Nat) /\ Len(InWindow(at, need)) = need
              /\ \A k \in 1 .. need : InWindow(at, need)[k] = file[at + k]
         /\ ~Held(at, need) /\ faults' = 0 => at + need > Len(file)
<1>1. Len(file) \in Nat /\ MaxFrame \in Nat /\ Window \in Nat
  BY LenProperties, PcapAssumption DEF Window, RecHdr, GlobalHdr
<1>2. /\ WindowInv' /\ faults' \in Nat /\ (faults' = 0 => faults = 0)
      /\ ~Held(at, need) /\ faults' = 0 => at + need > Len(file)
  <2>1. CASE Holds(at, need)
    <3>1. UNCHANGED <<base, valid, buf, faults>>
      BY <2>1 DEF window_hold, windowVars
    <3> QED  BY <2>1, <3>1 DEF Holds, Held, WindowInv
  <2>2. CASE ~Holds(at, need) /\ buf' = Slice(file, at, Window) /\ UNCHANGED faults
    <3>1. base' = at /\ valid' = Len(buf')
      BY <2>2 DEF window_hold
    <3>2. /\ buf' \in Seq(Nat)
          /\ Len(buf') = IF at + Window <= Len(file) THEN Window ELSE Len(file) - at
          /\ \A k \in 1 .. Len(buf') : at + k <= Len(file) /\ buf'[k] = file[at + k]
      <4> DEFINE s == Slice(file, at, Window)
      <4>1. /\ s \in Seq(Nat)
            /\ Len(s) = IF at + Window <= Len(file) THEN Window
                       ELSE IF at <= Len(file) THEN Len(file) - at ELSE 0
            /\ \A k \in 1 .. Len(s) : at + k <= Len(file) /\ s[k] = file[at + k]
        BY <1>1, SliceWithin
      <4> QED  BY <2>2, <4>1
    <3>3. WindowInv'
      BY <3>1, <3>2 DEF WindowInv
    <3>4. ~Held(at, need) => at + need > Len(file)
      BY <1>1, <3>1, <3>2 DEF Held
    <3> QED  BY <2>2, <3>3, <3>4
  <2>3. CASE ~Holds(at, need) /\ buf' = << >> /\ faults' = faults + 1
    <3>1. base' = at /\ valid' = Len(buf') /\ Len(buf') = 0 /\ buf' \in Seq(Nat)
      BY <2>3 DEF window_hold
    <3>2. WindowInv'
      BY <3>1 DEF WindowInv
    <3> QED  BY <2>3, <3>2
  <2> QED  BY <2>1, <2>2, <2>3 DEF window_hold
<1>3. ASSUME Held(at, need)
      PROVE  /\ at + need <= Len(file)
             /\ InWindow(at, need) \in Seq(Nat) /\ Len(InWindow(at, need)) = need
             /\ \A k \in 1 .. need : InWindow(at, need)[k] = file[at + k]
  <2>1. PICK b \in Nat : b = base'
    BY <1>2 DEF WindowInv
  <2>2. PICK cells \in Seq(Nat) : cells = buf'
    BY <1>2 DEF WindowInv
  <2>3. /\ Len(cells) \in Nat /\ at >= b /\ at + need <= b + Len(cells)
        /\ \A k \in 1 .. Len(cells) : b + k <= Len(file) /\ cells[k] = file[b + k]
    BY <1>2, <1>3, <2>1, <2>2, LenProperties DEF WindowInv, Held
  <2>4. InWindow(at, need) = SubSeq(cells, at - b + 1, at - b + need)
    BY <2>1, <2>2 DEF InWindow
  <2>5. PICK x : x = SubSeq(cells, at - b + 1, at - b + need)
    OBVIOUS
  <2>6. CellsOf(file, b, cells)
    BY <2>3 DEF CellsOf
  <2>7. SliceOf(file, at, need, x)
    BY <2>3, <2>5, <2>6, WithinWindow
  <2> QED  BY <2>4, <2>5, <2>7 DEF SliceOf
<1> QED  BY <1>2, <1>3

-----------------------------------------------------------------------------
(* The reader.                                                             *)

TypeInv ==
  /\ file \in Seq(Nat) /\ off \in Nat /\ off <= Len(file) /\ incl \in Nat
  /\ frames \in Seq(Seq(Nat)) /\ faults \in Nat
  /\ step \in {"Global", "Record", "Frame", "Done"}

All == IF Accepted(file) THEN Records(file) ELSE << >>

(* The frames from an offset on are what is missing from all of them.      *)
Left(o) == Accepted(file) /\ result = TRUE /\ Records(file) = frames \o Rest(file)[o]

ReaderInv ==
  /\ step = "Global" => frames = << >> /\ result = FALSE
  /\ step = "Record" => Left(off)
  /\ step = "Frame" => off >= 1 /\ incl = file[off] /\ incl <= MaxFrame /\ Left(off - 1)
  /\ step = "Done" => /\ \E rest \in Seq(Seq(Nat)) : All = frames \o rest
                      /\ faults = 0 => frames = All /\ result = Accepted(file)

IInv == TypeInv /\ WindowInv /\ ReaderInv

(* Where no whole record is, nothing is missing.                           *)
LEMMA LeftProperties ==
  ASSUME TypeInv, NEW o \in 0 .. Len(file), Left(o)
  PROVE  /\ Rest(file)[o] \in Seq(Seq(Nat))
         /\ All = frames \o Rest(file)[o]
         /\ Ends(file, o) => frames = All
<1>1. o \in 0 .. Last(file)
  BY LenProperties, PcapAssumption DEF TypeInv, Last, RecHdr
<1>2. /\ Rest(file)[o] \in Seq(Seq(Nat))
      /\ Ends(file, o) => Rest(file)[o] = << >>
  BY <1>1, RestFrames, RestReads DEF TypeInv, Reads
<1>3. All = frames \o Rest(file)[o]
  BY DEF All, Left
<1>4. frames \o << >> = frames
  BY ConcatEmptySeq DEF TypeInv
<1> QED  BY <1>2, <1>3, <1>4

LEMMA GlobalStep == IInv /\ ReadGlobal => IInv'
<1> SUFFICES ASSUME IInv, ReadGlobal  PROVE IInv'
  OBVIOUS
<1>1. /\ step = "Global" /\ window_hold(0, GlobalHdr)
      /\ file' = file /\ incl' = incl /\ frames' = frames
  BY DEF ReadGlobal
<1>2. /\ file \in Seq(Nat) /\ Len(file) \in Nat /\ frames = << >> /\ result = FALSE
      /\ faults \in Nat /\ MaxFrame \in Nat /\ off \in Nat /\ off <= Len(file) /\ incl \in Nat
  BY <1>1, LenProperties, PcapAssumption DEF IInv, TypeInv, ReaderInv
<1>3. /\ WindowInv' /\ faults' \in Nat
      /\ Held(0, GlobalHdr) =>
           /\ 0 + GlobalHdr <= Len(file)
           /\ \A k \in 1 .. GlobalHdr : InWindow(0, GlobalHdr)[k] = file[0 + k]
      /\ ~Held(0, GlobalHdr) /\ faults' = 0 => 0 + GlobalHdr > Len(file)
  <2>1. GlobalHdr \in Nat /\ GlobalHdr <= Window /\ 0 <= Len(file)
    BY <1>2 DEF GlobalHdr, Window, RecHdr
  <2> QED  BY <1>1, <1>2, <2>1, WindowHolds DEF IInv
<1>4. /\ Held(0, GlobalHdr) =>
           /\ Len(file) >= 2
           /\ InWindow(0, 2)[1] = file[1] /\ InWindow(0, 2)[2] = file[2]
      /\ ~Held(0, GlobalHdr) /\ faults' = 0 => ~(Len(file) >= 2)
  BY <1>2, <1>3 DEF GlobalHdr
<1>5. Len(file) >= 2 => Rest(file)[2] \in Seq(Seq(Nat)) /\ Records(file) = Rest(file)[2]
  <2>1. Len(file) >= 2 => 2 \in 0 .. Last(file)
    BY <1>2 DEF Last, RecHdr
  <2> QED  BY <1>2, <2>1, RecordsAreRest, RestFrames DEF GlobalHdr
<1>6. Accepted(file) <=> Len(file) >= 2 /\ IsPcap(file[1], file[2])
  BY DEF Accepted, GlobalHdr
<1>7. << >> \in Seq(Seq(Nat)) /\ All \in Seq(Seq(Nat)) /\ << >> \o All = All
      /\ (Len(file) >= 2 => << >> \o Rest(file)[2] = Rest(file)[2])
  <2>1. << >> \in Seq(Seq(Nat))
    BY EmptySeq
  <2>2. All \in Seq(Seq(Nat))
    BY <1>5, <1>6, <2>1 DEF All
  <2> QED  BY <1>5, <2>1, <2>2, ConcatEmptySeq
<1>8. CASE Held(0, GlobalHdr) /\ IsPcap(InWindow(0, 2)[1], InWindow(0, 2)[2])
  <2>1. step' = "Record" /\ off' = 2 /\ result' = TRUE
    BY <1>8 DEF ReadGlobal, GlobalHdr
  <2>2. Accepted(file) /\ Len(file) >= 2
    BY <1>4, <1>6, <1>8
  <2>3. Left(off)'
    BY <1>1, <1>2, <1>5, <1>7, <2>1, <2>2 DEF Left
  <2>4. ReaderInv'
    BY <2>1, <2>3 DEF ReaderInv
  <2>5. TypeInv'
    BY <1>1, <1>2, <1>3, <1>7, <2>1, <2>2 DEF TypeInv
  <2> QED  BY <1>3, <2>4, <2>5 DEF IInv
<1>9. CASE ~(Held(0, GlobalHdr) /\ IsPcap(InWindow(0, 2)[1], InWindow(0, 2)[2]))
  <2>1. step' = "Done" /\ off' = off /\ result' = result
    BY <1>9 DEF ReadGlobal
  <2>2. faults' = 0 => ~Accepted(file)
    BY <1>4, <1>6, <1>9
  <2>3. All' = All
    BY <1>1 DEF All
  <2>4. \E rest \in Seq(Seq(Nat)) : All' = frames' \o rest
    BY <1>1, <1>2, <1>7, <2>3
  <2>5. faults' = 0 => frames' = All' /\ result' = Accepted(file')
    <3>1. ~Accepted(file) => All = << >> /\ Accepted(file) = FALSE
      BY DEF All, Accepted, IsPcap
    <3> QED  BY <1>1, <1>2, <2>1, <2>2, <2>3, <3>1
  <2>6. ReaderInv'
    BY <2>1, <2>4, <2>5 DEF ReaderInv
  <2>7. TypeInv'
    BY <1>1, <1>2, <1>3, <1>7, <2>1 DEF TypeInv
  <2> QED  BY <1>3, <2>6, <2>7 DEF IInv
<1> QED  BY <1>8, <1>9

(* The loop ends where the frames do, or where a pull failed.              *)
LEMMA DoneStep ==
  ASSUME TypeInv, NEW o \in 0 .. Len(file), Left(o), file' = file, frames' = frames,
         result' = result, step' = "Done", faults' = 0 => Ends(file, o)
  PROVE  ReaderInv'
<1>1. All' = All
  BY DEF All
<1>2. \E rest \in Seq(Seq(Nat)) : All' = frames' \o rest
  BY <1>1, LeftProperties
<1>3. faults' = 0 => frames' = All' /\ result' = Accepted(file')
  BY <1>1, LeftProperties DEF Left
<1> QED  BY <1>2, <1>3 DEF ReaderInv

LEMMA RecordStep == IInv /\ ReadRecord => IInv'
<1> SUFFICES ASSUME IInv, ReadRecord  PROVE IInv'
  OBVIOUS
<1>1. /\ step = "Record" /\ window_hold(off, RecHdr)
      /\ file' = file /\ result' = result /\ frames' = frames
  BY DEF ReadRecord
<1>2. /\ file \in Seq(Nat) /\ Len(file) \in Nat /\ off \in 0 .. Len(file) /\ off \in Nat
      /\ faults \in Nat /\ MaxFrame \in Nat /\ incl \in Nat /\ frames \in Seq(Seq(Nat))
      /\ Left(off) /\ TypeInv
  BY <1>1, LenProperties, PcapAssumption DEF IInv, TypeInv, ReaderInv
<1>3. /\ WindowInv' /\ faults' \in Nat
      /\ Held(off, RecHdr) =>
           /\ off + RecHdr <= Len(file)
           /\ \A k \in 1 .. RecHdr : InWindow(off, RecHdr)[k] = file[off + k]
      /\ ~Held(off, RecHdr) /\ faults' = 0 => off + RecHdr > Len(file)
  <2>1. RecHdr \in Nat /\ RecHdr <= Window
    BY <1>2 DEF GlobalHdr, Window, RecHdr
  <2> QED  BY <1>1, <1>2, <2>1, WindowHolds DEF IInv
<1>4. CASE Held(off, RecHdr)
  <2>1. off + 1 <= Len(file) /\ incl' = file[off + 1] /\ off' = off + 1
    BY <1>2, <1>3, <1>4 DEF ReadRecord, RecHdr
  <2>2. incl' \in Nat /\ off' \in Nat /\ off' <= Len(file')
    BY <1>1, <1>2, <2>1, ElementOfSeq
  <2>3. step' = IF incl' > MaxFrame THEN "Done" ELSE "Frame"
    BY <1>4 DEF ReadRecord
  <2>4. CASE incl' > MaxFrame
    <3>1. Ends(file, off)
      BY <2>1, <2>4 DEF Ends
    <3> QED  BY <1>1, <1>2, <1>3, <2>2, <2>3, <2>4, <3>1, DoneStep DEF IInv, TypeInv
  <2>5. CASE ~(incl' > MaxFrame)
    <3>1. off' >= 1 /\ incl' = file'[off'] /\ incl' <= MaxFrame /\ off' - 1 = off
      BY <1>1, <1>2, <2>1, <2>2, <2>5
    <3>2. Left(off - 1)'
      BY <1>1, <1>2, <3>1 DEF Left
    <3>3. ReaderInv'
      BY <2>3, <2>5, <3>1, <3>2 DEF ReaderInv
    <3> QED  BY <1>1, <1>2, <1>3, <2>2, <2>3, <2>5, <3>3 DEF IInv, TypeInv
  <2> QED  BY <2>4, <2>5
<1>5. CASE ~Held(off, RecHdr)
  <2>1. step' = "Done" /\ incl' = incl /\ off' = off
    BY <1>5 DEF ReadRecord
  <2>2. faults' = 0 => Ends(file, off)
    BY <1>3, <1>5 DEF Ends
  <2>3. ReaderInv'
    BY <1>1, <1>2, <2>1, <2>2, DoneStep
  <2> QED  BY <1>1, <1>2, <1>3, <2>1, <2>3 DEF IInv, TypeInv
<1> QED  BY <1>4, <1>5

LEMMA FrameStep == IInv /\ ReadFrame => IInv'
<1> SUFFICES ASSUME IInv, ReadFrame  PROVE IInv'
  OBVIOUS
<1>1. /\ step = "Frame" /\ window_hold(off, incl)
      /\ file' = file /\ result' = result /\ incl' = incl
  BY DEF ReadFrame
<1>2. /\ file \in Seq(Nat) /\ Len(file) \in Nat /\ off \in Nat /\ off <= Len(file)
      /\ faults \in Nat /\ MaxFrame \in Nat /\ incl \in Nat /\ frames \in Seq(Seq(Nat))
      /\ TypeInv
      /\ off >= 1 /\ incl = file[off] /\ incl <= MaxFrame /\ Left(off - 1)
  BY <1>1, LenProperties, PcapAssumption DEF IInv, TypeInv, ReaderInv
<1>3. /\ WindowInv' /\ faults' \in Nat
      /\ Held(off, incl) =>
           /\ off + incl <= Len(file)
           /\ InWindow(off, incl) \in Seq(Nat) /\ Len(InWindow(off, incl)) = incl
           /\ \A k \in 1 .. incl : InWindow(off, incl)[k] = file[off + k]
      /\ ~Held(off, incl) /\ faults' = 0 => off + incl > Len(file)
  <2>1. incl <= Window
    BY <1>2 DEF GlobalHdr, Window, RecHdr
  <2> QED  BY <1>1, <1>2, <2>1, WindowHolds DEF IInv
<1>4. off - 1 \in 0 .. Len(file) /\ (off - 1) + RecHdr = off /\ (off - 1) + 1 = off
  BY <1>2 DEF RecHdr
<1>5. CASE Held(off, incl)
  <2> DEFINE x == InWindow(off, incl)
             rest == Rest(file)[off + incl]
  <2>1. step' = "Record" /\ off' = off + incl /\ frames' = Append(frames, x)
    BY <1>5 DEF ReadFrame
  <2>2. /\ off + incl <= Len(file) /\ x \in Seq(Nat) /\ Len(x) = incl
        /\ \A k \in 1 .. incl : x[k] = file[off + k]
    BY <1>3, <1>5
  <2>3. x = Slice(file, off, incl)
    <3>1. /\ Slice(file, off, incl) \in Seq(Nat) /\ Len(Slice(file, off, incl)) = incl
          /\ \A k \in 1 .. incl : Slice(file, off, incl)[k] = file[off + k]
      BY <1>2, <2>2, SliceWithin
    <3> HIDE DEF x
    <3> QED  BY <2>2, <3>1, SeqEqual
  <2> HIDE DEF x
  <2>4. ~Ends(file, off - 1)
    BY <1>2, <1>4, <2>2 DEF Ends
  <2>5. off - 1 \in 0 .. Last(file) /\ off + incl \in 0 .. Last(file)
    <3>1. off - 1 \in Nat /\ off + incl \in Nat /\ off + incl <= Len(file)
      BY <1>2, <2>2
    <3> QED  BY <1>2, <3>1 DEF Last, RecHdr
  <2>6. Rest(file)[off - 1] = <<x>> \o rest /\ rest \in Seq(Seq(Nat))
    BY <1>2, <1>4, <2>3, <2>4, <2>5, RestReads, RestFrames DEF Reads
  <2> HIDE DEF rest
  <2>7. frames \o (<<x>> \o rest) = Append(frames, x) \o rest
    <3>1. <<x>> \in Seq(Seq(Nat))
      BY <2>2
    <3>2. Append(frames, x) = frames \o <<x>>
      BY <1>2, <2>2, AppendIsConcat
    <3>3. \A s, t, u \in Seq(Seq(Nat)) : (s \o t) \o u = s \o (t \o u)
      BY ConcatAssociative
    <3>4. (frames \o <<x>>) \o rest = frames \o (<<x>> \o rest)
      BY <1>2, <2>6, <3>1, <3>3
    <3> QED  BY <3>2, <3>4
  <2>8. Left(off)'
    BY <1>1, <1>2, <2>1, <2>6, <2>7 DEF Left, rest
  <2>9. ReaderInv'
    BY <2>1, <2>8 DEF ReaderInv
  <2>10. TypeInv'
    <3>1. frames' \in Seq(Seq(Nat))
      BY <1>2, <2>1, <2>2, AppendProperties
    <3> QED  BY <1>1, <1>2, <1>3, <2>1, <2>2, <3>1 DEF TypeInv
  <2> QED  BY <1>3, <2>9, <2>10 DEF IInv
<1>6. CASE ~Held(off, incl)
  <2>1. step' = "Done" /\ frames' = frames /\ off' = off
    BY <1>6 DEF ReadFrame
  <2>2. faults' = 0 => Ends(file, off - 1)
    BY <1>2, <1>3, <1>4, <1>6 DEF Ends
  <2>3. ReaderInv'
    BY <1>1, <1>2, <1>4, <2>1, <2>2, DoneStep
  <2> QED  BY <1>1, <1>2, <1>3, <2>1, <2>3 DEF IInv, TypeInv
<1> QED  BY <1>5, <1>6

(* The invariant of the import, for a pcap of any length.                  *)
THEOREM Invariance == Spec => []IInv
<1>1. Init => IInv
  <2> SUFFICES ASSUME Init  PROVE IInv
    OBVIOUS
  <2>1. file \in Seq(Nat) /\ Len(file) \in Nat
    BY LenProperties, PcapAssumption DEF Init
  <2>2. << >> \in Seq(Nat) /\ << >> \in Seq(Seq(Nat)) /\ Len(<< >>) = 0
    BY EmptySeq
  <2> QED  BY <2>1, <2>2 DEF Init, IInv, TypeInv, WindowInv, ReaderInv
<1>2. IInv /\ UNCHANGED vars => IInv'
  BY DEF IInv, vars, windowVars, TypeInv, WindowInv, ReaderInv, Left, All
<1> QED  BY <1>1, <1>2, GlobalStep, RecordStep, FrameStep, PTL DEF Spec, Next

(* The import hands over the frames that a reader of the whole file has,   *)
(* in their order, and all of them unless a pull failed, wherever the      *)
(* records fall on the window.                                             *)
THEOREM ReadersAgree == Spec => []SameFrames
<1>1. IInv => \E rest \in Seq(Seq(Nat)) : All = frames \o rest
  <2> SUFFICES ASSUME IInv  PROVE \E rest \in Seq(Seq(Nat)) : All = frames \o rest
    OBVIOUS
  <2>1. /\ Len(file) \in Nat /\ off \in Nat /\ off <= Len(file) /\ TypeInv
        /\ file \in Seq(Nat) /\ MaxFrame \in Nat
    BY LenProperties, PcapAssumption DEF IInv, TypeInv
  <2>2. CASE step = "Global"
    <3>1. frames = << >>
      BY <2>2 DEF IInv, ReaderInv
    <3>2. All \in Seq(Seq(Nat))
      <4>1. Accepted(file) => 2 \in 0 .. Last(file)
        BY <2>1 DEF Accepted, Last, RecHdr, GlobalHdr
      <4> QED  BY <2>1, <4>1, RecordsAreRest, RestFrames, EmptySeq DEF All, GlobalHdr
    <3>3. << >> \o All = All
      BY <3>2, ConcatEmptySeq
    <3> QED  BY <3>1, <3>2, <3>3
  <2>3. CASE step = "Record"
    <3>1. Left(off) /\ off \in 0 .. Len(file)
      BY <2>1, <2>3 DEF IInv, ReaderInv
    <3> QED  BY <2>1, <3>1, LeftProperties
  <2>4. CASE step = "Frame"
    <3>1. Left(off - 1) /\ off - 1 \in 0 .. Len(file)
      BY <2>1, <2>4 DEF IInv, ReaderInv
    <3> QED  BY <2>1, <3>1, LeftProperties
  <2>5. CASE step = "Done"
    BY <2>5 DEF IInv, ReaderInv
  <2> QED  BY <2>2, <2>3, <2>4, <2>5 DEF IInv, TypeInv
<1>2. IInv => SameFrames
  <2> SUFFICES ASSUME IInv  PROVE SameFrames
    OBVIOUS
  <2>1. PICK rest \in Seq(Seq(Nat)) : All = frames \o rest
    BY <1>1
  <2>2. frames \in Seq(Seq(Nat)) /\ Len(frames) \in Nat /\ Len(rest) \in Nat
    BY LenProperties DEF IInv, TypeInv
  <2>3. /\ All \in Seq(Seq(Nat)) /\ Len(All) = Len(frames) + Len(rest)
        /\ \A k \in 1 .. Len(frames) : All[k] = frames[k]
    <3>1. /\ frames \o rest \in Seq(Seq(Nat)) /\ Len(frames \o rest) = Len(frames) + Len(rest)
          /\ \A k \in 1 .. Len(frames) + Len(rest) :
               (frames \o rest)[k] = IF k <= Len(frames) THEN frames[k] ELSE rest[k - Len(frames)]
      BY <2>2, ConcatProperties
    <3> QED  BY <2>1, <2>2, <3>1
  <2>4. frames = SubSeq(All, 1, Len(frames))
    <3>1. \A k \in 1 .. Len(frames) : All[k] \in Seq(Nat)
      BY <2>2, <2>3, ElementOfSeq
    <3>2. /\ SubSeq(All, 1, Len(frames)) \in Seq(Seq(Nat))
          /\ Len(SubSeq(All, 1, Len(frames))) = Len(frames)
          /\ \A k \in 1 .. Len(frames) : SubSeq(All, 1, Len(frames))[k] = All[k]
      BY <2>2, <3>1, SubSeqProperties
    <3> QED  BY <2>2, <2>3, <3>2, SeqEqual
  <2>5. step = "Done" /\ faults = 0 => frames = All /\ result = Accepted(file)
    BY DEF IInv, ReaderInv
  <2>6. Len(frames) <= Len(All)
    BY <2>2, <2>3
  <2> QED  BY <2>4, <2>5, <2>6 DEF SameFrames, All
<1> QED  BY <1>2, Invariance, PTL
=============================================================================
