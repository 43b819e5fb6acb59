---------------------------- MODULE WcKnownProofs -----------------------------
(***************************************************************************)
(* Theorems about the registry of known devices (WcKnown), for every       *)
(* number of rules, every file found on the card and every number of       *)
(* calls that fail.                                                        *)
(*                                                                         *)
(* The registry is edited in four steps, each of which may fail: what the  *)
(* proofs follow is where the edit under way has brought the rules.        *)
(***************************************************************************)
EXTENDS WcKnown, SequenceTheorems, TLAPS

-----------------------------------------------------------------------------
(* The inductive invariant.                                                *)

Edits == {"Ssid", "Device", "Rename", "Remove"}
Durable == {d \in Devices : ~d.random \/ d.ssids # << >>}

EditJobs == [step : {"Load", "Save", "Reload"}, edit : Edits, of : Devices \cup Networks \cup Nat,
             label : Labels \cup {0}, db : Seq(Cell), ok : BOOLEAN]

(* The stacks: the screens a capture or the registry leads to, and where   *)
(* each of them goes from there.                                           *)
Scenes == {"Start", "Detail", "Networks", "Known", "KnownActions", "MarkLabel", "Msg"}

StackOK ==
  /\ stack \in Seq(Scenes) /\ Len(stack) \in 1 .. 5
  /\ stack[1] = "Start"
  /\ Len(stack) >= 2 => stack[2] \in {"Detail", "Networks", "Known"}
  /\ Len(stack) >= 3 => stack[3] = IF stack[2] = "Known" THEN "KnownActions" ELSE "MarkLabel"
  /\ Len(stack) >= 4 => stack[4] = IF stack[2] = "Known" THEN "MarkLabel" ELSE "Msg"
  /\ Len(stack) = 5 => stack[2] = "Known" /\ stack[5] = "Msg"

TypeOK ==
  /\ Cells(Registry) \in Seq(Cell)
  /\ original \in Registries
  /\ faults \in Nat
  /\ StackOK
  /\ job = Idle \/ job \in EditJobs

OnRule == Len(stack) >= 3 /\ stack[2] = "Known"

(* What the label is for is what the screens below it offered.             *)
ChoiceOK ==
  /\ Len(stack) >= 3 /\ stack[2] = "Detail" => chosen[1] = "Device" /\ chosen[2] \in Durable
  /\ Len(stack) >= 3 /\ stack[2] = "Networks" => chosen[1] = "Ssid" /\ chosen[2] \in Networks
  /\ OnRule => row \in Nat \ {0}
  /\ Len(stack) >= 4 /\ stack[2] = "Known" => chosen[1] = "Rename" /\ chosen[2] = row
  /\ job.step # "Idle" =>
       \/ Last(stack) = "MarkLabel" /\ job.edit = chosen[1] /\ job.of = chosen[2]
       \/ Last(stack) = "KnownActions" /\ job.edit = "Remove" /\ job.of = row
  /\ told # NoMessage => job.step = "Idle" /\ Last(stack) = "Msg"

AfterEdit(db) == CHOOSE d \in Edited(db) : TRUE
Saved == job.step = "Reload" /\ job.ok

(* What is saved is an edit of what was loaded.                            *)
EditMade ==
  /\ job.step \in {"Load", "Save"} => ~job.ok
  /\ job.step = "Save" \/ Saved => \E db \in Seq(Cell) : Len(db) <= KnownMax /\ job.db \in Edited(db)

Usable == original = << >> \/ Readable(original)
Loads(db) == load = [ok |-> TRUE, db |-> db]

(* As long as no write was torn and no size misread, the rules are where   *)
(* the edit under way has brought them.                                    *)
RulesHeld ==
  hurt = {} =>
    /\ Usable =>
         /\ wanted \in Seq(Cell) /\ Len(wanted) <= KnownMax
         /\ ~Saved => Loads(wanted)
         /\ Saved => Loads(job.db)
         /\ job.step = "Save" \/ Saved => Edited(wanted) # {} /\ job.db = AfterEdit(wanted)
    /\ ~Usable => Cells(Registry) = original /\ wanted = << >> /\ job.step # "Save" /\ ~Saved
    /\ job.step = "Idle" => known = << >> \/ known = wanted

(* The rule acted on is still there.                                       *)
RowHeld == hurt = {} /\ OnRule => row <= Len(wanted)

(* What kept an edit from being made agrees with the rules there are.      *)
WhyHeld ==
  hurt = {} /\ job.step = "Reload" /\ ~job.ok /\ job.edit # "Remove" =>
    /\ why \in {"Unread", "Full", "Refused"}
    /\ why = "Full" => Len(wanted) = KnownMax
    /\ why = "Refused" /\ job.edit # "Rename" => Len(wanted) < KnownMax

IInv == TypeOK /\ ChoiceOK /\ EditMade /\ RulesHeld /\ RowHeld /\ WhyHeld /\ ReasonIsTrue

-----------------------------------------------------------------------------
(* The file: what is written is what is read.                              *)

LEMMA MaxIsNat == KnownMax \in Nat
BY KnownAssumption

LEMMA HeaderCells == ASSUME NEW n \in Nat PROVE Magic \in Cell /\ <<0, n, 0>> \in Cell
BY DEF Magic, Cell

LEMMA ReadIsTyped ==
  ASSUME NEW cells \in Seq(Cell), Readable(cells)
  PROVE  read(cells) \in Seq(Cell) /\ Len(read(cells)) <= KnownMax
<1>1. Len(cells) \in Nat /\ Len(cells) >= 2 /\ cells[2] \in Cell
  BY ElementOfSeq, LenProperties DEF Readable
<1>2. cells[2][2] \in Nat
  BY <1>1 DEF Cell
<1>3. Len(cells) - 2 <= KnownMax
  BY <1>1, <1>2, KnownAssumption DEF Readable
<1>4. \A i \in 3 .. Len(cells) : cells[i] \in Cell
  BY <1>1, ElementOfSeq
<1>5. read(cells) \in Seq(Cell) /\ Len(read(cells)) = IF 3 <= Len(cells) THEN Len(cells) - 3 + 1 ELSE 0
  BY <1>1, <1>4, SubSeqProperties DEF read
<1> QED BY <1>1, <1>3, <1>5, KnownAssumption

LEMMA WriteProperties ==
  ASSUME NEW db \in Seq(Cell)
  PROVE  /\ write(db) \in Seq(Cell) /\ Len(write(db)) = Len(db) + 2
         /\ write(db)[1] = Magic /\ write(db)[2] = <<0, Len(db), 0>>
         /\ \A i \in 1 .. Len(db) : write(db)[i + 2] = db[i]
<1> DEFINE head == <<Magic, <<0, Len(db), 0>> >>
<1>1. Len(db) \in Nat
  BY LenProperties
<1>2. head \in Seq(Cell) /\ Len(head) = 2 /\ head[1] = Magic /\ head[2] = <<0, Len(db), 0>>
  BY <1>1, HeaderCells
<1> HIDE DEF head
<1>3. /\ head \o db \in Seq(Cell) /\ Len(head \o db) = Len(head) + Len(db)
      /\ \A i \in 1 .. Len(head) + Len(db) :
           (head \o db)[i] = IF i <= Len(head) THEN head[i] ELSE db[i - Len(head)]
  BY <1>2, ConcatProperties
<1>4. \A i \in 1 .. Len(db) : (head \o db)[i + 2] = db[i]
  <2> SUFFICES ASSUME NEW i \in 1 .. Len(db) PROVE (head \o db)[i + 2] = db[i]
    OBVIOUS
  <2>1. i + 2 \in 1 .. Len(head) + Len(db) /\ ~(i + 2 <= Len(head)) /\ i + 2 - Len(head) = i
    BY <1>1, <1>2
  <2> QED BY <1>3, <2>1
<1>5. (head \o db)[1] = Magic /\ (head \o db)[2] = <<0, Len(db), 0>>
  BY <1>1, <1>2, <1>3
<1>6. write(db) = head \o db
  BY DEF write, head
<1> QED BY <1>1, <1>2, <1>3, <1>4, <1>5, <1>6

LEMMA ReadWritten ==
  ASSUME NEW db \in Seq(Cell), Len(db) <= KnownMax
  PROVE  /\ write(db) \in Seq(Cell) /\ Len(write(db)) = Len(db) + 2
         /\ Readable(write(db)) /\ read(write(db)) = db
<1> DEFINE w == write(db)
<1>1. /\ w \in Seq(Cell) /\ Len(w) = Len(db) + 2 /\ Len(db) \in Nat
      /\ w[1] = Magic /\ w[2] = <<0, Len(db), 0>>
      /\ \A i \in 1 .. Len(db) : w[i + 2] = db[i]
  BY WriteProperties, LenProperties
<1> HIDE DEF w
<1>2. w[2][2] = Len(db)
  BY <1>1
<1>3. Readable(w)
  BY <1>1, <1>2 DEF Readable
<1>4. \A i \in 3 .. Len(w) : w[i] \in Cell
  BY <1>1, ElementOfSeq
<1>5. /\ read(w) \in Seq(Cell) /\ Len(read(w)) = IF 3 <= Len(w) THEN Len(w) - 3 + 1 ELSE 0
      /\ \A i \in 1 .. Len(w) - 3 + 1 : read(w)[i] = w[3 + i - 1]
  BY <1>1, <1>4, SubSeqProperties DEF read
<1>6. ASSUME NEW i \in 1 .. Len(db) PROVE read(w)[i] = db[i]
  <2>1. i \in 1 .. Len(w) - 3 + 1 /\ 3 + i - 1 = i + 2
    BY <1>1
  <2> QED BY <1>1, <1>5, <2>1
<1>7. Len(read(w)) = Len(db)
  BY <1>1, <1>5
<1>8. read(w) = db
  BY <1>5, <1>6, <1>7, SeqEqual
<1> QED BY <1>1, <1>3, <1>8 DEF w

(* What loading makes of the cells of the file.                            *)
LoadOf(cells) ==
  IF Len(cells) = 0 THEN NeverSaved
  ELSE IF Len(cells) <= KnownMax + 2 /\ Readable(cells) THEN [ok |-> TRUE, db |-> read(cells)]
  ELSE NotRead

LEMMA LoadIs == load = LoadOf(Cells(Registry)) /\ load' = LoadOf(Cells(Registry)')
<1>1. ~Readable(<< >>)
  BY DEF Readable
<1> QED BY <1>1 DEF load, LoadOf, read_file, file_size

LEMMA LoadOfTyped ==
  ASSUME NEW cells \in Seq(Cell)
  PROVE  /\ LoadOf(cells) = [ok |-> LoadOf(cells).ok, db |-> LoadOf(cells).db]
         /\ LoadOf(cells).ok \in BOOLEAN
         /\ LoadOf(cells).db \in Seq(Cell) /\ Len(LoadOf(cells).db) <= KnownMax
<1>1. << >> \in Seq(Cell) /\ Len(<< >>) = 0 /\ 0 <= KnownMax
  BY EmptySeq, MaxIsNat
<1>2. CASE LoadOf(cells) = NeverSaved
  BY <1>1, <1>2 DEF NeverSaved
<1>4. CASE LoadOf(cells) = NotRead
  BY <1>1, <1>4 DEF NotRead
<1>3. CASE Readable(cells) /\ LoadOf(cells) = [ok |-> TRUE, db |-> read(cells)]
  BY <1>3, ReadIsTyped
<1> QED BY <1>2, <1>3, <1>4 DEF LoadOf

LEMMA LoadOfWritten ==
  ASSUME NEW db \in Seq(Cell), Len(db) <= KnownMax
  PROVE  LoadOf(write(db)) = [ok |-> TRUE, db |-> db]
<1> DEFINE w == write(db)
<1>1. Len(db) \in Nat
  BY LenProperties
<1>2. Readable(w) /\ read(w) = db /\ Len(w) = Len(db) + 2
  BY ReadWritten
<1> HIDE DEF w
<1>3. Len(w) # 0 /\ Len(w) <= KnownMax + 2
  BY <1>1, <1>2, MaxIsNat
<1>4. LoadOf(w) = [ok |-> TRUE, db |-> db]
  BY <1>2, <1>3 DEF LoadOf
<1> QED BY <1>4 DEF w

LEMMA LoadOfFound ==
  ASSUME NEW cells \in Seq(Cell)
  PROVE  /\ cells = << >> \/ Readable(cells) => LoadOf(cells).ok
         /\ ~(cells = << >> \/ Readable(cells)) => LoadOf(cells) = NotRead
<1>1. Len(cells) \in Nat /\ (Len(cells) = 0 <=> cells = << >>)
  BY LenProperties, EmptySeq
<1>2. Readable(cells) => Len(cells) <= KnownMax + 2
  <2> SUFFICES ASSUME Readable(cells) PROVE Len(cells) <= KnownMax + 2
    OBVIOUS
  <2>1. cells[2] \in Cell
    BY <1>1, ElementOfSeq DEF Readable
  <2>2. cells[2][2] \in Nat
    BY <2>1 DEF Cell
  <2> QED BY <1>1, <2>2, KnownAssumption DEF Readable
<1> QED BY <1>1, <1>2 DEF LoadOf, NeverSaved, NotRead

-----------------------------------------------------------------------------
(* An edit.                                                                *)

(* What the edit under way is about.                                       *)
JobOK ==
  /\ job.edit \in Edits /\ job.label \in Nat
  /\ job.edit = "Device" => job.of \in Durable
  /\ job.edit = "Ssid" => job.of \in Nat
  /\ job.edit \in {"Rename", "Remove"} => job.of \in Nat \ {0}

LEMMA RuleOfDurable ==
  ASSUME NEW d \in Durable, NEW label \in Nat
  PROVE  \E r \in Cell : /\ rule_from_signature(d, label) = {r}
                         /\ \/ r[1] = ByMac /\ ~d.random /\ r[2] = d.mac
                            \/ r[1] = BySsid /\ r[2] \in ToSet(d.ssids)
<1>1. d.random \in BOOLEAN /\ d.mac \in Nat /\ d.ssids \in Seq(Nat)
  BY KnownAssumption DEF Durable
<1>2. CASE ~d.random
  <2>1. <<ByMac, d.mac, label>> \in Cell
    BY <1>1 DEF Cell, ByMac
  <2> QED BY <1>2, <2>1 DEF rule_from_signature
<1>3. CASE d.random
  <2>1. d.ssids # << >>
    BY <1>3 DEF Durable
  <2>2. 1 \in 1 .. Len(d.ssids)
    BY <1>1, <2>1, EmptySeq
  <2>3. d.ssids[1] \in Nat /\ d.ssids[1] \in ToSet(d.ssids)
    BY <1>1, <2>2, ElementOfSeq, LenProperties DEF ToSet
  <2>4. <<BySsid, d.ssids[1], label>> \in Cell
    BY <2>3 DEF Cell, BySsid
  <2> QED BY <1>3, <2>1, <2>3, <2>4 DEF rule_from_signature
<1> QED BY <1>2, <1>3

LEMMA RemoveAtTyped ==
  ASSUME NEW db \in Seq(Cell), NEW i \in 1 .. Len(db)
  PROVE  RemoveAt(db, i) \in Seq(Cell) /\ Len(RemoveAt(db, i)) = Len(db) - 1
<1> DEFINE a == SubSeq(db, 1, i - 1)
           b == SubSeq(db, i + 1, Len(db))
<1>1. Len(db) \in Nat /\ \A k \in 1 .. Len(db) : db[k] \in Cell
  BY ElementOfSeq, LenProperties
<1>2. a \in Seq(Cell) /\ Len(a) = i - 1
  <2>1. \A k \in 1 .. i - 1 : db[k] \in Cell
    BY <1>1
  <2>2. a \in Seq(Cell) /\ Len(a) = IF 1 <= i - 1 THEN i - 1 - 1 + 1 ELSE 0
    BY <1>1, <2>1, SubSeqProperties
  <2> QED BY <2>2
<1>3. b \in Seq(Cell) /\ Len(b) = Len(db) - i
  <2>1. \A k \in i + 1 .. Len(db) : db[k] \in Cell
    BY <1>1
  <2>2. b \in Seq(Cell) /\ Len(b) = IF i + 1 <= Len(db) THEN Len(db) - (i + 1) + 1 ELSE 0
    BY <1>1, <2>1, SubSeqProperties
  <2> QED BY <1>1, <2>2
<1> HIDE DEF a, b
<1>4. a \o b \in Seq(Cell) /\ Len(a \o b) = Len(a) + Len(b)
  BY <1>2, <1>3, ConcatProperties
<1>5. RemoveAt(db, i) = a \o b
  BY DEF RemoveAt, a, b
<1>6. Len(a) + Len(b) = Len(db) - 1
  BY <1>1, <1>2, <1>3
<1> QED BY <1>4, <1>5, <1>6

LEMMA AddedTyped ==
  ASSUME NEW db \in Seq(Cell), Len(db) <= KnownMax, NEW r \in Cell
  PROVE  /\ Added(db, {r}) = IF Len(db) < KnownMax THEN {Append(db, r)} ELSE {}
         /\ Len(db) < KnownMax =>
              Append(db, r) \in Seq(Cell) /\ Len(Append(db, r)) = Len(db) + 1
BY AppendProperties DEF Added

LEMMA Relabelled ==
  ASSUME NEW c \in Cell, NEW label \in Nat
  PROVE  [c EXCEPT ![3] = label] \in Cell
<1>1. c = <<c[1], c[2], c[3]>> /\ c[1] \in Nat /\ c[2] \in Nat
  BY DEF Cell
<1>2. [c EXCEPT ![3] = label] = <<c[1], c[2], label>>
  BY <1>1
<1> QED BY <1>1, <1>2 DEF Cell

LEMMA OneEdit == ASSUME NEW db, NEW new, Edited(db) = {new} PROVE AfterEdit(db) = new
BY DEF AfterEdit

(* An edit can be made of a list with room, or on a row of it; it gives    *)
(* one list, within the limit, with the rule of the device in it.          *)
LEMMA EditProperties ==
  ASSUME JobOK, NEW db \in Seq(Cell), Len(db) <= KnownMax
  PROVE  /\ \A new \in Edited(db) :
              /\ new \in Seq(Cell) /\ Len(new) <= KnownMax
              /\ new = AfterEdit(db)
              /\ job.edit = "Rename" => Len(new) = Len(db)
              /\ job.edit = "Device" => match(new, job.of) # {}
         /\ Edited(db) = {} =>
              IF job.edit \in {"Ssid", "Device"} THEN Len(db) = KnownMax ELSE job.of > Len(db)
<1>1. Len(db) \in Nat /\ KnownMax \in Nat
  BY LenProperties, MaxIsNat
<1>2. CASE job.edit = "Device"
  <2>1. PICK r \in Cell : /\ rule_from_signature(job.of, job.label) = {r}
                          /\ \/ r[1] = ByMac /\ ~job.of.random /\ r[2] = job.of.mac
                             \/ r[1] = BySsid /\ r[2] \in ToSet(job.of.ssids)
    BY <1>2, RuleOfDurable DEF JobOK
  <2>2. Edited(db) = Added(db, {r})
    BY <1>2, <2>1 DEF Edited
  <2>3. CASE Len(db) < KnownMax
    <3>1. /\ Append(db, r) \in Seq(Cell) /\ Len(Append(db, r)) = Len(db) + 1
          /\ Append(db, r)[Len(db) + 1] = r
      BY AppendProperties
    <3>2. Edited(db) = {Append(db, r)}
      BY <2>2, <2>3, AddedTyped
    <3>3. Len(db) + 1 \in match(Append(db, r), job.of)
      BY <1>1, <2>1, <3>1 DEF match
    <3>4. AfterEdit(db) = Append(db, r)
      BY <3>2, OneEdit
    <3>5. match(Append(db, r), job.of) # {}
      BY <3>3
    <3>6. Len(Append(db, r)) <= KnownMax
      BY <1>1, <2>3, <3>1
    <3> QED BY <1>2, <3>1, <3>2, <3>4, <3>5, <3>6
  <2>4. CASE ~(Len(db) < KnownMax)
    <3>1. Edited(db) = {}
      BY <2>2, <2>4, AddedTyped
    <3>2. Len(db) = KnownMax
      BY <1>1, <2>4
    <3> QED BY <1>2, <3>1, <3>2
  <2> QED BY <2>3, <2>4
<1>3. CASE job.edit = "Ssid"
  <2> DEFINE r == <<BySsid, job.of, job.label>>
  <2>1. r \in Cell
    BY <1>3 DEF JobOK, Cell, BySsid
  <2>2. Edited(db) = Added(db, {r})
    BY <1>3 DEF Edited, rule_ssid
  <2> HIDE DEF r
  <2>3. CASE Len(db) < KnownMax
    <3>1. Edited(db) = {Append(db, r)}
      BY <2>1, <2>2, <2>3 DEF Added
    <3>2. AfterEdit(db) = Append(db, r)
      BY <3>1, OneEdit
    <3>3. Append(db, r) \in Seq(Cell) /\ Len(Append(db, r)) = Len(db) + 1
      BY <2>1, AppendProperties
    <3> QED BY <1>1, <1>3, <2>3, <3>1, <3>2, <3>3
  <2>4. CASE ~(Len(db) < KnownMax)
    <3>1. Edited(db) = {}
      BY <2>1, <2>2, <2>4, AddedTyped
    <3>2. Len(db) = KnownMax
      BY <1>1, <2>4
    <3> QED BY <1>3, <3>1, <3>2
  <2> QED BY <2>3, <2>4
<1>4. CASE job.edit = "Rename"
  <2>1. job.of \in Nat \ {0} /\ job.label \in Nat
    BY <1>4 DEF JobOK
  <2>2. CASE job.of <= Len(db)
    <3> DEFINE e == [db[job.of] EXCEPT ![3] = job.label]
    <3>1. job.of \in 1 .. Len(db)
      BY <1>1, <2>1, <2>2
    <3>2. db[job.of] \in Cell
      BY <3>1, ElementOfSeq
    <3>3. e \in Cell
      BY <2>1, <3>2, Relabelled
    <3>4. Edited(db) = {[db EXCEPT ![job.of] = e]}
      BY <1>4, <2>2, <3>1 DEF Edited
    <3> HIDE DEF e
    <3>5. [db EXCEPT ![job.of] = e] \in Seq(Cell) /\ Len([db EXCEPT ![job.of] = e]) = Len(db)
      BY <3>1, <3>3, ExceptSeq
    <3>6. AfterEdit(db) = [db EXCEPT ![job.of] = e]
      BY <3>4, OneEdit
    <3> QED BY <1>4, <3>4, <3>5, <3>6
  <2>3. CASE ~(job.of <= Len(db))
    <3>1. Edited(db) = {}
      BY <1>4, <2>3 DEF Edited
    <3> QED BY <1>1, <1>4, <2>1, <2>3, <3>1
  <2> QED BY <2>2, <2>3
<1>5. CASE job.edit = "Remove"
  <2>1. job.of \in Nat \ {0}
    BY <1>5 DEF JobOK
  <2>2. CASE job.of <= Len(db)
    <3>1. job.of \in 1 .. Len(db)
      BY <1>1, <2>1, <2>2
    <3>2. RemoveAt(db, job.of) \in Seq(Cell) /\ Len(RemoveAt(db, job.of)) = Len(db) - 1
      BY <3>1, RemoveAtTyped
    <3>3. Edited(db) = {RemoveAt(db, job.of)}
      BY <1>5, <2>2 DEF Edited, remove
    <3>4. AfterEdit(db) = RemoveAt(db, job.of)
      BY <3>3, OneEdit
    <3> QED BY <1>1, <1>5, <3>2, <3>3, <3>4
  <2>3. CASE ~(job.of <= Len(db))
    <3>1. Edited(db) = {}
      BY <1>5, <2>3 DEF Edited
    <3> QED BY <1>1, <1>5, <2>1, <2>3, <3>1
  <2> QED BY <2>2, <2>3
<1> QED BY <1>2, <1>3, <1>4, <1>5 DEF JobOK, Edits

(* A full list takes no rule more.                                         *)
LEMMA FullListKept ==
  ASSUME NEW db, job.edit \in {"Ssid", "Device"}, Edited(db) # {}
  PROVE  Len(db) # KnownMax
<1>1. Edited(db) # {} => Len(db) < KnownMax
  BY DEF Edited, Added
<1> QED BY <1>1, MaxIsNat

-----------------------------------------------------------------------------
(* The screens.                                                            *)

LEMMA LastScreen ==
  ASSUME StackOK
  PROVE  /\ Last(stack) = "Start" => Len(stack) = 1
         /\ Last(stack) \in {"Detail", "Networks", "Known"} => Len(stack) = 2 /\ stack[2] = Last(stack)
         /\ Last(stack) = "KnownActions" => Len(stack) = 3 /\ stack[2] = "Known"
         /\ Last(stack) = "MarkLabel" =>
              \/ Len(stack) = 3 /\ stack[2] \in {"Detail", "Networks"}
              \/ Len(stack) = 4 /\ stack[2] = "Known"
<1>2. CASE Len(stack) = 1
  <2>1. Last(stack) = "Start"
    BY <1>2 DEF StackOK, Last
  <2> QED BY <1>2, <2>1
<1>3. CASE Len(stack) = 2
  <2>1. Last(stack) = stack[2] /\ stack[2] \in {"Detail", "Networks", "Known"}
    BY <1>3 DEF StackOK, Last
  <2> QED BY <1>3, <2>1
<1>4. CASE Len(stack) = 3
  <2>1. /\ Last(stack) = IF stack[2] = "Known" THEN "KnownActions" ELSE "MarkLabel"
        /\ stack[2] \in {"Detail", "Networks", "Known"}
    BY <1>4 DEF StackOK, Last
  <2> QED BY <1>4, <2>1
<1>5. CASE Len(stack) = 4
  <2>1. Last(stack) = IF stack[2] = "Known" THEN "MarkLabel" ELSE "Msg"
    BY <1>5 DEF StackOK, Last
  <2> QED BY <1>5, <2>1
<1>6. CASE Len(stack) = 5
  <2>1. Last(stack) = "Msg"
    BY <1>6 DEF StackOK, Last
  <2> QED BY <2>1
<1> QED BY <1>2, <1>3, <1>4, <1>5, <1>6 DEF StackOK

LEMMA Pushed ==
  ASSUME StackOK, NEW scene \in Scenes, stack' = Append(stack, scene)
  PROVE  /\ stack' \in Seq(Scenes) /\ Len(stack') = Len(stack) + 1
         /\ \A i \in 1 .. Len(stack) : stack'[i] = stack[i]
         /\ stack'[Len(stack) + 1] = scene /\ Last(stack') = scene
BY AppendProperties DEF StackOK, Last

LEMMA Popped ==
  ASSUME StackOK, Len(stack) >= 2, stack' = Front(stack)
  PROVE  /\ StackOK' /\ Len(stack') = Len(stack) - 1
         /\ \A i \in 1 .. Len(stack) - 1 : stack'[i] = stack[i]
<1>1. stack \in Seq(Scenes) /\ Len(stack) \in 1 .. 5
  BY DEF StackOK
<1>2. \A i \in 1 .. Len(stack) - 1 : stack[i] \in Scenes
  BY <1>1, ElementOfSeq
<1>3. /\ stack' \in Seq(Scenes)
      /\ Len(stack') = IF 1 <= Len(stack) - 1 THEN Len(stack) - 1 - 1 + 1 ELSE 0
      /\ \A i \in 1 .. Len(stack) - 1 - 1 + 1 : stack'[i] = stack[1 + i - 1]
  BY <1>1, <1>2, SubSeqProperties DEF Front
<1>4. Len(stack') = Len(stack) - 1 /\ \A i \in 1 .. Len(stack) - 1 : stack'[i] = stack[i]
  BY <1>1, <1>3
<1>5. StackOK'
  BY <1>1, <1>3, <1>4 DEF StackOK
<1> QED BY <1>4, <1>5

LEMMA ChosenJob == ASSUME TypeOK, ChoiceOK, job.step # "Idle" PROVE JobOK
<1>1. job.edit \in Edits /\ job.label \in Nat
  <2>1. job \in EditJobs
    BY DEF TypeOK, Idle
  <2>2. job.edit \in Edits /\ job.label \in Labels \cup {0}
    BY <2>1 DEF EditJobs
  <2>3. \A label \in Labels \cup {0} : label \in Nat
    BY KnownAssumption
  <2>4. job.label \in Nat
    BY <2>2, <2>3
  <2> QED BY <2>2, <2>4
<1>2. CASE Last(stack) = "KnownActions" /\ job.edit = "Remove" /\ job.of = row
  <2>1. StackOK
    BY DEF TypeOK
  <2>2. Len(stack) = 3 /\ stack[2] = "Known"
    BY <1>2, <2>1, LastScreen
  <2>3. row \in Nat \ {0}
    BY <2>2 DEF ChoiceOK, OnRule
  <2> QED BY <1>1, <1>2, <2>3 DEF JobOK
<1>3. CASE Last(stack) = "MarkLabel" /\ job.edit = chosen[1] /\ job.of = chosen[2]
  <2>1. CASE Len(stack) = 3 /\ stack[2] \in {"Detail", "Networks"}
    <3>1. \/ chosen[1] = "Device" /\ chosen[2] \in Durable
          \/ chosen[1] = "Ssid" /\ chosen[2] \in Networks
      <4>1. Len(stack) >= 3
        BY <2>1
      <4> QED BY <2>1, <4>1 DEF ChoiceOK
    <3>2. \A network \in Networks : network \in Nat
      BY KnownAssumption
    <3>3. \/ job.edit = "Device" /\ job.of \in Durable
          \/ job.edit = "Ssid" /\ job.of \in Nat
      BY <1>3, <3>1, <3>2
    <3> QED BY <1>1, <3>3 DEF JobOK
  <2>2. CASE Len(stack) = 4 /\ stack[2] = "Known"
    BY <1>1, <1>3, <2>2 DEF ChoiceOK, OnRule, JobOK
  <2> QED BY <1>3, <2>1, <2>2, LastScreen DEF TypeOK
<1> QED BY <1>2, <1>3 DEF ChoiceOK

(* What the screens can show of the registry, and whether a call failed.   *)
LEMMA ShownLoaded ==
  ASSUME faults \in Nat, LoadShown
  PROVE  /\ known' = load.db \/ known' = << >>
         /\ faults' \in Nat /\ (faults' = 0 => faults = 0 /\ known' = load.db)
BY DEF LoadShown, LoadFails, NotRead, NeverSaved, Fault, NoFault

LEMMA Messages == NoMessage \notin {"Undurable", "Full", "Refused"}
BY Zenon DEF NoMessage

(* A step of the screens that leaves the file and the edits alone.         *)
ScreenStep ==
  /\ job.step = "Idle"
  /\ UNCHANGED <<card, job, history>>
  /\ UNCHANGED <<known, faults>> \/ LoadShown

LEMMA ScreenHolds ==
  ASSUME IInv, ScreenStep, StackOK', ChoiceOK', told' = NoMessage,
         hurt = {} /\ OnRule' => row' <= Len(wanted)
  PROVE  IInv'
<1>1. /\ job.step = "Idle" /\ job' = job /\ card' = card
      /\ original' = original /\ wanted' = wanted /\ hurt' = hurt
  BY DEF ScreenStep, history
<1>2. Cells(Registry)' = Cells(Registry) /\ load' = load
  BY <1>1 DEF Cells, load, read_file, file_size
<1>3. /\ faults' \in Nat /\ (faults' = 0 => faults = 0)
      /\ known' \in {known, load.db, << >>}
  BY ShownLoaded DEF ScreenStep, IInv, TypeOK
<1>4. TypeOK'
  BY <1>1, <1>2, <1>3 DEF IInv, TypeOK
<1>5. EditMade'
  BY <1>1 DEF EditMade, Saved
<1>6. RulesHeld'
  <2> SUFFICES ASSUME hurt = {} PROVE RulesHeld'
    BY <1>1 DEF RulesHeld
  <2>1. CASE Usable
    <3>1. wanted \in Seq(Cell) /\ Len(wanted) <= KnownMax /\ load = [ok |-> TRUE, db |-> wanted]
          /\ (known = << >> \/ known = wanted)
      BY <1>1, <2>1 DEF IInv, RulesHeld, Saved, Loads
    <3>2. known' = << >> \/ known' = wanted
      BY <1>3, <3>1
    <3> QED BY <1>1, <1>2, <2>1, <3>1, <3>2 DEF RulesHeld, Saved, Loads, Usable
  <2>2. CASE ~Usable
    <3>1. Cells(Registry) = original /\ wanted = << >> /\ (known = << >> \/ known = wanted)
      BY <1>1, <2>2 DEF IInv, RulesHeld
    <3>2. load = NotRead
      BY <2>2, <3>1, LoadIs, LoadOfFound DEF IInv, TypeOK, Usable
    <3>3. known' = << >>
      BY <1>3, <3>1, <3>2 DEF NotRead
    <3> QED BY <1>1, <1>2, <2>2, <3>1, <3>3 DEF RulesHeld, Saved, Usable
  <2> QED BY <2>1, <2>2
<1>7. RowHeld' /\ WhyHeld'
  BY <1>1 DEF RowHeld, WhyHeld
<1>8. ReasonIsTrue'
  BY Messages DEF ReasonIsTrue
<1> QED BY <1>4, <1>5, <1>6, <1>7, <1>8 DEF IInv

LEMMA Untold == ASSUME IInv, NEW scene, Shows(scene), scene # "Msg" PROVE told = NoMessage /\ job.step = "Idle"
BY DEF IInv, ChoiceOK, Shows

LEMMA EnterStep ==
  ASSUME job.step = "Idle", UNCHANGED <<card, job, history>>, NEW st, Enter(st)
  PROVE  ScreenStep /\ stack' = st
BY DEF Enter, ScreenStep

LEMMA GoToHolds ==
  ASSUME IInv, NEW scene \in {"Detail", "Networks", "Known"}, GoTo("Start", scene)
  PROVE  IInv'
<1>1. /\ told = NoMessage /\ job.step = "Idle" /\ job' = job /\ told' = told
      /\ Last(stack) = "Start" /\ StackOK /\ UNCHANGED <<card, job, history>>
      /\ Enter(Append(stack, scene))
  BY Untold DEF GoTo, Shows, IInv, TypeOK
<1>2. ScreenStep /\ stack' = Append(stack, scene)
  BY <1>1, EnterStep
<1>3. Len(stack) = 1 /\ stack[1] = "Start"
  BY <1>1, LastScreen DEF StackOK
<1>4. /\ stack' \in Seq(Scenes) /\ Len(stack') = 2 /\ stack'[1] = "Start" /\ stack'[2] = scene
  <2>1. /\ stack' \in Seq(Scenes) /\ Len(stack') = Len(stack) + 1
        /\ \A i \in 1 .. Len(stack) : stack'[i] = stack[i]
        /\ stack'[Len(stack) + 1] = scene
    BY <1>1, <1>2, Pushed DEF Scenes
  <2> QED BY <1>3, <2>1
<1>5. StackOK' /\ ~OnRule'
  BY <1>4 DEF StackOK, OnRule
<1>6. ChoiceOK'
  BY <1>1, <1>4 DEF ChoiceOK, OnRule
<1> QED BY <1>1, <1>2, <1>5, <1>6, ScreenHolds

LEMMA BackHolds == ASSUME IInv, Back PROVE IInv'
<1>1. job.step = "Idle" /\ job' = job /\ told' = NoMessage /\ StackOK /\ UNCHANGED <<card, job, history>>
  BY DEF Back, IInv, TypeOK
<1>2. CASE Len(stack) = 1
  <2>1. stack' = stack /\ ScreenStep
    BY <1>1, <1>2 DEF Back, ScreenStep
  <2>2. StackOK'
    BY <1>1, <2>1 DEF StackOK
  <2>3. Len(stack') = 1
    BY <1>2, <2>1
  <2>4. ~OnRule' /\ ChoiceOK'
    BY <1>1, <2>3 DEF ChoiceOK, OnRule
  <2> QED BY <1>1, <2>1, <2>2, <2>4, ScreenHolds
<1>3. CASE Len(stack) # 1
  <2>1. Len(stack) \in 1 .. 5 /\ Len(stack) >= 2
    <3>1. Len(stack) \in 1 .. 5
      BY <1>1 DEF StackOK
    <3>2. \A n \in 1 .. 5 : n # 1 => n >= 2
      OBVIOUS
    <3> QED BY <1>3, <3>1, <3>2
  <2>2. ScreenStep /\ stack' = Front(stack)
    BY <1>1, <1>3, EnterStep DEF Back
  <2>3. /\ StackOK' /\ Len(stack') = Len(stack) - 1
        /\ \A i \in 1 .. Len(stack) - 1 : stack'[i] = stack[i]
    BY <1>1, <2>1, <2>2, Popped
  <2>4. Len(stack') >= 2 => stack'[2] = stack[2]
    BY <2>1, <2>3
  <2>5. Len(stack') >= 2 => stack' # <<"Start">>
    <3> SUFFICES ASSUME stack' = <<"Start">> PROVE ~(Len(stack') >= 2)
      OBVIOUS
    <3>1. Len(stack') = 1
      OBVIOUS
    <3> QED BY <3>1
  <2>6. Len(stack') >= 2 => UNCHANGED <<chosen, row>>
    BY <2>5 DEF Back
  <2>7. ChoiceOK'
    BY <1>1, <2>1, <2>3, <2>4, <2>6 DEF ChoiceOK, OnRule, IInv
  <2>8. OnRule' => OnRule /\ row' = row
    BY <2>1, <2>3, <2>4, <2>6 DEF OnRule
  <2>9. hurt = {} /\ OnRule' => row' <= Len(wanted)
    BY <2>8 DEF IInv, RowHeld
  <2> QED BY <1>1, <2>2, <2>3, <2>7, <2>9, ScreenHolds
<1> QED BY <1>2, <1>3

LEMMA MarkHolds ==
  ASSUME IInv, NEW from \in {"Detail", "Networks", "KnownActions"}, NEW mode, NEW of,
         MarkFrom(from, mode, of),
         from = "Detail" => mode = "Device" /\ of \in Durable,
         from = "Networks" => mode = "Ssid" /\ of \in Networks,
         from = "KnownActions" => mode = "Rename" /\ of = row
  PROVE  IInv'
<1>1. /\ told = NoMessage /\ job.step = "Idle" /\ job' = job /\ told' = told /\ row' = row
      /\ chosen' = <<mode, of>> /\ Last(stack) = from /\ StackOK
      /\ UNCHANGED <<card, job, history>> /\ Enter(Append(stack, "MarkLabel"))
  BY Untold DEF MarkFrom, Shows, IInv, TypeOK
<1>2. ScreenStep /\ stack' = Append(stack, "MarkLabel")
  BY <1>1, EnterStep
<1>3. /\ stack' \in Seq(Scenes) /\ Len(stack') = Len(stack) + 1
      /\ \A i \in 1 .. Len(stack) : stack'[i] = stack[i]
      /\ stack'[Len(stack) + 1] = "MarkLabel"
  <2>1. StackOK
    BY <1>1
  <2> QED BY <1>2, <2>1, Pushed DEF Scenes
<1>4. CASE from \in {"Detail", "Networks"}
  <2>1. Len(stack) = 2 /\ stack[2] = from /\ stack[1] = "Start"
    BY <1>1, <1>4, LastScreen DEF StackOK
  <2>2. /\ Len(stack') = 3 /\ stack'[1] = "Start" /\ stack'[2] = from /\ stack'[3] = "MarkLabel"
    BY <1>3, <2>1
  <2>6. stack' \in Seq(Scenes)
    BY <1>3
  <2>3. StackOK'
    BY <1>4, <2>2, <2>6 DEF StackOK
  <2>5. ~OnRule'
    BY <1>4, <2>2 DEF OnRule
  <2>4. ChoiceOK'
    BY <1>1, <1>4, <2>2 DEF ChoiceOK, OnRule
  <2> QED BY <1>1, <1>2, <2>3, <2>4, <2>5, ScreenHolds
<1>5. CASE from = "KnownActions"
  <2>1. Len(stack) = 3 /\ stack[2] = "Known" /\ stack[1] = "Start" /\ stack[3] = "KnownActions"
    BY <1>1, <1>5, LastScreen DEF StackOK, Last
  <2>2. /\ Len(stack') = 4 /\ stack'[1] = "Start" /\ stack'[2] = "Known"
        /\ stack'[3] = "KnownActions" /\ stack'[4] = "MarkLabel"
    BY <1>3, <2>1
  <2>7. stack' \in Seq(Scenes)
    BY <1>3
  <2>3. StackOK'
    BY <2>2, <2>7 DEF StackOK
  <2>4. OnRule /\ row \in Nat \ {0}
    BY <2>1 DEF OnRule, IInv, ChoiceOK
  <2>5. ChoiceOK'
    BY <1>1, <1>5, <2>2, <2>4 DEF ChoiceOK, OnRule
  <2>6. hurt = {} => row' <= Len(wanted)
    BY <1>1, <2>4 DEF IInv, RowHeld
  <2> QED BY <1>1, <1>2, <2>3, <2>5, <2>6, ScreenHolds
<1> QED BY <1>4, <1>5

LEMMA PickHolds == ASSUME IInv, NEW i \in 1 .. KnownMax, PickKnown(i) PROVE IInv'
<1>1. /\ told = NoMessage /\ job.step = "Idle" /\ job' = job /\ told' = told /\ row' = i
      /\ i \in 1 .. Len(known) /\ Last(stack) = "Known" /\ StackOK
      /\ UNCHANGED <<card, job, history>> /\ Enter(Append(stack, "KnownActions"))
  BY Untold DEF PickKnown, Shows, IInv, TypeOK
<1>2. ScreenStep /\ stack' = Append(stack, "KnownActions")
  BY <1>1, EnterStep
<1>3. Len(stack) = 2 /\ stack[2] = "Known" /\ stack[1] = "Start"
  BY <1>1, LastScreen DEF StackOK
<1>4. /\ stack' \in Seq(Scenes) /\ Len(stack') = 3
      /\ stack'[1] = "Start" /\ stack'[2] = "Known" /\ stack'[3] = "KnownActions"
  <2>1. StackOK
    BY <1>1
  <2>2. /\ stack' \in Seq(Scenes) /\ Len(stack') = Len(stack) + 1
        /\ \A j \in 1 .. Len(stack) : stack'[j] = stack[j]
        /\ stack'[Len(stack) + 1] = "KnownActions"
    BY <1>2, <2>1, Pushed DEF Scenes
  <2> QED BY <1>3, <2>2
<1>5. StackOK'
  BY <1>4 DEF StackOK
<1>6. i \in Nat \ {0}
  BY MaxIsNat
<1>7. ChoiceOK'
  BY <1>1, <1>4, <1>6 DEF ChoiceOK, OnRule
<1>8. hurt = {} => row' <= Len(wanted)
  <2> SUFFICES ASSUME hurt = {} PROVE row' <= Len(wanted)
    OBVIOUS
  <2>1. known = << >> \/ known = wanted
    BY <1>1 DEF IInv, RulesHeld
  <2>2. known # << >>
    BY <1>1, <1>6, EmptySeq
  <2> QED BY <1>1, <2>1, <2>2
<1> QED BY <1>1, <1>2, <1>5, <1>7, <1>8, ScreenHolds

-----------------------------------------------------------------------------
(* The edits.                                                              *)

LEMMA SameEdit ==
  ASSUME NEW db, job'.edit = job.edit, job'.of = job.of, job'.label = job.label
  PROVE  Edited(db)' = Edited(db)
BY DEF Edited

LEMMA SameEditOfWanted ==
  ASSUME wanted' = wanted, job'.edit = job.edit, job'.of = job.of, job'.label = job.label
  PROVE  Edited(wanted)' = Edited(wanted) /\ AfterEdit(wanted)' = AfterEdit(wanted)
BY DEF Edited, AfterEdit

LEMMA IdleStep == Idle.step = "Idle"
BY DEF Idle

LEMMA JobOfEdit ==
  ASSUME TypeOK, job.step # "Idle"
  PROVE  /\ job \in EditJobs /\ job.ok \in BOOLEAN /\ job.db \in Seq(Cell)
         /\ job.step \in {"Load", "Save", "Reload"}
BY IdleStep DEF TypeOK, EditJobs

LEMMA LoadedTyped ==
  ASSUME TypeOK
  PROVE  /\ load.ok \in BOOLEAN /\ load = [ok |-> load.ok, db |-> load.db]
         /\ load.db \in Seq(Cell) /\ Len(load.db) <= KnownMax
BY LoadIs, LoadOfTyped DEF TypeOK

(* What an edit has made is within the limit.                              *)
LEMMA MadeTyped ==
  ASSUME TypeOK, ChoiceOK, EditMade, job.step = "Save" \/ Saved
  PROVE  job.db \in Seq(Cell) /\ Len(job.db) <= KnownMax
<1>1. JobOK
  BY ChosenJob DEF Saved
<1>2. PICK db \in Seq(Cell) : Len(db) <= KnownMax /\ job.db \in Edited(db)
  BY DEF EditMade
<1> QED BY <1>1, <1>2, EditProperties

LEMMA WantedEdited ==
  ASSUME JobOK, wanted \in Seq(Cell), Len(wanted) <= KnownMax, Edited(wanted) # {}
  PROVE  /\ AfterEdit(wanted) \in Edited(wanted)
         /\ AfterEdit(wanted) \in Seq(Cell) /\ Len(AfterEdit(wanted)) <= KnownMax
         /\ job.edit = "Rename" => Len(AfterEdit(wanted)) = Len(wanted)
<1>1. AfterEdit(wanted) \in Edited(wanted)
  BY DEF AfterEdit
<1> QED BY <1>1, EditProperties

LEMMA Unsaid == ASSUME told' = NoMessage PROVE ReasonIsTrue'
BY Messages DEF ReasonIsTrue

LEMMA BeginHolds ==
  ASSUME IInv, job.step = "Idle", told = NoMessage, NEW edit \in Edits,
         NEW of \in Devices \cup Networks \cup Nat, NEW label \in Labels \cup {0},
         Begin(edit, of, label), UNCHANGED <<card, faults, screenVars, known, history>>,
         \/ Last(stack) = "MarkLabel" /\ edit = chosen[1] /\ of = chosen[2]
         \/ Last(stack) = "KnownActions" /\ edit = "Remove" /\ of = row
  PROVE  IInv'
<1>1. /\ card' = card /\ faults' = faults /\ known' = known /\ original' = original
      /\ wanted' = wanted /\ hurt' = hurt
      /\ stack' = stack /\ chosen' = chosen /\ row' = row /\ told' = told
  BY DEF screenVars, history
<1>2. job' = [step |-> "Load", edit |-> edit, of |-> of, label |-> label, db |-> << >>, ok |-> FALSE]
  BY DEF Begin
<1>3. job' \in EditJobs
  BY <1>2, EmptySeq DEF EditJobs
<1>4. Cells(Registry)' = Cells(Registry) /\ load' = load
  BY <1>1 DEF Cells, load, read_file, file_size
<1>5. TypeOK'
  BY <1>1, <1>3, <1>4 DEF IInv, TypeOK, StackOK
<1>6. ChoiceOK'
  BY <1>1, <1>2 DEF IInv, ChoiceOK, OnRule
<1>7. EditMade'
  BY <1>2 DEF EditMade, Saved
<1>8. RulesHeld'
  BY <1>1, <1>2, <1>4 DEF IInv, RulesHeld, Saved, Usable, Loads
<1>9. RowHeld' /\ WhyHeld'
  BY <1>1, <1>2 DEF IInv, RowHeld, WhyHeld, OnRule
<1> QED BY <1>1, <1>5, <1>6, <1>7, <1>8, <1>9, Unsaid DEF IInv

LEMMA LabelHolds == ASSUME IInv, NEW label \in Labels, LabelDone(label) PROVE IInv'
<1>1. /\ told = NoMessage /\ job.step = "Idle" /\ Last(stack) = "MarkLabel" /\ StackOK
      /\ Begin(chosen[1], chosen[2], label)
      /\ UNCHANGED <<card, faults, screenVars, known, history>>
  BY Untold DEF LabelDone, Shows, IInv, TypeOK
<1>2. chosen[1] \in Edits /\ chosen[2] \in Devices \cup Networks \cup Nat
  <2>1. CASE Len(stack) = 3 /\ stack[2] \in {"Detail", "Networks"}
    BY <2>1 DEF IInv, ChoiceOK, Edits, Durable
  <2>2. CASE Len(stack) = 4 /\ stack[2] = "Known"
    BY <2>2 DEF IInv, ChoiceOK, Edits, OnRule
  <2> QED BY <1>1, <2>1, <2>2, LastScreen
<1> QED BY <1>1, <1>2, BeginHolds

LEMMA DeleteHolds == ASSUME IInv, DeleteKnown PROVE IInv'
<1>1. /\ told = NoMessage /\ job.step = "Idle" /\ Last(stack) = "KnownActions" /\ StackOK
      /\ Begin("Remove", row, 0)
      /\ UNCHANGED <<card, faults, screenVars, known, history>>
  BY Untold DEF DeleteKnown, Shows, IInv, TypeOK
<1>2. row \in Nat
  <2>1. Len(stack) = 3 /\ stack[2] = "Known"
    BY <1>1, LastScreen
  <2> QED BY <2>1 DEF IInv, ChoiceOK, OnRule
<1> QED BY <1>1, <1>2, BeginHolds DEF Edits

(* A rename is of the rule on whose screen it was asked for.               *)
LEMMA RenamedRow ==
  ASSUME TypeOK, ChoiceOK, job.step # "Idle", job.edit = "Rename"
  PROVE  OnRule /\ job.of = row /\ row \in Nat /\ chosen[1] = "Rename"
<1>1. Last(stack) = "MarkLabel" /\ chosen[1] = "Rename" /\ job.of = chosen[2]
  BY DEF ChoiceOK
<1>2. Len(stack) = 4 /\ stack[2] = "Known"
  <2>1. stack[2] \in {"Detail", "Networks"} /\ Len(stack) = 3 => chosen[1] # "Rename"
    BY DEF ChoiceOK
  <2> QED BY <1>1, <2>1, LastScreen DEF TypeOK
<1> QED BY <1>1, <1>2 DEF ChoiceOK, OnRule

(* What the load of an edit sees, when no size was misread.                *)
LEMMA LoadSeen ==
  ASSUME IInv, job.step # "Idle", ~Saved, hurt = {}
  PROVE  /\ Usable => load = [ok |-> TRUE, db |-> wanted] /\ wanted \in Seq(Cell)
                      /\ Len(wanted) <= KnownMax
         /\ ~Usable => load = NotRead
<1>1. CASE Usable
  BY <1>1 DEF IInv, RulesHeld, Loads
<1>2. CASE ~Usable
  <2>1. Cells(Registry) = original
    BY <1>2 DEF IInv, RulesHeld
  <2> QED BY <1>2, <2>1, LoadIs, LoadOfFound DEF IInv, TypeOK, Usable
<1> QED BY <1>1, <1>2

LEMMA LoadForEditHolds == ASSUME IInv, LoadForEdit PROVE IInv'
<1> DEFINE next(loaded) ==
             IF loaded.ok /\ Edited(loaded.db) # {}
             THEN [job EXCEPT !.step = "Save", !.db = AfterEdit(loaded.db)]
             ELSE [job EXCEPT !.step = "Reload"]
<1>1. PICK loaded \in {load} \cup LoadFails :
        /\ IF loaded = load THEN NoFault /\ UNCHANGED hurt
           ELSE Fault /\ hurt' = IF loaded.ok THEN hurt \cup {"size"} ELSE hurt
        /\ why' = WhyNot(loaded)
        /\ job' = next(loaded)
  BY DEF LoadForEdit, AfterEdit
<1>2. /\ job.step = "Load" /\ card' = card /\ known' = known /\ original' = original
      /\ wanted' = wanted
      /\ stack' = stack /\ chosen' = chosen /\ row' = row /\ told' = told
  BY DEF LoadForEdit, screenVars
<1>3. TypeOK /\ ChoiceOK /\ EditMade /\ told = NoMessage /\ faults \in Nat
  BY <1>2 DEF IInv, ChoiceOK, TypeOK
<1>4. job \in EditJobs /\ JobOK /\ ~job.ok /\ ~Saved
  BY <1>2, <1>3, JobOfEdit, ChosenJob DEF EditMade, Saved
<1>5. loaded.db \in Seq(Cell) /\ Len(loaded.db) <= KnownMax
  <2>1. << >> \in Seq(Cell) /\ Len(<< >>) <= KnownMax
    BY EmptySeq, MaxIsNat
  <2>2. CASE loaded = load
    BY <1>3, <2>2, LoadedTyped
  <2>3. CASE loaded = NotRead
    BY <2>1, <2>3 DEF NotRead
  <2>4. CASE loaded = NeverSaved
    BY <2>1, <2>4 DEF NeverSaved
  <2> QED BY <2>2, <2>3, <2>4 DEF LoadFails
<1>6. Cells(Registry)' = Cells(Registry) /\ load' = load
  BY <1>2 DEF Cells, load, read_file, file_size
<1>7. Edited(loaded.db) # {} =>
        AfterEdit(loaded.db) \in Edited(loaded.db) /\ AfterEdit(loaded.db) \in Seq(Cell)
  <2>1. Edited(loaded.db) # {} => AfterEdit(loaded.db) \in Edited(loaded.db)
    BY DEF AfterEdit
  <2> QED BY <1>4, <1>5, <2>1, EditProperties
<1>8. /\ job' \in EditJobs /\ job'.step \in {"Save", "Reload"} /\ ~job'.ok
      /\ job'.edit = job.edit /\ job'.of = job.of /\ job'.label = job.label
      /\ job'.step = "Save" => loaded.ok /\ Edited(loaded.db) # {} /\ job'.db = AfterEdit(loaded.db)
      /\ job'.step = "Reload" => ~(loaded.ok /\ Edited(loaded.db) # {})
  BY <1>1, <1>4, <1>7 DEF EditJobs
<1> HIDE DEF next
<1>9. /\ hurt' = {} => hurt = {} /\ (loaded = load \/ ~loaded.ok)
      /\ faults' \in Nat /\ (faults' = 0 => faults = 0 /\ loaded = load /\ hurt' = hurt)
  BY <1>1, <1>3 DEF NoFault, Fault
<1>10. TypeOK'
  BY <1>2, <1>3, <1>6, <1>8, <1>9 DEF TypeOK, StackOK
<1>11. ChoiceOK'
  BY <1>2, <1>3, <1>8 DEF ChoiceOK, OnRule
<1>12. EditMade'
  <2>1. job'.step = "Save" => loaded.db \in Seq(Cell) /\ job'.db \in Edited(loaded.db)'
    BY <1>5, <1>7, <1>8, SameEdit
  <2> QED BY <1>5, <1>8, <2>1 DEF EditMade, Saved
<1>13. Edited(wanted)' = Edited(wanted) /\ AfterEdit(wanted)' = AfterEdit(wanted)
  BY <1>2, <1>8, SameEditOfWanted
<1>14. RulesHeld'
  <2> SUFFICES ASSUME hurt' = {} PROVE RulesHeld'
    BY DEF RulesHeld
  <2>1. hurt = {} /\ (loaded = load \/ ~loaded.ok)
    BY <1>9
  <2>2. CASE Usable
    <3>1. load = [ok |-> TRUE, db |-> wanted] /\ wanted \in Seq(Cell) /\ Len(wanted) <= KnownMax
      BY <1>2, <1>4, <2>1, <2>2, LoadSeen
    <3>2. job'.step = "Save" => Edited(wanted) # {} /\ job'.db = AfterEdit(wanted)
      BY <1>8, <2>1, <3>1
    <3> QED BY <1>2, <1>6, <1>8, <1>13, <2>2, <3>1, <3>2 DEF RulesHeld, Saved, Usable, Loads
  <2>3. CASE ~Usable
    <3>1. load = NotRead
      BY <1>2, <1>4, <2>1, <2>3, LoadSeen
    <3>2. ~loaded.ok
      BY <2>1, <3>1 DEF NotRead
    <3>3. Cells(Registry) = original /\ wanted = << >>
      BY <2>1, <2>3 DEF IInv, RulesHeld
    <3> QED BY <1>2, <1>6, <1>8, <2>3, <3>2, <3>3 DEF RulesHeld, Saved, Usable
  <2> QED BY <2>2, <2>3
<1>15. RowHeld'
  BY <1>2, <1>3, <1>9 DEF IInv, RowHeld, OnRule
<1>16. WhyHeld'
  <2> SUFFICES ASSUME hurt' = {}, job'.step = "Reload", job.edit # "Remove"
               PROVE  why' = "Unread" \/ (why' = "Full" /\ Len(wanted) = KnownMax)
    BY <1>2, <1>8 DEF WhyHeld
  <2>1. hurt = {} /\ (loaded = load \/ ~loaded.ok)
    BY <1>9
  <2>2. why' = WhyNot(loaded)
    BY <1>1
  <2>3. CASE ~loaded.ok
    BY <2>2, <2>3 DEF WhyNot
  <2>4. CASE loaded.ok
    <3>1. Usable
      BY <1>2, <1>4, <2>1, <2>4, LoadSeen DEF NotRead
    <3>2. loaded.db = wanted /\ wanted \in Seq(Cell) /\ Len(wanted) <= KnownMax
      BY <1>2, <1>4, <2>1, <2>4, <3>1, LoadSeen
    <3>3. Edited(loaded.db) = {}
      BY <1>8, <2>4
    <3>4. IF job.edit \in {"Ssid", "Device"} THEN Len(wanted) = KnownMax ELSE job.of > Len(wanted)
      BY <1>4, <3>2, <3>3, EditProperties
    <3>5. job.edit \in {"Ssid", "Device"}
      <4> SUFFICES ASSUME job.edit \notin {"Ssid", "Device"} PROVE FALSE
        OBVIOUS
      <4>1. job.edit = "Rename"
        BY <1>4 DEF JobOK, Edits
      <4>2. OnRule /\ job.of = row /\ row \in Nat
        BY <1>2, <1>3, <4>1, RenamedRow
      <4>3. row <= Len(wanted) /\ Len(wanted) \in Nat
        BY <2>1, <3>2, <4>2 DEF IInv, RowHeld
      <4> QED BY <3>4, <4>2, <4>3
    <3>6. WhyNot(loaded) = "Full"
      BY Zenon, <2>4, <3>2, <3>3, <3>4, <3>5 DEF WhyNot
    <3> QED BY <2>2, <3>4, <3>5, <3>6
  <2> QED BY <2>2, <2>3, <2>4
<1> QED BY <1>2, <1>3, <1>10, <1>11, <1>12, <1>14, <1>15, <1>16, Unsaid DEF IInv

LEMMA CellsWith == ASSUME NEW cells, card' = With(Registry, cells) PROVE Cells(Registry)' = cells
BY DEF With, Cells

LEMMA FirstCells ==
  ASSUME NEW cells \in Seq(Cell), NEW k \in 0 .. Len(cells)
  PROVE  SubSeq(cells, 1, k) \in Seq(Cell)
<1>1. \A i \in 1 .. k : cells[i] \in Cell
  BY ElementOfSeq
<1> QED BY <1>1, SubSeqProperties

LEMMA WrittenTyped ==
  ASSUME TypeOK, NEW cells \in Seq(Cell)
  PROVE  Written(Registry, 0, cells) \in Seq(Cell)
<1> DEFINE old == Cells(Registry)
           front == SubSeq(old, 1, 0)
           back == SubSeq(old, 0 + Len(cells) + 1, Len(old))
<1>1. old \in Seq(Cell) /\ Len(old) \in Nat /\ Len(cells) \in Nat
  BY DEF TypeOK
<1>2. front \in Seq(Cell)
  BY <1>1, FirstCells
<1>3. back \in Seq(Cell)
  <2>1. \A i \in 0 + Len(cells) + 1 .. Len(old) : old[i] \in Cell
    BY <1>1, ElementOfSeq
  <2> QED BY <1>1, <2>1, SubSeqProperties
<1>4. Written(Registry, 0, cells) = front \o cells \o back
  BY DEF Written, file_size
<1> HIDE DEF front, back
<1>5. front \o cells \in Seq(Cell)
  BY <1>2, ConcatProperties
<1> QED BY <1>3, <1>4, <1>5, ConcatProperties

LEMMA TornTyped ==
  ASSUME TypeOK, NEW cells \in Seq(Cell), Torn(Registry, 0, cells)
  PROVE  Cells(Registry)' \in Seq(Cell)
<1> DEFINE w == Written(Registry, 0, cells)
<1>1. w \in Seq(Cell)
  BY WrittenTyped
<1>2. PICK k \in 0 .. Len(w) - 1 : card' = With(Registry, SubSeq(w, 1, k))
  BY DEF Torn
<1> HIDE DEF w
<1>3. k \in 0 .. Len(w)
  BY <1>1
<1>4. SubSeq(w, 1, k) \in Seq(Cell)
  BY <1>1, <1>3, FirstCells
<1> QED BY <1>2, <1>4, CellsWith

LEMMA SaveHolds == ASSUME IInv, SaveEdited PROVE IInv'
<1>1. PICK ok \in BOOLEAN :
        /\ job' = [job EXCEPT !.step = "Reload", !.ok = ok]
        /\ why' = IF ok THEN NoMessage ELSE "Refused"
        /\ \/ /\ ok /\ write_done(Registry, write(job.db))
              /\ hurt' = IF faults' = faults THEN hurt ELSE hurt \cup {"write"}
           \/ ~ok /\ UNCHANGED <<card, hurt>> /\ Fault
           \/ /\ ~ok /\ Torn(Registry, 0, write(job.db)) /\ Fault
              /\ hurt' = hurt \cup {"write"}
  BY DEF SaveEdited
<1>2. /\ job.step = "Save" /\ known' = known /\ original' = original /\ wanted' = wanted
      /\ stack' = stack /\ chosen' = chosen /\ row' = row /\ told' = told
  BY DEF SaveEdited, screenVars
<1>3. TypeOK /\ ChoiceOK /\ EditMade /\ told = NoMessage /\ faults \in Nat /\ ~Saved
  BY <1>2 DEF IInv, ChoiceOK, TypeOK, Saved
<1>4. job \in EditJobs /\ JobOK /\ job.db \in Seq(Cell) /\ Len(job.db) <= KnownMax
  BY <1>2, <1>3, JobOfEdit, ChosenJob, MadeTyped
<1>5. write(job.db) \in Seq(Cell)
  BY <1>4, ReadWritten
<1>6. /\ job' \in EditJobs /\ job'.step = "Reload" /\ job'.ok = ok /\ job'.db = job.db
      /\ job'.edit = job.edit /\ job'.of = job.of /\ job'.label = job.label
  BY <1>1, <1>4 DEF EditJobs
(* The write reached the card; or something failed.                        *)
<1>7. \/ ok /\ Cells(Registry)' = write(job.db) /\ hurt' = hurt /\ faults' = faults
      \/ ~ok /\ Cells(Registry)' = Cells(Registry) /\ hurt' = hurt /\ faults' = faults + 1
      \/ hurt' # {} /\ Cells(Registry)' \in Seq(Cell) /\ faults' = faults + 1
  <2>1. CASE ok /\ write_done(Registry, write(job.db))
             /\ hurt' = IF faults' = faults THEN hurt ELSE hurt \cup {"write"}
    <3>1. CASE card' = With(Registry, write(job.db)) /\ NoFault
      BY <2>1, <3>1, CellsWith DEF NoFault
    <3>2. CASE Fault /\ \E k \in 0 .. Len(write(job.db)) :
                          card' = With(Registry, SubSeq(write(job.db), 1, k))
      <4>1. Cells(Registry)' \in Seq(Cell)
        BY <1>5, <3>2, FirstCells, CellsWith
      <4>2. faults' = faults + 1 /\ faults' # faults
        BY <1>3, <3>2 DEF Fault
      <4> QED BY <2>1, <4>1, <4>2
    <3> QED BY <2>1, <3>1, <3>2 DEF write_done
  <2>2. CASE ~ok /\ UNCHANGED <<card, hurt>> /\ Fault
    BY <2>2 DEF Cells, Fault
  <2>3. CASE ~ok /\ Torn(Registry, 0, write(job.db)) /\ Fault /\ hurt' = hurt \cup {"write"}
    BY <1>3, <1>5, <2>3, TornTyped DEF Fault
  <2> QED BY <1>1, <2>1, <2>2, <2>3
<1>8. /\ Cells(Registry)' \in Seq(Cell) /\ faults' \in Nat
      /\ hurt' = {} => hurt = {}
      /\ faults' = 0 => ok /\ faults = 0 /\ hurt' = hurt
  BY <1>3, <1>5, <1>7 DEF TypeOK
<1>9. TypeOK'
  BY <1>2, <1>3, <1>6, <1>8 DEF TypeOK, StackOK
<1>10. ChoiceOK'
  BY <1>2, <1>3, <1>6 DEF ChoiceOK, OnRule
<1>11. EditMade'
  <2>1. PICK db \in Seq(Cell) : Len(db) <= KnownMax /\ job.db \in Edited(db)
    BY <1>2, <1>3 DEF EditMade
  <2>2. job'.db \in Edited(db)'
    BY <1>6, <2>1, SameEdit
  <2> QED BY <1>6, <2>1, <2>2 DEF EditMade, Saved
<1>12. Edited(wanted)' = Edited(wanted) /\ AfterEdit(wanted)' = AfterEdit(wanted)
  BY <1>2, <1>6, SameEditOfWanted
<1>13. RulesHeld'
  <2> SUFFICES ASSUME hurt' = {} PROVE RulesHeld'
    BY DEF RulesHeld
  <2>1. hurt = {} /\ Usable
    BY <1>2, <1>8 DEF IInv, RulesHeld
  <2>2. /\ wanted \in Seq(Cell) /\ Len(wanted) <= KnownMax
        /\ load = [ok |-> TRUE, db |-> wanted]
        /\ Edited(wanted) # {} /\ job.db = AfterEdit(wanted)
    BY <1>2, <1>3, <2>1 DEF IInv, RulesHeld, Loads
  <2>3. ok => load' = [ok |-> TRUE, db |-> job.db]
    BY <1>4, <1>7, LoadIs, LoadOfWritten
  <2>4. ~ok => load' = load
    BY <1>7, LoadIs
  <2> QED BY <1>2, <1>6, <1>12, <2>1, <2>2, <2>3, <2>4 DEF RulesHeld, Saved, Usable, Loads
<1>14. RowHeld'
  BY <1>2, <1>8 DEF IInv, RowHeld, OnRule
<1>15. WhyHeld'
  <2> SUFFICES ASSUME hurt' = {}, ~ok, job.edit \notin {"Remove", "Rename"}
               PROVE  Len(wanted) < KnownMax
    BY <1>1, <1>2, <1>6 DEF WhyHeld
  <2>1. Edited(wanted) # {} /\ wanted \in Seq(Cell) /\ Len(wanted) <= KnownMax
    BY <1>2, <1>8 DEF IInv, RulesHeld
  <2>2. job.edit \in {"Ssid", "Device"}
    BY <1>4 DEF JobOK, Edits
  <2>3. Len(wanted) # KnownMax
    BY <1>4, <2>1, <2>2, FullListKept
  <2> QED BY <2>1, <2>3, MaxIsNat
<1> QED BY <1>2, <1>3, <1>9, <1>10, <1>11, <1>13, <1>14, <1>15, Unsaid DEF IInv

(* Where an edit ends: the rules are those loaded, and the user was told.  *)
LEMMA EndOfEdit ==
  ASSUME IInv, job.step \in {"Load", "Reload"}, hurt = {}, known' = load.db \/ known' = << >>,
         wanted' = IF Saved /\ Edited(wanted) # {} THEN AfterEdit(wanted) ELSE wanted
  PROVE  /\ Usable => /\ wanted' \in Seq(Cell) /\ Len(wanted') <= KnownMax
                      /\ load = [ok |-> TRUE, db |-> wanted']
         /\ ~Usable => wanted' = << >>
         /\ known' = << >> \/ known' = wanted'
         /\ Usable /\ ~Saved => wanted' = wanted
         /\ Usable /\ job.edit = "Rename" => Len(wanted') = Len(wanted)
<1>1. TypeOK /\ ChoiceOK /\ EditMade /\ job.step # "Idle"
  BY DEF IInv
<1>2. JobOK
  BY <1>1, ChosenJob
<1>3. CASE Usable /\ Saved
  <2>1. wanted \in Seq(Cell) /\ Len(wanted) <= KnownMax /\ Edited(wanted) # {}
        /\ job.db = AfterEdit(wanted) /\ load = [ok |-> TRUE, db |-> job.db]
    BY <1>3 DEF IInv, RulesHeld, Loads
  <2>2. wanted' = AfterEdit(wanted)
    BY <1>3, <2>1
  <2>3. /\ AfterEdit(wanted) \in Seq(Cell) /\ Len(AfterEdit(wanted)) <= KnownMax
        /\ job.edit = "Rename" => Len(AfterEdit(wanted)) = Len(wanted)
    BY <1>2, <2>1, WantedEdited
  <2> QED BY <1>3, <2>1, <2>2, <2>3
<1>4. CASE Usable /\ ~Saved
  <2>1. load = [ok |-> TRUE, db |-> wanted] /\ wanted \in Seq(Cell) /\ Len(wanted) <= KnownMax
    BY <1>1, <1>4, LoadSeen
  <2> QED BY <1>4, <2>1
<1>5. CASE ~Usable
  <2>1. ~Saved /\ wanted = << >>
    BY <1>5 DEF IInv, RulesHeld
  <2>2. load = NotRead
    BY <1>1, <1>5, <2>1, LoadSeen
  <2> QED BY <1>5, <2>1, <2>2 DEF NotRead
<1> QED BY <1>3, <1>4, <1>5

(* The screen an edit ends on: the registry after an edit, or the message. *)
LEMMA EndScreen ==
  ASSUME IInv, EditEnds
  PROVE  /\ StackOK' /\ job.step = "Reload" /\ JobOK
         /\ OnRule' => OnRule /\ (job.ok => job.edit = "Rename") /\ job.edit # "Remove"
         /\ \/ job.ok \/ job.edit = "Remove"
            \/ Last(stack)' = "Msg"
         /\ Len(stack') >= 3 => stack'[2] = stack[2] /\ Len(stack) >= 3
         /\ Len(stack') >= 4 => Last(stack) = "MarkLabel"
         /\ Len(stack') >= 4 /\ stack'[2] = "Known" => Len(stack) >= 4
<1>1. job.step = "Reload" /\ TypeOK /\ ChoiceOK /\ StackOK
  BY DEF EditEnds, IInv, TypeOK
<1>2. JobOK
  BY <1>1, ChosenJob
<1>3. IF job.ok \/ job.edit = "Remove" THEN stack' = Front(stack) ELSE stack' = Append(stack, "Msg")
  BY DEF EditEnds
<1>4. \/ /\ Len(stack) = 3 /\ stack[2] \in {"Detail", "Networks"} /\ stack[3] = "MarkLabel"
         /\ job.edit \in {"Device", "Ssid"} /\ Last(stack) = "MarkLabel"
      \/ /\ Len(stack) = 4 /\ stack[2] = "Known" /\ job.edit = "Rename" /\ Last(stack) = "MarkLabel"
         /\ stack[3] = "KnownActions" /\ stack[4] = "MarkLabel"
      \/ /\ Len(stack) = 3 /\ stack[2] = "Known" /\ job.edit = "Remove"
  <2>1. CASE Last(stack) = "KnownActions" /\ job.edit = "Remove"
    BY <1>1, <2>1, LastScreen
  <2>2. CASE Last(stack) = "MarkLabel" /\ job.edit = chosen[1]
    <3>1. CASE Len(stack) = 3 /\ stack[2] \in {"Detail", "Networks"}
      <4>1. stack[3] = "MarkLabel"
        BY <1>1, <3>1 DEF StackOK
      <4>2. job.edit \in {"Device", "Ssid"}
        BY <1>1, <2>2, <3>1 DEF ChoiceOK
      <4> QED BY <2>2, <3>1, <4>1, <4>2
    <3>2. CASE Len(stack) = 4 /\ stack[2] = "Known"
      <4>1. stack[3] = "KnownActions" /\ stack[4] = "MarkLabel"
        BY <1>1, <3>2 DEF StackOK
      <4>2. job.edit = "Rename"
        BY <1>1, <2>2, <3>2 DEF ChoiceOK
      <4> QED BY <2>2, <3>2, <4>1, <4>2
    <3> QED BY <1>1, <2>2, <3>1, <3>2, LastScreen
  <2> QED BY <1>1, <2>1, <2>2 DEF ChoiceOK
<1>5. CASE job.ok \/ job.edit = "Remove"
  <2>1. stack' = Front(stack) /\ Len(stack) >= 2
    BY <1>3, <1>4, <1>5
  <2>2. /\ StackOK' /\ Len(stack') = Len(stack) - 1
        /\ \A i \in 1 .. Len(stack) - 1 : stack'[i] = stack[i]
    BY <1>1, <2>1, Popped
  <2>3. stack'[2] = stack[2]
    BY <1>4, <2>2
  <2> QED BY <1>1, <1>2, <1>4, <1>5, <2>2, <2>3 DEF OnRule
<1>6. CASE ~(job.ok \/ job.edit = "Remove")
  <2>1. /\ stack' \in Seq(Scenes) /\ Len(stack') = Len(stack) + 1
        /\ \A i \in 1 .. Len(stack) : stack'[i] = stack[i]
        /\ stack'[Len(stack) + 1] = "Msg" /\ Last(stack)' = "Msg"
    BY <1>1, <1>3, <1>6, Pushed DEF Scenes
  <2>2. stack[1] = "Start"
    BY <1>1 DEF StackOK
  <2>3. CASE Len(stack) = 3
    <3>1. /\ Len(stack') = 4 /\ stack'[1] = "Start" /\ stack'[2] = stack[2] /\ stack'[3] = stack[3]
          /\ stack'[4] = "Msg" /\ stack[2] \in {"Detail", "Networks"} /\ stack[3] = "MarkLabel"
          /\ Last(stack) = "MarkLabel"
      BY <1>4, <1>6, <2>1, <2>2, <2>3
    <3>2. stack' \in Seq(Scenes)
      BY <2>1
    <3>3. StackOK'
      BY <3>1, <3>2 DEF StackOK
    <3>4. ~OnRule'
      BY <3>1 DEF OnRule
    <3> QED BY <1>1, <1>2, <2>1, <2>3, <3>1, <3>3, <3>4
  <2>4. CASE Len(stack) = 4
    <3>1. /\ Len(stack') = 5 /\ stack'[1] = "Start" /\ stack'[2] = "Known"
          /\ stack'[3] = "KnownActions" /\ stack'[4] = "MarkLabel" /\ stack'[5] = "Msg"
          /\ stack[2] = "Known" /\ job.edit = "Rename" /\ Last(stack) = "MarkLabel"
      BY <1>4, <2>1, <2>2, <2>4
    <3>2. stack' \in Seq(Scenes)
      BY <2>1
    <3>3. StackOK'
      BY <3>1, <3>2 DEF StackOK
    <3>4. OnRule
      BY <2>4, <3>1 DEF OnRule
    <3> QED BY <1>1, <1>2, <2>1, <2>4, <3>1, <3>3, <3>4
  <2> QED BY <1>4, <2>3, <2>4
<1> QED BY <1>5, <1>6

LEMMA EditEndsHolds == ASSUME IInv, EditEnds PROVE IInv'
<1>1. /\ job.step = "Reload" /\ LoadShown /\ job' = Idle /\ card' = card
      /\ chosen' = chosen /\ row' = row /\ original' = original /\ hurt' = hurt
      /\ wanted' = IF job.ok /\ Edited(wanted) # {} THEN AfterEdit(wanted) ELSE wanted
  BY DEF EditEnds, AfterEdit
<1>2. /\ TypeOK /\ ChoiceOK /\ told = NoMessage /\ faults \in Nat /\ (Saved <=> job.ok)
      /\ job' .step = "Idle"
  BY <1>1, IdleStep DEF IInv, ChoiceOK, TypeOK, Saved
<1>3. /\ known' = load.db \/ known' = << >>
      /\ faults' \in Nat /\ (faults' = 0 => faults = 0 /\ known' = load.db)
  BY <1>1, <1>2, ShownLoaded
<1>4. /\ StackOK' /\ JobOK
      /\ OnRule' => OnRule /\ (job.ok => job.edit = "Rename") /\ job.edit # "Remove"
      /\ job.ok \/ job.edit = "Remove" \/ Last(stack)' = "Msg"
      /\ Len(stack') >= 3 => stack'[2] = stack[2] /\ Len(stack) >= 3
      /\ Len(stack') >= 4 /\ stack'[2] = "Known" => Len(stack) >= 4
  BY EndScreen
<1>5. hurt = {} =>
        /\ Usable => /\ wanted' \in Seq(Cell) /\ Len(wanted') <= KnownMax
                     /\ load = [ok |-> TRUE, db |-> wanted']
        /\ ~Usable => wanted' = << >>
        /\ known' = << >> \/ known' = wanted'
        /\ Usable /\ ~Saved => wanted' = wanted
        /\ Usable /\ job.edit = "Rename" => Len(wanted') = Len(wanted)
  <2>1. wanted' = IF Saved /\ Edited(wanted) # {} THEN AfterEdit(wanted) ELSE wanted
    BY <1>1, <1>2
  <2> QED BY <1>1, <1>3, <2>1, EndOfEdit
<1>6. Cells(Registry)' = Cells(Registry) /\ load' = load
  BY <1>1 DEF Cells, load, read_file, file_size
<1>7. TypeOK'
  BY <1>1, <1>2, <1>3, <1>4, <1>6 DEF TypeOK
<1>8. /\ ~(job.ok \/ job.edit = "Remove") => told' \in {"Full", "Refused"}
      /\ job.ok \/ job.edit = "Remove" => told' = NoMessage
      /\ told' = "Full" /\ ~(job.ok \/ job.edit = "Remove") => Len(known') >= KnownMax
      /\ told' = "Refused" /\ ~(job.ok \/ job.edit = "Remove") => ~(Len(known') >= KnownMax)
  <2>1. ~(job.edit = "Device" /\ rule_from_signature(job.of, job.label) = {})
    <3> SUFFICES ASSUME job.edit = "Device" PROVE rule_from_signature(job.of, job.label) # {}
      OBVIOUS
    <3>1. job.of \in Durable /\ job.label \in Nat
      BY <1>4 DEF JobOK
    <3>2. \E r \in Cell : rule_from_signature(job.of, job.label) = {r}
      BY <3>1, RuleOfDurable
    <3> QED BY <3>2
  <2>2. CASE job.ok \/ job.edit = "Remove"
    BY <1>2, <2>2 DEF EditEnds
  <2>3. CASE ~(job.ok \/ job.edit = "Remove")
    <3>1. told' = Reason(Len(known') >= KnownMax, FALSE)
      BY <2>1, <2>3 DEF EditEnds, IsFull
    <3> QED BY <2>3, <3>1 DEF Reason
  <2> QED BY <2>2, <2>3
<1>9. ChoiceOK'
  <2>1. told' # NoMessage => Last(stack)' = "Msg"
    BY <1>4, <1>8
  <2> QED BY <1>1, <1>2, <1>4, <2>1 DEF ChoiceOK, OnRule
<1>10. EditMade'
  BY <1>2 DEF EditMade, Saved
<1>11. RulesHeld'
  <2> SUFFICES ASSUME hurt = {} PROVE RulesHeld'
    BY <1>1 DEF RulesHeld
  <2>1. CASE Usable
    BY <1>1, <1>2, <1>5, <1>6, <2>1 DEF RulesHeld, Usable, Saved, Loads
  <2>2. CASE ~Usable
    <3>1. Cells(Registry) = original
      BY <2>2 DEF IInv, RulesHeld
    <3> QED BY <1>1, <1>2, <1>5, <1>6, <2>2, <3>1 DEF RulesHeld, Usable, Saved
  <2> QED BY <2>1, <2>2
<1>12. RowHeld'
  <2> SUFFICES ASSUME hurt = {}, OnRule' PROVE row <= Len(wanted')
    BY <1>1 DEF RowHeld
  <2>1. row <= Len(wanted) /\ (job.ok => job.edit = "Rename")
    BY <1>4 DEF IInv, RowHeld
  <2>2. CASE Usable
    BY <1>2, <1>5, <2>1, <2>2
  <2>3. CASE ~Usable
    BY <1>5, <2>1, <2>3 DEF IInv, RulesHeld
  <2> QED BY <2>2, <2>3
<1>13. WhyHeld'
  BY <1>2 DEF WhyHeld
<1>14. ReasonIsTrue'
  <2> SUFFICES ASSUME told' # NoMessage, hurt = {} PROVE ReasonIsTrue'
    BY <1>1 DEF ReasonIsTrue
  <2>1. ~job.ok /\ job.edit # "Remove" /\ told' \in {"Full", "Refused"} /\ why' = why
    BY <1>8 DEF EditEnds
  <2>2. wanted' = wanted /\ Len(wanted) \in Nat /\ Len(wanted) <= KnownMax /\ KnownMax \in Nat
    <3>1. CASE Usable
      BY <1>2, <1>5, <2>1, <3>1, MaxIsNat
    <3>2. CASE ~Usable
      <4>1. wanted = << >> /\ wanted' = << >>
        BY <1>5, <3>2 DEF IInv, RulesHeld
      <4> QED BY <4>1, MaxIsNat, EmptySeq
    <3> QED BY <3>1, <3>2
  <2>3. known' = << >> \/ known' = wanted
    BY <1>5, <2>2
  <2>4. /\ why \in {"Unread", "Full", "Refused"}
        /\ why = "Full" => Len(wanted) = KnownMax
        /\ why = "Refused" /\ job.edit # "Rename" => Len(wanted) < KnownMax
    BY <1>1, <2>1 DEF IInv, WhyHeld
  <2>5. job.edit = "Rename" => chosen'[1] = "Rename"
    BY <1>1, <1>2, RenamedRow
  <2>6. CASE told' = "Full"
    <3>1. Len(known') >= KnownMax
      BY <1>8, <2>1, <2>6
    <3>2. Len(wanted) = KnownMax
      BY <2>2, <2>3, <3>1, EmptySeq
    <3>3. why = "Refused" => chosen'[1] = "Rename"
      BY <2>2, <2>4, <2>5, <3>2
    <3> QED BY <2>1, <2>2, <2>4, <2>6, <3>2, <3>3 DEF ReasonIsTrue
  <2>7. CASE told' = "Refused"
    <3>1. ~(Len(known') >= KnownMax)
      BY <1>8, <2>1, <2>7
    <3>2. why = "Full" => known' = << >>
      BY <2>2, <2>3, <2>4, <3>1
    <3> QED BY <2>1, <2>4, <2>7, <3>2 DEF ReasonIsTrue
  <2> QED BY <2>1, <2>6, <2>7
<1> QED BY <1>7, <1>9, <1>10, <1>11, <1>12, <1>13, <1>14 DEF IInv

LEMMA CrashHolds == ASSUME IInv, Crash PROVE IInv'
<1>1. /\ job.step # "Idle" /\ Fault /\ job' = Idle /\ original' = original
      /\ \/ job.step # "Save" /\ UNCHANGED <<card, hurt>>
         \/ /\ job.step = "Save" /\ Torn(Registry, 0, write(job.db))
            /\ hurt' = hurt \cup {"write"}
      /\ known' = load.db' /\ stack' = <<"Start">> /\ told' = NoMessage
      /\ wanted' = IF job.step = "Reload" /\ job.ok /\ Edited(wanted) # {}
                   THEN AfterEdit(wanted) ELSE wanted
  BY DEF Crash, AfterEdit
<1>2. /\ TypeOK /\ ChoiceOK /\ EditMade /\ faults \in Nat /\ job'.step = "Idle"
      /\ job.step \in {"Load", "Save", "Reload"}
  BY <1>1, IdleStep, JobOfEdit DEF IInv, TypeOK
<1>3. faults' \in Nat /\ faults' # 0
  BY <1>1, <1>2 DEF Fault
<1>4. Cells(Registry)' \in Seq(Cell)
  <2>1. CASE UNCHANGED card
    BY <1>2, <2>1 DEF TypeOK, Cells
  <2>2. CASE job.step = "Save" /\ Torn(Registry, 0, write(job.db))
    <3>1. job.db \in Seq(Cell) /\ Len(job.db) <= KnownMax
      BY <1>2, <2>2, MadeTyped
    <3> QED BY <1>2, <2>2, <3>1, ReadWritten, TornTyped
  <2> QED BY <1>1, <2>1, <2>2
<1>5. StackOK' /\ Len(stack') = 1
  <2>1. <<"Start">> \in Seq(Scenes) /\ Len(<<"Start">>) = 1
    BY DEF Scenes
  <2> QED BY <1>1, <2>1 DEF StackOK
<1>6. TypeOK'
  BY <1>1, <1>2, <1>3, <1>4, <1>5 DEF TypeOK
<1>7. ChoiceOK'
  BY <1>1, <1>2, <1>5 DEF ChoiceOK, OnRule
<1>8. EditMade'
  BY <1>2 DEF EditMade, Saved
<1>9. RulesHeld'
  <2> SUFFICES ASSUME hurt' = {} PROVE RulesHeld'
    BY DEF RulesHeld
  <2>1. job.step \in {"Load", "Reload"} /\ card' = card /\ hurt = {}
    BY <1>1, <1>2
  <2>2. Cells(Registry)' = Cells(Registry) /\ load' = load /\ known' = load.db
    BY <1>1, <2>1 DEF Cells, load, read_file, file_size
  <2>3. wanted' = IF Saved /\ Edited(wanted) # {} THEN AfterEdit(wanted) ELSE wanted
    BY <1>1 DEF Saved
  <2>4. /\ Usable => /\ wanted' \in Seq(Cell) /\ Len(wanted') <= KnownMax
                     /\ load = [ok |-> TRUE, db |-> wanted']
        /\ ~Usable => wanted' = << >>
        /\ known' = << >> \/ known' = wanted'
    BY <2>1, <2>2, <2>3, EndOfEdit
  <2>5. CASE Usable
    BY <1>1, <1>2, <2>2, <2>4, <2>5 DEF RulesHeld, Usable, Saved, Loads
  <2>6. CASE ~Usable
    <3>1. Cells(Registry) = original
      BY <2>1, <2>6 DEF IInv, RulesHeld
    <3> QED BY <1>1, <1>2, <2>2, <2>4, <2>6, <3>1 DEF RulesHeld, Usable, Saved
  <2> QED BY <2>5, <2>6
<1>10. RowHeld' /\ WhyHeld'
  BY <1>2, <1>5 DEF RowHeld, WhyHeld, OnRule
<1> QED BY <1>1, <1>6, <1>7, <1>8, <1>9, <1>10, Unsaid DEF IInv

-----------------------------------------------------------------------------
(* The theorems.                                                           *)

LEMMA InitHolds == ASSUME Init PROVE IInv
<1>1. /\ faults = 0 /\ original \in Registries /\ known = load.db /\ wanted = known
      /\ stack = <<"Start">> /\ told = NoMessage /\ job = Idle /\ hurt = {}
      /\ card = [x \in IF original = << >> THEN {} ELSE {Registry} |-> original]
  BY DEF Init
<1>2. Cells(Registry) = original /\ job.step = "Idle"
  <2>1. job.step = "Idle"
    BY <1>1, IdleStep
  <2>2. CASE original = << >>
    <3>1. card = [x \in {} |-> original]
      BY <1>1, <2>2
    <3>2. Registry \notin DOMAIN card
      BY <3>1, Zenon
    <3> QED BY <2>2, <2>1, <3>2 DEF Cells
  <2>3. CASE original # << >>
    <3>1. card = [x \in {Registry} |-> original]
      BY <1>1, <2>3
    <3>2. Registry \in DOMAIN card /\ card[Registry] = original
      BY <3>1, Zenon
    <3> QED BY <2>1, <3>2 DEF Cells
  <2> QED BY <2>2, <2>3
<1>3. original \in Seq(Cell)
  BY <1>1, KnownAssumption
<1>4. StackOK /\ Len(stack) = 1
  <2>1. <<"Start">> \in Seq(Scenes) /\ Len(<<"Start">>) = 1
    BY DEF Scenes
  <2> QED BY <1>1, <2>1 DEF StackOK
<1>5. TypeOK
  BY <1>1, <1>2, <1>3, <1>4 DEF TypeOK
<1>6. ChoiceOK
  BY <1>1, <1>2, <1>4 DEF ChoiceOK, OnRule
<1>7. EditMade
  BY <1>2 DEF EditMade, Saved
<1>8. RulesHeld
  <2>1. /\ load = [ok |-> load.ok, db |-> wanted]
        /\ wanted \in Seq(Cell) /\ Len(wanted) <= KnownMax
    BY <1>1, <1>5, LoadedTyped
  <2>2. CASE Usable
    <3>1. load.ok = TRUE
      BY <1>2, <1>3, <1>5, <2>2, LoadIs, LoadOfFound, LoadedTyped DEF Usable
    <3> QED BY <1>1, <1>2, <2>1, <2>2, <3>1 DEF RulesHeld, Saved, Loads
  <2>3. CASE ~Usable
    <3>1. load = NotRead
      BY <1>2, <1>3, <2>3, LoadIs, LoadOfFound DEF Usable
    <3> QED BY <1>1, <1>2, <2>3, <3>1 DEF RulesHeld, Saved, NotRead
  <2> QED BY <2>2, <2>3
<1>9. RowHeld /\ WhyHeld
  BY <1>2, <1>4 DEF RowHeld, WhyHeld, OnRule
<1>10. ReasonIsTrue
  BY <1>1, Messages DEF ReasonIsTrue
<1> QED BY <1>5, <1>6, <1>7, <1>8, <1>9, <1>10 DEF IInv

LEMMA StutterHolds == ASSUME IInv, UNCHANGED vars PROVE IInv'
<1>1. /\ card' = card /\ faults' = faults /\ known' = known /\ job' = job /\ original' = original
      /\ wanted' = wanted /\ why' = why /\ hurt' = hurt
      /\ stack' = stack /\ chosen' = chosen /\ row' = row /\ told' = told
  BY DEF vars, screenVars, history
<1>2. Cells(Registry)' = Cells(Registry) /\ load' = load
  BY <1>1 DEF Cells, load, read_file, file_size
<1>3. Edited(wanted)' = Edited(wanted) /\ AfterEdit(wanted)' = AfterEdit(wanted)
  BY <1>1, SameEditOfWanted
<1>4. TypeOK' /\ ChoiceOK'
  BY <1>1, <1>2 DEF IInv, TypeOK, StackOK, ChoiceOK, OnRule
<1>5. EditMade'
  BY <1>1, SameEdit DEF IInv, EditMade, Saved
<1>6. RulesHeld'
  BY <1>1, <1>2, <1>3 DEF IInv, RulesHeld, Saved, Usable, Loads
<1>7. RowHeld' /\ WhyHeld' /\ ReasonIsTrue'
  BY <1>1 DEF IInv, RowHeld, WhyHeld, OnRule, ReasonIsTrue
<1> QED BY <1>4, <1>5, <1>6, <1>7 DEF IInv

LEMMA NextHolds == ASSUME IInv, [Next]_vars PROVE IInv'
<1>1. CASE UNCHANGED vars
  BY <1>1, StutterHolds
<1>2. CASE \E scene \in {"Detail", "Networks", "Known"} : GoTo("Start", scene)
  BY <1>2, GoToHolds
<1>3. CASE Back
  BY <1>3, BackHolds
<1>4. CASE \E d \in Devices : MarkDevice(d)
  BY <1>4, MarkHolds DEF MarkDevice, Durable
<1>5. CASE \E n \in Networks : MarkNetwork(n)
  BY <1>5, MarkHolds DEF MarkNetwork
<1>6. CASE \E i \in 1 .. KnownMax : PickKnown(i)
  BY <1>6, PickHolds
<1>7. CASE RenameKnown
  BY <1>7, MarkHolds DEF RenameKnown
<1>8. CASE \E label \in Labels : LabelDone(label)
  BY <1>8, LabelHolds
<1>9. CASE DeleteKnown
  BY <1>9, DeleteHolds
<1>10. CASE LoadForEdit
  BY <1>10, LoadForEditHolds
<1>11. CASE SaveEdited
  BY <1>11, SaveHolds
<1>12. CASE EditEnds
  BY <1>12, EditEndsHolds
<1>13. CASE Crash
  BY <1>13, CrashHolds
<1> QED BY <1>1, <1>2, <1>3, <1>4, <1>5, <1>6, <1>7, <1>8, <1>9, <1>10, <1>11, <1>12, <1>13 DEF Next

(* The registry is where the edits have brought it, on every screen.       *)
THEOREM Invariance == Spec => []IInv
<1>1. Init => IInv
  BY InitHolds
<1>2. IInv /\ [Next]_vars => IInv'
  BY NextHolds
<1> QED BY <1>1, <1>2, PTL DEF Spec

(* Whatever reads fail and wherever the power goes, the registry holds the *)
(* rules the user was told of, and a file that is no registry is never     *)
(* written over (wc_known_service.c).                                      *)
THEOREM RegistryHolds == Spec => []RegistryIntact
<1>1. IInv => RegistryIntact
  BY DEF IInv, RulesHeld, RegistryIntact, Usable, Saved, Loads
<1> QED BY <1>1, Invariance, PTL

(* A device that was marked is recognised from then on, whatever else the  *)
(* registry holds (wc_known_rule_from_signature, wc_known_match).          *)
THEOREM MarkedStaysKnown == Spec => []MarkedIsKnown
<1>1. ASSUME IInv PROVE MarkedIsKnown
  <2> SUFFICES ASSUME job.step = "Reload", job.ok, job.edit = "Device"
               PROVE  match(job.db, job.of) # {}
    BY DEF MarkedIsKnown
  <2>1. PICK db \in Seq(Cell) : Len(db) <= KnownMax /\ job.db \in Edited(db)
    BY <1>1 DEF IInv, EditMade, Saved
  <2>2. JobOK
    BY <1>1, ChosenJob DEF IInv
  <2> QED BY <2>1, <2>2, EditProperties
<1> QED BY <1>1, Invariance, PTL

(* The message after a refused edit is the reason for it, but for the      *)
(* cases that ReasonIsTrue names (wc_scene_mark_label_on_event).           *)
THEOREM ReasonHolds == Spec => []ReasonIsTrue
<1>1. IInv => ReasonIsTrue
  BY DEF IInv
<1> QED BY <1>1, Invariance, PTL
=============================================================================
