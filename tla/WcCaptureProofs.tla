--------------------------- MODULE WcCaptureProofs ---------------------------
(***************************************************************************)
(* For captures of any size, on a card with any other files.               *)
(*                                                                         *)
(* The save (WcCaptureStore): the codec reads back what it writes, and a   *)
(* save that fails or is cut short at any call never leaves a file that    *)
(* opens as something else.  While a capture is written, its file is a     *)
(* first part of the whole; the header promises how many records there     *)
(* are, and the loader asks the file for exactly that size.                *)
(*                                                                         *)
(* The screens (WcBrowse): the stack is a path, and what was picked,       *)
(* listed and read is tied to the place on it.  From this invariant follow *)
(* the properties of the screens, those of the sidecars and of the         *)
(* messages for a card that fails at nothing, and the refinement of        *)
(* WcShelf, step by step.                                                  *)
(***************************************************************************)
EXTENDS WcBrowse, SequenceTheorems, TLAPS

Cell == Nat \X Nat \X Nat

(* What a capture is once all of it is written.                            *)
Encoded(devices) ==
  [i \in 1 .. 2 + 2 * Len(devices) |->
     IF i <= 2 THEN put_header(devices)[i]
     ELSE put_record(devices[(i - 1) \div 2])[IF i % 2 = 1 THEN 1 ELSE 2]]

FirstPart(devices, k) == SubSeq(Encoded(devices), 1, k)

-----------------------------------------------------------------------------
(* The codec.                                                              *)

LEMMA Sizes == header_size = 2 /\ record_size(Version) = 2 /\ Version = 2
BY DEF header_size, record_size, Version

LEMMA EncodedCells ==
  ASSUME NEW devices \in Seq(Nat)
  PROVE  /\ Encoded(devices) \in Seq(Cell)
         /\ Len(Encoded(devices)) = 2 + 2 * Len(devices)
         /\ Encoded(devices)[1] = Magic
         /\ Encoded(devices)[2] = <<1, Len(devices), 2>>
         /\ \A j \in 1 .. Len(devices) :
              /\ Encoded(devices)[2 * j + 1] = <<2, devices[j], 1>>
              /\ Encoded(devices)[2 * j + 2] = <<2, devices[j], 2>>
<1> DEFINE n == Len(devices)
<1>1. n \in Nat /\ \A j \in 1 .. n : devices[j] \in Nat
  OBVIOUS
<1> HIDE DEF n
<1>2. \A i \in 1 .. 2 + 2 * n :
        (IF i <= 2 THEN put_header(devices)[i]
         ELSE put_record(devices[(i - 1) \div 2])[IF i % 2 = 1 THEN 1 ELSE 2]) \in Cell
  <2> SUFFICES ASSUME NEW i \in 1 .. 2 + 2 * n
               PROVE  (IF i <= 2 THEN put_header(devices)[i]
                       ELSE put_record(devices[(i - 1) \div 2])[IF i % 2 = 1 THEN 1 ELSE 2]) \in Cell
    OBVIOUS
  <2>1. CASE i = 1
    BY <1>1, <2>1 DEF put_header, Magic, Cell
  <2>2. CASE i = 2
    BY <1>1, <2>2 DEF put_header, Version, Cell, n
  <2>3. CASE i > 2
    <3> DEFINE j == (i - 1) \div 2
    <3>1. j \in 1 .. n
      BY <1>1, <2>3
    <3>2. devices[j] \in Nat
      BY <1>1, <3>1
    <3> HIDE DEF j
    <3>3. \A b \in {1, 2} : put_record(devices[j])[b] \in Cell
      BY <3>2 DEF put_record, Cell
    <3>4. put_record(devices[j])[IF i % 2 = 1 THEN 1 ELSE 2] \in Cell
      BY <3>3
    <3> QED BY <2>3, <3>4 DEF j
  <2> QED BY <2>1, <2>2, <2>3
<1>3. Encoded(devices) \in [1 .. 2 + 2 * n -> Cell]
  BY <1>2 DEF Encoded, n
<1>4. Encoded(devices) \in Seq(Cell) /\ Len(Encoded(devices)) = 2 + 2 * n
  BY <1>1, <1>3
<1>5. Encoded(devices)[1] = Magic /\ Encoded(devices)[2] = <<1, n, 2>>
  BY <1>1 DEF Encoded, put_header, Version, n
<1>6. ASSUME NEW j \in 1 .. n
      PROVE  /\ Encoded(devices)[2 * j + 1] = <<2, devices[j], 1>>
             /\ Encoded(devices)[2 * j + 2] = <<2, devices[j], 2>>
  <2>1. /\ 2 * j + 1 \in 1 .. 2 + 2 * n /\ 2 * j + 2 \in 1 .. 2 + 2 * n
        /\ ~(2 * j + 1 <= 2) /\ ~(2 * j + 2 <= 2)
    BY <1>1
  <2>2. (2 * j + 1 - 1) \div 2 = j /\ (2 * j + 1) % 2 = 1
    BY <1>1
  <2>3. (2 * j + 2 - 1) \div 2 = j /\ (2 * j + 2) % 2 # 1
    BY <1>1
  <2>4. Encoded(devices)[2 * j + 1] = put_record(devices[j])[1]
    BY <2>1, <2>2 DEF Encoded, n
  <2>5. Encoded(devices)[2 * j + 2] = put_record(devices[j])[2]
    BY <2>1, <2>3 DEF Encoded, n
  <2> QED BY <2>4, <2>5 DEF put_record
<1> QED BY <1>4, <1>5, <1>6 DEF n

LEMMA FirstPartCells ==
  ASSUME NEW devices \in Seq(Nat), NEW k \in 0 .. 2 + 2 * Len(devices)
  PROVE  /\ FirstPart(devices, k) \in Seq(Cell)
         /\ Len(FirstPart(devices, k)) = k
         /\ \A i \in 1 .. k : FirstPart(devices, k)[i] = Encoded(devices)[i]
<1>1. \A i \in 1 .. k : Encoded(devices)[i] \in Cell
  BY EncodedCells, ElementOfSeq
<1> QED BY <1>1, SubSeqProperties DEF FirstPart

(* What the loader finds where a first part of a capture is.               *)
LEMMA HeadOfFirstPart ==
  ASSUME NEW devices \in Seq(Nat), NEW k \in 0 .. 2 + 2 * Len(devices), NEW f,
         Cells(f) = FirstPart(devices, k)
  PROVE  /\ file_size(f) = k
         /\ k < 2 => ~IsHeader(read_range(f, 0, header_size))
         /\ k >= 2 =>
              /\ IsHeader(read_range(f, 0, header_size))
              /\ Count(read_range(f, 0, header_size)) = Len(devices)
              /\ VersionOf(read_range(f, 0, header_size)) = 2
<1> DEFINE part == FirstPart(devices, k)
           head == read_range(f, 0, header_size)
           n == IF 2 < k THEN 2 ELSE k
<1>1. /\ part \in Seq(Cell) /\ Len(part) = k
      /\ \A i \in 1 .. k : part[i] = Encoded(devices)[i]
  BY FirstPartCells
<1>2. file_size(f) = k
  BY <1>1 DEF file_size
<1>3. head = SubSeq(part, 1, n)
  BY <1>2 DEF read_range, header_size
<1>4. n \in 0 .. 2 /\ n <= k /\ \A i \in 1 .. n : part[i] \in Cell
  BY <1>1, ElementOfSeq
<1> HIDE DEF part, head, n
<1>5. Len(head) = n /\ \A i \in 1 .. n : head[i] = part[i]
  BY <1>3, <1>4, SubSeqProperties
<1>6. k < 2 => ~IsHeader(head)
  BY <1>5 DEF IsHeader, header_size, n
<1>7. k >= 2 => IsHeader(head) /\ Count(head) = Len(devices) /\ VersionOf(head) = 2
  <2> SUFFICES ASSUME k >= 2 PROVE IsHeader(head) /\ Count(head) = Len(devices) /\ VersionOf(head) = 2
    OBVIOUS
  <2>1. n = 2
    BY DEF n
  <2>2. head[1] = part[1] /\ head[2] = part[2]
    BY <1>5, <2>1
  <2>3. part[1] = Encoded(devices)[1] /\ part[2] = Encoded(devices)[2]
    BY <1>1
  <2>4. head[1] = Magic /\ head[2] = <<1, Len(devices), 2>>
    BY <2>2, <2>3, EncodedCells
  <2> QED BY <1>5, <2>1, <2>4 DEF IsHeader, header_size, Count, VersionOf
<1> QED BY <1>2, <1>6, <1>7 DEF head

(* A capture of which a part is missing never opens.                       *)
LEMMA TornDoesNotLoad ==
  ASSUME NEW devices \in Seq(Nat), NEW k \in 0 .. 2 + 2 * Len(devices), NEW f, NEW max,
         Cells(f) = FirstPart(devices, k), Loads(f, max)
  PROVE  k = 2 + 2 * Len(devices)
<1>1. k >= 2
  BY HeadOfFirstPart DEF Loads
<1> QED BY <1>1, HeadOfFirstPart DEF Loads, header_size, record_size

(* A whole one does, where there is room for it.                           *)
LEMMA WholeLoads ==
  ASSUME NEW devices \in Seq(Nat), NEW f, NEW max \in Nat, Len(devices) <= max,
         Cells(f) = FirstPart(devices, 2 + 2 * Len(devices))
  PROVE  Loads(f, max)
<1>1. 2 + 2 * Len(devices) \in 0 .. 2 + 2 * Len(devices) /\ 2 + 2 * Len(devices) >= 2
  OBVIOUS
<1>2. Len(devices) * 2 = 2 * Len(devices)
  OBVIOUS
<1> QED BY <1>1, <1>2, HeadOfFirstPart DEF Loads, header_size, record_size, Version

(* And what is read of it is what was written.                             *)
LEMMA StreamIsWritten ==
  ASSUME NEW devices \in Seq(Nat), NEW f,
         Cells(f) = FirstPart(devices, 2 + 2 * Len(devices))
  PROVE  stream(f) = devices
<1> DEFINE n == Len(devices)
           all == FirstPart(devices, 2 + 2 * n)
<1>1. n \in Nat /\ \A j \in 1 .. n : devices[j] \in Nat
  OBVIOUS
<1>2. 2 + 2 * n \in 0 .. 2 + 2 * n /\ 2 + 2 * n >= 2
  BY <1>1
<1>3. /\ file_size(f) = 2 + 2 * n
      /\ Count(read_range(f, 0, header_size)) = n
      /\ record_size(VersionOf(read_range(f, 0, header_size))) = 2
  BY <1>2, HeadOfFirstPart DEF record_size
<1>4. all \in Seq(Cell) /\ Len(all) = 2 + 2 * n
      /\ \A i \in 1 .. 2 + 2 * n : all[i] = Encoded(devices)[i]
  BY <1>2, FirstPartCells
<1> HIDE DEF n, all
<1>5. ASSUME NEW j \in 1 .. n
      PROVE  read_range(f, header_size + (j - 1) * 2, 2)[1][2] = devices[j]
  <2> DEFINE at == 2 + (j - 1) * 2
             record == SubSeq(all, at + 1, at + 2)
  <2>1. at \in Nat /\ at + 1 = 2 * j + 1 /\ at + 2 <= 2 + 2 * n
    BY <1>1
  <2>2. read_range(f, header_size + (j - 1) * 2, 2) = record
    <3>1. Cells(f) = all
      BY DEF all, n
    <3>2. (IF at + 2 < file_size(f) THEN at + 2 ELSE file_size(f)) = at + 2
      BY <1>1, <1>3, <2>1
    <3> QED BY <3>1, <3>2 DEF read_range, header_size
  <2>3. \A i \in at + 1 .. at + 2 : all[i] \in Cell
    BY <1>4, <2>1, ElementOfSeq
  <2> HIDE DEF at
  <2>4. record[1] = all[at + 1]
    BY <2>1, <2>3, SubSeqProperties
  <2>5. all[at + 1] = <<2, devices[j], 1>>
    <3>1. Encoded(devices)[2 * j + 1] = <<2, devices[j], 1>>
      BY EncodedCells DEF n
    <3>2. all[2 * j + 1] = Encoded(devices)[2 * j + 1]
      BY <1>1, <1>4, <2>1
    <3> QED BY <2>1, <3>1, <3>2
  <2> HIDE DEF record
  <2>6. record[1][2] = devices[j]
    BY <2>4, <2>5
  <2> QED BY <2>2, <2>6
<1>6. stream(f) = [j \in 1 .. n |-> devices[j]]
  BY <1>3, <1>5 DEF stream
<1>7. devices = [j \in 1 .. n |-> devices[j]]
  BY LenProperties DEF n
<1> QED BY <1>6, <1>7

-----------------------------------------------------------------------------
(* A save of one capture, from any card, each call of which may fail or be *)
(* the one at which the power goes.                                        *)

Jobs == [step : {"Open", "Write", "Failed", "Saved"}, name : Names, ext : {"wcen", "csv"},
         devices : Seq(Nat), at : Nat, then : {"Merge", "Import", "ImportDropped"}]

PowerCut == job.step \in {"Open", "Write"} /\ CutShort /\ Failed

SaveInit == job \in Jobs /\ job.step = "Open" /\ job.ext = "wcen" /\ job.at = 0
SaveSpec == SaveInit /\ [][Save \/ PowerCut]_<<card, faults, job>>

Stored == Cells(Bin(job.name))
Size == 2 + 2 * Len(job.devices)

(* How much of the capture there is at each step; old is what was there    *)
(* when the save began.                                                    *)
SaveInv(old) ==
  /\ job \in Jobs
  /\ job.ext = "wcen" =>
       /\ job.step # "Saved"
       /\ job.step = "Open" => Stored = old /\ job.at = 0
       /\ job.step = "Write" =>
            job.at <= Len(job.devices) + 1 /\ Stored = FirstPart(job.devices, Position)
       /\ job.step = "Failed" =>
            Stored = old \/ \E k \in 0 .. Size : Stored = FirstPart(job.devices, k)
  /\ job.ext = "csv" => Stored = FirstPart(job.devices, Size)

(* A first part with the next cells behind it is a longer first part.      *)
LEMMA OneChunkMore ==
  ASSUME NEW devices \in Seq(Nat), NEW k \in Nat, k + 2 <= 2 + 2 * Len(devices),
         NEW cells \in Seq(Cell), Len(cells) = 2,
         cells[1] = Encoded(devices)[k + 1], cells[2] = Encoded(devices)[k + 2]
  PROVE  FirstPart(devices, k) \o cells = FirstPart(devices, k + 2)
<1> DEFINE a == FirstPart(devices, k)
           b == FirstPart(devices, k + 2)
<1>1. k \in 0 .. 2 + 2 * Len(devices) /\ k + 2 \in 0 .. 2 + 2 * Len(devices)
  OBVIOUS
<1>2. a \in Seq(Cell) /\ Len(a) = k /\ \A i \in 1 .. k : a[i] = Encoded(devices)[i]
  BY <1>1, FirstPartCells
<1>3. b \in Seq(Cell) /\ Len(b) = k + 2 /\ \A i \in 1 .. k + 2 : b[i] = Encoded(devices)[i]
  BY <1>1, FirstPartCells
<1> HIDE DEF a, b
<1>4. /\ a \o cells \in Seq(Cell) /\ Len(a \o cells) = k + 2
      /\ \A i \in 1 .. k + 2 : (a \o cells)[i] = IF i <= k THEN a[i] ELSE cells[i - k]
  <2>1. /\ a \o cells \in Seq(Cell) /\ Len(a \o cells) = Len(a) + Len(cells)
        /\ \A i \in 1 .. Len(a) + Len(cells) :
             (a \o cells)[i] = IF i <= Len(a) THEN a[i] ELSE cells[i - Len(a)]
    BY <1>2, ConcatProperties
  <2> QED BY <1>2, <2>1
<1>5. ASSUME NEW i \in 1 .. k + 2 PROVE (a \o cells)[i] = b[i]
  <2>1. CASE i <= k
    <3>1. i \in 1 .. k /\ i \in 1 .. k + 2
      BY <2>1
    <3>2. (a \o cells)[i] = a[i]
      BY <1>4, <2>1, <3>1
    <3>3. a[i] = Encoded(devices)[i] /\ b[i] = Encoded(devices)[i]
      BY <1>2, <1>3, <3>1
    <3> QED BY <3>2, <3>3
  <2>2. CASE i = k + 1
    <3>1. (a \o cells)[i] = cells[1]
      BY <1>4, <2>2
    <3> QED BY <1>3, <2>2, <3>1
  <2>3. CASE i = k + 2
    <3>1. (a \o cells)[i] = cells[2]
      BY <1>4, <2>3
    <3> QED BY <1>3, <2>3, <3>1
  <2>4. i <= k \/ i = k + 1 \/ i = k + 2
    <3>1. i \in Int /\ i <= k + 2
      OBVIOUS
    <3> QED BY <3>1
  <2> QED BY <2>1, <2>2, <2>3, <2>4
<1>6. a \o cells = b
  BY <1>3, <1>4, <1>5, SeqEqual
<1> QED BY <1>6 DEF a, b

(* What was written last is a chunk of the encoding.                       *)
LEMMA ChunkOfEncoding ==
  ASSUME job \in Jobs, job.ext = "wcen", job.at <= Len(job.devices)
  PROVE  /\ Position \in Nat /\ Position + 2 <= Size
         /\ Chunk \in Seq(Cell) /\ Len(Chunk) = 2
         /\ Chunk[1] = Encoded(job.devices)[Position + 1]
         /\ Chunk[2] = Encoded(job.devices)[Position + 2]
<1> DEFINE devices == job.devices
           at == job.at
<1>1. devices \in Seq(Nat) /\ at \in Nat /\ Len(devices) \in Nat
  BY DEF Jobs
<1> HIDE DEF devices, at
<1>2. CASE at = 0
  <2>1. Position = 0 /\ Chunk = <<Magic, <<1, Len(devices), 2>> >>
    BY <1>2 DEF Position, Chunk, put_header, Version, devices, at
  <2>2. Magic \in Cell /\ <<1, Len(devices), 2>> \in Cell
    BY <1>1 DEF Magic, Cell
  <2>3. Encoded(devices)[1] = Magic /\ Encoded(devices)[2] = <<1, Len(devices), 2>>
    BY <1>1, EncodedCells
  <2> QED BY <1>1, <2>1, <2>2, <2>3 DEF Size, devices
<1>3. CASE at > 0
  <2>1. at \in 1 .. Len(devices)
    BY <1>1, <1>3 DEF devices, at
  <2>2. Position = 2 * at
    BY <1>1, <1>3 DEF Position, header_size, record_size, Version, devices, at
  <2>3. Chunk = << <<2, devices[at], 1>>, <<2, devices[at], 2>> >>
    BY <1>1, <1>3 DEF Chunk, put_record, devices, at
  <2>4. devices[at] \in Nat
    BY <1>1, <2>1
  <2>5. <<2, devices[at], 1>> \in Cell /\ <<2, devices[at], 2>> \in Cell
    BY <2>4 DEF Cell
  <2>6. /\ Encoded(devices)[2 * at + 1] = <<2, devices[at], 1>>
        /\ Encoded(devices)[2 * at + 2] = <<2, devices[at], 2>>
    BY <1>1, <2>1, EncodedCells
  <2> QED BY <1>1, <2>1, <2>2, <2>3, <2>5, <2>6 DEF Size, devices
<1> QED BY <1>1, <1>2, <1>3

(* A write at the end of a first part adds the next chunk to it.           *)
LEMMA WrittenGrows ==
  ASSUME job \in Jobs, job.ext = "wcen", job.at <= Len(job.devices),
         Cells(File) = FirstPart(job.devices, Position)
  PROVE  Written(File, Position, Chunk) = FirstPart(job.devices, Position + 2)
<1> DEFINE part == FirstPart(job.devices, Position)
<1>1. /\ Position \in Nat /\ Position + 2 <= Size
      /\ Chunk \in Seq(Cell) /\ Len(Chunk) = 2
      /\ Chunk[1] = Encoded(job.devices)[Position + 1]
      /\ Chunk[2] = Encoded(job.devices)[Position + 2]
  BY ChunkOfEncoding
<1>2. job.devices \in Seq(Nat) /\ Len(job.devices) \in Nat
  BY DEF Jobs
<1>3. Position \in 0 .. 2 + 2 * Len(job.devices)
  BY <1>1, <1>2 DEF Size
<1>4. part \in Seq(Cell) /\ Len(part) = Position
  BY <1>2, <1>3, FirstPartCells
<1> HIDE DEF part
<1>5. Cells(File) = part /\ file_size(File) = Position
  BY <1>4 DEF file_size, part
<1>6. SubSeq(part, 1, Position) = part
  <2>1. \A i \in 1 .. Position : part[i] \in Cell
    BY <1>4, ElementOfSeq
  <2>2. /\ SubSeq(part, 1, Position) \in Seq(Cell) /\ Len(SubSeq(part, 1, Position)) = Position
        /\ \A i \in 1 .. Position : SubSeq(part, 1, Position)[i] = part[i]
    BY <1>1, <2>1, SubSeqProperties
  <2> QED BY <1>4, <2>2, SeqEqual
<1>7. SubSeq(part, Position + 2 + 1, Position) = << >>
  BY <1>1, SubSeqEmpty
<1>8. Written(File, Position, Chunk) = part \o Chunk \o << >>
  BY <1>1, <1>5, <1>6, <1>7 DEF Written
<1>9. part \o Chunk = FirstPart(job.devices, Position + 2)
  BY <1>1, <1>2, OneChunkMore DEF Size, part
<1>10. FirstPart(job.devices, Position + 2) \in Seq(Cell)
  <2>1. Position + 2 \in 0 .. 2 + 2 * Len(job.devices)
    BY <1>1, <1>2 DEF Size
  <2> QED BY <1>2, <2>1, FirstPartCells
<1> QED BY <1>8, <1>9, <1>10, ConcatEmptySeq

LEMMA PartOfPart ==
  ASSUME NEW devices \in Seq(Nat), NEW k \in 0 .. 2 + 2 * Len(devices), NEW j \in 0 .. k
  PROVE  SubSeq(FirstPart(devices, k), 1, j) = FirstPart(devices, j)
<1> DEFINE a == FirstPart(devices, k)
           b == FirstPart(devices, j)
<1>1. a \in Seq(Cell) /\ Len(a) = k /\ \A i \in 1 .. k : a[i] = Encoded(devices)[i]
  BY FirstPartCells
<1>2. b \in Seq(Cell) /\ Len(b) = j /\ \A i \in 1 .. j : b[i] = Encoded(devices)[i]
  BY FirstPartCells
<1> HIDE DEF a, b
<1>3. \A i \in 1 .. j : a[i] \in Cell /\ a[i] = b[i]
  <2>1. \A i \in 1 .. j : i \in 1 .. k
    OBVIOUS
  <2>2. \A i \in 1 .. k : a[i] \in Cell
    BY <1>1, ElementOfSeq
  <2> QED BY <1>1, <1>2, <2>1, <2>2
<1>4. /\ SubSeq(a, 1, j) \in Seq(Cell) /\ Len(SubSeq(a, 1, j)) = j
      /\ \A i \in 1 .. j : SubSeq(a, 1, j)[i] = a[i]
  BY <1>3, SubSeqProperties
<1>5. SubSeq(a, 1, j) = b
  BY <1>2, <1>3, <1>4, SeqEqual
<1> QED BY <1>5 DEF a, b

LEMMA StoredWritten ==
  ASSUME NEW cells, job.ext = "wcen", job'.name = job.name, card' = With(File, cells)
  PROVE  Stored' = cells
BY DEF Stored, Cells, With, File, Bin

LEMMA StoredKept ==
  ASSUME job'.name = job.name,
         card' = card \/ (job.ext = "csv" /\ \E cells : card' = With(File, cells))
  PROVE  Stored' = Stored
BY DEF Stored, Cells, With, File, Bin

LEMMA FailedJob ==
  ASSUME job \in Jobs, Failed
  PROVE  /\ job' \in Jobs /\ job'.step = "Failed"
         /\ UNCHANGED <<job.name, job.ext, job.devices, job.at>>
BY DEF Failed, Goes, Jobs

(* A failure while the file is open leaves a first part of the capture.    *)
LEMMA LeftPart ==
  ASSUME NEW old, SaveInv(old), job.step = "Write", job.ext = "wcen",
         (job.at <= Len(job.devices) /\ Torn(File, Position, Chunk)) \/ Unflushed(File)
  PROVE  \E k \in 0 .. Size : card' = With(File, FirstPart(job.devices, k))
<1>1. /\ job \in Jobs /\ job.devices \in Seq(Nat) /\ Len(job.devices) \in Nat /\ job.at \in Nat
  BY DEF SaveInv, Jobs
<1>2. job.at <= Len(job.devices) + 1 /\ Cells(File) = FirstPart(job.devices, Position)
  BY DEF SaveInv, Stored, File, Bin
<1>3. Position \in 0 .. Size
  BY <1>1, <1>2 DEF Position, Size, header_size, record_size, Version
<1>4. CASE job.at <= Len(job.devices) /\ Torn(File, Position, Chunk)
  <2>1. Position + 2 \in 0 .. Size
    BY <1>1, <1>4, ChunkOfEncoding DEF Size
  <2>2. Written(File, Position, Chunk) = FirstPart(job.devices, Position + 2)
    BY <1>1, <1>2, <1>4, WrittenGrows
  <2>3. Len(FirstPart(job.devices, Position + 2)) = Position + 2
    BY <1>1, <2>1, FirstPartCells DEF Size
  <2>4. PICK k \in 0 .. Len(Written(File, Position, Chunk)) - 1 :
          card' = With(File, SubSeq(Written(File, Position, Chunk), 1, k))
    BY <1>4 DEF Torn
  <2>5. k \in Int /\ 0 <= k /\ k <= Len(Written(File, Position, Chunk)) - 1
    OBVIOUS
  <2>6. Size \in Nat /\ Position \in Int
    BY <1>1, <1>3 DEF Size
  <2>7. k \in 0 .. Position + 2 /\ k \in 0 .. Size
    BY <2>1, <2>2, <2>3, <2>5, <2>6
  <2> QED BY <1>1, <2>1, <2>2, <2>4, <2>7, PartOfPart DEF Size
<1>5. CASE Unflushed(File)
  <2>1. file_size(File) = Position
    BY <1>1, <1>2, <1>3, FirstPartCells DEF file_size, Size
  <2>2. PICK k \in 0 .. Position :
          card' = With(File, SubSeq(FirstPart(job.devices, Position), 1, k))
    BY <1>2, <1>5, <2>1 DEF Unflushed
  <2>3. k \in 0 .. Size
    BY <1>1, <1>3 DEF Size
  <2> QED BY <1>1, <1>3, <2>2, <2>3, PartOfPart DEF Size
<1> QED BY <1>4, <1>5

LEMMA FailedWriting ==
  ASSUME NEW old, SaveInv(old), job.step = "Write", Failed,
         (job.at <= Len(job.devices) /\ Torn(File, Position, Chunk)) \/ Unflushed(File)
  PROVE  SaveInv(old)'
<1>1. job \in Jobs /\ job.ext \in {"wcen", "csv"}
  BY DEF SaveInv, Jobs
<1>2. /\ job' \in Jobs /\ job'.step = "Failed"
      /\ job'.name = job.name /\ job'.ext = job.ext /\ job'.devices = job.devices
  BY <1>1, FailedJob
<1>3. CASE job.ext = "csv"
  <2>1. \E cells : card' = With(File, cells)
    BY DEF Torn, Unflushed
  <2>2. Stored' = Stored
    BY <1>2, <1>3, <2>1, StoredKept
  <2> QED BY <1>2, <1>3, <2>2 DEF SaveInv, Size
<1>4. CASE job.ext = "wcen"
  <2>1. \E k \in 0 .. Size : card' = With(File, FirstPart(job.devices, k))
    BY <1>4, LeftPart
  <2>2. \E k \in 0 .. Size : Stored' = FirstPart(job.devices, k)
    BY <1>2, <1>4, <2>1, StoredWritten
  <2> QED BY <1>2, <1>4, <2>2 DEF SaveInv, Size
<1> QED BY <1>1, <1>3, <1>4

(* A failure before the file is open leaves what was there.                *)
LEMMA FailedOpening ==
  ASSUME NEW old, SaveInv(old), job.step = "Open", Failed, UNCHANGED card
  PROVE  SaveInv(old)'
<1>1. /\ job' \in Jobs /\ job'.step = "Failed"
      /\ job'.name = job.name /\ job'.ext = job.ext /\ job'.devices = job.devices
  BY FailedJob DEF SaveInv
<1>2. Stored' = Stored
  BY <1>1, StoredKept
<1> QED BY <1>1, <1>2 DEF SaveInv, Size

LEMMA OpenInv == ASSUME NEW old, SaveInv(old), SaveOpen PROVE SaveInv(old)'
<1>1. job \in Jobs /\ job.step = "Open" /\ job.devices \in Seq(Nat) /\ job.ext \in {"wcen", "csv"}
  BY DEF SaveInv, SaveOpen, Jobs
<1>2. CASE open_write(File) /\ Goes("Write")
  <2>1. /\ job' \in Jobs /\ job'.step = "Write" /\ job'.at = job.at
        /\ job'.name = job.name /\ job'.ext = job.ext /\ job'.devices = job.devices
    BY <1>1, <1>2 DEF Goes, Jobs
  <2>2. CASE job.ext = "csv"
    <3>1. Stored' = Stored
      BY <1>2, <2>1, <2>2, StoredKept DEF open_write
    <3> QED BY <2>1, <2>2, <3>1 DEF SaveInv, Size
  <2>3. CASE job.ext = "wcen"
    <3>1. Stored' = << >>
      BY <1>2, <2>1, <2>3, StoredWritten DEF open_write
    <3>2. job'.at = 0 /\ Position' = 0
      BY <1>1, <2>1, <2>3 DEF SaveInv, Position
    <3>3. FirstPart(job.devices, 0) = << >>
      BY SubSeqEmpty DEF FirstPart
    <3>4. 0 <= Len(job.devices) + 1
      BY <1>1
    <3> QED BY <2>1, <2>3, <3>1, <3>2, <3>3, <3>4 DEF SaveInv
  <2> QED BY <1>1, <2>2, <2>3
<1>3. CASE open_write(File) /\ Failed
  <2>1. /\ job' \in Jobs /\ job'.step = "Failed"
        /\ job'.name = job.name /\ job'.ext = job.ext /\ job'.devices = job.devices
    BY <1>1, <1>3, FailedJob
  <2>2. CASE job.ext = "csv"
    <3>1. Stored' = Stored
      BY <1>3, <2>1, <2>2, StoredKept DEF open_write
    <3> QED BY <2>1, <2>2, <3>1 DEF SaveInv, Size
  <2>3. CASE job.ext = "wcen"
    <3>1. Stored' = << >>
      BY <1>3, <2>1, <2>3, StoredWritten DEF open_write
    <3>2. FirstPart(job.devices, 0) = << >> /\ 0 \in 0 .. Size
      BY <1>1, SubSeqEmpty DEF FirstPart, Size
    <3> QED BY <2>1, <2>3, <3>1, <3>2 DEF SaveInv, Size
  <2> QED BY <1>1, <2>2, <2>3
<1> QED BY <1>1, <1>2, <1>3, FailedOpening DEF SaveOpen

LEMMA WriteInv == ASSUME NEW old, SaveInv(old), SaveWrite PROVE SaveInv(old)'
<1>1. /\ job \in Jobs /\ job.step = "Write" /\ job.devices \in Seq(Nat) /\ job.at \in Nat
      /\ job.at <= Len(job.devices) /\ job.ext \in {"wcen", "csv"} /\ Len(job.devices) \in Nat
  BY DEF SaveInv, SaveWrite, Jobs
<1>2. CASE card' = With(File, Written(File, Position, Chunk)) /\ job' = [job EXCEPT !.at = @ + 1]
  <2>1. /\ job' \in Jobs /\ job'.step = "Write" /\ job'.at = job.at + 1
        /\ job'.name = job.name /\ job'.ext = job.ext /\ job'.devices = job.devices
    <3>1. job' = [job EXCEPT !.at = job.at + 1] /\ job.at + 1 \in Nat /\ job \in Jobs
      BY <1>1, <1>2
    <3> QED BY <1>1, <3>1 DEF Jobs
  <2>2. CASE job.ext = "csv"
    <3>1. Stored' = Stored
      BY <1>2, <2>1, <2>2, StoredKept
    <3> QED BY <2>1, <2>2, <3>1 DEF SaveInv, Size
  <2>3. CASE job.ext = "wcen"
    <3>1. Cells(File) = FirstPart(job.devices, Position)
      BY <1>1, <2>3 DEF SaveInv, Stored, File, Bin
    <3>2. Stored' = FirstPart(job.devices, Position + 2)
      BY <1>1, <1>2, <2>1, <2>3, <3>1, WrittenGrows, StoredWritten
    <3>3. Position' = Position + 2
      <4>1. Position' = 2 + (job.at + 1 - 1) * 2
        BY <1>1, <2>1, <2>3 DEF Position, header_size, record_size, Version
      <4>2. Position = IF job.at = 0 THEN 0 ELSE 2 + (job.at - 1) * 2
        BY <1>1, <2>3 DEF Position, header_size, record_size, Version
      <4>3. \A a \in Nat : 2 + (a + 1 - 1) * 2 = (IF a = 0 THEN 0 ELSE 2 + (a - 1) * 2) + 2
        OBVIOUS
      <4> QED BY <1>1, <4>1, <4>2, <4>3
    <3>4. job'.at <= Len(job.devices) + 1
      BY <1>1, <2>1
    <3> QED BY <2>1, <2>3, <3>2, <3>3, <3>4 DEF SaveInv
  <2> QED BY <1>1, <2>2, <2>3
<1> QED BY <1>1, <1>2, FailedWriting DEF SaveWrite

LEMMA CloseInv == ASSUME NEW old, SaveInv(old), SaveClose PROVE SaveInv(old)'
<1>1. /\ job \in Jobs /\ job.step = "Write" /\ job.devices \in Seq(Nat)
      /\ job.at = Len(job.devices) + 1 /\ job.ext \in {"wcen", "csv"} /\ Len(job.devices) \in Nat
  BY DEF SaveInv, SaveClose, Jobs
<1>2. CASE UNCHANGED card /\ job.ext = "wcen"
           /\ job' = [job EXCEPT !.step = "Open", !.ext = "csv", !.at = 0]
  <2>1. /\ job' \in Jobs /\ job'.name = job.name /\ job'.ext = "csv" /\ job'.devices = job.devices
    BY <1>1, <1>2 DEF Jobs
  <2>2. Position = Size
    BY <1>1, <1>2 DEF Position, Size, header_size, record_size, Version
  <2>3. Stored = FirstPart(job.devices, Size)
    BY <1>1, <1>2, <2>2 DEF SaveInv
  <2>4. Stored' = Stored
    BY <1>2, <2>1, StoredKept
  <2> QED BY <2>1, <2>3, <2>4 DEF SaveInv, Size
<1>3. CASE UNCHANGED card /\ job.ext # "wcen" /\ job' = [job EXCEPT !.step = "Saved"]
  <2>1. /\ job' \in Jobs /\ job'.name = job.name /\ job'.ext = "csv" /\ job'.devices = job.devices
    BY <1>1, <1>3 DEF Jobs
  <2>2. Stored' = Stored
    BY <1>3, <2>1, StoredKept
  <2> QED BY <1>1, <1>3, <2>1, <2>2 DEF SaveInv, Size
<1>4. CASE Unflushed(File) /\ Failed
  BY <1>1, <1>4, FailedWriting
<1> QED BY <1>2, <1>3, <1>4 DEF SaveClose

LEMMA CutInv == ASSUME NEW old, SaveInv(old), PowerCut PROVE SaveInv(old)'
BY FailedOpening, FailedWriting DEF PowerCut, CutShort

(* From any card, whatever is saved and whichever call fails or is the     *)
(* last: under the name is what was there before, or a first part of the   *)
(* capture, all of it once the sidecar is begun.                           *)
THEOREM SaveInvariance ==
  ASSUME NEW old
  PROVE  SaveSpec /\ Stored = old => []SaveInv(old)
<1>1. SaveInit /\ Stored = old => SaveInv(old)
  BY DEF SaveInit, SaveInv
<1>2. SaveInv(old) /\ [Save \/ PowerCut]_<<card, faults, job>> => SaveInv(old)'
  <2>1. ASSUME SaveInv(old), UNCHANGED <<card, faults, job>> PROVE SaveInv(old)'
    BY <2>1 DEF SaveInv, Stored, Cells, Position, Size
  <2> QED BY <2>1, OpenInv, WriteInv, CloseInv, CutInv DEF Save
<1> QED BY <1>1, <1>2, PTL DEF SaveSpec

-----------------------------------------------------------------------------

(* A capture under the name of a save is the old one or the new one; a     *)
(* save that reports success has put the new one there.                    *)
OldOrNew(old) ==
  /\ Stored = old \/ \A max : Loads(Bin(job.name), max) => stream(Bin(job.name)) = job.devices
  /\ job.step = "Saved" =>
       \A max \in Nat : Len(job.devices) <= max =>
         Loads(Bin(job.name), max) /\ stream(Bin(job.name)) = job.devices

(* A torn file never opens, and never mixes two captures: neither a call   *)
(* that fails nor a power cut can make a save leave a third capture under  *)
(* the name (wc_capture_service_save, wc_capture_service_stream).          *)
THEOREM TornNeverOpens ==
  ASSUME NEW old
  PROVE  SaveSpec /\ Stored = old => []OldOrNew(old)
<1>1. ASSUME SaveInv(old) PROVE OldOrNew(old)
  <2> DEFINE f == Bin(job.name)
             devices == job.devices
             size == 2 + 2 * Len(devices)
  <2>1. devices \in Seq(Nat) /\ Len(devices) \in Nat /\ job.ext \in {"wcen", "csv"}
        /\ job.step \in {"Open", "Write", "Failed", "Saved"} /\ job.at \in Nat
    BY <1>1 DEF SaveInv, Jobs
  <2>2. Stored = old \/ \E k \in 0 .. size : Cells(f) = FirstPart(devices, k)
    <3>1. CASE job.ext = "csv"
      <4>1. size \in 0 .. size
        BY <2>1
      <4> QED BY <1>1, <3>1, <4>1 DEF SaveInv, Stored, Size
    <3>2. CASE job.ext = "wcen" /\ job.step = "Write"
      <4>1. Position \in 0 .. size
        BY <1>1, <2>1, <3>2 DEF SaveInv, Position, header_size, record_size, Version
      <4> QED BY <1>1, <3>2, <4>1 DEF SaveInv, Stored
    <3>3. CASE job.ext = "wcen" /\ job.step # "Write"
      BY <1>1, <2>1, <3>3 DEF SaveInv, Stored, Size
    <3> QED BY <2>1, <3>1, <3>2, <3>3
  <2>3. job.step = "Saved" => Cells(f) = FirstPart(devices, size)
    BY <1>1, <2>1 DEF SaveInv, Stored, Size
  <2> HIDE DEF f, devices, size
  <2>4. ASSUME NEW max, NEW k \in 0 .. size, Cells(f) = FirstPart(devices, k), Loads(f, max)
        PROVE  stream(f) = devices
    <3>1. k = size
      BY <2>1, <2>4, TornDoesNotLoad DEF size
    <3> QED BY <2>1, <2>4, <3>1, StreamIsWritten DEF size
  <2>5. ASSUME NEW max \in Nat, Len(devices) <= max, Cells(f) = FirstPart(devices, size)
        PROVE  Loads(f, max) /\ stream(f) = devices
    BY <2>1, <2>5, WholeLoads, StreamIsWritten DEF size
  <2> QED BY <2>2, <2>3, <2>4, <2>5 DEF OldOrNew, f, devices
<1> QED BY <1>1, SaveInvariance, PTL

-----------------------------------------------------------------------------
(* The screens over the captures (WcBrowse).  The stack is one of the      *)
(* paths from the menu, or from the list of files after a rename.          *)

Scenes ==
  {"Start", "Files", "FileActions", "Msg", "Devices", "Networks", "Rename",
   "CompareA", "CompareB", "CompareResult", "MergeA", "MergeB", "MergeName", "MergeResult",
   "ImportPick", "ImportName"}

Leads(a, b) ==
  \/ a = "Start" /\ b \in {"Files", "CompareA", "MergeA", "ImportPick"}
  \/ a = "Files" /\ b = "FileActions"
  \/ a = "FileActions" /\ b \in {"Msg", "Devices", "Networks", "Rename"}
  \/ a = "Rename" /\ b = "Msg"
  \/ a = "CompareA" /\ b = "CompareB"
  \/ a = "CompareB" /\ b \in {"CompareResult", "Msg"}
  \/ a = "MergeA" /\ b = "MergeB"
  \/ a = "MergeB" /\ b = "MergeName"
  \/ a = "MergeName" /\ b = "MergeResult"
  \/ a = "ImportPick" /\ b = "ImportName"
  \/ a = "ImportName" /\ b = "Msg"

Path(st) ==
  /\ st \in Seq(Scenes) /\ Len(st) >= 1
  /\ st[1] \in {"Start", "Files"}
  /\ \A i \in 1 .. Len(st) - 1 : Leads(st[i], st[i + 1])

LEMMA Pushed ==
  ASSUME NEW st, Path(st), NEW s \in Scenes, Leads(Last(st), s)
  PROVE  /\ Path(Append(st, s)) /\ Last(Append(st, s)) = s /\ Len(Append(st, s)) = Len(st) + 1
         /\ \A x \in ToSet(Append(st, s)) : x \in ToSet(st) \/ x = s
<1> DEFINE new == Append(st, s)
           n == Len(st)
<1>1. st \in Seq(Scenes) /\ n \in Nat /\ n >= 1
  BY DEF Path
<1>2. /\ new \in Seq(Scenes) /\ Len(new) = n + 1
      /\ \A i \in 1 .. n : new[i] = st[i]
      /\ new[n + 1] = s
  BY <1>1, AppendProperties
<1>3. st[n] = Last(st)
  BY DEF Last
<1> HIDE DEF new, n
<1>4. ASSUME NEW i \in 1 .. n PROVE Leads(new[i], new[i + 1])
  <2>1. CASE i = n
    BY <1>1, <1>2, <1>3, <2>1
  <2>2. CASE i # n
    <3>1. i \in 1 .. n - 1 /\ i \in 1 .. n /\ i + 1 \in 1 .. n
      BY <1>1, <2>2
    <3>2. Leads(st[i], st[i + 1])
      BY <3>1 DEF Path, n
    <3>3. new[i] = st[i] /\ new[i + 1] = st[i + 1]
      BY <1>2, <3>1
    <3> QED BY <3>2, <3>3
  <2> QED BY <2>1, <2>2
<1>5. Path(new)
  <2>1. new[1] \in {"Start", "Files"}
    BY <1>1, <1>2 DEF Path
  <2>2. \A i \in 1 .. Len(new) - 1 : Leads(new[i], new[i + 1])
    BY <1>1, <1>2, <1>4
  <2> QED BY <1>1, <1>2, <2>1, <2>2 DEF Path
<1>6. Last(new) = s
  BY <1>2 DEF Last
<1>7. ASSUME NEW x \in ToSet(new) PROVE x \in ToSet(st) \/ x = s
  <2>1. PICK i \in 1 .. n + 1 : x = new[i]
    BY <1>1, <1>2, LenProperties DEF ToSet
  <2>2. CASE i = n + 1
    BY <1>2, <2>1, <2>2
  <2>3. CASE i # n + 1
    <3>1. i \in 1 .. n
      BY <1>1, <2>3
    <3>2. i \in DOMAIN st /\ x = st[i]
      BY <1>1, <1>2, <2>1, <3>1 DEF n
    <3> QED BY <3>2 DEF ToSet
  <2> QED BY <2>2, <2>3
<1> QED BY <1>2, <1>5, <1>6, <1>7 DEF new, n

LEMMA Popped ==
  ASSUME NEW st, Path(st), Len(st) # 1
  PROVE  /\ Path(Front(st)) /\ Leads(Last(Front(st)), Last(st))
         /\ \A x \in ToSet(Front(st)) : \E i \in 1 .. Len(st) - 1 : x = st[i]
<1> DEFINE low == Front(st)
           n == Len(st)
<1>1. st \in Seq(Scenes) /\ n \in Nat /\ n >= 2
  <2>1. st \in Seq(Scenes) /\ Len(st) >= 1
    BY DEF Path
  <2>2. Len(st) \in Nat
    BY <2>1, LenProperties
  <2>3. \A k \in Nat : k >= 1 /\ k # 1 => k >= 2
    OBVIOUS
  <2> QED BY <2>1, <2>2, <2>3
<1>2. \A i \in 1 .. n - 1 : st[i] \in Scenes
  BY <1>1, ElementOfSeq
<1>3. /\ low \in Seq(Scenes)
      /\ Len(low) = IF 1 <= n - 1 THEN n - 1 - 1 + 1 ELSE 0
      /\ \A i \in 1 .. n - 1 - 1 + 1 : low[i] = st[1 + i - 1]
  BY <1>1, <1>2, SubSeqProperties DEF Front
<1>4. Len(low) = n - 1 /\ \A i \in 1 .. n - 1 : low[i] = st[i]
  BY <1>1, <1>3
<1> HIDE DEF low, n
<1>5. Path(low)
  <2>1. low[1] \in {"Start", "Files"}
    BY <1>1, <1>4 DEF Path
  <2>2. ASSUME NEW i \in 1 .. Len(low) - 1 PROVE Leads(low[i], low[i + 1])
    <3>1. i \in 1 .. n - 1 /\ i + 1 \in 1 .. n - 1
      BY <1>1, <1>4
    <3>2. Leads(st[i], st[i + 1])
      BY <3>1 DEF Path, n
    <3>3. low[i] = st[i] /\ low[i + 1] = st[i + 1]
      BY <1>4, <3>1
    <3> QED BY <3>2, <3>3
  <2> QED BY <1>1, <1>3, <1>4, <2>1, <2>2 DEF Path
<1>6. Leads(Last(low), Last(st))
  <2>1. n - 1 \in 1 .. n - 1 /\ n - 1 + 1 = n
    BY <1>1
  <2>2. Leads(st[n - 1], st[n])
    BY <2>1 DEF Path, n
  <2>3. Last(low) = st[n - 1] /\ Last(st) = st[n]
    BY <1>4, <2>1 DEF Last, n
  <2> QED BY <2>2, <2>3
<1>7. ASSUME NEW x \in ToSet(low) PROVE \E i \in 1 .. n - 1 : x = st[i]
  <2>1. PICK i \in 1 .. n - 1 : x = low[i]
    BY <1>3, <1>4, LenProperties DEF ToSet
  <2> QED BY <1>4, <2>1
<1> QED BY <1>5, <1>6, <1>7 DEF low, n

(* What there can be under the screen shown.                               *)
LEMMA Below ==
  ASSUME NEW st, Path(st)
  PROVE  /\ Last(st) \in Scenes
         /\ Last(st) \notin {"Start", "Files"} => Len(st) # 1
         /\ Last(st) = "Start" => Len(st) = 1
         /\ Last(st) = "FileActions" => \A i \in 1 .. Len(st) - 1 : st[i] \in {"Start", "Files"}
         /\ Last(st) = "Rename" =>
              \A i \in 1 .. Len(st) - 1 : st[i] \in {"Start", "Files", "FileActions"}
<1> DEFINE n == Len(st)
<1>1. st \in Seq(Scenes) /\ n \in Nat /\ n >= 1 /\ Last(st) = st[n] /\ st[1] \in {"Start", "Files"}
  BY DEF Path, Last
<1>2. \A i \in 1 .. n - 1 : Leads(st[i], st[i + 1])
  BY DEF Path
<1> HIDE DEF n
<1>3. \A i \in 1 .. n : st[i] \in Scenes
  BY <1>1, ElementOfSeq DEF n
<1>4. ASSUME NEW i \in 1 .. n
      PROVE  /\ st[i] = "Start" => i = 1
             /\ st[i] = "Files" => \A j \in 1 .. i - 1 : st[j] = "Start"
  <2>1. CASE i = 1
    BY <2>1
  <2>2. CASE i # 1
    <3>1. i - 1 \in 1 .. n - 1 /\ i - 1 + 1 = i
      BY <1>1, <2>2
    <3>2. Leads(st[i - 1], st[i])
      BY <1>2, <3>1
    <3>3. st[i] # "Start" /\ (st[i] = "Files" => st[i - 1] = "Start")
      BY <3>2 DEF Leads
    <3>4. st[i - 1] = "Start" => i - 1 = 1
      <4>1. CASE i - 1 = 1
        BY <4>1
      <4>2. CASE i - 1 # 1
        <5>1. i - 2 \in 1 .. n - 1 /\ i - 2 + 1 = i - 1
          BY <1>1, <3>1, <4>2
        <5>2. Leads(st[i - 2], st[i - 1])
          BY <1>2, <5>1
        <5> QED BY <5>2 DEF Leads
      <4> QED BY <4>1, <4>2
    <3> QED BY <3>1, <3>3, <3>4
  <2> QED BY <2>1, <2>2
<1>5. ASSUME NEW i \in 1 .. n, st[i] = "FileActions"
      PROVE  \A j \in 1 .. i - 1 : st[j] \in {"Start", "Files"}
  <2>1. i # 1
    BY <1>1, <1>5
  <2>2. i - 1 \in 1 .. n - 1 /\ i - 1 + 1 = i /\ i - 1 \in 1 .. n
    BY <1>1, <2>1
  <2>3. Leads(st[i - 1], st[i])
    BY <1>2, <2>2
  <2>4. st[i - 1] = "Files"
    BY <1>5, <2>3 DEF Leads
  <2>5. \A j \in 1 .. i - 1 - 1 : st[j] = "Start"
    BY <1>4, <2>2, <2>4
  <2>6. \A j \in 1 .. i - 1 : j = i - 1 \/ j \in 1 .. i - 1 - 1
    BY <2>2
  <2> QED BY <2>4, <2>5, <2>6
<1>6. ASSUME st[n] = "Rename"
      PROVE  \A j \in 1 .. n - 1 : st[j] \in {"Start", "Files", "FileActions"}
  <2>1. n # 1
    BY <1>1, <1>6
  <2>2. n - 1 \in 1 .. n - 1 /\ n - 1 + 1 = n /\ n - 1 \in 1 .. n
    BY <1>1, <2>1
  <2>3. Leads(st[n - 1], st[n])
    BY <1>2, <2>2
  <2>4. st[n - 1] = "FileActions"
    BY <1>6, <2>3 DEF Leads
  <2>5. \A j \in 1 .. n - 1 - 1 : st[j] \in {"Start", "Files"}
    BY <1>5, <2>2, <2>4
  <2>6. \A j \in 1 .. n - 1 : j = n - 1 \/ j \in 1 .. n - 1 - 1
    BY <2>2
  <2> QED BY <2>4, <2>5, <2>6
<1>7. n \in 1 .. n
  BY <1>1
<1> QED BY <1>1, <1>3, <1>4, <1>5, <1>6, <1>7 DEF n

LEMMA UnderTop ==
  ASSUME NEW st, Path(st), Len(st) # 1
  PROVE  \E x \in ToSet(st) : Leads(x, Last(st))
<1> DEFINE n == Len(st)
<1>1. st \in Seq(Scenes) /\ n >= 1 /\ n # 1
  BY DEF Path
<1>2. n \in Nat /\ DOMAIN st = 1 .. n
  BY <1>1, LenProperties
<1>3. \A i \in 1 .. n - 1 : Leads(st[i], st[i + 1])
  BY DEF Path
<1>4. Last(st) = st[n]
  BY DEF Last
<1> HIDE DEF n
<1>5. n - 1 \in 1 .. n - 1 /\ n - 1 + 1 = n /\ n - 1 \in 1 .. n
  BY <1>1, <1>2
<1>6. Leads(st[n - 1], Last(st))
  BY <1>3, <1>4, <1>5
<1>7. st[n - 1] \in ToSet(st)
  BY <1>2, <1>5 DEF ToSet
<1> QED BY <1>6, <1>7

LEMMA Alone ==
  ASSUME NEW s \in {"Start", "Files"}
  PROVE  /\ Path(<<s>>) /\ Last(<<s>>) = s
         /\ \A x \in ToSet(<<s>>) : x = s
<1>1. <<s>> \in Seq(Scenes) /\ Len(<<s>>) = 1 /\ <<s>>[1] = s
  BY DEF Scenes
<1> QED BY <1>1 DEF Path, Last, ToSet

-----------------------------------------------------------------------------
(* The inductive invariant of the screens.                                 *)

Exts == {"wcen", "csv"}
SaveSteps == {"Open", "Write", "Saved", "Failed"}

(* The cells of the captures are numbers.                                  *)
CardOK ==
  /\ faults \in Nat
  /\ DOMAIN card \subseteq Names \X Exts
  /\ \A f \in Bins : card[f] \in Seq(Cell)

(* While a save writes the sidecar, its file is a first part of it.        *)
CsvPart ==
  /\ job.step \in {"Open", "Write"} => job.at <= Len(job.devices) + 1
  /\ job.ext = "csv" =>
       /\ job.step = "Open" => job.at = 0
       /\ job.step = "Write" => Cells(Csv(job.name)) = SubSeq(Sidecar(job.devices), 1, job.at)
       /\ job.step = "Saved" => Cells(Csv(job.name)) = Sidecar(job.devices)

SavingOK ==
  /\ job \in Jobs
  /\ \E old : SaveInv(old)
  /\ CsvPart
  /\ Last(stack) = IF job.then = "Merge" THEN "MergeName" ELSE "ImportName"

(* The handler under way, and the screen it was called from.               *)
JobOK ==
  \/ job.step = "Idle"
  \/ job.step = "DeleteCsv" /\ Last(stack) = "FileActions"
  \/ job.step = "RenameCsv" /\ Last(stack) = "Rename" /\ job.name \in Names
  \/ job.step \in SaveSteps /\ SavingOK

(* In the middle of a delete or a rename, the capture is already gone.     *)
Gone ==
  job.step \in {"DeleteCsv", "RenameCsv"} =>
    /\ \E n \in Names : selected = Bin(n)
    /\ selected \notin DOMAIN card
    /\ job.step = "RenameCsv" => Bin(job.name) \in DOMAIN card

ListOK == Last(stack) \in FileLists => listed \subseteq Bins
SummaryOK == told.say = "Summary" => Last(stack) = "Msg"
PickedOK == picked = <<picked[1], picked[2]>>

IInv ==
  /\ Path(stack) /\ CardOK /\ JobOK /\ Gone
  /\ ListOK /\ SummaryOK /\ PickedOK
  /\ SelectedOnCard /\ ShownIsStored

(* Without a fault, a file that is not being written and has a header with *)
(* more devices than the census takes is whole, and a message names the    *)
(* capture that would not open.                                            *)
HeadKept(f) == device_count(f) > MaxDevices => Loads(f, file_size(f))
BeingSaved(n) == job.step \in SaveSteps /\ job.name = n
HeadsKept == \A n \in Names : Bin(n) \in Bins /\ ~BeingSaved(n) => HeadKept(Bin(n))

BlameInv ==
  /\ faults = 0 =>
       /\ HeadsKept /\ job.step # "Failed"
       /\ told.say \in {"CannotRead", "TooBig"} =>
            job.step = "Idle" /\ Last(stack) \in {"Msg", "CompareResult", "MergeResult"}
  /\ BlameIsTrue

(* Without a fault, a sidecar matches its capture, except where a handler  *)
(* has changed the one and not yet the other.                              *)
Matches(n, m) == Bin(m) \in DOMAIN card /\ card[Csv(n)] = Sidecar(stream(Bin(m)))
SidecarInv ==
  faults = 0 =>
    /\ job.step # "Failed"
    /\ \A n \in Names : Csv(n) \in DOMAIN card /\ ~BeingSaved(n) =>
         \/ Matches(n, n)
         \/ job.step = "DeleteCsv" /\ selected = Bin(n)
         \/ job.step = "RenameCsv" /\ selected = Bin(n) /\ Matches(n, job.name)
    /\ job.step = "RenameCsv" => Csv(job.name) \notin DOMAIN card

-----------------------------------------------------------------------------
(* Steps of the screens.                                                   *)

LEMMA Names_of_nothing ==
  /\ Idle.step = "Idle" /\ Nothing.say \notin {"Summary", "CannotRead", "TooBig"}
  /\ "step" \in DOMAIN Idle /\ "name" \in DOMAIN Idle
BY DEF Idle, Nothing, NoName

LEMMA Said == ASSUME NEW say, NEW f PROVE Says(say, f).say = say /\ Says(say, f).of = f
BY DEF Says

LEMMA ListShown ==
  ASSUME NEW st, NEW message, Show(st, message), Bins' = Bins
  PROVE  stack' = st /\ told' = message /\ ListOK'
<1>1. stack' = st /\ told' = message
  BY DEF Show
<1>2. ASSUME Last(st) \in FileLists PROVE listed' \subseteq Bins
  <2>1. populate_files
    BY <1>2 DEF Show, FileLists
  <2> QED BY <2>1 DEF populate_files
<1> QED BY <1>1, <1>2 DEF ListOK, FileLists

(* The card holds the same captures, and no handler is under way.          *)
Settled == CardOK' /\ Bins' = Bins /\ job'.step = "Idle"

LEMMA PushHolds ==
  ASSUME IInv, Settled, NEW scene \in Scenes, NEW message, Leads(Last(stack), scene),
         Next_scene(scene, message), PickedOK',
         scene = "FileActions" \/ On("FileActions") => selected' \in Bins,
         scene \in {"CompareB", "MergeB"} \/ On("CompareB") \/ On("MergeB") => picked'[1] \in Bins,
         scene = "MergeName" \/ On("MergeName") => picked'[2] \in Bins,
         message.say = "Summary" => scene = "Msg",
         scene \in {"Devices", "Networks"} \/ message.say = "Summary" =>
           Loads(selected, MaxDevices)' /\ (browse = {stream(selected)})'
  PROVE  IInv'
<1>1. Path(stack) /\ CardOK' /\ Bins' = Bins /\ job'.step = "Idle"
  BY DEF IInv, Settled
<1>2. stack' = Append(stack, scene) /\ told' = message /\ ListOK'
  BY <1>1, ListShown DEF Next_scene
<1>3. Path(stack') /\ Last(stack') = scene
  BY <1>1, <1>2, Pushed
<1>4. \A x \in ToSet(stack') : x \in ToSet(stack) \/ x = scene
  BY <1>1, <1>2, Pushed
<1>5. SelectedOnCard'
  BY <1>1, <1>4 DEF SelectedOnCard, On
<1>6. ShownIsStored' /\ SummaryOK'
  BY <1>2, <1>3 DEF ShownIsStored, SummaryOK
<1>7. JobOK' /\ Gone'
  BY <1>1 DEF JobOK, Gone
<1> QED BY <1>1, <1>2, <1>3, <1>5, <1>6, <1>7 DEF IInv

LEMMA PopHolds ==
  ASSUME IInv, Settled, Len(stack) # 1, Visit(Front(stack), Nothing),
         job.step \in {"DeleteCsv", "RenameCsv"} => Last(stack) = "FileActions"
  PROVE  IInv'
<1>1. Path(stack) /\ CardOK' /\ Bins' = Bins /\ job'.step = "Idle" /\ PickedOK
  BY DEF IInv, Settled
<1>2. stack' = Front(stack) /\ told' = Nothing /\ ListOK'
  BY <1>1, ListShown DEF Visit
<1>3. Path(stack') /\ Leads(Last(stack'), Last(stack))
  BY <1>1, <1>2, Popped
<1>4. \A x \in ToSet(stack') : \E i \in 1 .. Len(stack) - 1 : x = stack[i]
  BY <1>1, <1>2, Popped
<1>5. \A x \in ToSet(stack') : x \in ToSet(stack)
  <2>1. \A i \in 1 .. Len(stack) - 1 : i \in DOMAIN stack
    BY <1>1 DEF Path
  <2> QED BY <1>4, <2>1 DEF ToSet
<1>6. CASE Last(stack') = "Start"
  <2>1. Len(stack') = 1 /\ stack'[1] = "Start"
    BY <1>3, <1>6, Below DEF Last
  <2>2. \A x \in ToSet(stack') : x = "Start"
    BY <1>3, <2>1 DEF ToSet, Path
  <2>3. SelectedOnCard'
    BY <2>2 DEF SelectedOnCard, On
  <2>4. PickedOK'
    BY <1>6 DEF Visit, KeepChoices, PickedOK
  <2> QED BY <1>1, <1>2, <1>3, <1>6, <2>3, <2>4, Names_of_nothing
          DEF IInv, JobOK, Gone, ShownIsStored, SummaryOK
<1>7. CASE Last(stack') # "Start"
  <2>1. selected' = selected /\ picked' = picked
    BY <1>7 DEF Visit, KeepChoices
  <2>2. ASSUME On("FileActions")' PROVE selected \in Bins
    <3>1. CASE job.step \in {"DeleteCsv", "RenameCsv"}
      <4>1. \A i \in 1 .. Len(stack) - 1 : stack[i] \in {"Start", "Files"}
        BY <1>1, <3>1, Below
      <4> QED BY <1>4, <2>2, <4>1 DEF On
    <3>2. CASE job.step \notin {"DeleteCsv", "RenameCsv"}
      BY <1>5, <2>2, <3>2 DEF On, IInv, SelectedOnCard
    <3> QED BY <3>1, <3>2
  <2>3. SelectedOnCard'
    BY <1>1, <1>5, <2>1, <2>2 DEF IInv, SelectedOnCard, On
  <2>4. Last(stack') \notin {"Devices", "Networks"}
    BY <1>3 DEF Leads
  <2> QED BY <1>1, <1>2, <1>3, <2>1, <2>3, <2>4, Names_of_nothing
          DEF IInv, JobOK, Gone, ShownIsStored, SummaryOK, PickedOK
<1> QED BY <1>6, <1>7

LEMMA HomeHolds ==
  ASSUME IInv, Settled, NEW s \in {"Start", "Files"}, Visit(<<s>>, Nothing)
  PROVE  IInv'
<1>1. CardOK' /\ Bins' = Bins /\ job'.step = "Idle" /\ PickedOK
  BY DEF IInv, Settled
<1>2. stack' = <<s>> /\ told' = Nothing /\ ListOK'
  BY <1>1, ListShown DEF Visit
<1>3. Path(stack') /\ Last(stack') = s /\ \A x \in ToSet(stack') : x = s
  BY <1>2, Alone
<1>4. SelectedOnCard'
  BY <1>3 DEF SelectedOnCard, On
<1>5. PickedOK'
  <2>1. picked' = <<NoFile, NoFile>> \/ picked' = picked
    BY DEF Visit, KeepChoices
  <2> QED BY <1>1, <2>1 DEF PickedOK
<1> QED BY <1>1, <1>2, <1>3, <1>4, <1>5, Names_of_nothing
        DEF IInv, JobOK, Gone, ShownIsStored, SummaryOK

(* Nothing of the card and no handler changes.                             *)
LEMMA StillSettled ==
  ASSUME IInv, job'.step = "Idle", UNCHANGED card, faults' \in Nat
  PROVE  Settled
BY DEF Settled, IInv, CardOK, Bins

LEMMA OneFault == ASSUME IInv, NoFault \/ Fault PROVE faults' \in Nat
BY DEF IInv, CardOK, NoFault, Fault

LEMMA OnTop == ASSUME IInv PROVE On(Last(stack))
<1>1. stack \in Seq(Scenes) /\ Len(stack) >= 1
  BY DEF IInv, Path
<1>2. Len(stack) \in DOMAIN stack
  BY <1>1
<1> QED BY <1>2 DEF On, ToSet, Last

LEMMA VisitHolds ==
  ASSUME IInv, Settled, NEW message, message.say # "Summary",
         NEW scene \in {"Files", "CompareA", "MergeA", "ImportPick", "ImportName", "Rename", "Msg"},
         Leads(Last(stack), scene), Visit(Append(stack, scene), message),
         job.step \notin {"DeleteCsv", "RenameCsv"}
  PROVE  IInv'
<1>1. Path(stack) /\ PickedOK /\ SelectedOnCard /\ scene \in Scenes
  BY DEF IInv, Scenes
<1>2. stack' = Append(stack, scene) /\ Last(stack') = scene
  BY <1>1, Pushed DEF Visit, Show
<1>3. selected' = selected /\ picked' = picked
  BY <1>2 DEF Visit, KeepChoices
<1>4. Next_scene(scene, message) /\ PickedOK'
  BY <1>1, <1>3 DEF Visit, Next_scene, PickedOK
<1> QED BY <1>1, <1>3, <1>4, PushHolds DEF SelectedOnCard

LEMMA ChooseHolds ==
  ASSUME IInv, NEW scene \in {"Files", "CompareA", "MergeA", "ImportPick"}, Choose(scene)
  PROVE  IInv'
<1>1. job.step = "Idle" /\ Last(stack) = "Start" /\ UNCHANGED <<card, faults, job>>
      /\ Visit(Append(stack, scene), Nothing)
  BY DEF Choose, Shows, OnScreen
<1>2. Settled
  BY <1>1, StillSettled DEF IInv, CardOK
<1> QED BY <1>1, <1>2, VisitHolds, Names_of_nothing DEF Leads

LEMMA BackHolds == ASSUME IInv, Back PROVE IInv'
<1>1. job.step = "Idle" /\ UNCHANGED <<card, faults, job>>
  BY DEF Back, OnScreen
<1>2. Settled
  BY <1>1, StillSettled DEF IInv, CardOK
<1> QED BY <1>1, <1>2, HomeHolds, PopHolds DEF Back

LEMMA RenameOpens ==
  ASSUME IInv, Shows("FileActions") /\ Visit(Append(stack, "Rename"), Nothing) /\ OnScreen
  PROVE  IInv'
<1>1. job.step = "Idle" /\ Last(stack) = "FileActions" /\ UNCHANGED <<card, faults, job>>
  BY DEF Shows, OnScreen
<1>2. Settled
  BY <1>1, StillSettled DEF IInv, CardOK
<1> QED BY <1>1, <1>2, VisitHolds, Names_of_nothing DEF Leads

LEMMA FilesPickHolds == ASSUME IInv, NEW f \in listed, FilesPick(f) PROVE IInv'
<1>1. job.step = "Idle" /\ Last(stack) = "Files" /\ UNCHANGED <<card, faults, job, picked>>
      /\ selected' = f /\ Next_scene("FileActions", Nothing)
  BY DEF FilesPick, Shows, OnScreen
<1>2. Settled
  BY <1>1, StillSettled DEF IInv, CardOK
<1>3. f \in Bins
  BY <1>1 DEF IInv, ListOK, FileLists
<1>4. PickedOK' /\ SelectedOnCard
  BY <1>1 DEF IInv, PickedOK
<1> QED BY <1>1, <1>2, <1>3, <1>4, PushHolds, Names_of_nothing
        DEF Leads, Scenes, SelectedOnCard

(* A screen above the shown one that chooses nothing.                      *)
LEMMA MessageHolds ==
  ASSUME IInv, job'.step = "Idle", UNCHANGED <<card, selected, picked>>, faults' \in Nat,
         job.step \notin {"DeleteCsv", "RenameCsv"},
         NEW scene \in {"Msg", "CompareResult", "MergeResult"}, NEW message, message.say # "Summary",
         Leads(Last(stack), scene), Next_scene(scene, message)
  PROVE  IInv'
<1>1. Settled /\ PickedOK' /\ SelectedOnCard /\ scene \in Scenes
  BY StillSettled DEF IInv, PickedOK, Scenes
<1> QED BY <1>1, PushHolds DEF SelectedOnCard

LEMMA OpenHolds ==
  ASSUME IInv, NEW scene \in {"Msg", "Devices", "Networks"}, NEW message,
         message.say = "Summary" => scene = "Msg",
         OpenCapture(scene, message)
  PROVE  IInv'
<1>1. job.step = "Idle" /\ Last(stack) = "FileActions" /\ UNCHANGED <<card, job, selected, picked>>
  BY DEF OpenCapture, Shows
<1>2. CASE Loaded /\ Next_scene(scene, message)
  <2>1. NoFault /\ Loads(selected, MaxDevices) /\ browse' = {stream(selected)}
    BY <1>2 DEF Loaded
  <2>2. Settled /\ PickedOK' /\ SelectedOnCard /\ scene \in Scenes
    BY <1>1, <2>1, OneFault, StillSettled DEF IInv, PickedOK, Scenes
  <2>3. Loads(selected, MaxDevices)' /\ (browse = {stream(selected)})'
    BY <1>1, <2>1 DEF Loads, stream, read_range, file_size, Cells
  <2>4. Leads(Last(stack), scene)
    BY <1>1 DEF Leads
  <2> QED BY <1>1, <1>2, <2>2, <2>3, <2>4, PushHolds DEF SelectedOnCard
<1>3. CASE NotLoaded /\ Next_scene("Msg", Explain(selected))
  <2>1. faults' \in Nat
    BY <1>3, OneFault DEF NotLoaded
  <2>2. Explain(selected).say # "Summary"
    BY DEF Explain, Says
  <2> QED BY <1>1, <1>3, <2>1, <2>2, MessageHolds DEF Leads
<1> QED BY <1>2, <1>3 DEF OpenCapture

LEMMA PickHolds ==
  ASSUME IInv, NEW slot \in {1, 2}, NEW screen, NEW next,
         \/ screen = "CompareA" /\ slot = 1 /\ next = "CompareB"
         \/ screen = "MergeA" /\ slot = 1 /\ next = "MergeB"
         \/ screen = "MergeB" /\ slot = 2 /\ next = "MergeName",
         Pick(screen, slot, next)
  PROVE  IInv'
<1>1. job.step = "Idle" /\ Last(stack) = screen /\ UNCHANGED <<card, faults, job, selected>>
      /\ Next_scene(next, Nothing)
  BY DEF Pick, Shows, OnScreen
<1>2. PICK f \in listed : picked' = [picked EXCEPT ![slot] = f]
  BY DEF Pick
<1>3. f \in Bins
  BY <1>1 DEF IInv, ListOK, FileLists
<1>4. PickedOK' /\ picked'[slot] = f /\ (slot = 2 => picked'[1] = picked[1])
      /\ (slot = 1 => picked'[2] = picked[2])
  <2>1. picked = <<picked[1], picked[2]>>
    BY DEF IInv, PickedOK
  <2>2. CASE slot = 1
    <3>1. picked' = <<f, picked[2]>>
      BY <1>2, <2>1, <2>2
    <3> QED BY <2>2, <3>1 DEF PickedOK
  <2>3. CASE slot = 2
    <3>1. picked' = <<picked[1], f>>
      BY <1>2, <2>1, <2>3
    <3> QED BY <2>3, <3>1 DEF PickedOK
  <2> QED BY <2>2, <2>3
<1>5. Settled /\ SelectedOnCard /\ next \in Scenes /\ Leads(Last(stack), next)
  BY <1>1, StillSettled DEF IInv, CardOK, Scenes, Leads
<1>6. screen \in ToSet(stack)
  <2>1. stack \in Seq(Scenes) /\ Len(stack) >= 1
    BY DEF IInv, Path
  <2> QED BY <1>1, <2>1 DEF Last, ToSet
<1>7. next = "MergeB" \/ On("CompareB") \/ On("MergeB") => picked'[1] \in Bins
  <2>1. CASE slot = 1
    BY <1>3, <1>4, <2>1
  <2>2. CASE slot = 2
    BY <1>1, <1>4, <1>5, <1>6, <2>2 DEF SelectedOnCard, On
  <2> QED BY <2>1, <2>2
<1>8. next = "CompareB" => picked'[1] \in Bins
  BY <1>3, <1>4
<1>9. next = "MergeName" \/ On("MergeName") => picked'[2] \in Bins
  <2>1. CASE slot = 1
    BY <1>1, <1>4, <1>5, <2>1 DEF SelectedOnCard
  <2>2. CASE slot = 2
    BY <1>3, <1>4, <2>2
  <2> QED BY <2>1, <2>2
<1>10. On("FileActions") => selected' \in Bins
  BY <1>1, <1>5 DEF SelectedOnCard
<1> QED BY <1>1, <1>4, <1>5, <1>7, <1>8, <1>9, <1>10, PushHolds, Names_of_nothing

LEMMA Explained ==
  /\ \A f : Explain(f).say \in {"TooBig", "CannotRead"}
  /\ \A f, g : ExplainWhich(f, g).say \in {"TooBig", "CannotRead"}
BY DEF Explain, ExplainWhich, Says

LEMMA PickSecondHolds == ASSUME IInv, PickSecond PROVE IInv'
<1>1. job.step = "Idle" /\ Last(stack) = "CompareB" /\ UNCHANGED <<card, job, selected>>
  BY DEF PickSecond, Shows
<1>2. PICK f \in listed : picked' = [picked EXCEPT ![2] = f]
  BY DEF PickSecond
<1>3. faults' \in Nat
  BY OneFault DEF PickSecond
<1>4. PICK scene \in {"CompareResult", "Msg"} :
        \E message : Next_scene(scene, message) /\ message.say # "Summary"
  <2>1. ExplainWhich(picked'[1], picked'[2]).say # "Summary"
    BY DEF Explain, ExplainWhich, Says
  <2> QED BY <2>1, Said DEF PickSecond
<1>5. PickedOK' /\ picked'[1] = picked[1] /\ picked'[2] = f
  <2>1. picked = <<picked[1], picked[2]>>
    BY DEF IInv, PickedOK
  <2>2. picked' = <<picked[1], f>>
    BY <1>2, <2>1
  <2> QED BY <2>2 DEF PickedOK
<1>6. f \in Bins
  BY <1>1 DEF IInv, ListOK, FileLists
<1>7. Settled /\ SelectedOnCard /\ scene \in Scenes /\ Leads(Last(stack), scene)
  BY <1>1, <1>3, StillSettled DEF IInv, Scenes, Leads
<1> QED BY <1>1, <1>4, <1>5, <1>6, <1>7, PushHolds DEF SelectedOnCard

(* What is loaded and merged is a capture.                                 *)
LEMMA StreamTyped ==
  ASSUME IInv, NEW f \in Bins, NEW max, Loads(f, max)
  PROVE  stream(f) \in Seq(Nat)
<1> DEFINE cells == Cells(f)
           head == read_range(f, 0, header_size)
           rec == record_size(VersionOf(head))
           n == Count(head)
<1>1. cells \in Seq(Cell) /\ Len(cells) \in Nat /\ file_size(f) = Len(cells)
  BY DEF IInv, CardOK, Bins, Cells, file_size
<1>2. IsHeader(head) /\ n <= max /\ Len(cells) = 2 + n * rec
  BY <1>1 DEF Loads, header_size
<1>3. rec \in {1, 2}
  BY DEF record_size
<1>4. \A i \in 1 .. Len(cells) : cells[i] \in Cell
  BY <1>1, ElementOfSeq
<1>5. Len(cells) >= 2 /\ n \in Nat
  <2>1. head = SubSeq(cells, 1, IF 2 < Len(cells) THEN 2 ELSE Len(cells))
    BY <1>1 DEF read_range, header_size
  <2>2. Len(head) = 2
    BY <1>2 DEF IsHeader, header_size
  <2>3. Len(cells) >= 2
    <3> SUFFICES ASSUME Len(cells) < 2 PROVE FALSE
      BY <1>1
    <3>1. head = SubSeq(cells, 1, Len(cells))
      BY <1>1, <2>1
    <3>2. Len(head) = IF 1 <= Len(cells) THEN Len(cells) - 1 + 1 ELSE 0
      BY <1>1, <1>4, <3>1, SubSeqProperties
    <3> QED BY <1>1, <2>2, <3>2
  <2>4. head = SubSeq(cells, 1, 2)
    <3>1. (IF 2 < Len(cells) THEN 2 ELSE Len(cells)) = 2
      BY <1>1, <2>3
    <3> QED BY <2>1, <3>1
  <2>5. head[2] = cells[2]
    <3>1. \A i \in 1 .. 2 : cells[i] \in Cell
      BY <1>1, <1>4, <2>3
    <3>2. \A i \in 1 .. 2 - 1 + 1 : head[i] = cells[1 + i - 1]
      BY <2>4, <3>1, SubSeqProperties
    <3> QED BY <3>2
  <2>6. cells[2] \in Cell
    BY <1>1, <1>4, <2>3
  <2>7. n \in Nat
    BY <2>5, <2>6 DEF Count, Cell
  <2> QED BY <2>3, <2>7
<1> HIDE DEF cells, head, rec, n
<1>6. ASSUME NEW i \in 1 .. n PROVE read_range(f, 2 + (i - 1) * rec, rec)[1][2] \in Nat
  <2> DEFINE at == 2 + (i - 1) * rec
             record == SubSeq(cells, at + 1, at + rec)
  <2>1. at \in Nat /\ at + 1 <= at + rec /\ at + rec <= Len(cells)
    <3>1. CASE rec = 1
      BY <1>2, <1>5, <3>1
    <3>2. CASE rec = 2
      BY <1>2, <1>5, <3>2
    <3> QED BY <1>3, <3>1, <3>2
  <2>2. read_range(f, at, rec) = record
    <3>1. (IF at + rec < Len(cells) THEN at + rec ELSE Len(cells)) = at + rec
      BY <1>1, <1>3, <2>1
    <3> QED BY <1>1, <3>1 DEF read_range, cells
  <2> HIDE DEF at
  <2>3. \A k \in at + 1 .. at + rec : cells[k] \in Cell
    BY <1>1, <1>3, <1>4, <2>1
  <2>4. record[1] = cells[at + 1]
    <3>1. \A k \in 1 .. at + rec - (at + 1) + 1 : record[k] = cells[at + 1 + k - 1]
      BY <1>3, <2>1, <2>3, SubSeqProperties
    <3>2. 1 \in 1 .. at + rec - (at + 1) + 1 /\ at + 1 + 1 - 1 = at + 1
      BY <1>3, <2>1
    <3> QED BY <3>1, <3>2
  <2>5. cells[at + 1] \in Cell
    <3>1. at + 1 \in 1 .. Len(cells)
      BY <1>1, <1>3, <2>1
    <3> QED BY <1>4, <3>1
  <2> HIDE DEF record
  <2>6. record[1][2] \in Nat
    BY <2>4, <2>5 DEF Cell
  <2> QED BY <2>2, <2>6 DEF at
<1>7. stream(f) = [i \in 1 .. n |-> read_range(f, 2 + (i - 1) * rec, rec)[1][2]]
  BY DEF stream, header_size, n, rec, head
<1> QED BY <1>5, <1>6, <1>7

LEMMA MergesTyped ==
  ASSUME NEW a \in Seq(Nat), NEW b \in Seq(Nat), NEW merged \in Merges(a, b)
  PROVE  merged \in Seq(Nat)
<1>1. ToSet(a) \cup (ToSet(b) \ ToSet(a)) \subseteq Nat
  BY DEF ToSet
<1>2. PICK n \in 0 .. MaxDevices : merged \in [1 .. n -> ToSet(a) \cup (ToSet(b) \ ToSet(a))]
  BY DEF Merges
<1>3. n \in Nat
  BY <1>2, StoreAssumption
<1>4. merged \in [1 .. n -> Nat]
  BY <1>1, <1>2
<1> QED BY <1>3, <1>4

-----------------------------------------------------------------------------
(* Saves begun by the screens.                                             *)

LEMMA BeginHolds ==
  ASSUME IInv, job.step = "Idle", faults' \in Nat, UNCHANGED <<card, stack, told, screenVars>>,
         NEW n \in Names, NEW devices \in Seq(Nat), NEW then \in {"Merge", "Import", "ImportDropped"},
         job' = Saving(n, devices, then),
         Last(stack) = IF then = "Merge" THEN "MergeName" ELSE "ImportName"
  PROVE  IInv'
<1>1. /\ stack' = stack /\ told' = told /\ listed' = listed /\ selected' = selected
      /\ picked' = picked /\ browse' = browse /\ card' = card
  BY DEF screenVars
<1>2. /\ job' \in Jobs /\ job'.step = "Open" /\ job'.ext = "wcen" /\ job'.at = 0
      /\ job'.devices = devices /\ job'.then = then /\ job'.name = n
  BY DEF Saving, Jobs
<1>3. Len(devices) \in Nat
  BY LenProperties
<1>4. \E old : SaveInv(old)'
  <2>1. PICK old : old = Stored'
    OBVIOUS
  <2>2. SaveInv(old)'
    BY <1>2, <2>1 DEF SaveInv
  <2> QED BY <2>2
<1>5. CsvPart'
  <2>1. 0 <= Len(devices) + 1
    BY <1>3
  <2> QED BY <1>2, <2>1 DEF CsvPart
<1>6. JobOK'
  BY <1>1, <1>2, <1>4, <1>5 DEF JobOK, SavingOK, SaveSteps
<1>7. CardOK' /\ Bins' = Bins
  BY <1>1 DEF IInv, CardOK, Bins
<1>8. SelectedOnCard'
  BY <1>1, <1>2, <1>7 DEF IInv, SelectedOnCard, On
<1>9. ShownIsStored'
  BY <1>1 DEF IInv, ShownIsStored, Loads, stream, read_range, file_size, Cells
<1>10. Gone' /\ ListOK' /\ SummaryOK' /\ PickedOK' /\ Path(stack')
  BY <1>1, <1>2, <1>7 DEF IInv, Gone, ListOK, SummaryOK, PickedOK
<1> QED BY <1>6, <1>7, <1>8, <1>9, <1>10 DEF IInv

LEMMA BothPicked ==
  ASSUME IInv, Last(stack) = "MergeName", job.step = "Idle"
  PROVE  picked[1] \in Bins /\ picked[2] \in Bins
<1>1. \E x \in ToSet(stack) : Leads(x, "MergeName")
  BY Below, UnderTop DEF IInv
<1>2. On("MergeB")
  BY <1>1 DEF On, Leads
<1>3. On("MergeName")
  BY OnTop
<1> QED BY <1>2, <1>3 DEF IInv, SelectedOnCard

LEMMA MergeRunHolds == ASSUME IInv, NEW n \in Names, MergeRun(n) PROVE IInv'
<1>1. job.step = "Idle" /\ Last(stack) = "MergeName" /\ UNCHANGED card
  BY DEF MergeRun, Shows
<1>2. CASE /\ BothLoad /\ NoFault
           /\ \E merged \in Merges(stream(picked[1]), stream(picked[2])) :
                job' = Saving(n, merged, "Merge")
           /\ UNCHANGED <<stack, told, screenVars>>
  <2>1. PICK merged \in Merges(stream(picked[1]), stream(picked[2])) :
          job' = Saving(n, merged, "Merge")
    BY <1>2
  <2>2. Loads(picked[1], MaxDevices) /\ Loads(picked[2], MaxDevices)
    BY <1>2 DEF BothLoad
  <2>3. stream(picked[1]) \in Seq(Nat) /\ stream(picked[2]) \in Seq(Nat)
    BY <1>1, <2>2, BothPicked, StreamTyped
  <2>4. merged \in Seq(Nat)
    BY <2>3, MergesTyped
  <2>5. faults' \in Nat
    BY <1>2, OneFault
  <2> QED BY <1>1, <1>2, <2>1, <2>4, <2>5, BeginHolds
<1>3. CASE /\ NoFault \/ Fault
           /\ Next_scene("MergeResult", ExplainWhich(picked[1], picked[2]))
           /\ UNCHANGED <<job, screenVars>>
  <2>1. faults' \in Nat
    BY <1>3, OneFault
  <2>2. ExplainWhich(picked[1], picked[2]).say # "Summary"
    BY Explained
  <2>3. UNCHANGED <<selected, picked>>
    BY <1>3 DEF screenVars
  <2> QED BY <1>1, <1>3, <2>1, <2>2, <2>3, MessageHolds DEF Leads
<1> QED BY <1>2, <1>3 DEF MergeRun

LEMMA ImportRunHolds == ASSUME IInv, NEW n \in Names, ImportRun(n) PROVE IInv'
<1>1. job.step = "Idle" /\ Last(stack) = "ImportName" /\ UNCHANGED <<card, faults>>
      /\ faults' \in Nat
  BY DEF ImportRun, Shows, IInv, CardOK
<1>2. CASE /\ \E then \in {"Import", "ImportDropped"} : job' = Saving(n, Imported, then)
           /\ UNCHANGED <<stack, told, screenVars>>
  BY <1>1, <1>2, BeginHolds, BrowseAssumption
<1>3. CASE Next_scene("Msg", Says("NotImported", NoFile)) /\ UNCHANGED <<job, screenVars>>
  <2>1. Says("NotImported", NoFile).say # "Summary"
    BY Said
  <2>2. UNCHANGED <<selected, picked>>
    BY <1>3 DEF screenVars
  <2> QED BY <1>1, <1>3, <2>1, <2>2, MessageHolds DEF Leads
<1> QED BY <1>2, <1>3 DEF ImportRun

LEMMA ImportBrowseHolds == ASSUME IInv, ImportBrowse PROVE IInv'
<1>1. job.step = "Idle" /\ Last(stack) = "ImportPick" /\ UNCHANGED <<card, faults, job>>
  BY DEF ImportBrowse, Shows, OnScreen
<1>2. Settled
  BY <1>1, StillSettled DEF IInv, CardOK
<1>3. Len(stack) # 1
  BY <1>1, Below DEF IInv
<1> QED BY <1>1, <1>2, <1>3, VisitHolds, PopHolds, Names_of_nothing DEF Leads, ImportBrowse

(* A handler in one of the steps of a save is a save.                      *)
LEMMA Saves ==
  ASSUME IInv, job.step \in SaveSteps
  PROVE  SavingOK /\ job \in Jobs /\ job.devices \in Seq(Nat) /\ Len(job.devices) \in Nat
         /\ job.name \in Names /\ job.ext \in Exts /\ job.at \in Nat
         /\ job.then \in {"Merge", "Import", "ImportDropped"}
<1>1. SavingOK
  BY DEF IInv, JobOK, SaveSteps
<1> QED BY <1>1, LenProperties DEF SavingOK, Jobs, Exts

LEMMA MergeEndsHolds == ASSUME IInv, MergeEnds PROVE IInv'
<1>1. job.step \in {"Saved", "Failed"} /\ job.then = "Merge" /\ job' = Idle
      /\ UNCHANGED <<card, faults, selected, picked>>
  BY DEF MergeEnds, screenVars
<1>2. Last(stack) = "MergeName"
  BY <1>1, Saves DEF SavingOK, SaveSteps
<1>3. PICK message : Next_scene("MergeResult", message) /\ message.say # "Summary"
  BY Said, Explained DEF MergeEnds
<1>4. faults' \in Nat /\ job'.step = "Idle"
  BY <1>1, Names_of_nothing DEF IInv, CardOK
<1> QED BY <1>1, <1>2, <1>3, <1>4, MessageHolds DEF Leads

LEMMA ImportEndsHolds == ASSUME IInv, ImportEnds PROVE IInv'
<1>1. job.step \in {"Saved", "Failed"} /\ job.then # "Merge" /\ job' = Idle
      /\ UNCHANGED <<card, faults>>
  BY DEF ImportEnds
<1>2. Last(stack) = "ImportName"
  BY <1>1, Saves DEF SavingOK, SaveSteps
<1>3. Settled
  BY <1>1, StillSettled, Names_of_nothing DEF IInv, CardOK
<1>4. \/ Visit(<<"Start">>, Nothing)
      \/ \E message : Visit(Append(stack, "Msg"), message) /\ message.say # "Summary"
  BY Said DEF ImportEnds
<1> QED BY <1>1, <1>2, <1>3, <1>4, HomeHolds, VisitHolds DEF Leads

-----------------------------------------------------------------------------
(* The steps of a save, seen from the screens.                             *)

LEMMA WithCells ==
  ASSUME NEW f, NEW cells, card' = With(f, cells)
  PROVE  /\ DOMAIN card' = DOMAIN card \cup {f} /\ Cells(f)' = cells /\ card'[f] = cells
         /\ \A g \in DOMAIN card : g # f => card'[g] = card[g]
         /\ \A g : g # f => Cells(g)' = Cells(g)
BY DEF With, Cells

(* A sidecar of which one line more is written.                            *)
LEMMA SidecarCells ==
  ASSUME NEW devices \in Seq(Nat)
  PROVE  /\ Sidecar(devices) \in Seq(Cell) /\ Len(Sidecar(devices)) = Len(devices) + 1
         /\ Sidecar(devices)[1] = csv_header[1]
         /\ \A i \in 1 .. Len(devices) : Sidecar(devices)[i + 1] = csv_row(devices[i])[1]
<1> DEFINE n == Len(devices)
<1>1. n \in Nat /\ \A i \in 1 .. n : devices[i] \in Nat
  OBVIOUS
<1>2. Sidecar(devices) =
        [i \in 1 .. n + 1 |-> IF i = 1 THEN csv_header[1] ELSE csv_row(devices[i - 1])[1]]
  BY DEF Sidecar
<1> HIDE DEF n
<1>3. ASSUME NEW i \in 1 .. n + 1
      PROVE  (IF i = 1 THEN csv_header[1] ELSE csv_row(devices[i - 1])[1]) \in Cell
  <2>1. CASE i = 1
    BY <2>1 DEF csv_header, Cell
  <2>2. CASE i # 1
    <3>1. i - 1 \in 1 .. n
      BY <1>1, <2>2
    <3>2. devices[i - 1] \in Nat
      BY <1>1, <3>1
    <3> QED BY <2>2, <3>2 DEF csv_row, Cell
  <2> QED BY <2>1, <2>2
<1>4. Sidecar(devices) \in [1 .. n + 1 -> Cell]
  BY <1>2, <1>3
<1>5. Sidecar(devices) \in Seq(Cell) /\ Len(Sidecar(devices)) = n + 1
  BY <1>1, <1>4
<1>6. Sidecar(devices)[1] = csv_header[1]
  BY <1>1, <1>2
<1>7. ASSUME NEW i \in 1 .. n PROVE Sidecar(devices)[i + 1] = csv_row(devices[i])[1]
  <2>1. i + 1 \in 1 .. n + 1 /\ i + 1 # 1 /\ i + 1 - 1 = i
    BY <1>1
  <2> QED BY <1>2, <2>1
<1> QED BY <1>5, <1>6, <1>7 DEF n

LEMMA OneLineMore ==
  ASSUME NEW S, NEW s \in Seq(S), NEW k \in Nat, k < Len(s)
  PROVE  SubSeq(s, 1, k) \o <<s[k + 1]>> = SubSeq(s, 1, k + 1) /\ Len(SubSeq(s, 1, k)) = k
         /\ SubSeq(s, 1, k) \in Seq(S)
<1> DEFINE a == SubSeq(s, 1, k)
           b == SubSeq(s, 1, k + 1)
           c == <<s[k + 1]>>
<1>1. Len(s) \in Nat /\ \A i \in 1 .. Len(s) : s[i] \in S
  BY ElementOfSeq
<1>2. (\A i \in 1 .. k : s[i] \in S) /\ (\A i \in 1 .. k + 1 : s[i] \in S)
  BY <1>1
<1>3. a \in Seq(S) /\ Len(a) = k /\ \A i \in 1 .. k : a[i] = s[i]
  <2>1. /\ a \in Seq(S) /\ Len(a) = IF 1 <= k THEN k - 1 + 1 ELSE 0
        /\ \A i \in 1 .. k - 1 + 1 : a[i] = s[1 + i - 1]
    BY <1>2, SubSeqProperties
  <2> HIDE DEF a
  <2> QED BY <2>1
<1>4. b \in Seq(S) /\ Len(b) = k + 1 /\ \A i \in 1 .. k + 1 : b[i] = s[i]
  <2>1. /\ b \in Seq(S) /\ Len(b) = IF 1 <= k + 1 THEN k + 1 - 1 + 1 ELSE 0
        /\ \A i \in 1 .. k + 1 - 1 + 1 : b[i] = s[1 + i - 1]
    BY <1>2, SubSeqProperties
  <2> HIDE DEF b
  <2> QED BY <2>1
<1>5. c \in Seq(S) /\ Len(c) = 1 /\ c[1] = s[k + 1]
  BY <1>1
<1> HIDE DEF a, b, c
<1>6. /\ a \o c \in Seq(S) /\ Len(a \o c) = k + 1
      /\ \A i \in 1 .. k + 1 : (a \o c)[i] = IF i <= k THEN a[i] ELSE c[i - k]
  <2>1. /\ a \o c \in Seq(S) /\ Len(a \o c) = Len(a) + Len(c)
        /\ \A i \in 1 .. Len(a) + Len(c) :
             (a \o c)[i] = IF i <= Len(a) THEN a[i] ELSE c[i - Len(a)]
    BY <1>3, <1>5, ConcatProperties
  <2> QED BY <1>3, <1>5, <2>1
<1>7. ASSUME NEW i \in 1 .. k + 1 PROVE (a \o c)[i] = b[i]
  <2>1. b[i] = s[i]
    BY <1>4
  <2>2. CASE i <= k
    <3>1. i \in 1 .. k
      BY <2>2
    <3>2. (a \o c)[i] = a[i]
      BY <1>6, <2>2
    <3>3. a[i] = s[i]
      BY <1>3, <3>1
    <3> QED BY <2>1, <3>2, <3>3
  <2>3. CASE i = k + 1
    <3>1. ~(i <= k) /\ i - k = 1
      BY <2>3
    <3>2. (a \o c)[i] = c[1]
      BY <1>6, <3>1
    <3> QED BY <1>5, <2>1, <2>3, <3>2
  <2>4. i <= k \/ i = k + 1
    <3>1. i \in Int /\ i <= k + 1
      OBVIOUS
    <3> QED BY <3>1
  <2> QED BY <2>2, <2>3, <2>4
<1>8. a \o c = b
  BY <1>4, <1>6, <1>7, SeqEqual
<1> QED BY <1>3, <1>8 DEF a, b, c

LEMMA WholeSequence ==
  ASSUME NEW S, NEW s \in Seq(S)
  PROVE  SubSeq(s, 1, Len(s)) = s
<1> DEFINE n == Len(s)
           b == SubSeq(s, 1, n)
<1>1. n \in Nat /\ \A i \in 1 .. n : s[i] \in S
  BY ElementOfSeq
<1> HIDE DEF n
<1>2. /\ b \in Seq(S) /\ Len(b) = IF 1 <= n THEN n - 1 + 1 ELSE 0
      /\ \A i \in 1 .. n - 1 + 1 : b[i] = s[1 + i - 1]
  BY <1>1, SubSeqProperties
<1> HIDE DEF b
<1>3. Len(b) = n /\ \A i \in 1 .. n : b[i] = s[i]
  BY <1>1, <1>2
<1>4. b = s
  BY <1>2, <1>3, SeqEqual DEF n
<1> QED BY <1>4 DEF b, n

(* What a save, or a power cut in it, does to the card.                    *)
LEMMA SaveWrites ==
  ASSUME NEW old, SaveInv(old), job.step \in SaveSteps, Save \/ CutShort
  PROVE  card' = card \/ \E cells :
           /\ card' = With(File, cells)
           /\ job.ext = "wcen" => \E k \in 0 .. Size : cells = FirstPart(job.devices, k)
<1>1. /\ job \in Jobs /\ job.devices \in Seq(Nat) /\ Len(job.devices) \in Nat
      /\ job.ext \in {"wcen", "csv"} /\ Size \in Nat
  BY LenProperties DEF SaveInv, Jobs, Size
<1>2. CASE SaveOpen
  <2>1. FirstPart(job.devices, 0) = << >> /\ 0 \in 0 .. Size
    BY <1>1, SubSeqEmpty DEF FirstPart
  <2> QED BY <1>2, <2>1 DEF SaveOpen, open_write
<1>3. CASE job.step = "Write" /\ ((job.at <= Len(job.devices) /\ Torn(File, Position, Chunk)) \/ Unflushed(File))
  <2>1. CASE job.ext = "wcen"
    BY <1>3, <2>1, LeftPart
  <2>2. CASE job.ext = "csv"
    BY <1>3, <2>2 DEF Torn, Unflushed
  <2> QED BY <1>1, <2>1, <2>2
<1>4. CASE SaveWrite /\ card' = With(File, Written(File, Position, Chunk))
  <2>1. CASE job.ext = "csv"
    BY <1>4, <2>1
  <2>2. CASE job.ext = "wcen"
    <3>1. job.step = "Write" /\ job.at <= Len(job.devices)
      BY <1>4 DEF SaveWrite
    <3>2. Cells(File) = FirstPart(job.devices, Position)
      BY <2>2, <3>1 DEF SaveInv, Stored, File, Bin
    <3>3. Written(File, Position, Chunk) = FirstPart(job.devices, Position + 2)
      BY <1>1, <2>2, <3>1, <3>2, WrittenGrows
    <3>4. Position + 2 \in 0 .. Size
      BY <1>1, <2>2, <3>1, ChunkOfEncoding
    <3> QED BY <1>4, <3>3, <3>4
  <2> QED BY <1>1, <2>1, <2>2
<1> QED BY <1>2, <1>3, <1>4 DEF Save, SaveWrite, SaveClose, CutShort

LEMMA SaveKeepsCard ==
  ASSUME IInv, job.step \in SaveSteps, Save \/ CutShort
  PROVE  /\ CardOK' /\ Bins \subseteq Bins'
         /\ \A n \in Names : n # job.name => Cells(Bin(n))' = Cells(Bin(n)) /\ Cells(Csv(n))' = Cells(Csv(n))
         /\ DOMAIN card \subseteq DOMAIN card' /\ DOMAIN card' \subseteq DOMAIN card \cup {File}
<1>1. /\ job \in Jobs /\ job.devices \in Seq(Nat) /\ Len(job.devices) \in Nat
      /\ job.name \in Names /\ job.ext \in Exts
  BY Saves
<1>2. PICK old : SaveInv(old)
  BY Saves DEF SavingOK
<1>3. faults' \in Nat
  BY OneFault DEF Save, SaveOpen, SaveWrite, SaveClose, CutShort
<1>4. CASE card' = card
  BY <1>3, <1>4 DEF IInv, CardOK, Bins, Cells
<1>5. ASSUME NEW cells, card' = With(File, cells),
             job.ext = "wcen" => \E k \in 0 .. Size : cells = FirstPart(job.devices, k)
      PROVE  /\ CardOK' /\ Bins \subseteq Bins'
             /\ \A n \in Names : n # job.name => Cells(Bin(n))' = Cells(Bin(n)) /\ Cells(Csv(n))' = Cells(Csv(n))
             /\ DOMAIN card \subseteq DOMAIN card' /\ DOMAIN card' \subseteq DOMAIN card \cup {File}
  <2>1. /\ DOMAIN card' = DOMAIN card \cup {File} /\ card'[File] = cells
        /\ \A g \in DOMAIN card : g # File => card'[g] = card[g]
        /\ \A g : g # File => Cells(g)' = Cells(g)
    BY <1>5, WithCells
  <2>2. File \in Names \X Exts /\ File[2] = job.ext
    BY <1>1 DEF File
  <2>3. job.ext = "wcen" => cells \in Seq(Cell)
    BY <1>1, <1>5, FirstPartCells DEF Size
  <2>4. ASSUME NEW f \in Bins' PROVE card'[f] \in Seq(Cell)
    <3>1. CASE f = File
      BY <2>1, <2>2, <2>3, <2>4, <3>1 DEF Bins
    <3>2. CASE f # File
      BY <2>1, <2>4, <3>2 DEF IInv, CardOK, Bins
    <3> QED BY <3>1, <3>2
  <2>5. \A n \in Names : n # job.name => Bin(n) # File /\ Csv(n) # File
    BY DEF File, Bin, Csv
  <2>6. DOMAIN card' \subseteq Names \X Exts
    BY <2>1, <2>2 DEF IInv, CardOK
  <2> QED BY <1>3, <2>1, <2>4, <2>5, <2>6 DEF CardOK, Bins
<1> QED BY <1>2, <1>4, <1>5, SaveWrites

LEMMA CsvSaved ==
  ASSUME IInv, job.step \in SaveSteps, Save
  PROVE  CsvPart'
<1>1. /\ CsvPart /\ job \in Jobs /\ job.devices \in Seq(Nat) /\ Len(job.devices) \in Nat
      /\ job.name \in Names /\ job.ext \in {"wcen", "csv"} /\ job.at \in Nat
  BY Saves DEF SavingOK, Exts
<1> PICK f : f = File
  OBVIOUS
<1>2. CASE Goes("Failed")
  <2>1. job'.step = "Failed"
    BY <1>1, <1>2 DEF Goes, Jobs
  <2> QED BY <2>1 DEF CsvPart
<1>3. CASE SaveOpen /\ open_write(File) /\ Goes("Write")
  <2>1. /\ job'.step = "Write" /\ job'.ext = job.ext /\ job'.at = job.at
        /\ job'.devices = job.devices /\ job'.name = job.name
    BY <1>1, <1>3 DEF Goes, Jobs
  <2>2. CASE job.ext = "csv"
    <3>1. job.at = 0
      BY <1>1, <1>3, <2>2 DEF SaveOpen, CsvPart
    <3>2. Cells(f)' = << >> /\ f = Csv(job.name)
      BY <1>3, <2>2, WithCells DEF open_write, File, Csv
    <3>3. SubSeq(Sidecar(job.devices), 1, 0) = << >>
      BY SubSeqEmpty
    <3>4. Cells(Csv(job.name))' = << >>
      BY <2>1, <3>2 DEF Csv, Cells
    <3>5. 0 <= Len(job.devices) + 1
      BY <1>1
    <3> QED BY <2>1, <2>2, <3>1, <3>3, <3>4, <3>5 DEF CsvPart
  <2>3. CASE job.ext = "wcen"
    <3>1. job.at <= Len(job.devices) + 1
      BY <1>1, <1>3 DEF SaveOpen, CsvPart
    <3> QED BY <2>1, <2>3, <3>1 DEF CsvPart
  <2> QED BY <1>1, <2>2, <2>3
<1>4. CASE SaveWrite /\ card' = With(File, Written(File, Position, Chunk))
           /\ job' = [job EXCEPT !.at = @ + 1]
  <2>1. job.step = "Write" /\ job.at <= Len(job.devices)
    BY <1>4 DEF SaveWrite
  <2>2. /\ job'.step = "Write" /\ job'.ext = job.ext /\ job'.at = job.at + 1
        /\ job'.devices = job.devices /\ job'.name = job.name
    BY <1>1, <1>4, <2>1 DEF Jobs
  <2>3. CASE job.ext = "csv"
    <3> DEFINE side == Sidecar(job.devices)
               at == job.at
    <3>1. side \in Seq(Cell) /\ Len(side) = Len(job.devices) + 1
      BY <1>1, SidecarCells
    <3>2. at \in Nat /\ at < Len(side)
      BY <1>1, <2>1, <3>1
    <3>3. Position = at /\ Chunk = <<side[at + 1]>>
      <4>1. CASE at = 0
        <5>1. side[1] = csv_header[1] /\ at + 1 = 1
          BY <1>1, <4>1, SidecarCells
        <5>2. csv_header = <<csv_header[1]>>
          BY DEF csv_header
        <5> QED BY <2>3, <4>1, <5>1, <5>2 DEF Position, Chunk
      <4>2. CASE at # 0
        <5>1. at \in 1 .. Len(job.devices)
          BY <1>1, <2>1, <4>2
        <5>2. side[at + 1] = csv_row(job.devices[at])[1]
          BY <1>1, <5>1, SidecarCells
        <5>3. csv_row(job.devices[at]) = <<csv_row(job.devices[at])[1]>>
          BY DEF csv_row
        <5> QED BY <2>3, <4>2, <5>2, <5>3 DEF Position, Chunk
      <4> QED BY <4>1, <4>2
    <3>4. Cells(File) = SubSeq(side, 1, at)
      BY <1>1, <2>1, <2>3 DEF CsvPart, File, Csv
    <3> HIDE DEF side, at
    <3>5. /\ SubSeq(side, 1, at) \o <<side[at + 1]>> = SubSeq(side, 1, at + 1)
          /\ Len(SubSeq(side, 1, at)) = at /\ SubSeq(side, 1, at) \in Seq(Cell)
      BY <3>1, <3>2, OneLineMore
    <3>6. file_size(File) = at
      BY <3>4, <3>5 DEF file_size
    <3>7. SubSeq(SubSeq(side, 1, at), 1, at) = SubSeq(side, 1, at)
      BY <3>5, WholeSequence
    <3>8. SubSeq(SubSeq(side, 1, at), at + 1 + 1, at) = << >>
      BY <3>2, SubSeqEmpty
    <3>9. Written(File, Position, Chunk) = SubSeq(side, 1, at) \o <<side[at + 1]>> \o << >>
      BY <3>3, <3>4, <3>6, <3>7, <3>8 DEF Written
    <3>10. SubSeq(side, 1, at + 1) \in Seq(Cell)
      <4>1. <<side[at + 1]>> \in Seq(Cell)
        BY <3>1, <3>2, ElementOfSeq
      <4> QED BY <3>5, <4>1, ConcatProperties
    <3>11. Written(File, Position, Chunk) = SubSeq(side, 1, at + 1)
      BY <3>5, <3>9, <3>10, ConcatEmptySeq
    <3>12. Cells(f)' = SubSeq(side, 1, at + 1) /\ f = Csv(job.name)
      BY <1>4, <2>3, <3>11, WithCells DEF File, Csv
    <3>13. Cells(Csv(job.name))' = SubSeq(side, 1, at + 1)
      BY <2>2, <3>12 DEF Csv, Cells
    <3>14. job'.at <= Len(job.devices) + 1
      BY <1>1, <2>1, <2>2
    <3> QED BY <2>2, <2>3, <3>13, <3>14 DEF CsvPart, side, at
  <2>4. CASE job.ext = "wcen"
    <3>1. job'.at <= Len(job.devices) + 1
      BY <1>1, <2>1, <2>2
    <3> QED BY <2>2, <2>4, <3>1 DEF CsvPart
  <2> QED BY <1>1, <2>3, <2>4
<1>5. CASE SaveClose /\ UNCHANGED card /\ job.ext = "wcen"
           /\ job' = [job EXCEPT !.step = "Open", !.ext = "csv", !.at = 0]
  <2>1. job'.step = "Open" /\ job'.ext = "csv" /\ job'.at = 0 /\ job'.devices = job.devices
    BY <1>1, <1>5 DEF Jobs
  <2>2. 0 <= Len(job.devices) + 1
    BY <1>1
  <2> QED BY <2>1, <2>2 DEF CsvPart
<1>6. CASE SaveClose /\ UNCHANGED card /\ job.ext = "csv" /\ job' = [job EXCEPT !.step = "Saved"]
  <2>1. job'.step = "Saved" /\ job'.ext = "csv" /\ job'.devices = job.devices /\ job'.name = job.name
    BY <1>1, <1>6 DEF Jobs
  <2>2. Cells(Csv(job.name)) = SubSeq(Sidecar(job.devices), 1, Len(job.devices) + 1)
    BY <1>1, <1>6 DEF SaveClose, CsvPart
  <2>3. SubSeq(Sidecar(job.devices), 1, Len(job.devices) + 1) = Sidecar(job.devices)
    BY <1>1, SidecarCells, WholeSequence
  <2>4. Cells(Csv(job.name))' = Sidecar(job.devices)
    BY <1>6, <2>1, <2>2, <2>3 DEF Cells, Csv
  <2> QED BY <2>1, <2>4 DEF CsvPart
<1> QED BY <1>1, <1>2, <1>3, <1>4, <1>5, <1>6 DEF Save, SaveOpen, SaveWrite, SaveClose, Failed

LEMMA SaveJob ==
  ASSUME job \in Jobs, Save
  PROVE  job'.step \in SaveSteps /\ job'.then = job.then /\ job'.name = job.name
         /\ job'.devices = job.devices /\ job.step \in {"Open", "Write"}
BY DEF Save, SaveOpen, SaveWrite, SaveClose, Goes, Failed, Jobs, SaveSteps

LEMMA SaveHolds == ASSUME IInv, SaveStep PROVE IInv'
<1>1. /\ Save /\ job.step \in SaveSteps
      /\ stack' = stack /\ told' = told /\ listed' = listed /\ selected' = selected
      /\ picked' = picked /\ browse' = browse
  BY DEF SaveStep, Save, SaveOpen, SaveWrite, SaveClose, SaveSteps, screenVars
<1>2. SavingOK /\ job \in Jobs
  BY <1>1, Saves
<1>3. job'.step \in SaveSteps /\ job'.then = job.then
  BY <1>1, <1>2, SaveJob
<1>4. PICK old : SaveInv(old)
  BY <1>2 DEF SavingOK
<1>5. SaveInv(old)'
  BY <1>1, <1>4, OpenInv, WriteInv, CloseInv DEF Save
<1>6. job' \in Jobs
  BY <1>5 DEF SaveInv
<1>7. CsvPart'
  BY <1>1, CsvSaved
<1>8. JobOK' /\ SavingOK'
  BY <1>1, <1>2, <1>3, <1>5, <1>6, <1>7 DEF JobOK, SavingOK
<1>9. CardOK' /\ Bins \subseteq Bins'
  BY <1>1, SaveKeepsCard
<1>10. Last(stack) \in {"MergeName", "ImportName"}
  BY <1>2 DEF SavingOK
<1>11. SelectedOnCard'
  BY <1>1, <1>9 DEF IInv, SelectedOnCard, On, SaveSteps
<1>12. ShownIsStored' /\ SummaryOK' /\ ListOK' /\ PickedOK'
  BY <1>1, <1>10 DEF IInv, ShownIsStored, SummaryOK, ListOK, PickedOK, FileLists
<1>13. Gone' /\ Path(stack')
  BY <1>1, <1>3 DEF IInv, Gone, SaveSteps
<1> QED BY <1>8, <1>9, <1>11, <1>12, <1>13 DEF IInv

(* A handler under way is on one of four screens.                          *)
LEMMA Busy ==
  ASSUME IInv, job.step # "Idle"
  PROVE  Last(stack) \in {"FileActions", "Rename", "MergeName", "ImportName"}
         /\ told.say # "Summary"
<1>1. Last(stack) \in {"FileActions", "Rename", "MergeName", "ImportName"}
  BY DEF IInv, JobOK, SavingOK
<1> QED BY <1>1 DEF IInv, SummaryOK

LEMMA CrashHolds == ASSUME IInv, Crash PROVE IInv'
<1>1. /\ job.step # "Idle" /\ CutShort /\ job' = Idle /\ stack' = <<"Start">> /\ told' = Nothing
      /\ selected' = NoFile /\ picked' = <<NoFile, NoFile>> /\ listed' = {}
  BY DEF Crash
<1>2. CardOK'
  <2>1. CASE job.step \in SaveSteps
    BY <1>1, <2>1, SaveKeepsCard
  <2>2. CASE job.step \notin SaveSteps
    <3>1. card' = card /\ faults' \in Nat
      BY <1>1, <2>2, OneFault DEF CutShort, SaveSteps
    <3> QED BY <3>1 DEF IInv, CardOK, Bins
  <2> QED BY <2>1, <2>2
<1>3. Path(stack') /\ Last(stack') = "Start" /\ \A x \in ToSet(stack') : x = "Start"
  BY <1>1, Alone
<1>4. job'.step = "Idle" /\ told'.say # "Summary"
  BY <1>1, Names_of_nothing
<1>5. SelectedOnCard'
  BY <1>3 DEF SelectedOnCard, On
<1>6. PickedOK'
  BY <1>1 DEF PickedOK
<1> QED BY <1>2, <1>3, <1>4, <1>5, <1>6
        DEF IInv, JobOK, Gone, ListOK, FileLists, SummaryOK, ShownIsStored

-----------------------------------------------------------------------------
(* Delete and rename.                                                      *)

LEMMA RefusedHolds ==
  ASSUME IInv, job.step = "Idle", NEW message, message.say # "Summary",
         Leads(Last(stack), "Msg"), Refused(message)
  PROVE  IInv'
<1>1. Next_scene("Msg", message) /\ UNCHANGED <<card, job, selected, picked>> /\ faults' \in Nat
  BY OneFault DEF Refused, screenVars
<1> QED BY <1>1, MessageHolds

LEMMA UnderFileActions ==
  ASSUME IInv, Last(stack) \in {"FileActions", "Rename"}
  PROVE  ~On("CompareB") /\ ~On("MergeB") /\ ~On("MergeName") /\ Len(stack) # 1
<1>1. Path(stack)
  BY DEF IInv
<1>2. \A i \in 1 .. Len(stack) - 1 : stack[i] \in {"Start", "Files", "FileActions"}
  BY <1>1, Below
<1>3. Len(stack) # 1
  BY <1>1, Below
<1>4. \A x \in ToSet(stack) : x \in {"Start", "Files", "FileActions", "Rename"}
  <2>1. stack \in Seq(Scenes) /\ Len(stack) \in Nat
    BY <1>1 DEF Path
  <2> TAKE x \in ToSet(stack)
  <2>2. PICK i \in 1 .. Len(stack) : x = stack[i]
    BY <2>1 DEF ToSet
  <2>3. CASE i = Len(stack)
    BY <2>2, <2>3 DEF Last
  <2>4. CASE i # Len(stack)
    <3>1. i \in 1 .. Len(stack) - 1
      BY <2>1, <2>4
    <3> QED BY <1>2, <2>2, <3>1
  <2> QED BY <2>3, <2>4
<1> QED BY <1>3, <1>4 DEF On

LEMMA BinFile ==
  ASSUME IInv, NEW f \in Bins
  PROVE  \E n \in Names : f = Bin(n)
<1>1. f \in Names \X Exts /\ f[2] = "wcen"
  BY DEF IInv, CardOK, Bins
<1>2. f = <<f[1], "wcen">> /\ f[1] \in Names
  BY <1>1
<1> QED BY <1>2 DEF Bin

LEMMA WithoutCells ==
  ASSUME NEW f, delete_file(f)
  PROVE  /\ DOMAIN card' = DOMAIN card \ {f}
         /\ \A g \in DOMAIN card' : card'[g] = card[g]
         /\ \A g : g # f => Cells(g)' = Cells(g)
BY DEF delete_file, Without, Cells

LEMMA RenamedCells ==
  ASSUME NEW f, NEW g, Renamable(f, g), rename_file(f, g)
  PROVE  /\ DOMAIN card' = (DOMAIN card \ {f}) \cup {g}
         /\ \A h \in DOMAIN card' : h # g => card'[h] = card[h]
         /\ card'[g] = card[f] /\ Cells(g)' = Cells(f) /\ f # g
         /\ \A h : h # f /\ h # g => Cells(h)' = Cells(h)
BY DEF Renamable, rename_file, Cells

(* The selected capture is a file of the card while its actions are shown. *)
LEMMA Selected ==
  ASSUME IInv, job.step = "Idle", Last(stack) = "FileActions" \/ Last(stack) = "Rename"
  PROVE  selected \in Bins /\ \E n \in Names : selected = Bin(n)
<1>1. Path(stack)
  BY DEF IInv
<1>2. On("FileActions")
  <2>1. CASE Last(stack) = "FileActions"
    BY <2>1, OnTop
  <2>2. CASE Last(stack) = "Rename"
    <3>1. \E x \in ToSet(stack) : Leads(x, "Rename")
      BY <1>1, <2>2, Below, UnderTop
    <3> QED BY <3>1 DEF Leads, On
  <2> QED BY <2>1, <2>2
<1>3. selected \in Bins
  BY <1>2 DEF IInv, SelectedOnCard
<1> QED BY <1>3, BinFile

LEMMA DeleteBinHolds == ASSUME IInv, DeleteBin PROVE IInv'
<1>1. job.step = "Idle" /\ Last(stack) = "FileActions"
  BY DEF DeleteBin, Shows
<1>2. CASE Refused(Says("NotDeleted", selected))
  <2>1. Says("NotDeleted", selected).say # "Summary"
    BY Said
  <2> QED BY <1>1, <1>2, <2>1, RefusedHolds DEF Leads
<1>3. CASE /\ selected \in DOMAIN card /\ delete_file(selected) /\ NoFault
           /\ job' = [Idle EXCEPT !.step = "DeleteCsv"]
           /\ UNCHANGED <<stack, told, screenVars>>
  <2>1. /\ stack' = stack /\ told' = told /\ listed' = listed /\ selected' = selected
        /\ picked' = picked /\ browse' = browse
    BY <1>3 DEF screenVars
  <2>2. job'.step = "DeleteCsv"
    BY <1>3, Names_of_nothing
  <2>3. DOMAIN card' = DOMAIN card \ {selected} /\ \A g \in DOMAIN card' : card'[g] = card[g]
    BY <1>3, WithoutCells
  <2>4. faults' \in Nat
    BY <1>3, OneFault
  <2>5. CardOK'
    BY <2>3, <2>4 DEF IInv, CardOK, Bins
  <2>6. Gone'
    BY <1>1, <2>1, <2>2, <2>3, Selected DEF Gone
  <2>7. SelectedOnCard'
    BY <1>1, <2>1, <2>2, UnderFileActions DEF SelectedOnCard, On
  <2>8. JobOK'
    BY <1>1, <2>1, <2>2 DEF JobOK
  <2>9. ShownIsStored' /\ SummaryOK' /\ ListOK' /\ PickedOK' /\ Path(stack')
    BY <1>1, <2>1 DEF IInv, ShownIsStored, SummaryOK, ListOK, PickedOK, FileLists
  <2> QED BY <2>5, <2>6, <2>7, <2>8, <2>9 DEF IInv
<1> QED BY <1>2, <1>3 DEF DeleteBin

(* A sidecar may come and go: the captures are the same.                   *)
LEMMA CsvSettled ==
  ASSUME IInv, faults' \in Nat, job'.step = "Idle",
         \/ card' = card
         \/ \E n \in Names : delete_file(Csv(n))
         \/ \E n, m \in Names : Renamable(Csv(n), Csv(m)) /\ rename_file(Csv(n), Csv(m))
  PROVE  Settled
<1>1. CASE card' = card
  BY <1>1, StillSettled
<1>2. ASSUME NEW n \in Names, delete_file(Csv(n)) PROVE Settled
  <2>1. DOMAIN card' = DOMAIN card \ {Csv(n)} /\ \A g \in DOMAIN card' : card'[g] = card[g]
    BY <1>2, WithoutCells
  <2>2. Bins' = Bins
    BY <2>1 DEF Bins, Csv
  <2> QED BY <2>1, <2>2 DEF IInv, CardOK, Settled, Bins
<1>3. ASSUME NEW n \in Names, NEW m \in Names,
             Renamable(Csv(n), Csv(m)), rename_file(Csv(n), Csv(m))
      PROVE  Settled
  <2>1. DOMAIN card' = (DOMAIN card \ {Csv(n)}) \cup {Csv(m)}
        /\ \A g \in DOMAIN card' : g # Csv(m) => card'[g] = card[g]
    BY <1>3, RenamedCells
  <2>2. Csv(n)[2] = "csv" /\ Csv(m)[2] = "csv" /\ Csv(m) \in Names \X Exts
    BY DEF Csv, Exts
  <2>3. Bins' = Bins
    BY <2>1, <2>2 DEF Bins
  <2>4. DOMAIN card' \subseteq Names \X Exts
    BY <2>1, <2>2 DEF IInv, CardOK
  <2>5. \A f \in Bins' : card'[f] \in Seq(Cell)
    BY <2>1, <2>2, <2>3 DEF IInv, CardOK, Bins
  <2> QED BY <2>3, <2>4, <2>5 DEF Settled, CardOK
<1> QED BY <1>1, <1>2, <1>3

LEMMA DeleteCsvHolds == ASSUME IInv, DeleteCsv PROVE IInv'
<1>1. job.step = "DeleteCsv" /\ job' = Idle /\ Visit(Front(stack), Nothing)
  BY DEF DeleteCsv
<1>2. Last(stack) = "FileActions"
  BY <1>1 DEF IInv, JobOK, SaveSteps
<1>3. PICK n \in Names : selected = Bin(n)
  BY <1>1 DEF IInv, Gone
<1>4. Csv(selected[1]) = Csv(n)
  BY <1>3 DEF Bin, Csv
<1>5. faults' \in Nat /\ (card' = card \/ delete_file(Csv(n)))
  BY <1>4, OneFault DEF DeleteCsv, IInv, CardOK
<1>6. Settled
  BY <1>1, <1>5, CsvSettled, Names_of_nothing
<1> QED BY <1>1, <1>2, <1>6, PopHolds, UnderFileActions

LEMMA RenameBinHolds == ASSUME IInv, NEW n \in Names, RenameBin(n) PROVE IInv'
<1>1. job.step = "Idle" /\ Last(stack) = "Rename"
  BY DEF RenameBin, Shows
<1>2. CASE Refused(Says("NotRenamed", selected))
  <2>1. Says("NotRenamed", selected).say # "Summary"
    BY Said
  <2> QED BY <1>1, <1>2, <2>1, RefusedHolds DEF Leads
<1>3. CASE /\ NoFault /\ Next_scene("Msg", Says("NotRenamed", selected))
           /\ UNCHANGED <<card, job, screenVars>>
  <2>1. Says("NotRenamed", selected).say # "Summary"
    BY Said
  <2>2. UNCHANGED <<selected, picked>> /\ faults' \in Nat
    BY <1>3, OneFault DEF screenVars
  <2> QED BY <1>1, <1>3, <2>1, <2>2, MessageHolds DEF Leads
<1>4. CASE /\ Renamable(selected, Bin(n)) /\ rename_file(selected, Bin(n)) /\ NoFault
           /\ job' = [Idle EXCEPT !.step = "RenameCsv", !.name = n]
           /\ UNCHANGED <<stack, told, screenVars>>
  <2>1. /\ stack' = stack /\ told' = told /\ listed' = listed /\ selected' = selected
        /\ picked' = picked /\ browse' = browse
    BY <1>4 DEF screenVars
  <2>2. job'.step = "RenameCsv" /\ job'.name = n
    BY <1>4, Names_of_nothing
  <2>3. /\ DOMAIN card' = (DOMAIN card \ {selected}) \cup {Bin(n)} /\ selected # Bin(n)
        /\ \A g \in DOMAIN card' : g # Bin(n) => card'[g] = card[g]
        /\ card'[Bin(n)] = card[selected]
    BY <1>4, RenamedCells
  <2>4. selected \in Bins /\ \E m \in Names : selected = Bin(m)
    BY <1>1, Selected
  <2>5. faults' \in Nat
    BY <1>4, OneFault
  <2>6. CardOK'
    <3>1. Bin(n) \in Names \X Exts
      BY DEF Bin, Exts
    <3>2. DOMAIN card' \subseteq Names \X Exts
      BY <2>3, <3>1 DEF IInv, CardOK
    <3>3. \A f \in Bins' : card'[f] \in Seq(Cell)
      BY <2>3, <2>4 DEF IInv, CardOK, Bins
    <3> QED BY <2>5, <3>2, <3>3 DEF CardOK
  <2>7. Gone'
    BY <2>1, <2>2, <2>3, <2>4 DEF Gone, Bin
  <2>8. SelectedOnCard'
    BY <1>1, <2>1, <2>2, UnderFileActions DEF SelectedOnCard, On
  <2>9. JobOK'
    BY <1>1, <2>1, <2>2 DEF JobOK
  <2>10. ShownIsStored' /\ SummaryOK' /\ ListOK' /\ PickedOK' /\ Path(stack')
    BY <1>1, <2>1 DEF IInv, ShownIsStored, SummaryOK, ListOK, PickedOK, FileLists
  <2> QED BY <2>6, <2>7, <2>8, <2>9, <2>10 DEF IInv
<1> QED BY <1>2, <1>3, <1>4 DEF RenameBin

LEMMA RenameCsvHolds == ASSUME IInv, RenameCsv PROVE IInv'
<1>1. job.step = "RenameCsv" /\ job' = Idle /\ Visit(<<"Files">>, Nothing)
  BY DEF RenameCsv
<1>2. job.name \in Names
  BY <1>1 DEF IInv, JobOK, SaveSteps
<1>3. PICK n \in Names : selected = Bin(n)
  BY <1>1 DEF IInv, Gone
<1>4. Csv(selected[1]) = Csv(n)
  BY <1>3 DEF Bin, Csv
<1>5. /\ faults' \in Nat
      /\ \/ card' = card
         \/ Renamable(Csv(n), Csv(job.name)) /\ rename_file(Csv(n), Csv(job.name))
  BY <1>4, OneFault DEF RenameCsv, IInv, CardOK
<1>6. Settled
  BY <1>1, <1>2, <1>5, CsvSettled, Names_of_nothing
<1> QED BY <1>1, <1>6, HomeHolds

-----------------------------------------------------------------------------
(* The theorems about the screens.                                         *)

LEMMA InitHolds == ASSUME Init PROVE IInv
<1>1. /\ card \in Cards /\ faults = 0 /\ job = Idle /\ stack = <<"Start">> /\ listed = {}
      /\ selected = NoFile /\ picked = <<NoFile, NoFile>> /\ told = Nothing
  BY DEF Init
<1>2. Path(stack) /\ Last(stack) = "Start" /\ \A x \in ToSet(stack) : x = "Start"
  BY <1>1, Alone
<1>3. job.step = "Idle" /\ told.say # "Summary"
  BY <1>1, Names_of_nothing
<1>4. CardOK
  BY <1>1, BrowseAssumption DEF CardOK, Bins, Cell, Exts
<1>5. SelectedOnCard
  BY <1>2 DEF SelectedOnCard, On
<1>6. PickedOK
  BY <1>1 DEF PickedOK
<1> QED BY <1>2, <1>3, <1>4, <1>5, <1>6
        DEF IInv, JobOK, Gone, ListOK, FileLists, SummaryOK, ShownIsStored

LEMMA NextHolds == ASSUME IInv, Next PROVE IInv'
<1>1. ASSUME Pick("CompareA", 1, "CompareB") \/ Pick("MergeA", 1, "MergeB") \/ Pick("MergeB", 2, "MergeName")
      PROVE  IInv'
  BY <1>1, PickHolds
<1>2. ASSUME ShowSummary \/ ShowDevices \/ ShowNetworks PROVE IInv'
  <2>1. Nothing.say # "Summary"
    BY Names_of_nothing
  <2> QED BY <1>2, <2>1, OpenHolds DEF ShowSummary, ShowDevices, ShowNetworks
<1> QED BY <1>1, <1>2, ChooseHolds, BackHolds, FilesPickHolds, DeleteBinHolds, DeleteCsvHolds,
           RenameOpens, RenameBinHolds, RenameCsvHolds, PickSecondHolds, MergeRunHolds,
           MergeEndsHolds, ImportBrowseHolds, ImportRunHolds, ImportEndsHolds, SaveHolds,
           CrashHolds DEF Next

LEMMA StutterHolds == ASSUME IInv, UNCHANGED vars PROVE IInv'
<1>1. /\ card' = card /\ faults' = faults /\ job' = job /\ stack' = stack /\ listed' = listed
      /\ selected' = selected /\ picked' = picked /\ browse' = browse /\ told' = told
  BY DEF vars, screenVars
<1>2. CardOK' /\ Bins' = Bins
  BY <1>1 DEF IInv, CardOK, Bins
<1>3. JobOK'
  <2>1. ASSUME NEW old, SaveInv(old) PROVE SaveInv(old)'
    BY <1>1, <2>1 DEF SaveInv, Stored, Cells, Position, Size
  <2>2. CsvPart => CsvPart'
    BY <1>1 DEF CsvPart, Cells
  <2> QED BY <1>1, <2>1, <2>2 DEF IInv, JobOK, SavingOK
<1>4. SelectedOnCard' /\ ShownIsStored'
  BY <1>1, <1>2
     DEF IInv, SelectedOnCard, On, ShownIsStored, Loads, stream, read_range, file_size, Cells
<1> QED BY <1>1, <1>2, <1>3, <1>4 DEF IInv, Gone, ListOK, SummaryOK, PickedOK

THEOREM Invariance == Spec => []IInv
<1>1. IInv /\ [Next]_vars => IInv'
  BY NextHolds, StutterHolds
<1> QED BY <1>1, InitHolds, PTL DEF Spec

(* A screen that acts on a file acts on one that is on the card: nothing   *)
(* before it deletes or renames the file under it, and no list offers what *)
(* another screen left in it (wc_scene_browse.c, wc_scene_crossing.c).     *)
THEOREM SelectionHolds == Spec => []SelectedOnCard
<1>1. IInv => SelectedOnCard
  BY DEF IInv
<1> QED BY <1>1, Invariance, PTL

(* What the summary, the devices and the networks show is what the capture *)
(* selected holds, whatever the card fails at (ensure_browse_loaded).      *)
THEOREM ShownHolds == Spec => []ShownIsStored
<1>1. IInv => ShownIsStored
  BY DEF IInv
<1> QED BY <1>1, Invariance, PTL

-----------------------------------------------------------------------------
(* What the steps do to the card.                                          *)

BeginStep ==
  \E n \in Names, devices \in Seq(Nat), then \in {"Merge", "Import", "ImportDropped"} :
    job' = Saving(n, devices, then)

QuietStep ==
  /\ job.step = "Idle" /\ UNCHANGED card /\ (NoFault \/ Fault)
  /\ job' = job \/ BeginStep

EndStep ==
  /\ job.step \in {"Saved", "Failed"} /\ job' = Idle /\ UNCHANGED <<card, faults>>

DeleteStep ==
  /\ job.step = "Idle" /\ Last(stack) = "FileActions" /\ NoFault
  /\ selected \in DOMAIN card /\ delete_file(selected)
  /\ job' = [Idle EXCEPT !.step = "DeleteCsv"] /\ UNCHANGED selected

RenameStep(n) ==
  /\ job.step = "Idle" /\ Last(stack) = "Rename" /\ NoFault
  /\ Renamable(selected, Bin(n)) /\ rename_file(selected, Bin(n))
  /\ job' = [Idle EXCEPT !.step = "RenameCsv", !.name = n] /\ UNCHANGED selected

LEMMA Steps ==
  ASSUME IInv, Next
  PROVE  \/ QuietStep \/ EndStep \/ SaveStep \/ DeleteStep \/ DeleteCsv
         \/ (\E n \in Names : RenameStep(n)) \/ RenameCsv \/ Crash
<1>1. ASSUME \E scene \in {"Files", "CompareA", "MergeA", "ImportPick"} : Choose(scene)
      PROVE  QuietStep
  BY <1>1 DEF Choose, Shows, OnScreen, QuietStep, NoFault
<1>2. ASSUME Back \/ (\E f \in listed : FilesPick(f)) PROVE QuietStep
  BY <1>2 DEF Back, FilesPick, Shows, OnScreen, QuietStep, NoFault
<1>3. ASSUME ShowSummary \/ ShowDevices \/ ShowNetworks PROVE QuietStep
  <2>1. PICK scene : \E message : OpenCapture(scene, message)
    BY <1>3 DEF ShowSummary, ShowDevices, ShowNetworks
  <2> QED BY <2>1 DEF OpenCapture, Loaded, NotLoaded, Shows, QuietStep
<1>4. ASSUME DeleteBin PROVE QuietStep \/ DeleteStep
  BY <1>4 DEF DeleteBin, Refused, Shows, QuietStep, DeleteStep, screenVars
<1>5. ASSUME Shows("FileActions") /\ Visit(Append(stack, "Rename"), Nothing) /\ OnScreen
      PROVE  QuietStep
  BY <1>5 DEF Shows, OnScreen, QuietStep, NoFault
<1>6. ASSUME NEW n \in Names, RenameBin(n) PROVE QuietStep \/ RenameStep(n)
  BY <1>6 DEF RenameBin, Refused, Shows, QuietStep, RenameStep, screenVars
<1>7. ASSUME Pick("CompareA", 1, "CompareB") \/ Pick("MergeA", 1, "MergeB") \/ Pick("MergeB", 2, "MergeName")
      PROVE  QuietStep
  BY <1>7 DEF Pick, Shows, OnScreen, QuietStep, NoFault
<1>8. ASSUME PickSecond PROVE QuietStep
  BY <1>8 DEF PickSecond, Shows, QuietStep
<1>9. ASSUME NEW n \in Names, MergeRun(n) PROVE QuietStep
  <2>1. job.step = "Idle" /\ UNCHANGED card /\ (NoFault \/ Fault)
    BY <1>9 DEF MergeRun, Shows
  <2>2. CASE job' = job
    BY <2>1, <2>2 DEF QuietStep
  <2>3. CASE BothLoad /\ \E merged \in Merges(stream(picked[1]), stream(picked[2])) :
               job' = Saving(n, merged, "Merge")
    <3>1. PICK merged \in Merges(stream(picked[1]), stream(picked[2])) :
            job' = Saving(n, merged, "Merge")
      BY <2>3
    <3>2. picked[1] \in Bins /\ picked[2] \in Bins
      BY <1>9, BothPicked DEF MergeRun, Shows
    <3>3. Loads(picked[1], MaxDevices) /\ Loads(picked[2], MaxDevices)
      BY <2>3 DEF BothLoad
    <3>4. merged \in Seq(Nat)
      BY <3>2, <3>3, StreamTyped, MergesTyped
    <3> QED BY <2>1, <3>1, <3>4 DEF QuietStep, BeginStep
  <2> QED BY <1>9, <2>2, <2>3 DEF MergeRun
<1>10. ASSUME NEW n \in Names, ImportRun(n) PROVE QuietStep
  <2>1. job.step = "Idle" /\ UNCHANGED <<card, faults>>
    BY <1>10 DEF ImportRun, Shows
  <2>2. job' = job \/ \E then \in {"Import", "ImportDropped"} : job' = Saving(n, Imported, then)
    BY <1>10 DEF ImportRun
  <2> QED BY <2>1, <2>2, BrowseAssumption DEF QuietStep, BeginStep, NoFault
<1>11. ASSUME ImportBrowse PROVE QuietStep
  BY <1>11 DEF ImportBrowse, Shows, OnScreen, QuietStep, NoFault
<1>12. ASSUME MergeEnds \/ ImportEnds PROVE EndStep
  BY <1>12 DEF MergeEnds, ImportEnds, EndStep
<1> QED BY <1>1, <1>2, <1>3, <1>4, <1>5, <1>6, <1>7, <1>8, <1>9, <1>10, <1>11, <1>12 DEF Next

LEMMA FaultCounts == ASSUME IInv, Fault PROVE faults' # 0
BY DEF IInv, CardOK, Fault

(* What a capture holds is in its cells.                                   *)
LEMMA StreamMoved ==
  ASSUME NEW f, NEW g, Cells(g)' = Cells(f)
  PROVE  /\ stream(g)' = stream(f) /\ file_size(g)' = file_size(f)
         /\ read_range(g, 0, header_size)' = read_range(f, 0, header_size)
         /\ \A max : Loads(g, max)' = Loads(f, max)
<1>1. file_size(g)' = file_size(f)
  BY DEF file_size
<1>2. \A o, n : read_range(g, o, n)' = read_range(f, o, n)
  BY <1>1 DEF read_range
<1>3. stream(g)' = stream(f)
  BY <1>2 DEF stream
<1>4. \A max : Loads(g, max)' = Loads(f, max)
  BY <1>1, <1>2 DEF Loads
<1> QED BY <1>1, <1>2, <1>3, <1>4

LEMMA StreamKept ==
  ASSUME NEW f, Cells(f)' = Cells(f)
  PROVE  /\ stream(f)' = stream(f) /\ file_size(f)' = file_size(f)
         /\ read_range(f, 0, header_size)' = read_range(f, 0, header_size)
         /\ \A max : Loads(f, max)' = Loads(f, max)
BY StreamMoved

(* A capture whose sidecar is being written is whole, and one that is      *)
(* reported as saved has its sidecar.                                      *)
LEMMA SavedWhole ==
  ASSUME IInv, job.step \in SaveSteps, job.ext = "csv"
  PROVE  /\ Bin(job.name) \in DOMAIN card /\ stream(Bin(job.name)) = job.devices
         /\ \A max \in Nat : Len(job.devices) <= max => Loads(Bin(job.name), max)
         /\ job.step = "Saved" => Cells(Csv(job.name)) = Sidecar(job.devices)
<1>1. /\ job \in Jobs /\ job.devices \in Seq(Nat) /\ Len(job.devices) \in Nat /\ CsvPart
  BY Saves DEF SavingOK
<1>2. Cells(Bin(job.name)) = FirstPart(job.devices, 2 + 2 * Len(job.devices))
  BY Saves DEF SavingOK, SaveInv, Stored, Size
<1>3. Bin(job.name) \in DOMAIN card
  <2>1. 2 + 2 * Len(job.devices) \in 0 .. 2 + 2 * Len(job.devices) /\ 2 + 2 * Len(job.devices) # 0
    BY <1>1
  <2>2. Len(FirstPart(job.devices, 2 + 2 * Len(job.devices))) # 0
    BY <1>1, <2>1, FirstPartCells
  <2>3. Cells(Bin(job.name)) # << >>
    BY <1>2, <2>2, EmptySeq
  <2> QED BY <2>3 DEF Cells
<1>4. stream(Bin(job.name)) = job.devices
  BY <1>1, <1>2, StreamIsWritten
<1>5. \A max \in Nat : Len(job.devices) <= max => Loads(Bin(job.name), max)
  BY <1>1, <1>2, WholeLoads
<1>6. job.step = "Saved" => Cells(Csv(job.name)) = Sidecar(job.devices)
  BY <1>1 DEF CsvPart
<1> QED BY <1>3, <1>4, <1>5, <1>6

LEMMA SavedIsCsv == ASSUME IInv, job.step = "Saved" PROVE job.ext = "csv"
<1>1. job.ext \in {"wcen", "csv"} /\ \E old : SaveInv(old)
  BY Saves DEF SavingOK, SaveSteps, Exts
<1> QED BY <1>1 DEF SaveInv

-----------------------------------------------------------------------------
(* Sidecars.                                                               *)

LEMMA MatchesMoved ==
  ASSUME NEW n, NEW m, NEW n1, NEW m1, Matches(n, m), Bin(m1) \in DOMAIN card',
         Cells(Bin(m1))' = Cells(Bin(m)), card'[Csv(n1)] = card[Csv(n)]
  PROVE  Matches(n1, m1)'
<1>1. stream(Bin(m1))' = stream(Bin(m))
  BY StreamMoved
<1> QED BY <1>1 DEF Matches

LEMMA NamesApart ==
  ASSUME NEW n, NEW m
  PROVE  /\ Bin(n) # Csv(m)
         /\ n # m => Bin(n) # Bin(m) /\ Csv(n) # Csv(m)
BY DEF Bin, Csv

LEMMA SidecarNext == ASSUME IInv, SidecarInv, Next PROVE SidecarInv'
<1> SUFFICES ASSUME faults' = 0
             PROVE  /\ job'.step # "Failed"
                    /\ \A n \in Names : Csv(n) \in DOMAIN card' /\ ~BeingSaved(n)' =>
                         \/ Matches(n, n)'
                         \/ job'.step = "DeleteCsv" /\ selected' = Bin(n)
                         \/ job'.step = "RenameCsv" /\ selected' = Bin(n) /\ Matches(n, job.name)'
                    /\ job'.step = "RenameCsv" => Csv(job'.name) \notin DOMAIN card'
  BY DEF SidecarInv
<1>1. ~Fault
  BY FaultCounts
<1>2. faults = 0 <=> NoFault
  BY DEF NoFault
<1>3. ASSUME faults = 0
      PROVE  /\ job.step # "Failed"
             /\ \A n \in Names : Csv(n) \in DOMAIN card /\ ~BeingSaved(n) =>
                  \/ Matches(n, n)
                  \/ job.step = "DeleteCsv" /\ selected = Bin(n)
                  \/ job.step = "RenameCsv" /\ selected = Bin(n) /\ Matches(n, job.name)
             /\ job.step = "RenameCsv" => Csv(job.name) \notin DOMAIN card
  BY <1>3 DEF SidecarInv
<1>4. ASSUME QuietStep PROVE SidecarInv'
  <2>1. faults = 0 /\ job.step = "Idle" /\ card' = card
    BY <1>1, <1>2, <1>4 DEF QuietStep
  <2>2. job'.step \in {"Idle", "Open"}
    BY <1>4, <2>1 DEF QuietStep, BeginStep, Saving
  <2>3. \A n \in Names : Csv(n) \in DOMAIN card => Matches(n, n)
    BY <1>3, <2>1 DEF BeingSaved, SaveSteps
  <2>4. \A n \in Names : Matches(n, n) => Matches(n, n)'
    BY <2>1, MatchesMoved DEF Matches, Cells
  <2> QED BY <2>1, <2>2, <2>3, <2>4 DEF SidecarInv
<1>5. ASSUME EndStep PROVE SidecarInv'
  <2>1. faults = 0 /\ job.step = "Saved" /\ card' = card /\ job'.step = "Idle"
    BY <1>2, <1>3, <1>5, Names_of_nothing DEF EndStep, NoFault
  <2>2. job.step \in SaveSteps /\ job.ext = "csv" /\ job.name \in Names
    BY <2>1, SavedIsCsv, Saves DEF SaveSteps
  <2>3. ASSUME NEW n \in Names, Csv(n) \in DOMAIN card PROVE Matches(n, n)
    <3>1. CASE n = job.name
      BY <2>1, <2>2, <2>3, <3>1, SavedWhole DEF Matches, Cells
    <3>2. CASE n # job.name
      BY <1>3, <2>1, <2>3, <3>2 DEF BeingSaved
    <3> QED BY <3>1, <3>2
  <2>4. \A n \in Names : Matches(n, n) => Matches(n, n)'
    BY <2>1, MatchesMoved DEF Matches, Cells
  <2> QED BY <2>1, <2>3, <2>4 DEF SidecarInv
<1>6. ASSUME SaveStep PROVE SidecarInv'
  <2>1. job.step \in SaveSteps /\ Save
    BY <1>6 DEF SaveStep, Save, SaveOpen, SaveWrite, SaveClose, SaveSteps
  <2>2. job'.step \in SaveSteps /\ job'.name = job.name /\ job.name \in Names
    BY <2>1, SaveJob, Saves
  <2>3. faults = 0 /\ job'.step # "Failed"
    <3>1. job \in Jobs
      BY <2>1, Saves
    <3>2. NoFault
      BY <1>1, <2>1 DEF Save, SaveOpen, SaveWrite, SaveClose
    <3> QED BY <1>1, <1>2, <2>1, <3>1, <3>2 DEF Save, SaveOpen, SaveWrite, SaveClose, Goes, Jobs
  <2>4. ASSUME NEW n \in Names, Csv(n) \in DOMAIN card', ~BeingSaved(n)' PROVE Matches(n, n)'
    <3>1. n # job.name
      BY <2>2, <2>4 DEF BeingSaved
    <3>2. /\ Cells(Bin(n))' = Cells(Bin(n)) /\ Cells(Csv(n))' = Cells(Csv(n))
          /\ DOMAIN card \subseteq DOMAIN card' /\ DOMAIN card' \subseteq DOMAIN card \cup {File}
      BY <2>1, <3>1, SaveKeepsCard
    <3>3. Csv(n) # File
      BY <3>1 DEF Csv, File
    <3>4. Csv(n) \in DOMAIN card
      BY <2>4, <3>2, <3>3
    <3>5. Matches(n, n)
      BY <1>3, <2>1, <2>3, <3>1, <3>4 DEF BeingSaved, SaveSteps
    <3>6. card'[Csv(n)] = card[Csv(n)]
      BY <2>4, <3>2, <3>4 DEF Cells
    <3>7. Bin(n) \in DOMAIN card'
      BY <3>2, <3>5 DEF Matches
    <3> QED BY <3>2, <3>5, <3>6, <3>7, MatchesMoved
  <2> QED BY <2>2, <2>3, <2>4 DEF SidecarInv, SaveSteps
<1>7. ASSUME DeleteStep PROVE SidecarInv'
  <2>1. /\ faults = 0 /\ job.step = "Idle" /\ job'.step = "DeleteCsv" /\ selected' = selected
        /\ delete_file(selected) /\ Last(stack) = "FileActions"
    BY <1>2, <1>7, Names_of_nothing DEF DeleteStep
  <2>2. PICK s \in Names : selected = Bin(s)
    BY <2>1, Selected
  <2>3. /\ DOMAIN card' = DOMAIN card \ {Bin(s)} /\ \A g \in DOMAIN card' : card'[g] = card[g]
        /\ \A g : g # Bin(s) => Cells(g)' = Cells(g)
    BY <2>1, <2>2, WithoutCells
  <2>4. ASSUME NEW n \in Names, Csv(n) \in DOMAIN card', selected # Bin(n) PROVE Matches(n, n)'
    <3>1. Matches(n, n)
      BY <1>3, <2>1, <2>3, <2>4 DEF BeingSaved, SaveSteps
    <3>2. Bin(n) # Bin(s) /\ Csv(n) # Bin(s)
      BY <2>2, <2>4, NamesApart
    <3>3. Bin(n) \in DOMAIN card' /\ Cells(Bin(n))' = Cells(Bin(n)) /\ card'[Csv(n)] = card[Csv(n)]
      BY <2>3, <2>4, <3>1, <3>2 DEF Matches
    <3> QED BY <3>1, <3>3, MatchesMoved
  <2> QED BY <2>1, <2>4 DEF SidecarInv
<1>8. ASSUME DeleteCsv PROVE SidecarInv'
  <2>1. job.step = "DeleteCsv" /\ job'.step = "Idle" /\ selected \notin DOMAIN card
    BY <1>8, Names_of_nothing DEF DeleteCsv, IInv, Gone
  <2>2. PICK s \in Names : selected = Bin(s)
    BY <2>1 DEF IInv, Gone
  <2>3. Csv(selected[1]) = Csv(s)
    BY <2>2 DEF Bin, Csv
  <2>4. /\ faults = 0 /\ Csv(s) \notin DOMAIN card'
        /\ \A g \in DOMAIN card' : g \in DOMAIN card /\ card'[g] = card[g]
        /\ \A g \in DOMAIN card : g # Csv(s) => g \in DOMAIN card'
        /\ \A g : g # Csv(s) => Cells(g)' = Cells(g)
    <3>1. CASE Csv(s) \in DOMAIN card /\ delete_file(Csv(s)) /\ NoFault
      BY <1>2, <3>1, WithoutCells
    <3>2. CASE Csv(s) \notin DOMAIN card /\ UNCHANGED <<card, faults>>
      BY <1>2, <3>2 DEF Cells
    <3> QED BY <1>1, <1>8, <2>3, <3>1, <3>2 DEF DeleteCsv
  <2>5. ASSUME NEW n \in Names, Csv(n) \in DOMAIN card' PROVE Matches(n, n)'
    <3>1. n # s /\ Csv(n) \in DOMAIN card
      BY <2>4, <2>5
    <3>2. Bin(n) # Bin(s) /\ Csv(n) # Csv(s) /\ Bin(n) # Csv(s)
      BY <3>1, NamesApart
    <3>3. Matches(n, n)
      BY <1>3, <2>1, <2>2, <2>4, <3>1, <3>2 DEF BeingSaved, SaveSteps
    <3>4. Bin(n) \in DOMAIN card' /\ Cells(Bin(n))' = Cells(Bin(n)) /\ card'[Csv(n)] = card[Csv(n)]
      BY <2>4, <2>5, <3>2, <3>3 DEF Matches
    <3> QED BY <3>3, <3>4, MatchesMoved
  <2> QED BY <2>1, <2>5 DEF SidecarInv
<1>9. ASSUME NEW k \in Names, RenameStep(k) PROVE SidecarInv'
  <2>1. /\ faults = 0 /\ job.step = "Idle" /\ job'.step = "RenameCsv" /\ job'.name = k
        /\ selected' = selected /\ Last(stack) = "Rename"
        /\ Renamable(selected, Bin(k)) /\ rename_file(selected, Bin(k))
    BY <1>2, <1>9, Names_of_nothing DEF RenameStep
  <2>2. PICK s \in Names : selected = Bin(s)
    BY <2>1, Selected
  <2>3. /\ DOMAIN card' = (DOMAIN card \ {Bin(s)}) \cup {Bin(k)}
        /\ \A g \in DOMAIN card' : g # Bin(k) => card'[g] = card[g]
        /\ Cells(Bin(k))' = Cells(Bin(s)) /\ Bin(s) # Bin(k) /\ Bin(k) \notin DOMAIN card
        /\ \A g : g # Bin(s) /\ g # Bin(k) => Cells(g)' = Cells(g)
    BY <2>1, <2>2, RenamedCells DEF Renamable
  <2>4. \A n \in Names : Csv(n) \in DOMAIN card => Matches(n, n)
    BY <1>3, <2>1 DEF BeingSaved, SaveSteps
  <2>5. Csv(k) \notin DOMAIN card /\ Csv(k) \notin DOMAIN card'
    <3>1. Csv(k) # Bin(k)
      BY NamesApart
    <3>2. Csv(k) \notin DOMAIN card
      BY <2>3, <2>4 DEF Matches
    <3> QED BY <2>3, <3>1, <3>2
  <2>6. ASSUME NEW n \in Names, Csv(n) \in DOMAIN card'
        PROVE  Matches(n, n)' \/ (selected' = Bin(n) /\ Matches(n, job.name)')
    <3>1. Csv(n) # Bin(k) /\ Csv(n) # Bin(s)
      BY NamesApart
    <3>2. Csv(n) \in DOMAIN card /\ card'[Csv(n)] = card[Csv(n)]
      BY <2>3, <2>6, <3>1
    <3>3. Matches(n, n)
      BY <2>4, <3>2
    <3>4. CASE n = s
      <4>1. Matches(n, k)'
        BY <2>3, <3>2, <3>3, <3>4, MatchesMoved
      <4>2. Matches(n, job.name)'
        BY <2>1, <4>1 DEF Matches, stream, read_range, file_size, Cells, Bin
      <4> QED BY <2>1, <2>2, <3>4, <4>2
    <3>5. CASE n # s
      <4>1. n # k
        BY <2>5, <3>2
      <4>2. Bin(n) # Bin(s) /\ Bin(n) # Bin(k)
        BY <3>5, <4>1, NamesApart
      <4>3. Bin(n) \in DOMAIN card' /\ Cells(Bin(n))' = Cells(Bin(n))
        BY <2>3, <3>3, <4>2 DEF Matches
      <4> QED BY <3>2, <3>3, <4>3, MatchesMoved
    <3> QED BY <3>4, <3>5
  <2> QED BY <2>1, <2>5, <2>6 DEF SidecarInv
<1>10. ASSUME RenameCsv PROVE SidecarInv'
  <2>1. job.step = "RenameCsv" /\ job'.step = "Idle" /\ job.name \in Names
    BY <1>10, Names_of_nothing DEF RenameCsv, IInv, JobOK, SaveSteps
  <2>2. PICK s \in Names : selected = Bin(s)
    BY <2>1 DEF IInv, Gone
  <2>3. PICK k \in Names : k = job.name
    BY <2>1
  <2>4. Csv(selected[1]) = Csv(s) /\ selected \notin DOMAIN card /\ Bin(k) \in DOMAIN card
    BY <2>1, <2>2, <2>3 DEF Bin, Csv, IInv, Gone
  <2>5. \/ Renamable(Csv(s), Csv(k)) /\ rename_file(Csv(s), Csv(k)) /\ NoFault
        \/ ~Renamable(Csv(s), Csv(k)) /\ UNCHANGED <<card, faults>>
    BY <1>1, <1>10, <2>3, <2>4 DEF RenameCsv
  <2>6. /\ faults = 0 /\ Csv(k) \notin DOMAIN card
        /\ \A n \in Names : Csv(n) \in DOMAIN card => Matches(n, n) \/ (n = s /\ Matches(n, k))
    <3>1. faults = 0
      BY <1>2, <2>5 DEF NoFault
    <3>2. Csv(k) \notin DOMAIN card
      BY <1>3, <2>1, <2>3, <3>1
    <3>3. \A n \in Names : selected = Bin(n) => n = s
      BY <2>2, NamesApart
    <3> QED BY <1>3, <2>1, <2>3, <3>1, <3>2, <3>3 DEF BeingSaved, SaveSteps
  <2>7. \A n : Csv(s) # Bin(n) /\ Csv(k) # Bin(n)
    BY NamesApart
  <2>8. CASE ~Renamable(Csv(s), Csv(k)) /\ UNCHANGED <<card, faults>>
    <3>1. Csv(s) \notin DOMAIN card
      BY <2>6, <2>8 DEF Renamable
    <3>2. \A n \in Names : Csv(n) \in DOMAIN card => Matches(n, n)
      BY <2>6, <3>1
    <3>3. \A n \in Names : Matches(n, n) => Matches(n, n)'
      BY <2>8, MatchesMoved DEF Matches, Cells
    <3> QED BY <2>1, <2>8, <3>2, <3>3 DEF SidecarInv
  <2>9. CASE Renamable(Csv(s), Csv(k)) /\ rename_file(Csv(s), Csv(k)) /\ NoFault
    <3>1. /\ DOMAIN card' = (DOMAIN card \ {Csv(s)}) \cup {Csv(k)}
          /\ \A g \in DOMAIN card' : g # Csv(k) => card'[g] = card[g]
          /\ card'[Csv(k)] = card[Csv(s)] /\ Csv(s) # Csv(k) /\ Csv(s) \in DOMAIN card
          /\ \A g : g # Csv(s) /\ g # Csv(k) => Cells(g)' = Cells(g)
      BY <2>9, RenamedCells DEF Renamable
    <3>2. \A n : Cells(Bin(n))' = Cells(Bin(n)) /\ (Bin(n) \in DOMAIN card => Bin(n) \in DOMAIN card')
      BY <2>7, <3>1
    <3>3. ASSUME NEW n \in Names, Csv(n) \in DOMAIN card' PROVE Matches(n, n)'
      <4>1. CASE n = k
        <5>1. Matches(s, k)
          <6>1. Matches(s, s) => Bin(s) \in DOMAIN card
            BY DEF Matches
          <6>2. Bin(s) \notin DOMAIN card
            BY <2>2, <2>4
          <6> QED BY <2>6, <3>1, <6>1, <6>2
        <5>2. Bin(k) \in DOMAIN card'
          BY <2>4, <3>2
        <5> QED BY <3>1, <3>2, <4>1, <5>1, <5>2, MatchesMoved
      <4>2. CASE n # k
        <5>1. Csv(n) # Csv(k) /\ Csv(n) # Csv(s) /\ Csv(n) \in DOMAIN card /\ n # s
          BY <3>1, <3>3, <4>2, NamesApart
        <5>2. Matches(n, n)
          BY <2>6, <5>1
        <5>3. Bin(n) \in DOMAIN card'
          BY <3>2, <5>2 DEF Matches
        <5>4. card'[Csv(n)] = card[Csv(n)]
          BY <3>1, <3>3, <5>1
        <5> QED BY <3>2, <5>2, <5>3, <5>4, MatchesMoved
      <4> QED BY <4>1, <4>2
    <3> QED BY <2>1, <3>3 DEF SidecarInv
  <2> QED BY <2>5, <2>8, <2>9
<1>11. ASSUME Crash PROVE FALSE
  BY <1>1, <1>11 DEF Crash, CutShort
<1> QED BY <1>4, <1>5, <1>6, <1>7, <1>8, <1>9, <1>10, <1>11, Steps DEF SidecarInv

LEMMA SidecarStutter == ASSUME SidecarInv, UNCHANGED vars PROVE SidecarInv'
<1>1. card' = card /\ faults' = faults /\ job' = job /\ selected' = selected
  BY DEF vars, screenVars
<1>2. \A n, m : Matches(n, m)' = Matches(n, m)
  BY <1>1 DEF Matches, stream, read_range, file_size, Cells
<1> QED BY <1>1, <1>2 DEF SidecarInv, BeingSaved, Matches, stream, read_range, file_size, Cells

(* A capture and the sidecar of its name hold the same devices, and no     *)
(* sidecar is left alone, as long as no call fails: on a card on which it  *)
(* is so at first, through saves, merges, imports, deletes and renames.    *)
THEOREM SidecarsHold == Spec /\ SidecarsMatch => []SidecarsMatch
<1>1. Init /\ SidecarsMatch => SidecarInv
  <2> SUFFICES ASSUME Init, SidecarsMatch PROVE SidecarInv
    OBVIOUS
  <2>1. faults = 0 /\ job.step = "Idle"
    BY Names_of_nothing DEF Init
  <2> QED BY <2>1 DEF SidecarInv, SidecarsMatch, Matches
<1>2. IInv /\ SidecarInv /\ [Next]_vars => SidecarInv'
  BY SidecarNext, SidecarStutter
<1>3. IInv /\ SidecarInv => SidecarsMatch
  BY DEF SidecarInv, SidecarsMatch, Matches, BeingSaved, SaveSteps
<1> QED BY <1>1, <1>2, <1>3, Invariance, PTL DEF Spec

-----------------------------------------------------------------------------
(* Who is to blame.                                                        *)

Blames == {"CannotRead", "TooBig"}

LEMMA HeadMoved ==
  ASSUME NEW f, NEW g, Cells(g)' = Cells(f), HeadKept(f)
  PROVE  HeadKept(g)'
<1>1. PICK size : size = file_size(f)
  OBVIOUS
<1>2. file_size(g)' = size /\ read_range(g, 0, header_size)' = read_range(f, 0, header_size)
  BY <1>1, StreamMoved
<1>3. device_count(g)' = device_count(f)
  BY <1>2 DEF device_count
<1>4. device_count(f) > MaxDevices => Loads(f, size)
  BY <1>1 DEF HeadKept
<1>5. Loads(f, size) => Loads(g, file_size(g))'
  BY <1>1, <1>2 DEF Loads
<1> QED BY <1>3, <1>4, <1>5 DEF HeadKept

LEMMA HeadOfSaved ==
  ASSUME IInv, job.step \in SaveSteps, job.ext = "csv"
  PROVE  HeadKept(Bin(job.name))
<1>1. job.devices \in Seq(Nat) /\ Len(job.devices) \in Nat
  BY Saves
<1>2. Cells(Bin(job.name)) = FirstPart(job.devices, 2 + 2 * Len(job.devices))
  BY Saves DEF SavingOK, SaveInv, Stored, Size
<1>3. /\ 2 + 2 * Len(job.devices) \in 0 .. 2 + 2 * Len(job.devices)
      /\ 2 + 2 * Len(job.devices) \in Nat /\ Len(job.devices) <= 2 + 2 * Len(job.devices)
  BY <1>1
<1>4. file_size(Bin(job.name)) = 2 + 2 * Len(job.devices)
  BY <1>1, <1>2, <1>3, HeadOfFirstPart
<1>5. Loads(Bin(job.name), 2 + 2 * Len(job.devices))
  BY <1>1, <1>2, <1>3, WholeLoads
<1> QED BY <1>4, <1>5 DEF HeadKept

LEMMA IsBin == \A n : Bin(n) \in Bins <=> Bin(n) \in DOMAIN card
BY DEF Bins, Bin

LEMMA HeadsNext ==
  ASSUME IInv, HeadsKept, job.step # "Failed", Next, ~Fault
  PROVE  HeadsKept'
<1> SUFFICES ASSUME NEW n \in Names, Bin(n) \in Bins', ~BeingSaved(n)'
             PROVE  HeadKept(Bin(n))'
  BY DEF HeadsKept
<1>1. Bin(n) \in DOMAIN card'
  BY DEF Bins
<1>2. ASSUME NEW m \in Names, Bin(m) \in DOMAIN card, ~BeingSaved(m), Cells(Bin(n))' = Cells(Bin(m))
      PROVE  HeadKept(Bin(n))'
  BY <1>2, IsBin, HeadMoved DEF HeadsKept
<1>3. job.step \notin SaveSteps => \A m : ~BeingSaved(m)
  BY DEF BeingSaved
<1>4. CASE QuietStep
  <2>1. job.step \notin SaveSteps /\ card' = card
    BY <1>4 DEF QuietStep, SaveSteps
  <2> QED BY <1>1, <1>2, <1>3, <2>1 DEF Cells
<1>5. CASE EndStep
  <2>1. job.step = "Saved" /\ card' = card /\ Cells(Bin(n))' = Cells(Bin(n))
    BY <1>5 DEF EndStep, Cells
  <2>2. CASE n = job.name
    BY <2>1, <2>2, SavedIsCsv, HeadOfSaved, HeadMoved DEF SaveSteps
  <2>3. CASE n # job.name
    BY <1>1, <1>2, <2>1, <2>3 DEF BeingSaved
  <2> QED BY <2>2, <2>3
<1>6. CASE SaveStep
  <2>1. job.step \in SaveSteps /\ Save
    BY <1>6 DEF SaveStep, Save, SaveOpen, SaveWrite, SaveClose, SaveSteps
  <2>2. job'.step \in SaveSteps /\ job'.name = job.name
    BY <2>1, SaveJob, Saves
  <2>3. n # job.name
    BY <2>2 DEF BeingSaved
  <2>4. Cells(Bin(n))' = Cells(Bin(n)) /\ Bin(n) \in DOMAIN card
    <3>1. Bin(n) # File
      BY <2>3 DEF Bin, File
    <3> QED BY <1>1, <2>1, <2>3, <3>1, SaveKeepsCard
  <2> QED BY <1>2, <2>3, <2>4 DEF BeingSaved
<1>7. CASE DeleteStep
  <2>1. /\ job.step \notin SaveSteps
        /\ DOMAIN card' = DOMAIN card \ {selected} /\ \A g : g # selected => Cells(g)' = Cells(g)
    BY <1>7, WithoutCells DEF DeleteStep, SaveSteps
  <2> QED BY <1>1, <1>2, <1>3, <2>1
<1>8. CASE DeleteCsv
  <2>1. job.step \notin SaveSteps /\ Bin(n) # Csv(selected[1])
    BY <1>8, NamesApart DEF DeleteCsv, SaveSteps
  <2>2. card' = card \/ delete_file(Csv(selected[1]))
    BY <1>8 DEF DeleteCsv
  <2>3. Bin(n) \in DOMAIN card /\ Cells(Bin(n))' = Cells(Bin(n))
    <3>1. CASE card' = card
      BY <1>1, <3>1 DEF Cells
    <3>2. CASE delete_file(Csv(selected[1]))
      BY <1>1, <2>1, <3>2, WithoutCells
    <3> QED BY <2>2, <3>1, <3>2
  <2> QED BY <1>2, <1>3, <2>1, <2>3
<1>9. ASSUME NEW k \in Names, RenameStep(k) PROVE HeadKept(Bin(n))'
  <2>1. /\ job.step = "Idle" /\ job.step \notin SaveSteps /\ Last(stack) = "Rename"
        /\ Renamable(selected, Bin(k)) /\ rename_file(selected, Bin(k))
    BY <1>9 DEF RenameStep, SaveSteps
  <2>2. PICK s \in Names : selected = Bin(s)
    BY <2>1, Selected
  <2>3. /\ DOMAIN card' = (DOMAIN card \ {Bin(s)}) \cup {Bin(k)}
        /\ \A g \in DOMAIN card' : g # Bin(k) => card'[g] = card[g]
        /\ Cells(Bin(k))' = Cells(Bin(s)) /\ Bin(s) \in DOMAIN card
        /\ \A g : g # Bin(s) /\ g # Bin(k) => Cells(g)' = Cells(g)
    <3>1. Renamable(Bin(s), Bin(k)) /\ rename_file(Bin(s), Bin(k)) /\ Bin(s) \in DOMAIN card
      BY <2>1, <2>2 DEF Renamable
    <3> QED BY <3>1, RenamedCells
  <2>4. CASE Bin(n) = Bin(k)
    BY <1>2, <1>3, <2>1, <2>3, <2>4
  <2>5. CASE Bin(n) # Bin(k)
    BY <1>1, <1>2, <1>3, <2>1, <2>3, <2>5
  <2> QED BY <2>4, <2>5
<1>10. CASE RenameCsv
  <2>1. job.step \notin SaveSteps /\ \A m : Bin(n) # Csv(m)
    BY <1>10, NamesApart DEF RenameCsv, SaveSteps
  <2>2. PICK a : a = Csv(selected[1])
    OBVIOUS
  <2>4. PICK b : b = Csv(job.name)
    OBVIOUS
  <2>3. Bin(n) \in DOMAIN card /\ Cells(Bin(n))' = Cells(Bin(n))
    <3>1. CASE card' = card
      BY <1>1, <3>1 DEF Cells
    <3>2. CASE Renamable(a, b) /\ rename_file(a, b)
      <4>1. Bin(n) # a /\ Bin(n) # b
        BY <2>1, <2>2, <2>4
      <4>2. /\ DOMAIN card' = (DOMAIN card \ {a}) \cup {b}
            /\ \A g \in DOMAIN card' : g # b => card'[g] = card[g]
            /\ card'[b] = card[a]
            /\ \A g : g # a /\ g # b => Cells(g)' = Cells(g)
        BY <3>2, RenamedCells DEF Renamable
      <4> QED BY <1>1, <4>1, <4>2
    <3>3. card' = card \/ (Renamable(a, b) /\ rename_file(a, b))
      BY <1>10, <2>2, <2>4 DEF RenameCsv
    <3> QED BY <3>1, <3>2, <3>3
  <2> QED BY <1>2, <1>3, <2>1, <2>3
<1>11. ASSUME Crash PROVE FALSE
  BY <1>11 DEF Crash, CutShort
<1> QED BY <1>4, <1>5, <1>6, <1>7, <1>8, <1>9, <1>10, <1>11, Steps

(* What a step tells, when nothing fails: it may name a capture that does  *)
(* not open, and is on the card.                                           *)
Silent == told' = told /\ Last(stack) \notin {"Msg", "CompareResult", "MergeResult"}
Explains ==
  /\ card' = card /\ job.step = "Idle" /\ job'.step = "Idle"
  /\ Last(stack') \in {"Msg", "CompareResult", "MergeResult"}
  /\ \E f \in Bins : told' = Explain(f) /\ ~Loads(f, MaxDevices)

LEMMA Whichever ==
  ASSUME NEW f \in Bins, NEW g \in Bins, ~(Loads(f, MaxDevices) /\ Loads(g, MaxDevices))
  PROVE  \E x \in Bins : ExplainWhich(f, g) = Explain(x) /\ ~Loads(x, MaxDevices)
BY DEF ExplainWhich

LEMMA Plainly ==
  ASSUME NEW say \in {"Summary", "NotDeleted", "NotRenamed", "Compared", "NoMemory", "Merged",
                      "NotImported", "DidNotFit"}, NEW f
  PROVE  Says(say, f).say \notin Blames
BY DEF Says, Blames

LEMMA QuietlyTold == Nothing.say \notin Blames
BY Names_of_nothing DEF Blames

LEMMA PushedScreen ==
  ASSUME IInv, NEW scene \in Scenes, NEW message, Leads(Last(stack), scene), Next_scene(scene, message)
  PROVE  Last(stack') = scene /\ told' = message
BY Pushed DEF IInv, Next_scene, Show

LEMMA Talks ==
  ASSUME IInv, job.step # "Failed", Next, ~Fault
  PROVE  told'.say \notin Blames \/ Silent \/ Explains
<1>1. ASSUME NEW st, Visit(st, Nothing) PROVE told'.say \notin Blames
  BY <1>1, QuietlyTold DEF Visit, Show
<1>2. CASE \E scene \in {"Files", "CompareA", "MergeA", "ImportPick"} : Choose(scene)
  BY <1>1, <1>2 DEF Choose
<1>3. CASE Back
  BY <1>1, <1>3 DEF Back
<1>4. CASE \E f \in listed : FilesPick(f)
  BY <1>4, QuietlyTold DEF FilesPick, Next_scene, Show
<1>5. ASSUME NEW scene, NEW message, message.say \notin Blames, OpenCapture(scene, message)
      PROVE  told'.say \notin Blames \/ Explains
  <2>1. CASE Loaded /\ Next_scene(scene, message)
    BY <1>5, <2>1 DEF Next_scene, Show
  <2>2. CASE NotLoaded /\ Next_scene("Msg", Explain(selected))
    <3>1. job.step = "Idle" /\ Last(stack) = "FileActions" /\ card' = card /\ job' = job
      BY <1>5 DEF OpenCapture, Shows
    <3>2. selected \in Bins
      BY <3>1, Selected
    <3>3. ~Loads(selected, MaxDevices)
      BY <2>2 DEF NotLoaded
    <3>4. Last(stack') = "Msg" /\ told' = Explain(selected)
      BY <2>2, <3>1, PushedScreen DEF Leads, Scenes
    <3> QED BY <3>1, <3>2, <3>3, <3>4 DEF Explains
  <2> QED BY <1>5, <2>1, <2>2 DEF OpenCapture
<1>6. CASE ShowSummary \/ ShowDevices \/ ShowNetworks
  <2>1. Says("Summary", selected).say \notin Blames
    BY Plainly
  <2> QED BY <1>5, <1>6, <2>1, QuietlyTold DEF ShowSummary, ShowDevices, ShowNetworks
<1>7. CASE DeleteBin
  BY <1>7 DEF DeleteBin, Refused, Shows, Silent
<1>8. CASE DeleteCsv
  BY <1>1, <1>8 DEF DeleteCsv
<1>9. CASE Shows("FileActions") /\ Visit(Append(stack, "Rename"), Nothing) /\ OnScreen
  BY <1>1, <1>9
<1>10. ASSUME NEW n \in Names, RenameBin(n) PROVE told'.say \notin Blames \/ Silent
  <2>1. Says("NotRenamed", selected).say \notin Blames
    BY Plainly
  <2> QED BY <1>10, <2>1 DEF RenameBin, Refused, Shows, Silent, Next_scene, Show
<1>11. CASE RenameCsv
  BY <1>1, <1>11 DEF RenameCsv
<1>12. CASE Pick("CompareA", 1, "CompareB") \/ Pick("MergeA", 1, "MergeB") \/ Pick("MergeB", 2, "MergeName")
  BY <1>12, QuietlyTold DEF Pick, Next_scene, Show
<1>13. CASE PickSecond
  <2>1. job.step = "Idle" /\ Last(stack) = "CompareB" /\ card' = card /\ job' = job
    BY <1>13 DEF PickSecond, Shows
  <2>2. PICK f \in listed : picked' = [picked EXCEPT ![2] = f]
    BY <1>13 DEF PickSecond
  <2>3. f \in Bins /\ picked[1] \in Bins /\ PickedOK
    BY <2>1, <2>2, OnTop DEF IInv, ListOK, FileLists, SelectedOnCard
  <2>4. picked'[1] = picked[1] /\ picked'[2] = f
    BY <2>2, <2>3 DEF PickedOK
  <2>5. CASE Next_scene("CompareResult", Says("Compared", NoFile))
    BY <2>5, Plainly DEF Next_scene, Show
  <2>6. CASE /\ ~(\A g \in {picked'[1], picked'[2]} : Loads(g, MaxDevices))
             /\ Next_scene("CompareResult", ExplainWhich(picked'[1], picked'[2]))
    <3>1. PICK x \in Bins : ExplainWhich(picked[1], f) = Explain(x) /\ ~Loads(x, MaxDevices)
      BY <2>3, <2>4, <2>6, Whichever
    <3>2. Last(stack') = "CompareResult" /\ told' = ExplainWhich(picked[1], f)
      BY <2>1, <2>4, <2>6, PushedScreen DEF Leads, Scenes
    <3> QED BY <2>1, <3>1, <3>2 DEF Explains
  <2> QED BY <1>13, <2>5, <2>6 DEF PickSecond
<1>14. ASSUME NEW n \in Names, MergeRun(n) PROVE Silent \/ Explains
  <2>1. job.step = "Idle" /\ Last(stack) = "MergeName" /\ card' = card
    BY <1>14 DEF MergeRun, Shows
  <2>2. CASE UNCHANGED <<stack, told, screenVars>>
    BY <2>1, <2>2 DEF Silent
  <2>3. CASE /\ ~BothLoad /\ UNCHANGED job
             /\ Next_scene("MergeResult", ExplainWhich(picked[1], picked[2]))
    <3>1. picked[1] \in Bins /\ picked[2] \in Bins
      BY <2>1, BothPicked
    <3>2. ~(Loads(picked[1], MaxDevices) /\ Loads(picked[2], MaxDevices))
      <4>1. \A slot \in 1 .. 2 : slot = 1 \/ slot = 2
        OBVIOUS
      <4> QED BY <2>3, <4>1 DEF BothLoad
    <3>3. PICK x \in Bins :
            ExplainWhich(picked[1], picked[2]) = Explain(x) /\ ~Loads(x, MaxDevices)
      BY <3>1, <3>2, Whichever
    <3>4. Last(stack') = "MergeResult" /\ told' = ExplainWhich(picked[1], picked[2])
      BY <2>1, <2>3, PushedScreen DEF Leads, Scenes
    <3> QED BY <2>1, <2>3, <3>3, <3>4 DEF Explains
  <2> QED BY <1>14, <2>2, <2>3 DEF MergeRun
<1>15. CASE MergeEnds
  <2>1. Says("Merged", Bin(job.name)).say \notin Blames
    BY Plainly
  <2> QED BY <1>15, <2>1 DEF MergeEnds, Next_scene, Show
<1>16. CASE ImportBrowse
  BY <1>1, <1>16 DEF ImportBrowse
<1>17. ASSUME NEW n \in Names, ImportRun(n) PROVE told'.say \notin Blames \/ Silent
  <2>1. Says("NotImported", NoFile).say \notin Blames
    BY Plainly
  <2> QED BY <1>17, <2>1 DEF ImportRun, Shows, Silent, Next_scene, Show
<1>18. CASE ImportEnds
  <2>1. /\ Says("DidNotFit", Bin(job.name)).say \notin Blames
        /\ Says("NotImported", NoFile).say \notin Blames
    BY Plainly
  <2> QED BY <1>1, <1>18, <2>1 DEF ImportEnds, Visit, Show
<1>19. CASE SaveStep
  <2>1. job.step # "Idle"
    BY <1>19 DEF SaveStep, Save, SaveOpen, SaveWrite, SaveClose
  <2> QED BY <1>19, <2>1, Busy DEF SaveStep, Silent
<1>20. CASE Crash
  BY <1>20 DEF Crash, CutShort
<1> QED BY <1>2, <1>3, <1>4, <1>6, <1>7, <1>8, <1>9, <1>10, <1>11, <1>12, <1>13, <1>14, <1>15,
         <1>16, <1>17, <1>18, <1>19, <1>20 DEF Next

(* The file a message blames does not open, and a file said to be too big  *)
(* is whole.                                                               *)
LEMMA BlamedRightly ==
  ASSUME IInv, HeadsKept, job.step = "Idle", NEW f \in Bins, ~Loads(f, MaxDevices)
  PROVE  Explain(f).say = "TooBig" => Loads(f, file_size(f))
<1> SUFFICES ASSUME Explain(f).say = "TooBig" PROVE Loads(f, file_size(f))
  OBVIOUS
<1>1. device_count(f) > MaxDevices
  BY DEF Explain, Says
<1>2. PICK n \in Names : f = Bin(n)
  BY BinFile
<1>3. HeadKept(f)
  BY <1>2 DEF HeadsKept, BeingSaved, SaveSteps
<1> QED BY <1>1, <1>3 DEF HeadKept

LEMMA BlameNext == ASSUME IInv, BlameInv, Next PROVE BlameInv'
<1> SUFFICES ASSUME faults' = 0
             PROVE  /\ HeadsKept' /\ job'.step # "Failed"
                    /\ told'.say \in Blames =>
                         job'.step = "Idle" /\ Last(stack') \in {"Msg", "CompareResult", "MergeResult"}
                    /\ told'.say \in Blames => ~Loads(told.of, MaxDevices)'
                    /\ told'.say = "TooBig" => Loads(told.of, file_size(told.of))'
  BY DEF BlameInv, BlameIsTrue, Blames
<1>1. ~Fault
  BY FaultCounts
<1>2. faults = 0
  <2>1. CASE NoFault
    BY <2>1 DEF NoFault
  <2>2. CASE EndStep
    BY <2>2 DEF EndStep
  <2>3. CASE SaveStep
    BY <1>1, <2>3 DEF SaveStep, Save, SaveOpen, SaveWrite, SaveClose, NoFault
  <2>4. CASE DeleteCsv
    BY <1>1, <2>4 DEF DeleteCsv, NoFault
  <2>5. CASE RenameCsv
    BY <1>1, <2>5 DEF RenameCsv, NoFault
  <2>6. CASE Crash
    BY <1>1, <2>6 DEF Crash, CutShort
  <2> QED BY <1>1, <2>1, <2>2, <2>3, <2>4, <2>5, <2>6, Steps DEF QuietStep, DeleteStep, RenameStep
<1>3. /\ HeadsKept /\ job.step # "Failed"
      /\ told.say \in Blames =>
           job.step = "Idle" /\ Last(stack) \in {"Msg", "CompareResult", "MergeResult"}
  BY <1>2 DEF BlameInv, Blames
<1>4. HeadsKept'
  BY <1>1, <1>3, HeadsNext
<1>5. job'.step # "Failed"
  <2>1. CASE job' = job \/ job' = Idle
    BY <1>3, <2>1, Names_of_nothing
  <2>2. CASE BeginStep
    BY <2>2 DEF BeginStep, Saving
  <2>3. CASE SaveStep
    <3>1. job.step \in SaveSteps /\ Save
      BY <2>3 DEF SaveStep, Save, SaveOpen, SaveWrite, SaveClose, SaveSteps
    <3>2. job \in Jobs
      BY <3>1, Saves
    <3> QED BY <1>1, <3>1, <3>2 DEF Save, SaveOpen, SaveWrite, SaveClose, Goes, Jobs
  <2>4. CASE DeleteStep \/ \E n \in Names : RenameStep(n)
    BY <2>4, Names_of_nothing DEF DeleteStep, RenameStep
  <2> QED BY <1>1, <2>1, <2>2, <2>3, <2>4, Steps DEF QuietStep, EndStep, DeleteCsv, RenameCsv, Crash
<1>6. CASE told'.say \notin Blames
  BY <1>4, <1>5, <1>6 DEF Blames
<1>7. CASE Silent
  BY <1>3, <1>4, <1>5, <1>7 DEF Silent, Blames
<1>8. CASE Explains
  <2>1. PICK f \in Bins : told' = Explain(f) /\ ~Loads(f, MaxDevices)
    BY <1>8 DEF Explains
  <2>2. PICK size : size = file_size(f)
    OBVIOUS
  <2>3. told'.of = f /\ (told'.say = "TooBig" => Loads(f, size))
    BY <1>3, <1>8, <2>1, <2>2, BlamedRightly DEF Explain, Says, Explains
  <2>4. file_size(f)' = size /\ Loads(f, MaxDevices)' = Loads(f, MaxDevices)
        /\ Loads(f, size)' = Loads(f, size)
    BY <1>8, <2>2, StreamKept DEF Explains, Cells
  <2>5. ~Loads(told.of, MaxDevices)'
    BY <2>1, <2>3, <2>4 DEF Loads, read_range, file_size, Cells
  <2>6. told'.say = "TooBig" => Loads(told.of, file_size(told.of))'
    BY <2>3, <2>4 DEF Loads, read_range, file_size, Cells
  <2> QED BY <1>4, <1>8, <2>5, <2>6 DEF Explains
<1> QED BY <1>1, <1>3, <1>6, <1>7, <1>8, Talks

LEMMA BlameStutter == ASSUME BlameInv, UNCHANGED vars PROVE BlameInv'
<1>1. UNCHANGED <<card, faults, job, told, stack>>
  BY DEF vars
<1>2. HeadsKept => HeadsKept'
  BY <1>1 DEF HeadsKept, HeadKept, BeingSaved, Bins, Loads, device_count, read_range, file_size, Cells
<1>3. BlameIsTrue => BlameIsTrue'
  BY <1>1 DEF BlameIsTrue, Loads, read_range, file_size, Cells
<1> QED BY <1>1, <1>2, <1>3 DEF BlameInv

(* A message that a capture would not open names one that does not, and a  *)
(* capture said to be too big is a whole one, as long as no call fails: on *)
(* a card on which, at first, what is larger than the census takes is      *)
(* whole.                                                                  *)
THEOREM BlameHolds == Spec /\ HeadsKept => []BlameIsTrue
<1>1. Init /\ HeadsKept => BlameInv
  <2> SUFFICES ASSUME Init, HeadsKept PROVE BlameInv
    OBVIOUS
  <2>1. job.step = "Idle" /\ told.say \notin {"CannotRead", "TooBig"}
    BY Names_of_nothing DEF Init
  <2> QED BY <2>1 DEF BlameInv, BlameIsTrue
<1>2. IInv /\ BlameInv /\ [Next]_vars => BlameInv'
  BY BlameNext, BlameStutter
<1>3. BlameInv => BlameIsTrue
  BY DEF BlameInv
<1> QED BY <1>1, <1>2, <1>3, Invariance, PTL DEF Spec

-----------------------------------------------------------------------------
(* The screens and the card implement the shelf: each step is one of its   *)
(* steps or changes nothing of it.                                         *)

TheShelf == [n \in Names |-> Whole(n)]
TheSaving == IF job.step \in SaveSteps THEN <<job.name, job.devices>> ELSE << >>

LEMMA WholeMoved ==
  ASSUME NEW n, NEW m, Cells(Bin(m))' = Cells(Bin(n))
  PROVE  Whole(m)' = Whole(n)
<1>1. PICK size : size = file_size(Bin(n))
  OBVIOUS
<1>2. file_size(Bin(m))' = size /\ stream(Bin(m))' = stream(Bin(n))
      /\ Loads(Bin(m), size)' = Loads(Bin(n), size)
  BY <1>1, StreamMoved
<1>3. Loads(Bin(m), file_size(Bin(m)))' = Loads(Bin(m), size)'
  BY <1>2 DEF Loads
<1> QED BY <1>1, <1>2, <1>3 DEF Whole

LEMMA WholeOfPart ==
  ASSUME NEW n, NEW devices \in Seq(Nat), NEW k \in 0 .. 2 + 2 * Len(devices),
         Cells(Bin(n)) = FirstPart(devices, k)
  PROVE  Whole(n) = IF k = 2 + 2 * Len(devices) THEN {devices} ELSE {}
<1>1. CASE k # 2 + 2 * Len(devices)
  <2>1. ~Loads(Bin(n), file_size(Bin(n)))
    BY <1>1, TornDoesNotLoad
  <2> QED BY <1>1, <2>1 DEF Whole
<1>2. CASE k = 2 + 2 * Len(devices)
  <2>1. Len(devices) \in Nat
    BY LenProperties
  <2>2. 2 + 2 * Len(devices) \in Nat /\ Len(devices) <= 2 + 2 * Len(devices)
    BY <2>1
  <2>3. file_size(Bin(n)) = 2 + 2 * Len(devices)
    BY <1>2, HeadOfFirstPart
  <2>4. Loads(Bin(n), 2 + 2 * Len(devices)) /\ stream(Bin(n)) = devices
    BY <1>2, <2>2, WholeLoads, StreamIsWritten
  <2> QED BY <1>2, <2>3, <2>4 DEF Whole
<1> QED BY <1>1, <1>2

LEMMA NothingWhole == ASSUME NEW n, Cells(Bin(n)) = << >> PROVE Whole(n) = {}
<1>1. FirstPart(<< >>, 0) = << >> /\ << >> \in Seq(Nat) /\ Len(<< >>) = 0
  BY SubSeqEmpty, EmptySeq DEF FirstPart
<1>2. 0 \in 0 .. 2 + 2 * Len(<< >>) /\ 0 # 2 + 2 * Len(<< >>)
  BY <1>1
<1> QED BY <1>1, <1>2, WholeOfPart

LEMMA WholeOfPartNext ==
  ASSUME NEW n, NEW devices \in Seq(Nat), NEW k \in 0 .. 2 + 2 * Len(devices)
  PROVE  (Cells(Bin(n)) = FirstPart(devices, k) =>
            Whole(n) = IF k = 2 + 2 * Len(devices) THEN {devices} ELSE {})'
<1>1. Cells(Bin(n)) = FirstPart(devices, k) =>
        Whole(n) = IF k = 2 + 2 * Len(devices) THEN {devices} ELSE {}
  BY WholeOfPart
<1> QED BY <1>1, PTL

LEMMA NothingWholeNext == ASSUME NEW n PROVE (Cells(Bin(n)) = << >> => Whole(n) = {})'
<1>1. Cells(Bin(n)) = << >> => Whole(n) = {}
  BY NothingWhole
<1> QED BY <1>1, PTL

(* The shelf changes at most at the name being saved: it is emptied, or    *)
(* filled after it was empty.                                              *)
LEMMA SavedPlace ==
  ASSUME IInv, job.step \in SaveSteps, Save \/ CutShort, NEW n, n = job.name
  PROVE  \/ Whole(n)' = Whole(n) \/ Whole(n)' = {}
         \/ Whole(n) = {} /\ Whole(n)' = {job.devices} /\ ~CutShort
<1>1. /\ job \in Jobs /\ job.devices \in Seq(Nat) /\ Len(job.devices) \in Nat
      /\ job.name \in Names /\ job.ext \in {"wcen", "csv"} /\ job.at \in Nat
  BY Saves DEF Exts
<1>2. PICK old : SaveInv(old)
  BY Saves DEF SavingOK
<1>3. Size = 2 + 2 * Len(job.devices) /\ Size \in Nat
  BY <1>1 DEF Size
<1>4. CASE card' = card
  <2>1. Cells(Bin(n))' = Cells(Bin(n))
    BY <1>4 DEF Cells
  <2> QED BY <2>1, WholeMoved
<1>5. ASSUME job.ext = "csv", NEW cells, card' = With(File, cells)
      PROVE  Whole(n)' = Whole(n)
  <2>1. PICK f : f = File
    OBVIOUS
  <2>2. Bin(n) # f
    BY <1>5, <2>1 DEF Bin, File
  <2>3. card' = With(f, cells)
    BY <1>5, <2>1
  <2>4. Cells(Bin(n))' = Cells(Bin(n))
    BY <2>2, <2>3, WithCells
  <2> QED BY <2>4, WholeMoved
<1>6. ASSUME job.ext = "wcen", NEW k \in 0 .. Size, card' = With(File, FirstPart(job.devices, k))
      PROVE  Whole(n)' = IF k = Size THEN {job.devices} ELSE {}
  <2>1. PICK devices : devices = job.devices
    OBVIOUS
  <2>2. PICK part : part = FirstPart(devices, k)
    OBVIOUS
  <2>3. card' = With(Bin(n), part)
    BY <1>6, <2>1, <2>2 DEF Bin, File
  <2>4. Cells(Bin(n))' = FirstPart(devices, k)
    BY <2>2, <2>3, WithCells
  <2>5. devices \in Seq(Nat) /\ k \in 0 .. 2 + 2 * Len(devices)
    BY <1>1, <1>3, <2>1
  <2>6. Whole(n)' = IF k = 2 + 2 * Len(devices) THEN {devices} ELSE {}
    BY <2>4, <2>5, WholeOfPartNext
  <2> QED BY <1>3, <2>1, <2>6
<1>7. CASE job.step = "Open" /\ job.ext = "wcen" /\ card' # card
  <2>1. card' = With(Bin(n), << >>)
    BY <1>7 DEF Save, SaveOpen, SaveWrite, SaveClose, CutShort, open_write, File, Bin
  <2>2. Cells(Bin(n))' = << >>
    BY <2>1, WithCells
  <2>3. Whole(n)' = {}
    BY <2>2, NothingWholeNext
  <2> QED BY <2>3
<1>8. CASE job.step = "Write" /\ job.ext = "wcen"
  <2>1. Stored = FirstPart(job.devices, Position) /\ Position \in 0 .. Size
    BY <1>1, <1>2, <1>8 DEF SaveInv, Position, Size, header_size, record_size, Version
  <2>2. Whole(n) = IF Position = Size THEN {job.devices} ELSE {}
    BY <1>1, <1>3, <2>1, WholeOfPart DEF Stored
  <2>3. CASE ~CutShort
    <3>1. card' = card \/ \E k \in 0 .. Size : card' = With(File, FirstPart(job.devices, k))
      BY <1>2, <1>8, <2>3, SaveWrites DEF SaveSteps
    <3>2. Whole(n)' = Whole(n) \/ Whole(n)' = {} \/ Whole(n)' = {job.devices}
      BY <1>4, <1>6, <1>8, <3>1
    <3> QED BY <2>2, <2>3, <3>2
  <2>4. CASE CutShort
    <3>1. PICK j \in 0 .. file_size(File) : card' = With(File, SubSeq(Cells(File), 1, j))
      BY <1>8, <2>4 DEF CutShort, Unflushed
    <3>2. Cells(File) = FirstPart(job.devices, Position)
      BY <1>8, <2>1 DEF Stored, File, Bin
    <3>3. file_size(File) = Position
      BY <1>1, <1>3, <2>1, <3>2, FirstPartCells DEF file_size
    <3>4. j \in 0 .. Position /\ j \in 0 .. Size
      BY <1>3, <2>1, <3>1, <3>3
    <3>5. card' = With(File, FirstPart(job.devices, j))
      BY <1>1, <1>3, <2>1, <3>1, <3>2, <3>4, PartOfPart
    <3>6. Whole(n)' = IF j = Size THEN {job.devices} ELSE {}
      BY <1>6, <1>8, <3>4, <3>5
    <3>7. j = Size => Position = Size
      BY <1>3, <2>1, <3>4
    <3> QED BY <2>2, <3>6, <3>7
  <2> QED BY <2>3, <2>4
<1>9. CASE job.step \notin {"Open", "Write"}
  <2>1. card' = card
    BY <1>9 DEF Save, SaveOpen, SaveWrite, SaveClose, CutShort
  <2> QED BY <1>4, <2>1
<1>10. CASE job.ext = "csv"
  <2>1. card' = card \/ \E cells : card' = With(File, cells)
    BY <1>2, SaveWrites
  <2> QED BY <1>4, <1>5, <1>10, <2>1
<1> QED BY <1>1, <1>4, <1>7, <1>8, <1>9, <1>10

(* Only the file of the name being saved is touched.                       *)
LEMMA SavedElsewhere ==
  ASSUME IInv, job.step \in SaveSteps, Save \/ CutShort
  PROVE  \A m \in Names : m # job.name => Whole(m)' = Whole(m)
BY SaveKeepsCard, WholeMoved

LEMMA ShelfKept ==
  ASSUME \A n \in Names : Whole(n)' = Whole(n)
  PROVE  TheShelf' = TheShelf
BY DEF TheShelf

LEMMA QuietShelved ==
  ASSUME QuietStep
  PROVE  Shelf!Next
<1>1. TheShelf' = TheShelf
  <2>1. card' = card
    BY DEF QuietStep
  <2>2. \A n : Cells(Bin(n))' = Cells(Bin(n))
    BY <2>1 DEF Cells
  <2> QED BY <2>2, WholeMoved, ShelfKept
<1>2. TheSaving = << >>
  BY DEF QuietStep, TheSaving, SaveSteps
<1>3. CASE job' = job
  <2>1. TheSaving' = TheSaving
    BY <1>3 DEF TheSaving, QuietStep, SaveSteps
  <2>2. Shelf!Rest
    BY <1>1, <2>1 DEF Shelf!Rest, TheShelf, TheSaving, SaveSteps
  <2> QED BY <2>2 DEF Shelf!Next
<1>4. CASE BeginStep
  <2>1. PICK n \in Names, devices \in Seq(Nat) : \E then : job' = Saving(n, devices, then)
    BY <1>4 DEF BeginStep
  <2>2. TheSaving' = <<n, devices>>
    BY <2>1 DEF TheSaving, Saving, SaveSteps
  <2>3. Shelf!Begin
    BY <1>1, <1>2, <2>2 DEF Shelf!Begin, TheShelf, TheSaving, SaveSteps
  <2> QED BY <2>3 DEF Shelf!Next
<1> QED BY <1>3, <1>4 DEF QuietStep

LEMMA RestIsNext ==
  ASSUME TheShelf' = TheShelf, TheSaving' = TheSaving
  PROVE  Shelf!Next
BY DEF Shelf!Next, Shelf!Rest, TheShelf, TheSaving, SaveSteps

LEMMA EndIsEnd == ASSUME TheShelf' = TheShelf, TheSaving # << >>, TheSaving' = << >> PROVE Shelf!Next
BY DEF Shelf!Next, Shelf!End, TheShelf, TheSaving, SaveSteps

(* A shelf on which only one place changes.                                *)
LEMMA OnePlace ==
  ASSUME NEW n \in Names, NEW v, Whole(n)' = v, \A m \in Names : m # n => Whole(m)' = Whole(m)
  PROVE  TheShelf' = [TheShelf EXCEPT ![n] = v]
<1>1. TheShelf' = [m \in Names |-> IF m = n THEN v ELSE Whole(m)]
  BY DEF TheShelf
<1> QED BY <1>1 DEF TheShelf

LEMMA InSaving == ASSUME job.step \in SaveSteps PROVE TheSaving = <<job.name, job.devices>> /\ TheSaving # << >>
BY DEF TheSaving

LEMMA NotSaving == ASSUME job.step \notin SaveSteps PROVE TheSaving = << >>
BY DEF TheSaving

LEMMA EndStepShelved == ASSUME EndStep PROVE Shelf!Next
<1>1. job.step \in SaveSteps /\ job' = Idle /\ card' = card
  BY DEF EndStep, SaveSteps
<1>2. TheSaving # << >>
  BY <1>1, InSaving
<1>3. TheSaving' = << >>
  BY <1>1, Names_of_nothing DEF TheSaving, SaveSteps
<1>4. \A n : Cells(Bin(n))' = Cells(Bin(n))
  BY <1>1 DEF Cells
<1>5. TheShelf' = TheShelf
  BY <1>4, WholeMoved, ShelfKept
<1> QED BY <1>2, <1>3, <1>5, EndIsEnd

(* A step of a save, and the power cut in one.                             *)
LEMMA SavingShelved ==
  ASSUME IInv, job.step \in SaveSteps, Save \/ CutShort,
         \/ TheSaving' = TheSaving
         \/ CutShort /\ TheSaving' = << >>
  PROVE  Shelf!Next
<1>1. PICK n \in Names : n = job.name
  BY Saves
<1>2. PICK devices : devices = job.devices
  OBVIOUS
<1>3. TheSaving = <<n, devices>> /\ TheSaving # << >>
  BY <1>1, <1>2, InSaving
<1>4. \A m \in Names : m # n => Whole(m)' = Whole(m)
  BY <1>1, SavedElsewhere
<1>5. \/ Whole(n)' = Whole(n) \/ Whole(n)' = {}
      \/ Whole(n) = {} /\ Whole(n)' = {devices} /\ ~CutShort
  BY <1>1, <1>2, SavedPlace
<1>6. CASE Whole(n)' = Whole(n)
  <2>1. TheShelf' = TheShelf
    BY <1>4, <1>6, ShelfKept
  <2> QED BY <1>3, <2>1, RestIsNext, EndIsEnd
<1>7. CASE Whole(n)' = {}
  <2>1. TheShelf' = [TheShelf EXCEPT ![n] = {}]
    BY <1>4, <1>7, OnePlace
  <2>2. TheSaving[1] = n /\ TheSaving' \in {TheSaving, << >>}
    BY <1>3
  <2>3. Shelf!Void
    BY <1>3, <2>1, <2>2 DEF Shelf!Void, TheShelf, TheSaving, SaveSteps
  <2> QED BY <2>3 DEF Shelf!Next
<1>8. CASE Whole(n) = {} /\ Whole(n)' = {devices} /\ ~CutShort
  <2>1. TheShelf' = [TheShelf EXCEPT ![n] = {devices}]
    BY <1>4, <1>8, OnePlace
  <2>2. TheSaving[1] = n /\ TheSaving[2] = devices /\ TheSaving' = TheSaving
    BY <1>3, <1>8
  <2>3. TheShelf[n] = {}
    BY <1>8 DEF TheShelf
  <2>4. Shelf!Put
    BY <1>3, <2>1, <2>2, <2>3 DEF Shelf!Put, TheShelf, TheSaving, SaveSteps
  <2> QED BY <2>4 DEF Shelf!Next
<1> QED BY <1>5, <1>6, <1>7, <1>8

LEMMA SaveStepShelved == ASSUME IInv, SaveStep PROVE Shelf!Next
<1>1. job.step \in SaveSteps /\ Save
  BY DEF SaveStep, Save, SaveOpen, SaveWrite, SaveClose, SaveSteps
<1>2. job'.step \in SaveSteps /\ job'.name = job.name /\ job'.devices = job.devices
  BY <1>1, Saves, SaveJob
<1>3. TheSaving' = TheSaving
  BY <1>1, <1>2 DEF TheSaving
<1> QED BY <1>1, <1>3, SavingShelved

LEMMA CrashShelved == ASSUME IInv, Crash PROVE Shelf!Next
<1>1. CutShort /\ job' = Idle
  BY DEF Crash
<1>2. TheSaving' = << >>
  BY <1>1, Names_of_nothing DEF TheSaving, SaveSteps
<1>3. CASE job.step \in SaveSteps
  BY <1>1, <1>2, <1>3, SavingShelved
<1>4. CASE job.step \notin SaveSteps
  <2>1. card' = card
    BY <1>1, <1>4 DEF CutShort, SaveSteps
  <2>2. \A n : Cells(Bin(n))' = Cells(Bin(n))
    BY <2>1 DEF Cells
  <2>3. TheShelf' = TheShelf
    BY <2>2, WholeMoved, ShelfKept
  <2> QED BY <1>2, <1>4, <2>3, NotSaving, RestIsNext
<1> QED BY <1>3, <1>4

(* Deletes and renames.                                                    *)
LEMMA DeleteShelved == ASSUME IInv, DeleteStep PROVE Shelf!Next
<1>1. /\ job.step \notin SaveSteps /\ job.step = "Idle" /\ job'.step = "DeleteCsv"
      /\ Last(stack) = "FileActions" /\ delete_file(selected)
  BY Names_of_nothing DEF DeleteStep, SaveSteps
<1>2. TheSaving = << >> /\ TheSaving' = << >>
  BY <1>1 DEF TheSaving, SaveSteps
<1>3. PICK s \in Names : selected = Bin(s)
  BY <1>1, Selected
<1>4. delete_file(Bin(s))
  BY <1>1, <1>3
<1>5. DOMAIN card' = DOMAIN card \ {Bin(s)} /\ \A g : g # Bin(s) => Cells(g)' = Cells(g)
  BY <1>4, WithoutCells
<1>6. Whole(s)' = {}
  <2>1. Cells(Bin(s))' = << >>
    BY <1>5 DEF Cells
  <2> QED BY <2>1, NothingWholeNext
<1>7. \A m \in Names : m # s => Whole(m)' = Whole(m)
  <2>1. \A m \in Names : m # s => Cells(Bin(m))' = Cells(Bin(m))
    BY <1>5, NamesApart
  <2> QED BY <2>1, WholeMoved
<1>8. CASE Whole(s) = {}
  <2>1. TheShelf' = TheShelf
    BY <1>6, <1>7, <1>8, ShelfKept
  <2> QED BY <1>2, <2>1, RestIsNext
<1>9. CASE Whole(s) # {}
  <2>1. TheShelf' = [TheShelf EXCEPT ![s] = {}] /\ TheShelf[s] # {}
    BY <1>6, <1>7, <1>9, OnePlace DEF TheShelf
  <2>2. Shelf!Drop(s)
    BY <1>2, <2>1 DEF Shelf!Drop, TheShelf, TheSaving, SaveSteps
  <2> QED BY <2>2 DEF Shelf!Next
<1> QED BY <1>8, <1>9

LEMMA RenameShelved == ASSUME IInv, NEW k \in Names, RenameStep(k) PROVE Shelf!Next
<1>1. /\ job.step \notin SaveSteps /\ job.step = "Idle" /\ job'.step = "RenameCsv"
      /\ Last(stack) = "Rename" /\ Renamable(selected, Bin(k)) /\ rename_file(selected, Bin(k))
  BY Names_of_nothing DEF RenameStep, SaveSteps
<1>2. TheSaving = << >> /\ TheSaving' = << >>
  BY <1>1 DEF TheSaving, SaveSteps
<1>3. PICK s \in Names : selected = Bin(s)
  BY <1>1, Selected
<1>4. Renamable(Bin(s), Bin(k)) /\ rename_file(Bin(s), Bin(k))
  BY <1>1, <1>3
<1>5. /\ DOMAIN card' = (DOMAIN card \ {Bin(s)}) \cup {Bin(k)}
      /\ \A g \in DOMAIN card' : g # Bin(k) => card'[g] = card[g]
      /\ Cells(Bin(k))' = Cells(Bin(s)) /\ Bin(s) # Bin(k)
      /\ \A g : g # Bin(s) /\ g # Bin(k) => Cells(g)' = Cells(g)
  BY <1>4, RenamedCells
<1>6. s # k /\ Bin(k) \notin DOMAIN card
  BY <1>4, <1>5 DEF Renamable
<1>7. Whole(s)' = {} /\ Whole(k) = {} /\ Whole(k)' = Whole(s)
  <2>1. Cells(Bin(s))' = << >> /\ Cells(Bin(k)) = << >>
    BY <1>5, <1>6 DEF Cells
  <2> QED BY <1>5, <2>1, NothingWhole, NothingWholeNext, WholeMoved
<1>8. \A m \in Names : m # s /\ m # k => Whole(m)' = Whole(m)
  <2>1. \A m \in Names : m # s /\ m # k => Cells(Bin(m))' = Cells(Bin(m))
    BY <1>5, NamesApart
  <2> QED BY <2>1, WholeMoved
<1>9. CASE Whole(s) = {}
  <2>1. TheShelf' = TheShelf
    BY <1>7, <1>8, <1>9, ShelfKept
  <2> QED BY <1>2, <2>1, RestIsNext
<1>10. CASE Whole(s) # {}
  <2>1. TheShelf[s] = Whole(s) /\ TheShelf[k] = {}
    BY <1>7 DEF TheShelf
  <2>2. TheShelf' = [m \in Names |-> IF m = s THEN {} ELSE IF m = k THEN Whole(s) ELSE Whole(m)]
    BY <1>7, <1>8 DEF TheShelf
  <2>3. TheShelf' = [TheShelf EXCEPT ![k] = TheShelf[s], ![s] = {}]
    BY <1>6, <2>1, <2>2 DEF TheShelf
  <2>4. Shelf!Move(s, k)
    BY <1>2, <1>10, <2>1, <2>3 DEF Shelf!Move, TheShelf, TheSaving, SaveSteps
  <2> QED BY <1>6, <2>4 DEF Shelf!Next
<1> QED BY <1>9, <1>10

(* What happens to a sidecar does not touch the shelf.                     *)
LEMMA CsvShelved == ASSUME IInv, DeleteCsv \/ RenameCsv PROVE Shelf!Next
<1>1. job.step \notin SaveSteps /\ job' = Idle
  BY DEF DeleteCsv, RenameCsv, SaveSteps
<1>2. TheSaving = << >> /\ TheSaving' = << >>
  BY <1>1, Names_of_nothing DEF TheSaving, SaveSteps
<1>3. PICK a : a = Csv(selected[1])
  OBVIOUS
<1>4. PICK b : b = Csv(job.name)
  OBVIOUS
<1>5. \A n : Bin(n) # a /\ Bin(n) # b
  BY <1>3, <1>4, NamesApart
<1>6. card' = card \/ delete_file(a) \/ (Renamable(a, b) /\ rename_file(a, b))
  BY <1>3, <1>4 DEF DeleteCsv, RenameCsv
<1>7. \A g : g # a /\ g # b => Cells(g)' = Cells(g)
  <2>1. CASE card' = card
    BY <2>1 DEF Cells
  <2>2. CASE delete_file(a)
    BY <2>2, WithoutCells
  <2>3. CASE Renamable(a, b) /\ rename_file(a, b)
    BY <2>3, RenamedCells
  <2> QED BY <1>6, <2>1, <2>2, <2>3
<1>8. TheShelf' = TheShelf
  BY <1>5, <1>7, WholeMoved, ShelfKept
<1> QED BY <1>2, <1>8, RestIsNext

LEMMA StepShelved == ASSUME IInv, Next PROVE Shelf!Next
BY Steps, QuietShelved, EndStepShelved, SaveStepShelved, DeleteShelved, CsvShelved, RenameShelved,
   CrashShelved

LEMMA InitShelved == ASSUME Init PROVE Shelf!Init
<1>1. IInv
  BY InitHolds
<1>2. job.step = "Idle"
  BY Names_of_nothing DEF Init
<1>3. ASSUME NEW n \in Names PROVE Whole(n) \in SUBSET Seq(Nat) /\ \A a, b \in Whole(n) : a = b
  <2>1. CASE Loads(Bin(n), file_size(Bin(n)))
    <3>1. Bin(n) \in Bins
      <4>1. IsHeader(read_range(Bin(n), 0, header_size))
        BY <2>1 DEF Loads
      <4>2. Cells(Bin(n)) # << >>
        <5>1. Cells(Bin(n)) = FirstPart(<< >>, 0) => ~IsHeader(read_range(Bin(n), 0, header_size))
          <6>1. << >> \in Seq(Nat) /\ 0 \in 0 .. 2 + 2 * Len(<< >>) /\ 0 < 2
            BY EmptySeq
          <6> QED BY <6>1, HeadOfFirstPart
        <5>2. FirstPart(<< >>, 0) = << >>
          BY SubSeqEmpty DEF FirstPart
        <5> QED BY <4>1, <5>1, <5>2
      <4> QED BY <4>2, IsBin DEF Cells
    <3>2. stream(Bin(n)) \in Seq(Nat)
      BY <1>1, <2>1, <3>1, StreamTyped
    <3> QED BY <2>1, <3>2 DEF Whole
  <2>2. CASE ~Loads(Bin(n), file_size(Bin(n)))
    BY <2>2 DEF Whole
  <2> QED BY <2>1, <2>2
<1>4. TheShelf \in [Names -> SUBSET Seq(Nat)] /\ \A n \in Names : TheShelf[n] = Whole(n)
  BY <1>3 DEF TheShelf
<1> QED BY <1>2, <1>3, <1>4, NotSaving DEF Shelf!Init, TheShelf, TheSaving, SaveSteps

(* Whatever fails or is cut short, what opens under a name is a whole      *)
(* capture as it was saved, and only a save, a rename or a delete changes  *)
(* it: the screens over the card implement the shelf.                      *)
THEOREM ShelfImplemented == Spec => ImplementsShelf
<1>1. Init => Shelf!Init
  BY InitShelved
<1>2. IInv /\ [Next]_vars => [Shelf!Next]_<<TheShelf, TheSaving>>
  <2>1. ASSUME UNCHANGED vars PROVE UNCHANGED <<TheShelf, TheSaving>>
    <3>1. card' = card /\ job' = job
      BY <2>1 DEF vars
    <3>2. \A n : Cells(Bin(n))' = Cells(Bin(n))
      BY <3>1 DEF Cells
    <3>3. TheShelf' = TheShelf
      BY <3>2, WholeMoved, ShelfKept
    <3> QED BY <3>1, <3>3 DEF TheSaving
  <2> QED BY <2>1, StepShelved
<1> QED BY <1>1, <1>2, Invariance, PTL DEF Spec, ImplementsShelf, Shelf!Spec, TheShelf, TheSaving, SaveSteps
=============================================================================
