--------------------------- MODULE WcCaptureStore ---------------------------
(***************************************************************************)
(* A capture on the card (wc_capture_service.c, wc_capture_codec.c): a     *)
(* binary file and a CSV sidecar, written record by record.                *)
(*                                                                         *)
(* A device is a number, and a capture the sequence of those in it; what   *)
(* a record says of its device is not told apart, but the two record       *)
(* layouts are: a version 2 record is a version 1 record and one cell.     *)
(* The save under way is the variable job; it is a step per call of the    *)
(* port, with Crash able to come between any two.                          *)
(***************************************************************************)
EXTENDS WcCard

CONSTANTS
  Names,        \* base names of captures
  MaxDevices    \* WC_CENSUS_MAX_DEVICES

ASSUME StoreAssumption == MaxDevices \in Nat

VARIABLE job    \* the handler under way

Bin(n) == <<n, "wcen">>
Csv(n) == <<n, "csv">>

-----------------------------------------------------------------------------
(* The codec.                                                              *)

Magic == <<0, 0, 0>>
header_size == 2
record_size(version) == IF version >= 2 THEN 2 ELSE 1
Version == 2

put_header(devices) == <<Magic, <<1, Len(devices), Version>> >>
put_record(d) == << <<2, d, 1>>, <<2, d, 2>> >>
csv_header == << <<3, 0, 0>> >>
csv_row(d) == << <<3, d, 0>> >>

(* What get_header makes of the first cells of a file.                     *)
IsHeader(cells) == Len(cells) = header_size /\ cells[1] = Magic
Count(cells) == cells[2][2]
VersionOf(cells) == cells[2][3]

(* wc_capture_peek_count, by wc_capture_service_device_count.              *)
device_count(f) ==
  LET head == read_range(f, 0, header_size) IN IF IsHeader(head) THEN Count(head) ELSE 0

(* wc_capture_service_stream succeeds, when no read fails: the version is  *)
(* one that is known, and the count accounts for the file.                 *)
Loads(f, max) ==
  LET head == read_range(f, 0, header_size)
  IN  /\ IsHeader(head) /\ VersionOf(head) \in 1 .. Version
      /\ Count(head) <= max
      /\ file_size(f) = header_size + Count(head) * record_size(VersionOf(head))

(* The devices it hands on, in blocks of records.                          *)
stream(f) ==
  LET head == read_range(f, 0, header_size)
      rec == record_size(VersionOf(head))
  IN  [i \in 1 .. Count(head) |->
         read_range(f, header_size + (i - 1) * rec, rec)[1][2]]

-----------------------------------------------------------------------------
(* wc_capture_service_save.                                                *)

NoName == ""
Idle == [step |-> "Idle", name |-> NoName, ext |-> NoName, devices |-> << >>, at |-> 0,
         then |-> NoName]

Saving(n, devices, then) ==
  [step |-> "Open", name |-> n, ext |-> "wcen", devices |-> devices, at |-> 0, then |-> then]

File == <<job.name, job.ext>>
Goes(step) == job' = [job EXCEPT !.step = step]
Failed == Goes("Failed")

SaveOpen ==
  /\ job.step = "Open"
  /\ \/ open_write(File) /\ Goes("Write") /\ NoFault
     \/ UNCHANGED card /\ Failed /\ Fault
     \/ open_write(File) /\ Failed /\ Fault   \* opened, but no memory for the writer

(* The header first, then each record; a write that fails is the last.     *)
Chunk ==
  IF job.ext = "wcen"
  THEN IF job.at = 0 THEN put_header(job.devices) ELSE put_record(job.devices[job.at])
  ELSE IF job.at = 0 THEN csv_header ELSE csv_row(job.devices[job.at])

Position ==
  IF job.at = 0 THEN 0
  ELSE IF job.ext = "wcen" THEN header_size + (job.at - 1) * record_size(Version) ELSE job.at

SaveWrite ==
  /\ job.step = "Write"
  /\ job.at <= Len(job.devices)
  /\ \/ /\ card' = With(File, Written(File, Position, Chunk)) /\ NoFault
        /\ job' = [job EXCEPT !.at = @ + 1]
     \/ Torn(File, Position, Chunk) /\ Failed /\ Fault

(* The capture is followed by its sidecar.                                 *)
SaveClose ==
  /\ job.step = "Write"
  /\ job.at = Len(job.devices) + 1
  /\ \/ /\ UNCHANGED card /\ NoFault
        /\ job' = IF job.ext = "wcen"
                  THEN [job EXCEPT !.step = "Open", !.ext = "csv", !.at = 0]
                  ELSE [job EXCEPT !.step = "Saved"]
     \/ Unflushed(File) /\ Failed /\ Fault

Save == SaveOpen \/ SaveWrite \/ SaveClose

(* The power goes: an open file keeps what had reached the card.           *)
CutShort ==
  /\ Fault
  /\ IF job.step = "Write" THEN Unflushed(File) ELSE UNCHANGED card
=============================================================================
