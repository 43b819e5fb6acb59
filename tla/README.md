# A TLA+ model of Flipper Wi-Fi Census

The application runs on a Flipper Zero. An ESP32 Marauder board sends one line of text per Wi-Fi
frame it sniffs; the application turns those lines into a *census*, the set of unique devices
seen, shows it, stores it as a capture on the SD card, and merges, compares and browses captures.
This directory models the parts of it where order, concurrency, limits or failure decide whether
the result is right, checks them with TLC on small instances, and proves what matters most with
TLAPS for every value of the constants. `PROJECT.json` maps every definition to the lines of the
source it models.

Paths below are relative to the repository (`src/…` is its C code, `include/…` its headers).

## Inventory

### How the parts interact

```
 ESP32 board ──UART bytes──▶ rx_isr ──stream buffer──▶ worker ──▶ line assembler
                                                        │ on_line(line, now)
                                                        ▼
                     parse (wc_marauder_parse) ──▶ wc_scan_on_line ──▶ census (observe)
                                                                          │
     GUI tick, 500 ms: wc_scan_stats (reads the census, no lock) ◀────────┤
     Back / rotation: serial stop ──▶ capture service (save) ◀────────────┤
     merge service: load a, fold b in, save ─────────────────────────────▶┘

 menu ──▶ scan │ browse, rename, delete, merge, import, compare │ known devices │ settings
              all of them on one list view, one store port, one file selected at a time
```

The worker thread writes the census and the application thread reads it without a lock. Two rules
of the code take a lock's place: the array is reserved in full before a scan starts, so it does
not move, and the link is stopped (the worker joined) before the census is saved or freed.

### Components

| Component | State | Operations | What makes it correct | Modelled in |
|---|---|---|---|---|
| Device record (`wc_signature.c`, `wc_observation.c`) | address, type, up to two names, counts, times, strongest signal, fingerprint | from_obs, merge, absorb, add_ssid | merging a frame and absorbing a record of that frame agree; a missing reading never beats a real one; names do not repeat | WcSignature |
| Census (`wc_census.c`) | array of records, allocation, ceiling, refused count | init, set_max, reserve, observe, add, merge_one, free; stats, ssid_tally, phone_bound read it | addresses unique; a stable address is never linked to another one; no frame lost or counted twice; the array stays in its allocation | WcCensus, WcMerge, WcScanRace |
| Merging captures (`wc_merge_service.c`) | two captures, a census, a third capture | load a, reserve, stream b, save | nothing lost or doubled; merging a capture with itself adds nobody | WcMerge (the census), WcBrowse (the files) |
| Serial link (`wc_serial_furi.c`) | USART handle, stream buffer, worker thread and its flags | start, stop, interrupt, worker | nothing touched after it is freed; no byte left asleep; stop returns, and on_line is not called afterwards | WcSerial, WcSerialPort |
| Line assembler (`wc_line_assembler.c`) | line in assembly, overflow flag | init, feed | lines whole; resynchronises after a loss | WcSerial |
| Scan service (`wc_scan_service.c`) | none | on_line, stats | one line changes the census as one frame does; a reader beside it reads what was filled | WcMerge, WcScanRace |
| Scan, save and serial debug screens (`wc_scene_scan.c`) | scanning, saving, chunk number, base name | enter, leave, back, tick, rotate, save | a capture is released only when saved; a scan never runs without a reservation; the census is saved and replaced only while nobody writes it | WcScanScene |
| Storage adapter (`wc_store_furi.c`) | files on the card | open (truncates), write, read, size, rename, remove, list | what each call can leave behind when it fails | WcCard |
| Capture files (`wc_capture_service.c`, `wc_capture_codec.c`) | two files for each capture | save, load, stream, exists, device_count | all or nothing when loaded; a failed save never opens as a third capture | WcCaptureStore, WcShelf |
| Browse, merge, import, compare screens (`wc_scene_browse.c`, `wc_scene_crossing.c`, `wc_scene_import.c`) | one list, one selection, one census in memory | pick, show, rename, delete, compare, merge, import | a screen acts on a file that is there, shows the capture it names and blames the one that refused | WcBrowse |
| Comparing captures (`wc_compare.c`) | flags on two lists | same_device, find, compare | does not depend on which capture is picked first | WcCompare |
| Known devices (`wc_known.c`, `wc_known_service.c`, `wc_scene_known.c`) | list of rules, rewritten in place | load, mark, mark_ssid, rename, remove | a rule once saved is lost only when it is removed; what is marked is recognised | WcKnown |
| Pcap import (`wc_pcap_reader.c`, `wc_probe_frame.c`, `wc_import_service.c`) | window over a file | read the next frame | the window reads what the buffered reader reads | WcPcap (not `wc_probe_frame.c`) |
| Scrolling list (`wc_scroll_list.c`) | cursor, window, rows, scrolling | keys, reset, fill, draw, timer | cursor inside window, window inside list, page full | WcScrollList, WcMenu |
| Settings and menu (`wc_settings_service.c`, `wc_scene_home.c`) | baud, autosave, a file of nine bytes | load, save, nudge | what the app runs with is what it finds again | WcMenu |
| Marauder parser, clock, time formats, version, application shell, host tools | | | see *Not modelled* | not modelled |

### The hard behaviours

* **Long sequences.** Whether a name identifies a device or is a place's depends on every frame
  before it. One frame can fold two records into one and move the rest of the array.
* **Limits.** The array grows in chunks up to a ceiling, after a reservation that may have failed;
  the refused count is a `uint16_t`; a line that is too long is dropped whole; the pcap is read
  through a window little larger than a frame; the list keeps unsigned positions.
* **Missing values.** 0 means "not measured" in the signal, the times and the fingerprint; size 0
  means "never saved" in the registry.
* **Threads.** An interrupt, a worker and the application share the stream buffer and the census.
* **Losses.** A full stream buffer loses bytes in silence; the assembler has to find the next line.
* **Failure.** Reservation, start of the link, and each call of the card can fail, each leaving
  different things behind; the power may go between any two steps of a save.
* **Stale state.** One selection, one list and one census serve all screens; why something failed
  is worked out afterwards, by asking again.

The list with source lines is under `hazards` in `PROJECT.json`, with the reason wherever no
property covers one.

## Modules

```
 WcSignature ─▶ WcCensus ─▶ WcMerge ─▶ WcCompare         WcSerial ···implements···▶ WcSerialPort
 WcCard ─▶ WcCaptureStore ─▶ WcBrowse ···implements···▶ WcShelf
 WcCard ─▶ WcKnown          WcCard, WcScrollList ─▶ WcMenu
 WcScanScene      WcScanRace      WcPcap                   (each stands alone)
```

An arrow is EXTENDS. Each `MC…` module is a small instance for TLC; each `…Proofs` module holds the
theorems about the module it is named for. Two cover more: `WcCensusProofs` has those about
`WcCensus`, `WcMerge` and `WcCompare`, and `WcCaptureProofs` those about `WcCaptureStore`,
`WcBrowse` and its refinement of `WcShelf`.

**WcSignature** — the device record as pure operators: `from_obs`, `merge`, `absorb`, `add_ssid`
(the two-name limit, repeated names, the network name of an access point), the type guess, and the
rules for values that may be missing. `heard_as` is a history field: the addresses whose frames a
record counts. The vendor fingerprint `ie_vendor` is left out (it is set exactly as `ie_hash` is)
and the OUI table is the constant `OuiType`.

**WcCensus** — `devices` is the array up to `count`; `capacity`, `dropped`, `max` are the fields
of the same name. The actions are `set_max`, `reserve`, `observe` (as `ObserveKnown`,
`ObserveNew`, `ObserveRefused`) and `free`. `observe` is one step with everything the code does
for a frame: the lookup by address, then by a name that exactly one client seeks; the merge;
`link_late` with its count of seekers, its choice of the record to keep, and the shift of the
array; or growth and the new record; or the refusal. An allocation may fail whenever it is
attempted. `heard`, `turned_away` are history. An index that the code returns as `int`, -1 for
none, is a set of at most one index.

**WcMerge** — scans (as in `WcCensus`) are saved, and two stored captures are merged: `StartMerge`
loads the first and reserves, `merge_one` takes the next record of the second (`AbsorbRecord`,
`AddRecord`, `DropRecord`), `FinishMerge` stores the result, `AbortMerge` gives up when the card
does. The captures merged are therefore ones the program can have written. **WcCompare** adds the
comparison as operators, over the same captures.

**WcScanRace** — the walk of `wc_census_stats` and `wc_census_ssid_tally`, read by read, beside
the worker's writes to the array, write by write (a new slot is cleared, filled and then
published; a fold moves the later slots down one at a time). Of a slot only the number of names is
kept, since the walk follows it. The bound of the loop is a plain variable: the compiler may keep
it in a register or read it again, and both happen.

**WcSerial** — the interrupt `rx_isr`, the worker (`WorkerWake`, `WorkerReceive`, `WorkerDrained`,
`feed`), and the application thread in `serial_start` (`StartAcquire`, `StartThread`, `StartRx`)
and `serial_stop` (`StopRx`, `StopFlag`, `StopJoin`, `StopFree`), interleaved. `Send` and `Missed`
are the board. Each byte carries the line it was sent in and its place in it, so that the lines
delivered can be compared with the lines sent. `StartRx` and `StopRx` take the calls that only
touch the USART as one step: the worker does not look at it. `StartThread` allocates the stream
and starts the worker, which waits for its first flag; before `StartRx` nobody can set one.

**WcSerialPort** — what the port promises the screens: start opens the link, lines are handed on
one at a time while it is open or closing, stop returns, and no line comes after it.
`WcSerial!ImplementsPort` is the refinement, with `link` computed from where the application
thread is and `lines <- delivered`.

**WcScanScene** — the scan, name, message and serial debug screens on the stack of the scene
manager. A handler that can be interrupted by the worker is a sequence of steps named by `doing`:
entering (`EnterNoRoom`, or `EnterReady` and then `EnterStarted` or `EnterBusy`), rotating
(`Rotate`, `RotateStop`, `RotateSave`, `RotateReset`, `RotateStart`), leaving with auto-save
(`BackAutosave`, `LeaveAutosave`). The name screen is `SaveExists`, `SaveDone`, `SaveRefused`.
Allocation, port and card may fail at any try; `NotSaved` lists what a failed save leaves on the
card. The census is the set `hand` of the devices heard into it and the number `count` of the records they
have there: a new device adds a record or joins one (`Observe`), and a later frame may fold two records
or give a forgotten address one of its own (`ObserveAgain`); which, is the subject of `WcCensus`.
Whether a name is taken is asked by the size of its file, so that a card that fails to open files
(`opens`, `CardChanges`) makes a capture seem absent (`Exists`). The scene manager is external: `BackToPrevious` pops a screen and enters the one
below, and switching to the menu leaves nothing else on the stack.

**WcCard** — the store port. A file is a sequence of cells, as fine as its readers tell apart;
opening for writing truncates, a write that fails leaves some first part (`Torn`), and a file is
certain to be on the card only once it is closed (`Unflushed`). `MaxFaults` bounds the calls that
fail. That a rename never replaces a file is assumed of the firmware: the rename screen's message
relies on it.

**WcCaptureStore** — the codec (two record layouts, a header whose count must account for the
file) and `wc_capture_service_save` as a *job*: open, write record by record, close, then the same
for the CSV sidecar, each a step that may fail, and a power cut between any two. **WcShelf** is
what these files promise: under each name there is a whole capture or none.

**WcBrowse** — the screens over captures, with every handler: files, actions, summary, devices,
networks, rename (`RenameBin`, `RenameCsv`), delete (`DeleteBin`, `DeleteCsv`), the two picks of a
comparison or a merge, the merge and the import with their saves, and what the user is told when
something fails. In what order a merge lists the devices is not told apart (`Merges` is the set of
the results it may have: the census is `WcMerge`'s subject), and the shelf takes any list of
devices for a capture. A visit to the menu forgets what was chosen (`NoFile`), so that a screen that
used what an earlier visit left behind would be seen.

**WcKnown** — the registry of known devices. Every edit is a job of three steps (load, rewrite in
place, load again for the screen); a file may be missing, whole, full or damaged. `original`,
`wanted`, `why` and `hurt` are history: what the app found, the rules the user was told of, what kept
the last edit from being made, and how the file was hurt.

**WcScrollList** — the keys, the drawing and the scrolling timer of the list, with unsigned
positions (`Minus` wraps at `Word`). **WcMenu** puts the menu, the settings and other screens'
lists on it, and the settings file behind it.

**WcPcap** — `Records` is `wc_pcap_read`, over a whole file; the actions are `wc_pcap_stream`, a
step for each call of `window_hold`, which refills the window when what is asked for is not in it.

Operators marked `Mutant:` are not part of the model. Each is a plausible mistake in the code and
shows that a property would notice it; the pairs are under `mutants` in `PROJECT.json`.

## Runs

| Run | Instance | What it shows |
|---|---|---|
| `identity` | 2 stable and 3 randomized addresses, 2 names, 5 frames, ceiling 3 or 4, chunk 2 | `TypeOK`, `InBounds`, `UniqueMacs`, `StableIdentity`, `PlaceNames`, `FramesAccounted`, `StableKept`: who is who |
| `readings` | 1 stable and 2 randomized addresses, 1 name, signal, fingerprint and clock present or 0, 3 frames | `MergeIsAbsorb`: what a record accumulates |
| `merge` | 3 addresses, of which one has no signal level, 2 names, two scans of 2 frames, each with a clock or without, ceiling 3, up to 3 captures merged in any order, with themselves or with a merged one | `MergeExact`, `SelfMergeAddsNobody`, `StoredUnique`, `CompareMutual`, `FoldOrderFree` |
| `race` | an array of 4 slots, walked while it is filled, named, folded and replaced | `ReadsFilled` |
| `serial` | stream of 3 bytes, 2 at a time, lines of up to 2 characters, 6 bytes, 2 sessions | `NoDangling`, `NoLostWakeup`, `LinesIntact`, `OwnSession`, `Resynchronized`, `LineHandedOn`, `ImplementsPort` |
| `scan` | 3 devices, rotation at 2, 2 names, 2 minutes, a card that fails to open files now and then | `TypeOK`, `ReservedWhileScanning`, `LinkOkIsTrue`, `QuietCensus`, `ReleasedWhenSaved`, `CapturesKept`, `RotatesAtTheMark` |
| `browse` | 3 names, 2 devices to a capture, lists of 2 names, 1 fault, 1 save; whole, old-format, later-format, oversized and damaged captures | `SelectedOnCard`, `ShownIsStored`, `BlameIsTrue`, `SidecarsMatch`, `ImplementsShelf` |
| `known` | 3 rules at most, 2 faults; registries absent, damaged, of one rule and full; devices with a stable address, with names, and with neither | `RegistryIntact`, `MarkedIsKnown`, `ReasonIsTrue` |
| `rows` | lists of 0, 1, 3, 4, 5, 9, 10 and 12 rows on a list of 10, with and without a header, 2 faults | `PageFull`, `SettingsKept`, `NudgeStays` |
| `import` | every pcap of up to 8 cells, frames of up to 2, a window of 5, a pull that fails | `SameFrames` |
| `scan_resume`, `registry` | as `scan` and `known` | do not hold: see *Findings* |

**Why the bounds are enough.** A link is decided between a frame's record, one other record, and
whatever third record makes a name a place's. Five frames make any such trio and leave two frames
to link it, so that the record folded away can be any of the three, with records after it to move;
a ceiling of three makes the array full and its last growth partial (chunk 2). `readings` needs
two records to fold and a third frame to read again. In `merge` a time is 0 or 1: what matters there is
that records with a time and without one meet, and which of two known times counts is asked by
`readings`, whose times are 0, 1 and 2. In `race` a fold in the middle of four slots
leaves slots to move on both sides of the walk. In `serial` the stream holds one longest line
with its newline and more than one chunk, so it overflows while the worker is in the middle of a
chunk and in any place of a line; six bytes make a line that is too long, a newline, and a whole
line after it, and leave a byte to lose; two sessions are enough for one to leave something to the
next. In `scan` three devices fill one chunk and begin another, and leave room above the mark for
a device that comes between two ticks, and for a fold that takes one away; two names let one be taken; two minutes let series share a
minute or not. In `browse` two captures and a free name are what a rename, a merge and a list need,
a list of two names is too short for three files, and one fault, at any call of any job, is enough to
leave a torn capture or a lone sidecar for the screens after it; two faults in a row are not covered. In `known` three rules give a registry that is full, one
with room, and an entry in the middle to remove. In `rows` the pages hold three or four rows and the
lists go past both and past the longest list by two. In `import` the window (a frame, its header
and the global header) is refilled at every place of a record. The real values (512-byte stream,
64-byte chunk, 160-byte lines, chunks of devices) differ in size only: the code compares with them
and does nothing else.

The randomized addresses that no beacon frame uses are interchangeable and are declared symmetric
in the runs of `WcCensus`, and so are the names of networks in `merge`. No run with a liveness property declares a symmetry.

Deadlock is checked wherever the system does not end: no order of screens and failures leaves the
application without a step. It is not checked in `merge` and `serial`, where the bounds on frames,
captures, bytes and sessions (`MaxFrames`, `MaxCaptures`, `MaxBytes`, `MaxReturns`, `MaxSessions`)
bring the instance to an end, and in `import`, where the file does. That the link itself cannot
block is `ImplementsPort`, under which a stop that has begun returns. `MaxSeen`, `MaxMinutes`,
`MaxFaults`, `MaxSaves` and `MaxScroll` bound the others.

**Fairness** is assumed in `serial` and `scan` only. `WF(Worker)`: the worker is a thread of an
RTOS scheduler that runs a ready thread by and by; it is disabled while it waits for a flag.
`WF(Stopping)`: a call of `serial_stop` runs on unless it waits for the worker in the join. No
fairness is assumed of the board (it may fall silent) or of the user (a link may stay up or down
forever). `LineHandedOn` therefore says that a whole line is delivered without another byte being
needed, unless the link is stopped first. In `WcScanScene`, `WF(Handler)` says that a handler
returns, and `WF(Rotate)` that the periodic timer, which runs whenever the scan on the screen
does, is not the last one.

## Proofs

All theorems hold for every value of the constants that satisfies the assumptions named in the
modules (`SignatureAssumption`, `CensusAssumption`, `RaceAssumption`, `SerialAssumption`,
`SceneAssumption`, `CardAssumption`, `StoreAssumption`, `BrowseAssumption`, `KnownAssumption`,
`ListAssumption`, `MenuAssumption`, `PcapAssumption`): any number of addresses, names, frames, bytes,
sessions, captures, rules, rows and faults. A theorem that needs more says so in its statement.

| Theorem | Statement | Module |
|---|---|---|
| `Invariance` | `Spec => []IInv` | WcCensusProofs |
| `TypeCorrect`, `Bounded`, `Unique`, `StableApart` | `TypeOK`, `InBounds`, `UniqueMacs`, `StableIdentity` | WcCensusProofs |
| `StableNeverLost`, `NamesArePlaces` | `StableKept` (an action property), `PlaceNames` | WcCensusProofs |
| `EveryFrameCounted` | frames counted, frames dropped and whole wraps of `dropped` add up to the frames heard | WcCensusProofs |
| `FramesNeverLost` | `FramesAccounted`, for fewer than 65536 frames between two resets | WcCensusProofs |
| `OneAccumulation`, `FoldedEitherWay` | `MergeIsAbsorb`, `FoldOrderFree` | WcCensusProofs |
| `MergeInvariance` | `MergeSpec => []MInv` | WcCensusProofs |
| `NobodyTwice`, `MergedStableApart`, `SelfMergeSafe` | `StoredUnique`, `StableIdentity`, `SelfMergeAddsNobody` for merges | WcCensusProofs |
| `NothingLost` | `MergeExact`, for a ceiling below 65536 | WcCensusProofs |
| `ComparesBothWays` | `CompareMutual` | WcCensusProofs |
| `Invariance`, `WalkReadsFilled` | `IInv`, `ReadsFilled` | WcScanRaceProofs |
| `Invariance`, `NeverDangling`, `NeverLosesWakeup`, `AlwaysOwnSession` | `IInv`, `NoDangling`, `NoLostWakeup`, `OwnSession` | WcSerialProofs |
| `LinesArriveIntact`, `Resynchronizes` | `LinesIntact`, `Resynchronized` | WcSerialProofs |
| `ImplementsPortSafety` | every step of the link is a step of the port or a stutter | WcSerialProofs |
| `Invariance`, `TypeCorrect`, `AlwaysReserved`, `LinkOkTells`, `AlwaysQuiet`, `AlwaysReleasedWhenSaved`, `AlwaysCapturesKept` | `IInv`, `TypeOK`, `ReservedWhileScanning`, `LinkOkIsTrue`, `QuietCensus`, `ReleasedWhenSaved`, `CapturesKept` | WcScanSceneProofs |
| `SaveInvariance`, `TornNeverOpens` | one save, onto any card: what opens afterwards is the old capture or exactly the new one | WcCaptureProofs |
| `Invariance`, `SelectionHolds`, `ShownHolds` | `IInv`, `SelectedOnCard`, `ShownIsStored` | WcCaptureProofs |
| `SidecarsHold` | `SidecarsMatch`, from a card on which it holds | WcCaptureProofs |
| `BlameHolds` | `BlameIsTrue`, from a card on which a capture too big for the census is whole | WcCaptureProofs |
| `ShelfImplemented` | `ImplementsShelf` | WcCaptureProofs |
| `Invariance`, `RegistryHolds`, `MarkedStaysKnown`, `ReasonHolds` | `IInv`, `RegistryIntact`, `MarkedIsKnown`, `ReasonIsTrue` | WcKnownProofs |
| `Invariance`, `ReadersAgree` | `IInv`, `SameFrames` | WcPcapProofs |
| `Invariance`, `AlwaysPageFull`, `SettingsFound`, `NudgeKeepsRow` | `IInv`, `PageFull`, `SettingsKept`, `NudgeStays` | WcMenuProofs |

*The census.* A record is a `GoodRecord` when it is typed, well formed (names not repeated and at
most two, `mac_random` as the address says) and counts no stable address but its own. The
inductive invariant `IInv` says that all records are good, that addresses are unique and that
the array is in bounds. Uniqueness has to be part of it: that a frame of a stable address finds
its own record, and not merely one, is what keeps the records good, and a fold that keeps
`self` or `other` is sound only because the two differ in address. `StableKept` follows from the
relation `Keeps` between two arrays (each stable record of the first is in the second with at least
the same names, in order), which is reflexive and transitive and holds across the merge and across
the link. `PlaceNames` is not a consequence of `IInv`; it has an induction step of its own
(`PlacesIn`): a frame gives its record a name it did not have; with one other seeker `link_late`
folds the two unless both are stable, and with two or more, two of them were there before.

*Counting.* `FramesIn(recs)` is the last value of the sums along the array. A lemma by induction
over the array would need a library theorem that takes an operator; instead, what holds of every
sum is shown of the least place where it would fail (`Least`). So appending a record adds its
frames, changing one adds the difference, removing one takes its frames away, and a fold therefore
keeps the total. `AccountInv` keeps, for every frame, `heard = FramesIn(devices) + dropped + 65536 w`
for some natural `w`: `dropped` is a `uint16_t` and a frame that is refused when it is full wraps
it. That is all that can be said of any number of frames; `FramesAccounted` itself needs `w = 0`,
hence the bound in `FramesNeverLost`.

*What records accumulate.* `MergeIsAbsorb` needs `TimesInv`: the times of a record lie before the
last frame, and are 0 exactly when the session has no clock. Without it a later time that is
"smaller" would tell `merge` and `absorb` apart. A session has a clock or has none (`ClockAllows`): on
the device the clock is that of the device, also for an import, and the import tool on a PC writes 0
throughout. The two meet in merges, and `FoldOrderFree` is therefore about stored captures, over
`MergeSpec`.

*Merges.* `MInv` adds to the census's invariant that every stored capture has good records and no
address twice, and that a merge reads captures that are there. A record of the second capture is
absorbed where its address or its name is found, and the census invariant is preserved by each
case as it is by a frame. `MergeExact` follows from what the records of the first capture and those
taken from the second have brought, address by address and frame by frame. It needs `DropInv` (a
merge drops no more records than a capture can have), since `dropped` is compared with 0 and wraps
at 65536; the code keeps the ceiling in a `uint16_t`. `CompareMutual` rests on
`same_device` being symmetric in whether it finds something, and on the least index at which it
does.

*The walk.* Every slot the walk may still read was filled once: slots below the largest bound it
can hold are never unset again, because a fold moves records down and `count` shrinks, but no slot
is cleared outside an append.

*The link.* `IInv` ties where the application thread is to what is allocated and whether there is
a worker; `NoLostWakeup` is a conjunct of it, since bytes that came in are answered by a flag that
only the worker clears. `LinesArriveIntact` has an invariant of its own, `TextInv`: the line in
assembly, the chunk and the stream are one piece of the text the board sends, ending at the place
it is sending at, and linked byte by byte, except where a byte was lost; and where it is broken,
the line in which the next byte was due is among those that lost one. The statement about the
place where the assembler stands (`Assembled`) is what makes it inductive: from a broken place on,
either the line in assembly touches a damaged line, or it begins anew with the first byte of a
line. A session ends by giving up what is on its way, so that the next one starts in a line that
has not begun or is damaged (`GivenUp`). `Resynchronized` adds `SyncInv` to it: a line that lost
nothing, fits, and follows a newline that was received was handed on, or is on its way with its
newline; lines come out in the order they were sent; and at the place the assembler has reached it
holds the line that is due exactly, unless a byte of it or the newline before it was lost.

*The screens.* `HandInv`, `ListenerInv` and `TimerInv` say which of the link, the timer, the
reservation and the capture in hand can be there at each step of each handler, and `CountInv` that a
census with records is one with devices; the stack is in one
of six shapes. The action properties follow step by step from these.

*The save.* `SaveInv(old)` describes the file at each step as a first part of the capture, or as
what was there before; that a first part which is not all of it does not load follows from the
count in the header. `SaveSpec` is one save from any card with any failure or power cut, without
the screens.

*The screens over captures.* The stack is a path through the screens, and each handler runs on one
screen (`IInv`); what has been chosen so far follows from the path, and what a save has written is
a first part of the capture it saves. `SelectedOnCard` and `ShownIsStored` then hold because only
the screen on top changes the card, and because a delete or a rename leads back to the list of
files, which frees what was read of one. Two properties speak of runs without a failure, and so also of how
the card was found: `SidecarsHold` starts from a card on which they match; `BlameHolds` from one
on which a capture too big for the census is whole (`HeadsKept`), because the message that says so
reads nothing but the header. The application writes no such capture, the host tools do; the
captures it writes itself are covered also when an earlier failure has torn them.
`ShelfImplemented` has no such hypothesis: from any card, with any failure or power cut, each step
is a save's beginning, its outcome (the old capture, the new one, or none), a rename, a removal,
or changes nothing that opens.

*The registry.* The rules at each step of an edit follow from those the user was told of: before
the rewriting the file has those, after it those with the one edit (`RulesHeld`), as long as no
write was torn and no size misread (`hurt`); what a screen has picked is a place in that list. The
run `registry` shows what happens when a size is misread. `ReasonIsTrue` compares the
message with `why`, which is recorded at the step where the edit failed. It needs that a rule is
added only to a list with room (`FullListKept`), that between the failure and the message `why` agrees
with the rules there are (`WhyHeld`), and that a rename has a row of the list to act on (`RowHeld`),
so that it fails only for want of a list or of a write.

*The pcap.* `Rest(file)[o]` are the frames from offset `o` on, and a whole record at `o` is followed
by those from the next one on; the induction over offsets is again by the least counterexample
from the end. What was handed over followed by what is left is then the same after every step,
and the window has the cells of the file at whatever offset it lies.

*The list.* `CursorInv` says that the window is inside the list and the cursor inside the window;
`Word > 2 * ListMax + 8` is what keeps unsigned differences from meaning something else.

*Only model-checked:* `LineHandedOn`, `RotatesAtTheMark` and the liveness of `ImplementsPort`, which
rest on fairness and are outside what the prover does. Every other property of a passing run is
a theorem.

## Findings

* **A resumed scan can be lost** (`scan_resume`). Back on the name screen resumes the scan; when
  the port was taken meanwhile, the error path releases the census with the capture in it
  (`src/scenes/wc_scene_scan.c:122-131`, whose comment says that nothing was captured).
* **A registry that cannot be opened is taken for one never saved** (`registry`). The loader asks
  for the size first, so that a failed read is not taken for an empty registry
  (`src/application/wc_known_service.c:13-16`); but the size is 0 as well when the file cannot be
  opened (`src/platform/wc_store_furi.c:73-90`), and the mark under way then writes one rule over
  all of them.

Also seen while modelling, without a run of their own:

* A record keeps the address it was made with; the addresses linked into it by a name are not kept
  (`src/domain/wc_signature.c:44`), so a phone's next nameless probe is counted as one more device,
  where the README (lines 108-112) says it is not counted twice.
* `dropped` counts frames: every frame of a device with no record adds one
  (`src/domain/wc_census.c:158`), where `include/domain/wc_census.h:30` and the README (line 134)
  speak of devices.
* `wc_census_merge_one` has no counterpart of `link_late` (`src/domain/wc_census.c:296`), so a merged
  capture can list two randomized devices that seek one name, where `include/domain/wc_census.h:86`
  promises "the same dedup rules as a live session".
* Back on the no-memory message re-enters the scan screen, which shows it again while memory is
  short (`src/scenes/wc_scene_scan.c:112`), although it says to go back to the menu (lines 53-55).
* A capture that is there is taken for absent when the card fails to open it: `exists` is the size of
  the file, which is then 0 (`src/application/wc_capture_service.c:53-57`,
  `src/platform/wc_store_furi.c:73-90`), and the name screen saves over it
  (`src/scenes/wc_scene_scan.c:228-236`). It is the root of `registry` in another place;
  `CapturesKept` speaks of named captures only while the card opens files (`opens`).
* A fold between two ticks can take a census at the mark back below it; the tick then finds no reason
  to rotate (`src/scenes/wc_scene_scan.c:146`). Nothing is lost by it: there is room again, and
  `RotatesAtTheMark` allows it.
* A rename that the card refuses while the registry is full is told "The known registry is full.
  Delete one first" (`src/scenes/wc_scene_known.c:76`), though a rename needs no room. And an edit of
  a registry that cannot be read is told "The SD refused the write" (line 89), where the comment above
  it says that everything the rule needs was there. `ReasonIsTrue` names both, and a full registry
  that the second load could not read, as exceptions.
* The header of a capture is asked for its count without its version
  (`wc_capture_service_device_count`), so a capture of a later format that claims more devices than
  the census takes is told too big. `BlameHolds` starts from a card without one (`HeadsKept`).
* A merge whose save fails is reported with the second capture's name
  (`src/scenes/wc_scene_crossing.c:223`), although that capture loads. `BlameIsTrue` is therefore
  stated for a card that fails at nothing.
* A valid capture whose CSV cannot be written is reported as not saved
  (`src/application/wc_capture_service.c:39`).
* Settings that could not be read at start are replaced by the defaults at the next change of any
  of them (`src/app/wc_app.c:28`).

## Not modelled

* The text of a line (`wc_marauder_parse.c`) and of a probe frame (`wc_probe_frame.c`): pure
  parsers with unit tests. What they produce is the set of inputs `Observations`.
* `wc_census_phone_bound`: a reading of the census; the number of phones it bounds is not in the
  state of the program.
* The application shell's allocation of views, the clock, time formats and the version: firmware
  calls and formatting. The texts the screens draw, and how they are cut.
* The host tools (`tools/`): command-line loops around the same domain code, with a higher ceiling
  (`set_max`); `wc_iefp` and `wc_clean` are reports.
* Inside the modules: the interrupt is one step (nothing else runs on the core meanwhile);
  `name_is_safe` of the store; the cut of the list of matches at its limit; the fields of a record
  on the card other than which device it is (so also one that claims more than two names, which the
  codec refuses, `src/domain/wc_capture_codec.c:163`); the epoch of a merged capture.

## What is left

* Models: the statistics (`phone_bound`) against the true owner of each address, and the probe
  parser against the frames it is given.
* Proofs: the refinement of the port is proved for safety; its liveness stays with TLC. The list
  and the settings have no abstract specification of their own to be refined.
