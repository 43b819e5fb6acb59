------------------------------- MODULE WcSerial -------------------------------
(***************************************************************************)
(* The serial link to the Marauder board (wc_serial_furi.c) and the line   *)
(* assembler behind it: the interrupt that puts received bytes in a stream *)
(* buffer of limited size, the worker thread that takes them out and hands *)
(* whole lines to on_line, and the application thread that starts and      *)
(* stops both.                                                             *)
(*                                                                         *)
(* A byte is a character, a carriage return or a newline.  Which character *)
(* does not matter; for the properties each one carries the line it was    *)
(* sent in, its place in that line, and the session it was received in.    *)
(* The interrupt is one step: nothing else runs on the core meanwhile.     *)
(***************************************************************************)
EXTENDS Integers, Sequences, SequencesExt, FiniteSets

CONSTANTS
  StreamSize,   \* WC_RX_STREAM_SIZE, in bytes
  ChunkSize,    \* what the worker takes out of the stream at once
  LineMax,      \* WC_LINE_MAX
  MaxBytes,     \* bound of the model: bytes sent
  MaxReturns,   \* bound of the model: carriage returns among them
  MaxSessions   \* bound of the model: times the link is started

ASSUME SerialAssumption ==
  /\ StreamSize \in Nat \ {0}
  /\ ChunkSize \in Nat \ {0}
  /\ LineMax \in Nat \ {0, 1}
  /\ MaxBytes \in Nat
  /\ MaxReturns \in Nat
  /\ MaxSessions \in Nat

VARIABLES
  app,        \* where the application thread is in serial_start, serial_stop
  handle,     \* the USART is acquired
  armed,      \* the receive interrupt is enabled
  stream,     \* s->stream, the bytes in it
  allocated,  \* s->stream and s->thread are allocated
  flags,      \* the thread flags of the worker
  worker,     \* where the worker is; "None" when there is no thread
  chunk,      \* what the worker has taken out and not yet assembled
  buf,        \* the line in assembly
  overflow,   \* the line in assembly is too long and will be dropped
  delivered,  \* the lines on_line was called with
  lens,       \* history: the characters sent in each line so far
  returns,    \* history: carriage returns sent
  damaged,    \* history: the lines a byte of which was lost
  unended,    \* history: the lines whose newline was lost to a full stream
  session     \* history: how often the link was started

appVars == <<app, handle, armed, allocated, session>>
asmVars == <<buf, overflow, delivered>>
historyVars == <<lens, returns, damaged, unended>>
vars == <<app, handle, armed, stream, allocated, flags, worker, chunk,
          buf, overflow, delivered, lens, returns, damaged, unended, session>>

LinesOf(bytes) == {bytes[k].line : k \in DOMAIN bytes}
Sent == Len(lens) - 1 + FoldSeq(+, 0, lens) + returns

Init ==
  /\ app = "Off"
  /\ handle = FALSE
  /\ armed = FALSE
  /\ stream = << >>
  /\ allocated = FALSE
  /\ flags = {}
  /\ worker = "None"
  /\ chunk = << >>
  /\ buf = << >>
  /\ overflow = FALSE
  /\ delivered = << >>
  /\ lens = <<0>>
  /\ returns = 0
  /\ damaged = {}
  /\ unended = {}
  /\ session = 0

-----------------------------------------------------------------------------
(* The board sends a byte.                                                 *)

Line == Len(lens)

Send(ch) ==
  /\ Sent < MaxBytes
  /\ \/ ch = "Char" /\ lens' = [lens EXCEPT ![Line] = @ + 1] /\ UNCHANGED returns
     \/ ch = "LF" /\ lens' = Append(lens, 0) /\ UNCHANGED returns
     \/ ch = "CR" /\ returns < MaxReturns /\ returns' = returns + 1 /\ UNCHANGED lens

Byte(ch) == [ch |-> ch, line |-> Line, pos |-> lens[Line] + 1, session |-> session]

(* rx_isr: the byte goes in the stream, or is lost when the stream is full *)
(* (the send does not wait and its result is not looked at); the worker is *)
(* told either way.                                                        *)
rx_isr(ch) ==
  /\ armed
  /\ Send(ch)
  /\ \/ /\ Len(stream) < StreamSize
        /\ stream' = Append(stream, Byte(ch))
        /\ UNCHANGED <<damaged, unended>>
     \/ /\ Len(stream) >= StreamSize
        /\ UNCHANGED stream
        /\ damaged' = IF ch = "CR" THEN damaged ELSE damaged \cup {Line}
        /\ unended' = IF ch = "LF" THEN unended \cup {Line} ELSE unended
  /\ flags' = flags \cup {"Data"}
  /\ UNCHANGED <<appVars, worker, chunk, asmVars>>

(* Nobody listens.                                                         *)
Missed(ch) ==
  /\ ~armed
  /\ Send(ch)
  /\ damaged' = IF ch = "CR" THEN damaged ELSE damaged \cup {Line}
  /\ UNCHANGED <<appVars, stream, flags, worker, chunk, asmVars, unended>>

-----------------------------------------------------------------------------
(* The worker thread.                                                      *)

(* The wait ends on either flag and clears both; stop goes first, and what *)
(* is still in the stream or in assembly is never looked at again.         *)
WorkerWake ==
  /\ worker = "Wait"
  /\ flags # {}
  /\ flags' = {}
  /\ \/ /\ "Stop" \in flags
        /\ worker' = "Done"
        /\ damaged' = damaged \cup LinesOf(stream) \cup LinesOf(buf)
                        \cup (IF overflow THEN {Line} ELSE {})
     \/ /\ "Stop" \notin flags
        /\ worker' = "Drain"
        /\ UNCHANGED damaged
  /\ UNCHANGED <<appVars, stream, chunk, asmVars, lens, returns, unended>>

WorkerReceive ==
  /\ worker = "Drain"
  /\ stream # << >>
  /\ LET n == IF Len(stream) < ChunkSize THEN Len(stream) ELSE ChunkSize
     IN  /\ chunk' = SubSeq(stream, 1, n)
         /\ stream' = SubSeq(stream, n + 1, Len(stream))
  /\ worker' = "Feed"
  /\ UNCHANGED <<appVars, flags, asmVars, historyVars>>

WorkerDrained ==
  /\ worker = "Drain"
  /\ stream = << >>
  /\ worker' = "Wait"
  /\ UNCHANGED <<appVars, stream, flags, chunk, asmVars, historyVars>>

\* Mutant: a line that is too long is cut off, not dropped.
emit_truncated ==
  /\ delivered' = IF buf # << >> THEN Append(delivered, buf) ELSE delivered
  /\ buf' = << >>
  /\ overflow' = FALSE

\* Mutant: a line that was dropped leaves the assembler spoiled.
emit_stays_spoiled ==
  /\ delivered' = IF ~overflow /\ buf # << >> THEN Append(delivered, buf) ELSE delivered
  /\ buf' = << >>
  /\ UNCHANGED overflow

(* emit: a line that is empty or too long is not handed on.                *)
emit ==
  /\ delivered' = IF ~overflow /\ buf # << >> THEN Append(delivered, buf) ELSE delivered
  /\ buf' = << >>
  /\ overflow' = FALSE

(* A character goes in the line; the one that does not fit spoils it.      *)
keep_char(byte) ==
  /\ \/ /\ Len(buf) < LineMax - 1
        /\ buf' = Append(buf, byte)
        /\ UNCHANGED overflow
     \/ /\ Len(buf) >= LineMax - 1
        /\ overflow' = TRUE
        /\ UNCHANGED buf
  /\ UNCHANGED delivered

\* Mutant: the stream is read once per wake-up, not until it is empty.
feed_one_chunk ==
  /\ worker = "Feed"
  /\ chunk # << >>
  /\ chunk' = Tail(chunk)
  /\ \/ Head(chunk).ch = "LF" /\ emit
     \/ Head(chunk).ch = "CR" /\ UNCHANGED asmVars
     \/ Head(chunk).ch = "Char" /\ keep_char(Head(chunk))
  /\ worker' = IF Len(chunk) = 1 THEN "Wait" ELSE "Feed"
  /\ UNCHANGED <<appVars, stream, flags, historyVars>>

(* wc_lineasm_feed, one byte of the chunk at a time.                       *)
feed ==
  /\ worker = "Feed"
  /\ chunk # << >>
  /\ chunk' = Tail(chunk)
  /\ \/ Head(chunk).ch = "LF" /\ emit
     \/ Head(chunk).ch = "CR" /\ UNCHANGED asmVars
     \/ Head(chunk).ch = "Char" /\ keep_char(Head(chunk))
  /\ worker' = IF Len(chunk) = 1 THEN "Drain" ELSE "Feed"
  /\ UNCHANGED <<appVars, stream, flags, historyVars>>

Worker == WorkerWake \/ WorkerReceive \/ WorkerDrained \/ feed

-----------------------------------------------------------------------------
(* The application thread.                                                 *)

(* serial_start, up to the acquisition of the USART.  When another service *)
(* holds it, start returns false and nothing has changed.                  *)
StartAcquire ==
  /\ app = "Off"
  /\ session < MaxSessions
  /\ handle' = TRUE
  /\ session' = session + 1
  /\ app' = "Acquired"
  /\ UNCHANGED <<armed, stream, allocated, flags, worker, chunk, asmVars, historyVars>>

\* Mutant: the assembler is not reset when the link is started again.
StartThread_same_line ==
  /\ app = "Acquired"
  /\ UNCHANGED <<buf, overflow>>
  /\ stream' = << >> /\ allocated' = TRUE
  /\ flags' = {} /\ worker' = "Wait" /\ chunk' = << >>
  /\ app' = "Threaded"
  /\ UNCHANGED <<handle, armed, delivered, historyVars, session>>

StartThread ==
  /\ app = "Acquired"
  /\ buf' = << >> /\ overflow' = FALSE
  /\ stream' = << >> /\ allocated' = TRUE
  /\ flags' = {} /\ worker' = "Wait" /\ chunk' = << >>
  /\ app' = "Threaded"
  /\ UNCHANGED <<handle, armed, delivered, historyVars, session>>

StartRx ==
  /\ app = "Threaded"
  /\ armed' = TRUE
  /\ app' = "On"
  /\ UNCHANGED <<handle, stream, allocated, flags, worker, chunk, asmVars,
                 historyVars, session>>

(* serial_stop: first no more interrupts, then the worker is told, joined  *)
(* and freed, then the stream it read from.                                *)
StopRx ==
  /\ app = "On"
  /\ armed' = FALSE
  /\ handle' = FALSE
  /\ app' = "RxOff"
  /\ UNCHANGED <<stream, allocated, flags, worker, chunk, asmVars, historyVars, session>>

\* Mutant: the worker is never told to stop.
StopFlag_forgotten ==
  /\ app = "RxOff"
  /\ app' = "Flagged"
  /\ UNCHANGED <<handle, armed, stream, allocated, flags, worker, chunk, asmVars,
                 historyVars, session>>

StopFlag ==
  /\ app = "RxOff"
  /\ flags' = flags \cup {"Stop"}
  /\ app' = "Flagged"
  /\ UNCHANGED <<handle, armed, stream, allocated, worker, chunk, asmVars,
                 historyVars, session>>

\* Mutant: the stream is freed without waiting for the worker.
StopJoin_at_once ==
  /\ app = "Flagged"
  /\ app' = "Joined"
  /\ UNCHANGED <<handle, armed, stream, allocated, flags, worker, chunk, asmVars,
                 historyVars, session>>

StopJoin ==
  /\ app = "Flagged"
  /\ worker = "Done"
  /\ worker' = "None"
  /\ app' = "Joined"
  /\ UNCHANGED <<handle, armed, stream, allocated, flags, chunk, asmVars,
                 historyVars, session>>

StopFree ==
  /\ app = "Joined"
  /\ stream' = << >>
  /\ allocated' = FALSE
  /\ app' = "Off"
  /\ UNCHANGED <<handle, armed, flags, worker, chunk, asmVars, historyVars, session>>

(* Once it has been called, serial_stop runs to its end.                   *)
Stopping == StopFlag \/ StopJoin \/ StopFree

Next ==
  \/ \E ch \in {"Char", "LF", "CR"} : rx_isr(ch) \/ Missed(ch)
  \/ Worker
  \/ StartAcquire \/ StartThread \/ StartRx \/ StopRx
  \/ Stopping

(* The scheduler runs a thread that is ready, by and by.                   *)
Spec ==
  /\ Init
  /\ [][Next]_vars
  /\ WF_vars(Worker)
  /\ WF_vars(Stopping)

-----------------------------------------------------------------------------
(* Properties.                                                             *)

(* Every variable has its type, and no buffer holds more than it can: the  *)
(* line in assembly leaves room for its final NUL, and a chunk is fed to   *)
(* its end before the stream is looked at again.                           *)
TypeOK ==
  /\ app \in {"Off", "Acquired", "Threaded", "On", "RxOff", "Flagged", "Joined"}
  /\ {handle, armed, allocated, overflow} \subseteq BOOLEAN
  /\ Len(stream) <= StreamSize /\ Len(chunk) <= ChunkSize /\ Len(buf) < LineMax
  /\ flags \subseteq {"Data", "Stop"}
  /\ worker \in {"None", "Wait", "Drain", "Feed", "Done"}
  /\ worker = "Feed" <=> chunk # << >>

(* The interrupt and the worker never touch a stream or a thread that is   *)
(* not there, and nothing is left behind once the link is down: the order  *)
(* of the steps of serial_start and serial_stop.                           *)
NoDangling ==
  /\ armed => handle /\ allocated /\ worker \in {"Wait", "Drain", "Feed"}
  /\ worker \in {"Wait", "Drain", "Feed"} => allocated
  /\ app = "Off" => ~armed /\ ~handle /\ ~allocated /\ worker = "None"

(* The worker never goes to sleep on bytes: those that came in while it    *)
(* was emptying the stream, or after it found it empty, wake it up again.  *)
NoLostWakeup == worker = "Wait" /\ stream # << >> => flags # {}

(* A line that on_line is called with is a line as it was sent, whole and  *)
(* alone, unless a byte of a line in it was lost on the way.               *)
LinesIntact ==
  \A d \in Range(delivered) :
    \/ LinesOf(d) \cap damaged # {}
    \/ \E l \in DOMAIN lens :
         /\ Len(d) = lens[l]
         /\ \A k \in DOMAIN d : d[k].line = l /\ d[k].pos = k

(* No line is put together from two sessions: what one session left in the *)
(* assembler or the stream does not reach the next.                        *)
OwnSession ==
  \A d \in Range(delivered) :
    \A j, k \in DOMAIN d : d[j].session = d[k].session

Whole(l) ==
  /\ l < Line
  /\ l \notin damaged
  /\ l - 1 \notin unended
  /\ lens[l] \in 1 .. LineMax - 1

Deliveries(l) == {n \in DOMAIN delivered : l \in LinesOf(delivered[n])}

(* A loss is made good by the next newline: once the worker has caught up, *)
(* each line that lost nothing, fits, and follows a newline that was       *)
(* received has been handed on exactly once, and in order.                 *)
Resynchronized ==
  /\ worker = "Wait" /\ stream = << >> =>
       \A l \in DOMAIN lens : Whole(l) => Cardinality(Deliveries(l)) = 1
  /\ \A m, n \in DOMAIN delivered :
       m < n => \A l \in LinesOf(delivered[n]), k \in LinesOf(delivered[m]) : k <= l

(* A whole line received is handed on without waiting for another byte,    *)
(* unless the link is stopped first.                                       *)
LineHandedOn ==
  \A l \in 1 .. MaxBytes :
    (app = "On" /\ l \in DOMAIN lens /\ Whole(l))
      ~> (app # "On" \/ Deliveries(l) # {})

Port == INSTANCE WcSerialPort WITH
  link <- CASE app = "Off" -> "down"
            [] app \in {"RxOff", "Flagged", "Joined"} -> "closing"
            [] OTHER -> "up",
  lines <- delivered

(* The link implements the port the screens are written against: lines are *)
(* handed on one at a time and only while the link is up or closing, and a *)
(* call of stop returns.                                                   *)
ImplementsPort == Port!PortSpec
=============================================================================
