---------------------------- MODULE WcSerialPort ----------------------------
(***************************************************************************)
(* What the serial port promises the screens that use it (WcSerialPort):   *)
(* start opens the link, or changes nothing when it cannot; while the link *)
(* is open, and until stop returns, whole lines are handed to on_line one  *)
(* after another; stop returns, and afterwards on_line is not called.      *)
(***************************************************************************)
EXTENDS Integers, Sequences

CONSTANT LineMax   \* WC_LINE_MAX, the size of a line with its final NUL

VARIABLES
  link,    \* "down", "up", or "closing" while stop is running
  lines    \* the lines handed to on_line, in order

portVars == <<link, lines>>

PortInit ==
  /\ link = "down"
  /\ lines = << >>

Open ==
  /\ link = "down"
  /\ link' = "up"
  /\ UNCHANGED lines

(* One more line: never an empty one, never one that does not fit.         *)
OnLine ==
  /\ link # "down"
  /\ Len(lines') = Len(lines) + 1
  /\ SubSeq(lines', 1, Len(lines)) = lines
  /\ Len(lines'[Len(lines')]) \in 1 .. LineMax - 1
  /\ UNCHANGED link

Close ==
  /\ link = "up"
  /\ link' = "closing"
  /\ UNCHANGED lines

Closed ==
  /\ link = "closing"
  /\ link' = "down"
  /\ UNCHANGED lines

PortNext == Open \/ OnLine \/ Close \/ Closed

(* A call of stop returns.                                                 *)
PortSpec ==
  /\ PortInit
  /\ [][PortNext]_portVars
  /\ WF_portVars(Closed)
=============================================================================
