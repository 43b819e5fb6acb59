---------------------------- MODULE WcSerialProofs ----------------------------
(***************************************************************************)
(* For a stream, a chunk and a line of any size, any number of bytes and   *)
(* of sessions: the serial link (WcSerial) never touches what is not       *)
(* there, loses no wake-up, puts no line together from two sessions, hands *)
(* on lines as they were sent unless a byte was lost, takes up the text    *)
(* again at the next newline after a loss, and each of its steps is one of *)
(* the port the screens are written against, or none.                      *)
(***************************************************************************)
EXTENDS WcSerial, SequenceTheorems, FiniteSetTheorems, TLAPS

(* Where the application thread is tells what is allocated and whether     *)
(* there is a worker; the worker stops only when it is told to.            *)
LifeInv ==
  /\ app \in {"Off", "Acquired", "Threaded", "On", "RxOff", "Flagged", "Joined"}
  /\ worker \in {"None", "Wait", "Drain", "Feed", "Done"}
  /\ armed <=> app = "On"
  /\ handle <=> app \in {"Acquired", "Threaded", "On"}
  /\ allocated <=> app \in {"Threaded", "On", "RxOff", "Flagged", "Joined"}
  /\ worker = "None" <=> app \in {"Off", "Acquired", "Joined"}
  /\ worker = "Done" => app = "Flagged"
  /\ "Stop" \in flags => app \in {"Flagged", "Joined", "Off", "Acquired"}

(* The bytes of a session, and the lines that on_line may be given.        *)
BytesOf(n) == [ch : {"Char", "LF", "CR"}, line : Nat, pos : Nat, session : {n}]
Lines == {d \in UNION {Seq(BytesOf(n)) : n \in Nat} : Len(d) \in 1 .. LineMax - 1}

(* While there is a worker, what it has received is of the session that    *)
(* runs; what was left behind earlier nobody reads.                        *)
ReceivedInv ==
  worker # "None" =>
    /\ stream \in Seq(BytesOf(session))
    /\ chunk \in Seq(BytesOf(session))
    /\ buf \in Seq(BytesOf(session)) /\ Len(buf) < LineMax

LensInv == lens \in Seq(Nat) /\ Len(lens) > 0
LinesInv == session \in Nat /\ delivered \in Seq(Lines)

IInv == LifeInv /\ NoLostWakeup /\ ReceivedInv /\ LensInv /\ LinesInv

-----------------------------------------------------------------------------
(* The bytes.                                                              *)

LEMMA InitInv == Init => IInv
<1>1. << >> \in Seq(Lines) /\ <<0>> \in Seq(Nat) /\ Len(<<0>>) = 1
  BY EmptySeq
<1> QED BY <1>1
        DEF Init, IInv, LifeInv, NoLostWakeup, ReceivedInv, LensInv, LinesInv

LEMMA SendLens == ASSUME LensInv, NEW ch, Send(ch) PROVE LensInv'
<1>1. CASE lens' = [lens EXCEPT ![Line] = @ + 1]
  BY <1>1 DEF LensInv, Line
<1>2. CASE lens' = Append(lens, 0)
  BY <1>2, AppendProperties DEF LensInv
<1> QED BY <1>1, <1>2 DEF Send, LensInv

LEMMA ByteType ==
  ASSUME LensInv, NEW ch \in {"Char", "LF", "CR"}
  PROVE  Byte(ch) \in BytesOf(session)
<1>1. Line \in Nat /\ lens[Line] + 1 \in Nat
  BY DEF LensInv, Line
<1> QED BY <1>1 DEF Byte, BytesOf

(* All the bytes of a line handed on are of one session.                   *)
LEMMA LinesOfOneSession ==
  ASSUME NEW d \in Lines, NEW j \in DOMAIN d, NEW k \in DOMAIN d
  PROVE  d[j].session = d[k].session
<1> PICK n \in Nat : d \in Seq(BytesOf(n))
  BY DEF Lines
<1>1. d[j] \in BytesOf(n) /\ d[k] \in BytesOf(n)
  BY LenProperties, ElementOfSeq
<1> QED BY <1>1 DEF BytesOf

-----------------------------------------------------------------------------
(* Each action preserves the invariant.                                    *)

LEMMA IsrInv ==
  ASSUME IInv, NEW ch \in {"Char", "LF", "CR"}, rx_isr(ch)
  PROVE  IInv'
<1>1. LensInv'
  BY SendLens DEF rx_isr, IInv
<1>2. LifeInv'
  BY DEF rx_isr, IInv, LifeInv, appVars
<1>3. NoLostWakeup'
  BY DEF rx_isr, NoLostWakeup
<1>4. ReceivedInv'
  BY ByteType, AppendProperties DEF rx_isr, IInv, ReceivedInv, appVars, asmVars
<1>5. LinesInv'
  BY DEF rx_isr, IInv, LinesInv, appVars, asmVars
<1> QED BY <1>1, <1>2, <1>3, <1>4, <1>5 DEF IInv

LEMMA MissedInv ==
  ASSUME IInv, NEW ch, Missed(ch) PROVE IInv'
<1>1. LensInv'
  BY SendLens DEF Missed, IInv
<1> QED BY <1>1
        DEF Missed, IInv, LifeInv, NoLostWakeup, ReceivedInv, LinesInv, appVars, asmVars

LEMMA WorkerLoopInv ==
  ASSUME IInv, WorkerWake \/ WorkerReceive \/ WorkerDrained PROVE IInv'
<1> USE DEF IInv, LifeInv, NoLostWakeup, ReceivedInv, LensInv, LinesInv,
            appVars, asmVars, historyVars
<1>1. CASE WorkerWake
  BY <1>1 DEF WorkerWake
<1>2. CASE WorkerReceive
  <2> DEFINE n == IF Len(stream) < ChunkSize THEN Len(stream) ELSE ChunkSize
  <2>1. stream \in Seq(BytesOf(session)) /\ Len(stream) \in Nat
    BY <1>2 DEF WorkerReceive
  <2>2. n \in Nat /\ n <= Len(stream)
    BY <2>1, SerialAssumption
  <2>3. chunk' = SubSeq(stream, 1, n) /\ stream' = SubSeq(stream, n + 1, Len(stream))
    BY <1>2 DEF WorkerReceive
  <2> HIDE DEF n
  <2>4. \A i \in 1 .. Len(stream) : stream[i] \in BytesOf(session)
    BY <2>1
  <2>5. chunk' \in Seq(BytesOf(session)) /\ stream' \in Seq(BytesOf(session))
    BY <2>1, <2>2, <2>3, <2>4, SubSeqProperties
  <2> QED BY <1>2, <2>5 DEF WorkerReceive
<1>3. CASE WorkerDrained
  BY <1>3 DEF WorkerDrained
<1> QED BY <1>1, <1>2, <1>3

(* One byte fed to the assembler keeps the line in assembly to its session *)
(* and its size, and hands on lines that are neither empty nor too long.   *)
LEMMA FeedAsm ==
  ASSUME IInv, feed
  PROVE  /\ chunk' \in Seq(BytesOf(session))
         /\ buf' \in Seq(BytesOf(session)) /\ Len(buf') < LineMax
         /\ \/ UNCHANGED delivered
            \/ buf \in Lines /\ delivered' = Append(delivered, buf)
<1>1. /\ chunk \in Seq(BytesOf(session)) /\ chunk # << >>
      /\ buf \in Seq(BytesOf(session)) /\ Len(buf) < LineMax /\ session \in Nat
  BY DEF feed, IInv, ReceivedInv, LinesInv
<1>2. Len(buf) \in Nat /\ (buf # << >> => Len(buf) > 0) /\ LineMax \in Nat /\ LineMax > 1
  BY <1>1, EmptySeq, SerialAssumption
<1>3. chunk' \in Seq(BytesOf(session)) /\ Head(chunk) \in BytesOf(session)
  BY <1>1, HeadTailProperties DEF feed
<1>4. CASE emit
  <2>1. buf' = << >> /\ << >> \in Seq(BytesOf(session)) /\ Len(<< >>) = 0
    BY <1>4, EmptySeq DEF emit
  <2>2. buf # << >> => buf \in Lines
    BY <1>1, <1>2 DEF Lines
  <2> QED BY <1>2, <1>3, <1>4, <2>1, <2>2 DEF emit
<1>5. CASE UNCHANGED asmVars
  BY <1>1, <1>3, <1>5 DEF asmVars
<1>6. CASE keep_char(Head(chunk))
  <2>1. CASE Len(buf) < LineMax - 1 /\ buf' = Append(buf, Head(chunk))
    BY <1>1, <1>2, <1>3, <1>6, <2>1, AppendProperties DEF keep_char
  <2>2. CASE UNCHANGED buf
    BY <1>1, <1>3, <1>6, <2>2 DEF keep_char
  <2> QED BY <1>6, <2>1, <2>2 DEF keep_char
<1> QED BY <1>4, <1>5, <1>6 DEF feed

LEMMA FeedInv == ASSUME IInv, feed PROVE IInv'
<1>1. ReceivedInv'
  BY FeedAsm DEF feed, IInv, ReceivedInv, appVars
<1>2. LinesInv'
  BY FeedAsm, AppendProperties DEF feed, IInv, LinesInv, appVars
<1>3. LifeInv' /\ NoLostWakeup' /\ LensInv'
  BY DEF feed, IInv, LifeInv, NoLostWakeup, LensInv, appVars, historyVars
<1> QED BY <1>1, <1>2, <1>3 DEF IInv

LEMMA StartInv == ASSUME IInv, StartAcquire \/ StartThread \/ StartRx PROVE IInv'
<1> USE DEF IInv, LifeInv, NoLostWakeup, ReceivedInv, LensInv, LinesInv, asmVars, historyVars
<1>1. CASE StartAcquire
  BY <1>1 DEF StartAcquire
<1>2. CASE StartThread
  BY <1>2, EmptySeq, SerialAssumption DEF StartThread
<1>3. CASE StartRx
  BY <1>3 DEF StartRx
<1> QED BY <1>1, <1>2, <1>3

LEMMA StopInv == ASSUME IInv, StopRx \/ Stopping PROVE IInv'
<1> USE DEF IInv, LifeInv, NoLostWakeup, ReceivedInv, LensInv, LinesInv, asmVars, historyVars
<1>1. CASE StopRx
  BY <1>1 DEF StopRx
<1>2. CASE StopFlag
  BY <1>2 DEF StopFlag
<1>3. CASE StopJoin
  BY <1>3 DEF StopJoin
<1>4. CASE StopFree
  BY <1>4, EmptySeq DEF StopFree
<1> QED BY <1>1, <1>2, <1>3, <1>4 DEF Stopping

LEMMA StepInv == IInv /\ [Next]_vars => IInv'
<1>1. ASSUME IInv, UNCHANGED vars PROVE IInv'
  BY <1>1 DEF vars, IInv, LifeInv, NoLostWakeup, ReceivedInv, LensInv, LinesInv
<1> QED BY <1>1, IsrInv, MissedInv, WorkerLoopInv, FeedInv, StartInv, StopInv
        DEF Next, Worker

(* The invariant holds in every interleaving of the interrupt, the worker  *)
(* and the application.                                                    *)
THEOREM Invariance == Spec => []IInv
BY InitInv, StepInv, PTL DEF Spec

-----------------------------------------------------------------------------
(* What follows from it.                                                   *)

(* The interrupt and the worker never touch a stream or a thread that is   *)
(* not there, and nothing is left behind once the link is down.            *)
THEOREM NeverDangling == Spec => []NoDangling
<1>1. IInv => NoDangling
  BY DEF IInv, LifeInv, NoDangling
<1> QED BY <1>1, Invariance, PTL

(* The worker never goes to sleep on bytes.                                *)
THEOREM NeverLosesWakeup == Spec => []NoLostWakeup
<1>1. IInv => NoLostWakeup
  BY DEF IInv
<1> QED BY <1>1, Invariance, PTL

(* No line is put together from two sessions.                              *)
THEOREM AlwaysOwnSession == Spec => []OwnSession
<1>1. ASSUME IInv PROVE OwnSession
  <2>1. \A n \in DOMAIN delivered : delivered[n] \in Lines
    BY <1>1, LenProperties, ElementOfSeq DEF IInv, LinesInv
  <2> QED BY <2>1, LinesOfOneSession DEF OwnSession, Range
<1> QED BY <1>1, Invariance, PTL

-----------------------------------------------------------------------------
(* Each step of the link is a step of the port or none.                    *)

LEMMA PortStarts == Init => Port!PortInit
BY DEF Init, Port!PortInit

LEMMA OneMore ==
  ASSUME NEW S, NEW s \in Seq(S), NEW e \in S
  PROVE  SubSeq(Append(s, e), 1, Len(s)) = s
<1> DEFINE longer == Append(s, e)
           prefix == SubSeq(longer, 1, Len(s))
<1>1. /\ longer \in Seq(S) /\ Len(longer) = Len(s) + 1 /\ Len(s) \in Nat
      /\ \A i \in 1 .. Len(s) : longer[i] = s[i]
  BY AppendProperties
<1>2. \A i \in 1 .. Len(s) : longer[i] \in S
  BY <1>1, ElementOfSeq
<1> HIDE DEF longer
<1>3. /\ prefix \in Seq(S) /\ Len(prefix) = Len(s)
      /\ \A i \in 1 .. Len(s) : prefix[i] = longer[i]
  BY <1>1, <1>2, SubSeqProperties
<1>4. prefix = s
  BY <1>1, <1>3, SeqEqual
<1> QED BY <1>4 DEF longer

LEMMA PortSteps == IInv /\ [Next]_vars => [Port!PortNext]_Port!portVars
<1> SUFFICES ASSUME IInv, [Next]_vars PROVE [Port!PortNext]_Port!portVars
  OBVIOUS
<1> USE DEF Port!PortNext, Port!portVars
<1>1. CASE feed
  <2>1. CASE UNCHANGED delivered
    BY <1>1, <2>1 DEF feed, appVars
  <2>2. CASE buf \in Lines /\ delivered' = Append(delivered, buf)
    <3>1. delivered \in Seq(Lines)
      BY DEF IInv, LinesInv
    <3>2. SubSeq(delivered', 1, Len(delivered)) = delivered
      BY <2>2, <3>1, OneMore
    <3>3. Len(delivered') = Len(delivered) + 1 /\ delivered'[Len(delivered')] = buf
      BY <2>2, <3>1, AppendProperties
    <3>4. Len(buf) \in 1 .. LineMax - 1
      BY <2>2 DEF Lines
    <3>5. app \in {"Threaded", "On", "RxOff", "Flagged"} /\ app' = app
      BY <1>1 DEF feed, appVars, IInv, LifeInv
    <3> QED BY <3>2, <3>3, <3>4, <3>5 DEF Port!OnLine
  <2> QED BY <1>1, <2>1, <2>2, FeedAsm
<1>2. CASE StartAcquire
  BY <1>2 DEF StartAcquire, asmVars, Port!Open
<1>3. CASE StopRx
  BY <1>3 DEF StopRx, asmVars, Port!Close
<1>4. CASE StopFree
  BY <1>4 DEF StopFree, asmVars, Port!Closed
<1>5. CASE StartThread \/ StartRx \/ StopFlag \/ StopJoin
  BY <1>5 DEF StartThread, StartRx, StopFlag, StopJoin, asmVars
<1>6. CASE WorkerWake \/ WorkerReceive \/ WorkerDrained \/ UNCHANGED vars
  BY <1>6 DEF WorkerWake, WorkerReceive, WorkerDrained, vars, appVars, asmVars
<1>7. CASE \E ch \in {"Char", "LF", "CR"} : rx_isr(ch) \/ Missed(ch)
  BY <1>7 DEF rx_isr, Missed, appVars, asmVars
<1> QED BY <1>1, <1>2, <1>3, <1>4, <1>5, <1>6, <1>7 DEF Next, Worker, Stopping

(* The link implements the safety of the port: on_line is called with one  *)
(* line at a time, never an empty one or one that does not fit, and only   *)
(* while the link is open or closing.  (That stop returns is liveness.)    *)
THEOREM ImplementsPortSafety == Spec => Port!PortInit /\ [][Port!PortNext]_(Port!portVars)
BY PortStarts, PortSteps, Invariance, PTL DEF Spec
-----------------------------------------------------------------------------
(* Lines arrive as they were sent.  The bytes in the assembler, the chunk  *)
(* and the stream are one piece of the text the board sends, up to the     *)
(* place it is sending at, broken only where a byte was lost; D stands for *)
(* the lines that lost one.                                                *)

Places == [line : Nat, pos : Nat]
Sending == [line |-> Line, pos |-> lens[Line] + 1]

(* The place of a byte, and that of the byte sent next.                    *)
At(b) == [line |-> b.line, pos |-> b.pos]
After(b) ==
  CASE b.ch = "Char" -> [line |-> b.line, pos |-> b.pos + 1]
    [] b.ch = "CR"   -> [line |-> b.line, pos |-> b.pos]
    [] OTHER         -> [line |-> b.line + 1, pos |-> 1]

(* The byte at p was due and the one at q came: either that is the same    *)
(* place, or the line of p lost a byte and so did the line of q, which is  *)
(* no earlier one, unless q is a place in F, at which a line may be taken  *)
(* up after a loss.                                                        *)
Follows(D, F, p, q) ==
  \/ q = p
  \/ p.line \in D /\ p.line <= q.line /\ (q.line \in D \/ q.pos \in F)

Through(p, s) == IF s = << >> THEN p ELSE After(s[Len(s)])
Linked(D, F, p, s) ==
  s # << >> =>
    /\ Follows(D, F, p, At(s[1]))
    /\ \A i \in 1 .. Len(s) - 1 : Follows(D, F, After(s[i]), At(s[i + 1]))

(* The line b in assembly, spoiled or not, when the byte at p is due.      *)
Exact(p, b) == p.pos = Len(b) + 1 /\ \A k \in DOMAIN b : b[k].line = p.line /\ b[k].pos = k
Assembled(D, p, b, spoiled) ==
  /\ \/ spoiled
     \/ LinesOf(b) \cap D # {}
     \/ Exact(p, b)
     \/ b = << >> /\ p.line \in D
  /\ spoiled \/ p.pos = 1 \/ p.line \in D \cup LinesOf(b)

PipeAt(p) ==
  /\ Assembled(damaged, p, buf, overflow)
  /\ Linked(damaged, {1}, p, chunk)
  /\ Linked(damaged, {1}, Through(p, chunk), stream)
  /\ Follows(damaged, {1}, Through(Through(p, chunk), stream), Sending)

(* A newline on its way ends a line as long as its place says.             *)
Ended(s) ==
  \A i \in DOMAIN s : s[i].ch = "LF" =>
    s[i].line \in 1 .. Len(lens) - 1 /\ s[i].pos = lens[s[i].line] + 1

Running == worker \in {"Wait", "Drain", "Feed"}

Intact(d) ==
  \/ LinesOf(d) \cap damaged # {}
  \/ \E l \in 1 .. Len(lens) - 1 :
       Len(d) = lens[l] /\ \A k \in DOMAIN d : d[k].line = l /\ d[k].pos = k

(* Without a worker nothing is on its way, and the line being sent has not *)
(* begun or has lost a byte: the next session starts from there.           *)
TextInv ==
  /\ Running => (\E p \in Places : PipeAt(p)) /\ Ended(chunk) /\ Ended(stream)
  /\ ~Running => lens[Line] = 0 \/ Line \in damaged
  /\ chunk # << >> => worker = "Feed"
  /\ \A n \in DOMAIN delivered : Intact(delivered[n])

LEMMA PlaceOfByte ==
  ASSUME NEW n, NEW b \in BytesOf(n)
  PROVE  At(b) \in Places /\ After(b) \in Places
BY DEF At, After, Places, BytesOf

LEMMA PlaceThrough ==
  ASSUME NEW n, NEW p \in Places, NEW s \in Seq(BytesOf(n))
  PROVE  Through(p, s) \in Places
<1>1. CASE s # << >>
  <2>1. s[Len(s)] \in BytesOf(n)
    BY <1>1, EmptySeq, LenProperties, ElementOfSeq
  <2> QED BY <1>1, <2>1, PlaceOfByte DEF Through
<1> QED BY <1>1 DEF Through

(* What is linked stays linked when more is lost.                          *)
LEMMA LossKeepsLinks ==
  ASSUME NEW D, NEW E, D \subseteq E, NEW F, NEW p, NEW s
  PROVE  /\ Linked(D, F, p, s) => Linked(E, F, p, s)
         /\ \A q : Follows(D, F, p, q) => Follows(E, F, p, q)
BY DEF Linked, Follows

LEMMA LossKeepsAssembled ==
  ASSUME NEW D, NEW E, D \subseteq E, NEW p, NEW b, NEW spoiled, Assembled(D, p, b, spoiled)
  PROVE  Assembled(E, p, b, spoiled)
<1>1. CASE LinesOf(b) \cap D # {}
  <2>1. LinesOf(b) \cap E # {}
    BY <1>1
  <2> QED BY <2>1 DEF Assembled
<1>2. CASE ~(LinesOf(b) \cap D # {})
  BY <1>2 DEF Assembled
<1> QED BY <1>1, <1>2

(* A byte is put behind the others, a chunk is cut off at the front, and   *)
(* one byte is taken from it.                                              *)
LEMMA LinkByte ==
  ASSUME NEW D, NEW F, NEW n, NEW p, NEW s \in Seq(BytesOf(n)), NEW b \in BytesOf(n),
         Linked(D, F, p, s), Follows(D, F, Through(p, s), At(b))
  PROVE  Linked(D, F, p, Append(s, b)) /\ Through(p, Append(s, b)) = After(b)
<1> DEFINE t == Append(s, b)
<1>1. /\ Len(s) \in Nat /\ Len(t) = Len(s) + 1 /\ t # << >> /\ t[Len(s) + 1] = b
      /\ \A i \in 1 .. Len(s) : t[i] = s[i]
      /\ s = << >> <=> Len(s) = 0
  BY AppendProperties, EmptySeq
<1> HIDE DEF t
<1>2. Through(p, t) = After(b)
  BY <1>1 DEF Through
<1>3. Follows(D, F, p, At(t[1]))
  <2>1. CASE s = << >>
    BY <1>1, <2>1 DEF Through
  <2>2. CASE s # << >>
    BY <1>1, <2>2 DEF Linked
  <2> QED BY <2>1, <2>2
<1>4. ASSUME NEW i \in 1 .. Len(t) - 1
      PROVE  Follows(D, F, After(t[i]), At(t[i + 1]))
  <2>1. i \in 1 .. Len(s) /\ s # << >> /\ t[i] = s[i]
    BY <1>1
  <2>2. CASE i = Len(s)
    BY <1>1, <2>1, <2>2 DEF Through
  <2>3. CASE i < Len(s)
    <3>1. i \in 1 .. Len(s) - 1 /\ i + 1 \in 1 .. Len(s)
      BY <1>1, <2>3
    <3>2. t[i + 1] = s[i + 1]
      BY <1>1, <3>1
    <3> QED BY <2>1, <3>1, <3>2 DEF Linked
  <2> QED BY <1>1, <2>1, <2>2, <2>3
<1>5. Linked(D, F, p, t)
  BY <1>3, <1>4 DEF Linked
<1> QED BY <1>2, <1>5 DEF t

LEMMA LinkCut ==
  ASSUME NEW D, NEW F, NEW n, NEW p, NEW s \in Seq(BytesOf(n)), NEW k \in 1 .. Len(s),
         Linked(D, F, p, s)
  PROVE  LET a == SubSeq(s, 1, k)
             c == SubSeq(s, k + 1, Len(s))
         IN  /\ Linked(D, F, p, a)
             /\ Linked(D, F, Through(p, a), c)
             /\ Through(Through(p, a), c) = Through(p, s)
<1> DEFINE a == SubSeq(s, 1, k)
           c == SubSeq(s, k + 1, Len(s))
<1>1. /\ Len(s) \in Nat /\ s # << >> /\ k \in Nat /\ k >= 1 /\ k <= Len(s)
      /\ \A i \in 1 .. Len(s) : s[i] \in BytesOf(n)
  BY EmptySeq, ElementOfSeq, LenProperties
<1>2. Len(a) = k /\ a # << >> /\ \A i \in 1 .. k : a[i] = s[i]
  BY <1>1, SubSeqProperties, EmptySeq
<1>3. /\ Len(c) = Len(s) - k
      /\ \A i \in 1 .. Len(s) - k : c[i] = s[k + i]
      /\ c = << >> <=> k = Len(s)
  <2>1. CASE k = Len(s)
    BY <1>1, <2>1, SubSeqProperties, EmptySeq
  <2>2. CASE k < Len(s)
    <3>1. k + 1 \in 1 .. Len(s) + 1 /\ Len(s) \in k .. Len(s)
      BY <1>1, <2>2
    <3>2. Len(c) = Len(s) - k /\ \A i \in 1 .. Len(s) - k : c[i] = s[k + i]
      BY <1>1, <2>2, <3>1, SubSeqProperties
    <3>3. c \in Seq(BytesOf(n))
      BY <1>1, <3>1, SubSeqProperties
    <3>4. c # << >>
      <4>1. Len(c) # 0
        BY <1>1, <2>2, <3>2
      <4> HIDE DEF c
      <4> QED BY <3>3, <4>1, EmptySeq
    <3> QED BY <1>1, <2>2, <3>2, <3>4
  <2> QED BY <1>1, <2>1, <2>2
<1> HIDE DEF a, c
<1>4. Linked(D, F, p, a) /\ Through(p, a) = After(s[k])
  BY <1>1, <1>2 DEF Linked, Through
<1>5. Linked(D, F, After(s[k]), c)
  <2> SUFFICES ASSUME c # << >>
               PROVE  /\ Follows(D, F, After(s[k]), At(c[1]))
                      /\ \A i \in 1 .. Len(c) - 1 : Follows(D, F, After(c[i]), At(c[i + 1]))
    BY DEF Linked
  <2>1. k \in 1 .. Len(s) - 1 /\ c[1] = s[k + 1]
    BY <1>1, <1>3
  <2>2. ASSUME NEW i \in 1 .. Len(c) - 1
        PROVE  Follows(D, F, After(c[i]), At(c[i + 1]))
    <3>1. /\ i \in 1 .. Len(s) - k /\ i + 1 \in 1 .. Len(s) - k
          /\ k + i \in 1 .. Len(s) - 1 /\ k + (i + 1) = (k + i) + 1
      BY <1>1, <1>3
    <3>2. c[i] = s[k + i] /\ c[i + 1] = s[(k + i) + 1]
      BY <1>3, <3>1
    <3> QED BY <1>1, <3>1, <3>2 DEF Linked
  <2> QED BY <1>1, <2>1, <2>2 DEF Linked
<1>6. Through(After(s[k]), c) = Through(p, s)
  <2>1. CASE k = Len(s)
    BY <1>1, <1>3, <2>1 DEF Through
  <2>2. CASE k < Len(s)
    <3>1. Len(s) - k \in 1 .. Len(s) - k /\ k + (Len(s) - k) = Len(s)
      BY <1>1, <2>2
    <3>2. c[Len(c)] = s[Len(s)]
      BY <1>3, <3>1
    <3> QED BY <1>1, <1>3, <2>2, <3>2 DEF Through
  <2> QED BY <1>1, <2>1, <2>2
<1> QED BY <1>4, <1>5, <1>6 DEF a, c

LEMMA LinkHead ==
  ASSUME NEW D, NEW F, NEW n, NEW p, NEW s \in Seq(BytesOf(n)), s # << >>, Linked(D, F, p, s)
  PROVE  /\ Follows(D, F, p, At(Head(s)))
         /\ Linked(D, F, After(Head(s)), Tail(s))
         /\ Through(After(Head(s)), Tail(s)) = Through(p, s)
<1>1. /\ Len(s) \in Nat /\ Len(s) > 0 /\ Head(s) = s[1] /\ Head(s) \in BytesOf(n)
      /\ Tail(s) \in Seq(BytesOf(n)) /\ Len(Tail(s)) = Len(s) - 1
      /\ \A i \in 1 .. Len(Tail(s)) : Tail(s)[i] = s[i + 1]
      /\ Tail(s) = << >> <=> Len(s) = 1
  <2>1. /\ Len(s) \in Nat /\ Len(s) > 0 /\ Head(s) = s[1] /\ Head(s) \in BytesOf(n)
        /\ Tail(s) \in Seq(BytesOf(n)) /\ Len(Tail(s)) = Len(s) - 1
    BY HeadTailProperties, EmptySeq
  <2>2. \A i \in 1 .. Len(Tail(s)) : Tail(s)[i] = s[i + 1]
    BY HeadTailProperties
  <2>3. Tail(s) = << >> <=> Len(s) = 1
    BY <2>1, EmptySeq
  <2> QED BY <2>1, <2>2, <2>3
<1>2. Follows(D, F, p, At(Head(s)))
  BY <1>1 DEF Linked
<1>3. ASSUME NEW i \in 1 .. Len(Tail(s)) - 1
      PROVE  Follows(D, F, After(Tail(s)[i]), At(Tail(s)[i + 1]))
  <2>1. i \in 1 .. Len(Tail(s)) /\ i + 1 \in 1 .. Len(Tail(s)) /\ i + 1 \in 1 .. Len(s) - 1
    BY <1>1
  <2>2. Tail(s)[i] = s[i + 1] /\ Tail(s)[i + 1] = s[(i + 1) + 1]
    BY <1>1, <2>1
  <2> QED BY <2>1, <2>2 DEF Linked
<1>4. Tail(s) # << >> => Follows(D, F, After(Head(s)), At(Tail(s)[1]))
  BY <1>1 DEF Linked
<1>5. Through(After(Head(s)), Tail(s)) = Through(p, s)
  BY <1>1 DEF Through
<1> QED BY <1>2, <1>3, <1>4, <1>5 DEF Linked

(* The assembler, given the byte c where the one at p was due.             *)
LEMMA LinesWithByte ==
  ASSUME NEW n, NEW b \in Seq(BytesOf(n)), NEW c \in BytesOf(n)
  PROVE  LinesOf(Append(b, c)) = LinesOf(b) \cup {c.line}
<1> DEFINE t == Append(b, c)
<1>1. /\ Len(b) \in Nat /\ DOMAIN b = 1 .. Len(b) /\ DOMAIN t = 1 .. Len(b) + 1
      /\ t[Len(b) + 1] = c /\ \A i \in 1 .. Len(b) : t[i] = b[i]
  BY AppendProperties, LenProperties
<1>2. DOMAIN t = DOMAIN b \cup {Len(b) + 1}
  BY <1>1
<1> HIDE DEF t
<1>3. LinesOf(t) = LinesOf(b) \cup {c.line}
  BY <1>1, <1>2 DEF LinesOf
<1> QED BY <1>3 DEF t

LEMMA LineOfByte ==
  ASSUME NEW n, NEW b \in Seq(BytesOf(n)), NEW D, NEW p \in Places,
         b # << >>, Exact(p, b), p.line \in D
  PROVE  LinesOf(b) \cap D # {}
<1>1. 1 \in DOMAIN b
  BY EmptySeq, LenProperties
<1>2. p.line \in LinesOf(b)
  BY <1>1 DEF LinesOf, Exact
<1> QED BY <1>2

LEMMA AssembleChar ==
  ASSUME NEW D, NEW n, NEW p \in Places, NEW b \in Seq(BytesOf(n)), NEW spoiled,
         NEW c \in BytesOf(n), c.ch = "Char",
         Assembled(D, p, b, spoiled), Follows(D, {1}, p, At(c))
  PROVE  Assembled(D, After(c), Append(b, c), spoiled)
<1> DEFINE t == Append(b, c)
<1>1. /\ Len(b) \in Nat /\ DOMAIN b = 1 .. Len(b)
      /\ t # << >> /\ Len(t) = Len(b) + 1 /\ DOMAIN t = 1 .. Len(b) + 1
      /\ t[Len(b) + 1] = c /\ \A i \in 1 .. Len(b) : t[i] = b[i]
      /\ b = << >> <=> Len(b) = 0
  BY AppendProperties, LenProperties, EmptySeq
<1>2. LinesOf(t) = LinesOf(b) \cup {c.line}
  BY LinesWithByte
<1>3. At(c) = [line |-> c.line, pos |-> c.pos] /\ After(c) = [line |-> c.line, pos |-> c.pos + 1]
  BY DEF At, After
<1>4. c.line \in Nat /\ c.pos \in Nat /\ p.line \in Nat /\ p.pos \in Nat
  BY DEF BytesOf, Places
<1> HIDE DEF t
<1>5. ASSUME ~spoiled, LinesOf(t) \cap D = {}
      PROVE  Exact(After(c), t)
  <2>1. c.line \notin D /\ LinesOf(b) \cap D = {}
    BY <1>2, <1>5
  <2>2. CASE At(c) = p /\ Exact(p, b)
    <3>1. c.line = p.line /\ c.pos = Len(b) + 1 /\ After(c).line = c.line /\ After(c).pos = c.pos + 1
      BY <1>3, <1>4, <2>2 DEF Exact
    <3>2. ASSUME NEW k \in DOMAIN t PROVE t[k].line = c.line /\ t[k].pos = k
      BY <1>1, <2>2, <3>1 DEF Exact
    <3> QED BY <1>1, <3>1, <3>2 DEF Exact
  <2>3. CASE b = << >> /\ c.pos = 1
    <3>1. DOMAIN t = {1} /\ t[1] = c /\ Len(t) = 1 /\ After(c).line = c.line /\ After(c).pos = 2
      BY <1>1, <1>3, <1>4, <2>3
    <3> QED BY <2>3, <3>1 DEF Exact
  <2>4. CASE p.line \in D /\ c.pos = 1
    <3>1. b = << >>
      BY <1>5, <2>1, <2>4, LineOfByte DEF Assembled
    <3> QED BY <2>3, <2>4, <3>1
  <2>5. \/ At(c) = p
        \/ p.line \in D /\ c.pos = 1
    BY <1>3, <2>1 DEF Follows
  <2>6. CASE At(c) = p
    <3>1. p.line \notin D
      BY <1>3, <2>1, <2>6
    <3>2. Exact(p, b)
      BY <1>5, <2>1, <3>1 DEF Assembled
    <3> QED BY <2>2, <2>6, <3>2
  <2> QED BY <2>4, <2>5, <2>6
<1>6. After(c).line \in LinesOf(t)
  BY <1>2, <1>3
<1> QED BY <1>5, <1>6 DEF Assembled, t

LEMMA AssembleSpoiled ==
  ASSUME NEW D, NEW p, NEW b PROVE Assembled(D, p, b, TRUE)
BY DEF Assembled

LEMMA AssembleReturn ==
  ASSUME NEW D, NEW n, NEW p \in Places, NEW b \in Seq(BytesOf(n)), NEW spoiled,
         NEW c \in BytesOf(n), c.ch = "CR",
         Assembled(D, p, b, spoiled), Follows(D, {1}, p, At(c))
  PROVE  Assembled(D, After(c), b, spoiled)
<1>1. After(c) = At(c)
  BY DEF At, After
<1>2. CASE At(c) = p
  BY <1>1, <1>2
<1>3. CASE p.line \in D /\ (At(c).pos = 1 \/ At(c).line \in D)
  <2>1. spoiled \/ LinesOf(b) \cap D # {} \/ b = << >>
    BY <1>3, LineOfByte DEF Assembled
  <2>2. b = << >> /\ At(c).pos = 1 => Exact(At(c), b)
    BY EmptySeq DEF Exact
  <2> QED BY <1>1, <1>3, <2>1, <2>2 DEF Assembled
<1> QED BY <1>2, <1>3 DEF Follows

LEMMA AssembleNewline ==
  ASSUME NEW D, NEW c, c.ch = "LF"
  PROVE  Assembled(D, After(c), << >>, FALSE)
BY DEF Assembled, Exact, After

LEMMA EndsExact ==
  ASSUME NEW D, NEW n, NEW p \in Places, NEW b \in Seq(BytesOf(n)), NEW c,
         Assembled(D, p, b, FALSE), Follows(D, {1}, p, At(c)),
         b # << >>, LinesOf(b) \cap D = {}
  PROVE  Exact(At(c), b)
<1>1. Exact(p, b)
  BY DEF Assembled
<1>2. At(c) = p
  BY <1>1, LineOfByte DEF Follows
<1> QED BY <1>1, <1>2

-----------------------------------------------------------------------------
(* The board sends.                                                        *)

LEMMA SendingMoves ==
  ASSUME LensInv, NEW ch \in {"Char", "LF", "CR"}, Send(ch)
  PROVE  /\ Sending = At(Byte(ch)) /\ Sending' = After(Byte(ch)) /\ Sending \in Places
         /\ Byte(ch).ch = ch /\ Byte(ch).line = Line /\ Byte(ch).pos = lens[Line] + 1
         /\ Len(lens) <= Len(lens')
         /\ \A l \in 1 .. Len(lens) - 1 : lens'[l] = lens[l]
         /\ ch = "LF" => Line \in 1 .. Len(lens') - 1 /\ lens'[Line] = lens[Line]
         /\ ch = "CR" => Sending' = Sending
<1>1. /\ lens \in Seq(Nat) /\ Len(lens) \in Nat /\ Line = Len(lens) /\ Line > 0
      /\ lens[Line] \in Nat
  BY DEF LensInv, Line
<1>2. /\ Sending = At(Byte(ch)) /\ Sending \in Places
      /\ Byte(ch).ch = ch /\ Byte(ch).line = Line /\ Byte(ch).pos = lens[Line] + 1
  BY <1>1 DEF Sending, At, Byte, Places
<1>3. CASE ch = "Char"
  <2>1. lens' = [lens EXCEPT ![Line] = @ + 1]
    BY <1>3 DEF Send
  <2>2. /\ Len(lens') = Len(lens) /\ lens'[Line] = lens[Line] + 1
        /\ \A l \in 1 .. Len(lens) - 1 : lens'[l] = lens[l]
    BY <1>1, <2>1
  <2>3. Sending' = After(Byte(ch))
    BY <1>1, <1>2, <1>3, <2>2 DEF Sending, After, Line
  <2> QED BY <1>1, <1>2, <1>3, <2>2, <2>3
<1>4. CASE ch = "LF"
  <2>1. lens' = Append(lens, 0)
    BY <1>4 DEF Send
  <2>2. /\ Len(lens') = Len(lens) + 1 /\ lens'[Len(lens) + 1] = 0
        /\ \A l \in 1 .. Len(lens) : lens'[l] = lens[l]
    BY <1>1, <2>1, AppendProperties
  <2>3. Sending' = After(Byte(ch))
    BY <1>1, <1>2, <1>4, <2>2 DEF Sending, After, Line
  <2> QED BY <1>1, <1>2, <1>4, <2>2, <2>3
<1>5. CASE ch = "CR"
  <2>1. lens' = lens
    BY <1>5 DEF Send
  <2>2. Sending' = Sending
    BY <2>1 DEF Sending, Line
  <2>3. Sending = After(Byte(ch))
    BY <1>2, <1>5 DEF Sending, After
  <2> QED BY <1>1, <1>2, <1>5, <2>1, <2>2, <2>3
<1> QED BY <1>3, <1>4, <1>5

(* A byte that is lost leaves its line among those that lost one.          *)
LEMMA LostByte ==
  ASSUME LensInv, NEW ch \in {"Char", "LF", "CR"}, Send(ch),
         damaged' = IF ch = "CR" THEN damaged ELSE damaged \cup {Line}
  PROVE  /\ damaged \subseteq damaged'
         /\ \A q \in Places : Follows(damaged, {1}, q, Sending) => Follows(damaged', {1}, q, Sending')
         /\ lens[Line] = 0 \/ Line \in damaged => (lens[Line] = 0 \/ Line \in damaged)'
<1>1. /\ Sending = At(Byte(ch)) /\ Sending' = After(Byte(ch))
      /\ Byte(ch).ch = ch /\ Byte(ch).line = Line
      /\ ch = "CR" => Sending' = Sending
  BY SendingMoves
<1>2. /\ Sending.line = Line /\ Sending.pos = lens[Line] + 1
      /\ Sending'.line = Line' /\ Sending'.pos = lens'[Line'] + 1
  BY DEF Sending
<1>3. Line \in Nat
  BY LenProperties DEF LensInv, Line
<1>4. CASE ch # "CR"
  <2>1. /\ damaged' = damaged \cup {Line}
        /\ Sending'.line = Line \/ (Sending'.line = Line + 1 /\ Sending'.pos = 1)
    BY <1>1, <1>4 DEF After
  <2>2. ASSUME NEW q \in Places, Follows(damaged, {1}, q, Sending)
        PROVE  Follows(damaged', {1}, q, Sending')
    <3>1. q.line \in damaged' /\ q.line \in Nat /\ q.line <= Line
      BY <1>2, <1>3, <2>1, <2>2 DEF Follows, Places
    <3>2. q.line <= Sending'.line
      BY <1>3, <2>1, <3>1
    <3> QED BY <2>1, <3>1, <3>2 DEF Follows
  <2>3. lens'[Line'] = 0 \/ Line' \in damaged'
    <3>1. CASE ch = "Char"
      BY <1>1, <1>2, <2>1, <3>1 DEF After
    <3>2. CASE ch = "LF"
      BY <3>2, AppendProperties DEF Send, LensInv, Line
    <3> QED BY <1>4, <3>1, <3>2
  <2> QED BY <2>1, <2>2, <2>3
<1>5. CASE ch = "CR"
  <2>1. Sending' = Sending /\ damaged' = damaged
    BY <1>1, <1>5
  <2>2. lens' = lens /\ Line' = Line
    BY <1>5 DEF Send, Line
  <2> QED BY <2>1, <2>2
<1> QED BY <1>4, <1>5

(* What was handed on, and the newlines on their way, are not disturbed.   *)
LEMMA SendKeepsEnded ==
  ASSUME LensInv, NEW ch \in {"Char", "LF", "CR"}, Send(ch), NEW n, NEW s \in Seq(BytesOf(n)),
         Ended(s)
  PROVE  \A i \in DOMAIN s : s[i].ch = "LF" =>
           s[i].line \in 1 .. Len(lens') - 1 /\ s[i].pos = lens'[s[i].line] + 1
<1>1. /\ Len(lens) \in Nat /\ Len(lens') \in Nat /\ Len(lens) <= Len(lens')
      /\ \A l \in 1 .. Len(lens) - 1 : lens'[l] = lens[l]
  BY SendingMoves, SendLens DEF LensInv
<1> QED BY <1>1 DEF Ended

LEMMA SendKeepsIntact ==
  ASSUME LensInv, NEW ch \in {"Char", "LF", "CR"}, Send(ch), damaged \subseteq damaged',
         UNCHANGED delivered,
         \A m \in DOMAIN delivered : Intact(delivered[m])
  PROVE  (\A m \in DOMAIN delivered : Intact(delivered[m]))'
<1>1. /\ Len(lens) \in Nat /\ Len(lens') \in Nat /\ Len(lens) <= Len(lens')
      /\ \A l \in 1 .. Len(lens) - 1 : lens'[l] = lens[l]
  BY SendingMoves, SendLens DEF LensInv
<1>2. ASSUME NEW m \in DOMAIN delivered, LinesOf(delivered[m]) \cap damaged # {}
      PROVE  LinesOf(delivered[m]) \cap damaged' # {}
  BY <1>2
<1>3. ASSUME NEW m \in DOMAIN delivered,
             NEW l \in 1 .. Len(lens) - 1, Len(delivered[m]) = lens[l],
             \A k \in DOMAIN delivered[m] : delivered[m][k].line = l /\ delivered[m][k].pos = k
      PROVE  l \in 1 .. Len(lens') - 1 /\ Len(delivered[m]) = lens'[l]
  BY <1>1, <1>3
<1> QED BY <1>2, <1>3 DEF Intact

LEMMA IsrText ==
  ASSUME IInv, TextInv, NEW ch \in {"Char", "LF", "CR"}, rx_isr(ch)
  PROVE  TextInv'
<1>1. /\ LensInv /\ Send(ch) /\ Running /\ Running'
      /\ UNCHANGED <<chunk, buf, overflow, delivered, worker, session>>
      /\ stream \in Seq(BytesOf(session)) /\ chunk \in Seq(BytesOf(session))
      /\ Byte(ch) \in BytesOf(session)
  BY ByteType DEF rx_isr, IInv, LifeInv, ReceivedInv, Running, appVars, asmVars
<1> PICK p \in Places : PipeAt(p)
  BY <1>1 DEF TextInv
<1> DEFINE q == Through(p, chunk)
<1>2. Sending = At(Byte(ch)) /\ Sending' = After(Byte(ch))
  BY <1>1, SendingMoves
<1>3. CASE stream' = Append(stream, Byte(ch)) /\ UNCHANGED damaged
  <2>1. Linked(damaged, {1}, q, stream) /\ Follows(damaged, {1}, Through(q, stream), Sending)
    BY DEF PipeAt
  <2> HIDE DEF q
  <2>2. Linked(damaged, {1}, q, stream') /\ Through(q, stream') = Sending'
    BY <1>1, <1>2, <1>3, <2>1, LinkByte
  <2>3. Follows(damaged', {1}, Through(q, stream'), Sending')
    BY <2>2 DEF Follows
  <2>4. PipeAt(p)'
    BY <1>1, <1>3, <2>2, <2>3 DEF PipeAt, q
  <2>5. Ended(chunk)'
    BY <1>1, SendKeepsEnded DEF TextInv, Ended
  <2>6. Ended(stream)'
    <3>1. \A i \in DOMAIN stream : stream[i].ch = "LF" =>
            stream[i].line \in 1 .. Len(lens') - 1 /\ stream[i].pos = lens'[stream[i].line] + 1
      BY <1>1, SendKeepsEnded DEF TextInv
    <3>2. Byte(ch).ch = "LF" =>
            Byte(ch).line \in 1 .. Len(lens') - 1 /\ Byte(ch).pos = lens'[Byte(ch).line] + 1
      BY <1>1, SendingMoves
    <3>3. /\ DOMAIN stream = 1 .. Len(stream) /\ DOMAIN stream' = 1 .. Len(stream) + 1
          /\ Len(stream) \in Nat /\ stream'[Len(stream) + 1] = Byte(ch)
          /\ \A i \in 1 .. Len(stream) : stream'[i] = stream[i]
      BY <1>1, <1>3, AppendProperties, LenProperties
    <3>4. ASSUME NEW i \in DOMAIN stream', stream'[i].ch = "LF"
          PROVE  stream'[i].line \in 1 .. Len(lens') - 1 /\ stream'[i].pos = lens'[stream'[i].line] + 1
      <4>1. CASE i = Len(stream) + 1
        BY <3>2, <3>3, <3>4, <4>1
      <4>2. CASE i # Len(stream) + 1
        <5>1. i \in DOMAIN stream /\ stream'[i] = stream[i]
          BY <3>3, <4>2
        <5> QED BY <3>1, <3>4, <5>1
      <4> QED BY <4>1, <4>2
    <3> QED BY <3>4 DEF Ended
  <2>7. (\A m \in DOMAIN delivered : Intact(delivered[m]))'
    BY <1>1, <1>3, SendKeepsIntact DEF TextInv
  <2> QED BY <1>1, <2>4, <2>5, <2>6, <2>7 DEF TextInv
<1>4. CASE stream' = stream /\ damaged' = IF ch = "CR" THEN damaged ELSE damaged \cup {Line}
  <2>1. /\ damaged \subseteq damaged'
        /\ Follows(damaged', {1}, Through(q, stream), Sending')
    <3>1. Through(q, stream) \in Places
      BY <1>1, PlaceThrough
    <3> QED BY <1>1, <1>4, <3>1, LostByte DEF PipeAt
  <2>2. /\ Assembled(damaged', p, buf, overflow)
        /\ Linked(damaged', {1}, p, chunk) /\ Linked(damaged', {1}, q, stream)
    BY <2>1, LossKeepsLinks, LossKeepsAssembled DEF PipeAt
  <2>3. PipeAt(p)'
    BY <1>1, <1>4, <2>1, <2>2 DEF PipeAt
  <2>4. Ended(chunk)' /\ Ended(stream)'
    BY <1>1, <1>4, SendKeepsEnded DEF TextInv, Ended
  <2>5. (\A m \in DOMAIN delivered : Intact(delivered[m]))'
    BY <1>1, <2>1, SendKeepsIntact DEF TextInv
  <2> QED BY <1>1, <2>3, <2>4, <2>5 DEF TextInv
<1> QED BY <1>3, <1>4 DEF rx_isr

LEMMA MissedText ==
  ASSUME IInv, TextInv, NEW ch \in {"Char", "LF", "CR"}, Missed(ch)
  PROVE  TextInv'
<1>1. /\ LensInv /\ Send(ch) /\ (Running <=> Running')
      /\ UNCHANGED <<chunk, stream, buf, overflow, delivered, worker, session>>
      /\ damaged' = IF ch = "CR" THEN damaged ELSE damaged \cup {Line}
  BY DEF Missed, IInv, Running, appVars, asmVars
<1>2. damaged \subseteq damaged'
  BY <1>1
<1>3. (\A m \in DOMAIN delivered : Intact(delivered[m]))'
  BY <1>1, <1>2, SendKeepsIntact DEF TextInv
<1>4. CASE Running
  <2> PICK p \in Places : PipeAt(p)
    BY <1>4 DEF TextInv
  <2>1. Follows(damaged', {1}, Through(Through(p, chunk), stream), Sending')
    <3>1. Through(Through(p, chunk), stream) \in Places
      BY <1>4, PlaceThrough DEF IInv, ReceivedInv, Running
    <3> QED BY <1>1, <3>1, LostByte DEF PipeAt
  <2>2. /\ Assembled(damaged', p, buf, overflow)
        /\ Linked(damaged', {1}, p, chunk) /\ Linked(damaged', {1}, Through(p, chunk), stream)
    BY <1>2, LossKeepsLinks, LossKeepsAssembled DEF PipeAt
  <2>3. PipeAt(p)'
    BY <1>1, <2>1, <2>2 DEF PipeAt
  <2>4. stream \in Seq(BytesOf(session)) /\ chunk \in Seq(BytesOf(session))
    BY <1>4 DEF IInv, ReceivedInv, Running
  <2>5. Ended(chunk)' /\ Ended(stream)'
    BY <1>1, <1>4, <2>4, SendKeepsEnded DEF TextInv, Ended
  <2> QED BY <1>1, <1>3, <1>4, <2>3, <2>5 DEF TextInv
<1>5. CASE ~Running
  BY <1>1, <1>3, <1>5, LostByte DEF TextInv
<1> QED BY <1>4, <1>5

-----------------------------------------------------------------------------
(* The worker.                                                             *)

(* A worker that is told to stop gives up what is on its way: the line     *)
(* being sent has not begun, or it is among the lines that lost a byte.    *)
LEMMA GivenUp ==
  ASSUME IInv, TextInv, worker = "Wait",
         damaged' = damaged \cup LinesOf(stream) \cup LinesOf(buf)
                      \cup (IF overflow THEN {Line} ELSE {})
  PROVE  lens[Line] = 0 \/ Line \in damaged'
<1>1. /\ Running /\ chunk = << >> /\ stream \in Seq(BytesOf(session))
      /\ Sending.line = Line /\ Sending.pos = lens[Line] + 1 /\ lens[Line] \in Nat
  BY DEF TextInv, Running, IInv, ReceivedInv, Sending, Line, LensInv
<1> PICK p \in Places : PipeAt(p)
  BY <1>1 DEF TextInv
<1>2. Follows(damaged, {1}, Through(p, stream), Sending) /\ Assembled(damaged, p, buf, overflow)
  BY <1>1 DEF PipeAt, Through
<1>3. CASE Through(p, stream) # Sending
  BY <1>1, <1>2, <1>3 DEF Follows
<1>4. CASE Through(p, stream) = Sending /\ stream = << >>
  BY <1>1, <1>2, <1>4 DEF Through, Assembled
<1>5. CASE Through(p, stream) = Sending /\ stream # << >>
  <2> DEFINE b == stream[Len(stream)]
  <2>1. After(b) = Sending /\ Len(stream) \in DOMAIN stream /\ b \in BytesOf(session)
    BY <1>1, <1>5, EmptySeq, LenProperties, ElementOfSeq DEF Through
  <2>2. b.line \in damaged'
    BY <2>1 DEF LinesOf
  <2>3. CASE b.ch = "LF"
    BY <1>1, <2>1, <2>3 DEF After
  <2>4. CASE b.ch # "LF"
    <3>1. After(b).line = b.line
      BY <2>1, <2>4 DEF After, BytesOf
    <3> QED BY <1>1, <2>1, <2>2, <3>1
  <2> QED BY <2>3, <2>4
<1> QED BY <1>3, <1>4, <1>5

LEMMA WakeText == ASSUME IInv, TextInv, WorkerWake PROVE TextInv'
<1>1. /\ worker = "Wait" /\ chunk = << >> /\ damaged \subseteq damaged'
      /\ UNCHANGED <<stream, chunk, buf, overflow, delivered, lens>>
  BY DEF WorkerWake, TextInv, asmVars
<1>2. Line' = Line /\ Sending' = Sending
  BY <1>1 DEF Line, Sending
<1>3. (\A m \in DOMAIN delivered : Intact(delivered[m]))'
  <2>1. ASSUME NEW m \in DOMAIN delivered PROVE Intact(delivered[m])'
    <3>1. CASE LinesOf(delivered[m]) \cap damaged # {}
      <4>1. LinesOf(delivered[m]) \cap damaged' # {}
        BY <1>1, <3>1
      <4> QED BY <1>1, <4>1 DEF Intact
    <3>2. CASE ~(LinesOf(delivered[m]) \cap damaged # {})
      BY <1>1, <3>2 DEF Intact, TextInv
    <3> QED BY <3>1, <3>2
  <2> QED BY <1>1, <2>1
<1>4. CASE worker' = "Done"
  <2>1. lens[Line] = 0 \/ Line \in damaged'
    BY <1>1, <1>4, GivenUp DEF WorkerWake
  <2> QED BY <1>1, <1>2, <1>3, <1>4, <2>1 DEF TextInv, Running
<1>5. CASE worker' = "Drain" /\ UNCHANGED damaged
  <2>1. (\E p \in Places : PipeAt(p))'
    BY <1>1, <1>2, <1>5 DEF TextInv, PipeAt, Running
  <2>2. Ended(chunk)' /\ Ended(stream)'
    BY <1>1 DEF TextInv, Ended, Running
  <2> QED BY <1>1, <1>3, <1>5, <2>1, <2>2 DEF TextInv, Running
<1> QED BY <1>4, <1>5 DEF WorkerWake

LEMMA ReceiveText == ASSUME IInv, TextInv, WorkerReceive PROVE TextInv'
<1> DEFINE n == IF Len(stream) < ChunkSize THEN Len(stream) ELSE ChunkSize
<1>1. /\ worker = "Drain" /\ worker' = "Feed" /\ chunk = << >> /\ stream # << >>
      /\ stream \in Seq(BytesOf(session))
      /\ UNCHANGED <<buf, overflow, delivered, lens, damaged, session>>
      /\ chunk' = SubSeq(stream, 1, n) /\ stream' = SubSeq(stream, n + 1, Len(stream))
  BY DEF WorkerReceive, TextInv, IInv, ReceivedInv, appVars, asmVars, historyVars
<1>2. n \in 1 .. Len(stream) /\ Len(stream) \in Nat
  BY <1>1, EmptySeq, SerialAssumption
<1> HIDE DEF n
<1>3. Line' = Line /\ Sending' = Sending
  BY <1>1 DEF Line, Sending
<1> PICK p \in Places : PipeAt(p)
  BY <1>1 DEF TextInv, Running
<1>4. Linked(damaged, {1}, p, stream) /\ Follows(damaged, {1}, Through(p, stream), Sending)
  BY <1>1 DEF PipeAt, Through
<1>5. /\ Linked(damaged, {1}, p, chunk') /\ Linked(damaged, {1}, Through(p, chunk'), stream')
      /\ Through(Through(p, chunk'), stream') = Through(p, stream)
  BY <1>1, <1>2, <1>4, LinkCut
<1>6. PipeAt(p)'
  BY <1>1, <1>3, <1>4, <1>5 DEF PipeAt
<1>7. Ended(chunk)' /\ Ended(stream)'
  <2>1. \A i \in 1 .. Len(stream) : stream[i] \in BytesOf(session)
    BY <1>1, ElementOfSeq
  <2>2. /\ Len(chunk') = n /\ DOMAIN chunk' = 1 .. n
        /\ \A i \in 1 .. n : chunk'[i] = stream[i]
    BY <1>1, <1>2, <2>1, SubSeqProperties, LenProperties
  <2>3. /\ DOMAIN stream' = 1 .. Len(stream) - n
        /\ \A i \in 1 .. Len(stream) - n : stream'[i] = stream[n + i]
    <3>1. stream' \in Seq(BytesOf(session))
      BY <1>1, <1>2, <2>1, SubSeqProperties
    <3>2. DOMAIN stream' = 1 .. Len(stream')
      BY <3>1, LenProperties
    <3>3. CASE n < Len(stream)
      BY <1>1, <1>2, <2>1, <3>2, <3>3, SubSeqProperties
    <3>4. CASE n = Len(stream)
      <4>1. stream' = << >> /\ Len(stream) - n = 0
        BY <1>1, <1>2, <3>4, SubSeqEmpty
      <4> QED BY <3>2, <4>1, EmptySeq
    <3> QED BY <1>2, <3>3, <3>4
  <2>4. DOMAIN stream = 1 .. Len(stream) /\ Ended(stream)
    BY <1>1, LenProperties DEF TextInv, Running
  <2>5. ASSUME NEW i \in DOMAIN stream' PROVE n + i \in DOMAIN stream
    BY <1>2, <2>3, <2>4
  <2>6. ASSUME NEW i \in DOMAIN chunk' PROVE i \in DOMAIN stream
    BY <1>2, <2>2, <2>4
  <2>7. Ended(chunk)'
    BY <1>1, <2>2, <2>4, <2>6 DEF Ended
  <2>8. Ended(stream)'
    BY <1>1, <2>3, <2>4, <2>5 DEF Ended
  <2> QED BY <2>7, <2>8
<1>8. (\A m \in DOMAIN delivered : Intact(delivered[m]))'
  BY <1>1 DEF TextInv, Intact
<1> QED BY <1>1, <1>6, <1>7, <1>8 DEF TextInv, Running

LEMMA DrainedText == ASSUME IInv, TextInv, WorkerDrained PROVE TextInv'
<1>1. /\ worker = "Drain" /\ worker' = "Wait" /\ chunk = << >>
      /\ UNCHANGED <<stream, chunk, buf, overflow, delivered, lens, damaged>>
  BY DEF WorkerDrained, TextInv, asmVars, historyVars
<1>2. Line' = Line /\ Sending' = Sending
  BY <1>1 DEF Line, Sending
<1> QED BY <1>1, <1>2 DEF TextInv, PipeAt, Running, Ended, Intact

LEMMA FeedText == ASSUME IInv, TextInv, feed PROVE TextInv'
<1> DEFINE c == Head(chunk)
<1>1. /\ worker = "Feed" /\ chunk # << >> /\ chunk' = Tail(chunk)
      /\ worker' = IF Len(chunk) = 1 THEN "Drain" ELSE "Feed"
      /\ chunk \in Seq(BytesOf(session)) /\ buf \in Seq(BytesOf(session))
      /\ UNCHANGED <<stream, lens, damaged, session>>
  BY DEF feed, IInv, ReceivedInv, appVars, historyVars
<1>2. /\ Running /\ Running' /\ Line' = Line /\ Sending' = Sending
  BY <1>1 DEF Running, Line, Sending
<1>3. /\ Len(chunk) \in Nat /\ Len(chunk) > 0 /\ c = chunk[1] /\ c \in BytesOf(session)
      /\ chunk' \in Seq(BytesOf(session)) /\ Len(chunk') = Len(chunk) - 1
      /\ \A i \in 1 .. Len(chunk') : chunk'[i] = chunk[i + 1]
      /\ DOMAIN chunk = 1 .. Len(chunk) /\ DOMAIN chunk' = 1 .. Len(chunk')
  <2>1. c = chunk[1]
    BY <1>1
  <2> HIDE DEF c
  <2>2. Len(chunk) \in Nat /\ Len(chunk) > 0 /\ DOMAIN chunk = 1 .. Len(chunk)
    BY <1>1, EmptySeq, LenProperties
  <2>3. /\ c \in BytesOf(session) /\ chunk' \in Seq(BytesOf(session))
        /\ Len(chunk') = Len(chunk) - 1
        /\ \A i \in 1 .. Len(chunk') : chunk'[i] = chunk[i + 1]
    BY <1>1, HeadTailProperties DEF c
  <2> QED BY <2>1, <2>2, <2>3, LenProperties
<1>4. chunk' # << >> => worker' = "Feed"
  BY <1>1, <1>3, EmptySeq
<1> PICK p \in Places : PipeAt(p)
  BY <1>2 DEF TextInv
<1>5. /\ Assembled(damaged, p, buf, overflow) /\ Follows(damaged, {1}, p, At(c))
      /\ Linked(damaged, {1}, After(c), chunk')
      /\ Through(After(c), chunk') = Through(p, chunk)
      /\ After(c) \in Places
  BY <1>1, <1>3, LinkHead, PlaceOfByte DEF PipeAt
<1>6. Ended(chunk)' /\ Ended(stream)'
  <2>1. ASSUME NEW i \in DOMAIN chunk' PROVE i + 1 \in DOMAIN chunk /\ chunk'[i] = chunk[i + 1]
    BY <1>3
  <2>2. Ended(chunk) /\ Ended(stream)
    BY <1>2 DEF TextInv
  <2> QED BY <1>1, <2>1, <2>2 DEF Ended
<1>7. /\ c.ch = "LF" => c.line \in 1 .. Len(lens) - 1 /\ c.pos = lens[c.line] + 1
      /\ c.line \in Nat /\ c.pos \in Nat
  <2>1. 1 \in DOMAIN chunk /\ Ended(chunk)
    BY <1>2, <1>3 DEF TextInv
  <2> QED BY <1>3, <2>1 DEF Ended, BytesOf
<1> HIDE DEF c
<1> PICK q \in Places : q = After(c)
  BY <1>5
<1>8. CASE c.ch = "LF" /\ emit
  <2>1. /\ buf' = << >> /\ overflow' = FALSE
        /\ delivered' = IF ~overflow /\ buf # << >> THEN Append(delivered, buf) ELSE delivered
    BY <1>8 DEF emit
  <2>2. Assembled(damaged, After(c), << >>, FALSE)
    BY <1>8, AssembleNewline
  <2>3. ~overflow /\ buf # << >> => Intact(buf)
    <3> SUFFICES ASSUME ~overflow, buf # << >>, LinesOf(buf) \cap damaged = {}
                 PROVE  Intact(buf)
      BY DEF Intact
    <3>1. Exact(At(c), buf)
      <4>1. Assembled(damaged, p, buf, FALSE)
        BY <1>5 DEF Assembled
      <4> QED BY <1>1, <1>5, <4>1, EndsExact
    <3>2. c.pos = lens[c.line] + 1 /\ c.line \in 1 .. Len(lens) - 1
      BY <1>7, <1>8
    <3>3. Len(buf) \in Nat /\ lens[c.line] \in Nat
      BY <1>1, <3>2, LenProperties, ElementOfSeq DEF IInv, LensInv
    <3>4. Len(buf) = lens[c.line]
      BY <3>1, <3>2, <3>3 DEF Exact, At
    <3> QED BY <3>1, <3>2, <3>4 DEF Intact, Exact, At
  <2>4. (\A m \in DOMAIN delivered : Intact(delivered[m]))'
    <3>1. CASE delivered' = delivered
      BY <1>1, <3>1 DEF TextInv, Intact
    <3>2. CASE ~overflow /\ buf # << >> /\ delivered' = Append(delivered, buf)
      <4>1. buf \in Lines /\ delivered \in Seq(Lines)
        BY <1>1, <3>2, EmptySeq, SerialAssumption DEF IInv, LinesInv, ReceivedInv, Lines
      <4>2. /\ Len(delivered) \in Nat /\ DOMAIN delivered = 1 .. Len(delivered)
            /\ DOMAIN delivered' = 1 .. Len(delivered) + 1
            /\ delivered'[Len(delivered) + 1] = buf
            /\ \A m \in 1 .. Len(delivered) : delivered'[m] = delivered[m]
        BY <3>2, <4>1, AppendProperties, LenProperties
      <4>3. ASSUME NEW m \in DOMAIN delivered' PROVE Intact(delivered'[m])
        <5>1. CASE m = Len(delivered) + 1
          BY <2>3, <3>2, <4>2, <5>1
        <5>2. CASE m # Len(delivered) + 1
          <6>1. m \in DOMAIN delivered /\ delivered'[m] = delivered[m]
            BY <4>2, <5>2
          <6> QED BY <6>1 DEF TextInv
        <5> QED BY <5>1, <5>2
      <4> QED BY <1>1, <4>3 DEF Intact
    <3> QED BY <2>1, <3>1, <3>2
  <2>5. PipeAt(q)'
    BY <1>1, <1>2, <1>5, <2>1, <2>2 DEF PipeAt
  <2> QED BY <1>2, <1>4, <1>5, <1>6, <2>4, <2>5 DEF TextInv
<1>9. CASE c.ch # "LF" /\ UNCHANGED delivered /\ Assembled(damaged, After(c), buf', overflow')
  <2>1. (\A m \in DOMAIN delivered : Intact(delivered[m]))'
    BY <1>1, <1>9 DEF TextInv, Intact
  <2>2. PipeAt(q)'
    BY <1>1, <1>2, <1>5, <1>9 DEF PipeAt
  <2> QED BY <1>2, <1>4, <1>5, <1>6, <2>1, <2>2 DEF TextInv
<1>10. CASE c.ch = "CR" /\ UNCHANGED asmVars
  <2>1. Assembled(damaged, After(c), buf, overflow)
    BY <1>1, <1>3, <1>5, <1>10, AssembleReturn
  <2> QED BY <1>9, <1>10, <2>1 DEF asmVars
<1>11. CASE c.ch = "Char" /\ keep_char(c)
  <2>1. CASE buf' = Append(buf, c) /\ UNCHANGED overflow
    <3>1. Assembled(damaged, After(c), Append(buf, c), overflow)
      BY <1>1, <1>3, <1>5, <1>11, AssembleChar
    <3> QED BY <1>9, <1>11, <2>1, <3>1 DEF keep_char
  <2>2. CASE overflow' = TRUE /\ UNCHANGED buf
    BY <1>9, <1>11, <2>2, AssembleSpoiled DEF keep_char
  <2> QED BY <1>11, <2>1, <2>2 DEF keep_char
<1> QED BY <1>8, <1>10, <1>11 DEF feed, c

-----------------------------------------------------------------------------
(* The application, and the theorem.                                       *)

LEMMA AppText ==
  ASSUME IInv, TextInv, StartAcquire \/ StartThread \/ StartRx \/ StopRx \/ Stopping
  PROVE  TextInv'
<1>1. UNCHANGED <<lens, damaged, delivered>>
  BY DEF StartAcquire, StartThread, StartRx, StopRx, Stopping, StopFlag, StopJoin, StopFree,
         asmVars, historyVars
<1>2. Line' = Line /\ Sending' = Sending
  BY <1>1 DEF Line, Sending
<1>3. (\A m \in DOMAIN delivered : Intact(delivered[m]))'
  BY <1>1 DEF TextInv, Intact
<1>4. CASE StartThread
  <2>1. /\ Running' /\ ~Running /\ chunk' = << >> /\ stream' = << >>
        /\ buf' = << >> /\ overflow' = FALSE
    BY <1>4 DEF StartThread, IInv, LifeInv, Running
  <2>2. lens[Line] = 0 \/ Line \in damaged
    BY <2>1 DEF TextInv
  <2>3. Sending \in Places /\ Sending.line = Line /\ Sending.pos = lens[Line] + 1
    BY DEF Sending, Places, IInv, LensInv, Line
  <2> PICK p \in Places : p = Sending
    BY <2>3
  <2>4. PipeAt(p)'
    BY <1>1, <1>2, <2>1, <2>2, <2>3 DEF PipeAt, Assembled, Exact, Linked, Through, Follows
  <2>5. Ended(chunk)' /\ Ended(stream)'
    BY <2>1 DEF Ended
  <2> QED BY <1>3, <2>1, <2>4, <2>5 DEF TextInv
<1>5. CASE StartAcquire \/ StartRx \/ StopRx \/ StopFlag
  BY <1>1, <1>2, <1>3, <1>5
  DEF StartAcquire, StartRx, StopRx, StopFlag, TextInv, Running, PipeAt, Ended, asmVars
<1>6. CASE StopJoin \/ StopFree
  <2>1. ~Running /\ ~Running' /\ worker # "Feed" /\ chunk' = chunk
    BY <1>6 DEF StopJoin, StopFree, IInv, LifeInv, Running
  <2> QED BY <1>1, <1>2, <1>3, <2>1 DEF TextInv
<1> QED BY <1>4, <1>5, <1>6 DEF Stopping

LEMMA TextStarts == Init => TextInv
BY DEF Init, TextInv, Running, Line

LEMMA TextStep == IInv /\ TextInv /\ [Next]_vars => TextInv'
<1>1. ASSUME IInv, TextInv, UNCHANGED vars PROVE TextInv'
  <2>1. Line' = Line /\ Sending' = Sending
    BY <1>1 DEF vars, Line, Sending
  <2> QED BY <1>1, <2>1 DEF vars, TextInv, PipeAt, Running, Ended, Intact
<1> QED BY <1>1, IsrText, MissedText, WakeText, ReceiveText, DrainedText, FeedText, AppText
        DEF Next, Worker

(* A line handed on is a line as it was sent, whole and alone, unless a    *)
(* byte of a line in it was lost on the way, however the interrupt, the    *)
(* worker and the application interleave and wherever the stream overflows.*)
THEOREM LinesArriveIntact == Spec => []LinesIntact
<1>1. Spec => []TextInv
  BY TextStarts, TextStep, Invariance, PTL DEF Spec
<1>2. IInv /\ TextInv => LinesIntact
  <2> SUFFICES ASSUME IInv, TextInv PROVE LinesIntact
    OBVIOUS
  <2>1. lens \in Seq(Nat) /\ DOMAIN lens = 1 .. Len(lens) /\ Len(lens) \in Nat
    BY LenProperties DEF IInv, LensInv
  <2>2. \A l \in 1 .. Len(lens) - 1 : l \in DOMAIN lens
    BY <2>1
  <2> QED BY <2>2 DEF TextInv, Intact, LinesIntact, Range
<1> QED BY <1>1, <1>2, Invariance, PTL
-----------------------------------------------------------------------------
(* A loss is made good by the next newline.  A line is dirty when it lost  *)
(* a byte or when the newline before it was lost: between two lines that   *)
(* are not, the text is unbroken.                                          *)

Dirty == damaged \cup {l \in Nat : l - 1 \in unended}

Busy == Running /\ app \in {"On", "RxOff", "Flagged"}
HandedOn == UNION {LinesOf(delivered[n]) : n \in DOMAIN delivered}

Newline(s, l) == \E i \in DOMAIN s : s[i].ch = "LF" /\ s[i].line = l
Coming(l) == Busy /\ (Newline(chunk, l) \/ Newline(stream, l))

(* When the byte at p is due, the assembler holds nothing of a line handed *)
(* on, nothing of a later line, and a line that is not dirty exactly, as   *)
(* long as it fits.                                                        *)
OnTrack(p) ==
  /\ \A k \in HandedOn : k < p.line /\ \A l \in LinesOf(buf) : k < l
  /\ \A l \in LinesOf(buf) : l <= p.line
  /\ p.line \notin Dirty /\ p.pos <= LineMax => Exact(p, buf) /\ ~overflow

TrackedAt(p) ==
  /\ OnTrack(p)
  /\ Linked(Dirty, {}, p, chunk)
  /\ Linked(Dirty, {}, Through(p, chunk), stream)
  /\ armed => Follows(Dirty, {}, Through(Through(p, chunk), stream), Sending)

InOrder ==
  \A m, n \in DOMAIN delivered :
    m < n => \A k \in LinesOf(delivered[m]), l \in LinesOf(delivered[n]) : k < l

(* Every whole line was handed on or is on its way; before the interrupt   *)
(* is armed nothing is.                                                    *)
SyncInv ==
  /\ InOrder
  /\ \A k \in HandedOn : k < Line
  /\ \A l \in 1 .. Len(lens) : Whole(l) => l \in HandedOn \/ Coming(l)
  /\ Busy => \E p \in Places : TrackedAt(p)
  /\ app = "Threaded" =>
       /\ stream = << >> /\ chunk = << >> /\ buf = << >> /\ ~overflow
       /\ lens[Line] = 0 \/ Line \in damaged

LEMMA SyncStarts == Init => SyncInv
<1> SUFFICES ASSUME Init PROVE SyncInv
  OBVIOUS
<1>1. /\ delivered = << >> /\ lens = <<0>> /\ app = "Off" /\ Len(lens) = 1 /\ ~Busy
      /\ DOMAIN delivered = {}
  BY DEF Init, Busy, Running
<1>2. HandedOn = {}
  BY <1>1 DEF HandedOn
<1>3. \A l \in 1 .. Len(lens) : ~Whole(l)
  BY <1>1 DEF Whole, Line
<1> QED BY <1>1, <1>2, <1>3 DEF SyncInv, InOrder

LEMMA NewlineAppended ==
  ASSUME NEW n, NEW s \in Seq(BytesOf(n)), NEW b \in BytesOf(n), NEW l
  PROVE  Newline(Append(s, b), l) <=> Newline(s, l) \/ (b.ch = "LF" /\ b.line = l)
<1> DEFINE t == Append(s, b)
<1>1. /\ Len(s) \in Nat /\ DOMAIN s = 1 .. Len(s) /\ DOMAIN t = 1 .. Len(s) + 1
      /\ t[Len(s) + 1] = b /\ \A i \in 1 .. Len(s) : t[i] = s[i]
  BY AppendProperties, LenProperties
<1>2. DOMAIN t = DOMAIN s \cup {Len(s) + 1}
  BY <1>1
<1> HIDE DEF t
<1>3. Newline(t, l) <=> Newline(s, l) \/ (b.ch = "LF" /\ b.line = l)
  BY <1>1, <1>2 DEF Newline
<1> QED BY <1>3 DEF t

(* A newline in a sequence is in the part cut off or in what is left of it.*)
LEMMA NewlineCut ==
  ASSUME NEW n, NEW s \in Seq(BytesOf(n)), NEW k \in 1 .. Len(s), NEW l, Newline(s, l)
  PROVE  Newline(SubSeq(s, 1, k), l) \/ Newline(SubSeq(s, k + 1, Len(s)), l)
<1> DEFINE a == SubSeq(s, 1, k)
           c == SubSeq(s, k + 1, Len(s))
<1>1. /\ Len(s) \in Nat /\ k \in Nat /\ k >= 1 /\ k <= Len(s) /\ DOMAIN s = 1 .. Len(s)
      /\ \A i \in 1 .. Len(s) : s[i] \in BytesOf(n)
  BY ElementOfSeq, LenProperties
<1>2. DOMAIN a = 1 .. k /\ \A i \in 1 .. k : a[i] = s[i]
  BY <1>1, SubSeqProperties, LenProperties
<1>3. k < Len(s) => DOMAIN c = 1 .. Len(s) - k /\ \A i \in 1 .. Len(s) - k : c[i] = s[k + i]
  <2> SUFFICES ASSUME k < Len(s)
               PROVE  DOMAIN c = 1 .. Len(s) - k /\ \A i \in 1 .. Len(s) - k : c[i] = s[k + i]
    OBVIOUS
  <2>1. /\ k + 1 \in Int /\ Len(s) \in Int /\ k + 1 <= Len(s) /\ Len(s) - k \in Nat
        /\ \A i \in k + 1 .. Len(s) : s[i] \in BytesOf(n)
    BY <1>1
  <2>2. /\ c \in Seq(BytesOf(n)) /\ Len(c) = Len(s) - (k + 1) + 1
        /\ \A i \in 1 .. Len(s) - (k + 1) + 1 : c[i] = s[k + 1 + i - 1]
    BY <2>1, SubSeqProperties
  <2>3. Len(s) - (k + 1) + 1 = Len(s) - k /\ \A i \in Nat : k + 1 + i - 1 = k + i
    BY <1>1
  <2> HIDE DEF c
  <2> QED BY <2>2, <2>3, LenProperties
<1> HIDE DEF a, c
<1> PICK i \in DOMAIN s : s[i].ch = "LF" /\ s[i].line = l
  BY DEF Newline
<1>4. CASE i <= k
  BY <1>1, <1>2, <1>4 DEF Newline, a
<1>5. CASE i > k
  <2>1. i - k \in 1 .. Len(s) - k /\ k + (i - k) = i /\ k < Len(s)
    BY <1>1, <1>5
  <2>2. i - k \in DOMAIN c /\ c[i - k] = s[i]
    BY <1>3, <2>1
  <2>3. Newline(c, l)
    BY <2>2 DEF Newline
  <2> QED BY <2>3 DEF c
<1> QED BY <1>1, <1>4, <1>5

LEMMA NewlineHead ==
  ASSUME NEW n, NEW s \in Seq(BytesOf(n)), s # << >>, NEW l, Newline(s, l),
         ~(Head(s).ch = "LF" /\ Head(s).line = l)
  PROVE  Newline(Tail(s), l)
<1>1. /\ Len(s) \in Nat /\ Len(s) > 0 /\ Head(s) = s[1] /\ DOMAIN s = 1 .. Len(s)
      /\ Tail(s) \in Seq(BytesOf(n)) /\ Len(Tail(s)) = Len(s) - 1
      /\ \A i \in 1 .. Len(Tail(s)) : Tail(s)[i] = s[i + 1]
  BY HeadTailProperties, EmptySeq, LenProperties
<1>2. DOMAIN Tail(s) = 1 .. Len(s) - 1
  BY <1>1, LenProperties
<1> PICK i \in DOMAIN s : s[i].ch = "LF" /\ s[i].line = l
  BY DEF Newline
<1>3. i # 1 /\ i \in 1 .. Len(s)
  BY <1>1
<1>4. i - 1 \in 1 .. Len(s) - 1 /\ (i - 1) + 1 = i
  BY <1>1, <1>3
<1>5. Tail(s)[i - 1] = s[i]
  BY <1>1, <1>4
<1> QED BY <1>2, <1>4, <1>5 DEF Newline

-----------------------------------------------------------------------------
(* The board sends.                                                        *)

(* A line that is whole after a byte was sent was so before, except the    *)
(* one that this byte ends.                                                *)
LEMMA WholeBefore ==
  ASSUME LensInv, NEW ch \in {"Char", "LF", "CR"}, Send(ch),
         damaged \subseteq damaged', unended \subseteq unended',
         NEW l \in 1 .. Len(lens'), Whole(l)', ch = "LF" => l # Line
  PROVE  l \in 1 .. Len(lens) /\ Whole(l)
<1>1. /\ Len(lens) \in Nat /\ Line = Len(lens)
      /\ \A m \in 1 .. Len(lens) - 1 : lens'[m] = lens[m]
  BY SendingMoves, LenProperties DEF LensInv, Line
<1>2. Line' = IF ch = "LF" THEN Line + 1 ELSE Line
  <2>1. CASE ch = "LF"
    BY <2>1, AppendProperties DEF Send, LensInv, Line
  <2>2. CASE ch # "LF"
    BY <2>2 DEF Send, LensInv, Line
  <2> QED BY <2>1, <2>2
<1>3. l < Line
  BY <1>1, <1>2 DEF Whole
<1> QED BY <1>1, <1>3 DEF Whole

LEMMA SentLine ==
  ASSUME LensInv, NEW ch \in {"Char", "LF", "CR"}, Send(ch)
  PROVE  Line \in Nat /\ Line' \in Nat /\ Line <= Line'
BY SendingMoves, SendLens, LenProperties DEF LensInv, Line

LEMMA MoreDirty ==
  ASSUME damaged \subseteq damaged', unended \subseteq unended' PROVE Dirty \subseteq Dirty'
BY DEF Dirty

(* A byte that is lost leaves its line dirty, and a newline the next one.  *)
LEMMA LostTrack ==
  ASSUME LensInv, NEW ch \in {"Char", "LF", "CR"}, Send(ch),
         damaged' = IF ch = "CR" THEN damaged ELSE damaged \cup {Line},
         unended' = IF ch = "LF" THEN unended \cup {Line} ELSE unended,
         NEW q \in Places, Follows(Dirty, {}, q, Sending)
  PROVE  Follows(Dirty', {}, q, Sending')
<1>1. /\ Sending' = After(Byte(ch)) /\ Byte(ch).ch = ch /\ Byte(ch).line = Line
      /\ ch = "CR" => Sending' = Sending
      /\ Sending.line = Line /\ Line \in Nat /\ q.line \in Nat
  BY SendingMoves, SentLine DEF Sending, Places
<1>2. Dirty \subseteq Dirty' /\ (ch # "CR" => Line \in Dirty') /\ (ch = "LF" => Line + 1 \in Dirty')
  BY <1>1 DEF Dirty
<1>3. q.line <= Line /\ (q.line = Line \/ q.line \in Dirty)
  BY <1>1 DEF Follows
<1>4. CASE ch = "Char"
  <2>1. Sending'.line = Line
    BY <1>1, <1>4 DEF After
  <2> QED BY <1>2, <1>3, <1>4, <2>1 DEF Follows
<1>5. CASE ch = "LF"
  <2>1. Sending'.line = Line + 1
    BY <1>1, <1>5 DEF After
  <2>2. q.line \in Dirty' /\ q.line <= Line + 1
    BY <1>1, <1>2, <1>3, <1>5
  <2> QED BY <1>2, <1>5, <2>1, <2>2 DEF Follows
<1>6. CASE ch = "CR"
  <2>1. damaged' = damaged /\ unended' = unended
    BY <1>6
  <2> QED BY <1>1, <1>2, <1>6, <2>1 DEF Follows
<1> QED BY <1>4, <1>5, <1>6

(* A line that is whole was handed on or is on its way.                    *)
LEMMA Reached ==
  ASSUME SyncInv, NEW l \in 1 .. Len(lens), Whole(l) PROVE l \in HandedOn \/ Coming(l)
BY DEF SyncInv

LEMMA LinesAreNumbers ==
  ASSUME NEW n, NEW s \in Seq(BytesOf(n)) PROVE LinesOf(s) \subseteq Nat
<1>1. ASSUME NEW k \in DOMAIN s PROVE s[k].line \in Nat
  <2>1. s[k] \in BytesOf(n)
    BY LenProperties, ElementOfSeq
  <2> QED BY <2>1 DEF BytesOf
<1> QED BY <1>1 DEF LinesOf

LEMMA HandedNumbers == ASSUME IInv PROVE HandedOn \subseteq Nat
<1> SUFFICES ASSUME NEW m \in DOMAIN delivered PROVE LinesOf(delivered[m]) \subseteq Nat
  BY DEF HandedOn
<1>1. delivered[m] \in Lines
  BY LenProperties, ElementOfSeq DEF IInv, LinesInv
<1> PICK n \in Nat : delivered[m] \in Seq(BytesOf(n))
  BY <1>1 DEF Lines
<1> QED BY LinesAreNumbers

LEMMA SentSync ==
  ASSUME IInv, SyncInv, NEW ch \in {"Char", "LF", "CR"}, Send(ch), UNCHANGED delivered
  PROVE  /\ HandedOn' = HandedOn /\ InOrder'
         /\ (\A k \in HandedOn : k < Line)'
<1>1. HandedOn' = HandedOn /\ InOrder'
  BY DEF HandedOn, SyncInv, InOrder
<1>2. Line \in Nat /\ Line' \in Nat /\ Line <= Line'
  BY SentLine DEF IInv
<1>3. ASSUME NEW k \in HandedOn PROVE k \in Nat /\ k < Line
  BY HandedNumbers DEF SyncInv
<1>4. ASSUME NEW k \in HandedOn PROVE k < Line'
  BY <1>2, <1>3
<1> QED BY <1>1, <1>4

(* What is on its way is not disturbed by a byte sent, when it is received *)
(* and when it is lost.                                                    *)
LEMMA StillOnTrack ==
  ASSUME NEW p, OnTrack(p), Dirty \subseteq Dirty', HandedOn' = HandedOn,
         UNCHANGED <<buf, overflow>>
  PROVE  OnTrack(p)'
BY DEF OnTrack, Exact

LEMMA IsrSync ==
  ASSUME IInv, SyncInv, NEW ch \in {"Char", "LF", "CR"}, rx_isr(ch)
  PROVE  SyncInv'
<1>1. /\ LensInv /\ Send(ch) /\ Busy /\ Busy' /\ armed /\ armed' /\ app = "On" /\ app' = "On"
      /\ UNCHANGED <<chunk, buf, overflow, delivered, session>>
      /\ stream \in Seq(BytesOf(session)) /\ chunk \in Seq(BytesOf(session))
      /\ Byte(ch) \in BytesOf(session)
  BY ByteType DEF rx_isr, IInv, LifeInv, ReceivedInv, Busy, Running, appVars, asmVars
<1>2. HandedOn' = HandedOn /\ InOrder' /\ (\A k \in HandedOn : k < Line)'
  BY <1>1, SentSync
<1>3. /\ Sending = At(Byte(ch)) /\ Sending' = After(Byte(ch))
      /\ Byte(ch).ch = ch /\ Byte(ch).line = Line
  BY <1>1, SendingMoves
<1> PICK p \in Places : TrackedAt(p)
  BY <1>1 DEF SyncInv
<1> DEFINE q == Through(p, chunk)
<1>4. q \in Places /\ Through(q, stream) \in Places
  BY <1>1, PlaceThrough
<1>5. /\ OnTrack(p) /\ Linked(Dirty, {}, p, chunk) /\ Linked(Dirty, {}, q, stream)
      /\ Follows(Dirty, {}, Through(q, stream), Sending)
  BY <1>1 DEF TrackedAt
<1> HIDE DEF q
<1>6. CASE stream' = Append(stream, Byte(ch)) /\ UNCHANGED <<damaged, unended>>
  <2>1. Dirty' = Dirty
    BY <1>6 DEF Dirty
  <2>2. Linked(Dirty, {}, q, stream') /\ Through(q, stream') = Sending'
    BY <1>1, <1>3, <1>5, <1>6, LinkByte
  <2>3. TrackedAt(p)'
    <3>1. OnTrack(p)'
      BY <1>1, <1>2, <1>5, <2>1, StillOnTrack
    <3>2. Follows(Dirty', {}, Through(q, stream'), Sending')
      BY <2>2 DEF Follows
    <3> QED BY <1>1, <1>5, <2>1, <2>2, <3>1, <3>2 DEF TrackedAt, q
  <2>4. ASSUME NEW l \in 1 .. Len(lens'), Whole(l)' PROVE l \in HandedOn' \/ Coming(l)'
    <3>1. CASE ch = "LF" /\ l = Line
      <4>1. Newline(stream', l)
        BY <1>1, <1>3, <1>6, <3>1, NewlineAppended
      <4> QED BY <1>1, <4>1 DEF Coming, Newline
    <3>2. CASE ~(ch = "LF" /\ l = Line)
      <4>1. l \in 1 .. Len(lens) /\ Whole(l)
        BY <1>1, <1>6, <2>4, <3>2, WholeBefore
      <4>2. l \in HandedOn \/ Newline(chunk, l) \/ Newline(stream, l)
        BY <4>1, Reached DEF Coming
      <4>3. Newline(stream, l) => Newline(stream', l)
        BY <1>1, <1>6, NewlineAppended
      <4> QED BY <1>1, <1>2, <4>2, <4>3 DEF Coming, Newline
    <3> QED BY <3>1, <3>2
  <2> QED BY <1>1, <1>2, <2>3, <2>4 DEF SyncInv
<1>7. CASE /\ UNCHANGED stream
           /\ damaged' = IF ch = "CR" THEN damaged ELSE damaged \cup {Line}
           /\ unended' = IF ch = "LF" THEN unended \cup {Line} ELSE unended
  <2>1. damaged \subseteq damaged' /\ unended \subseteq unended'
    BY <1>7
  <2>2. Dirty \subseteq Dirty'
    BY <2>1, MoreDirty
  <2>3. Follows(Dirty', {}, Through(q, stream), Sending')
    BY <1>1, <1>4, <1>5, <1>7, LostTrack
  <2>4. TrackedAt(p)'
    <3>1. OnTrack(p)'
      BY <1>1, <1>2, <1>5, <2>2, StillOnTrack
    <3>2. Linked(Dirty', {}, p, chunk) /\ Linked(Dirty', {}, q, stream)
      BY <1>5, <2>2, LossKeepsLinks
    <3> QED BY <1>1, <1>7, <2>3, <3>1, <3>2 DEF TrackedAt, q
  <2>5. ASSUME NEW l \in 1 .. Len(lens'), Whole(l)' PROVE l \in HandedOn' \/ Coming(l)'
    <3>1. ch = "LF" => l # Line
      BY <1>7, <2>5 DEF Whole
    <3>2. l \in 1 .. Len(lens) /\ Whole(l)
      BY <1>1, <2>1, <2>5, <3>1, WholeBefore
    <3>3. l \in HandedOn \/ Newline(chunk, l) \/ Newline(stream, l)
      BY <3>2, Reached DEF Coming
    <3> QED BY <1>1, <1>2, <1>7, <3>3 DEF Coming, Newline
  <2> QED BY <1>1, <1>2, <2>4, <2>5 DEF SyncInv
<1> QED BY <1>6, <1>7 DEF rx_isr

LEMMA MissedSync ==
  ASSUME IInv, SyncInv, NEW ch \in {"Char", "LF", "CR"}, Missed(ch)
  PROVE  SyncInv'
<1>1. /\ LensInv /\ Send(ch) /\ ~armed /\ (Busy' <=> Busy) /\ app' = app
      /\ UNCHANGED <<armed, stream, chunk, buf, overflow, delivered, unended>>
      /\ damaged' = IF ch = "CR" THEN damaged ELSE damaged \cup {Line}
  BY DEF Missed, IInv, Busy, Running, appVars, asmVars
<1>2. HandedOn' = HandedOn /\ InOrder' /\ (\A k \in HandedOn : k < Line)'
  BY <1>1, SentSync
<1>3. damaged \subseteq damaged' /\ unended \subseteq unended'
  BY <1>1
<1>4. Dirty \subseteq Dirty'
  BY <1>3, MoreDirty
<1>5. Busy => (\E p \in Places : TrackedAt(p))'
  <2> SUFFICES ASSUME Busy PROVE (\E p \in Places : TrackedAt(p))'
    OBVIOUS
  <2> PICK p \in Places : TrackedAt(p)
    BY DEF SyncInv
  <2>1. OnTrack(p)'
    BY <1>1, <1>2, <1>4, StillOnTrack DEF TrackedAt
  <2>2. Linked(Dirty', {}, p, chunk) /\ Linked(Dirty', {}, Through(p, chunk), stream)
    BY <1>4, LossKeepsLinks DEF TrackedAt
  <2> QED BY <1>1, <2>1, <2>2 DEF TrackedAt
<1>6. ASSUME NEW l \in 1 .. Len(lens'), Whole(l)' PROVE l \in HandedOn' \/ Coming(l)'
  <2>1. ch = "LF" => l # Line
    BY <1>1, <1>6 DEF Whole
  <2>2. l \in 1 .. Len(lens) /\ Whole(l)
    BY <1>1, <1>3, <1>6, <2>1, WholeBefore
  <2> QED BY <1>1, <1>2, <2>2, Reached DEF Coming, Newline
<1>7. app = "Threaded" => (lens[Line] = 0 \/ Line \in damaged)'
  BY <1>1, LostByte DEF SyncInv
<1> QED BY <1>1, <1>2, <1>5, <1>6, <1>7 DEF SyncInv

-----------------------------------------------------------------------------
(* The worker.                                                             *)

LEMMA WakeSync == ASSUME IInv, TextInv, SyncInv, WorkerWake PROVE SyncInv'
<1>1. /\ worker = "Wait" /\ chunk = << >> /\ damaged \subseteq damaged' /\ app' = app
      /\ UNCHANGED <<armed, stream, chunk, buf, overflow, delivered, lens, unended>>
  BY DEF WorkerWake, TextInv, appVars, asmVars
<1>2. Line' = Line /\ Sending' = Sending /\ HandedOn' = HandedOn
  BY <1>1 DEF Line, Sending, HandedOn
<1>3. InOrder' /\ (\A k \in HandedOn : k < Line)'
  BY <1>1, <1>2 DEF SyncInv, InOrder
<1>4. app' = "Threaded" =>
        /\ stream' = << >> /\ chunk' = << >> /\ buf' = << >> /\ ~overflow'
        /\ lens'[Line'] = 0 \/ Line' \in damaged'
  BY <1>1, <1>2 DEF SyncInv
<1>5. ASSUME NEW l \in 1 .. Len(lens'), Whole(l)' PROVE l \in 1 .. Len(lens) /\ Whole(l)
  BY <1>1, <1>2, <1>5 DEF Whole
<1>6. CASE worker' = "Done" /\ LinesOf(stream) \subseteq damaged'
  <2>1. ~Busy'
    BY <1>6 DEF Busy, Running
  <2>2. ASSUME NEW l \in 1 .. Len(lens'), Whole(l)' PROVE l \in HandedOn'
    <3>1. l \notin LinesOf(stream)
      BY <1>6, <2>2 DEF Whole
    <3>2. ~Newline(stream, l) /\ ~Newline(chunk, l)
      BY <1>1, <3>1 DEF Newline, LinesOf
    <3> QED BY <1>2, <1>5, <2>2, <3>2, Reached DEF Coming
  <2> QED BY <1>3, <1>4, <2>1, <2>2 DEF SyncInv
<1>7. CASE worker' = "Drain" /\ UNCHANGED damaged
  <2>1. Busy' <=> Busy
    BY <1>1, <1>7 DEF Busy, Running
  <2>2. Dirty' = Dirty
    BY <1>1, <1>7 DEF Dirty
  <2>3. Busy' => (\E p \in Places : TrackedAt(p))'
    BY <1>1, <1>2, <2>1, <2>2 DEF SyncInv, TrackedAt, OnTrack
  <2>4. ASSUME NEW l \in 1 .. Len(lens'), Whole(l)' PROVE l \in HandedOn' \/ Coming(l)'
    BY <1>1, <1>2, <1>5, <2>1, <2>4, Reached DEF Coming, Newline
  <2> QED BY <1>3, <1>4, <2>3, <2>4 DEF SyncInv
<1> QED BY <1>6, <1>7 DEF WorkerWake

LEMMA ReceiveSync == ASSUME IInv, TextInv, SyncInv, WorkerReceive PROVE SyncInv'
<1> DEFINE n == IF Len(stream) < ChunkSize THEN Len(stream) ELSE ChunkSize
<1>1. /\ worker = "Drain" /\ worker' = "Feed" /\ chunk = << >> /\ stream # << >>
      /\ stream \in Seq(BytesOf(session)) /\ app' = app
      /\ UNCHANGED <<armed, buf, overflow, delivered, lens, damaged, unended>>
      /\ chunk' = SubSeq(stream, 1, n) /\ stream' = SubSeq(stream, n + 1, Len(stream))
  BY DEF WorkerReceive, TextInv, IInv, ReceivedInv, appVars, asmVars, historyVars
<1>2. n \in 1 .. Len(stream) /\ Len(stream) \in Nat
  BY <1>1, EmptySeq, SerialAssumption
<1> HIDE DEF n
<1>3. Line' = Line /\ Sending' = Sending /\ HandedOn' = HandedOn /\ Dirty' = Dirty
  BY <1>1 DEF Line, Sending, HandedOn, Dirty
<1>4. InOrder' /\ (\A k \in HandedOn : k < Line)'
  BY <1>1, <1>3 DEF SyncInv, InOrder
<1>5. (Busy' <=> Busy) /\ app # "Threaded"
  BY <1>1 DEF Busy, Running, SyncInv
<1>6. Busy => (\E p \in Places : TrackedAt(p))'
  <2> SUFFICES ASSUME Busy PROVE (\E p \in Places : TrackedAt(p))'
    OBVIOUS
  <2> PICK p \in Places : TrackedAt(p)
    BY DEF SyncInv
  <2>1. Linked(Dirty, {}, p, stream) /\ (armed => Follows(Dirty, {}, Through(p, stream), Sending))
    BY <1>1 DEF TrackedAt, Through
  <2>2. /\ Linked(Dirty, {}, p, chunk') /\ Linked(Dirty, {}, Through(p, chunk'), stream')
        /\ Through(Through(p, chunk'), stream') = Through(p, stream)
    BY <1>1, <1>2, <2>1, LinkCut
  <2>3. OnTrack(p)'
    BY <1>1, <1>3, StillOnTrack DEF TrackedAt
  <2> QED BY <1>1, <1>3, <2>1, <2>2, <2>3 DEF TrackedAt
<1>7. ASSUME NEW l \in 1 .. Len(lens'), Whole(l)' PROVE l \in HandedOn' \/ Coming(l)'
  <2>1. l \in 1 .. Len(lens) /\ Whole(l)
    BY <1>1, <1>3, <1>7 DEF Whole
  <2>2. l \in HandedOn \/ (Busy /\ Newline(stream, l))
    BY <1>1, <2>1, Reached DEF Coming, Newline
  <2>3. Newline(stream, l) => Newline(chunk', l) \/ Newline(stream', l)
    BY <1>1, <1>2, NewlineCut
  <2> QED BY <1>3, <1>5, <2>2, <2>3 DEF Coming, Newline
<1> QED BY <1>1, <1>4, <1>5, <1>6, <1>7 DEF SyncInv

LEMMA DrainedSync == ASSUME IInv, SyncInv, WorkerDrained PROVE SyncInv'
<1>1. /\ worker = "Drain" /\ worker' = "Wait" /\ app' = app
      /\ UNCHANGED <<armed, stream, chunk, buf, overflow, delivered, lens, damaged, unended>>
  BY DEF WorkerDrained, appVars, asmVars, historyVars
<1>2. Line' = Line /\ Sending' = Sending /\ HandedOn' = HandedOn /\ Dirty' = Dirty
  BY <1>1 DEF Line, Sending, HandedOn, Dirty
<1>3. Busy' <=> Busy
  BY <1>1 DEF Busy, Running
<1>4. InOrder' /\ (\A k \in HandedOn : k < Line)'
  BY <1>1, <1>2 DEF SyncInv, InOrder
<1>5. Busy' => (\E p \in Places : TrackedAt(p))'
  BY <1>1, <1>2, <1>3 DEF SyncInv, TrackedAt, OnTrack
<1>6. ASSUME NEW l \in 1 .. Len(lens'), Whole(l)' PROVE l \in HandedOn' \/ Coming(l)'
  <2>1. l \in 1 .. Len(lens) /\ Whole(l)
    BY <1>1, <1>2, <1>6 DEF Whole
  <2> QED BY <1>1, <1>2, <1>3, <2>1, Reached DEF Coming, Newline
<1> QED BY <1>1, <1>2, <1>4, <1>5, <1>6 DEF SyncInv

(* A line handed on comes after all those handed on before.                *)
LEMMA HandedLater ==
  ASSUME IInv, buf \in Lines, delivered' = Append(delivered, buf), InOrder,
         \A k \in HandedOn, l \in LinesOf(buf) : k < l
  PROVE  HandedOn' = HandedOn \cup LinesOf(buf) /\ InOrder'
<1>1. /\ Len(delivered) \in Nat /\ DOMAIN delivered = 1 .. Len(delivered)
      /\ DOMAIN delivered' = 1 .. Len(delivered) + 1
      /\ delivered'[Len(delivered) + 1] = buf
      /\ \A m \in 1 .. Len(delivered) : delivered'[m] = delivered[m]
  <2>1. delivered \in Seq(Lines)
    BY DEF IInv, LinesInv
  <2> QED BY <2>1, AppendProperties, LenProperties
<1>2. DOMAIN delivered' = DOMAIN delivered \cup {Len(delivered) + 1}
  BY <1>1
<1>3. HandedOn' = HandedOn \cup LinesOf(buf)
  BY <1>1, <1>2 DEF HandedOn
<1>4. ASSUME NEW m \in DOMAIN delivered', NEW k \in DOMAIN delivered', m < k,
             NEW i \in LinesOf(delivered'[m]), NEW j \in LinesOf(delivered'[k])
      PROVE  i < j
  <2>1. m \in DOMAIN delivered /\ delivered'[m] = delivered[m]
    BY <1>1, <1>4
  <2>2. CASE k \in DOMAIN delivered
    <3>1. delivered'[k] = delivered[k]
      BY <1>1, <2>2
    <3> QED BY <1>4, <2>1, <2>2, <3>1 DEF InOrder
  <2>3. CASE k = Len(delivered) + 1
    <3>1. i \in HandedOn /\ j \in LinesOf(buf)
      BY <1>1, <2>1, <2>3 DEF HandedOn
    <3> QED BY <3>1
  <2> QED BY <1>2, <2>2, <2>3
<1> QED BY <1>3, <1>4 DEF InOrder

(* The assembler stays on track when the byte c comes after the one at p.  *)
LEMMA TrackNewline ==
  ASSUME IInv, NEW n, buf \in Seq(BytesOf(n)), NEW p \in Places, OnTrack(p),
         NEW c \in BytesOf(n), Follows(Dirty, {}, p, At(c)), c.ch = "LF"
  PROVE  /\ \A k \in HandedOn \cup LinesOf(buf) : k < After(c).line
         /\ After(c).pos = 1
<1>1. /\ After(c).line = c.line + 1 /\ After(c).pos = 1 /\ At(c).line = c.line
      /\ c.line \in Nat /\ p.line \in Nat
  BY DEF After, At, BytesOf, Places
<1>2. p.line <= c.line
  BY <1>1 DEF Follows
<1>3. ASSUME NEW k \in HandedOn \cup LinesOf(buf) PROVE k \in Nat /\ k <= p.line
  <2>1. k \in Nat
    BY HandedNumbers, LinesAreNumbers
  <2> QED BY <1>1, <2>1 DEF OnTrack
<1>4. ASSUME NEW k \in HandedOn \cup LinesOf(buf) PROVE k < After(c).line
  BY <1>1, <1>2, <1>3
<1> QED BY <1>1, <1>4

LEMMA TrackInLine ==
  ASSUME IInv, NEW n, buf \in Seq(BytesOf(n)), NEW p \in Places, OnTrack(p),
         NEW c \in BytesOf(n), Follows(Dirty, {}, p, At(c)), c.ch # "LF"
  PROVE  /\ After(c).line = c.line
         /\ \A k \in HandedOn : k < c.line
         /\ \A l \in LinesOf(buf) : l <= c.line
         /\ c.line \notin Dirty => At(c) = p
<1>1. /\ After(c).line = c.line /\ At(c).line = c.line
      /\ c.line \in Nat /\ p.line \in Nat
  BY DEF After, At, BytesOf, Places
<1>2. p.line <= c.line /\ (c.line \notin Dirty => At(c) = p)
  BY <1>1 DEF Follows
<1>3. ASSUME NEW k \in HandedOn PROVE k < c.line
  <2>1. k \in Nat /\ k < p.line
    BY HandedNumbers DEF OnTrack
  <2> QED BY <1>1, <1>2, <2>1
<1>4. ASSUME NEW l \in LinesOf(buf) PROVE l <= c.line
  <2>1. l \in Nat /\ l <= p.line
    BY LinesAreNumbers DEF OnTrack
  <2> QED BY <1>1, <1>2, <2>1
<1> QED BY <1>1, <1>2, <1>3, <1>4

LEMMA TrackChar ==
  ASSUME IInv, NEW n, buf \in Seq(BytesOf(n)), NEW p \in Places, OnTrack(p),
         NEW c \in BytesOf(n), Follows(Dirty, {}, p, At(c)), c.ch = "Char",
         keep_char(c), UNCHANGED <<damaged, unended>>, NEW q, q = After(c)
  PROVE  OnTrack(q)'
<1>1. /\ After(c).line = c.line /\ \A k \in HandedOn : k < c.line
      /\ \A l \in LinesOf(buf) : l <= c.line
      /\ c.line \notin Dirty => At(c) = p
  BY TrackInLine
<1>2. /\ After(c).pos = c.pos + 1 /\ At(c) = [line |-> c.line, pos |-> c.pos]
      /\ c.line \in Nat /\ c.pos \in Nat /\ LineMax \in Nat
  BY SerialAssumption DEF After, At, BytesOf
<1>3. HandedOn' = HandedOn /\ Dirty' = Dirty
  BY DEF keep_char, HandedOn, Dirty
<1>4. \A k \in HandedOn, l \in LinesOf(buf) : k < l
  BY DEF OnTrack
<1>5. ASSUME c.line \notin Dirty, c.pos + 1 <= LineMax
      PROVE  Exact(At(c), buf) /\ ~overflow
  <2>1. At(c) = p /\ p.line \notin Dirty /\ p.pos <= LineMax
    BY <1>1, <1>2, <1>5
  <2> QED BY <2>1 DEF OnTrack
<1>6. CASE Len(buf) < LineMax - 1 /\ buf' = Append(buf, c) /\ UNCHANGED overflow
  <2>1. LinesOf(buf') = LinesOf(buf) \cup {c.line}
    BY <1>6, LinesWithByte
  <2>2. ASSUME c.line \notin Dirty, c.pos + 1 <= LineMax PROVE Exact(After(c), buf')
    <3>1. c.pos = Len(buf) + 1 /\ \A k \in DOMAIN buf : buf[k].line = c.line /\ buf[k].pos = k
      BY <1>2, <1>5, <2>2 DEF Exact
    <3>2. /\ Len(buf) \in Nat /\ DOMAIN buf = 1 .. Len(buf)
          /\ Len(buf') = Len(buf) + 1 /\ DOMAIN buf' = 1 .. Len(buf) + 1
          /\ buf'[Len(buf) + 1] = c /\ \A i \in 1 .. Len(buf) : buf'[i] = buf[i]
      BY <1>6, AppendProperties, LenProperties
    <3>3. ASSUME NEW k \in DOMAIN buf' PROVE buf'[k].line = c.line /\ buf'[k].pos = k
      <4>1. CASE k = Len(buf) + 1
        BY <3>1, <3>2, <4>1
      <4>2. CASE k # Len(buf) + 1
        BY <3>1, <3>2, <4>2
      <4> QED BY <4>1, <4>2
    <3>4. After(c).pos = Len(buf') + 1
      BY <1>2, <3>1, <3>2
    <3> QED BY <1>1, <3>3, <3>4 DEF Exact
  <2>3. (c.line \notin Dirty /\ c.pos + 1 <= LineMax => Exact(After(c), buf') /\ ~overflow')
    BY <1>5, <1>6, <2>2
  <2>4. \A l \in LinesOf(buf') : l <= c.line /\ \A k \in HandedOn : k < l
    BY <1>1, <1>2, <1>4, <2>1
  <2> QED BY <1>1, <1>2, <1>3, <2>3, <2>4 DEF OnTrack, Exact
<1>7. CASE Len(buf) >= LineMax - 1 /\ UNCHANGED buf
  <2>1. ~(c.line \notin Dirty /\ c.pos + 1 <= LineMax)
    <3> SUFFICES ASSUME c.line \notin Dirty, c.pos + 1 <= LineMax PROVE FALSE
      OBVIOUS
    <3>1. c.pos = Len(buf) + 1 /\ Len(buf) \in Nat
      BY <1>2, <1>5, LenProperties DEF Exact
    <3> QED BY <1>2, <1>7, <3>1
  <2> QED BY <1>1, <1>2, <1>3, <1>4, <1>7, <2>1 DEF OnTrack
<1> QED BY <1>6, <1>7 DEF keep_char

(* The newline of a whole line hands that line on.                         *)
LEMMA HandsOnWhole ==
  ASSUME IInv, NEW n, buf \in Seq(BytesOf(n)), NEW p \in Places, OnTrack(p),
         NEW c \in BytesOf(n), Follows(Dirty, {}, p, At(c)),
         NEW l \in 1 .. Len(lens), Whole(l), c.line = l, c.pos = lens[l] + 1
  PROVE  ~overflow /\ buf # << >> /\ l \in LinesOf(buf)
<1>1. /\ l \notin Dirty /\ lens[l] \in Nat /\ lens[l] >= 1 /\ lens[l] <= LineMax - 1
      /\ LineMax \in Nat /\ At(c) = [line |-> c.line, pos |-> c.pos]
  BY SerialAssumption DEF Whole, Dirty, At
<1>2. p = At(c)
  BY <1>1 DEF Follows
<1>3. p.line = l /\ p.pos = lens[l] + 1 /\ p.pos <= LineMax
  BY <1>1, <1>2
<1>4. Exact(p, buf) /\ ~overflow
  BY <1>1, <1>3 DEF OnTrack
<1>5. Len(buf) \in Nat /\ DOMAIN buf = 1 .. Len(buf)
  BY LenProperties
<1>6. Len(buf) = lens[l] /\ 1 \in DOMAIN buf /\ buf[1].line = l
  BY <1>1, <1>3, <1>4, <1>5 DEF Exact
<1>7. buf # << >>
  BY <1>1, <1>6, EmptySeq
<1>8. l \in LinesOf(buf)
  BY <1>6 DEF LinesOf
<1> QED BY <1>4, <1>7, <1>8

LEMMA FeedSync == ASSUME IInv, TextInv, SyncInv, feed PROVE SyncInv'
<1> DEFINE c == Head(chunk)
<1>1. /\ worker = "Feed" /\ chunk # << >> /\ chunk' = Tail(chunk)
      /\ chunk \in Seq(BytesOf(session)) /\ buf \in Seq(BytesOf(session))
      /\ app' = app /\ Running /\ Running'
      /\ UNCHANGED <<armed, stream, lens, damaged, unended, session>>
  BY DEF feed, IInv, ReceivedInv, Running, appVars, historyVars
<1>2. Busy /\ Busy' /\ app # "Threaded"
  BY <1>1 DEF Busy, IInv, LifeInv, SyncInv
<1>3. Line' = Line /\ Sending' = Sending /\ Dirty' = Dirty /\ Line \in Nat /\ Line = Len(lens)
  BY <1>1, LenProperties DEF Line, Sending, Dirty, IInv, LensInv
<1>4. c \in BytesOf(session) /\ c = chunk[1] /\ 1 \in DOMAIN chunk
  <2>1. c = chunk[1]
    BY <1>1
  <2> HIDE DEF c
  <2>2. c \in BytesOf(session)
    BY <1>1, HeadTailProperties DEF c
  <2> QED BY <1>1, <2>1, <2>2, EmptySeq, LenProperties
<1>5. /\ c.ch = "LF" => c.line \in 1 .. Len(lens) - 1 /\ c.pos = lens[c.line] + 1
      /\ c.line \in Nat
  <2>1. Ended(chunk)
    BY <1>1 DEF TextInv
  <2> QED BY <1>4, <2>1 DEF Ended, BytesOf
<1> PICK p \in Places : TrackedAt(p)
  BY <1>2 DEF SyncInv
<1>6. /\ Follows(Dirty, {}, p, At(c)) /\ Linked(Dirty, {}, After(c), chunk')
      /\ Through(After(c), chunk') = Through(p, chunk)
      /\ After(c) \in Places /\ OnTrack(p)
  BY <1>1, <1>4, LinkHead, PlaceOfByte DEF TrackedAt
<1> PICK q \in Places : q = After(c)
  BY <1>6
<1>7. /\ Linked(Dirty', {}, q, chunk') /\ Linked(Dirty', {}, Through(q, chunk'), stream')
      /\ armed' => Follows(Dirty', {}, Through(Through(q, chunk'), stream'), Sending')
  BY <1>1, <1>3, <1>6 DEF TrackedAt
<1>8. OnTrack(q)' => (\E r \in Places : TrackedAt(r))'
  BY <1>7 DEF TrackedAt
<1>9. ASSUME NEW l \in 1 .. Len(lens), l \in HandedOn \/ Coming(l), ~(c.ch = "LF" /\ c.line = l)
      PROVE  l \in HandedOn \/ Coming(l)'
  <2>1. CASE Newline(chunk, l)
    <3>1. Newline(chunk', l)
      BY <1>1, <1>9, <2>1, NewlineHead
    <3> QED BY <1>2, <3>1 DEF Coming, Newline
  <2>2. CASE ~Newline(chunk, l)
    BY <1>1, <1>2, <1>9, <2>2 DEF Coming, Newline
  <2> QED BY <2>1, <2>2
<1>10. ASSUME NEW l \in 1 .. Len(lens'), Whole(l)' PROVE l \in 1 .. Len(lens) /\ Whole(l)
  BY <1>1, <1>3, <1>10 DEF Whole
<1> HIDE DEF c
<1>11. CASE c.ch = "LF" /\ emit
  <2>1. /\ buf' = << >> /\ overflow' = FALSE /\ DOMAIN buf' = {} /\ Len(buf') = 0
        /\ delivered' = IF ~overflow /\ buf # << >> THEN Append(delivered, buf) ELSE delivered
    BY <1>11 DEF emit
  <2>2. /\ \A k \in HandedOn \cup LinesOf(buf) : k < q.line
        /\ q.pos = 1 /\ q.line = c.line + 1
    BY <1>1, <1>4, <1>6, <1>11, TrackNewline DEF After
  <2>3. /\ HandedOn \subseteq HandedOn' /\ HandedOn' \subseteq HandedOn \cup LinesOf(buf)
        /\ InOrder'
        /\ ~overflow /\ buf # << >> => HandedOn' = HandedOn \cup LinesOf(buf)
    <3>1. CASE ~overflow /\ buf # << >> /\ delivered' = Append(delivered, buf)
      <4>1. buf \in Lines
        BY <1>1, <3>1, EmptySeq, SerialAssumption DEF IInv, LinesInv, ReceivedInv, Running, Lines
      <4>2. InOrder /\ \A k \in HandedOn, l \in LinesOf(buf) : k < l
        BY <1>6 DEF SyncInv, OnTrack
      <4>3. HandedOn' = HandedOn \cup LinesOf(buf) /\ InOrder'
        BY <3>1, <4>1, <4>2, HandedLater
      <4> QED BY <4>3
    <3>2. CASE ~(~overflow /\ buf # << >>) /\ delivered' = delivered
      BY <3>2 DEF HandedOn, SyncInv, InOrder
    <3> QED BY <2>1, <3>1, <3>2
  <2>4. OnTrack(q)'
    <3>1. LinesOf(buf') = {}
      BY <2>1 DEF LinesOf
    <3>2. Exact(q, buf')
      BY <2>1, <2>2 DEF Exact
    <3>3. \A k \in HandedOn' : k < q.line
      BY <2>2, <2>3
    <3> QED BY <2>1, <3>1, <3>2, <3>3 DEF OnTrack
  <2>5. (\A k \in HandedOn : k < Line)'
    <3>1. ASSUME NEW k \in HandedOn' PROVE k < Line
      <4>1. k \in Nat /\ k < c.line + 1
        <5>1. k \in HandedOn \cup LinesOf(buf)
          BY <2>3
        <5> QED BY <1>1, <2>2, <5>1, HandedNumbers, LinesAreNumbers
      <4> QED BY <1>3, <1>5, <1>11, <4>1
    <3> QED BY <1>3, <3>1
  <2>6. ASSUME NEW l \in 1 .. Len(lens'), Whole(l)' PROVE l \in HandedOn' \/ Coming(l)'
    <3>1. l \in 1 .. Len(lens) /\ Whole(l)
      BY <1>10, <2>6
    <3>2. CASE c.line = l
      <4>1. c.pos = lens[l] + 1
        BY <1>5, <1>11, <3>2
      <4>2. ~overflow /\ buf # << >> /\ l \in LinesOf(buf)
        BY <1>1, <1>4, <1>6, <3>1, <3>2, <4>1, HandsOnWhole
      <4> QED BY <2>3, <4>2
    <3>3. CASE c.line # l
      BY <1>9, <2>3, <3>1, <3>3, Reached
    <3> QED BY <3>2, <3>3
  <2> QED BY <1>1, <1>2, <1>8, <2>3, <2>4, <2>5, <2>6 DEF SyncInv
<1>12. CASE c.ch # "LF" /\ UNCHANGED delivered /\ OnTrack(q)'
  <2>1. HandedOn' = HandedOn /\ InOrder' /\ (\A k \in HandedOn : k < Line)'
    BY <1>3, <1>12 DEF HandedOn, SyncInv, InOrder
  <2>2. ASSUME NEW l \in 1 .. Len(lens'), Whole(l)' PROVE l \in HandedOn' \/ Coming(l)'
    BY <1>9, <1>10, <1>12, <2>1, <2>2, Reached
  <2> QED BY <1>1, <1>2, <1>8, <1>12, <2>1, <2>2 DEF SyncInv
<1>13. CASE c.ch = "CR" /\ UNCHANGED asmVars
  <2>1. /\ c.line = q.line /\ \A k \in HandedOn : k < c.line
        /\ \A l \in LinesOf(buf) : l <= c.line
        /\ c.line \notin Dirty => At(c) = p
    BY <1>1, <1>4, <1>6, <1>13, TrackInLine
  <2>2. q = At(c)
    BY <1>13 DEF At, After
  <2>3. HandedOn' = HandedOn /\ UNCHANGED <<buf, overflow, delivered>>
    BY <1>13 DEF HandedOn, asmVars
  <2>4. OnTrack(q)
    BY <1>6, <2>1, <2>2 DEF OnTrack
  <2>5. OnTrack(q)'
    BY <1>3, <2>3, <2>4, StillOnTrack
  <2> QED BY <1>12, <1>13, <2>3, <2>5
<1>14. CASE c.ch = "Char" /\ keep_char(c)
  <2>1. OnTrack(q)'
    BY <1>1, <1>4, <1>6, <1>14, TrackChar
  <2> QED BY <1>12, <1>14, <2>1 DEF keep_char
<1> QED BY <1>11, <1>13, <1>14 DEF feed, c

-----------------------------------------------------------------------------
(* The application.                                                        *)

(* When the interrupt is armed the text is taken up at the place the board *)
(* is sending at.                                                          *)
LEMMA ArmedOnTrack ==
  ASSUME IInv, SyncInv, StartRx PROVE (\E p \in Places : TrackedAt(p))'
<1>1. /\ stream = << >> /\ chunk = << >> /\ buf = << >> /\ overflow = FALSE
      /\ lens[Line] = 0 \/ Line \in damaged
      /\ UNCHANGED <<stream, chunk, buf, overflow, delivered, lens, damaged, unended>>
  BY DEF StartRx, SyncInv, asmVars, historyVars, IInv, LifeInv
<1>2. Sending' = Sending /\ HandedOn' = HandedOn /\ Dirty' = Dirty
  BY <1>1 DEF Line, Sending, HandedOn, Dirty
<1>3. Sending \in Places /\ Sending.line = Line /\ Sending.pos = lens[Line] + 1
  BY DEF Sending, Places, IInv, LensInv, Line
<1> PICK p \in Places : p = Sending
  BY <1>3
<1>4. OnTrack(p)'
  <2>1. LinesOf(buf') = {} /\ DOMAIN buf' = {} /\ Len(buf') = 0 /\ ~overflow'
    BY <1>1 DEF LinesOf
  <2>2. p.line \notin Dirty => Exact(p, buf')
    BY <1>1, <1>3, <2>1 DEF Exact, Dirty
  <2>3. \A k \in HandedOn' : k < p.line
    BY <1>2, <1>3 DEF SyncInv
  <2> QED BY <1>2, <2>1, <2>2, <2>3 DEF OnTrack
<1>5. /\ Linked(Dirty', {}, p, chunk') /\ Linked(Dirty', {}, Through(p, chunk'), stream')
      /\ Follows(Dirty', {}, Through(Through(p, chunk'), stream'), Sending')
  BY <1>1, <1>2 DEF Linked, Through, Follows
<1> QED BY <1>4, <1>5 DEF TrackedAt

LEMMA AppSync ==
  ASSUME IInv, TextInv, SyncInv,
         StartAcquire \/ StartThread \/ StartRx \/ StopRx \/ Stopping
  PROVE  SyncInv'
<1>1. UNCHANGED <<lens, damaged, unended, delivered>>
  BY DEF StartAcquire, StartThread, StartRx, StopRx, Stopping, StopFlag, StopJoin, StopFree,
         asmVars, historyVars
<1>2. Line' = Line /\ Sending' = Sending /\ HandedOn' = HandedOn /\ Dirty' = Dirty
  BY <1>1 DEF Line, Sending, HandedOn, Dirty
<1>3. InOrder' /\ (\A k \in HandedOn : k < Line)'
  BY <1>1, <1>2 DEF SyncInv, InOrder
<1>4. ASSUME NEW l \in 1 .. Len(lens'), Whole(l)'
      PROVE  l \in HandedOn' \/ (Coming(l) /\ Busy)
  <2>1. l \in 1 .. Len(lens) /\ Whole(l)
    BY <1>1, <1>2, <1>4 DEF Whole
  <2> QED BY <1>2, <2>1, Reached DEF Coming
<1>5. CASE StartAcquire \/ StartThread \/ StopJoin \/ StopFree
  <2>1. ~Busy /\ ~Busy'
    BY <1>5 DEF StartAcquire, StartThread, StopJoin, StopFree, IInv, LifeInv, Busy, Running
  <2>2. app' = "Threaded" =>
          /\ stream' = << >> /\ chunk' = << >> /\ buf' = << >> /\ ~overflow'
          /\ lens'[Line'] = 0 \/ Line' \in damaged'
    BY <1>1, <1>2, <1>5
    DEF StartAcquire, StartThread, StopJoin, StopFree, TextInv, IInv, LifeInv, Running
  <2> QED BY <1>3, <1>4, <2>1, <2>2 DEF SyncInv
<1>6. CASE StartRx
  <2>1. Busy' /\ ~Busy /\ app' # "Threaded"
    BY <1>6 DEF StartRx, IInv, LifeInv, Busy, Running
  <2> QED BY <1>3, <1>4, <1>6, <2>1, ArmedOnTrack DEF SyncInv
<1>7. CASE StopRx \/ StopFlag
  <2>1. /\ Busy' <=> Busy
        /\ app' # "Threaded" /\ (armed' => armed)
        /\ UNCHANGED <<stream, chunk, buf, overflow>>
    BY <1>7 DEF StopRx, StopFlag, Busy, Running, asmVars
  <2>2. Busy' => (\E p \in Places : TrackedAt(p))'
    BY <1>2, <2>1 DEF SyncInv, TrackedAt, OnTrack
  <2>3. \A l : Coming(l) => Coming(l)'
    BY <2>1 DEF Coming, Newline
  <2> QED BY <1>3, <1>4, <2>1, <2>2, <2>3 DEF SyncInv
<1> QED BY <1>5, <1>6, <1>7 DEF Stopping

LEMMA SyncStep == IInv /\ TextInv /\ SyncInv /\ [Next]_vars => SyncInv'
<1>1. ASSUME IInv, TextInv, SyncInv, UNCHANGED vars PROVE SyncInv'
  <2>1. /\ Line' = Line /\ Sending' = Sending /\ HandedOn' = HandedOn /\ Dirty' = Dirty
        /\ (Busy' <=> Busy)
    BY <1>1 DEF vars, Line, Sending, HandedOn, Dirty, Busy, Running
  <2>2. (\E p \in Places : TrackedAt(p)) => (\E p \in Places : TrackedAt(p))'
    BY <1>1, <2>1 DEF vars, TrackedAt, OnTrack
  <2>3. \A l : (Whole(l)' => Whole(l)) /\ (Coming(l) => Coming(l)')
    BY <1>1, <2>1 DEF vars, Whole, Coming, Newline
  <2> QED BY <1>1, <2>1, <2>2, <2>3 DEF vars, SyncInv, InOrder
<1> QED BY <1>1, IsrSync, MissedSync, WakeSync, ReceiveSync, DrainedSync, FeedSync, AppSync
        DEF Next, Worker

(* Once the worker has caught up, each line that lost nothing, fits, and   *)
(* follows a newline that was received has been handed on exactly once,    *)
(* and lines are handed on in the order they were sent: the text is        *)
(* unbroken up to the newline of such a line, so that the assembler holds  *)
(* the line exactly when it comes.                                         *)
THEOREM Resynchronizes == Spec => []Resynchronized
<1>1. Spec => [](IInv /\ TextInv)
  BY TextStarts, TextStep, Invariance, PTL DEF Spec
<1>2. Spec => []SyncInv
  BY <1>1, SyncStarts, SyncStep, PTL DEF Spec
<1>3. IInv /\ TextInv /\ SyncInv => Resynchronized
  <2> SUFFICES ASSUME IInv, TextInv, SyncInv PROVE Resynchronized
    OBVIOUS
  <2>1. ASSUME NEW m \in DOMAIN delivered, NEW n \in DOMAIN delivered, m < n,
               NEW l \in LinesOf(delivered[n]), NEW k \in LinesOf(delivered[m])
        PROVE  k < l /\ k <= l
    <3>1. k \in Nat /\ l \in Nat
      BY HandedNumbers DEF HandedOn
    <3>2. k < l
      BY <2>1 DEF SyncInv, InOrder
    <3> QED BY <3>1, <3>2
  <2>2. ASSUME worker = "Wait", stream = << >>, NEW l \in DOMAIN lens, Whole(l)
        PROVE  Cardinality(Deliveries(l)) = 1
    <3>1. chunk = << >> /\ l \in 1 .. Len(lens)
      BY <2>2, LenProperties DEF TextInv, IInv, LensInv
    <3>2. l \in HandedOn
      BY <2>2, <3>1, Reached DEF Coming, Newline
    <3> PICK n \in DOMAIN delivered : l \in LinesOf(delivered[n])
      BY <3>2 DEF HandedOn
    <3>3. DOMAIN delivered \subseteq Nat
      BY LenProperties DEF IInv, LinesInv
    <3>4. ASSUME NEW m \in Deliveries(l) PROVE m = n
      <4>1. m \in DOMAIN delivered /\ l \in LinesOf(delivered[m]) /\ m \in Nat /\ n \in Nat
        BY <3>3 DEF Deliveries
      <4>2. ~(l < l)
        BY <3>1
      <4>3. ~(m < n) /\ ~(n < m)
        BY <2>1, <4>1, <4>2
      <4> QED BY <4>1, <4>3
    <3>5. Deliveries(l) = {n}
      BY <3>4 DEF Deliveries
    <3> QED BY <3>5, FS_Singleton
  <2> QED BY <2>1, <2>2 DEF Resynchronized
<1> QED BY <1>1, <1>2, <1>3, PTL
=============================================================================
