---------------------------- MODULE DevicesProofs ----------------------------
(***************************************************************************)
(* Proofs about the drivers that share no state: the serial port, the      *)
(* clock, the mouse, the text console, the descriptor tables, the numerals *)
(* and the PCI scan; with those of GraphicsLogProofs they make up the      *)
(* invariant of Devices.                                                   *)
(***************************************************************************)
EXTENDS Devices, GraphicsLogProofs, NumberInduction, SequenceTheorems, TLAPS

-----------------------------------------------------------------------------
(***************************************************************************)
(* Serial, for all characters, strings and speeds of the UART.  A byte is  *)
(* written only when the status read before it said that the holding       *)
(* register is empty; the invariant has to say that it still is, which     *)
(* holds because nothing but the driver fills it.                          *)
(***************************************************************************)

(* A positive answer to the poll stays true until the byte is written.     *)
AnswerHolds == ready => thr = <<>> /\ pending # <<>>

SInv == SerialTypeOK /\ AnswerHolds /\ SerialInOrder

(* The strings of a call are sequences of characters.                      *)
LEMMA StringsAreSeqs ==
  ASSUME NEW str \in Strings
  PROVE  str \in Seq(Chars)
<1>1. PICK n \in 1..MaxText : str \in [1..n -> Chars]
  BY DEF Strings
<1>2. n \in Nat
  BY <1>1, SerialAssumption
<1> QED
  BY <1>1, <1>2

(* The first byte of a sequence and the rest make up the sequence.         *)
LEMMA HeadAndTail ==
  ASSUME NEW S, NEW s \in Seq(S), s # <<>>
  PROVE  /\ Head(s) \in S /\ Tail(s) \in Seq(S)
         /\ <<Head(s)>> \o Tail(s) = s
  OBVIOUS

(* Every step of a call and of the UART keeps the inductive invariant.     *)
LEMMA StepSInv == SInv /\ [SerialNext]_serialVars => SInv'
<1> SUFFICES ASSUME SInv, [SerialNext]_serialVars PROVE SInv'
  OBVIOUS
<1> USE DEF SInv, SerialTypeOK, AnswerHolds, SerialInOrder
<1>1. ASSUME NEW str \in Strings, serial_write(str) \/ serial_printf(str)
      PROVE  SInv'
  <2>1. str \in Seq(Chars)
    BY <1>1, StringsAreSeqs
  <2>2. <<"cr", "nl", "nl">> \in Seq(Bytes) /\ <<"cr", "nl">> \in Seq(Bytes)
    BY SerialAssumption DEF Bytes
  <2>3. /\ text' = str /\ newline' \in Seq(Bytes)
        /\ UNCHANGED <<pending, ready, thr, line, asked>>
    BY <1>1, <2>2 DEF serial_write, serial_printf, Call
  <2>4. SerialTypeOK'
    BY <2>1, <2>3
  <2>5. AnswerHolds' /\ SerialInOrder'
    BY <2>3
  <2> QED
    BY <2>4, <2>5
<1>2. CASE NextChar
  <2>1. Head(text) \in Chars /\ text' \in Seq(Chars)
    BY <1>2, HeadAndTail DEF NextChar
  <2>2. <<Head(text)>> \in Seq(Bytes)
    BY <2>1 DEF Bytes
  <2>3. pending' \in Seq(Bytes)
    BY <1>2, <2>2 DEF NextChar
  <2>4. asked' = asked \o pending' /\ pending = <<>>
        /\ UNCHANGED <<newline, ready, thr, line>>
    BY <1>2 DEF NextChar
  <2>5. line \o thr = asked
    BY <2>4
  <2>6. SerialInOrder' /\ asked' \in Seq(Bytes)
    BY <2>3, <2>4, <2>5
  <2>7. AnswerHolds'
    BY <2>4
  <2> QED
    BY <2>1, <2>3, <2>4, <2>6, <2>7
<1>3. CASE Poll
  BY <1>3 DEF Poll
<1>4. CASE Put
  <2>1. thr = <<>> /\ pending # <<>>
    BY <1>4 DEF Put
  <2>2. thr' = <<Head(pending)>> /\ pending' = Tail(pending) /\ ~ready'
        /\ UNCHANGED <<text, newline, line, asked>>
    BY <1>4 DEF Put
  <2>3. /\ thr' \in Seq(Bytes) /\ Len(thr') = 1 /\ pending' \in Seq(Bytes)
        /\ thr' \o pending' = pending
    BY <2>1, <2>2, HeadAndTail
  <2>4. line \o thr = line
    BY <2>1
  <2>5. line' \o thr' \o pending' = line \o (thr' \o pending')
    <3>1. line' = line /\ line \in Seq(Bytes)
      BY <2>2 DEF SInv, SerialTypeOK
    <3>2. thr' \in Seq(Bytes) /\ pending' \in Seq(Bytes)
      BY <2>3
    <3> HIDE DEF SInv
    <3> QED
      BY ONLY <3>1, <3>2, ConcatAssociative
  <2>6. SerialInOrder'
    BY <2>2, <2>3, <2>4, <2>5
  <2>7. ready' = FALSE
    BY <1>4 DEF Put
  <2>8. ready' \in BOOLEAN
    BY <2>7, Zenon
  <2>9. text' \in Seq(Chars) /\ newline' \in Seq(Bytes)
    BY <2>2
  <2>10. line' \in Seq(Bytes) /\ asked' \in Seq(Bytes)
    BY <2>2
  <2>11. SerialTypeOK'
    BY <2>8, <2>9, <2>10, <2>3
  <2>12. AnswerHolds'
    BY <2>2
  <2> QED
    BY <2>6, <2>11, <2>12
<1>5. CASE UartSends
  <2>1. line' = line \o thr /\ thr' = <<>>
        /\ UNCHANGED <<text, newline, pending, ready, asked>> /\ ~ready
    BY <1>5 DEF UartSends
  <2>2. line' \o thr' = line \o thr
    BY <2>1
  <2> QED
    BY <2>1, <2>2
<1>6. CASE UNCHANGED serialVars
  BY <1>6 DEF serialVars
<1> QED
  BY <1>1, <1>2, <1>3, <1>4, <1>5, <1>6 DEF SerialNext

(* The port before the first call.                                         *)
LEMMA InitSInv == SerialInit => SInv
<1> SUFFICES ASSUME SerialInit PROVE SInv
  OBVIOUS
<1>1. <<>> \in Seq(Chars) /\ <<>> \in Seq(Bytes) /\ Len(<<>>) = 0
  OBVIOUS
<1>2. ready = FALSE
  BY DEF SerialInit
<1>3. ready \in BOOLEAN
  BY <1>2, Zenon
<1>4. /\ text \in Seq(Chars) /\ newline \in Seq(Bytes)
      /\ pending \in Seq(Bytes) /\ line \in Seq(Bytes) /\ asked \in Seq(Bytes)
      /\ thr \in Seq(Bytes) /\ Len(thr) <= 1
  BY <1>1 DEF SerialInit
<1>5. SerialTypeOK /\ AnswerHolds
  BY <1>2, <1>3, <1>4 DEF SerialTypeOK, AnswerHolds
<1>6. <<>> \o <<>> = <<>>
  OBVIOUS
<1>7. SerialInOrder
  BY <1>6 DEF SerialInit, SerialInOrder
<1> QED
  BY <1>5, <1>7 DEF SInv

(* No byte is lost, repeated or overtaken on its way to the line.          *)
THEOREM BytesStayInOrder == SerialSpec => []SerialInOrder
<1>1. SerialInit => SInv
  BY InitSInv
<1>2. SInv /\ [SerialNext]_serialVars => SInv'
  BY StepSInv
<1>3. SInv => SerialInOrder
  BY DEF SInv
<1> QED
  BY <1>1, <1>2, <1>3, PTL DEF SerialSpec

-----------------------------------------------------------------------------
(***************************************************************************)
(* Clock, for words of any width, sleeps of any length and ticks at any    *)
(* time.  What a pair of loads returns lies between the ticks at the call  *)
(* and the ticks now, unless a carry came between the two; while the       *)
(* second load is still to come this has to be said of the half that has   *)
(* been loaded (FirstHalf).                                                *)
(***************************************************************************)

Asleep == sleep_at # "awake"

(* Seen with the upper half that will be loaded, the lower half is of a    *)
(* time between the call and now; an upper half is the one of now.         *)
FirstHalf ==
  IF low_first
  THEN LET seen == first_load + (Half * (ticks \div Half))
       IN  started <= seen /\ seen <= ticks
  ELSE first_load = ticks \div Half

Reads ==
  /\ Asleep => started <= ticks
  /\ target # -1 => target >= started + ms
  /\ sleep_at = "second" => FirstHalf
  /\ sleep_at = "compare" => value <= ticks
  /\ sleep_at = "done" => ticks >= target

Known ==
  /\ target = -1 \/ target >= 0
  /\ sleep_at \in {"compare", "hlt", "done"} => target # -1
  /\ ~Asleep => target = -1

CInv == ClockTypeOK /\ Known /\ (~torn => Reads)

-----------------------------------------------------------------------------
(* A number is made up of its two halves.                                  *)
LEMMA Halves ==
  ASSUME NEW t \in Nat
  PROVE  /\ (Half * (t \div Half)) + (t % Half) = t
         /\ t % Half \in Nat /\ t \div Half \in Nat
BY ClockAssumption

(* The sleep begins: no read has been made.                                *)
LEMMA KsleepCInv ==
  ASSUME CInv, NEW t \in 0..MaxMs, Ksleep(t)
  PROVE  CInv'
<1> USE DEF CInv, Ksleep
<1>1. ClockTypeOK'
  BY DEF ClockTypeOK
<1>2. Known' /\ target = -1
  BY DEF Known, Asleep
<1>3. Reads'
  BY <1>2 DEF Reads, Asleep, ClockTypeOK
<1> QED
  BY <1>1, <1>2, <1>3

(* The first load.                                                         *)
LEMMA LoadFirstCInv ==
  ASSUME CInv, LoadFirst
  PROVE  CInv'
<1>1. /\ sleep_at = "first" /\ sleep_at' = "second"
      /\ first_load' = IF low_first THEN ticks % Half ELSE ticks \div Half
      /\ UNCHANGED ms /\ UNCHANGED target /\ UNCHANGED low_first /\ UNCHANGED value
      /\ UNCHANGED ticks /\ UNCHANGED started /\ UNCHANGED torn
  BY DEF LoadFirst
<1>2. ticks \in Nat /\ ticks % Half \in Nat /\ ticks \div Half \in Nat
      /\ (Half * (ticks \div Half)) + (ticks % Half) = ticks
      /\ Half * (ticks \div Half) \in Nat
  BY Halves, ClockAssumption DEF CInv, ClockTypeOK
<1>3. ClockTypeOK'
  BY <1>1, <1>2 DEF CInv, ClockTypeOK
<1>4. Known'
  BY <1>1 DEF CInv, Known, Asleep
<1>5. ASSUME ~torn PROVE Reads'
  <2>1. started <= ticks /\ started \in Nat
    BY <1>1, <1>5 DEF CInv, Reads, Asleep, ClockTypeOK
  <2>2. FirstHalf'
    BY <1>1, <1>2, <2>1 DEF FirstHalf
  <2> QED
    BY <1>1, <1>5, <2>1, <2>2 DEF CInv, Reads, Asleep
<1> QED
  BY <1>1, <1>3, <1>4, <1>5 DEF CInv

(* The second load: the value is one that sys_ticks has had since ksleep   *)
(* was called.                                                             *)
LEMMA LoadSecondCInv ==
  ASSUME CInv, LoadSecond
  PROVE  CInv'
<1>1. /\ sleep_at = "second"
      /\ value' = IF low_first THEN first_load + Half * (ticks \div Half)
                  ELSE first_load * Half + (ticks % Half)
      /\ UNCHANGED ms /\ UNCHANGED low_first /\ UNCHANGED first_load
      /\ UNCHANGED ticks /\ UNCHANGED started /\ UNCHANGED torn
  BY DEF LoadSecond
<1>2. \/ target = -1 /\ target' = value' + ms /\ sleep_at' = "first"
      \/ target # -1 /\ target' = target /\ sleep_at' = "compare"
  BY DEF LoadSecond
<1>3. ticks \in Nat /\ ticks % Half \in Nat /\ ticks \div Half \in Nat
      /\ (Half * (ticks \div Half)) + (ticks % Half) = ticks
      /\ first_load \in Nat /\ ms \in Nat /\ target \in Int /\ started \in Nat
  BY Halves, ClockAssumption DEF CInv, ClockTypeOK
<1>4. value' \in Nat
  BY <1>1, <1>3, ClockAssumption
<1>5. ClockTypeOK'
  BY <1>1, <1>2, <1>3, <1>4 DEF CInv, ClockTypeOK
<1>6. Known'
  BY <1>1, <1>2, <1>3, <1>4 DEF CInv, Known, Asleep
<1>7. ASSUME ~torn PROVE Reads'
  <2>1. FirstHalf /\ started <= ticks /\ (target # -1 => target >= started + ms)
    BY <1>1, <1>7 DEF CInv, Reads, Asleep
  <2>2. started <= value' /\ value' <= ticks
    <3>1. CASE low_first
      BY <3>1, <1>1, <2>1 DEF FirstHalf
    <3>2. CASE ~low_first
      <4>1. first_load = ticks \div Half
        BY <3>2, <2>1 DEF FirstHalf
      <4>2. value' = first_load * Half + (ticks % Half)
        BY <3>2, <1>1
      <4>3. value' = ticks
        BY <4>1, <4>2, <1>3, ClockAssumption
      <4> QED
        BY <4>3, <2>1, <1>3
    <3> QED
      BY <3>1, <3>2
  <2> QED
    BY <1>1, <1>2, <1>3, <1>4, <2>1, <2>2 DEF Reads, Asleep
<1> QED
  BY <1>1, <1>5, <1>6, <1>7 DEF CInv

(* The comparison ends the sleep when the value, and so sys_ticks, has     *)
(* reached the target.                                                     *)
LEMMA CompareCInv ==
  ASSUME CInv, Compare
  PROVE  CInv'
<1>1. /\ sleep_at = "compare"
      /\ sleep_at' = IF value < target THEN "hlt" ELSE "done"
      /\ UNCHANGED ms /\ UNCHANGED target /\ UNCHANGED low_first /\ UNCHANGED first_load
      /\ UNCHANGED value /\ UNCHANGED ticks /\ UNCHANGED started /\ UNCHANGED torn
  BY DEF Compare
<1>2. ClockTypeOK'
  BY <1>1 DEF CInv, ClockTypeOK
<1>3. Known'
  BY <1>1 DEF CInv, Known, Asleep
<1>4. ASSUME ~torn PROVE Reads'
  BY <1>1, <1>4, ClockAssumption DEF CInv, Reads, Asleep, ClockTypeOK
<1> QED
  BY <1>1, <1>2, <1>3, <1>4 DEF CInv

(* A tick keeps a half that has been loaded true, or the read is torn.     *)
LEMMA TimerCInv ==
  ASSUME CInv, timer_handler
  PROVE  CInv'
<1>1. /\ ticks' = IF ticks < TickLimit THEN ticks + 1 ELSE ticks
      /\ torn' = (torn \/ (sleep_at = "second" /\ ticks' \div Half # ticks \div Half))
      /\ sleep_at' = IF sleep_at = "hlt" THEN "first" ELSE sleep_at
      /\ UNCHANGED ms /\ UNCHANGED target /\ UNCHANGED low_first /\ UNCHANGED first_load
      /\ UNCHANGED value /\ UNCHANGED started
  BY DEF timer_handler, Wakes
<1>2. /\ ticks \in 0..MaxTicks /\ TickLimit \in Nat /\ TickLimit <= MaxTicks
      /\ MaxTicks \in Nat /\ started \in Nat /\ target \in Int /\ value \in Nat
  BY ClockAssumption DEF TickLimit, CInv, ClockTypeOK
<1>3. ticks' \in 0..MaxTicks /\ ticks <= ticks'
  BY <1>1, <1>2
<1>4. torn' \in BOOLEAN
  BY <1>1, Zenon
<1>5. ClockTypeOK'
  BY <1>1, <1>3, <1>4 DEF CInv, ClockTypeOK
<1>6. Known'
  BY <1>1 DEF CInv, Known, Asleep
<1>7. ASSUME ~torn' PROVE Reads'
  <2>1. Reads /\ (sleep_at = "second" => ticks' \div Half = ticks \div Half)
    BY <1>1, <1>7 DEF CInv
  <2>2. sleep_at = "second" => FirstHalf'
    <3> SUFFICES ASSUME sleep_at = "second" PROVE FirstHalf'
      OBVIOUS
    <3>1. FirstHalf /\ ticks' \div Half = ticks \div Half
      BY <2>1 DEF Reads
    <3>2. first_load + (Half * (ticks \div Half)) \in Int
      BY <1>2, Halves, ClockAssumption DEF CInv, ClockTypeOK
    <3> QED
      BY <3>1, <3>2, <1>1, <1>2, <1>3 DEF FirstHalf
  <2> QED
    BY <1>1, <1>2, <1>3, <2>1, <2>2 DEF Reads, Asleep
<1> QED
  BY <1>5, <1>6, <1>7 DEF CInv

(* Every step of the sleeper, the timer and the other interrupts.          *)
LEMMA StepCInv == CInv /\ [ClockNext]_clockVars => CInv'
<1> SUFFICES ASSUME CInv, [ClockNext]_clockVars PROVE CInv'
  OBVIOUS
<1>1. CASE OtherInterrupt
  <2>1. sleep_at = "hlt" /\ sleep_at' = "first"
        /\ UNCHANGED <<ms, target, low_first, first_load, value, ticks, started, torn>>
    BY <1>1 DEF OtherInterrupt, Wakes
  <2> QED
    BY <2>1 DEF CInv, ClockTypeOK, Known, Reads, Asleep
<1>2. CASE UNCHANGED clockVars
  BY <1>2 DEF clockVars, CInv, ClockTypeOK, Known, Reads, FirstHalf, Asleep
<1> QED
  BY <1>1, <1>2, KsleepCInv, LoadFirstCInv, LoadSecondCInv, CompareCInv, TimerCInv
     DEF ClockNext, Sleeper

(* Awake, with nothing read.                                               *)
LEMMA InitCInv == ClockInit => CInv
<1> SUFFICES ASSUME ClockInit PROVE CInv
  OBVIOUS
<1>1. low_first \in BOOLEAN /\ torn \in BOOLEAN
  BY Zenon DEF ClockInit
<1>2. ClockTypeOK
  BY <1>1, ClockAssumption DEF ClockInit, ClockTypeOK
<1>3. Known /\ Reads
  BY DEF ClockInit, Known, Reads, Asleep
<1> QED
  BY <1>2, <1>3 DEF CInv

(* The inductive invariant holds in every state of a sleep.                *)
THEOREM ClockInvariance == ClockSpec => []CInv
<1>1. ClockInit => CInv
  BY InitCInv
<1>2. CInv /\ [ClockNext]_clockVars => CInv'
  BY StepCInv
<1> QED
  BY <1>1, <1>2, PTL DEF ClockSpec

(* A sleep that has ended has waited for its target, which no read has set *)
(* too early.                                                              *)
LEMMA CInvSleeps == CInv => SleepsLongEnough
<1> SUFFICES ASSUME CInv, sleep_at = "done", ~torn PROVE ticks - started >= ms
  BY DEF SleepsLongEnough
<1>1. ticks >= target /\ target >= started + ms
  BY DEF CInv, Known, Reads
<1> QED
  BY <1>1, ClockAssumption DEF CInv, ClockTypeOK

(* ksleep never returns early, except by a torn read.                      *)
THEOREM NeverEarly == ClockSpec => []SleepsLongEnough
BY CInvSleeps, ClockInvariance, PTL

-----------------------------------------------------------------------------
(***************************************************************************)
(* MousePackets, for bytes, screens and movements of any size: as long as  *)
(* no byte is lost, the pointer is where the low bytes of the reports have *)
(* led it.  The bytes that have come and those still to come     *)
(* always make up one packet, and that packet leads from where the pointer *)
(* is to where the mouse is.                                               *)
(***************************************************************************)

(* Between two packets.                                                    *)
Level ==
  /\ sending = <<>> /\ mouse_packet = <<>>
  /\ mouse_x = hand_x /\ mouse_y = hand_y

(* Within the packet of a movement.                                        *)
InPacket(dx, dy) ==
  /\ hand_x = Clamp(mouse_x + InByte(dx), SCREEN_WIDTH)
  /\ hand_y = Clamp(mouse_y - InByte(dy), SCREEN_HEIGHT)
  /\ \/ mouse_packet = <<>> /\ sending = <<Buttons, dx % Byte, dy % Byte>>
     \/ mouse_packet = <<Buttons>> /\ sending = <<dx % Byte, dy % Byte>>
     \/ mouse_packet = <<Buttons, dx % Byte>> /\ sending = <<dy % Byte>>

MInv ==
  /\ MouseTypeOK
  /\ ~byte_lost => Level \/ \E dx, dy \in Moves : InPacket(dx, dy)

-----------------------------------------------------------------------------
(* A byte is a byte, and a position stays on the screen.                   *)
LEMMA BytesAndPositions ==
  ASSUME NEW v \in Int, NEW size \in Nat \ {0}
  PROVE  v % Byte \in 0..(Byte - 1) /\ Clamp(v, size) \in 0..(size - 1)
BY MouseAssumption DEF Clamp

(* A byte cast to int8_t is an integer: the sums that use it are sums.     *)
LEMMA Int8IsInt ==
  ASSUME NEW v \in 0..(Byte - 1)
  PROVE  int8(v) \in Int
BY MouseAssumption DEF int8

(* A remainder is what is left of a multiple.                              *)
LEMMA RemainderOf ==
  ASSUME NEW n \in Nat \ {0}, NEW q \in Int, NEW b \in 0..(n - 1)
  PROVE  ((n * q) + b) % n = b
<1> DEFINE a == (n * q) + b
           p == a \div n
           d == q - p
<1>1. a \in Int /\ p \in Int /\ d \in Int
  OBVIOUS
<1>2. a = (n * p) + (a % n) /\ a % n \in 0..(n - 1)
  BY <1>1
<1>3. n * d = (n * q) - (n * p)
  BY <1>1
<1>4. (n * d) + b = a % n
  BY <1>1, <1>2, <1>3
<1> HIDE DEF a, p, d
<1>5. d < 1
  <2> SUFFICES ASSUME d >= 1 PROVE FALSE
    BY <1>1
  <2>1. n * d >= n
    BY <1>1
  <2> QED
    BY <2>1, <1>1, <1>2, <1>4
<1>6. d > -1
  <2> SUFFICES ASSUME d <= -1 PROVE FALSE
    BY <1>1
  <2>1. n * d <= -n
    BY <1>1
  <2> QED
    BY <2>1, <1>1, <1>2, <1>4
<1>7. d = 0
  BY <1>1, <1>5, <1>6
<1>8. n * d = 0
  BY <1>7
<1> QED
  BY <1>4, <1>8 DEF a

(* The cast to int8_t of the low byte of a movement.                       *)
LEMMA CastBack ==
  ASSUME NEW m \in Int
  PROVE  int8(m % Byte) = InByte(m) /\ InByte(m) \in Int
<1> DEFINE h == Byte \div 2
           r == m % Byte
           q == m \div Byte
<1>1. /\ Byte \in Nat /\ Byte > 1 /\ h \in Nat /\ r \in 0..(Byte - 1)
      /\ (Byte - 1) \div 2 = Byte - 1 - h
  BY MouseAssumption
<1>2. /\ m = (Byte * q) + r /\ q \in Int /\ q + 1 \in Int
      /\ Byte * (q + 1) = (Byte * q) + Byte
  BY <1>1
<1>3. Byte \in Nat \ {0}
  BY <1>1
<1> HIDE DEF h, r, q
<1>4. (m + h) % Byte = IF r + h < Byte THEN r + h ELSE r + h - Byte
  <2>1. CASE r + h < Byte
    <3>1. PICK b \in 0..(Byte - 1) : b = r + h
      BY <1>1, <2>1
    <3>2. m + h = (Byte * q) + b
      BY <1>1, <1>2, <3>1
    <3>3. ((Byte * q) + b) % Byte = b
      BY <1>2, <1>3, RemainderOf
    <3> QED
      BY <2>1, <3>1, <3>2, <3>3
  <2>2. CASE r + h >= Byte
    <3>1. PICK b \in 0..(Byte - 1) : b = r + h - Byte
      BY <1>1, <2>2
    <3>2. m + h = (Byte * (q + 1)) + b
      BY <1>1, <1>2, <3>1
    <3>3. PICK p \in Int : p = q + 1
      BY <1>2
    <3>4. ((Byte * p) + b) % Byte = b
      BY <1>3, RemainderOf
    <3>5. ~(r + h < Byte)
      BY <1>1, <2>2
    <3> QED
      BY <3>1, <3>2, <3>3, <3>4, <3>5
  <2> QED
    BY <1>1, <2>1, <2>2
<1>5. int8(r) = IF r + h < Byte THEN r ELSE r - Byte
  BY <1>1 DEF int8
<1> QED
  BY <1>1, <1>4, <1>5 DEF InByte, h, r

(* The parts of a sequence belong to its set.                              *)
LEMMA HeadTail ==
  ASSUME NEW S, NEW s \in Seq(S), s # <<>>
  PROVE  Head(s) \in S /\ Tail(s) \in Seq(S) /\ Len(Tail(s)) = Len(s) - 1
OBVIOUS

(* What stands at a place of a sequence is what the sequence is over.      *)
LEMMA ElementOf ==
  ASSUME NEW S, NEW s \in Seq(S), NEW i \in 1..Len(s)
  PROVE  s[i] \in S
OBVIOUS

(* The bytes of a packet, one after the other.                             *)
LEMMA AppendSecond ==
  ASSUME NEW a, NEW b
  PROVE  Append(<<a>>, b) = <<a, b>>
<1> DEFINE t == Append(<<a>>, b)
<1>1. <<a>> \in Seq({a, b}) /\ Len(<<a>>) = 1
  OBVIOUS
<1>2. t \in Seq({a, b}) /\ Len(t) = 2 /\ t[1] = a /\ t[2] = b
  BY <1>1
<1>3. t = <<t[1], t[2]>>
  <2> HIDE DEF t
  <2> QED
    BY <1>2
<1> QED
  BY <1>2, <1>3

(* The third byte completes the packet.                                    *)
LEMMA AppendThird ==
  ASSUME NEW a, NEW b, NEW c
  PROVE  Append(<<a, b>>, c) = <<a, b, c>>
<1> DEFINE t == Append(<<a, b>>, c)
<1>1. <<a, b>> \in Seq({a, b, c}) /\ Len(<<a, b>>) = 2
  OBVIOUS
<1>2. t \in Seq({a, b, c}) /\ Len(t) = 3 /\ t[1] = a /\ t[2] = b /\ t[3] = c
  BY <1>1
<1>3. t = <<t[1], t[2], t[3]>>
  <2> HIDE DEF t
  <2> QED
    BY <1>2
<1> QED
  BY <1>2, <1>3

(* What the handler leaves of a packet, and what it does to the pointer.   *)
LEMMA HandlerTypes ==
  ASSUME MouseTypeOK, mouse_irq_handler
  PROVE  MouseTypeOK'
<1> DEFINE packet == Append(mouse_packet, Head(sending))
<1>1. /\ mouse_packet \in Seq(0..(Byte - 1)) /\ Len(mouse_packet) <= 2
      /\ sending \in Seq(0..(Byte - 1)) /\ Len(sending) <= 3 /\ sending # <<>>
      /\ mouse_x \in Int /\ mouse_y \in Int
  BY MouseAssumption DEF MouseTypeOK, mouse_irq_handler
<1>2. /\ Head(sending) \in 0..(Byte - 1) /\ Tail(sending) \in Seq(0..(Byte - 1))
      /\ Len(Tail(sending)) <= 3
  <2> DEFINE Values == 0..(Byte - 1)
  <2>1. sending \in Seq(Values) /\ sending # <<>> /\ Len(sending) <= 3
    BY <1>1
  <2> HIDE DEF Values
  <2>2. Head(sending) \in Values /\ Tail(sending) \in Seq(Values)
        /\ Len(Tail(sending)) = Len(sending) - 1 /\ Len(sending) \in Nat
    BY <2>1, HeadTail
  <2> QED
    BY <2>1, <2>2 DEF Values
<1>3. packet \in Seq(0..(Byte - 1)) /\ Len(packet) = Len(mouse_packet) + 1
  BY <1>1, <1>2
<1>4. /\ sending' = Tail(sending)
      /\ UNCHANGED hand_x /\ UNCHANGED hand_y /\ UNCHANGED byte_lost
  BY DEF mouse_irq_handler
<1>5. CASE Len(packet) \in {3, 4}
  <2>1. process_packet(packet) /\ mouse_packet' = <<>>
    BY <1>5 DEF mouse_irq_handler
  <2>2. packet[2] \in 0..(Byte - 1) /\ packet[3] \in 0..(Byte - 1)
    <3>1. 2 \in 1..Len(packet) /\ 3 \in 1..Len(packet)
      BY <1>5
    <3> HIDE DEF packet
    <3> QED
      BY <1>3, <3>1, ElementOf
  <2>3. int8(packet[2]) \in Int /\ int8(packet[3]) \in Int
    BY <2>2, Int8IsInt
  <2> HIDE DEF packet
  <2>4. mouse_x' \in 0..(SCREEN_WIDTH - 1) /\ mouse_y' \in 0..(SCREEN_HEIGHT - 1)
    <3>1. mouse_x + int8(packet[2]) \in Int /\ mouse_y - int8(packet[3]) \in Int
      BY <2>3, <1>1
    <3>2. /\ mouse_x' = Clamp(mouse_x + int8(packet[2]), SCREEN_WIDTH)
          /\ mouse_y' = Clamp(mouse_y - int8(packet[3]), SCREEN_HEIGHT)
      BY <2>1 DEF process_packet
    <3> QED
      BY <3>1, <3>2, BytesAndPositions, MouseAssumption
  <2> QED
    BY <1>2, <1>4, <2>1, <2>4 DEF MouseTypeOK
<1>6. CASE Len(packet) \notin {3, 4}
  <2>1. mouse_packet' = packet /\ UNCHANGED mouse_x /\ UNCHANGED mouse_y
    BY <1>6 DEF mouse_irq_handler
  <2>2. Len(packet) <= 2
    BY <1>1, <1>3, <1>6
  <2> HIDE DEF packet
  <2> QED
    BY <1>2, <1>3, <1>4, <2>1, <2>2 DEF MouseTypeOK
<1> QED
  BY <1>5, <1>6

(* The packet's first two bytes are kept, the third one moves the pointer. *)
LEMMA HandlerFollows ==
  ASSUME MouseTypeOK, mouse_irq_handler,
         NEW dx \in Moves, NEW dy \in Moves, InPacket(dx, dy)
  PROVE  (Level \/ InPacket(dx, dy))'
<1> DEFINE packet == Append(mouse_packet, Head(sending))
<1>1. /\ sending' = Tail(sending)
      /\ UNCHANGED hand_x /\ UNCHANGED hand_y
  BY DEF mouse_irq_handler
<1>2. /\ Len(packet) \in {3, 4} => process_packet(packet) /\ mouse_packet' = <<>>
      /\ Len(packet) \notin {3, 4} =>
           mouse_packet' = packet /\ UNCHANGED mouse_x /\ UNCHANGED mouse_y
  BY DEF mouse_irq_handler
<1>3. CASE mouse_packet = <<>> /\ sending = <<Buttons, dx % Byte, dy % Byte>>
  <2>1. packet = <<Buttons>> /\ Len(packet) = 1
    BY <1>3
  <2>2. sending' = <<dx % Byte, dy % Byte>>
    BY <1>1, <1>3
  <2> HIDE DEF packet
  <2>3. mouse_packet' = packet /\ UNCHANGED mouse_x /\ UNCHANGED mouse_y
    BY <1>2, <2>1
  <2> QED
    BY <1>1, <2>1, <2>2, <2>3 DEF InPacket
<1>4. CASE mouse_packet = <<Buttons>> /\ sending = <<dx % Byte, dy % Byte>>
  <2>1. packet = <<Buttons, dx % Byte>> /\ Len(packet) = 2
    BY <1>4, AppendSecond
  <2>2. sending' = <<dy % Byte>>
    BY <1>1, <1>4
  <2> HIDE DEF packet
  <2>3. mouse_packet' = packet /\ UNCHANGED mouse_x /\ UNCHANGED mouse_y
    BY <1>2, <2>1
  <2> QED
    BY <1>1, <2>1, <2>2, <2>3 DEF InPacket
<1>5. CASE mouse_packet = <<Buttons, dx % Byte>> /\ sending = <<dy % Byte>>
  <2>1. /\ packet = <<Buttons, dx % Byte, dy % Byte>> /\ sending' = <<>>
        /\ Len(packet) = 3 /\ packet[2] = dx % Byte /\ packet[3] = dy % Byte
    <3>1. packet = <<Buttons, dx % Byte, dy % Byte>>
      BY <1>5, AppendThird
    <3> QED
      BY <1>1, <1>5, <3>1
  <2>2. int8(dx % Byte) = InByte(dx) /\ int8(dy % Byte) = InByte(dy)
    BY CastBack, MouseAssumption
  <2>3. /\ mouse_x' = Clamp(mouse_x + InByte(dx), SCREEN_WIDTH)
        /\ mouse_y' = Clamp(mouse_y - InByte(dy), SCREEN_HEIGHT)
        /\ mouse_packet' = <<>>
    BY <1>2, <2>1, <2>2 DEF process_packet
  <2> QED
    BY <1>1, <2>1, <2>3 DEF Level, InPacket
<1> QED
  BY <1>3, <1>4, <1>5 DEF InPacket

(* A report starts a packet that leads to where the mouse goes.            *)
LEMMA ReportMInv ==
  ASSUME MInv, NEW dx \in Moves, NEW dy \in Moves, Report(dx, dy)
  PROVE  MInv'
<1>1. /\ sending = <<>> /\ sending' = <<Buttons, dx % Byte, dy % Byte>>
      /\ hand_x' = Clamp(hand_x + InByte(dx), SCREEN_WIDTH)
      /\ hand_y' = Clamp(hand_y - InByte(dy), SCREEN_HEIGHT)
      /\ UNCHANGED mouse_packet /\ UNCHANGED mouse_x /\ UNCHANGED mouse_y
      /\ UNCHANGED byte_lost
  BY DEF Report
<1>2. /\ dx \in Int /\ dy \in Int /\ hand_x \in Int /\ hand_y \in Int
      /\ hand_x + InByte(dx) \in Int /\ hand_y - InByte(dy) \in Int
  <2>1. InByte(dx) \in Int /\ InByte(dy) \in Int
    BY CastBack, MouseAssumption
  <2> QED
    BY <2>1, MouseAssumption DEF MInv, MouseTypeOK
<1>3. /\ dx % Byte \in 0..(Byte - 1) /\ dy % Byte \in 0..(Byte - 1)
      /\ Buttons \in 0..(Byte - 1)
      /\ hand_x' \in 0..(SCREEN_WIDTH - 1) /\ hand_y' \in 0..(SCREEN_HEIGHT - 1)
  <2>1. dx % Byte \in 0..(Byte - 1) /\ dy % Byte \in 0..(Byte - 1)
    BY <1>2, BytesAndPositions, MouseAssumption
  <2>2. Buttons \in 0..(Byte - 1)
    BY MouseAssumption DEF Buttons
  <2>3. /\ Clamp(hand_x + InByte(dx), SCREEN_WIDTH) \in 0..(SCREEN_WIDTH - 1)
        /\ Clamp(hand_y - InByte(dy), SCREEN_HEIGHT) \in 0..(SCREEN_HEIGHT - 1)
    BY <1>2, BytesAndPositions, MouseAssumption
  <2> QED
    BY <1>1, <2>1, <2>2, <2>3
<1>4. sending' \in Seq(0..(Byte - 1)) /\ Len(sending') <= 3
  BY <1>1, <1>3
<1>5. MouseTypeOK'
  BY <1>1, <1>3, <1>4 DEF MInv, MouseTypeOK
<1>6. ASSUME ~byte_lost PROVE InPacket(dx, dy)'
  <2>1. Level
    BY <1>1, <1>6 DEF MInv, InPacket
  <2> QED
    BY <1>1, <2>1 DEF Level, InPacket
<1> QED
  BY <1>1, <1>5, <1>6 DEF MInv

(* Every report, every byte that comes or is lost keeps the invariant.     *)
LEMMA StepMInv == MInv /\ [MouseNext]_mouseVars => MInv'
<1> SUFFICES ASSUME MInv, [MouseNext]_mouseVars PROVE MInv'
  OBVIOUS
<1>1. CASE mouse_irq_handler
  <2>1. MouseTypeOK' /\ UNCHANGED byte_lost /\ sending # <<>>
    BY <1>1, HandlerTypes DEF MInv, mouse_irq_handler
  <2>2. ASSUME ~byte_lost PROVE Level' \/ \E dx, dy \in Moves : InPacket(dx, dy)'
    <3>1. PICK dx \in Moves, dy \in Moves : InPacket(dx, dy)
      BY <2>1, <2>2 DEF MInv, Level
    <3>2. (Level \/ InPacket(dx, dy))'
      BY <1>1, <2>2, <3>1, HandlerFollows DEF MInv
    <3> QED
      BY <3>2
  <2> QED
    BY <2>1, <2>2 DEF MInv
<1>2. CASE ByteLost
  <2>1. /\ sending # <<>> /\ sending' = Tail(sending) /\ byte_lost' = TRUE
        /\ UNCHANGED mouse_packet /\ UNCHANGED mouse_x /\ UNCHANGED mouse_y
        /\ UNCHANGED hand_x /\ UNCHANGED hand_y
    BY <1>2 DEF ByteLost
  <2>2. sending' \in Seq(0..(Byte - 1)) /\ Len(sending') <= 3
    BY <2>1 DEF MInv, MouseTypeOK
  <2>3. byte_lost' \in BOOLEAN
    BY <2>1, Zenon
  <2> QED
    BY <2>1, <2>2, <2>3 DEF MInv, MouseTypeOK
<1>3. CASE UNCHANGED mouseVars
  BY <1>3 DEF mouseVars, MInv, MouseTypeOK, Level, InPacket
<1> QED
  BY <1>1, <1>2, <1>3, ReportMInv DEF MouseNext

(* The mouse at rest in the middle of the screen.                          *)
LEMMA InitMInv == MouseInit => MInv
<1> SUFFICES ASSUME MouseInit PROVE MInv
  OBVIOUS
<1>1. byte_lost \in BOOLEAN
  BY Zenon DEF MouseInit
<1>2. SCREEN_WIDTH \div 2 \in 0..(SCREEN_WIDTH - 1)
      /\ SCREEN_HEIGHT \div 2 \in 0..(SCREEN_HEIGHT - 1)
  BY MouseAssumption
<1>3. MouseTypeOK
  BY <1>1, <1>2 DEF MouseInit, MouseTypeOK
<1> QED
  BY <1>3 DEF MouseInit, MInv, Level

(* Between two reports everything has arrived.                             *)
LEMMA MInvFollows == MInv => FollowsTheMouse
BY DEF MInv, Level, InPacket, FollowsTheMouse

(* The inductive invariant holds in every state of mouse and driver.       *)
THEOREM MouseInvariance == MouseSpec => []MInv
<1>1. MouseInit => MInv
  BY InitMInv
<1>2. MInv /\ [MouseNext]_mouseVars => MInv'
  BY StepMInv
<1> QED
  BY <1>1, <1>2, PTL DEF MouseSpec

(* Until a byte is lost the pointer is where the signed low bytes of the   *)
(* movements lead, for every sequence of movements of whatever size.       *)
THEOREM PointerFollows == MouseSpec => []FollowsTheMouse
BY MInvFollows, MouseInvariance, PTL

-----------------------------------------------------------------------------
(***************************************************************************)
(* TextConsole, for screens of any size: the cursor is never past the end  *)
(* of a row or of the screen, so that a character is never written outside *)
(* of the text buffer.                                                     *)
(***************************************************************************)

(* A cell of the screen is a cell of the buffer.                           *)
LEMMA CellInBuffer ==
  ASSUME NEW x \in 0..(VGA_WIDTH - 1), NEW y \in 0..(VGA_HEIGHT - 1)
  PROVE  vga_at(x, y) \in 0..(VGA_WIDTH * VGA_HEIGHT - 1)
<1>1. /\ VGA_WIDTH \in Nat \ {0} /\ VGA_HEIGHT \in Nat \ {0} /\ x \in Int /\ y \in Int
      /\ 0 <= x /\ x <= VGA_WIDTH - 1 /\ 0 <= y /\ y + 1 <= VGA_HEIGHT
  BY TextAssumption
<1>2. 0 <= y * VGA_WIDTH
  BY <1>1
<1>3. (y + 1) * VGA_WIDTH <= VGA_HEIGHT * VGA_WIDTH
  BY <1>1
<1>4. (y + 1) * VGA_WIDTH = y * VGA_WIDTH + VGA_WIDTH
  BY <1>1
<1>5. VGA_HEIGHT * VGA_WIDTH = VGA_WIDTH * VGA_HEIGHT /\ y * VGA_WIDTH \in Int
      /\ VGA_WIDTH * VGA_HEIGHT \in Int
  BY <1>1
<1> QED
  BY <1>1, <1>2, <1>3, <1>4, <1>5 DEF vga_at

(* The cursor starts in the first cell.                                    *)
LEMMA InitText == TextInit => TextTypeOK
<1> SUFFICES ASSUME TextInit PROVE TextTypeOK
  OBVIOUS
<1>1. vga_at(0, 0) = 0
  BY TextAssumption DEF vga_at
<1>2. vga_at(0, 0) \in 0..(VGA_WIDTH * VGA_HEIGHT - 1)
  BY TextAssumption, CellInBuffer
<1> QED
  BY <1>1, <1>2, TextAssumption DEF TextInit, TextTypeOK

(* A character and a line feed leave the cursor on the screen.             *)
LEMMA StepText == TextTypeOK /\ [TextNext]_textVars => TextTypeOK'
<1> SUFFICES ASSUME TextTypeOK, [TextNext]_textVars PROVE TextTypeOK'
  OBVIOUS
<1>1. CASE TextNewLine
  BY <1>1, TextAssumption DEF TextNewLine, WrapToTop, TextTypeOK
<1>2. CASE TextChar
  <2>1. text_cell' \in 0..(VGA_WIDTH * VGA_HEIGHT - 1)
    BY <1>2, CellInBuffer DEF TextChar, TextTypeOK
  <2>2. text_x' \in 0..(VGA_WIDTH - 1)
    BY <1>2, TextAssumption DEF TextChar, TextTypeOK
  <2>3. text_y' \in 0..(VGA_HEIGHT - 1)
    BY <1>2, TextAssumption DEF TextChar, WrapToTop, TextTypeOK
  <2> QED
    BY <2>1, <2>2, <2>3 DEF TextTypeOK
<1>3. CASE UNCHANGED textVars
  BY <1>3 DEF textVars, TextTypeOK
<1> QED
  BY <1>1, <1>2, <1>3 DEF TextNext

(* putchar writes inside the text buffer only.                             *)
THEOREM TextStaysOnScreen == TextSpec => []TextTypeOK
BY InitText, StepText, PTL DEF TextSpec

-----------------------------------------------------------------------------
(***************************************************************************)
(* Descriptors, wherever the linker puts the TSS and the handlers: the     *)
(* invariant says what has been built at each stage; what the processor    *)
(* reads from it is then a matter of the bytes of an entry.                *)
(***************************************************************************)

KernelCode == gate(Zero32, Ones32, 154, 207)
KernelData == gate(Zero32, Ones32, 146, 207)
UserCode   == gate(Zero32, Ones32, 250, 207)
UserData   == gate(Zero32, Ones32, 242, 207)

DescInv ==
  /\ tables \in {"none", "gdt", "tss", "loaded", "idt"}
  /\ DOMAIN gdt = 0..5
  /\ tables # "none" =>
       /\ gdt[1] = KernelCode /\ gdt[2] = KernelData
       /\ gdt[3] = UserCode /\ gdt[4] = UserData
  /\ tables \in {"tss", "loaded", "idt"} =>
       /\ tss_addr \in Addresses /\ tss.ss0 = 16
       /\ gdt[5] = gate(tss_addr, <<TssSize - 1, 0, 0, 0>>, 137, 64)
  /\ tables \in {"loaded", "idt"} => gdt_regs = [cs |-> 8, ds |-> 16, ss |-> 16, tr |-> 43]
  /\ tables = "idt" =>
       /\ handlers \in [Vectors -> Addresses]
       /\ idt_entries = [v \in Vectors |-> idt_set_gate(handlers[v])]

(* A function on 1..n is a sequence.                                       *)
LEMMA FunctionIsSeq ==
  ASSUME NEW S, NEW n \in Nat, NEW s \in [1..n -> S]
  PROVE  s \in Seq(S) /\ Len(s) = n
OBVIOUS

(* What two sequences of two make up.                                      *)
LEMMA TwoAndTwo ==
  ASSUME NEW S, NEW s \in Seq(S), NEW t \in Seq(S), Len(s) = 2, Len(t) = 2
  PROVE  /\ s \o t \in Seq(S) /\ Len(s \o t) = 4
         /\ (s \o t)[1] = s[1] /\ (s \o t)[2] = s[2]
         /\ (s \o t)[3] = t[1] /\ (s \o t)[4] = t[2]
<1>1. s \in Seq(S) /\ t \in Seq(S) /\ Len(t) = 2
  OBVIOUS
<1>2. /\ s \o t \in Seq(S) /\ Len(s \o t) = Len(s) + Len(t)
      /\ \A i \in 1..(Len(s) + Len(t)) :
           (s \o t)[i] = IF i <= Len(s) THEN s[i] ELSE t[i - Len(s)]
  BY <1>1, ConcatProperties
<1> QED
  BY <1>1, <1>2

(* The mouse handler stores the third byte behind the two it has: the      *)
(* places of a packet, one by one.                                         *)
LEMMA TwoAndOne ==
  ASSUME NEW S, NEW s \in Seq(S), NEW e \in S, Len(s) = 2
  PROVE  /\ s \o <<e>> \in Seq(S) /\ Len(s \o <<e>>) = 3
         /\ (s \o <<e>>)[1] = s[1] /\ (s \o <<e>>)[2] = s[2] /\ (s \o <<e>>)[3] = e
<1> DEFINE t == <<e>>
<1>1. t \in Seq(S) /\ Len(t) = 1 /\ t[1] = e
  OBVIOUS
<1> HIDE DEF t
<1>2. /\ s \o t \in Seq(S) /\ Len(s \o t) = Len(s) + Len(t)
      /\ \A i \in 1..(Len(s) + Len(t)) :
           (s \o t)[i] = IF i <= Len(s) THEN s[i] ELSE t[i - Len(s)]
  BY <1>1, ConcatProperties
<1> QED
  BY <1>1, <1>2 DEF t

(* Sequences of the same length with the same elements are the same.       *)
LEMMA SameFour ==
  ASSUME NEW S, NEW s \in Seq(S), NEW t \in Seq(S), Len(s) = 4, Len(t) = 4,
         s[1] = t[1], s[2] = t[2], s[3] = t[3], s[4] = t[4]
  PROVE  s = t
OBVIOUS

(* An address is its two halves, and what the base of a gate is made of.   *)
LEMMA AddressParts ==
  ASSUME NEW S, NEW a \in [1..4 -> S]
  PROVE  /\ SubSeq(a, 1, 2) \o <<a[3], a[4]>> = a
         /\ SubSeq(a, 1, 2) \o SubSeq(a, 3, 4) = a
<1> DEFINE low == SubSeq(a, 1, 2)  high == SubSeq(a, 3, 4)  two == <<a[3], a[4]>>
<1>1. a \in Seq(S) /\ Len(a) = 4
  BY FunctionIsSeq
<1>2. /\ low \in Seq(S) /\ Len(low) = 2 /\ low[1] = a[1] /\ low[2] = a[2]
      /\ high \in Seq(S) /\ Len(high) = 2 /\ high[1] = a[3] /\ high[2] = a[4]
  BY <1>1
<1>3. two \in Seq(S) /\ Len(two) = 2 /\ two[1] = a[3] /\ two[2] = a[4]
  BY <1>1
<1> HIDE DEF low, high, two
<1>4. ASSUME NEW h \in Seq(S), Len(h) = 2, h[1] = a[3], h[2] = a[4]
      PROVE  low \o h = a
  BY <1>1, <1>2, <1>4, TwoAndTwo, SameFour
<1> QED
  BY <1>2, <1>3, <1>4 DEF low, high, two

(* A flat segment of the GDT as the processor reads it.                    *)
LEMMA FlatGate ==
  ASSUME NEW access \in {154, 146, 250, 242}
  PROVE  /\ Flat(gate(Zero32, Ones32, access, 207))
         /\ gate(Zero32, Ones32, access, 207).access = access
<1> DEFINE e == gate(Zero32, Ones32, access, 207)
<1>1. /\ e.granularity = Low(255) + High(207) /\ e.access = access
      /\ e.base_low = SubSeq(Zero32, 1, 2) /\ e.base_middle = Zero32[3]
      /\ e.base_high = Zero32[4] /\ e.limit_low = SubSeq(Ones32, 1, 2)
  BY DEF gate, Ones32
<1>2. Low(255) + High(207) = 207
  BY DEF Low, High
<1>3. Zero32 \in [1..4 -> 0..255]
  BY DEF Zero32
<1>4. BaseOf(e) = Zero32
  <2>1. SubSeq(Zero32, 1, 2) \o <<Zero32[3], Zero32[4]>> = Zero32
    BY ONLY <1>3, AddressParts
  <2>2. BaseOf(e) = SubSeq(Zero32, 1, 2) \o <<Zero32[3], Zero32[4]>>
    BY <1>1 DEF BaseOf
  <2> QED
    BY <2>1, <2>2
<1>5. LimitOf(e) = <<255, 255, 15>>
  <2>1. LimitOf(e) = SubSeq(Ones32, 1, 2) \o <<15>>
    <3>1. Low(207) = 15
      BY DEF Low
    <3> QED
      BY <1>1, <1>2, <3>1 DEF LimitOf
  <2>2. SubSeq(Ones32, 1, 2) = <<255, 255>>
    <3> DEFINE s == SubSeq(Ones32, 1, 2)
    <3>1. s \in Seq(0..255) /\ Len(s) = 2 /\ s[1] = 255 /\ s[2] = 255
      BY DEF Ones32
    <3> HIDE DEF s
    <3>2. s = <<255, 255>>
      BY <3>1
    <3> QED
      BY <3>2 DEF s
  <2> DEFINE t == <<255, 255>> \o <<15>>
  <2>3. t \in Seq(0..255) /\ Len(t) = 3 /\ t[1] = 255 /\ t[2] = 255 /\ t[3] = 15
    OBVIOUS
  <2> HIDE DEF t
  <2>4. t = <<255, 255, 15>>
    BY <2>3
  <2> QED
    BY <2>1, <2>2, <2>4 DEF t
<1>6. PresentEntry(e) /\ InPages(e) /\ Bit(64, e.granularity)
  BY <1>1, <1>2 DEF PresentEntry, InPages, Bit
<1> QED
  BY <1>1, <1>4, <1>5, <1>6 DEF Flat

(* The entry of the TSS as the processor reads it.                         *)
LEMMA TssGate ==
  ASSUME NEW a \in [1..4 -> 0..255]
  PROVE  LET t == gate(a, <<TssSize - 1, 0, 0, 0>>, 137, 64)
         IN  /\ PresentEntry(t) /\ ~IsSegment(t) /\ t.access % 16 = 9
             /\ BaseOf(t) = a /\ ~InPages(t)
             /\ LimitOf(t) = <<TssSize - 1, 0, 0>>
<1> DEFINE limit == <<TssSize - 1, 0, 0, 0>>
           t == gate(a, limit, 137, 64)
<1>1. /\ t.granularity = Low(0) + High(64) /\ t.access = 137
      /\ t.base_low = SubSeq(a, 1, 2) /\ t.base_middle = a[3]
      /\ t.base_high = a[4] /\ t.limit_low = SubSeq(limit, 1, 2)
  BY DEF gate
<1>2. Low(0) + High(64) = 64
  BY DEF Low, High
<1>3. BaseOf(t) = a
  <2>1. SubSeq(a, 1, 2) \o <<a[3], a[4]>> = a
    BY ONLY a \in [1..4 -> 0..255], AddressParts
  <2>2. BaseOf(t) = SubSeq(a, 1, 2) \o <<a[3], a[4]>>
    BY <1>1 DEF BaseOf
  <2> QED
    BY <2>1, <2>2
<1>4. LimitOf(t) = <<TssSize - 1, 0, 0>>
  <2> DEFINE two == SubSeq(limit, 1, 2)
  <2>1. LimitOf(t) = two \o <<0>>
    <3>1. Low(64) = 0
      BY DEF Low
    <3> QED
      BY <1>1, <1>2, <3>1 DEF LimitOf
  <2>2. two \in Seq(Nat) /\ Len(two) = 2 /\ two[1] = TssSize - 1 /\ two[2] = 0
    BY DEF TssSize
  <2> HIDE DEF two
  <2> DEFINE u == two \o <<0>>
  <2>3. u \in Seq(Nat) /\ Len(u) = 3 /\ u[1] = TssSize - 1 /\ u[2] = 0 /\ u[3] = 0
    <3>1. u \in Seq(Nat) /\ Len(u) = 3 /\ u[1] = two[1] /\ u[2] = two[2] /\ u[3] = 0
      BY <2>2, TwoAndOne
    <3> QED
      BY <2>2, <3>1
  <2> HIDE DEF u
  <2>4. u = <<TssSize - 1, 0, 0>>
    BY <2>3 DEF TssSize
  <2> QED
    BY <2>1, <2>4 DEF u
<1>5. PresentEntry(t) /\ ~IsSegment(t) /\ ~InPages(t) /\ t.access % 16 = 9
  BY <1>1, <1>2 DEF PresentEntry, IsSegment, InPages, Bit
<1> QED
  BY <1>3, <1>4, <1>5

(* Before gdt_init.                                                        *)
LEMMA InitDescInv == DescInit => DescInv
BY DEF DescInit, DescInv

(* Every step of the set-up keeps what was built before.                   *)
LEMMA StepDescInv == DescInv /\ [DescNext]_tableVars => DescInv'
<1> SUFFICES ASSUME DescInv, [DescNext]_tableVars PROVE DescInv'
  OBVIOUS
<1>1. CASE GdtInit
  <2>1. /\ tables' = "gdt" /\ DOMAIN gdt' = 0..5
        /\ gdt'[1] = KernelCode /\ gdt'[2] = KernelData
        /\ gdt'[3] = UserCode /\ gdt'[4] = UserData
    <3>1. DOMAIN gdt = 0..5
      BY DEF DescInv
    <3>2. /\ tables' = "gdt"
          /\ gdt' = [gdt EXCEPT ![0] = gate(Zero32, Zero32, 0, 0),
                                ![1] = KernelCode, ![2] = KernelData,
                                ![3] = UserCode, ![4] = UserData]
      BY <1>1 DEF GdtInit, KernelCode, KernelData, UserCode, UserData
    <3> QED
      BY ONLY <3>1, <3>2
  <2> QED
    BY <2>1 DEF DescInv, KernelCode, KernelData, UserCode, UserData
<1>2. CASE TssInit
  <2>1. /\ tables = "gdt" /\ tables' = "tss" /\ tss_addr' \in Addresses
        /\ tss'.ss0 = 16 /\ DOMAIN gdt' = 0..5
        /\ gdt'[5] = gate(tss_addr', <<TssSize - 1, 0, 0, 0>>, 137, 64)
        /\ \A n \in 0..4 : gdt'[n] = gdt[n]
    <3>1. DOMAIN gdt = 0..5
      BY DEF DescInv
    <3>2. /\ tables = "gdt" /\ tables' = "tss" /\ tss_addr' \in Addresses /\ tss'.ss0 = 16
          /\ gdt' = [gdt EXCEPT ![5] = gate(tss_addr', <<TssSize - 1, 0, 0, 0>>, 137, 64)]
      BY <1>2 DEF TssInit
    <3> QED
      BY ONLY <3>1, <3>2
  <2> QED
    BY <2>1 DEF DescInv, KernelCode, KernelData, UserCode, UserData
<1>3. CASE Flush
  BY <1>3 DEF Flush, DescInv
<1>4. CASE IdtInit
  <2>1. /\ tables = "loaded" /\ tables' = "idt"
        /\ UNCHANGED gdt /\ UNCHANGED tss /\ UNCHANGED gdt_regs /\ UNCHANGED tss_addr
    BY <1>4 DEF IdtInit
  <2>2. /\ handlers' \in [Vectors -> Addresses]
        /\ idt_entries' = [v \in Vectors |-> idt_set_gate(handlers'[v])]
    BY <1>4 DEF IdtInit
  <2> QED
    BY <2>1, <2>2 DEF DescInv
<1>5. CASE UNCHANGED tableVars
  BY <1>5 DEF tableVars, DescInv
<1> QED
  BY <1>1, <1>2, <1>3, <1>4, <1>5 DEF DescNext

(* What has been built is what the processor is to find.                   *)
LEMMA DescDecodes == DescInv => SegmentsDecode
<1> SUFFICES ASSUME DescInv PROVE SegmentsDecode
  OBVIOUS
<1>1. ASSUME tables \in {"loaded", "idt"}
      PROVE  /\ Selected(gdt_regs.cs) = KernelCode
             /\ \A sel \in {gdt_regs.ds, gdt_regs.ss, tss.ss0} : Selected(sel) = KernelData
             /\ gdt[3] = UserCode /\ gdt[4] = UserData
             /\ Selected(gdt_regs.tr) = gate(tss_addr, <<TssSize - 1, 0, 0, 0>>, 137, 64)
             /\ tss_addr \in Addresses
  <2>1. 8 \div 8 = 1 /\ 16 \div 8 = 2 /\ 43 \div 8 = 5
    OBVIOUS
  <2> QED
    BY <1>1, <2>1 DEF DescInv, Selected
<1>2. /\ Flat(KernelCode) /\ KernelCode.access = 154
      /\ Flat(KernelData) /\ KernelData.access = 146
      /\ Flat(UserCode) /\ UserCode.access = 250
      /\ Flat(UserData) /\ UserData.access = 242
  BY FlatGate DEF KernelCode, KernelData, UserCode, UserData
<1>3. /\ IsCode(KernelCode) /\ Ring(KernelCode) = 0
      /\ IsSegment(KernelData) /\ ~IsCode(KernelData) /\ Ring(KernelData) = 0
      /\ IsCode(UserCode) /\ Ring(UserCode) = 3
      /\ ~IsCode(UserData) /\ Ring(UserData) = 3
  BY <1>2 DEF IsCode, IsSegment, Bit, Ring
<1>4. ASSUME tables = "idt", NEW v \in Vectors
      PROVE  LET g == idt_entries[v]
             IN  /\ g.base_low \o g.base_high = handlers[v]
                 /\ Bit(128, g.flags) /\ g.flags % 16 = 14
                 /\ IsCode(Selected(g.selector)) /\ Ring(Selected(g.selector)) = 0
  <2>1. handlers[v] \in Addresses /\ idt_entries[v] = idt_set_gate(handlers[v])
    BY <1>4 DEF DescInv
  <2>2. handlers[v] \in [1..4 -> 0..255]
    BY <2>1, DescriptorAssumption
  <2>3. Selected(8) = KernelCode
    <3>1. 8 \div 8 = 1
      OBVIOUS
    <3> QED
      BY <3>1, <1>4 DEF DescInv, Selected
  <2>4. Bit(128, 142) /\ 142 % 16 = 14
    BY DEF Bit
  <2> QED
    BY <2>1, <2>2, <2>3, <2>4, <1>3, AddressParts DEF idt_set_gate
<1>5. ASSUME tables \in {"loaded", "idt"}
      PROVE  /\ Flat(Selected(gdt_regs.cs)) /\ IsCode(Selected(gdt_regs.cs))
             /\ Ring(Selected(gdt_regs.cs)) = 0
             /\ \A sel \in {gdt_regs.ds, gdt_regs.ss, tss.ss0} :
                  Flat(Selected(sel)) /\ IsSegment(Selected(sel))
                    /\ ~IsCode(Selected(sel)) /\ Ring(Selected(sel)) = 0
             /\ \A n \in {3, 4} :
                  Flat(gdt[n]) /\ Ring(gdt[n]) = 3 /\ (IsCode(gdt[n]) <=> n = 3)
  BY <1>1, <1>2, <1>3, <1>5
<1>6. ASSUME tables \in {"loaded", "idt"}
      PROVE  LET t == Selected(gdt_regs.tr)
             IN  /\ PresentEntry(t) /\ ~IsSegment(t) /\ t.access % 16 = 9
                 /\ BaseOf(t) = tss_addr /\ ~InPages(t)
                 /\ LimitOf(t) = <<TssSize - 1, 0, 0>>
  BY <1>1, <1>6, TssGate, DescriptorAssumption
<1> QED
  BY <1>4, <1>5, <1>6 DEF SegmentsDecode

(* Wherever the linker puts them, the processor finds the segments, the    *)
(* TSS and the handlers that the kernel means.                             *)
THEOREM DescriptorsDecode == DescSpec => []SegmentsDecode
BY InitDescInv, StepDescInv, DescDecodes, PTL DEF DescSpec

-----------------------------------------------------------------------------
(***************************************************************************)
(* Pci, for buses of any size and every configuration space:               *)
(* a scan that ends has missed only what it has misread, although checkBus *)
(* is called from within itself.  Every call in progress has checked all that lies before *)
(* the function it looks at next; that stays true of a call that waits for *)
(* another one, because nothing is ever taken out of checked.              *)
(***************************************************************************)

CallInProgress == [dev : 0..Devs, func : Functions]

(* What it takes for a set of functions that have been checked to cover a  *)
(* device, and to cover what lies before the next one of a call.           *)
Covers(S, d) ==
  \/ TakenForAbsent(d)
  \/ /\ <<d, 0>> \in S
     /\ HeaderBit7(d, 0) => \A f \in 1..7 : There(d, f) => <<d, f>> \in S

Behind(S, call) ==
  /\ \A d \in 0..(call.dev - 1) : Covers(S, d)
  /\ call.func # 0 =>
       /\ <<call.dev, 0>> \in S /\ HeaderBit7(call.dev, 0)
       /\ \A f \in 1..7 : f < call.func /\ There(call.dev, f) => <<call.dev, f>> \in S

CoversAll(S) == \A d \in 0..(Devs - 1) : Covers(S, d)

CallsBehind == \A i \in 1..Len(calls) : Behind(checked, calls[i])

(* The phases of the scan and the calls in progress.                       *)
Phases ==
  /\ pci \in {"off", "start"} => calls = <<>>
  /\ pci = "off" => host = 0
  /\ pci = "start" => host = 0
  /\ pci = "scan" => calls # <<>>
  /\ pci = "bus" /\ host > 0 => CoversAll(checked)
  /\ pci = "done" /\ There(0, 0) => CoversAll(checked)

PInv == PciTypeOK /\ CallsBehind /\ Phases

-----------------------------------------------------------------------------
(* A set of functions that is not empty has a least one.                   *)
LEMMA MinIsLeast ==
  ASSUME NEW S \in SUBSET (1..7), S # {}
  PROVE  Min(S) \in S /\ \A y \in S : Min(S) <= y
<1>1. \E x \in S : \A y \in S : x <= y
  <2>1. CASE 1 \in S
    BY <2>1
  <2>2. CASE 1 \notin S /\ 2 \in S
    BY <2>2
  <2>3. CASE 1 \notin S /\ 2 \notin S /\ 3 \in S
    BY <2>3
  <2>4. CASE 1 \notin S /\ 2 \notin S /\ 3 \notin S /\ 4 \in S
    BY <2>4
  <2>5. CASE 1 \notin S /\ 2 \notin S /\ 3 \notin S /\ 4 \notin S /\ 5 \in S
    BY <2>5
  <2>6. CASE S \subseteq {6, 7} /\ 6 \in S
    BY <2>6
  <2>7. CASE S \subseteq {7}
    <3>1. 7 \in S
      BY <2>7
    <3> QED
      BY <2>7, <3>1
  <2> QED
    BY <2>1, <2>2, <2>3, <2>4, <2>5, <2>6, <2>7
<1> QED
  BY <1>1 DEF Min

(* What is covered stays covered when more is checked.                     *)
LEMMA CheckedGrows ==
  ASSUME NEW S, NEW T, S \subseteq T
  PROVE  /\ \A call : Behind(S, call) => Behind(T, call)
         /\ CoversAll(S) => CoversAll(T)
<1>1. \A d : Covers(S, d) => Covers(T, d)
  BY DEF Covers
<1> QED
  BY <1>1 DEF Behind, CoversAll

(* On the same machine the primed invariant is one of the new calls only.  *)
LEMMA SameMachine ==
  ASSUME machine' = machine
  PROVE  /\ (\A i \in 1..Len(calls') : Behind(checked', calls'[i])) => CallsBehind'
         /\ CoversAll(checked') => CoversAll(checked)'
         /\ There(0, 0) = There(0, 0)'
BY DEF CallsBehind, CoversAll, Covers, Behind, HeaderBit7, There, TakenForAbsent

(* A call starts with nothing behind it.                                   *)
LEMMA NothingBehindFirst ==
  ASSUME NEW S
  PROVE  FirstCall \in CallInProgress /\ Behind(S, FirstCall)
BY PciAssumption DEF FirstCall, CallInProgress, Functions, Behind

(* When a function has been checked, it and all that were skipped (they    *)
(* are not there, or the header type keeps them out) lie behind the call.  *)
LEMMA AdvanceBehind ==
  ASSUME NEW S, NEW call \in CallInProgress, call.dev < Devs,
         Behind(S, call), <<call.dev, call.func>> \in S
  PROVE  Advance(call) \in CallInProgress /\ Behind(S, Advance(call))
<1> DEFINE more == { f \in 1..7 : f > call.func /\ There(call.dev, f) }
           next == Advance(call)
<1>1. call.dev \in 0..(Devs - 1) /\ call.func \in 0..7 /\ Devs \in Nat
  BY PciAssumption DEF CallInProgress, Functions
<1>2. call = [dev |-> call.dev, func |-> call.func]
  BY DEF CallInProgress
<1>3. \A f \in 1..7 : f <= call.func /\ There(call.dev, f)
        => <<call.dev, f>> \in S
  BY <1>1 DEF Behind
<1>4. <<call.dev, 0>> \in S
  BY <1>1 DEF Behind
<1>5. CASE HeaderBit7(call.dev, 0) /\ more # {}
  <2>1. Min(more) \in more /\ \A y \in more : Min(more) <= y
    BY <1>5, MinIsLeast
  <2> DEFINE m == Min(more)
  <2>2. next = [call EXCEPT !.func = m]
    BY <1>5 DEF Advance
  <2>3. m \in 1..7
    BY <2>1
  <2>4. next = [dev |-> call.dev, func |-> m]
    BY <2>2, <1>2
  <2>5. \A f \in 1..7 : f < m /\ There(call.dev, f) => <<call.dev, f>> \in S
    BY <2>1, <2>3, <1>1, <1>3
  <2> HIDE DEF m, next, more
  <2>6. next \in CallInProgress
    BY <2>3, <2>4, <1>1 DEF CallInProgress, Functions
  <2>7. Behind(S, next)
    BY <2>4, <2>5, <1>4, <1>5 DEF Behind
  <2> QED
    BY <2>6, <2>7 DEF next
<1>6. CASE ~(HeaderBit7(call.dev, 0) /\ more # {})
  <2>1. next = [dev |-> call.dev + 1, func |-> 0]
    BY <1>6 DEF Advance
  <2>2. Covers(S, call.dev)
    BY <1>1, <1>3, <1>4, <1>6 DEF Covers
  <2> HIDE DEF next, more
  <2>3. next \in CallInProgress
    BY <2>1, <1>1 DEF CallInProgress, Functions
  <2>4. \A d \in 0..(next.dev - 1) : d = call.dev \/ d \in 0..(call.dev - 1)
    BY <2>1, <1>1
  <2>5. Behind(S, next)
    BY <2>1, <2>2, <2>4 DEF Behind
  <2> QED
    BY <2>3, <2>5 DEF next
<1> QED
  BY <1>5, <1>6

-----------------------------------------------------------------------------
(* A sequence without its last element, and with another in its place.     *)
LEMMA FrontOf ==
  ASSUME NEW S, NEW s \in Seq(S), s # <<>>
  PROVE  /\ Front(s) \in Seq(S) /\ Len(Front(s)) = Len(s) - 1
         /\ \A i \in 1..Len(Front(s)) : i \in 1..Len(s) /\ Front(s)[i] = s[i]
<1> DEFINE m == Len(s) - 1
<1>1. m \in Nat /\ Len(s) = m + 1
  OBVIOUS
<1>2. Front(s) \in Seq(S) /\ Len(Front(s)) = m /\ \A i \in 1..m : Front(s)[i] = s[i]
  BY <1>1 DEF Front
<1> QED
  BY <1>1, <1>2

(* The call on top of the stack is replaced by what it becomes, the ones   *)
(* under it stay.                                                          *)
LEMMA ReplaceLast ==
  ASSUME NEW S, NEW s \in Seq(S), s # <<>>, NEW e \in S
  PROVE  LET t == Append(Front(s), e)
         IN  /\ t \in Seq(S) /\ Len(t) = Len(s)
             /\ \A i \in 1..Len(t) : t[i] = IF i = Len(s) THEN e ELSE s[i]
<1>1. Len(s) \in Nat /\ Len(s) > 0
  OBVIOUS
<1> QED
  BY <1>1, FrontOf

(* checkFunction: the function is checked, its call goes on behind it, and *)
(* a bridge starts another call.                                           *)
LEMMA CheckFunctionPInv ==
  ASSUME PInv, CheckFunction
  PROVE  PInv'
<1> DEFINE call == Last(calls)
           next == Advance(call)
           rest == Append(Front(calls), next)
           S    == checked'
<1>1. /\ PciTypeOK /\ calls # <<>> /\ calls \in Seq(CallInProgress) /\ pci = "scan"
      /\ Len(calls) \in Nat \ {0}
  BY DEF PInv, PciTypeOK, CheckFunction, CallInProgress
<1>2. call \in CallInProgress /\ Behind(checked, call)
  BY <1>1 DEF Last, PInv, CallsBehind
<1>3. call.dev < Devs /\ checked' = checked \cup {<<call.dev, call.func>>}
      /\ UNCHANGED machine /\ UNCHANGED host
  BY DEF CheckFunction
<1>4. \A c : Behind(checked, c) => Behind(S, c)
  BY <1>3, CheckedGrows
<1>5. \/ calls' = rest /\ pci' = "scan"
      \/ calls' = calls /\ pci' = "overrun"
      \/ calls' = Append(rest, FirstCall) /\ pci' = "scan"
  BY <1>1 DEF CheckFunction
<1>6. <<call.dev, call.func>> \in (0..(Devs - 1)) \X Functions
  BY <1>2, <1>3, PciAssumption DEF CallInProgress
<1>7. /\ pci' \in {"scan", "overrun"} /\ machine' \in Machines \cup {NoMachine}
      /\ host' \in 0..8 /\ checked' \subseteq (0..(Devs - 1)) \X Functions
  BY <1>1, <1>3, <1>5, <1>6 DEF PciTypeOK
<1>8. next \in CallInProgress /\ Behind(S, next)
  BY <1>2, <1>3, <1>4, AdvanceBehind
<1>9. /\ rest \in Seq(CallInProgress) /\ Len(rest) = Len(calls)
      /\ \A i \in 1..Len(rest) : rest[i] = IF i = Len(calls) THEN next ELSE calls[i]
  BY <1>1, <1>8, ReplaceLast
<1>10. \A i \in 1..Len(rest) : Behind(S, rest[i])
  BY <1>4, <1>8, <1>9 DEF PInv, CallsBehind
<1>11. FirstCall \in CallInProgress /\ Behind(S, FirstCall)
  BY NothingBehindFirst
<1> HIDE DEF rest, next, call, S
<1>12. calls' \in Seq(CallInProgress) /\ calls' # <<>>
  BY <1>1, <1>5, <1>9, <1>11
<1>13. \A i \in 1..Len(calls') : Behind(S, calls'[i])
  <2>1. CASE calls' = rest
    BY <2>1, <1>10
  <2>2. CASE calls' = calls
    BY <2>2, <1>4 DEF PInv, CallsBehind
  <2>3. CASE calls' = Append(rest, FirstCall)
    <3>1. Len(calls') = Len(rest) + 1 /\ Len(rest) \in Nat
      BY <2>3, <1>9
    <3>2. \A i \in 1..Len(calls') :
            calls'[i] = IF i = Len(rest) + 1 THEN FirstCall ELSE rest[i]
      BY <2>3, <1>9, <1>11
    <3> QED
      BY <3>1, <3>2, <1>10, <1>11
  <2> QED
    BY <1>5, <2>1, <2>2, <2>3
<1>14. CallsBehind'
  BY <1>3, <1>13, SameMachine DEF S
<1>15. Phases'
  BY <1>7, <1>12 DEF Phases
<1>16. PciTypeOK'
  BY <1>7, <1>12 DEF PciTypeOK, CallInProgress
<1> QED
  BY <1>14, <1>15, <1>16 DEF PInv

(* checkDev skips a device: it is covered, as it is taken for absent.      *)
LEMMA SkipDevPInv ==
  ASSUME PInv, SkipDev
  PROVE  PInv'
<1> DEFINE call == Last(calls)
           next == [dev |-> call.dev + 1, func |-> 0]
<1>1. /\ PciTypeOK /\ calls # <<>> /\ calls \in Seq(CallInProgress) /\ pci = "scan"
      /\ Len(calls) \in Nat \ {0}
  BY DEF PInv, PciTypeOK, SkipDev, CallInProgress
<1>2. call \in CallInProgress /\ Behind(checked, call)
  BY <1>1 DEF Last, PInv, CallsBehind
<1>3. /\ call.dev < Devs /\ call.func = 0 /\ TakenForAbsent(call.dev)
      /\ calls' = Append(Front(calls), next)
      /\ UNCHANGED <<pci, machine, host, checked>>
  BY DEF SkipDev
<1>4. call.dev \in 0..(Devs - 1) /\ Devs \in Nat
  BY <1>2, <1>3, PciAssumption DEF CallInProgress
<1>5. next \in CallInProgress
  BY <1>4 DEF CallInProgress, Functions
<1>6. Behind(checked, next)
  <2>1. Covers(checked, call.dev)
    BY <1>3 DEF Covers
  <2>2. \A d \in 0..(next.dev - 1) : d = call.dev \/ d \in 0..(call.dev - 1)
    BY <1>4
  <2> QED
    BY <1>2, <2>1, <2>2 DEF Behind
<1> HIDE DEF next, call
<1>7. /\ calls' \in Seq(CallInProgress) /\ Len(calls') = Len(calls)
      /\ \A i \in 1..Len(calls') : calls'[i] = IF i = Len(calls) THEN next ELSE calls[i]
  BY <1>1, <1>3, <1>5, ReplaceLast
<1>8. \A i \in 1..Len(calls') : Behind(checked', calls'[i])
  BY <1>3, <1>6, <1>7 DEF PInv, CallsBehind
<1>9. CallsBehind'
  BY <1>3, <1>8, SameMachine
<1>10. calls' # <<>>
  BY <1>1, <1>7
<1>11. Phases'
  BY <1>1, <1>3, <1>10 DEF Phases
<1>12. PciTypeOK'
  BY <1>1, <1>3, <1>7 DEF PciTypeOK, CallInProgress
<1> QED
  BY <1>9, <1>11, <1>12 DEF PInv

(* checkBus returns: the call that ends has all devices behind it.         *)
LEMMA ReturnPInv ==
  ASSUME PInv, ReturnFromBus
  PROVE  PInv'
<1>1. /\ PciTypeOK /\ calls # <<>> /\ calls \in Seq(CallInProgress) /\ pci = "scan"
      /\ Len(calls) \in Nat \ {0}
      /\ UNCHANGED machine /\ UNCHANGED host /\ UNCHANGED checked
  BY DEF PInv, PciTypeOK, ReturnFromBus, CallInProgress
<1>2. Last(calls) \in CallInProgress /\ Behind(checked, Last(calls)) /\ Last(calls).dev >= Devs
  BY <1>1 DEF Last, PInv, CallsBehind, ReturnFromBus
<1>3. Last(calls).dev = Devs /\ Devs \in Nat
  BY <1>2, PciAssumption DEF CallInProgress
<1>4. CoversAll(checked')
  BY <1>1, <1>2, <1>3 DEF Behind, CoversAll
<1>5. calls' = Front(calls)
      /\ pci' = IF Len(calls) > 1 THEN "scan" ELSE IF host = 8 THEN "done" ELSE "bus"
  BY <1>1 DEF ReturnFromBus
<1>6. /\ calls' \in Seq(CallInProgress) /\ Len(calls') = Len(calls) - 1
      /\ \A i \in 1..Len(calls') : i \in 1..Len(calls) /\ calls'[i] = calls[i]
  BY <1>1, <1>5, FrontOf
<1>7. \A i \in 1..Len(calls') : Behind(checked', calls'[i])
  BY <1>1, <1>6 DEF PInv, CallsBehind
<1>8. CallsBehind' /\ CoversAll(checked)'
  BY <1>1, <1>4, <1>7, SameMachine
<1>9. Phases'
  <2>1. pci' = "scan" => calls' # <<>>
    BY <1>5, <1>6, <1>1
  <2> QED
    BY <2>1, <1>5, <1>8 DEF Phases
<1>10. pci' \in {"scan", "done", "bus"}
  BY <1>5
<1>11. PciTypeOK'
  BY <1>1, <1>6, <1>10 DEF PciTypeOK, CallInProgress
<1> QED
  BY <1>8, <1>9, <1>11 DEF PInv

(* checkAllBuses: before the first bus nothing is in progress; another one *)
(* keeps what was covered.                                                 *)
LEMMA StartPInv ==
  ASSUME PInv, PowerOn \/ OneHost \/ ManyHosts \/ NextHost
  PROVE  PInv'
<1>1. PciTypeOK /\ calls \in Seq(CallInProgress) /\ Phases /\ CallsBehind
  BY DEF PInv, PciTypeOK, CallInProgress
<1>2. <<FirstCall>> \in Seq(CallInProgress) /\ <<FirstCall>> # <<>>
      /\ \A i \in 1..Len(<<FirstCall>>) : Behind(checked, <<FirstCall>>[i])
  BY NothingBehindFirst
<1>3. CASE PowerOn
  <2>1. /\ pci = "off" /\ pci' = "start" /\ machine' \in Machines
        /\ UNCHANGED host /\ UNCHANGED calls /\ UNCHANGED checked
    BY <1>3 DEF PowerOn
  <2>2. calls' = <<>> /\ host' = 0
    BY <1>1, <2>1 DEF Phases
  <2>3. PciTypeOK'
    BY <1>1, <2>1 DEF PciTypeOK
  <2>4. Phases'
    BY <2>1, <2>2 DEF Phases
  <2>5. CallsBehind'
    BY <2>2 DEF CallsBehind
  <2> QED
    BY <2>3, <2>4, <2>5 DEF PInv
<1>4. CASE OneHost
  <2>1. /\ pci' = "scan" /\ host' = 8 /\ calls' = <<FirstCall>>
        /\ UNCHANGED machine /\ UNCHANGED checked
    BY <1>4 DEF OneHost
  <2>2. PciTypeOK'
    BY <1>1, <1>2, <2>1 DEF PciTypeOK, CallInProgress
  <2>3. Phases'
    BY <1>2, <2>1 DEF Phases
  <2>4. CallsBehind'
    BY <1>2, <2>1, SameMachine
  <2> QED
    BY <2>2, <2>3, <2>4 DEF PInv
<1>5. CASE ManyHosts
  <2>1. /\ pci = "start" /\ pci' = "bus"
        /\ UNCHANGED machine /\ UNCHANGED host /\ UNCHANGED calls /\ UNCHANGED checked
    BY <1>5 DEF ManyHosts
  <2>2. PciTypeOK'
    BY <1>1, <2>1 DEF PciTypeOK
  <2>3. calls' = <<>> /\ host' = 0
    BY <1>1, <2>1 DEF Phases
  <2>4. Phases'
    BY <2>1, <2>3 DEF Phases
  <2>5. CallsBehind'
    BY <2>3 DEF CallsBehind
  <2> QED
    BY <2>2, <2>4, <2>5 DEF PInv
<1>6. CASE NextHost /\ host < 8 /\ There(0, host)
  <2>1. /\ pci' = "scan" /\ host' = host + 1 /\ calls' = <<FirstCall>>
        /\ UNCHANGED machine /\ UNCHANGED checked
    BY <1>6 DEF NextHost
  <2>2. PciTypeOK'
    BY <1>1, <1>2, <1>6, <2>1 DEF PciTypeOK, CallInProgress
  <2>3. Phases'
    BY <1>2, <2>1 DEF Phases
  <2>4. CallsBehind'
    BY <1>2, <2>1, SameMachine
  <2> QED
    BY <2>2, <2>3, <2>4 DEF PInv
<1>7. CASE NextHost /\ ~(host < 8 /\ There(0, host))
  <2>1. /\ pci = "bus" /\ pci' = "done"
        /\ UNCHANGED machine /\ UNCHANGED host /\ UNCHANGED calls /\ UNCHANGED checked
    BY <1>7 DEF NextHost
  <2>2. PciTypeOK'
    BY <1>1, <2>1 DEF PciTypeOK
  <2>3. There(0, 0) => CoversAll(checked')
    BY <1>1, <1>7, <2>1 DEF Phases, PciTypeOK
  <2>4. There(0, 0)' => CoversAll(checked)'
    BY <2>1, <2>3, SameMachine
  <2>5. Phases'
    BY <2>1, <2>4 DEF Phases
  <2>6. CallsBehind'
    BY <1>1, <2>1, SameMachine DEF CallsBehind
  <2> QED
    BY <2>2, <2>5, <2>6 DEF PInv
<1> QED
  BY <1>3, <1>4, <1>5, <1>6, <1>7

(* Nothing has been looked at yet.                                         *)
LEMMA InitPInv == PciInit => PInv
<1> SUFFICES ASSUME PciInit PROVE PInv
  OBVIOUS
<1>1. /\ pci = "off" /\ machine = NoMachine /\ host = 0
      /\ calls = <<>> /\ checked = {}
  BY DEF PciInit
<1>2. calls \in Seq(CallInProgress)
  BY <1>1
<1>3. PciTypeOK
  BY <1>1, <1>2 DEF PciTypeOK, CallInProgress
<1>4. CallsBehind /\ Phases
  BY <1>1 DEF CallsBehind, Phases
<1> QED
  BY <1>3, <1>4 DEF PInv

(* Every step of the scan keeps the inductive invariant.                   *)
LEMMA StepPInv == PInv /\ [PciNext]_pciVars => PInv'
<1> SUFFICES ASSUME PInv, [PciNext]_pciVars PROVE PInv'
  OBVIOUS
<1>1. CASE UNCHANGED pciVars
  BY <1>1 DEF pciVars, PInv, PciTypeOK, CallsBehind, Phases, Behind, Covers,
              CoversAll, HeaderBit7, There, TakenForAbsent
<1> QED
  BY <1>1, StartPInv, SkipDevPInv, CheckFunctionPInv, ReturnPInv DEF PciNext, Scan

(* The inductive invariant holds in every state of the scan.               *)
THEOREM PciInvariance == PciSpec => []PInv
<1>1. PciInit => PInv
  BY InitPInv
<1>2. PInv /\ [PciNext]_pciVars => PInv'
  BY StepPInv
<1> QED
  BY <1>1, <1>2, PTL DEF PciSpec

(* Types: the stack holds calls at devices of the bus, or at its end.      *)
THEOREM PciTypes == PciSpec => []PciTypeOK
<1>1. PInv => PciTypeOK
  BY DEF PInv
<1> QED
  BY <1>1, PciInvariance, PTL

(* What the end of the scan leaves covered is what is to be checked.       *)
LEMMA PInvChecks == PInv => OnlyMisreadsAreMissed
<1> SUFFICES ASSUME PInv, pci = "done", There(0, 0),
                    NEW at \in machine.present \ checked,
                    ~TakenForAbsent(at[1])
             PROVE  at[2] # 0 /\ ~HeaderBit7(at[1], 0)
  BY DEF OnlyMisreadsAreMissed
<1>1. machine.present \subseteq (0..(Devs - 1)) \X Functions
  BY PciAssumption DEF PInv, PciTypeOK, NoMachine
<1>2. PICK d \in 0..(Devs - 1), f \in 0..7 : at = <<d, f>>
  BY <1>1 DEF Functions
<1>3. There(d, f) /\ <<d, f>> \notin checked /\ ~TakenForAbsent(d)
  BY <1>2 DEF There
<1>4. Covers(checked, d)
  BY DEF PInv, Phases, CoversAll
<1> QED
  BY <1>2, <1>3, <1>4 DEF Covers

(* A scan that has ended has looked at every function that is there, but   *)
(* for those that the wrong vendor test of checkDev and the wrong address  *)
(* of the header type hide, whatever calls itself on the way.              *)
THEOREM OnlyMisreadsHide == PciSpec => []OnlyMisreadsAreMissed
BY PInvChecks, PciInvariance, PTL

-----------------------------------------------------------------------------
(***************************************************************************)
(* Numerals, for ints of any width: the digits are taken one by one off    *)
(* the end of the number, and the induction follows that loop.             *)
(***************************************************************************)

(* A division takes a number closer to zero.                               *)
LEMMA Smaller ==
  ASSUME NEW b \in Bases, NEW k \in Nat, NEW w \in -(k + 1)..(k + 1), w # 0
  PROVE  Quot(w, b) \in -k..k
<1>1. CASE b = 10
  BY <1>1 DEF Quot
<1>2. CASE b = 16
  BY <1>2 DEF Quot
<1> QED
  BY <1>1, <1>2 DEF Bases

(* The loop that takes the digits off a number, turn by turn.              *)
LEMMA DigitsLoop ==
  ASSUME NEW b \in Bases, NEW v \in -UIntMax..UIntMax
  PROVE  Digits(v, b) =
           IF v = 0 THEN <<>> ELSE <<Digit(Rem(v, b))>> \o Digits(Quot(v, b), b)
<1> DEFINE G(w, e) == <<Digit(Rem(w, b))>> \o e
           Q(w) == Quot(w, b)
           D(f, k) == f = [w \in -k..k |-> IF w = 0 THEN <<>> ELSE G(w, f[Q(w)])]
           S == { k \in Nat : \E f : D(f, k) }
<1>1. 0 \in S
  <2>1. D([w \in 0..0 |-> <<>>], 0)
    OBVIOUS
  <2> QED
    BY <2>1
<1>2. \A k \in Nat : \A w \in -(k + 1)..(k + 1) : w # 0 => Q(w) \in -k..k
  BY Smaller
<1> HIDE DEF G, Q
<1>3. ASSUME NEW k \in Nat, k \in S
      PROVE  k + 1 \in S
  <2>1. PICK f : D(f, k)
    BY <1>3
  <2> DEFINE g == [w \in -(k + 1)..(k + 1) |->
                     IF w = 0 THEN <<>> ELSE G(w, f[Q(w)])]
  <2>2. \A w \in -k..k : f[w] = IF w = 0 THEN <<>> ELSE G(w, f[Q(w)])
    BY <2>1
  <2>3. \A w \in -k..k : g[w] = f[w]
    <3>1. \A w \in -k..k : w \in -(k + 1)..(k + 1)
      OBVIOUS
    <3> QED
      BY <2>2, <3>1
  <2>4. \A w \in -(k + 1)..(k + 1) : w # 0 => g[Q(w)] = f[Q(w)]
    BY <1>2, <2>3
  <2>5. \A w \in -(k + 1)..(k + 1) : g[w] = IF w = 0 THEN <<>> ELSE G(w, g[Q(w)])
    BY <2>4
  <2>6. D(g, k + 1)
    BY <2>5
  <2>7. \E h : D(h, k + 1)
    BY <2>6
  <2> QED
    BY <2>7
<1>4. UIntMax \in Nat
  BY NumeralsAssumption DEF UIntMax
<1>5. UIntMax \in S
  <2> HIDE DEF S
  <2> QED
    BY <1>1, <1>3, <1>4, SetInduction
<1> DEFINE digits == CHOOSE f : D(f, UIntMax)
<1>6. D(digits, UIntMax)
  BY <1>5
<1>7. \A w : Digits(w, b) = digits[w]
  BY DEF Digits, G, Q
<1> HIDE DEF digits
<1>8. digits[v] = IF v = 0 THEN <<>> ELSE G(v, digits[Q(v)])
  BY <1>6
<1> QED
  BY <1>7, <1>8 DEF G, Q

(* What a reader has read when he has read the first i digits of d, which  *)
(* are its last ones.                                                      *)
Reading(f, d, b) ==
  /\ f[0] = 0
  /\ \A i \in 1..Len(d) : f[i] = f[i - 1] * b + DigitValue(d[Len(d) + 1 - i])

(* Read backwards, d is the numeral of n.                                  *)
IsNumeral(d, n, b) ==
  /\ d \in Seq(Int) /\ Len(d) > 0 /\ d[Len(d)] # Zero
  /\ \A i \in 1..Len(d) : DigitValue(d[i]) \in 0..(b - 1)
  /\ \A f : Reading(f, d, b) => f[Len(d)] = n

(* One digit stands for its value.                                         *)
LEMMA OneDigit ==
  ASSUME NEW r \in 0..15
  PROVE  Digit(r) \in Int /\ DigitValue(Digit(r)) = r /\ (Digit(r) = Zero => r = 0)
<1>1. CASE r < 10
  BY <1>1 DEF Digit, DigitValue, Zero
<1>2. CASE r >= 10
  BY <1>2 DEF Digit, DigitValue, Zero
<1> QED
  BY <1>1, <1>2

(* A number that is not negative is its last digit and the rest.           *)
LEMMA DigitAndRest ==
  ASSUME NEW b \in Bases, NEW n \in Nat, n # 0
  PROVE  /\ Rem(n, b) \in 0..(b - 1) /\ Rem(n, b) \in 0..15
         /\ Quot(n, b) \in 0..(n - 1)
         /\ n = Quot(n, b) * b + Rem(n, b)
<1>1. CASE b = 10
  BY <1>1 DEF Quot, Rem
<1>2. CASE b = 16
  BY <1>2 DEF Quot, Rem
<1> QED
  BY <1>1, <1>2 DEF Bases

(* One digit is a numeral; so is one before the digits of a numeral.       *)
LEMMA NumeralGrows ==
  ASSUME NEW b \in Bases, NEW n \in Nat, n # 0, NEW e,
         IF Quot(n, b) = 0 THEN e = <<>> ELSE IsNumeral(e, Quot(n, b), b)
  PROVE  IsNumeral(<<Digit(Rem(n, b))>> \o e, n, b)
<1> DEFINE r == Rem(n, b)
           q == Quot(n, b)
           x == Digit(r)
           d == <<x>> \o e
<1>1. /\ r \in 0..(b - 1) /\ r \in 0..15 /\ q \in Nat /\ n = q * b + r /\ b \in Nat
  <2>1. r \in 0..(b - 1) /\ r \in 0..15 /\ q \in 0..(n - 1) /\ n = q * b + r
    BY DigitAndRest
  <2>2. b \in Nat
    BY DEF Bases
  <2> HIDE DEF r, q
  <2> QED
    BY <2>1, <2>2
<1>0. IF q = 0 THEN e = <<>> ELSE IsNumeral(e, q, b)
  OBVIOUS
<1> HIDE DEF r, q
<1>2. x \in Int /\ DigitValue(x) = r /\ (x = Zero => r = 0)
  BY <1>1, OneDigit
<1> HIDE DEF x
<1>3. e \in Seq(Int) /\ Len(e) \in Nat /\ (q = 0 => Len(e) = 0)
  <2>1. CASE q = 0
    BY <1>0, <2>1
  <2>2. CASE q # 0
    BY <1>0, <2>2 DEF IsNumeral
  <2> QED
    BY <2>1, <2>2
<1>4. /\ d \in Seq(Int) /\ Len(d) = Len(e) + 1 /\ d[1] = x
      /\ \A i \in 1..Len(e) : d[i + 1] = e[i]
  BY <1>2, <1>3
<1> HIDE DEF d
<1>5. d[Len(d)] # Zero
  <2>1. CASE q = 0
    BY <1>1, <1>2, <1>3, <1>4, <2>1
  <2>2. CASE q # 0
    <3>1. Len(e) > 0 /\ e[Len(e)] # Zero
      BY <1>0, <2>2 DEF IsNumeral
    <3>2. Len(e) \in 1..Len(e) /\ Len(d) = Len(e) + 1
      BY <1>3, <1>4, <3>1
    <3> QED
      BY <1>4, <3>1, <3>2
  <2> QED
    BY <2>1, <2>2
<1>6. ASSUME NEW i \in 1..Len(d) PROVE DigitValue(d[i]) \in 0..(b - 1)
  <2>1. CASE i = 1
    BY <1>1, <1>2, <1>4, <2>1
  <2>2. CASE i # 1
    <3>1. i - 1 \in 1..Len(e) /\ (i - 1) + 1 = i
      BY <1>3, <1>4, <2>2
    <3>2. d[i] = e[i - 1]
      BY <1>4, <3>1
    <3>3. q # 0
      BY <1>3, <3>1
    <3> QED
      BY <1>0, <3>1, <3>2, <3>3 DEF IsNumeral
  <2> QED
    BY <2>1, <2>2
<1>7. ASSUME NEW f, Reading(f, d, b) PROVE f[Len(d)] = n
  <2>1. Reading(f, e, b)
    <3>1. f[0] = 0
      BY <1>7 DEF Reading
    <3>2. ASSUME NEW i \in 1..Len(e)
          PROVE  f[i] = f[i - 1] * b + DigitValue(e[Len(e) + 1 - i])
      <4>1. i \in 1..Len(d) /\ Len(d) + 1 - i = (Len(e) + 1 - i) + 1
        BY <1>3, <1>4
      <4>2. Len(e) + 1 - i \in 1..Len(e)
        BY <1>3
      <4>3. d[Len(d) + 1 - i] = e[Len(e) + 1 - i]
        BY <1>4, <4>1, <4>2
      <4> QED
        BY <1>7, <4>1, <4>3 DEF Reading
    <3> QED
      BY <3>1, <3>2 DEF Reading
  <2>2. f[Len(e)] = q
    <3>1. CASE q = 0
      BY <1>3, <2>1, <3>1 DEF Reading
    <3>2. CASE q # 0
      BY <1>0, <2>1, <3>2 DEF IsNumeral
    <3> QED
      BY <3>1, <3>2
  <2>3. f[Len(d)] = f[Len(d) - 1] * b + DigitValue(d[Len(d) + 1 - Len(d)])
    <3>1. Len(d) \in 1..Len(d)
      BY <1>3, <1>4
    <3> QED
      BY <1>7, <3>1 DEF Reading
  <2>4. Len(d) - 1 = Len(e) /\ Len(d) + 1 - Len(d) = 1
    BY <1>3, <1>4
  <2> QED
    BY <1>1, <1>2, <1>4, <2>2, <2>3, <2>4
<1>8. IsNumeral(d, n, b)
  BY <1>3, <1>4, <1>5, <1>6, <1>7 DEF IsNumeral
<1> QED
  BY <1>8 DEF d, x, r

(* The digits taken off a number are its numeral.                          *)
LEMMA DigitsAreNumeral ==
  ASSUME NEW b \in Bases, NEW n \in 1..UIntMax
  PROVE  IsNumeral(Digits(n, b), n, b)
<1> DEFINE S == { k \in Nat : \A m \in 1..k : m <= UIntMax => IsNumeral(Digits(m, b), m, b) }
<1>0. UIntMax \in Nat
  BY NumeralsAssumption DEF UIntMax
<1>1. 0 \in S
  OBVIOUS
<1>2. ASSUME NEW k \in Nat, k \in S PROVE k + 1 \in S
  <2> SUFFICES ASSUME k + 1 <= UIntMax
               PROVE  IsNumeral(Digits(k + 1, b), k + 1, b)
    <3>1. \A m \in 1..(k + 1) : m \in 1..k \/ m = k + 1
      OBVIOUS
    <3> QED
      BY <1>2, <3>1
  <2> DEFINE m == k + 1
             q == Quot(m, b)
  <2>1. m \in Nat /\ m # 0 /\ m \in -UIntMax..UIntMax
    BY <1>0
  <2> HIDE DEF m
  <2>2. q \in 0..(m - 1)
    BY <2>1, DigitAndRest
  <2>3. Digits(m, b) = <<Digit(Rem(m, b))>> \o Digits(q, b)
    BY <2>1, DigitsLoop
  <2> HIDE DEF q
  <2>4. q = 0 => Digits(q, b) = <<>>
    <3>1. 0 \in -UIntMax..UIntMax
      BY <1>0
    <3> QED
      BY <3>1, DigitsLoop
  <2>5. q # 0 => IsNumeral(Digits(q, b), q, b)
    <3>1. q # 0 => q \in 1..k /\ q <= UIntMax
      BY <1>0, <2>2 DEF m
    <3> QED
      BY <1>2, <3>1
  <2>6. IsNumeral(Digits(m, b), m, b)
    BY <2>1, <2>3, <2>4, <2>5, NumeralGrows DEF q
  <2> QED
    BY <2>6 DEF m
<1> HIDE DEF S
<1>3. UIntMax \in S
  BY <1>0, <1>1, <1>2, SetInduction
<1> QED
  BY <1>3 DEF S

(* The reader's loop, turn by turn.                                        *)
LEMMA ReadLoop ==
  ASSUME NEW b \in Int, NEW s \in Seq(Int)
  PROVE  \E f : /\ f[0] = 0
                /\ \A i \in 1..Len(s) : f[i] = f[i - 1] * b + DigitValue(s[i])
                /\ NumberRead(s, b) = f[Len(s)]
<1> DEFINE G(i, e) == e * b + DigitValue(s[i])
           D(f, k) == f = [i \in 0..k |-> IF i = 0 THEN 0 ELSE G(i, f[i - 1])]
           S == { k \in Nat : \E f : D(f, k) }
<1>0. \A f, k : D(f, k) <=> f = [i \in 0..k |-> IF i = 0 THEN 0
                                             ELSE f[i - 1] * b + DigitValue(s[i])]
  BY DEF G
<1> HIDE DEF G
<1>1. 0 \in S
  <2>1. D([i \in 0..0 |-> 0], 0)
    OBVIOUS
  <2> QED
    BY <2>1
<1>2. ASSUME NEW k \in Nat, k \in S
      PROVE  k + 1 \in S
  <2>1. PICK f : D(f, k)
    BY <1>2
  <2> DEFINE g == [i \in 0..(k + 1) |-> IF i = 0 THEN 0 ELSE G(i, f[i - 1])]
  <2>2. \A i \in 0..k : f[i] = IF i = 0 THEN 0 ELSE G(i, f[i - 1])
    BY <2>1
  <2>3. \A i \in 0..k : g[i] = f[i]
    <3>1. \A i \in 0..k : i \in 0..(k + 1)
      OBVIOUS
    <3> QED
      BY <2>2, <3>1
  <2>4. \A i \in 0..(k + 1) : i # 0 => g[i - 1] = f[i - 1]
    <3>1. \A i \in 0..(k + 1) : i # 0 => i - 1 \in 0..k
      OBVIOUS
    <3> QED
      BY <2>3, <3>1
  <2>5. \A i \in 0..(k + 1) : g[i] = IF i = 0 THEN 0 ELSE G(i, g[i - 1])
    BY <2>4
  <2>6. D(g, k + 1)
    BY <2>5
  <2>7. \E h : D(h, k + 1)
    BY <2>6
  <2> QED
    BY <2>7
<1>3. Len(s) \in Nat
  OBVIOUS
<1>4. Len(s) \in S
  <2> HIDE DEF S
  <2> QED
    BY <1>1, <1>2, <1>3, SetInduction
<1> DEFINE upTo == CHOOSE f : D(f, Len(s))
<1>5. D(upTo, Len(s))
  BY <1>4
<1>6. NumberRead(s, b) = upTo[Len(s)]
  BY DEF NumberRead, G
<1> HIDE DEF upTo
<1>7. /\ upTo[0] = 0
      /\ \A i \in 1..Len(s) : upTo[i] = G(i, upTo[i - 1])
  BY <1>3, <1>5
<1> QED
  BY <1>6, <1>7 DEF G

(* The numeral of a number, turned round, reads as that number.            *)
LEMMA NumeralReads ==
  ASSUME NEW b \in Bases, NEW n \in Nat, NEW d, IsNumeral(d, n, b)
  PROVE  ReadsAs(Reverse(d), n, b) /\ Reverse(d) \in Seq(Int)
<1> DEFINE s == Reverse(d)
<1>1. /\ d \in Seq(Int) /\ Len(d) \in Nat /\ Len(d) > 0 /\ d[Len(d)] # Zero
      /\ \A i \in 1..Len(d) : DigitValue(d[i]) \in 0..(b - 1)
      /\ \A f : Reading(f, d, b) => f[Len(d)] = n
  BY DEF IsNumeral
<1>2. s = [i \in 1..Len(d) |-> d[(Len(d) - i) + 1]]
  BY DEF Reverse
<1> HIDE DEF s
<1>3. \A i \in 1..Len(d) : (Len(d) - i) + 1 \in 1..Len(d)
                           /\ (Len(d) - i) + 1 = Len(d) + 1 - i
  BY <1>1
<1>4. s \in Seq(Int) /\ Len(s) = Len(d) /\ DOMAIN s = 1..Len(d)
  <2>1. \A i \in 1..Len(d) : d[(Len(d) - i) + 1] \in Int
    BY <1>1, <1>3
  <2>2. s \in [1..Len(d) -> Int]
    BY <1>2, <2>1
  <2> QED
    BY <1>1, <2>2, FunctionIsSeq
<1>5. \A i \in 1..Len(s) : s[i] = d[Len(d) + 1 - i]
  BY <1>2, <1>3, <1>4
<1>6. NumberRead(s, b) = n
  <2>1. b \in Int
    BY DEF Bases
  <2>2. PICK f : /\ f[0] = 0
                 /\ \A i \in 1..Len(s) : f[i] = f[i - 1] * b + DigitValue(s[i])
                 /\ NumberRead(s, b) = f[Len(s)]
    BY <1>4, <2>1, ReadLoop
  <2>3. Reading(f, d, b)
    BY <1>4, <1>5, <2>2 DEF Reading
  <2> QED
    BY <1>1, <1>4, <2>2, <2>3
<1>7. \A i \in DOMAIN s : DigitValue(s[i]) \in 0..(b - 1)
  BY <1>1, <1>3, <1>4, <1>5
<1>8. s[1] # Zero
  <2>1. 1 \in 1..Len(s) /\ Len(d) + 1 - 1 = Len(d)
    BY <1>1, <1>4
  <2> QED
    BY <1>1, <1>5, <2>1
<1>9. Len(s) > 0
  BY <1>1, <1>4
<1> QED
  BY <1>4, <1>6, <1>7, <1>8, <1>9 DEF ReadsAs, s

(* A single zero reads as nothing else.                                    *)
LEMMA ZeroReads ==
  ASSUME NEW b \in Bases
  PROVE  ReadsAs(<<Zero>>, 0, b) /\ <<Zero>> \in Seq(Int)
<1>1. b \in Int /\ b > 0
  BY DEF Bases
<1>2. /\ <<Zero>> \in Seq(Int) /\ Len(<<Zero>>) = 1 /\ <<Zero>>[1] = Zero
      /\ DOMAIN <<Zero>> = {1}
  BY DEF Zero
<1>3. DigitValue(Zero) = 0
  BY DEF DigitValue, Zero
<1> DEFINE s == <<Zero>>
<1> HIDE DEF s
<1>4. /\ s \in Seq(Int) /\ Len(s) = 1 /\ s[1] = Zero /\ DOMAIN s = {1}
  BY <1>2 DEF s
<1>5. NumberRead(s, b) = 0
  <2>1. PICK f : /\ f[0] = 0
                 /\ \A i \in 1..Len(s) : f[i] = f[i - 1] * b + DigitValue(s[i])
                 /\ NumberRead(s, b) = f[Len(s)]
    BY <1>1, <1>4, ReadLoop
  <2>2. f[1] = f[1 - 1] * b + DigitValue(s[1])
    BY <1>4, <2>1
  <2>3. 1 - 1 = 0 /\ 0 * b + 0 = 0
    BY <1>1
  <2> QED
    BY <1>3, <1>4, <2>1, <2>2, <2>3
<1>6. ReadsAs(s, 0, b)
  BY <1>1, <1>3, <1>4, <1>5 DEF ReadsAs
<1> QED
  BY <1>2, <1>6 DEF s

(* The minus sign goes last into the buffer and comes out first.           *)
LEMMA SignFirst ==
  ASSUME NEW d \in Seq(Int)
  PROVE  /\ Head(Reverse(d \o <<Minus>>)) = Minus
         /\ Tail(Reverse(d \o <<Minus>>)) = Reverse(d)
<1> DEFINE e == d \o <<Minus>>
           s == Reverse(e)
           t == Reverse(d)
<1>1. /\ Len(d) \in Nat /\ e \in Seq(Int) /\ Len(e) = Len(d) + 1
      /\ e[Len(d) + 1] = Minus /\ \A i \in 1..Len(d) : e[i] = d[i]
  BY DEF Minus
<1> HIDE DEF e
<1>2. /\ s = [i \in 1..Len(e) |-> e[(Len(e) - i) + 1]]
      /\ t = [i \in 1..Len(d) |-> d[(Len(d) - i) + 1]]
  BY DEF Reverse
<1> HIDE DEF s, t
<1>3. s \in Seq(Int) /\ Len(s) = Len(d) + 1
  <2>1. \A i \in 1..Len(e) : (Len(e) - i) + 1 \in 1..Len(e)
    BY <1>1
  <2>2. \A i \in 1..Len(e) : e[(Len(e) - i) + 1] \in Int
    BY <1>1, <2>1
  <2>3. s \in [1..Len(e) -> Int] /\ Len(e) \in Nat
    BY <1>1, <1>2, <2>2
  <2>4. s \in Seq(Int) /\ Len(s) = Len(e)
    BY <2>3, FunctionIsSeq
  <2> QED
    BY <1>1, <2>4
<1>4. t \in Seq(Int) /\ Len(t) = Len(d)
  <2>1. \A i \in 1..Len(d) : (Len(d) - i) + 1 \in 1..Len(d)
    BY <1>1
  <2>2. \A i \in 1..Len(d) : d[(Len(d) - i) + 1] \in Int
    BY <2>1
  <2>3. t \in [1..Len(d) -> Int]
    BY <1>2, <2>2
  <2> QED
    BY <1>1, <2>3, FunctionIsSeq
<1>5. s[1] = Minus
  <2>1. 1 \in 1..Len(e) /\ (Len(e) - 1) + 1 = Len(d) + 1
    BY <1>1
  <2> QED
    BY <1>1, <1>2, <2>1
<1>6. ASSUME NEW i \in 1..Len(d) PROVE s[i + 1] = t[i]
  <2>1. /\ i + 1 \in 1..Len(e) /\ (Len(e) - (i + 1)) + 1 = (Len(d) - i) + 1
        /\ (Len(d) - i) + 1 \in 1..Len(d)
    BY <1>1
  <2>2. s[i + 1] = e[(Len(e) - (i + 1)) + 1] /\ t[i] = d[(Len(d) - i) + 1]
    BY <1>2, <2>1
  <2> QED
    BY <1>1, <2>1, <2>2
<1>7. Tail(s) = t
  <2>1. s # <<>>
    BY <1>1, <1>3
  <2>2. Tail(s) \in Seq(Int) /\ Len(Tail(s)) = Len(d)
    BY <1>1, <1>3, <2>1
  <2>3. \A i \in 1..Len(d) : Tail(s)[i] = s[i + 1]
    BY <1>1, <1>3, <2>1
  <2>4. \A i \in 1..Len(d) : Tail(s)[i] = t[i]
    BY <1>6, <2>3
  <2> QED
    BY <1>4, <2>2, <2>4, SeqEqual
<1>8. Head(s) = Minus
  BY <1>3, <1>5
<1> QED
  BY <1>7, <1>8 DEF s, t, e

(* The two itoas agree.                                                    *)
LEMMA ItoasAgree ==
  ASSUME NEW v \in Ints, NEW b \in Bases
  PROVE  stdio_itoa(v, b) = serial_itoa(v, b)
<1>0. IntMax \in Nat /\ v \in Int
  BY NumeralsAssumption DEF Ints, IntMin
<1>1. CASE v = 0
  <2>1. Magnitude(v, b) = 0 /\ Sign(v, b) = <<>> /\ Digit(0) = Zero
    BY <1>1 DEF Magnitude, Sign, Signed, Digit, Zero
  <2>2. <<Zero>> \o <<>> = <<Zero>>
    OBVIOUS
  <2>3. Reverse(<<Zero>>) = <<Zero>>
    <3>1. Len(<<Zero>>) = 1 /\ <<Zero>>[1] = Zero
      OBVIOUS
    <3>2. Reverse(<<Zero>>) = [i \in 1..1 |-> <<Zero>>[(1 - i) + 1]]
      BY <3>1 DEF Reverse
    <3>3. \A i \in 1..1 : <<Zero>>[(1 - i) + 1] = Zero
      BY <3>1
    <3>4. Reverse(<<Zero>>) = [i \in 1..1 |-> Zero]
      BY <3>2, <3>3
    <3> QED
      BY <3>4
  <2> QED
    BY <1>1, <2>1, <2>2, <2>3 DEF stdio_itoa, serial_itoa
<1>2. CASE v # 0
  <2>1. Magnitude(v, b) # 0
    BY <1>0, <1>2 DEF Magnitude, Negated, IntMin
  <2> QED
    BY <1>2, <2>1 DEF stdio_itoa, serial_itoa
<1> QED
  BY <1>1, <1>2

(* Digits are characters.                                                  *)
LEMMA DigitsAreSeq ==
  ASSUME NEW b \in Bases, NEW n \in 1..UIntMax
  PROVE  Digits(n, b) \in Seq(Int) /\ Digits(n, b) \o <<>> = Digits(n, b)
<1>1. Digits(n, b) \in Seq(Int)
  BY DigitsAreNumeral DEF IsNumeral
<1> DEFINE d == Digits(n, b)
<1> HIDE DEF d
<1>2. d \in Seq(Int) => d \o <<>> = d
  BY ConcatEmptySeq
<1> QED
  BY <1>1, <1>2 DEF d

(* An int that is not negative.                                            *)
LEMMA PlainReads ==
  ASSUME NEW b \in Bases, NEW v \in 0..IntMax
  PROVE  ReadsAs(serial_itoa(v, b), v, b)
<1>0. IntMax \in Nat /\ v \in Nat
  BY NumeralsAssumption
<1>1. CASE v = 0
  BY <1>1, ZeroReads DEF serial_itoa
<1>2. CASE v # 0
  <2>1. Magnitude(v, b) = v /\ Sign(v, b) = <<>>
    BY <1>0 DEF Magnitude, Sign, Signed
  <2>2. v \in 1..UIntMax
    BY <1>0, <1>2 DEF UIntMax
  <2>3. serial_itoa(v, b) = Reverse(Digits(v, b))
    BY <1>2, <2>1, <2>2, DigitsAreSeq DEF serial_itoa
  <2> QED
    BY <1>0, <2>2, <2>3, DigitsAreNumeral, NumeralReads
<1> QED
  BY <1>1, <1>2

(* A negative int whose opposite is an int.                                *)
LEMMA SignedReads ==
  ASSUME NEW v \in -IntMax..-1
  PROVE  /\ Head(serial_itoa(v, 10)) = Minus
         /\ ReadsAs(Tail(serial_itoa(v, 10)), -v, 10)
<1>0. IntMax \in Nat /\ v \in Int /\ v < 0 /\ v # IntMin /\ 10 \in Bases
  BY NumeralsAssumption DEF IntMin, Bases
<1>1. Magnitude(v, 10) = -v /\ Sign(v, 10) = <<Minus>>
  BY <1>0 DEF Magnitude, Sign, Signed, Negated
<1>2. -v \in 1..UIntMax /\ -v \in Nat
  BY <1>0 DEF UIntMax
<1>3. serial_itoa(v, 10) = Reverse(Digits(-v, 10) \o <<Minus>>)
  BY <1>0, <1>1 DEF serial_itoa
<1>4. Digits(-v, 10) \in Seq(Int)
  BY <1>0, <1>2, DigitsAreSeq
<1>5. /\ Head(serial_itoa(v, 10)) = Minus
      /\ Tail(serial_itoa(v, 10)) = Reverse(Digits(-v, 10))
  BY <1>3, <1>4, SignFirst
<1>6. IsNumeral(Digits(-v, 10), -v, 10)
  BY <1>0, <1>2, DigitsAreNumeral
<1>7. ReadsAs(Reverse(Digits(-v, 10)), -v, 10)
  BY <1>0, <1>2, <1>6, NumeralReads
<1> QED
  BY <1>5, <1>7

(* A pointer, behind its 0x.                                               *)
LEMMA PointerReads ==
  ASSUME NEW v \in Ints
  PROVE  LET p == ptoa(Unsigned(v))
         IN  ReadsAs(SubSeq(p, 3, Len(p)), Unsigned(v), 16)
<1> DEFINE n == Unsigned(v)
           s == IF n = 0 THEN <<Zero>> ELSE Reverse(Digits(n, 16))
           p == <<Zero, 120>> \o s
<1>0. n \in 0..UIntMax /\ n \in Nat /\ 16 \in Bases
  BY NumeralsAssumption DEF Unsigned, Ints, IntMin, UIntMax, Bases
<1> HIDE DEF n
<1>1. s \in Seq(Int) /\ ReadsAs(s, n, 16)
  <2>1. CASE n = 0
    BY <1>0, <2>1, ZeroReads
  <2>2. CASE n # 0
    <3>1. n \in 1..UIntMax
      BY <1>0, <2>2
    <3>2. IsNumeral(Digits(n, 16), n, 16)
      BY <1>0, <3>1, DigitsAreNumeral
    <3> QED
      BY <1>0, <2>2, <3>2, NumeralReads
  <2> QED
    BY <2>1, <2>2
<1>2. p = ptoa(n)
  BY DEF ptoa
<1> HIDE DEF s
<1>3. SubSeq(p, 3, Len(p)) = s
  <2>1. /\ Len(s) \in Nat /\ p \in Seq(Int) /\ Len(p) = Len(s) + 2
        /\ \A i \in 1..Len(s) : p[i + 2] = s[i]
    BY <1>1 DEF Zero
  <2> HIDE DEF p
  <2> DEFINE t == SubSeq(p, 3, Len(p))
  <2>2. \A i \in 1..Len(s) : p[i + 2] \in Int
    BY <1>1, <2>1
  <2>3. t = [i \in 1..Len(s) |-> p[i + 2]]
    <3>1. t = [i \in 1..((Len(p) - 3) + 1) |-> p[(3 + i) - 1]]
      BY <2>1, SubSeqProperties
    <3>2. (Len(p) - 3) + 1 = Len(s) /\ \A i \in 1..Len(s) : (3 + i) - 1 = i + 2
      BY <2>1
    <3> QED
      BY <3>1, <3>2
  <2> HIDE DEF t
  <2>4. t \in Seq(Int) /\ Len(t) = Len(s)
    <3>1. t \in [1..Len(s) -> Int]
      BY <2>2, <2>3
    <3> QED
      BY <2>1, <3>1, FunctionIsSeq
  <2>5. \A i \in 1..Len(s) : t[i] = s[i]
    BY <2>1, <2>3
  <2>6. t = s
    BY <1>1, <2>4, <2>5, SeqEqual
  <2> QED
    BY <2>6 DEF t
<1>4. ReadsAs(SubSeq(ptoa(n), 3, Len(ptoa(n))), n, 16)
  BY <1>1, <1>2, <1>3
<1> QED
  BY <1>4 DEF n

(* What has been converted is an int in one of the two bases.              *)
NInv == \E v \in Ints, b \in Bases : number = Conversions(v, b)

(* The number is right at the start and after a conversion.                *)
LEMMA InitNInv == NumInit => NInv
<1>1. 0 \in Ints /\ 10 \in Bases
  BY NumeralsAssumption DEF Ints, IntMin, Bases
<1> QED
  BY <1>1 DEF NumInit, NInv

(* A step converts an int in one of the two bases, or nothing.             *)
LEMMA StepNInv == NInv /\ [NumNext]_numVars => NInv'
BY DEF NInv, NumNext, Convert, numVars

(* What has been converted reads as what it was converted from.            *)
LEMMA NumeralsRead == NInv => NumeralsAreRight
<1> SUFFICES ASSUME NEW v \in Ints, NEW b \in Bases, number = Conversions(v, b)
             PROVE  NumeralsAreRight
  BY DEF NInv
<1>0. IntMax \in Nat /\ v \in Int
  BY NumeralsAssumption DEF Ints, IntMin
<1>1. /\ number.val = v /\ number.base = b /\ number.stdio = serial_itoa(v, b)
      /\ number.serial = serial_itoa(v, b) /\ number.pointer = ptoa(Unsigned(v))
  BY ItoasAgree DEF Conversions
<1>2. b = 10 /\ v > IntMin =>
        IF v >= 0 THEN ReadsAs(serial_itoa(v, b), v, 10)
        ELSE Head(serial_itoa(v, b)) = Minus /\ ReadsAs(Tail(serial_itoa(v, b)), -v, 10)
  <2>1. CASE v >= 0
    <3>1. v \in 0..IntMax
      BY <1>0, <2>1 DEF Ints
    <3> QED
      BY <2>1, <3>1, PlainReads
  <2>2. CASE v > IntMin /\ ~(v >= 0)
    <3>1. v \in -IntMax..-1
      BY <1>0, <2>2 DEF IntMin
    <3> QED
      BY <2>2, <3>1, SignedReads
  <2> QED
    BY <2>1, <2>2
<1>3. b = 16 /\ v >= 0 => ReadsAs(serial_itoa(v, b), v, 16)
  <2>1. v >= 0 => v \in 0..IntMax
    BY <1>0 DEF Ints
  <2> QED
    BY <2>1, PlainReads
<1>4. ReadsAs(SubSeq(ptoa(Unsigned(v)), 3, Len(ptoa(Unsigned(v)))), Unsigned(v), 16)
  BY PointerReads
<1> QED
  BY <1>1, <1>2, <1>3, <1>4 DEF NumeralsAreRight

(* Whatever the width of an int: the two itoas agree on every int; what    *)
(* they print in base 10 (except INT_MIN) and, of what is not negative, in *)
(* base 16, and what ptoa prints of any pointer, reads as the number.      *)
THEOREM NumeralsPrintNumbers == NumSpec => []NumeralsAreRight
<1> QED
  BY InitNInv, StepNInv, NumeralsRead, PTL DEF NumSpec

-----------------------------------------------------------------------------
(***************************************************************************)
(* Devices: a step of one part leaves the invariants of the others alone.  *)
(***************************************************************************)

DInv ==
  /\ part \in Parts
  /\ LInv /\ Untouched /\ TextTypeOK /\ NInv /\ SInv /\ CInv /\ PInv /\ MInv
  /\ DescInv

(* Of a step of the composition each part sees one of its own, or none.    *)
LEMMA EachPartSteps ==
  ASSUME [DevicesNext]_devVars
  PROVE  /\ [LogNext]_logVars /\ [TextNext]_textVars /\ [SerialNext]_serialVars
         /\ [ClockNext]_clockVars /\ [PciNext]_pciVars /\ [MouseNext]_mouseVars
         /\ [DescNext]_tableVars /\ [NumNext]_numVars /\ part' = part
<1>1. CASE LogPart
  BY <1>1 DEF LogPart, DevicesNext, devVars
<1>2. CASE TextPart
  BY <1>2 DEF TextPart, DevicesNext, devVars
<1>3. CASE NumPart
  BY <1>3 DEF NumPart, DevicesNext, devVars
<1>4. CASE SerialPart
  BY <1>4 DEF SerialPart, DevicesNext, devVars
<1>5. CASE ClockPart
  BY <1>5 DEF ClockPart, DevicesNext, devVars
<1>6. CASE PciPart
  BY <1>6 DEF PciPart, DevicesNext, devVars
<1>7. CASE MousePart
  BY <1>7 DEF MousePart, DevicesNext, devVars
<1>8. CASE TablePart
  BY <1>8 DEF TablePart, DevicesNext, devVars
<1>9. CASE UNCHANGED devVars
  BY <1>9 DEF devVars
<1> QED
  BY <1>1, <1>2, <1>3, <1>4, <1>5, <1>6, <1>7, <1>8, <1>9 DEF DevicesNext

(* The invariants of all the parts together.                               *)
THEOREM DevicesInvariance == DevicesSpec => []DInv
<1>1. DevicesInit => DInv
  BY InitLInv, InitText, InitNInv, InitSInv, InitCInv, InitPInv, InitMInv, InitDescInv
     DEF DevicesInit, DInv, LogInit, Untouched
<1>2. DInv /\ [DevicesNext]_devVars => DInv'
  BY EachPartSteps, StepLInv, StepText, StepNInv, StepSInv, StepCInv, StepPInv,
     StepMInv, StepDescInv DEF DInv
<1> QED
  BY <1>1, <1>2, PTL DEF DevicesSpec

(* Types, side by side.                                                    *)
THEOREM DevicesTypes == DevicesSpec => []DevicesTypeOK
<1>1. DInv => DevicesTypeOK
  BY GoodLog DEF DInv, DevicesTypeOK, SInv, CInv, PInv, MInv
<1> QED
  BY <1>1, DevicesInvariance, PTL

(* All the safety properties of the parts hold side by side: the lines of  *)
(* the log stay in order and are not written over, the bytes of the serial *)
(* port stay in order, no sleep is too short, no function is missed but    *)
(* for misreads, the pointer follows the reports, the tables mean what the *)
(* kernel means and the numerals the numbers.                              *)
THEOREM DevicesAreRight ==
  DevicesSpec => [](/\ LinesStayInOrder /\ CursorPastText /\ SerialInOrder
                    /\ SleepsLongEnough /\ OnlyMisreadsAreMissed
                    /\ FollowsTheMouse /\ SegmentsDecode /\ NumeralsAreRight)
<1>1. DInv => /\ LinesStayInOrder /\ CursorPastText /\ SerialInOrder
              /\ SleepsLongEnough /\ OnlyMisreadsAreMissed
              /\ FollowsTheMouse /\ SegmentsDecode /\ NumeralsAreRight
  BY GoodLog, CInvSleeps, PInvChecks, MInvFollows, DescDecodes, NumeralsRead
  DEF DInv, SInv
<1> QED
  BY <1>1, DevicesInvariance, PTL
=============================================================================
