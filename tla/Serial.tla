-------------------------------- MODULE Serial --------------------------------
(***************************************************************************)
(* The serial port, lib/serial.c: serial_write and serial_printf send a    *)
(* string byte by byte, each when the line status says that the            *)
(* transmitter's holding register is empty; the UART empties it at its own *)
(* pace.  Nothing in the kernel calls these functions yet.                 *)
(***************************************************************************)
EXTENDS Integers, Sequences

CONSTANTS
  Chars,    \* the characters of a string; "nl" is '\n'
  MaxText,  \* bound: the length of a string
  MaxSent   \* bound: the bytes printed before the last call

ASSUME SerialAssumption ==
  /\ "nl" \in Chars /\ "cr" \notin Chars
  /\ MaxText \in Nat /\ MaxSent \in Nat

VARIABLES
  text,     \* what the call in progress has still to print
  newline,  \* the bytes it sends for a line feed
  pending,  \* the bytes of the current character that are still to be sent
  ready,    \* is_serial_transmit_empty has answered yes for the next one
  thr,      \* the transmitter's holding register, empty or one byte
  line,     \* what has gone out
  asked     \* history: the bytes of all characters printed so far

serialVars == <<text, newline, pending, ready, thr, line, asked>>

Bytes == Chars \cup {"cr"}

SerialInit ==
  /\ text = <<>> /\ newline = <<>>
  /\ pending = <<>> /\ ready = FALSE
  /\ thr = <<>> /\ line = <<>>
  /\ asked = <<>>

(* serial_write sends a line feed twice, behind one carriage return;       *)
(* serial_printf's own text has it once.                                   *)
Strings == UNION { [1..n -> Chars] : n \in 1..MaxText }

Call(str, nl) ==
  /\ text = <<>> /\ pending = <<>>
  /\ Len(asked) <= MaxSent
  /\ text' = str /\ newline' = nl
  /\ UNCHANGED <<pending, ready, thr, line, asked>>

serial_write(str)  == Call(str, <<"cr", "nl", "nl">>)
serial_printf(str) == Call(str, <<"cr", "nl">>)

NextChar ==
  /\ text # <<>> /\ pending = <<>>
  /\ pending' = IF Head(text) = "nl" THEN newline ELSE <<Head(text)>>
  /\ text' = Tail(text)
  /\ asked' = asked \o pending'
  /\ UNCHANGED <<newline, ready, thr, line>>

(* serial_write_byte polls the line status register ...                    *)
PollAnyway ==
  /\ pending # <<>> /\ ~ready
  /\ ready' = TRUE
  /\ UNCHANGED <<text, newline, pending, thr, line, asked>>

Poll ==
  /\ pending # <<>> /\ ~ready
  /\ ready' = (thr = <<>>)
  /\ UNCHANGED <<text, newline, pending, thr, line, asked>>

(* ... and writes to the data port; a byte that is still there is lost.    *)
Put ==
  /\ ready
  /\ thr' = <<Head(pending)>>
  /\ pending' = Tail(pending)
  /\ ready' = FALSE
  /\ UNCHANGED <<text, newline, line, asked>>

UartSends ==
  /\ thr # <<>>
  /\ line' = line \o thr
  /\ thr' = <<>>
  /\ UNCHANGED <<text, newline, pending, ready, asked>>

SerialNext ==
  \/ \E str \in Strings : serial_write(str) \/ serial_printf(str)
  \/ NextChar \/ Poll \/ Put \/ UartSends

SerialSpec == SerialInit /\ [][SerialNext]_serialVars

-----------------------------------------------------------------------------
SerialTypeOK ==
  /\ text \in Seq(Chars) /\ newline \in Seq(Bytes)
  /\ pending \in Seq(Bytes) /\ line \in Seq(Bytes) /\ asked \in Seq(Bytes)
  /\ ready \in BOOLEAN /\ thr \in Seq(Bytes) /\ Len(thr) <= 1

(* Every byte goes out once and in order: what has gone out, what is in    *)
(* the holding register and what is still to be sent make up all that was  *)
(* printed, however slow the UART is.                                      *)
SerialInOrder == line \o thr \o pending = asked
=============================================================================
