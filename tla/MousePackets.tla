----------------------------- MODULE MousePackets -----------------------------
(***************************************************************************)
(* The mouse's packets, drivers/mouse.c: mouse_irq_handler collects the    *)
(* bytes of a packet, process_packet moves the pointer.  Nothing tells     *)
(* where a packet begins.  The module takes line 12 to be unmasked; in the *)
(* kernel as it is it never is (Interrupts).                               *)
(***************************************************************************)
EXTENDS Integers, Sequences

CONSTANTS
  Byte,                        \* the values of a byte, 256
  SCREEN_WIDTH, SCREEN_HEIGHT,
  Moves                        \* movements the mouse may report on an axis

ASSUME MouseAssumption ==
  /\ Byte \in Nat /\ Byte > 1
  /\ SCREEN_WIDTH \in Nat \ {0} /\ SCREEN_HEIGHT \in Nat \ {0}
  /\ Moves \subseteq Int

VARIABLES
  mouse_packet,     \* the bytes collected; packet_index is their number
  mouse_x, mouse_y,
  sending,          \* the bytes of the mouse's report still to come
  hand_x, hand_y,   \* history: where the reports sent so far lead
  byte_lost         \* history: a byte has not arrived

mouseVars == <<mouse_packet, mouse_x, mouse_y, sending, hand_x, hand_y, byte_lost>>

MouseInit ==
  /\ mouse_packet = <<>> /\ sending = <<>>
  /\ mouse_x = SCREEN_WIDTH \div 2 /\ mouse_y = SCREEN_HEIGHT \div 2
  /\ hand_x = mouse_x /\ hand_y = mouse_y
  /\ byte_lost = FALSE

Clamp(v, size) == IF v < 0 THEN 0 ELSE IF v > size - 1 THEN size - 1 ELSE v

(* The mouse sends its buttons and the low bytes of a movement; up counts  *)
(* as positive.  The sign and overflow bits are among the buttons, where   *)
(* nobody looks: a movement counts as what its low byte is as a signed     *)
(* number, which is another one when it needs the ninth bit.               *)
Buttons == 0
InByte(m) == ((m + (Byte \div 2)) % Byte) - (Byte \div 2)

Report(dx, dy) ==
  /\ sending = <<>>
  /\ sending' = <<Buttons, dx % Byte, dy % Byte>>
  /\ hand_x' = Clamp(hand_x + InByte(dx), SCREEN_WIDTH)
  /\ hand_y' = Clamp(hand_y - InByte(dy), SCREEN_HEIGHT)
  /\ UNCHANGED <<mouse_packet, mouse_x, mouse_y, byte_lost>>

int8(v) == IF v > (Byte - 1) \div 2 THEN v - Byte ELSE v

process_packet(packet) ==
  /\ mouse_x' = Clamp(mouse_x + int8(packet[2]), SCREEN_WIDTH)
  /\ mouse_y' = Clamp(mouse_y - int8(packet[3]), SCREEN_HEIGHT)

mouse_irq_handler_keeping ==
  /\ sending # <<>> /\ sending' = Tail(sending)
  /\ LET packet == Append(mouse_packet, Head(sending))
     IN  IF Len(packet) \in {3, 4}
         THEN process_packet(packet) /\ mouse_packet' = <<Head(sending)>>
         ELSE mouse_packet' = packet /\ UNCHANGED <<mouse_x, mouse_y>>
  /\ UNCHANGED <<hand_x, hand_y, byte_lost>>

(* A packet is processed with its third byte, so that the index is 4 never *)
(* and the wheel is not read.                                              *)
mouse_irq_handler ==
  /\ sending # <<>> /\ sending' = Tail(sending)
  /\ LET packet == Append(mouse_packet, Head(sending))
     IN  IF Len(packet) \in {3, 4}
         THEN process_packet(packet) /\ mouse_packet' = <<>>
         ELSE mouse_packet' = packet /\ UNCHANGED <<mouse_x, mouse_y>>
  /\ UNCHANGED <<hand_x, hand_y, byte_lost>>

(* A byte overwritten before the handler reads it, or taken by the         *)
(* keyboard's handler, which reads the same port.                          *)
ByteLost ==
  /\ sending # <<>> /\ sending' = Tail(sending)
  /\ byte_lost' = TRUE
  /\ UNCHANGED <<mouse_packet, mouse_x, mouse_y, hand_x, hand_y>>

MouseNext ==
  \/ \E dx, dy \in Moves : Report(dx, dy)
  \/ mouse_irq_handler \/ ByteLost

MouseSpec == MouseInit /\ [][MouseNext]_mouseVars

-----------------------------------------------------------------------------
MouseTypeOK ==
  /\ mouse_packet \in Seq(0..(Byte - 1)) /\ Len(mouse_packet) <= 2
  /\ mouse_x \in 0..(SCREEN_WIDTH - 1) /\ mouse_y \in 0..(SCREEN_HEIGHT - 1)
  /\ sending \in Seq(0..(Byte - 1)) /\ Len(sending) <= 3
  /\ hand_x \in 0..(SCREEN_WIDTH - 1) /\ hand_y \in 0..(SCREEN_HEIGHT - 1)
  /\ byte_lost \in BOOLEAN

(* The pointer follows the reports: between two of them it is where their  *)
(* low bytes lead, each movement clamped to the screen, as long as no byte *)
(* has been lost (one lost byte shifts all later packets).  It follows the *)
(* mouse itself only as long as the movements fit a signed byte.           *)
FollowsTheMouse ==
  sending = <<>> /\ ~byte_lost => mouse_x = hand_x /\ mouse_y = hand_y
=============================================================================
