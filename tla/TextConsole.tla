----------------------------- MODULE TextConsole -----------------------------
(***************************************************************************)
(* The VGA text console, lib/stdio.c: putchar, which Stdout (and so panic) *)
(* and EarlyLog (and so WARN) print with.  The cursor starts over at the   *)
(* top, nothing scrolls.                                                   *)
(***************************************************************************)
EXTENDS Integers

CONSTANTS VGA_WIDTH, VGA_HEIGHT

ASSUME TextAssumption ==
  VGA_WIDTH \in Nat \ {0} /\ VGA_HEIGHT \in Nat \ {0}

VARIABLES
  text_x, text_y,
  text_cell       \* the cell of the text buffer written last

textVars == <<text_x, text_y, text_cell>>

TextInit == text_x = 0 /\ text_y = 0 /\ text_cell = 0

vga_at(x, y) == y * VGA_WIDTH + x

WrapToTopLate(y) == text_y' = IF y > VGA_HEIGHT THEN 0 ELSE y

(* Below the last row comes the first one.                                 *)
WrapToTop(y) == text_y' = IF y >= VGA_HEIGHT THEN 0 ELSE y

TextNewLine ==
  /\ text_x' = 0
  /\ WrapToTop(text_y + 1)
  /\ UNCHANGED text_cell

TextChar ==
  LET full == text_x + 1 >= VGA_WIDTH
  IN  /\ text_cell' = vga_at(text_x, text_y)
      /\ text_x' = IF full THEN 0 ELSE text_x + 1
      /\ WrapToTop(IF full THEN text_y + 1 ELSE text_y)

TextNext == TextNewLine \/ TextChar

TextSpec == TextInit /\ [][TextNext]_textVars

(* The cursor stays on the screen, and putchar inside the text buffer,     *)
(* which is all that map_framebuffer maps of it.                           *)
TextTypeOK ==
  /\ text_x \in 0..(VGA_WIDTH - 1) /\ text_y \in 0..(VGA_HEIGHT - 1)
  /\ text_cell \in 0..(VGA_WIDTH * VGA_HEIGHT - 1)
=============================================================================
