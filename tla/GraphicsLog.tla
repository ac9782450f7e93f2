----------------------------- MODULE GraphicsLog -----------------------------
(***************************************************************************)
(* The log on the framebuffer, drivers/gd.c: gd_init takes the framebuffer *)
(* the boot loader describes, and gdl_putchar, kDebug and gdl_print_color  *)
(* draw 8x8 characters at a cursor, scroll_screen moving the picture up at *)
(* the bottom.                                                             *)
(*                                                                         *)
(* Positions are counted in characters: gdl_log.x and y are 8 times gdl_x  *)
(* and gdl_y.  The height is a multiple of 8, as in every usual mode.  Of  *)
(* a row of the screen only the log's own text is kept: how far it reaches *)
(* (used) and how many lines ago it was written (age); whatever else the   *)
(* memory shows is NoText.                                                 *)
(***************************************************************************)
EXTENDS Integers

CONSTANTS
  BootInfos,  \* what a boot loader may say of its framebuffer
  MaxBelow    \* bound: rows below the screen the cursor is followed to

ASSUME LogAssumption ==
  /\ BootInfos \subseteq [magic : BOOLEAN, flag12 : BOOLEAN, type : 0..2,
                          addr : BOOLEAN, cols : Nat, rows : Nat, depth : Nat]
  /\ MaxBelow \in Nat

VARIABLES
  mbd_seen,  \* gd_init has run
  gd_ok,
  fb_info,   \* [addr, cols, rows, depth]; depth is bpp / 8
  gdl_x, gdl_y,
  screen     \* the rows of the framebuffer, from 0

logVars == <<mbd_seen, gd_ok, fb_info, gdl_x, gdl_y, screen>>

NoText == [age |-> 0, used |-> 0]
NoInfo == [addr |-> FALSE, cols |-> 0, rows |-> 0, depth |-> 0]

LogInit ==
  /\ mbd_seen = FALSE /\ gd_ok = FALSE
  /\ fb_info = NoInfo
  /\ gdl_x = 0 /\ gdl_y = 0
  /\ screen = <<>>

-----------------------------------------------------------------------------
(* get_framebuffer leaves fb_info as it was (all zero) for a bad magic, a  *)
(* missing flag or a type that is neither 1 (RGB) nor 2 (EGA text); the    *)
(* sizes and the address are looked at when they have been recorded.       *)
Recognised(b) == b.magic /\ b.flag12 /\ b.type \in {1, 2}

get_framebuffer(b) ==
  /\ Recognised(b)
  /\ b.cols # 0 /\ b.rows # 0 /\ b.addr

(* gd_init: the second call of kernel_init repeats the first one.          *)
GdInit(b) ==
  /\ ~mbd_seen /\ mbd_seen' = TRUE
  /\ fb_info' = IF Recognised(b)
                THEN [addr |-> b.addr, cols |-> b.cols, rows |-> b.rows, depth |-> b.depth]
                ELSE NoInfo
  /\ gd_ok' = get_framebuffer(b)
  /\ screen' = [r \in 0..(fb_info'.rows - 1) |-> NoText]
  /\ UNCHANGED <<gdl_x, gdl_y>>

-----------------------------------------------------------------------------
(* The cursor and the screen together, as one call after the other changes *)
(* them.                                                                   *)
Log == [x |-> gdl_x, y |-> gdl_y, screen |-> screen]

Aged(sc) ==
  [r \in DOMAIN sc |->
     IF sc[r].used = 0 THEN sc[r] ELSE [sc[r] EXCEPT !.age = @ + 1]]

(* put_pixel draws nothing outside the picture, or without a framebuffer.  *)
Drawn(y) == gd_ok /\ y < fb_info.rows

draw_char(s) ==
  IF Drawn(s.y)
  THEN [s EXCEPT !.screen[s.y] = [age |-> 0, used |-> s.x + 1]]
  ELSE s

(* scroll_screen(8).  bytes_per_line is pitch * (bpp / 8), although pitch  *)
(* is in bytes already, so that memory moves up by depth rows, from far    *)
(* beyond the framebuffer; then the last row is cleared.  map_framebuffer  *)
(* maps no page there: whether these accesses fault is not modelled, the   *)
(* module says what the screen shows when they go through.                 *)
scroll_screen(sc) ==
  [r \in DOMAIN sc |->
     IF r = fb_info.rows - 1 THEN NoText
     ELSE IF r + fb_info.depth < fb_info.rows THEN sc[r + fb_info.depth] ELSE NoText]

NextLine(s) == [x |-> 0, y |-> s.y + 1, screen |-> Aged(s.screen)]

LineFeedToTop(s) ==
  LET t == NextLine(s)
  IN  IF t.y + 1 > fb_info.rows THEN [t EXCEPT !.y = 0] ELSE t

(* '\n', and the end of a line in gdl_putchar.                             *)
LineFeed(s) ==
  LET t == NextLine(s)
  IN  IF t.y + 1 > fb_info.rows
      THEN [t EXCEPT !.y = t.y - 1, !.screen = scroll_screen(t.screen)]
      ELSE t

Right(s) == [s EXCEPT !.x = @ + 1]
Full(s)  == s.x + 1 > fb_info.cols

gdl_putcharOverprint(s) ==
  LET t == Right(draw_char(s)) IN IF Full(t) THEN [t EXCEPT !.x = 0] ELSE t

gdl_putchar(s) ==
  LET t == Right(draw_char(s)) IN IF Full(t) THEN LineFeed(t) ELSE t

(* A character of kDebug's format: gdl_putchar has advanced the cursor,    *)
(* kDebug advances it again, and its wrap does not scroll.                 *)
kDebugPlain(s) ==
  LET t == Right(gdl_putchar(s)) IN IF Full(t) THEN NextLine(t) ELSE t

(* A character of gdl_print_color, whose wrap does not scroll either.      *)
gdl_print_color(s) ==
  LET t == Right(draw_char(s)) IN IF Full(t) THEN NextLine(t) ELSE t

Becomes(s) ==
  /\ mbd_seen
  /\ s.y <= fb_info.rows + MaxBelow
  /\ gdl_x' = s.x /\ gdl_y' = s.y /\ screen' = s.screen
  /\ UNCHANGED <<mbd_seen, gd_ok, fb_info>>

(* What kDebug prints for %d, %x, %c, %s and the like; %p's 0x; other      *)
(* characters of its format; and line feeds.                               *)
PutChar    == Becomes(gdl_putchar(Log))
PrintColor == Becomes(gdl_print_color(Log))
Plain      == Becomes(kDebugPlain(Log))
NewLine    == Becomes(LineFeed(Log))

LogNext ==
  \/ \E b \in BootInfos : GdInit(b)
  \/ PutChar \/ PrintColor \/ Plain \/ NewLine

LogSpec == LogInit /\ [][LogNext]_logVars

-----------------------------------------------------------------------------
LogTypeOK ==
  /\ mbd_seen \in BOOLEAN /\ gd_ok \in BOOLEAN
  /\ fb_info \in [addr : BOOLEAN, cols : Nat, rows : Nat, depth : Nat]
  /\ gdl_x \in Nat /\ gdl_y \in Nat
  /\ gdl_x < fb_info.cols \/ gdl_x = 0
  /\ screen \in [0..(fb_info.rows - 1) -> [age : Nat, used : 0..fb_info.cols]]

(* The log reads from top to bottom: of two rows with text, the lower one  *)
(* was written later, however often the screen has scrolled (by the wrong  *)
(* distance) and the cursor has wrapped.                                   *)
HasText(r) == screen[r].used > 0

LinesStayInOrder ==
  \A r, q \in DOMAIN screen :
    r < q /\ HasText(r) /\ HasText(q) => screen[r].age > screen[q].age

(* Text is never written over: all of it is above the cursor or, in the    *)
(* cursor's row, to the left of it, also after kDebug's double steps and   *)
(* the wraps that do not scroll.  It is said of the text on the screen:    *)
(* what is printed with the cursor below it is not drawn, and is lost.     *)
CursorPastText ==
  \A r \in DOMAIN screen :
    HasText(r) => r < gdl_y \/ (r = gdl_y /\ screen[r].used <= gdl_x)

(* gd.c:268 says of scroll_screen(8): "scroll up".  At the bottom of the   *)
(* screen a line feed moves every line to the row above, and loses the     *)
(* topmost one only.                                                       *)
ScrollsUp ==
  [][gdl_y = fb_info.rows - 1 /\ gdl_y' = gdl_y /\ gdl_x' = 0
       => \A r \in DOMAIN screen \ {0} : screen'[r - 1].used >= screen[r].used]_logVars
=============================================================================
