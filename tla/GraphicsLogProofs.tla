-------------------------- MODULE GraphicsLogProofs --------------------------
(***************************************************************************)
(* Proofs about GraphicsLog, for every framebuffer a boot loader may       *)
(* describe, whatever its size and depth: however the screen scrolls and   *)
(* the cursor wraps, the lines stay in order and no text is written over.  *)
(*                                                                         *)
(* The invariant is stated of a cursor and a screen together (Good), so    *)
(* that the operators which make up a call are dealt with one by one.      *)
(***************************************************************************)
EXTENDS GraphicsLog, TLAPS

Rows    == 0..(fb_info.rows - 1)
RowType == [age : Nat, used : 0..fb_info.cols]
Text(s, r) == s.screen[r].used > 0

Shape(s) ==
  s \in [x : Nat, y : Nat, screen : [Rows -> RowType]]

InOrder(s) ==
  \A r, q \in Rows :
    r < q /\ Text(s, r) /\ Text(s, q) => s.screen[r].age > s.screen[q].age

(* Rows above the cursor's are at least one line old.                      *)
Past(s) ==
  \A r \in Rows :
    Text(s, r) => \/ r < s.y /\ s.screen[r].age > 0
                  \/ r = s.y /\ s.screen[r].used <= s.x

Good(s) == Shape(s) /\ InOrder(s) /\ Past(s)

(* The column is one of the screen's, where there are any.                 *)
InColumns(s) == s.x < fb_info.cols \/ s.x = 0

Framebuffer ==
  /\ gd_ok \in BOOLEAN /\ mbd_seen \in BOOLEAN
  /\ fb_info \in [addr : BOOLEAN, cols : Nat, rows : Nat, depth : Nat]
  /\ gd_ok => fb_info.cols > 0

LInv == Framebuffer /\ Good(Log) /\ InColumns(Log)

-----------------------------------------------------------------------------
(* A step to the right keeps the text to the left of the cursor.           *)
LEMMA RightGood ==
  ASSUME NEW s, Good(s)
  PROVE  Good(Right(s)) /\ Right(s).x = s.x + 1
<1>1. Shape(s)
  BY DEF Good
<1>2. /\ Right(s).x = s.x + 1 /\ Right(s).y = s.y /\ Right(s).screen = s.screen
      /\ Shape(Right(s)) /\ s.x \in Nat /\ s.y \in Nat
      /\ \A r \in Rows : s.screen[r].used \in Nat
  BY <1>1 DEF Right, Shape, RowType
<1>3. InOrder(Right(s))
  BY <1>2 DEF Good, InOrder, Text
<1>4. Past(Right(s))
  BY <1>2 DEF Good, Past, Text
<1> QED
  BY <1>2, <1>3, <1>4 DEF Good

(* A character is drawn right of its row's text, and is younger than all   *)
(* other rows.                                                             *)
LEMMA DrawGood ==
  ASSUME Framebuffer, NEW s, Good(s), InColumns(s)
  PROVE  Good(Right(draw_char(s)))
<1>1. CASE ~Drawn(s.y)
  <2>1. draw_char(s) = s
    BY <1>1 DEF draw_char
  <2> QED
    BY <2>1, RightGood
<1>2. CASE Drawn(s.y)
  <2> DEFINE t   == Right(draw_char(s))
             row == [age |-> 0, used |-> s.x + 1]
  <2>1. /\ s.x \in Nat /\ s.y \in Nat /\ s.screen \in [Rows -> RowType]
        /\ fb_info.cols \in Nat /\ fb_info.rows \in Nat
    BY DEF Good, Shape, Framebuffer
  <2>2. s.y \in Rows /\ row \in RowType
    BY <1>2, <2>1 DEF Rows, RowType, InColumns, Framebuffer, Drawn
  <2>3. /\ t.x = s.x + 1 /\ t.y = s.y
        /\ t.screen = [s.screen EXCEPT ![s.y] = row]
        /\ t = [x |-> s.x + 1, y |-> s.y, screen |-> [s.screen EXCEPT ![s.y] = row]]
    <3>1. s = [x |-> s.x, y |-> s.y, screen |-> s.screen]
      BY DEF Good, Shape
    <3>2. draw_char(s) = [s EXCEPT !.screen = [s.screen EXCEPT ![s.y] = row]]
      BY <1>2 DEF draw_char
    <3>3. draw_char(s) = [x |-> s.x, y |-> s.y, screen |-> [s.screen EXCEPT ![s.y] = row]]
      BY <3>1, <3>2
    <3> QED
      BY <3>3 DEF Right
  <2>4. Shape(t)
    BY <2>1, <2>2, <2>3 DEF Shape
  <2>5. /\ t.screen[s.y] = row
        /\ \A r \in Rows : r # s.y => t.screen[r] = s.screen[r]
    BY <2>1, <2>2, <2>3
  <2>6. \A r \in Rows : Text(s, r) /\ r # s.y => r < s.y /\ s.screen[r].age > 0
    BY <2>1 DEF Good, Past
  <2>7. InOrder(t)
    <3> SUFFICES ASSUME NEW r \in Rows, NEW q \in Rows,
                        r < q, Text(t, r), Text(t, q)
                 PROVE  t.screen[r].age > t.screen[q].age
      BY DEF InOrder
    <3>1. CASE r = s.y
      BY <3>1, <2>5, <2>6, <2>1, <2>2 DEF Text, Rows
    <3>2. CASE q = s.y
      BY <3>2, <2>5, <2>6, <2>1, <2>2 DEF Text, Rows
    <3>3. CASE r # s.y /\ q # s.y
      BY <3>3, <2>5 DEF Text, Good, InOrder
    <3> QED
      BY <3>1, <3>2, <3>3
  <2>8. Past(t)
    <3> SUFFICES ASSUME NEW r \in Rows, Text(t, r)
                 PROVE  \/ r < t.y /\ t.screen[r].age > 0
                        \/ r = t.y /\ t.screen[r].used <= t.x
      BY DEF Past
    <3>1. CASE r = s.y
      BY <3>1, <2>1, <2>3, <2>5
    <3>2. CASE r # s.y
      BY <3>2, <2>3, <2>5, <2>6 DEF Text
    <3> QED
      BY <3>1, <3>2
  <2> QED
    BY <2>4, <2>7, <2>8 DEF Good
<1> QED
  BY <1>1, <1>2

(* On the next line every row with text is one line older.                 *)
LEMMA NextLineGood ==
  ASSUME NEW s, Good(s)
  PROVE  /\ Good(NextLine(s)) /\ InColumns(NextLine(s))
         /\ NextLine(s).x = 0 /\ NextLine(s).y = s.y + 1
         /\ \A r \in Rows : Text(NextLine(s), r) => NextLine(s).screen[r].age > 0
<1> DEFINE t == NextLine(s)
<1>1. s.x \in Nat /\ s.y \in Nat /\ s.screen \in [Rows -> RowType]
  BY DEF Good, Shape
<1>2. t.x = 0 /\ t.y = s.y + 1 /\ t.screen = Aged(s.screen)
  BY DEF NextLine
<1>3. DOMAIN s.screen = Rows
  BY <1>1
<1>4. \A r \in Rows :
        /\ t.screen[r] = IF s.screen[r].used = 0 THEN s.screen[r]
                         ELSE [s.screen[r] EXCEPT !.age = @ + 1]
        /\ t.screen[r] \in RowType
        /\ t.screen[r].used = s.screen[r].used
        /\ Text(t, r) => t.screen[r].age = s.screen[r].age + 1
        /\ s.screen[r].age \in Nat
  BY <1>1, <1>2, <1>3 DEF Aged, RowType, Text
<1>5. Shape(t)
  <2>1. t.screen \in [Rows -> RowType]
    BY <1>2, <1>3, <1>4 DEF Aged
  <2> QED
    BY <2>1, <1>1, <1>2 DEF Shape, NextLine
<1>6. InOrder(t)
  <2> SUFFICES ASSUME NEW r \in Rows, NEW q \in Rows,
                      r < q, Text(t, r), Text(t, q)
               PROVE  t.screen[r].age > t.screen[q].age
    BY DEF InOrder
  <2>1. Text(s, r) /\ Text(s, q)
    BY <1>4 DEF Text
  <2>2. s.screen[r].age > s.screen[q].age
    BY <2>1 DEF Good, InOrder
  <2>3. /\ t.screen[r].age = s.screen[r].age + 1 /\ s.screen[r].age \in Nat
        /\ t.screen[q].age = s.screen[q].age + 1 /\ s.screen[q].age \in Nat
    BY <1>4
  <2> HIDE DEF t
  <2> QED
    BY <2>2, <2>3
<1>7. \A r \in Rows : Text(t, r) => t.screen[r].age > 0
  <2> SUFFICES ASSUME NEW r \in Rows, Text(t, r)
               PROVE  t.screen[r].age > 0
    OBVIOUS
  <2>1. t.screen[r].age = s.screen[r].age + 1 /\ s.screen[r].age \in Nat
    BY <1>4
  <2> HIDE DEF t
  <2> QED
    BY <2>1
<1>8. Past(t)
  <2> SUFFICES ASSUME NEW r \in Rows, Text(t, r)
               PROVE  r < t.y /\ t.screen[r].age > 0
    BY DEF Past
  <2>1. Text(s, r) /\ t.screen[r].age > 0
    BY <1>4, <1>7 DEF Text
  <2>2. r <= s.y /\ r \in Int
    BY <2>1, <1>1 DEF Good, Past, Rows
  <2> QED
    BY <2>1, <2>2, <1>1, <1>2
<1> QED
  BY <1>2, <1>5, <1>6, <1>8, <1>7 DEF Good, InColumns

(* A line feed at the bottom scrolls: the cursor's row is cleared, and the *)
(* rows that are left keep their order, whatever the distance.             *)
LEMMA LineFeedGood ==
  ASSUME Framebuffer, NEW s, Good(s)
  PROVE  Good(LineFeed(s)) /\ InColumns(LineFeed(s))
<1> DEFINE t == NextLine(s)
           u == LineFeed(s)
<1>1. /\ Good(t) /\ InColumns(t) /\ t.x = 0 /\ t.y = s.y + 1
      /\ \A r \in Rows : Text(t, r) => t.screen[r].age > 0
  BY NextLineGood
<1>2. /\ s.y \in Nat /\ t.screen \in [Rows -> RowType]
      /\ fb_info.rows \in Nat /\ fb_info.depth \in Nat /\ fb_info.cols \in Nat
  BY <1>1 DEF Good, Shape, Framebuffer
<1>3. CASE t.y + 1 > fb_info.rows
  <2>1. u = [t EXCEPT !.y = t.y - 1, !.screen = scroll_screen(t.screen)]
    BY <1>3 DEF LineFeed
  <2>2. t = [x |-> 0, y |-> s.y + 1, screen |-> Aged(s.screen)]
    BY DEF NextLine
  <2>3. u.x = 0 /\ u.y = s.y /\ u.screen = scroll_screen(t.screen)
        /\ u = [x |-> 0, y |-> s.y, screen |-> scroll_screen(t.screen)]
    <3>1. u = [[x |-> 0, y |-> s.y + 1, screen |-> Aged(s.screen)] EXCEPT
                !.y = t.y - 1, !.screen = scroll_screen(t.screen)]
      BY <2>1, <2>2
    <3>2. u = [x |-> 0, y |-> t.y - 1, screen |-> scroll_screen(t.screen)]
      BY <3>1
    <3>3. t.y - 1 = s.y
      BY <1>1, <1>2
    <3> HIDE DEF t, u
    <3> QED
      BY <3>2, <3>3
  <2>4. NoText \in RowType /\ NoText.used = 0
    BY <1>2 DEF NoText, RowType
  <2>5. \A r \in Rows :
          \/ u.screen[r] = NoText
          \/ /\ r # fb_info.rows - 1 /\ r + fb_info.depth \in Rows
             /\ u.screen[r] = t.screen[r + fb_info.depth]
    BY <2>3, <1>2 DEF scroll_screen, Rows
  <2>6. u.screen \in [Rows -> RowType]
    <3>1. DOMAIN t.screen = Rows
      BY <1>2
    <3>2. u.screen = [r \in Rows |-> u.screen[r]]
      BY <3>1, <2>3 DEF scroll_screen
    <3>3. \A r \in Rows : u.screen[r] \in RowType
      BY <2>4, <2>5, <1>2
    <3> QED
      BY <3>2, <3>3
  <2>7. Shape(u)
    BY <2>3, <2>6, <1>2 DEF Shape
  <2>8. \A r \in Rows : Text(u, r) =>
          /\ r # fb_info.rows - 1 /\ r + fb_info.depth \in Rows
          /\ u.screen[r] = t.screen[r + fb_info.depth]
          /\ Text(t, r + fb_info.depth)
    BY <2>4, <2>5 DEF Text
  <2>9. InOrder(u)
    <3> SUFFICES ASSUME NEW r \in Rows, NEW q \in Rows,
                        r < q, Text(u, r), Text(u, q)
                 PROVE  u.screen[r].age > u.screen[q].age
      BY DEF InOrder
    <3>1. r + fb_info.depth < q + fb_info.depth
      BY <1>2 DEF Rows
    <3> QED
      BY <3>1, <2>8, <1>1 DEF Good, InOrder
  <2>10. Past(u)
    <3> SUFFICES ASSUME NEW r \in Rows, Text(u, r)
                 PROVE  r < u.y /\ u.screen[r].age > 0
      BY DEF Past
    <3>1. r < s.y
      BY <1>1, <1>2, <1>3, <2>8 DEF Rows
    <3>2. u.screen[r].age > 0
      BY <1>1, <2>8
    <3> QED
      BY <3>1, <3>2, <2>3
  <2> QED
    BY <2>3, <2>7, <2>9, <2>10 DEF Good, InColumns
<1>4. CASE ~(t.y + 1 > fb_info.rows)
  <2>1. u = t
    BY <1>4 DEF LineFeed
  <2> QED
    BY <2>1, <1>1
<1> QED
  BY <1>3, <1>4

(* A character that does not fill its line leaves the column on the screen.*)
LEMMA NotFull ==
  ASSUME Framebuffer, NEW s, Good(s), ~Full(s)
  PROVE  InColumns(s)
<1>1. s.x \in Nat /\ fb_info.cols \in Nat
  BY DEF Good, Shape, Framebuffer
<1> QED
  BY <1>1 DEF Full, InColumns

(* gdl_putchar, gdl_print_color and kDebug keep a good log good.           *)
LEMMA PutcharGood ==
  ASSUME Framebuffer, NEW s, Good(s), InColumns(s)
  PROVE  Good(gdl_putchar(s)) /\ InColumns(gdl_putchar(s))
<1> DEFINE t == Right(draw_char(s))
<1>1. Good(t)
  BY DrawGood
<1>2. CASE Full(t)
  BY <1>1, <1>2, LineFeedGood DEF gdl_putchar
<1>3. CASE ~Full(t)
  BY <1>1, <1>3, NotFull DEF gdl_putchar
<1> QED
  BY <1>2, <1>3

(* gdl_print_color writes one character of the coloured log text and keeps *)
(* the cursor on the screen.                                               *)
LEMMA PrintColorGood ==
  ASSUME Framebuffer, NEW s, Good(s), InColumns(s)
  PROVE  Good(gdl_print_color(s)) /\ InColumns(gdl_print_color(s))
<1> DEFINE t == Right(draw_char(s))
<1>1. Good(t)
  BY DrawGood
<1>2. CASE Full(t)
  BY <1>1, <1>2, NextLineGood DEF gdl_print_color
<1>3. CASE ~Full(t)
  BY <1>1, <1>3, NotFull DEF gdl_print_color
<1> QED
  BY <1>2, <1>3

(* A character of kDebug's format, after which the cursor moves on once    *)
(* more than gdl_putchar moved it, stays on the screen.                    *)
LEMMA PlainGood ==
  ASSUME Framebuffer, NEW s, Good(s), InColumns(s)
  PROVE  Good(kDebugPlain(s)) /\ InColumns(kDebugPlain(s))
<1> DEFINE t == Right(gdl_putchar(s))
<1>1. Good(t)
  BY PutcharGood, RightGood
<1>2. CASE Full(t)
  BY <1>1, <1>2, NextLineGood DEF kDebugPlain
<1>3. CASE ~Full(t)
  BY <1>1, <1>3, NotFull DEF kDebugPlain
<1> QED
  BY <1>2, <1>3

-----------------------------------------------------------------------------
(* A call that makes a good log of the old one keeps the invariant.        *)
LEMMA BecomesLInv ==
  ASSUME LInv, NEW s, Good(s), InColumns(s), Becomes(s)
  PROVE  LInv'
<1>1. UNCHANGED fb_info /\ UNCHANGED gd_ok /\ UNCHANGED mbd_seen
  BY DEF Becomes
<1>2. Log' = [x |-> s.x, y |-> s.y, screen |-> s.screen]
  BY DEF Becomes, Log
<1>3. s = [x |-> s.x, y |-> s.y, screen |-> s.screen]
  BY DEF Good, Shape
<1>4. Log' = s
  BY <1>2, <1>3
<1>5. Framebuffer'
  BY <1>1 DEF LInv, Framebuffer
<1>6. Good(Log)' /\ InColumns(Log)'
  BY <1>1, <1>4 DEF Good, Shape, InOrder, Past, Text, Rows, RowType, InColumns
<1> QED
  BY <1>5, <1>6 DEF LInv

(* gd_init runs once, before anything is drawn.                            *)
LEMMA InitLInv == LogInit => LInv
<1> SUFFICES ASSUME LogInit PROVE LInv
  OBVIOUS
<1>1. /\ fb_info = NoInfo /\ gd_ok = FALSE /\ mbd_seen = FALSE
      /\ Log = [x |-> 0, y |-> 0, screen |-> <<>>]
  BY DEF LogInit, Log
<1>2. Rows = {}
  BY <1>1 DEF Rows, NoInfo
<1>3. <<>> \in [Rows -> RowType]
  BY <1>2
<1>4. Framebuffer
  BY <1>1 DEF Framebuffer, NoInfo
<1>5. Good(Log) /\ InColumns(Log)
  BY <1>1, <1>2, <1>3 DEF Good, Shape, InOrder, Past, InColumns
<1> QED
  BY <1>4, <1>5 DEF LInv

(* Before gd_init the cursor is in the corner.                             *)
Untouched == ~mbd_seen => gdl_x = 0 /\ gdl_y = 0

(* gd_init with whatever the boot loader says: it fills fb_info in or      *)
(* leaves the log as it was.                                               *)
LEMMA GdInitLInv ==
  ASSUME LInv, Untouched, NEW b \in BootInfos, GdInit(b)
  PROVE  LInv'
<1>1. b \in [magic : BOOLEAN, flag12 : BOOLEAN, type : 0..2,
             addr : BOOLEAN, cols : Nat, rows : Nat, depth : Nat]
  BY LogAssumption
<1>2. fb_info' = IF Recognised(b)
                 THEN [addr |-> b.addr, cols |-> b.cols, rows |-> b.rows, depth |-> b.depth]
                 ELSE NoInfo
  BY DEF GdInit
<1>3. fb_info' \in [addr : BOOLEAN, cols : Nat, rows : Nat, depth : Nat]
  BY <1>1, <1>2 DEF NoInfo
<1>4. gd_ok' \in BOOLEAN /\ mbd_seen' \in BOOLEAN
  BY DEF GdInit, get_framebuffer
<1>5. gd_ok' => fb_info'.cols > 0
  <2> SUFFICES ASSUME gd_ok' PROVE fb_info'.cols > 0
    OBVIOUS
  <2>1. Recognised(b) /\ b.cols # 0
    BY DEF GdInit, get_framebuffer
  <2>2. fb_info'.cols = b.cols
    BY <2>1, <1>2
  <2> QED
    BY <2>1, <2>2, <1>1
<1>6. gdl_x' = 0 /\ gdl_y' = 0 /\ screen' = [r \in 0..(fb_info'.rows - 1) |-> NoText]
  BY DEF GdInit, Untouched
<1>7. Framebuffer'
  BY <1>3, <1>4, <1>5 DEF Framebuffer
<1>8. NoText \in RowType' /\ NoText.used = 0
  BY <1>3 DEF RowType, NoText
<1>9. screen' \in [Rows' -> RowType'] /\ \A r \in Rows' : screen'[r] = NoText
  BY <1>6, <1>8 DEF Rows
<1>10. Log' = [x |-> 0, y |-> 0, screen |-> screen']
  BY <1>6 DEF Log
<1>11. \A r \in Rows' : ~Text(Log, r)'
  BY <1>8, <1>9, <1>10 DEF Text
<1>12. Good(Log)' /\ InColumns(Log)'
  <2>1. Shape(Log)'
    BY <1>9, <1>10 DEF Shape
  <2>2. InOrder(Log)' /\ Past(Log)'
    BY <1>11 DEF InOrder, Past
  <2> QED
    BY <2>1, <2>2, <1>10 DEF Good, InColumns
<1> QED
  BY <1>7, <1>12 DEF LInv

(* The invariant is inductive: gd_init, each character of a line, each     *)
(* advance of the cursor.                                                  *)
LEMMA StepLInv == LInv /\ Untouched /\ [LogNext]_logVars => (LInv /\ Untouched)'
<1> SUFFICES ASSUME LInv, Untouched, [LogNext]_logVars
             PROVE  LInv' /\ Untouched'
  OBVIOUS
<1>1. Framebuffer /\ Good(Log) /\ InColumns(Log)
  BY DEF LInv
<1>2. ASSUME NEW b \in BootInfos, GdInit(b) PROVE LInv' /\ Untouched'
  BY <1>2, GdInitLInv DEF GdInit, Untouched
<1>3. CASE PutChar
  BY <1>1, <1>3, PutcharGood, BecomesLInv DEF PutChar, Becomes, Untouched
<1>4. CASE PrintColor
  BY <1>1, <1>4, PrintColorGood, BecomesLInv DEF PrintColor, Becomes, Untouched
<1>5. CASE Plain
  BY <1>1, <1>5, PlainGood, BecomesLInv DEF Plain, Becomes, Untouched
<1>6. CASE NewLine
  BY <1>1, <1>6, LineFeedGood, BecomesLInv DEF NewLine, Becomes, Untouched
<1>7. CASE UNCHANGED logVars
  BY <1>7 DEF logVars, LInv, Untouched, Framebuffer, Log, Good, Shape, InOrder,
              Past, Text, Rows, RowType, InColumns
<1> QED
  BY <1>2, <1>3, <1>4, <1>5, <1>6, <1>7 DEF LogNext

(* The invariant in every state of the log.                                *)
THEOREM LogInvariance == LogSpec => []LInv
<1>1. LogInit => LInv /\ Untouched
  BY InitLInv DEF LogInit, Untouched
<1>2. LInv /\ Untouched /\ [LogNext]_logVars => (LInv /\ Untouched)'
  BY StepLInv
<1> QED
  BY <1>1, <1>2, PTL DEF LogSpec

(* What Good says of the log, in the words of the properties.              *)
LEMMA GoodLog ==
  ASSUME LInv
  PROVE  LinesStayInOrder /\ CursorPastText /\ LogTypeOK
<1>1. /\ Log.x = gdl_x /\ Log.y = gdl_y /\ Log.screen = screen
      /\ gdl_x \in Nat /\ gdl_y \in Nat /\ screen \in [Rows -> RowType]
      /\ DOMAIN screen = Rows
  BY DEF LInv, Good, Shape, Log
<1>2. LinesStayInOrder
  BY <1>1 DEF LInv, Good, InOrder, Text, LinesStayInOrder, HasText
<1>3. CursorPastText
  BY <1>1 DEF LInv, Good, Past, Text, CursorPastText, HasText
<1>4. LogTypeOK
  BY <1>1 DEF LInv, Framebuffer, InColumns, LogTypeOK, Rows, RowType
<1> QED
  BY <1>2, <1>3, <1>4

(* Types, and the cursor's column is always on the screen.                 *)
THEOREM LogTypes == LogSpec => []LogTypeOK
<1>1. LInv => LogTypeOK
  BY GoodLog
<1> QED
  BY <1>1, LogInvariance, PTL

(* The lines of the log stay in order from top to bottom.                  *)
THEOREM LinesInOrder == LogSpec => []LinesStayInOrder
<1>1. LInv => LinesStayInOrder
  BY GoodLog
<1> QED
  BY <1>1, LogInvariance, PTL

(* No character is drawn over another.                                     *)
THEOREM NothingOverwritten == LogSpec => []CursorPastText
<1>1. LInv => CursorPastText
  BY GoodLog
<1> QED
  BY <1>1, LogInvariance, PTL
=============================================================================
