---------------------------- MODULE MCGraphicsLog ----------------------------
(***************************************************************************)
(* Screens of a few characters, with 2, 3 and 4 bytes to a pixel.          *)
(***************************************************************************)
EXTENDS GraphicsLog

Boot(c, r, d) == [magic |-> TRUE, flag12 |-> TRUE, type |-> 1, addr |-> TRUE,
                  cols |-> c, rows |-> r, depth |-> d]

(* Three framebuffers, one of a single column, and one of each kind that   *)
(* gd_init refuses.                                                        *)
GoodScreens == { Boot(3, 4, 4), Boot(1, 3, 3), Boot(2, 5, 2) }
MCBootInfos ==
  GoodScreens \cup
  { [Boot(2, 3, 4) EXCEPT !.magic = FALSE], [Boot(2, 3, 4) EXCEPT !.flag12 = FALSE],
    [Boot(2, 3, 4) EXCEPT !.type = 0], [Boot(2, 3, 4) EXCEPT !.addr = FALSE],
    Boot(0, 3, 4), Boot(2, 0, 4) }
=============================================================================
