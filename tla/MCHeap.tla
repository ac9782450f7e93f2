------------------------------- MODULE MCHeap -------------------------------
(***************************************************************************)
(* Heaps of 7-unit frames with headers of 2, of which a frame holds no     *)
(* whole number, and of 6-unit frames with headers of 1.  Requests:        *)
(* nothing, a small one, one that leaves exactly one header (and so is not *)
(* split), one that fills a frame and one that no frame can hold.  Frame 0 *)
(* belongs to init_pages.                                                  *)
(***************************************************************************)
EXTENDS Heap

MCRequests      == {0, 1, 3, 5, 6}
FittingRequests == {1, 4, 5}

ThreeFrames == 0..3
=============================================================================
