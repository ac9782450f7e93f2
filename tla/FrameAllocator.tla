--------------------------- MODULE FrameAllocator ---------------------------
(***************************************************************************)
(* What the rest of Nika is entitled to expect from pmm_alloc_page: each   *)
(* call either refuses or hands out one page frame that lies above every   *)
(* frame handed out before, so that no frame ever has two owners.  There   *)
(* is no way to give a frame back.  PhysMem implements this specification; *)
(* Heap and Paging are its clients.                                        *)
(*                                                                         *)
(* A frame is named by its number, its address divided by PAGE_SIZE.  The  *)
(* NULL pointer is the address of frame 0: a refusal and a hand-out of     *)
(* frame 0 give the caller the same answer.                                *)
(***************************************************************************)
EXTENDS Integers

CONSTANT Frames      \* the frames that may ever be handed out

VARIABLES handed,    \* the set of frames handed out so far
          answer     \* what the last call returned (0 before the first call)

allocVars == <<handed, answer>>

NULL == 0

FrameInit == handed = {} /\ answer = NULL

Take(f) ==
  /\ f \in Frames
  /\ \A g \in handed : g < f
  /\ handed' = handed \cup {f}
  /\ answer' = f

Refuse == answer' = NULL /\ UNCHANGED handed

FrameNext == Refuse \/ \E f \in Frames : Take(f)

FrameSpec == FrameInit /\ [][FrameNext]_allocVars
=============================================================================
