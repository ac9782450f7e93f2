---------------------------- MODULE MCInterrupts ----------------------------
(***************************************************************************)
(* The sixteen lines are as in the source; only sys_ticks is made to wrap  *)
(* early.                                                                  *)
(***************************************************************************)
EXTENDS Interrupts
=============================================================================
