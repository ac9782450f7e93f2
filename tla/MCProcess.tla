----------------------------- MODULE MCProcess -----------------------------
(***************************************************************************)
(* Small page tables, 8 entries to a table and 5 of them below the kernel  *)
(* half.  The stack page is 15; page 16 lies in another table; page 50 is  *)
(* beside the framebuffer, in a table that all processes share; page 56 is *)
(* in the kernel half where the kernel has no table.  The frames suffice   *)
(* for three processes; behaviours are followed until MaxHanded of them    *)
(* have been handed out.                                                   *)
(*                                                                         *)
(* process.cfg maps the kernel's window in the kernel half, where          *)
(* KERNEL_BASE would have it; process_unmapped.cfg maps it at 0, as        *)
(* init_pages does, and there the first switch is the last step.           *)
(***************************************************************************)
EXTENDS Process

MCKernel    == {3}
MCFrames    == (0..31) \ MCKernel
MCUserPages == {16, 50, 56}

\* bound: 3 frames for the kernel's tables, 3 to create each process, 2 to fork
\* it again beside its copies, 1 or 2 for a page fault
MaxHanded == 19
FewFrames == Cardinality(handed) <= MaxHanded
=============================================================================
