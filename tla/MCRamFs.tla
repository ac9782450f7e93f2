------------------------------ MODULE MCRamFs ------------------------------
(***************************************************************************)
(* Three files, two mounts; two names, one of them too long to be kept     *)
(* whole, and the name that is kept of it; files of at most two bytes, so  *)
(* that lengths below, at and above the limit occur.                       *)
(***************************************************************************)
EXTENDS RamFs

MCNames   == {"a", "cut", "cut-off"}
MCKept    == [n \in MCNames |-> IF n = "cut-off" THEN "cut" ELSE n]
MCPaths   == {"r:/", "d:/"}
MCLengths == 0..3
MCBuffers == {"x", "y"}
=============================================================================
