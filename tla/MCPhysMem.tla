----------------------------- MODULE MCPhysMem -----------------------------
(***************************************************************************)
(* A small machine for PhysMem: 16 pages of 4 bytes, 2 bits to a bitmap    *)
(* byte.  As on a PC the first block may end inside a page (the extended   *)
(* BIOS data area), the VGA page lies in or beside a hole, the bitmap      *)
(* follows it and the kernel comes after the bitmap.                       *)
(***************************************************************************)
EXTENDS PhysMem

Entry(type, addr, len) == [type |-> type, addr |-> addr, len |-> len]

Usual(low, high) ==
  << Entry("available", 0, low), Entry("reserved", low, 16 - low),
     Entry("available", 16, high) >>

MCMemoryMaps ==
  { Usual(low, high) : low \in {8, 10, 12}, high \in {8, 24, 26, 44, 48} }
    \cup { << Entry("available", 0, 48) >>,
           << Entry("available", 0, 12), Entry("available", 36, 24) >>,
           << Entry("available", 0, 8), Entry("available", 20, 12),
              Entry("available", 40, 16) >>,
           << Entry("available", 0, 16), Entry("acpi", 16, 16),
              Entry("available", 32, 16), Entry("available", 64, 32) >> }

MCGarbage == { {}, 0..15 }
=============================================================================
