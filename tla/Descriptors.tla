----------------------------- MODULE Descriptors -----------------------------
(***************************************************************************)
(* The descriptor tables, core/gdt.c and core/idt.c: how gdt_init and      *)
(* idt_init spread bases, limits and handlers over the bytes of an entry,  *)
(* and what the processor makes of the bytes again.                        *)
(*                                                                         *)
(* A 32-bit number is the sequence of its four bytes, the lowest first.    *)
(***************************************************************************)
EXTENDS Integers, Sequences

CONSTANT Addresses   \* where the linker may put the TSS and the handlers

ASSUME DescriptorAssumption == Addresses \subseteq [1..4 -> 0..255]

VARIABLES
  tables,      \* "none", "gdt", "tss", "loaded", "idt"
  gdt, tss,
  idt_entries, \* the gates, by vector
  gdt_regs,    \* the selectors that gdt_flush and tss_flush load
  tss_addr,    \* &tss
  handlers     \* the address of the stub of each vector

tableVars == <<tables, gdt, tss, idt_entries, gdt_regs, tss_addr, handlers>>

NullEntry == [base_low |-> <<0, 0>>, base_middle |-> 0, base_high |-> 0,
              limit_low |-> <<0, 0>>, granularity |-> 0, access |-> 0]

Vectors == {14} \cup 32..47

DescInit ==
  /\ tables = "none"
  /\ gdt = [n \in 0..5 |-> NullEntry]
  /\ tss = [ss0 |-> 0, esp0 |-> 0, iomap_base |-> 0]
  /\ idt_entries = <<>>
  /\ gdt_regs = <<>>
  /\ tss_addr = <<0, 0, 0, 0>>
  /\ handlers = <<>>

-----------------------------------------------------------------------------
High(byte) == 16 * (byte \div 16)
Low(byte)  == byte % 16

gate_short(base, limit, access, gran) ==
  [base_low    |-> SubSeq(base, 1, 2),
   base_middle |-> base[3],
   base_high   |-> base[4],
   limit_low   |-> SubSeq(limit, 1, 2),
   granularity |-> High(gran),
   access      |-> access]

gate(base, limit, access, gran) ==
  [base_low    |-> SubSeq(base, 1, 2),
   base_middle |-> base[3],
   base_high   |-> base[4],
   limit_low   |-> SubSeq(limit, 1, 2),
   granularity |-> Low(limit[3]) + High(gran),
   access      |-> access]

Zero32 == <<0, 0, 0, 0>>
Ones32 == <<255, 255, 255, 255>>

(* gdt_init: null, kernel code and data, user code and data.               *)
GdtInit ==
  /\ tables = "none" /\ tables' = "gdt"
  /\ gdt' = [gdt EXCEPT ![0] = gate(Zero32, Zero32, 0, 0),
                        ![1] = gate(Zero32, Ones32, 154, 207),
                        ![2] = gate(Zero32, Ones32, 146, 207),
                        ![3] = gate(Zero32, Ones32, 250, 207),
                        ![4] = gate(Zero32, Ones32, 242, 207)]
  /\ UNCHANGED <<tss, idt_entries, gdt_regs, tss_addr, handlers>>

TssSize == 104

(* tss_init(5, 0x10, 0): the limit is sizeof(tss) - 1, without a stack for *)
(* ring 0, which set_kernel_stack would give it.                           *)
TssInit ==
  /\ tables = "gdt" /\ tables' = "tss"
  /\ tss_addr' \in Addresses
  /\ tss' = [ss0 |-> 16, esp0 |-> 0, iomap_base |-> TssSize]
  /\ gdt' = [gdt EXCEPT ![5] = gate(tss_addr', <<TssSize - 1, 0, 0, 0>>, 137, 64)]
  /\ UNCHANGED <<idt_entries, gdt_regs, handlers>>

(* gdt_flush and tss_flush.                                                *)
Flush ==
  /\ tables = "tss" /\ tables' = "loaded"
  /\ gdt_regs' = [cs |-> 8, ds |-> 16, ss |-> 16, tr |-> 43]
  /\ UNCHANGED <<gdt, tss, idt_entries, tss_addr, handlers>>

idt_set_gate(base) ==
  [base_low |-> SubSeq(base, 1, 2), base_high |-> SubSeq(base, 3, 4),
   selector |-> 8, always0 |-> 0, flags |-> 142]

IdtInit ==
  /\ tables = "loaded" /\ tables' = "idt"
  /\ \E a, b \in Addresses :
       handlers' = [v \in Vectors |-> IF v = 14 THEN a ELSE b]
  /\ idt_entries' = [v \in Vectors |-> idt_set_gate(handlers'[v])]
  /\ UNCHANGED <<gdt, tss, gdt_regs, tss_addr>>

DescNext == GdtInit \/ TssInit \/ Flush \/ IdtInit

DescSpec == DescInit /\ [][DescNext]_tableVars

-----------------------------------------------------------------------------
(* What the processor reads: base and limit, the latter in pages if bit 7  *)
(* of granularity is set (G), type and privilege in the access byte.  A    *)
(* bit is given by its weight.                                             *)
Bit(n, byte)    == (byte \div n) % 2 = 1
BaseOf(e)       == e.base_low \o <<e.base_middle, e.base_high>>
LimitOf(e)      == e.limit_low \o <<Low(e.granularity)>>
InPages(e)      == Bit(128, e.granularity)
PresentEntry(e) == Bit(128, e.access)
Ring(e)         == (e.access \div 32) % 4
IsSegment(e)    == Bit(16, e.access)
IsCode(e)       == IsSegment(e) /\ Bit(8, e.access)
Selected(sel)   == gdt[sel \div 8]

(* A flat segment covers the 4 GiB, and its code and data are 32 bits.     *)
Flat(e) == /\ PresentEntry(e) /\ InPages(e) /\ Bit(64, e.granularity)
           /\ BaseOf(e) = Zero32 /\ LimitOf(e) = <<255, 255, 15>>

(* Once the tables are loaded the processor finds what the kernel means:   *)
(* flat ring 0 code and data behind the selectors in use, flat ring 3      *)
(* segments behind them, the whole TSS and nothing else in its             *)
(* descriptor, and behind every gate its stub in the kernel's code         *)
(* segment, entered with interrupts disabled.                              *)
SegmentsDecode ==
  /\ tables \in {"loaded", "idt"} =>
       /\ Flat(Selected(gdt_regs.cs)) /\ IsCode(Selected(gdt_regs.cs))
       /\ Ring(Selected(gdt_regs.cs)) = 0
       /\ \A sel \in {gdt_regs.ds, gdt_regs.ss, tss.ss0} :
            Flat(Selected(sel)) /\ IsSegment(Selected(sel))
              /\ ~IsCode(Selected(sel)) /\ Ring(Selected(sel)) = 0
       /\ \A n \in {3, 4} : Flat(gdt[n]) /\ Ring(gdt[n]) = 3 /\ (IsCode(gdt[n]) <=> n = 3)
       /\ LET t == Selected(gdt_regs.tr)
          IN  /\ PresentEntry(t) /\ ~IsSegment(t) /\ t.access % 16 = 9
              /\ BaseOf(t) = tss_addr /\ ~InPages(t)
              /\ LimitOf(t) = <<TssSize - 1, 0, 0>>
  /\ tables = "idt" =>
       \A v \in Vectors :
         LET g == idt_entries[v]
         IN  /\ g.base_low \o g.base_high = handlers[v]
             /\ Bit(128, g.flags) /\ g.flags % 16 = 14
             /\ IsCode(Selected(g.selector)) /\ Ring(Selected(g.selector)) = 0
=============================================================================
