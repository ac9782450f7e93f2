--------------------------------- MODULE Pci ---------------------------------
(***************************************************************************)
(* The PCI scan of kernel_init, drivers/pci.c, over whatever configuration *)
(* space the machine has.                                                  *)
(*                                                                         *)
(* pciConfigReadWord puts `lbus < 16` for lbus << 16 and offset * 0xFC for *)
(* offset & 0xFC into the address.  The bus is therefore always 0 (the     *)
(* truth value falls on a bit without meaning), and the product spills     *)
(* into the bits of function and device: for offset 0x0A (the class) it    *)
(* sets the lowest bit of both and reads the word at 0xDA, for 0x0E (the   *)
(* header type) it sets the lowest bit of the device and the bits 1 and 4  *)
(* of the function and reads the word at 0xCA.  getSecondaryBus cuts to 8  *)
(* bits before it shifts by 8, and is always 0.                            *)
(***************************************************************************)
EXTENDS Integers, Sequences, SequencesExt

CONSTANTS
  Devs,       \* the devices of a bus, 32
  Machines,   \* the configuration spaces a machine may have
  StackLimit  \* the calls of checkBus that fit the kernel's 16 KiB stack

Functions == 0..7

ASSUME PciAssumption ==
  /\ Devs \in Nat \ {0} /\ StackLimit \in Nat \ {0}
  /\ Machines \subseteq
       [present : SUBSET ((0..(Devs - 1)) \X Functions),
        class64 : SUBSET ((0..(Devs - 1)) \X Functions),  \* 06 04 at 0xDA
        bit7    : SUBSET ((0..(Devs - 1)) \X Functions),  \* set at 0xCA
        vendor_fff : SUBSET (0..(Devs - 1))]  \* 0xFFF is function 0's vendor

VARIABLES
  pci,      \* "off", "start", "bus" (choosing the next), "scan", "done", "overrun"
  machine,
  host,     \* checkAllBuses' func, or 8 for the only host controller
  calls,    \* the calls of checkBus in progress: the next function to look at
  checked   \* history: the functions checkFunction was called for

pciVars == <<pci, machine, host, calls, checked>>

NoMachine ==
  [present |-> {}, class64 |-> {}, bit7 |-> {}, vendor_fff |-> {}]

PciInit ==
  /\ pci = "off" /\ machine = NoMachine
  /\ host = 0 /\ calls = <<>> /\ checked = {}

PowerOn ==
  /\ pci = "off" /\ pci' = "start"
  /\ machine' \in Machines
  /\ UNCHANGED <<host, calls, checked>>

-----------------------------------------------------------------------------
(* An address with the lowest bit set, or the bits 1 and 4.                *)
Odd(n)     == 2 * (n \div 2) + 1
OddAnd4(n) == IF n % 8 < 4 THEN Odd(n) + 4 ELSE Odd(n)

(* Functions that are not there read as all ones: their header type has    *)
(* bit 7 set, their class is not a bridge's, their vendor 0xFFFF.          *)
There(d, f) == <<d, f>> \in machine.present

HeaderBit7(d, f) ==
  LET at == <<Odd(d), OddAnd4(f)>>
  IN  at \notin machine.present \/ at \in machine.bit7

(* What checkFunction takes for a PCI-to-PCI bridge.                       *)
IsBridge(d, f) ==
  LET at == <<Odd(d), Odd(f)>>
  IN  at \in machine.present /\ at \in machine.class64

(* checkDev takes the vendor 0xFFF for an absent device, which reads as    *)
(* 0xFFFF.  It looks at function 0 of every other device, there or not,    *)
(* and at the other functions that are there if bit 7 says so.             *)
TakenForAbsent(d) == There(d, 0) /\ d \in machine.vendor_fff

FirstCall == [dev |-> 0, func |-> 0]

AdvanceToGap(call) ==
  IF HeaderBit7(call.dev, 0) /\ call.func < 7 /\ There(call.dev, call.func + 1)
  THEN [call EXCEPT !.func = @ + 1]
  ELSE [dev |-> call.dev + 1, func |-> 0]

AdvanceInByte(call) ==
  LET more == { f \in 1..7 : f > call.func /\ There(call.dev, f) }
  IN  IF HeaderBit7(call.dev, 0) /\ more # {}
      THEN [call EXCEPT !.func = Min(more)]
      ELSE [dev |-> (call.dev + 1) % Devs, func |-> 0]

Advance(call) ==
  LET more == { f \in 1..7 : f > call.func /\ There(call.dev, f) }
  IN  IF HeaderBit7(call.dev, 0) /\ more # {}
      THEN [call EXCEPT !.func = Min(more)]
      ELSE [dev |-> call.dev + 1, func |-> 0]

-----------------------------------------------------------------------------
(* checkAllBuses.                                                          *)
OneHost ==
  /\ pci = "start" /\ pci' = "scan"
  /\ ~HeaderBit7(0, 0)
  /\ host' = 8 /\ calls' = <<FirstCall>>
  /\ UNCHANGED <<machine, checked>>

ManyHosts ==
  /\ pci = "start" /\ pci' = "bus"
  /\ HeaderBit7(0, 0)
  /\ UNCHANGED <<machine, host, calls, checked>>

(* checkBus(func) for each host controller; the bus number has no effect.  *)
NextHost ==
  /\ pci = "bus"
  /\ IF host < 8 /\ There(0, host)
     THEN pci' = "scan" /\ host' = host + 1 /\ calls' = <<FirstCall>>
     ELSE pci' = "done" /\ UNCHANGED <<host, calls>>
  /\ UNCHANGED <<machine, checked>>

(* checkDev returns at once, or calls checkFunction; a bridge has          *)
(* checkBus(0) called from within.                                         *)
SkipDev ==
  /\ pci = "scan" /\ calls # <<>>
  /\ LET call == Last(calls)
     IN  /\ call.dev < Devs /\ call.func = 0 /\ TakenForAbsent(call.dev)
         /\ calls' = Append(Front(calls), [dev |-> call.dev + 1, func |-> 0])
  /\ UNCHANGED <<pci, machine, host, checked>>

CheckFunction ==
  /\ pci = "scan" /\ calls # <<>>
  /\ LET call == Last(calls)
         rest == Append(Front(calls), Advance(call))
     IN  /\ call.dev < Devs /\ ~(call.func = 0 /\ TakenForAbsent(call.dev))
         /\ checked' = checked \cup {<<call.dev, call.func>>}
         /\ IF ~IsBridge(call.dev, call.func)
            THEN calls' = rest /\ pci' = pci
            ELSE IF Len(calls) = StackLimit
                 THEN calls' = calls /\ pci' = "overrun"
                 ELSE calls' = Append(rest, FirstCall) /\ pci' = pci
  /\ UNCHANGED <<machine, host>>

(* checkBus returns, to checkFunction or to checkAllBuses.                 *)
ReturnFromBus ==
  /\ pci = "scan" /\ calls # <<>>
  /\ Last(calls).dev >= Devs
  /\ calls' = Front(calls)
  /\ pci' = IF Len(calls) > 1 THEN pci ELSE IF host = 8 THEN "done" ELSE "bus"
  /\ UNCHANGED <<machine, host, checked>>

Scan ==
  OneHost \/ ManyHosts \/ NextHost \/ SkipDev \/ CheckFunction \/ ReturnFromBus

PciNext == PowerOn \/ Scan

PciSpec == PciInit /\ [][PciNext]_pciVars /\ WF_pciVars(Scan)

-----------------------------------------------------------------------------
PciTypeOK ==
  /\ pci \in {"off", "start", "bus", "scan", "done", "overrun"}
  /\ machine \in Machines \cup {NoMachine}
  /\ host \in 0..8
  /\ calls \in Seq([dev : 0..Devs, func : Functions])
  /\ checked \subseteq (0..(Devs - 1)) \X Functions

(* The scan comes to an end, unless some function reads like a bridge at   *)
(* the wrong address: then it calls itself until the stack overruns.       *)
LooksLikeBridge ==
  \E d \in 0..(Devs - 1), f \in Functions : IsBridge(d, f)

ScanEnds ==
  pci = "start" ~> (pci = "done" \/ (pci = "overrun" /\ LooksLikeBridge))

(* A scan that has ended, on a machine with a host controller, has looked  *)
(* at every function that is there except where it has read wrongly: those *)
(* of a device with the vendor 0xFFF, and the further functions of devices *)
(* whose header type, read at the wrong address, has bit 7 clear.  No      *)
(* other function is missed, at whatever depth checkBus has called itself. *)
OnlyMisreadsAreMissed ==
  pci = "done" /\ There(0, 0) =>
    \A at \in machine.present \ checked :
      TakenForAbsent(at[1]) \/ (at[2] # 0 /\ ~HeaderBit7(at[1], 0))

(* pcisub_init's aim is to "scan all bus and initialize all devs": a scan  *)
(* that has ended, on a machine with a host controller, has looked at      *)
(* every function that is there.                                           *)
EveryFunctionIsChecked ==
  pci = "done" /\ There(0, 0) => machine.present \subseteq checked
=============================================================================
