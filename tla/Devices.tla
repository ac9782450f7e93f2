------------------------------- MODULE Devices -------------------------------
(***************************************************************************)
(* The drivers and libraries that keep no state in common, side by side.   *)
(* A behaviour exercises one of them (part), as their interleavings show   *)
(* nothing that each does not show alone.                                  *)
(***************************************************************************)
EXTENDS GraphicsLog, TextConsole, Numerals, Serial, Clock, Pci, MousePackets,
        Descriptors

VARIABLE part

devVars == <<logVars, textVars, numVars, serialVars, clockVars, pciVars,
             mouseVars, tableVars, part>>

Parts == {"log", "text", "numerals", "serial", "clock", "pci", "mouse", "tables"}

DevicesInit ==
  /\ part \in Parts
  /\ LogInit /\ TextInit /\ NumInit /\ SerialInit
  /\ ClockInit /\ PciInit /\ MouseInit /\ DescInit

LogPart ==
  /\ part = "log" /\ LogNext
  /\ UNCHANGED <<textVars, numVars, serialVars, clockVars, pciVars, mouseVars, tableVars>>

TextPart ==
  /\ part = "text" /\ TextNext
  /\ UNCHANGED <<logVars, numVars, serialVars, clockVars, pciVars, mouseVars, tableVars>>

NumPart ==
  /\ part = "numerals" /\ NumNext
  /\ UNCHANGED <<logVars, textVars, serialVars, clockVars, pciVars, mouseVars, tableVars>>

SerialPart ==
  /\ part = "serial" /\ SerialNext
  /\ UNCHANGED <<logVars, textVars, numVars, clockVars, pciVars, mouseVars, tableVars>>

ClockPart ==
  /\ part = "clock" /\ ClockNext
  /\ UNCHANGED <<logVars, textVars, numVars, serialVars, pciVars, mouseVars, tableVars>>

PciPart ==
  /\ part = "pci" /\ PciNext
  /\ UNCHANGED <<logVars, textVars, numVars, serialVars, clockVars, mouseVars, tableVars>>

MousePart ==
  /\ part = "mouse" /\ MouseNext
  /\ UNCHANGED <<logVars, textVars, numVars, serialVars, clockVars, pciVars, tableVars>>

TablePart ==
  /\ part = "tables" /\ DescNext
  /\ UNCHANGED <<logVars, textVars, numVars, serialVars, clockVars, pciVars, mouseVars>>

DevicesNext ==
  /\ part' = part
  /\ \/ LogPart \/ TextPart \/ NumPart \/ SerialPart
     \/ ClockPart \/ PciPart \/ MousePart \/ TablePart

(* What is executed goes on: the sleeper, the timer, the scan.             *)
DevicesSpec ==
  /\ DevicesInit /\ [][DevicesNext]_devVars
  /\ part = "clock" => ClockFairness
  /\ part = "pci" => WF_pciVars(Scan)

-----------------------------------------------------------------------------
(* Types: among them that the text console's cursor and its writes stay in *)
(* the text buffer, that the graphics log's columns stay on the screen,    *)
(* that the UART's register never holds two bytes, and that the pointer    *)
(* stays on the screen.                                                    *)
DevicesTypeOK ==
  /\ part \in Parts
  /\ LogTypeOK /\ TextTypeOK /\ SerialTypeOK
  /\ ClockTypeOK /\ PciTypeOK /\ MouseTypeOK
=============================================================================
