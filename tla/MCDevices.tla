------------------------------ MODULE MCDevices ------------------------------
(***************************************************************************)
(* Small screens, words and strings; the text console, the descriptors,    *)
(* the PCI bus and the bases of numerals have the sizes of the source.     *)
(***************************************************************************)
EXTENDS Devices, MCGraphicsLog

MCChars == {"a", "nl"}

(* Machines with single- and multi-function devices, with and without      *)
(* something at the addresses that are read by mistake, and with a vendor  *)
(* 0xFFF.                                                                  *)
AllDevs == 0..31
MCMachines ==
  [present : { {<<0, 0>>}, AllDevs \X {0}, {<<1, 0>>},
               {<<0, 0>>, <<0, 1>>, <<1, 0>>, <<1, 1>>, <<1, 5>>, <<2, 0>>, <<2, 3>>,
                <<3, 0>>, <<3, 1>>, <<3, 5>>, <<31, 0>>, <<31, 7>>} },
   class64 : { {}, {<<1, 1>>}, {<<3, 1>>, <<1, 0>>}, {<<3, 5>>} },
   bit7    : { {}, {<<1, 5>>}, {<<3, 5>>, <<31, 5>>} },
   vendor_fff : { {}, {1, 31} }]

(* Those without that vendor, as no maker of devices has the number.       *)
MCUsualMachines == { m \in MCMachines : m.vendor_fff = {} }

(* Movements up to the ends of a signed byte of 3 bits and beyond.         *)
MCMoves == {-5, -4, -1, 0, 3}

MCAddresses == { <<0, 0, 0, 0>>, <<0, 16, 32, 0>>, <<18, 52, 86, 120>>,
                 <<255, 255, 255, 255>> }
=============================================================================
