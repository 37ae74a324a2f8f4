----------------------------- MODULE MCUsbDump -----------------------------
(* UsbDump on two kinds of dump: one that needs two buffers and a short    *)
(* last packet in each, one that fits in a single packet.                  *)
EXTENDS UsbDump

CONSTANTS EE, ScratchPad

MCKinds == {EE, ScratchPad}
MCRegionSize == [k \in MCKinds |-> IF k = EE THEN 5 ELSE 2]
MCFds == 0 .. 1
=============================================================================
