------------------------------ MODULE MCInGame ------------------------------
(* InGame with one kind of dump of two packets, both pad libraries and an   *)
(* executable without one.  UP stands for the two buttons that all the      *)
(* combinations share.                                                      *)
EXTENDS InGame

CONSTANTS EE, UP, CROSS

MCKinds == {EE}
MCRegionSize == [k \in MCKinds |-> 2]
MCFds == {0}
MCCombo == [k \in MCKinds |-> {UP, CROSS}]
MCLibs == {"none", "libpad", "libpad2"}
MCAddresses == 1 .. 2
=============================================================================
