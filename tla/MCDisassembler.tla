--------------------------- MODULE MCDisassembler ---------------------------
(***************************************************************************)
(* Three instructions: any of the functions, with and without $zero, next  *)
(* to two of those that treat the packet differently from one another.     *)
(***************************************************************************)
EXTENDS Disassembler
MCAny == [op : Ops, zero : {FALSE}, field : {1}] \cup [op : ZeroGuarded, zero : {TRUE}, field : {1}]
MCFew == [op : {"JAL", "BEQ"}, zero : {TRUE}, field : {0, 2}]
           \cup [op : {"JR", "MULT", "BREAK"}, zero : {TRUE}, field : {0}]
MCPrograms == {[a \in 0 .. 2 |-> CASE a = 0 -> u [] a = 1 -> v [] a = 2 -> w] :
                 u \in MCFew, v \in MCAny, w \in MCFew}
=============================================================================
