--------------------------- MODULE MCListTransfer ---------------------------
(* One client of each lab, a server of Lab 2.2, lists of three nodes and   *)
(* digits to the base six: the smallest in which the size of a list fits   *)
(* into two digits.                                                        *)
EXTENDS ListTransfer

(* Texts that are not UTF-8; those of the clients are ASCII.               *)
NotUtf8 == {<<5>>, <<5, 5>>, <<5, 2>>}
=============================================================================
