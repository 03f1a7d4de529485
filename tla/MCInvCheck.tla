----------------------------- MODULE MCInvCheck -----------------------------
(* Model-checking instance of InvCheck: widths 1 to 4 for x, s and t, and  *)
(* 1 to 3 for each side of a concatenation (t up to 6 bits).  Width 4 is    *)
(* the first with an even s whose odd part is not 1 after two trailing      *)
(* zeros (s = 12), and with three trailing zeros (s = 8).                   *)
EXTENDS InvCheck

MCWidths == 1 .. 4
MCConcatWidths == 1 .. 3

=============================================================================
