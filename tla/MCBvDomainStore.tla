------------------------- MODULE MCBvDomainStore -------------------------
(* Model-checking instance of BvDomainStore: two slots, widths 1 to 3, and *)
(* uint64 values below, at and above 2^3 so that truncation happens.     *)
EXTENDS BvDomainStore, TLC

CONSTANTS s1, s2

MCSlots == {s1, s2}

MCWidths == 1 .. 3

MCUint64s == {0, 5, 8, 13}

MCSymmetry == Permutations(MCSlots)

=============================================================================
