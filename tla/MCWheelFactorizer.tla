------------------------- MODULE MCWheelFactorizer -------------------------
(* Model-checking instances of WheelFactorizer: every positive n of width  *)
(* 2 to 4, and width 1 for the termination run.  *)
EXTENDS WheelFactorizer

MCWidths == 2 .. 4

MCWidthOne == {1}

MCLimits == {0, 2}

=============================================================================
