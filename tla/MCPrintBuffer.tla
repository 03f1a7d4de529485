--------------------------- MODULE MCPrintBuffer ---------------------------
(* Model-checking instances of PrintBuffer: a buffer of 8 characters in    *)
(* place of 1024.  Every threshold of to_str is relative to the size, so   *)
(* widths up to size - 2 are the ones that fit, size - 1 is the first      *)
(* truncated width, and size and above overflow.                           *)
EXTENDS PrintBuffer

MCSize == 8

MCFitting == MCSize - 2

MCTruncated == MCSize - 1

MCWide == MCSize + 1

MCTags == 3

=============================================================================
