-------------------------- MODULE MCDomainGenerator --------------------------
(* Model-checking instance of DomainGenerator: every valid domain of width *)
(* 1 to 4 with every range bound (or none).                                *)
EXTENDS DomainGenerator

MCWidths == 1 .. 4

=============================================================================
