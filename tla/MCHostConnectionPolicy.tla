----------------------- MODULE MCHostConnectionPolicy -----------------------
(* A small instance of HostConnectionPolicy: every constant is a set of    *)
(* model values or of numbers, given in the configuration.  No symmetry    *)
(* is declared, because the run checks a liveness property.                *)
EXTENDS HostConnectionPolicy
=============================================================================
