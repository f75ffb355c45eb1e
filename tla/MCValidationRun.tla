--------------------------- MODULE MCValidationRun ---------------------------
(* The validation job for TLC: every constant is a number given in the      *)
(* configuration.                                                           *)
EXTENDS ValidationRun
=============================================================================
