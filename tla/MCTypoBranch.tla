---------------------------- MODULE MCTypoBranch -----------------------------
(* The typo branch for TLC, by itself: every constant is a number.          *)
EXTENDS TypoBranch
=============================================================================
