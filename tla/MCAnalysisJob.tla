---------------------------- MODULE MCAnalysisJob ----------------------------
(* The analysis job for TLC: every constant is a number or a set of strings, *)
(* given in the configurations.                                              *)
EXTENDS AnalysisJob
=============================================================================
