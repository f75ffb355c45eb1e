---------------------------- MODULE MCChatRuntime ----------------------------
(* The chat process for TLC: attempts are interchangeable model values.     *)
EXTENDS ChatRuntime, TLC

AttemptSymmetry == Permutations(Attempts \ Stuck)
=============================================================================
