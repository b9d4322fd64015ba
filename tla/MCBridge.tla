------------------------------ MODULE MCBridge ------------------------------
(* Small instances of Bridge for TLC.                                      *)
EXTENDS Bridge

CallAttempts == Calls \X (1..MaxAttempts)

CallSymmetry == Permutations(Calls)
=============================================================================
