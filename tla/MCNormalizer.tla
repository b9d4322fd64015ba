---------------------------- MODULE MCNormalizer ----------------------------
(* Small instances of Normalizer for TLC.                                  *)
EXTENDS Normalizer
=============================================================================
