--------------------------- MODULE MCRunCreation ---------------------------
(* Instances of RunCreation for TLC.                                        *)
EXTENDS RunCreation, TLC

RunIds == 1..3
=============================================================================
