------------------------------ MODULE MCAlerts ------------------------------
(* Instances of AlertEngine for model-checking.                            *)
EXTENDS AlertEngine, TLC

CONSTANTS a1, a2, s1, s2, none

=============================================================================
