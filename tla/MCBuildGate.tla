---------------------------- MODULE MCBuildGate ----------------------------
(* The build gate with a few builds and limits an operator may set. *)
EXTENDS BuildGate

CONSTANTS b1, b2, b3

MCLimits == {1, 2, 3}

=============================================================================
