--------------------------- MODULE MCDrainControl ---------------------------
(***************************************************************************)
(* Instances of DrainControl for TLC.                                      *)
(***************************************************************************)
EXTENDS DrainControl

MCContext == 1 .. 3

=============================================================================
