------------------------------ MODULE MCCodec -------------------------------
(***************************************************************************)
(* Instances of Codec for TLC: the constants are given in the .cfg files.  *)
(***************************************************************************)
EXTENDS Codec

=============================================================================
