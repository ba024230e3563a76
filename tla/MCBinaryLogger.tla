--------------------------- MODULE MCBinaryLogger ---------------------------
(* Model-checking instance of the run log. *)
EXTENDS BinaryLogger
=============================================================================
