--------------------------- MODULE MCSessionRuntime ---------------------------
(***************************************************************************)
(* SessionRuntime on small instances; the constants are model values and   *)
(* numbers and stand in the cfg files.                                     *)
(***************************************************************************)
EXTENDS SessionRuntime
=============================================================================
