---------------------------- MODULE MCModelGateway ----------------------------
(***************************************************************************)
(* Two turns over a provider and its fallback.                             *)
(***************************************************************************)
EXTENDS ModelGateway

(* Turns do not differ.                                                    *)
MCSymmetry == Permutations(Turns)
=============================================================================
