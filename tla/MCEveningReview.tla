-------------------------- MODULE MCEveningReview --------------------------
(***************************************************************************)
(* One task: a review calls it completed or not, and is written by either  *)
(* source, so any two of four reviews can disagree.  Two autonomous runs   *)
(* and one stop: two processes and a page can generate at once, and a      *)
(* retry follows a cut run.                                                *)
(***************************************************************************)
EXTENDS EveningReview
=============================================================================
