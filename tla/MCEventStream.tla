--------------------------- MODULE MCEventStream ---------------------------
(***************************************************************************)
(* Two sessions compete for one slot, two submissions, one crash, one      *)
(* broken connection and one decided card: enough for a page to wait in    *)
(* the queue, lose events on their way and be overtaken by a second tab.   *)
(***************************************************************************)
EXTENDS EventStream
=============================================================================
