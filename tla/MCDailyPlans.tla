----------------------------- MODULE MCDailyPlans -----------------------------
(***************************************************************************)
(* Two stages; a model may put the second into the task of the first.  One *)
(* request for a plan comes to the server, one from the CLI.               *)
(***************************************************************************)
EXTENDS DailyPlans

MCStageOrder == <<"s1", "s2">>
MCCourses ==
  {[stages |-> {"s2"}, done |-> {}], [stages |-> {"s1", "s2"}, done |-> {}]}
MCDrift == {<<"s1", "s2">>}

(* Bound: an approval and a crash, or a forced generation.                 *)
FewDisturbances == course.version + crashes + 2 * forced <= 2
=============================================================================
