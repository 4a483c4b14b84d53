--------------------------- MODULE MCNotifications ---------------------------
(***************************************************************************)
(* A day of five units: the morning plan at 1, the evening review at 3.    *)
(* The second attempt of the evening review is due in the last unit of the *)
(* day: a window that passes midnight would have no room for it.           *)
(***************************************************************************)
EXTENDS Notifications

MCTypes == <<"morning_plan", "evening_review">>
MCTimeOf == [t \in {"morning_plan", "evening_review"} |-> IF t = "morning_plan" THEN 1 ELSE 3]

ASSUME RetriesFitAssumption == RetriesFit
=============================================================================
