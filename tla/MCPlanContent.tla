--------------------------- MODULE MCPlanContent ---------------------------
(***************************************************************************)
(* Answers of one stage, with any of its texts missing and no, one or two  *)
(* lessons of which one may have a gap; answers of two to four stages,     *)
(* complete or not, done or not; the minutes around every threshold of     *)
(* the split.                                                              *)
(***************************************************************************)
EXTENDS PlanContent

LessonOf(gap) == [f \in Fields |-> IF f = gap THEN "" ELSE "model"]
LessonLists ==
  {<<>>} \cup {<<LessonOf(g)>> : g \in Fields \cup {""}}
         \cup {<<LessonOf(g), LessonOf("")>> : g \in {"", "exercise"}}
         \cup {<<LessonOf(""), LessonOf("criteria")>>}

StageOf(given, lessons, completed) ==
  [f \in StageTexts |-> IF f \in given THEN "model" ELSE ""]
    @@ [lessons |-> lessons, status |-> "needs_enrichment", completed |-> completed]

Bare(completed) == StageOf({}, <<>>, completed)
Rich(completed) == StageOf(StageTexts, <<LessonOf(""), LessonOf("")>>, completed)
Mixed == {Bare(TRUE), Bare(FALSE), Rich(TRUE), Rich(FALSE)}

MCAnswers ==
  {<<StageOf(given, lessons, FALSE)>> : given \in SUBSET StageTexts, lessons \in LessonLists}
    \cup {<<a, b>> : a \in Mixed, b \in Mixed}
    \cup {<<Rich(FALSE), a, Rich(FALSE), Bare(FALSE)>> : a \in Mixed}

MCMinutes == {10, 24, 25, 129, 130, 189, 190}
=============================================================================
