--------------------------- MODULE MCLearningTools ---------------------------
(***************************************************************************)
(* Small instances of LearningTools for TLC.  Two concepts, one of them    *)
(* not a slug; a good answer, a weak one with a known and one with an      *)
(* unknown category; a confident, a doubtful and an invalid profile        *)
(* update.  EvidenceLimit and ErrorLimit are small enough that two          *)
(* messages and two errors overflow them.                                  *)
(***************************************************************************)
EXTENDS LearningTools, FiniteSets

CONSTANTS loops, badId, topic, minutes

MCConcepts == {loops, badId}
MCSlugs == {loops}
MCFields == {topic, minutes}

Answer(c, low, category) ==
  [tool |-> "record", concept |-> c, low |-> low, category |-> category]

Update(fields, confident, valid) ==
  [tool |-> "profile", fields |-> fields, confident |-> confident, valid |-> valid]

MCRecordArgs ==
  {Answer(loops, FALSE, "none"), Answer(loops, TRUE, "known"),
   Answer(loops, TRUE, "unknown"), Answer(badId, FALSE, "none")}

MCProfileArgs ==
  {Update({topic}, TRUE, TRUE), Update({topic, minutes}, FALSE, TRUE),
   Update({minutes}, TRUE, FALSE)}

(* Bound: at most three effects are ever reserved.                         *)
FewEffects == Cardinality({k \in Keys : effects[k] # "absent"}) <= 3
=============================================================================
