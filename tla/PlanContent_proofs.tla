------------------------- MODULE PlanContent_proofs --------------------------
(***************************************************************************)
(* Theorems about the content of a course: for all answers of the model    *)
(* and all courses, what is proposed and approved is complete and keeps    *)
(* what the model gave, a proposal tells where it comes from, and a day's  *)
(* tasks fit the learner's minutes.                                        *)
(*                                                                         *)
(* The split of a day is a loop over the stages.  Its invariant, SplitInv, *)
(* is proved by induction over the stages; it says what was done for the   *)
(* stages so far and what is left, and the day follows from it at the end  *)
(* of the loop.                                                            *)
(***************************************************************************)
EXTENDS PlanContent, FiniteSetTheorems, SequenceTheorems, WellFoundedInduction, TLAPS

(***************************************************************************)
(* Enrichment.                                                             *)
(***************************************************************************)

(* A sequence over a set is one over a larger set.                         *)
LEMMA LargerSeq ==
  ASSUME NEW S, NEW T, S \subseteq T, NEW s \in Seq(S)
  PROVE  s \in Seq(T)
<1>1. Len(s) \in Nat /\ s \in [1..Len(s) -> S]
  OBVIOUS
<1>2. s \in [1..Len(s) -> T]
  BY <1>1
<1> QED BY <1>1, <1>2

(* The stages a model may answer with are among those there can be.        *)
LEMMA AnswersAreStages ==
  ASSUME NEW answer \in Answers
  PROVE  answer \in Seq(Stages(Texts)) /\ answer \in Seq(Stages({"", "model"})) /\ Malformed # answer
<1>1. answer \in Seq(Stages({"", "model"})) /\ Malformed # answer
  BY ContentAssumption
<1>2. Stages({"", "model"}) \subseteq Stages(Texts)
  <2>1. [Fields -> {"", "model"}] \subseteq [Fields -> Texts] /\ {"", "model"} \subseteq Texts
    BY DEF Texts
  <2>2. \A l \in Seq([Fields -> {"", "model"}]) : l \in Seq([Fields -> Texts])
    <3> DEFINE S == [Fields -> {"", "model"}]
               T == [Fields -> Texts]
    <3>1. S \subseteq T
      BY <2>1
    <3> HIDE DEF S, T
    <3>2. \A l \in Seq(S) : l \in Seq(T)
      BY <3>1, LargerSeq
    <3> QED BY <3>2 DEF S, T
  <2> DEFINE few == Seq([Fields -> {"", "model"}])
             all == Seq([Fields -> Texts])
  <2>3. few \subseteq all
    BY <2>2
  <2> HIDE DEF few, all
  <2>4. [key_concepts : {"", "model"}, criteria : {"", "model"}, practice : {"", "model"}, lessons : few,
         status : {"needs_enrichment", "fallback", "complete"}, completed : BOOLEAN]
          \subseteq
        [key_concepts : Texts, criteria : Texts, practice : Texts, lessons : all,
         status : {"needs_enrichment", "fallback", "complete"}, completed : BOOLEAN]
    BY <2>1, <2>3
  <2> QED BY <2>4 DEF Stages, few, all
<1>3. answer \in Seq(Stages(Texts))
  BY <1>1, <1>2, LargerSeq
<1> QED BY <1>1, <1>3

(* The first lesson of a stage, filled from the template, has everything   *)
(* and keeps what it had.                                                  *)
LEMMA LessonIsFilled ==
  ASSUME NEW stage \in Stages(Texts)
  PROVE  /\ FilledLesson(stage) \in [Fields -> Texts]
         /\ Full(FilledLesson(stage))
         /\ stage.lessons # <<>> => \A f \in Fields :
              Head(stage.lessons)[f] # "" => FilledLesson(stage)[f] = Head(stage.lessons)[f]
<1>1. stage.key_concepts \in Texts /\ stage.lessons \in Seq([Fields -> Texts])
  BY DEF Stages
<1>2. TemplateLesson(stage) \in [Fields -> Texts] /\ \A f \in Fields : TemplateLesson(stage)[f] # ""
  BY <1>1 DEF TemplateLesson, Or, Texts
<1>3. CASE stage.lessons = <<>>
  BY <1>2, <1>3 DEF FilledLesson, Full
<1>4. CASE stage.lessons # <<>>
  <2>1. Head(stage.lessons) \in [Fields -> Texts]
    BY <1>1, <1>4
  <2> QED BY <1>2, <1>4, <2>1 DEF FilledLesson, Full, Or
<1> QED BY <1>3, <1>4

(* enrich_course_plan completes every stage and keeps what it had.         *)
LEMMA StageIsEnriched ==
  ASSUME NEW stage \in Stages(Texts)
  PROVE  /\ EnrichStage(stage) \in Stages(Texts)
         /\ Keeps(stage, EnrichStage(stage))
         /\ EnrichStage(stage).completed = stage.completed
<1> DEFINE lesson == FilledLesson(stage)
           got == EnrichStage(stage)
<1>1. /\ stage = [key_concepts |-> stage.key_concepts, criteria |-> stage.criteria,
                  practice |-> stage.practice, lessons |-> stage.lessons,
                  status |-> stage.status, completed |-> stage.completed]
      /\ stage.key_concepts \in Texts /\ stage.criteria \in Texts /\ stage.practice \in Texts
      /\ stage.lessons \in Seq([Fields -> Texts]) /\ stage.completed \in BOOLEAN
  BY DEF Stages
<1>2. CASE HasDetail(stage)
  <2>1. got = [stage EXCEPT !.status = "complete"]
    BY <1>2 DEF EnrichStage
  <2>2. /\ got.key_concepts = stage.key_concepts /\ got.criteria = stage.criteria
        /\ got.practice = stage.practice /\ got.lessons = stage.lessons
        /\ got.completed = stage.completed
    BY <1>1, <2>1
  <2>3. got \in Stages(Texts)
    BY <1>1, <2>1 DEF Stages
  <2>4. HasDetail(got)
    BY <1>2, <2>2 DEF HasDetail, StageTexts
  <2> QED BY <2>2, <2>3, <2>4 DEF Keeps, StageTexts
<1>3. CASE ~HasDetail(stage)
  <2>1. got = [stage EXCEPT !.key_concepts = Or(@, "template"), !.lessons = <<lesson>>,
                            !.criteria = Or(@, lesson.criteria),
                            !.practice = Or(@, lesson.exercise), !.status = "fallback"]
    BY <1>3 DEF EnrichStage
  <2>2. /\ lesson \in [Fields -> Texts] /\ Full(lesson)
        /\ stage.lessons # <<>> => \A f \in Fields :
             Head(stage.lessons)[f] # "" => lesson[f] = Head(stage.lessons)[f]
    BY LessonIsFilled
  <2> HIDE DEF lesson, got
  <2>3. lesson.criteria \in Texts \ {""} /\ lesson.exercise \in Texts \ {""}
    BY <2>2 DEF Full, Fields
  <2>4. /\ got.key_concepts = Or(stage.key_concepts, "template")
        /\ got.criteria = Or(stage.criteria, lesson.criteria)
        /\ got.practice = Or(stage.practice, lesson.exercise)
        /\ got.lessons = <<lesson>> /\ got.completed = stage.completed
    BY <1>1, <2>1
  <2>5. got \in Stages(Texts)
    <3>1. /\ Or(stage.key_concepts, "template") \in Texts
          /\ Or(stage.criteria, lesson.criteria) \in Texts
          /\ Or(stage.practice, lesson.exercise) \in Texts
      BY <1>1, <2>3 DEF Or, Texts
    <3>2. <<lesson>> \in Seq([Fields -> Texts])
      <4>1. lesson \in [Fields -> Texts]
        BY <2>2
      <4> DEFINE L == [Fields -> Texts]
      <4> HIDE DEF L
      <4>2. <<lesson>> \in Seq(L)
        BY <4>1 DEF L
      <4> QED BY <4>2 DEF L
    <3> QED BY <1>1, <2>1, <3>1, <3>2 DEF Stages
  <2>6. /\ got.key_concepts # "" /\ got.criteria # "" /\ got.practice # ""
        /\ stage.key_concepts # "" => got.key_concepts = stage.key_concepts
        /\ stage.criteria # "" => got.criteria = stage.criteria
        /\ stage.practice # "" => got.practice = stage.practice
    BY <1>1, <2>3, <2>4 DEF Or
  <2>7. got.lessons # <<>> /\ Head(got.lessons) = lesson /\ DOMAIN got.lessons = {1} /\ got.lessons[1] = lesson
    BY <2>4
  <2>8. HasDetail(got)
    BY <2>2, <2>6, <2>7 DEF HasDetail, StageTexts
  <2>9. Keeps(stage, got)
    BY <1>3, <2>2, <2>6, <2>7, <2>8 DEF Keeps, StageTexts
  <2> QED BY <2>4, <2>5, <2>9 DEF got
<1> QED BY <1>2, <1>3

(* The same, for the stages of a plan.                                     *)
LEMMA StagesAreEnriched ==
  ASSUME NEW stages \in Seq(Stages(Texts))
  PROVE  /\ EnrichStages(stages) \in Seq(Stages(Texts))
         /\ DOMAIN EnrichStages(stages) = DOMAIN stages
         /\ \A i \in DOMAIN stages :
              /\ stages[i] \in Stages(Texts)
              /\ EnrichStages(stages)[i] = EnrichStage(stages[i])
              /\ EnrichStages(stages)[i] \in Stages(Texts)
              /\ Keeps(stages[i], EnrichStages(stages)[i])
              /\ EnrichStages(stages)[i].completed = stages[i].completed
<1>1. Len(stages) \in Nat /\ DOMAIN stages = 1..Len(stages)
      /\ \A i \in DOMAIN stages : stages[i] \in Stages(Texts)
  OBVIOUS
<1>2. \A i \in DOMAIN stages : /\ EnrichStage(stages[i]) \in Stages(Texts)
                               /\ Keeps(stages[i], EnrichStage(stages[i]))
                               /\ EnrichStage(stages[i]).completed = stages[i].completed
  BY <1>1, StageIsEnriched
<1>3. EnrichStages(stages) = [i \in 1..Len(stages) |-> EnrichStage(stages[i])]
  BY <1>1 DEF EnrichStages
<1>4. EnrichStages(stages) \in [1..Len(stages) -> Stages(Texts)]
  BY <1>1, <1>2, <1>3
<1>5. EnrichStages(stages) \in Seq(Stages(Texts))
  BY <1>1, <1>4
<1> QED BY <1>1, <1>2, <1>3, <1>5

(* The template's plan has stages, complete after one enrichment.          *)
LEMMA FallbackIsComplete ==
  /\ FallbackStages \in Seq(Stages(Texts))
  /\ \A i \in DOMAIN FallbackStages : HasDetail(FallbackStages[i])
<1> DEFINE bare == [key_concepts |-> "template", criteria |-> "", practice |-> "", lessons |-> <<>>,
                    status |-> "needs_enrichment", completed |-> FALSE]
           plan == [i \in 1..5 |-> bare]
<1>1. bare \in Stages(Texts)
  BY DEF Stages, Texts
<1>2. plan \in Seq(Stages(Texts))
  <2> HIDE DEF bare
  <2> QED BY <1>1
<1>3. FallbackStages = EnrichStages(plan)
  BY DEF FallbackStages
<1> HIDE DEF plan
<1> QED BY <1>2, <1>3, StagesAreEnriched DEF Keeps

(* Another enrichment of a complete stage changes its status only.         *)
LEMMA KeptAgain ==
  ASSUME NEW given, NEW got \in Stages(Texts), Keeps(given, got)
  PROVE  Keeps(given, EnrichStage(got))
<1>1. HasDetail(got)
  BY DEF Keeps
<1>2. EnrichStage(got) = [got EXCEPT !.status = "complete"]
  BY <1>1 DEF EnrichStage
<1>3. /\ EnrichStage(got).key_concepts = got.key_concepts
      /\ EnrichStage(got).criteria = got.criteria /\ EnrichStage(got).practice = got.practice
      /\ EnrichStage(got).lessons = got.lessons
  BY <1>2 DEF Stages
<1>4. \A f \in StageTexts : EnrichStage(got)[f] = got[f]
  BY <1>3 DEF StageTexts
<1>5. HasDetail(EnrichStage(got))
  BY <1>1, <1>3, <1>4 DEF HasDetail
<1> QED BY <1>3, <1>4, <1>5 DEF Keeps

-----------------------------------------------------------------------------
(***************************************************************************)
(* The proposal and the course.                                            *)
(***************************************************************************)

(* What a proposal may be made of.                                         *)
Given == Answers \cup {Malformed}

(* What is proposed was made of the last answer, what was approved of the  *)
(* one proposed then, and today's plan of the course.                      *)
PlanInv ==
  /\ proposal # NoPlan => draft \in Given /\ proposal = ProposalFor(draft)
  /\ course.version > 1 =>
       basis \in Given /\ course.stages = EnrichStages(ProposalFor(basis).stages)
  /\ course.stages \in Seq(Stages(Texts)) /\ course.version \in Nat
  /\ learner \in Learners
  /\ today # NoPlan => today = DayPlan(course.stages, learner)

(* A proposal has stages and keeps what the answer gave.                   *)
LEMMA ProposalFacts ==
  ASSUME NEW answer \in Given
  PROVE  /\ ProposalFor(answer).stages \in Seq(Stages(Texts))
         /\ KeepsAll(answer, ProposalFor(answer).stages)
         /\ KeepsAll(answer, EnrichStages(ProposalFor(answer).stages))
<1>1. CASE answer = Malformed
  <2> DEFINE twice == EnrichStages(FallbackStages)
  <2>1. ProposalFor(answer).stages = twice
    BY <1>1 DEF ProposalFor
  <2>2. twice \in Seq(Stages(Texts)) /\ \A i \in DOMAIN twice : HasDetail(twice[i])
    BY FallbackIsComplete, StagesAreEnriched DEF Keeps
  <2> HIDE DEF twice
  <2>3. \A i \in DOMAIN EnrichStages(twice) : HasDetail(EnrichStages(twice)[i])
    BY <2>2, StagesAreEnriched DEF Keeps
  <2> QED BY <1>1, <2>1, <2>2, <2>3 DEF KeepsAll
<1>2. CASE answer # Malformed
  <2> DEFINE once == EnrichStages(answer)
  <2>1. ProposalFor(answer).stages = once /\ answer \in Seq(Stages(Texts))
    BY <1>2, AnswersAreStages DEF ProposalFor, Given
  <2>2. /\ once \in Seq(Stages(Texts)) /\ DOMAIN once = DOMAIN answer
        /\ \A i \in DOMAIN once : Keeps(answer[i], once[i])
    BY <2>1, StagesAreEnriched
  <2> HIDE DEF once
  <2>3. /\ DOMAIN EnrichStages(once) = DOMAIN once
        /\ \A i \in DOMAIN once : once[i] \in Stages(Texts) /\ EnrichStages(once)[i] = EnrichStage(once[i])
    BY <2>2, StagesAreEnriched
  <2>4. \A i \in DOMAIN once : Keeps(answer[i], EnrichStages(once)[i])
    BY <2>2, <2>3, KeptAgain
  <2> QED BY <1>2, <2>1, <2>2, <2>3, <2>4 DEF KeepsAll
<1> QED BY <1>1, <1>2

(* The invariant holds always.                                             *)
LEMMA PlanInvariant == Spec => []PlanInv
<1>1. Init => PlanInv
  <2> SUFFICES ASSUME Init PROVE PlanInv
    OBVIOUS
  <2>1. course.version = 1 /\ course.stages = <<>> /\ proposal = NoPlan /\ today = NoPlan
        /\ learner \in Learners
    BY DEF Init
  <2> QED BY <2>1 DEF PlanInv
<1>2. PlanInv /\ [Next]_vars => PlanInv'
  <2> SUFFICES ASSUME PlanInv, [Next]_vars PROVE PlanInv'
    OBVIOUS
  <2> USE DEF PlanInv
  <2>1. ASSUME NEW answer \in Given, Propose(answer) PROVE PlanInv'
    BY <2>1 DEF Propose
  <2>2. CASE Dismiss
    BY <2>2 DEF Dismiss
  <2>3. ASSUME NEW who \in Learners, Approve(who) PROVE PlanInv'
    <3>1. /\ proposal # NoPlan /\ course'.version = course.version + 1
          /\ course'.stages = EnrichStages(proposal.stages)
          /\ today' = DayPlan(course'.stages, who) /\ learner' = who /\ basis' = draft
          /\ proposal' = NoPlan
      BY <2>3 DEF Approve
    <3>2. draft \in Given /\ proposal = ProposalFor(draft)
      BY <3>1
    <3>3. course'.stages \in Seq(Stages(Texts))
      BY <3>1, <3>2, ProposalFacts, StagesAreEnriched
    <3>4. course'.version \in Nat
      BY <3>1
    <3> QED BY <3>1, <3>2, <3>3, <3>4
  <2>4. ASSUME NEW who \in Learners, PlanDay(who) PROVE PlanInv'
    BY <2>4 DEF PlanDay
  <2>5. CASE UNCHANGED vars
    BY <2>5 DEF vars
  <2> QED BY <2>1, <2>2, <2>3, <2>4, <2>5 DEF Next, Given
<1> QED BY <1>1, <1>2, PTL DEF Spec

(* Whatever a planner answers: every stage proposed or approved is         *)
(* complete, and the model's texts survive both enrichments                *)
(* (enrich_course_plan, apply_approved_tool).                              *)
THEOREM ContentKept == Spec => []ContentKeptAndCompleted
<1>1. PlanInv => ContentKeptAndCompleted
  BY ProposalFacts DEF PlanInv, ContentKeptAndCompleted
<1> QED BY <1>1, PlanInvariant, PTL

(* A proposal with a text of the template says fallback, and one that says *)
(* model is the model's answer (_run_planning_flow).                       *)
THEOREM SourceTold == Spec => []ProposalTellsSource
<1>1. PlanInv => ProposalTellsSource
  <2> SUFFICES ASSUME PlanInv, proposal # NoPlan, proposal.source # "fallback"
               PROVE  /\ ~HasTemplate(proposal.stages)
                      /\ proposal.stages = [i \in DOMAIN draft |-> [draft[i] EXCEPT !.status = "complete"]]
    BY DEF ProposalTellsSource
  <2>1. draft \in Given /\ proposal = ProposalFor(draft)
    BY DEF PlanInv
  <2>2. draft \in Answers
    BY <2>1 DEF ProposalFor, Given
  <2>3. /\ draft \in Seq(Stages({"", "model"})) /\ Malformed # draft
    BY <2>2, AnswersAreStages
  <2>4. proposal.stages = EnrichStages(draft) /\ \A i \in DOMAIN draft : HasDetail(draft[i])
    BY <2>1, <2>3 DEF ProposalFor, SourceOf
  <2>5. proposal.stages = [i \in DOMAIN draft |-> [draft[i] EXCEPT !.status = "complete"]]
    BY <2>4 DEF EnrichStages, EnrichStage
  <2>6. ASSUME NEW i \in DOMAIN draft
        PROVE  /\ \A f \in StageTexts : proposal.stages[i][f] # "template"
               /\ \A j \in DOMAIN proposal.stages[i].lessons, f \in Fields :
                    proposal.stages[i].lessons[j][f] # "template"
    <3> DEFINE stage == proposal.stages[i]
    <3>0. stage = [draft[i] EXCEPT !.status = "complete"]
      BY <2>5
    <3>1. draft[i] \in Stages({"", "model"})
      <4> DEFINE S == Stages({"", "model"})
      <4>1. draft \in Seq(S)
        BY <2>3
      <4> HIDE DEF S
      <4>2. draft[i] \in S
        BY <4>1
      <4> QED BY <4>2 DEF S
    <3> HIDE DEF stage
    <3>2. /\ stage.key_concepts \in {"", "model"} /\ stage.criteria \in {"", "model"}
          /\ stage.practice \in {"", "model"} /\ stage.lessons \in Seq([Fields -> {"", "model"}])
      BY <3>0, <3>1 DEF Stages
    <3>3. \A f \in StageTexts : stage[f] # "template"
      BY <3>2 DEF StageTexts
    <3>4. ASSUME NEW j \in DOMAIN stage.lessons, NEW f \in Fields PROVE stage.lessons[j][f] # "template"
      <4>1. stage.lessons[j] \in [Fields -> {"", "model"}]
        <5> DEFINE S == [Fields -> {"", "model"}]
        <5>1. stage.lessons \in Seq(S)
          BY <3>2
        <5> HIDE DEF S
        <5>2. stage.lessons[j] \in S
          BY <5>1
        <5> QED BY <5>2 DEF S
      <4>2. stage.lessons[j][f] \in {"", "model"}
        BY <4>1
      <4> QED BY <4>2
    <3> QED BY <3>3, <3>4 DEF stage
  <2>7. DOMAIN proposal.stages = DOMAIN draft
    BY <2>5
  <2>8. ~HasTemplate(proposal.stages)
    <3> HIDE DEF Fields, StageTexts
    <3> QED BY <2>6, <2>7 DEF HasTemplate
  <2> QED BY <2>5, <2>8
<1> QED BY <1>1, PlanInvariant, PTL

-----------------------------------------------------------------------------
(***************************************************************************)
(* What a fold over a sequence computes.  The library defines FoldLeft by  *)
(* a function chosen to satisfy its equations; that there is one, and that *)
(* the loop it stands for goes from each index to the next, follows by     *)
(* induction over the finite sets of indices.                              *)
(***************************************************************************)

(* Induction over the numbers, from the well-foundedness of <.             *)
LEMMA NatSetInduction ==
  ASSUME NEW T \in SUBSET Nat, 0 \in T, \A n \in T : n + 1 \in T
  PROVE  T = Nat
<1> DEFINE R == OpToRel(<, Nat)
           U == Nat \ T
<1>1. IsWellFoundedOn(R, Nat)
  BY NatLessThanWellFounded
<1>2. SUFFICES ASSUME U # {} PROVE FALSE
  OBVIOUS
<1>3. PICK x \in U : \A y \in U : ~(<<y, x>> \in R)
  <2> HIDE DEF R, U
  <2>1. U \subseteq Nat
    BY DEF U
  <2> QED BY <1>1, <1>2, <2>1, WFMin
<1>4. x # 0 /\ x - 1 \in Nat
  OBVIOUS
<1>5. <<x - 1, x>> \in R
  BY <1>4 DEF OpToRel
<1>6. x - 1 \in U
  BY <1>4
<1> QED BY <1>3, <1>5, <1>6, Zenon

(* Induction over the subsets of a finite set, by their size.              *)
LEMMA SubsetInduction ==
  ASSUME NEW S, IsFiniteSet(S), NEW Q,
         \A U \in SUBSET S : (\A V \in SUBSET U : V # U => V \in Q) => U \in Q
  PROVE  \A U \in SUBSET S : U \in Q
<1> DEFINE T == {n \in Nat : \A U \in SUBSET S : Cardinality(U) <= n => U \in Q}
<1>1. \A U \in SUBSET S : IsFiniteSet(U) /\ Cardinality(U) \in Nat
  BY FS_Subset, FS_CardinalityType
<1>2. \A U \in SUBSET S : \A V \in SUBSET U : V # U => Cardinality(V) < Cardinality(U)
  <2> SUFFICES ASSUME NEW U \in SUBSET S, NEW V \in SUBSET U, V # U
               PROVE  Cardinality(V) < Cardinality(U)
    OBVIOUS
  <2>1. Cardinality(V) <= Cardinality(U) /\ Cardinality(V) # Cardinality(U)
    BY <1>1, FS_Subset
  <2>2. Cardinality(V) \in Nat /\ Cardinality(U) \in Nat
    BY <1>1
  <2> QED BY <2>1, <2>2
<1>3. 0 \in T
  <2> SUFFICES ASSUME NEW U \in SUBSET S, Cardinality(U) <= 0 PROVE U \in Q
    OBVIOUS
  <2>1. \A V \in SUBSET U : V # U => FALSE
    BY <1>1, <1>2
  <2> QED BY <2>1
<1>4. ASSUME NEW n \in T PROVE n + 1 \in T
  <2> SUFFICES ASSUME NEW U \in SUBSET S, Cardinality(U) <= n + 1 PROVE U \in Q
    OBVIOUS
  <2>1. \A V \in SUBSET U : V # U => V \in Q
    <3> SUFFICES ASSUME NEW V \in SUBSET U, V # U PROVE V \in Q
      OBVIOUS
    <3>1. Cardinality(V) < Cardinality(U) /\ Cardinality(V) \in Nat /\ Cardinality(U) \in Nat
      BY <1>1, <1>2
    <3>2. Cardinality(V) <= n
      BY <3>1
    <3> QED BY <3>2
  <2> QED BY <2>1
<1>5. T = Nat
  <2> HIDE DEF T
  <2>1. T \subseteq Nat
    BY DEF T
  <2> QED BY <1>3, <1>4, <2>1, NatSetInduction
<1> SUFFICES ASSUME NEW U \in SUBSET S PROVE U \in Q
  OBVIOUS
<1>6. Cardinality(U) \in T
  BY <1>1, <1>5
<1> QED BY <1>1, <1>6

(* A finite set of numbers that is not empty has a greatest one.           *)
LEMMA MaxExists ==
  ASSUME NEW S \in SUBSET Nat, IsFiniteSet(S), S # {}
  PROVE  Max(S) \in S /\ \A x \in S : x <= Max(S)
<1> DEFINE Q == {U \in SUBSET S : U # {} => \E x \in U : \A y \in U : x >= y}
<1>1. ASSUME NEW U \in SUBSET S, \A V \in SUBSET U : V # U => V \in Q
      PROVE  U \in Q
  <2> SUFFICES ASSUME U # {} PROVE \E x \in U : \A y \in U : x >= y
    OBVIOUS
  <2>1. PICK z \in U : TRUE
    OBVIOUS
  <2>2. U \ {z} \in Q
    BY <1>1
  <2>3. CASE U \ {z} = {}
    <3>1. \A y \in U : z >= y
      BY <2>3
    <3> QED BY <3>1
  <2>4. CASE U \ {z} # {}
    <3>1. PICK x \in U \ {z} : \A y \in U \ {z} : x >= y
      BY <2>2, <2>4
    <3>2. x \in Nat /\ z \in Nat
      OBVIOUS
    <3>3. CASE x >= z
      BY <3>1, <3>3
    <3>4. CASE z >= x
      <4>1. \A y \in U : z >= y
        BY <3>1, <3>2, <3>4
      <4> QED BY <4>1
    <3> QED BY <3>2, <3>3, <3>4
  <2> QED BY <2>3, <2>4
<1>2. \A U \in SUBSET S : U \in Q
  <2> HIDE DEF Q
  <2> QED BY <1>1, SubsetInduction
<1>3. \E x \in S : \A y \in S : x >= y
  <2>1. S \in Q
    BY <1>2
  <2> QED BY <2>1
<1>4. Max(S) \in S /\ \A y \in S : Max(S) >= y
  BY <1>3 DEF Max
<1> QED BY <1>4

(* Once around a loop, of the two loops folded here.                       *)
Round(what, stages, minutes, acc, x) ==
  IF what = "sum" THEN acc + x.minutes ELSE AddTask(stages, minutes, acc, x)

(* The equations of a fold over the indices in S, the greatest taken last. *)
IsFold(it, what, stages, minutes, base, seq, S) ==
  it = [s \in SUBSET S |-> IF s = {} THEN base
                           ELSE Round(what, stages, minutes, it[s \ {Max(s)}], seq[Max(s)])]

(* The loop over the stages is a function that satisfies the equations of  *)
(* its fold, when there is one.                                            *)
LEMMA TasksChosen ==
  ASSUME NEW stages, NEW minutes,
         \E it : IsFold(it, "tasks", stages, minutes, [tasks |-> <<>>, left |-> minutes],
                       [i \in DOMAIN stages |-> i], DOMAIN [i \in DOMAIN stages |-> i])
  PROVE  \E it : /\ IsFold(it, "tasks", stages, minutes, [tasks |-> <<>>, left |-> minutes],
                           [i \in DOMAIN stages |-> i], DOMAIN [i \in DOMAIN stages |-> i])
                 /\ StageTasks(stages, minutes) = it[DOMAIN [i \in DOMAIN stages |-> i]]
<1> DEFINE chosen == CHOOSE it : IsFold(it, "tasks", stages, minutes, [tasks |-> <<>>, left |-> minutes],
                                       [i \in DOMAIN stages |-> i], DOMAIN [i \in DOMAIN stages |-> i])
<1>1. IsFold(chosen, "tasks", stages, minutes, [tasks |-> <<>>, left |-> minutes],
             [i \in DOMAIN stages |-> i], DOMAIN [i \in DOMAIN stages |-> i])
  OBVIOUS
<1>2. StageTasks(stages, minutes) =
        (CHOOSE it : it = [s \in SUBSET DOMAIN [i \in DOMAIN stages |-> i] |->
           IF s = {} THEN [tasks |-> <<>>, left |-> minutes]
           ELSE Round("tasks", stages, minutes, it[s \ {Max(s)}], [i \in DOMAIN stages |-> i][Max(s)])])
          [DOMAIN [i \in DOMAIN stages |-> i]]
  BY Zenon DEF StageTasks, FoldLeft, MapThenFoldSet, Round
<1>3. StageTasks(stages, minutes) = chosen[DOMAIN [i \in DOMAIN stages |-> i]]
  BY <1>2, Zenon DEF IsFold
<1> QED BY <1>1, <1>3

(* So is the sum of the minutes.                                           *)
LEMMA SumChosen ==
  ASSUME NEW stages, NEW minutes, NEW seq,
         \E it : IsFold(it, "sum", stages, minutes, 0, seq, DOMAIN seq)
  PROVE  \E it : /\ IsFold(it, "sum", stages, minutes, 0, seq, DOMAIN seq)
                 /\ TotalMinutes(seq) = it[DOMAIN seq]
<1> DEFINE chosen == CHOOSE it : IsFold(it, "sum", stages, minutes, 0, seq, DOMAIN seq)
<1>1. IsFold(chosen, "sum", stages, minutes, 0, seq, DOMAIN seq)
  OBVIOUS
<1>2. TotalMinutes(seq) = chosen[DOMAIN seq]
  BY Zenon DEF TotalMinutes, FoldLeft, MapThenFoldSet, IsFold, Round
<1> QED BY <1>1, <1>2

(* Two functions that satisfy the equations agree.                         *)
LEMMA FoldIsUnique ==
  ASSUME NEW what, NEW stages, NEW minutes, NEW base, NEW seq,
         NEW S \in SUBSET Nat, NEW T, IsFiniteSet(S), NEW a, NEW b,
         IsFold(a, what, stages, minutes, base, seq, S),
         IsFold(b, what, stages, minutes, base, seq, T), S \subseteq T
  PROVE  a[S] = b[S]
<1> DEFINE Q == {U \in SUBSET S : a[U] = b[U]}
<1>1. ASSUME NEW U \in SUBSET S, \A V \in SUBSET U : V # U => V \in Q
      PROVE  U \in Q
  <2>0. U \in SUBSET T /\ U \in SUBSET Nat /\ IsFiniteSet(U)
    BY FS_Subset
  <2>1. CASE U = {}
    BY <2>0, <2>1 DEF IsFold
  <2>2. CASE U # {}
    <3>1. Max(U) \in U
      BY <2>0, <2>2, MaxExists
    <3>2. U \ {Max(U)} \in Q
      BY <1>1, <3>1
    <3>3. a[U] = Round(what, stages, minutes, a[U \ {Max(U)}], seq[Max(U)])
      BY <2>2 DEF IsFold
    <3>4. b[U] = Round(what, stages, minutes, b[U \ {Max(U)}], seq[Max(U)])
      BY <2>0, <2>2 DEF IsFold
    <3> QED BY <3>2, <3>3, <3>4
  <2> QED BY <2>1, <2>2
<1>2. \A U \in SUBSET S : U \in Q
  <2> HIDE DEF Q
  <2> QED BY <1>1, SubsetInduction
<1>3. S \in Q
  BY <1>2
<1> QED BY <1>3

(* There is one that does, for every finite set of indices.                *)
LEMMA FoldExists ==
  ASSUME NEW what, NEW stages, NEW minutes, NEW base, NEW seq, NEW S \in SUBSET Nat, IsFiniteSet(S)
  PROVE  \E it : IsFold(it, what, stages, minutes, base, seq, S)
<1> DEFINE Q == {U \in SUBSET S : \E it : IsFold(it, what, stages, minutes, base, seq, U)}
<1>1. ASSUME NEW U \in SUBSET S, \A V \in SUBSET U : V # U => V \in Q
      PROVE  \E it : IsFold(it, what, stages, minutes, base, seq, U)
  <2>1. \A V \in SUBSET U : IsFiniteSet(V) /\ V \in SUBSET Nat
    BY FS_Subset
  <2>2. \A V \in SUBSET U : V # {} => Max(V) \in V
    BY <2>1, MaxExists
  <2> DEFINE of == [V \in SUBSET U |-> CHOOSE it : IsFold(it, what, stages, minutes, base, seq, V)]
             below(V) == of[V \ {Max(V)}][V \ {Max(V)}]
             it == [V \in SUBSET U |-> IF V = {} THEN base ELSE Round(what, stages, minutes, below(V), seq[Max(V)])]
  <2>3. \A V \in SUBSET U : V # U => IsFold(of[V], what, stages, minutes, base, seq, V)
    BY <1>1
  <2> HIDE DEF of
  <2>4. ASSUME NEW V \in SUBSET U, V # {}
        PROVE  it[V \ {Max(V)}] = below(V)
    <3> DEFINE W == V \ {Max(V)}
    <3>1. W \in SUBSET U /\ W # U /\ IsFiniteSet(W) /\ W \in SUBSET Nat
      BY <2>1, <2>2, <2>4
    <3>2. IsFold(of[W], what, stages, minutes, base, seq, W)
      BY <2>3, <3>1
    <3>3. CASE W = {}
      BY <3>1, <3>2, <3>3 DEF IsFold
    <3>4. CASE W # {}
      <4> DEFINE X == W \ {Max(W)}
      <4>1. X \subseteq W /\ X # U /\ X \in SUBSET U /\ IsFiniteSet(X) /\ X \in SUBSET Nat
        BY <2>1, <2>2, <3>1, <3>4
      <4>2. IsFold(of[X], what, stages, minutes, base, seq, X)
        BY <2>3, <4>1
      <4>3. of[X][X] = of[W][X]
        <5> HIDE DEF X, W
        <5>1. X \in SUBSET Nat /\ IsFiniteSet(X) /\ X \subseteq W
          BY <4>1
        <5> DEFINE a == of[X]
                   b == of[W]
        <5>2. IsFold(a, what, stages, minutes, base, seq, X) /\ IsFold(b, what, stages, minutes, base, seq, W)
          BY <3>2, <4>2
        <5>3. a[X] = b[X]
          <6> HIDE DEF a, b
          <6> QED BY <5>1, <5>2, FoldIsUnique
        <5> QED BY <5>3
      <4>4. of[W][W] = Round(what, stages, minutes, of[W][X], seq[Max(W)])
        BY <3>2, <3>4 DEF IsFold
      <4>5. it[W] = Round(what, stages, minutes, of[X][X], seq[Max(W)])
        BY <3>1, <3>4
      <4> QED BY <4>3, <4>4, <4>5
    <3> QED BY <3>3, <3>4
  <2>5. \A V \in SUBSET U : it[V] = IF V = {} THEN base ELSE Round(what, stages, minutes, it[V \ {Max(V)}], seq[Max(V)])
    <3> SUFFICES ASSUME NEW V \in SUBSET U
                 PROVE  it[V] = IF V = {} THEN base ELSE Round(what, stages, minutes, it[V \ {Max(V)}], seq[Max(V)])
      OBVIOUS
    <3>1. CASE V = {}
      BY <3>1
    <3>2. CASE V # {}
      <4>1. it[V] = Round(what, stages, minutes, below(V), seq[Max(V)])
        BY <3>2
      <4> HIDE DEF it, below
      <4> QED BY <4>1, <3>2, <2>4
    <3> QED BY <3>1, <3>2
  <2>6. it = [V \in SUBSET U |-> it[V]]
    OBVIOUS
  <2> HIDE DEF it
  <2>7. IsFold(it, what, stages, minutes, base, seq, U)
    BY <2>5, <2>6, Zenon DEF IsFold
  <2> QED BY <2>7
<1>2. \A U \in SUBSET S : U \in Q
  <2>1. \A U \in SUBSET S : (\A V \in SUBSET U : V # U => V \in Q) => U \in Q
    BY <1>1
  <2> HIDE DEF Q
  <2> QED BY <2>1, SubsetInduction
<1> QED BY <1>2

(* The loop, from the base and index by index.                             *)
RunsAs(it, what, stages, minutes, base, seq, n) ==
  /\ it[1..0] = base
  /\ \A j \in 0..(n - 1) :
       it[1..(j + 1)] = Round(what, stages, minutes, it[1..j], seq[j + 1])

(* It goes from each index to the next.                                    *)
LEMMA FoldRuns ==
  ASSUME NEW what, NEW stages, NEW minutes, NEW base, NEW n \in Nat, NEW seq, DOMAIN seq = 1..n,
         NEW it, IsFold(it, what, stages, minutes, base, seq, DOMAIN seq)
  PROVE  RunsAs(it, what, stages, minutes, base, seq, n)
<1>1. it[1..0] = base
  <2>1. 1..0 = {}
    OBVIOUS
  <2> QED BY <2>1 DEF IsFold
<1>2. ASSUME NEW j \in 0..(n - 1)
      PROVE  it[1..(j + 1)] = Round(what, stages, minutes, it[1..j], seq[j + 1])
  <2> DEFINE U == 1..(j + 1)
  <2>1. IsFiniteSet(U)
    BY FS_Interval
  <2>2. U \in SUBSET (1..n) /\ U # {} /\ U \in SUBSET Nat
    <3>1. j \in Nat /\ n \in Nat /\ j + 1 \in Nat /\ j + 1 <= n
      OBVIOUS
    <3>2. \A x \in 1..(j + 1) : x \in 1..n /\ x \in Nat
      BY <3>1
    <3>3. 1 \in 1..(j + 1)
      BY <3>1
    <3> QED BY <3>2, <3>3
  <2>3. Max(U) \in U /\ \A x \in U : x <= Max(U)
    <3> HIDE DEF U
    <3> QED BY <2>1, <2>2, MaxExists
  <2>4. Max(U) = j + 1 /\ U \ {j + 1} = 1..j
    BY <2>3
  <2>5. it[U] = Round(what, stages, minutes, it[U \ {Max(U)}], seq[Max(U)])
    <3> HIDE DEF U
    <3> QED BY <2>2 DEF IsFold
  <2> QED BY <2>4, <2>5
<1> QED BY <1>1, <1>2 DEF RunsAs

(* The loop over the stages, stage by stage.                               *)
LEMMA TasksRun ==
  ASSUME NEW stages, NEW n \in Nat, DOMAIN stages = 1..n, NEW minutes
  PROVE  \E acc : /\ acc[0] = [tasks |-> <<>>, left |-> minutes]
                  /\ \A j \in 0..(n - 1) : acc[j + 1] = AddTask(stages, minutes, acc[j], j + 1)
                  /\ StageTasks(stages, minutes) = acc[n]
<1> DEFINE base == [tasks |-> <<>>, left |-> minutes]
           seq == [i \in DOMAIN stages |-> i]
<1>1. DOMAIN seq = 1..n /\ IsFiniteSet(1..n) /\ \A j \in 1..n : seq[j] = j
  BY FS_Interval
<1>2. base = [tasks |-> <<>>, left |-> minutes] /\ seq = [i \in DOMAIN stages |-> i]
  OBVIOUS
<1> HIDE DEF base, seq
<1>3. \E it : IsFold(it, "tasks", stages, minutes, base, seq, DOMAIN seq)
  <2>1. DOMAIN seq \in SUBSET Nat /\ IsFiniteSet(DOMAIN seq)
    BY <1>1
  <2> QED BY <2>1, FoldExists
<1>4. PICK it : /\ IsFold(it, "tasks", stages, minutes, base, seq, DOMAIN seq)
                /\ StageTasks(stages, minutes) = it[DOMAIN seq]
  BY <1>3, TasksChosen, Zenon DEF base, seq
<1> DEFINE acc == [j \in 0..n |-> it[1..j]]
<1>5. /\ it[1..0] = base
      /\ \A j \in 0..(n - 1) :
           it[1..(j + 1)] = Round("tasks", stages, minutes, it[1..j], seq[j + 1])
  <2>1. n \in Nat /\ DOMAIN seq = 1..n /\ IsFold(it, "tasks", stages, minutes, base, seq, DOMAIN seq)
    BY <1>1, <1>4
  <2>2. RunsAs(it, "tasks", stages, minutes, base, seq, n)
    BY <2>1, FoldRuns
  <2> QED BY <2>2 DEF RunsAs
<1>6. acc[0] = base /\ StageTasks(stages, minutes) = acc[n]
  BY <1>1, <1>4, <1>5
<1>7. ASSUME NEW j \in 0..(n - 1) PROVE acc[j + 1] = AddTask(stages, minutes, acc[j], j + 1)
  <2>1. acc[j + 1] = it[1..(j + 1)] /\ acc[j] = it[1..j] /\ seq[j + 1] = j + 1
    BY <1>1
  <2>2. it[1..(j + 1)] = Round("tasks", stages, minutes, it[1..j], j + 1)
    BY <1>5, <2>1
  <2> HIDE DEF acc
  <2> QED BY <2>1, <2>2 DEF Round
<1> HIDE DEF acc
<1> QED BY <1>2, <1>6, <1>7

(* The sum of the minutes, task by task.                                   *)
LEMMA SumRun ==
  ASSUME NEW tasks, NEW n \in Nat, DOMAIN tasks = 1..n
  PROVE  \E acc : /\ acc[0] = 0
                  /\ \A j \in 0..(n - 1) : acc[j + 1] = acc[j] + tasks[j + 1].minutes
                  /\ TotalMinutes(tasks) = acc[n]
<1>1. IsFiniteSet(1..n)
  BY FS_Interval
<1>2. \E it : IsFold(it, "sum", <<>>, 0, 0, tasks, DOMAIN tasks)
  <2>1. DOMAIN tasks \in SUBSET Nat /\ IsFiniteSet(DOMAIN tasks)
    BY <1>1
  <2> QED BY <2>1, FoldExists
<1>3. PICK it : /\ IsFold(it, "sum", <<>>, 0, 0, tasks, DOMAIN tasks)
                /\ TotalMinutes(tasks) = it[DOMAIN tasks]
  BY <1>2, SumChosen
<1> DEFINE acc == [j \in 0..n |-> it[1..j]]
<1>4. /\ it[1..0] = 0
      /\ \A j \in 0..(n - 1) : it[1..(j + 1)] = Round("sum", <<>>, 0, it[1..j], tasks[j + 1])
  <2>1. n \in Nat /\ DOMAIN tasks = 1..n /\ IsFold(it, "sum", <<>>, 0, 0, tasks, DOMAIN tasks)
    BY <1>3
  <2>2. RunsAs(it, "sum", <<>>, 0, 0, tasks, n)
    BY <2>1, FoldRuns
  <2> QED BY <2>2 DEF RunsAs
<1>5. acc[0] = 0 /\ TotalMinutes(tasks) = acc[n]
  BY <1>3, <1>4
<1>6. ASSUME NEW j \in 0..(n - 1) PROVE acc[j + 1] = acc[j] + tasks[j + 1].minutes
  <2>1. acc[j + 1] = it[1..(j + 1)] /\ acc[j] = it[1..j]
    OBVIOUS
  <2>2. it[1..(j + 1)] = Round("sum", <<>>, 0, it[1..j], tasks[j + 1])
    BY <1>4
  <2> HIDE DEF acc
  <2> QED BY <2>1, <2>2 DEF Round
<1> HIDE DEF acc
<1> QED BY <1>5, <1>6

-----------------------------------------------------------------------------
(***************************************************************************)
(* The minutes of a day's tasks.                                           *)
(***************************************************************************)

(* No tasks, no minutes.                                                   *)
LEMMA NoMinutes == TotalMinutes(<<>>) = 0
<1>1. 0 \in Nat /\ DOMAIN <<>> = 1..0
  OBVIOUS
<1>2. PICK acc : acc[0] = 0 /\ TotalMinutes(<<>>) = acc[0]
  BY <1>1, SumRun
<1> QED BY <1>2

(* One more task at the end adds its minutes.                              *)
LEMMA MinutesAppended ==
  ASSUME NEW n \in Nat, NEW tasks, DOMAIN tasks = 1..n, NEW more, DOMAIN more = 1..(n + 1),
         \A j \in 1..n : more[j] = tasks[j]
  PROVE  TotalMinutes(more) = TotalMinutes(tasks) + more[n + 1].minutes
<1>1. PICK a : /\ a[0] = 0
               /\ \A j \in 0..(n - 1) : a[j + 1] = a[j] + tasks[j + 1].minutes
               /\ TotalMinutes(tasks) = a[n]
  BY SumRun
<1>2. PICK b : /\ b[0] = 0
               /\ \A j \in 0..n : b[j + 1] = b[j] + more[j + 1].minutes
               /\ TotalMinutes(more) = b[n + 1]
  <2>1. n + 1 \in Nat /\ (n + 1) - 1 = n
    OBVIOUS
  <2> QED BY <2>1, SumRun
<1> DEFINE T == {j \in Nat : j <= n => a[j] = b[j]}
<1>3. 0 \in T
  BY <1>1, <1>2
<1>4. ASSUME NEW j \in T PROVE j + 1 \in T
  <2> SUFFICES ASSUME j + 1 <= n PROVE a[j + 1] = b[j + 1]
    OBVIOUS
  <2>1. j \in 0..(n - 1) /\ j \in 0..n /\ j + 1 \in 1..n /\ a[j] = b[j]
    OBVIOUS
  <2>2. more[j + 1] = tasks[j + 1]
    BY <2>1
  <2>3. a[j + 1] = a[j] + tasks[j + 1].minutes
    BY <1>1, <2>1
  <2>4. b[j + 1] = b[j] + more[j + 1].minutes
    BY <1>2, <2>1
  <2> QED BY <2>1, <2>2, <2>3, <2>4
<1>5. T = Nat
  <2> HIDE DEF T
  <2>1. T \in SUBSET Nat
    BY DEF T
  <2> QED BY <1>3, <1>4, <2>1, NatSetInduction
<1>6. a[n] = b[n]
  <2>1. n \in T
    BY <1>5
  <2> QED BY <2>1
<1>7. b[n + 1] = b[n] + more[n + 1].minutes
  <2>1. n \in 0..n
    OBVIOUS
  <2> QED BY <1>2, <2>1
<1> QED BY <1>1, <1>2, <1>6, <1>7

(* So does one more at the beginning.                                      *)
LEMMA MinutesPrepended ==
  ASSUME NEW n \in Nat, NEW tasks, DOMAIN tasks = 1..n, NEW more, DOMAIN more = 1..(n + 1),
         \A j \in 1..n : more[j + 1] = tasks[j] /\ tasks[j].minutes \in Int,
         more[1].minutes \in Int
  PROVE  /\ TotalMinutes(more) = more[1].minutes + TotalMinutes(tasks)
         /\ TotalMinutes(tasks) \in Int
<1>1. PICK a : /\ a[0] = 0
               /\ \A j \in 0..(n - 1) : a[j + 1] = a[j] + tasks[j + 1].minutes
               /\ TotalMinutes(tasks) = a[n]
  BY SumRun
<1>2. PICK b : /\ b[0] = 0
               /\ \A j \in 0..n : b[j + 1] = b[j] + more[j + 1].minutes
               /\ TotalMinutes(more) = b[n + 1]
  <2>1. n + 1 \in Nat /\ (n + 1) - 1 = n
    OBVIOUS
  <2> QED BY <2>1, SumRun
<1> DEFINE T == {j \in Nat : j <= n => a[j] \in Int /\ b[j + 1] = more[1].minutes + a[j]}
<1>3. 0 \in T
  <2>1. 0 \in 0..n
    OBVIOUS
  <2>2. b[0 + 1] = b[0] + more[0 + 1].minutes
    BY <1>2, <2>1
  <2>3. b[1] = 0 + more[1].minutes
    BY <1>2, <2>2
  <2> QED BY <1>1, <2>3
<1>4. ASSUME NEW j \in T PROVE j + 1 \in T
  <2> SUFFICES ASSUME j + 1 <= n
               PROVE  a[j + 1] \in Int /\ b[(j + 1) + 1] = more[1].minutes + a[j + 1]
    OBVIOUS
  <2>1. j \in 0..(n - 1) /\ j + 1 \in 0..n /\ j + 1 \in 1..n
        /\ a[j] \in Int /\ b[j + 1] = more[1].minutes + a[j]
    OBVIOUS
  <2>2. more[(j + 1) + 1] = tasks[j + 1] /\ tasks[j + 1].minutes \in Int
    BY <2>1
  <2>3. a[j + 1] = a[j] + tasks[j + 1].minutes
    BY <1>1, <2>1
  <2>4. b[(j + 1) + 1] = b[j + 1] + more[(j + 1) + 1].minutes
    BY <1>2, <2>1
  <2>5. b[(j + 1) + 1] = b[j + 1] + tasks[j + 1].minutes
    BY <2>2, <2>4
  <2> QED BY <2>1, <2>2, <2>3, <2>5
<1>5. T = Nat
  <2> HIDE DEF T
  <2>1. T \in SUBSET Nat
    BY DEF T
  <2> QED BY <1>3, <1>4, <2>1, NatSetInduction
<1>6. a[n] \in Int /\ b[n + 1] = more[1].minutes + a[n]
  <2>1. n \in T
    BY <1>5
  <2> QED BY <2>1
<1> QED BY <1>1, <1>2, <1>6

-----------------------------------------------------------------------------
(***************************************************************************)
(* The split of the minutes over the stages.                               *)
(***************************************************************************)

(* A task of a stage.                                                      *)
Task == [kind : {"stage"}, stage : Nat, minutes : Nat, texts : [Fields -> Texts]]

(* The first j stages that are open, and how many of them get a task if    *)
(* there is time.                                                          *)
Open(stages, j) == {i \in 1..j : ~stages[i].completed}
OpenTo(stages, j) == Smaller(Cardinality(Open(stages, j)), 3)

(* The tasks made of the first j stages: of open ones, in their order,     *)
(* none left out before one that has a task.                               *)
InTurn(stages, tasks, j) ==
  /\ \A k \in DOMAIN tasks : /\ tasks[k].minutes >= 5 /\ Full(tasks[k].texts)
                             /\ tasks[k].stage \in Open(stages, j)
  /\ \A k, l \in DOMAIN tasks : k < l => tasks[k].stage < tasks[l].stage
  /\ \A k \in DOMAIN tasks, i \in Open(stages, j) :
       i < tasks[k].stage => \E l \in DOMAIN tasks : tasks[l].stage = i

(* As long as there are minutes and fewer than three tasks, every open     *)
(* stage has one; and what is left is what the full shares leave, or too   *)
(* little for another task.                                                *)
SplitInv(stages, minutes, acc, j) ==
  /\ acc.tasks \in Seq(Task) /\ acc.left \in Nat /\ Len(acc.tasks) <= 3
  /\ TotalMinutes(acc.tasks) \in Nat /\ TotalMinutes(acc.tasks) + acc.left = minutes
  /\ InTurn(stages, acc.tasks, j)
  /\ acc.left >= 5 /\ Len(acc.tasks) < 3 =>
       \A i \in Open(stages, j) : \E k \in DOMAIN acc.tasks : acc.tasks[k].stage = i
  /\ \/ /\ acc.left = minutes - OpenTo(stages, j) * Share(minutes)
        /\ Len(acc.tasks) = OpenTo(stages, j)
     \/ acc.left < 5 /\ minutes - OpenTo(stages, j) * Share(minutes) < 5

(* A share is fifteen to sixty minutes.                                    *)
LEMMA ShareBounds ==
  ASSUME NEW minutes \in 10..480
  PROVE  Share(minutes) \in 15..60
BY DEF Share, Larger, Smaller

(* The open stages so far, and one more.                                   *)
LEMMA OpenFacts ==
  ASSUME NEW stages, NEW j \in Nat
  PROVE  /\ IsFiniteSet(Open(stages, j)) /\ Cardinality(Open(stages, j)) \in Nat
         /\ Open(stages, 0) = {}
         /\ stages[j + 1].completed => Open(stages, j + 1) = Open(stages, j)
         /\ ~stages[j + 1].completed =>
              /\ Open(stages, j + 1) = Open(stages, j) \cup {j + 1}
              /\ Cardinality(Open(stages, j + 1)) = Cardinality(Open(stages, j)) + 1
<1>1. IsFiniteSet(1..j)
  BY FS_Interval
<1>2. IsFiniteSet(Open(stages, j)) /\ Cardinality(Open(stages, j)) \in Nat
  <2>1. Open(stages, j) \subseteq 1..j
    BY DEF Open
  <2> QED BY <1>1, <2>1, FS_Subset, FS_CardinalityType
<1>3. Open(stages, 0) = {}
  BY DEF Open
<1>4. 1..(j + 1) = (1..j) \cup {j + 1} /\ j + 1 \notin 1..j
  OBVIOUS
<1>5. stages[j + 1].completed => Open(stages, j + 1) = Open(stages, j)
  BY <1>4 DEF Open
<1>6. ~stages[j + 1].completed => Open(stages, j + 1) = Open(stages, j) \cup {j + 1}
  BY <1>4 DEF Open
<1>7. j + 1 \notin Open(stages, j)
  BY <1>4 DEF Open
<1>8. Cardinality(Open(stages, j) \cup {j + 1}) = Cardinality(Open(stages, j)) + 1
  BY <1>2, <1>7, FS_AddElement
<1> QED BY <1>2, <1>3, <1>5, <1>6, <1>8

(* Another task of the next stage.                                         *)
LEMMA TaskAdded ==
  ASSUME NEW stages, NEW j \in Nat, NEW tasks \in Seq(Task), NEW task \in Task,
         InTurn(stages, tasks, j), Open(stages, j + 1) = Open(stages, j) \cup {j + 1},
         \A i \in Open(stages, j) : \E k \in DOMAIN tasks : tasks[k].stage = i,
         task.stage = j + 1, task.minutes >= 5, Full(task.texts)
  PROVE  /\ Append(tasks, task) \in Seq(Task)
         /\ InTurn(stages, Append(tasks, task), j + 1)
         /\ \A i \in Open(stages, j + 1) :
              \E k \in DOMAIN Append(tasks, task) : Append(tasks, task)[k].stage = i
         /\ TotalMinutes(Append(tasks, task)) = TotalMinutes(tasks) + task.minutes
<1> DEFINE more == Append(tasks, task)
           n == Len(tasks)
<1>1. /\ n \in Nat /\ DOMAIN tasks = 1..n /\ DOMAIN more = 1..(n + 1) /\ more \in Seq(Task)
      /\ \A k \in 1..n : more[k] = tasks[k]
      /\ more[n + 1] = task
  OBVIOUS
<1>2. TotalMinutes(more) = TotalMinutes(tasks) + task.minutes
  <2> HIDE DEF more, n
  <2> QED BY <1>1, MinutesAppended
<1>3. Open(stages, j + 1) = Open(stages, j) \cup {j + 1}
  OBVIOUS
<1>4. 1..(n + 1) = (1..n) \cup {n + 1} /\ n + 1 \in 1..(n + 1) /\ \A k \in 1..n : k # n + 1 /\ ~(n + 1 < k)
  BY <1>1
<1>5. \A i \in Open(stages, j) : i \in Nat /\ i < j + 1 /\ ~(j + 1 < i)
  BY DEF Open
<1> HIDE DEF more, n
<1>6. \A i \in Open(stages, j + 1) : \E k \in DOMAIN more : more[k].stage = i
  BY <1>1, <1>3, <1>4
<1>7. \A k \in DOMAIN more : /\ more[k].minutes >= 5 /\ Full(more[k].texts)
                             /\ more[k].stage \in Open(stages, j + 1)
  BY <1>1, <1>3, <1>4 DEF InTurn
<1>8. ASSUME NEW k \in DOMAIN more, NEW l \in DOMAIN more, k < l
      PROVE  more[k].stage < more[l].stage
  <2>1. CASE l = n + 1
    <3>1. k \in 1..n
      BY <1>1, <1>4, <1>8, <2>1
    <3>2. more[k].stage \in Open(stages, j) /\ more[l].stage = j + 1
      BY <1>1, <2>1, <3>1 DEF InTurn
    <3> QED BY <1>5, <3>2
  <2>2. CASE l # n + 1
    <3>1. l \in 1..n /\ k \in 1..n
      BY <1>1, <1>4, <1>8, <2>2
    <3> QED BY <1>1, <1>8, <3>1 DEF InTurn
  <2> QED BY <2>1, <2>2
<1>9. InTurn(stages, more, j + 1)
  BY <1>6, <1>7, <1>8 DEF InTurn
<1> QED BY <1>1, <1>2, <1>6, <1>9 DEF more

(* A stage that is passed over, for it is done, or there is no more time.  *)
LEMMA StagePassed ==
  ASSUME NEW stages, NEW j \in Nat, NEW tasks, InTurn(stages, tasks, j)
  PROVE  InTurn(stages, tasks, j + 1)
<1>1. /\ Open(stages, j) \subseteq Open(stages, j + 1)
      /\ \A i \in Open(stages, j + 1) : i \in Open(stages, j) \/ i = j + 1
  BY OpenFacts
<1>2. \A i \in Open(stages, j) : i \in Nat /\ ~(j + 1 < i)
  BY DEF Open
<1> QED BY <1>1, <1>2 DEF InTurn

(* The task of a complete stage has what a lesson has.                     *)
LEMMA TaskIsFull ==
  ASSUME NEW stage \in Stages(Texts), HasDetail(stage), NEW i \in Nat, NEW minutes \in Nat
  PROVE  /\ StageTask(i, stage, minutes) \in Task
         /\ Full(StageTask(i, stage, minutes).texts)
         /\ StageTask(i, stage, minutes).stage = i
         /\ StageTask(i, stage, minutes).minutes = minutes
<1> DEFINE lesson == Head(stage.lessons)
           texts == [lesson EXCEPT !.concepts = Or(@, stage.key_concepts), !.criteria = Or(@, stage.criteria)]
<1>1. lesson \in [Fields -> Texts] /\ Full(lesson)
  <2> DEFINE L == [Fields -> Texts]
  <2>1. stage.lessons \in Seq(L) /\ stage.lessons # <<>> /\ Full(stage.lessons[1])
    <3>1. stage.lessons \in Seq([Fields -> Texts])
      BY DEF Stages
    <3>2. stage.lessons # <<>> /\ \A k \in DOMAIN stage.lessons : Full(stage.lessons[k])
      BY DEF HasDetail
    <3> HIDE DEF L
    <3>3. stage.lessons \in Seq(L)
      BY <3>1 DEF L
    <3>4. 1 \in DOMAIN stage.lessons
      BY <3>2, <3>3
    <3> QED BY <3>2, <3>3, <3>4
  <2> HIDE DEF L
  <2>2. lesson \in L /\ lesson = stage.lessons[1]
    BY <2>1
  <2> QED BY <2>1, <2>2 DEF L
<1> HIDE DEF lesson
<1>2. texts = lesson
  <2>1. lesson["concepts"] # "" /\ lesson["criteria"] # ""
    BY <1>1 DEF Full, Fields
  <2>2. texts["concepts"] = lesson["concepts"] /\ texts["criteria"] = lesson["criteria"]
    BY <1>1, <2>1 DEF Or, Fields
  <2> QED BY <1>1, <2>2 DEF Fields
<1>3. StageTask(i, stage, minutes) = [kind |-> "stage", stage |-> i, minutes |-> minutes, texts |-> texts]
  BY DEF StageTask, lesson
<1> HIDE DEF texts
<1> QED BY <1>1, <1>2, <1>3 DEF Task

(* Once around the loop over the stages.                                   *)
LEMMA SplitStep ==
  ASSUME NEW stages \in Seq(Stages(Texts)), NEW minutes \in 10..480,
         NEW j \in Nat, j < Len(stages), HasDetail(stages[j + 1]),
         NEW acc, SplitInv(stages, minutes, acc, j)
  PROVE  SplitInv(stages, minutes, AddTask(stages, minutes, acc, j + 1), j + 1)
<1> DEFINE stage == stages[j + 1]
           share == Share(minutes)
           c == Cardinality(Open(stages, j))
           d == Cardinality(Open(stages, j + 1))
           left == acc.left
           len == Len(acc.tasks)
           total == TotalMinutes(acc.tasks)
<1>1. share \in 15..60 /\ c \in Nat /\ minutes \in Nat
  <2>1. share \in 15..60
    BY ShareBounds
  <2>2. c \in Nat
    BY OpenFacts
  <2> HIDE DEF share, c
  <2> QED BY <2>1, <2>2
<1>2. /\ stage.completed => d = c /\ Open(stages, j + 1) = Open(stages, j)
      /\ ~stage.completed => d = c + 1
  BY OpenFacts
<1>3. left \in Nat /\ len \in Nat /\ len <= 3 /\ total \in Nat /\ total + left = minutes
  <2>1. acc.tasks \in Seq(Task)
    BY DEF SplitInv
  <2>2. Len(acc.tasks) \in Nat
    BY <2>1
  <2> QED BY <2>2 DEF SplitInv
<1>4. \/ left = minutes - Smaller(c, 3) * share /\ len = Smaller(c, 3)
      \/ left < 5 /\ minutes - Smaller(c, 3) * share < 5
  BY DEF SplitInv, OpenTo
<1>8. /\ acc.tasks \in Seq(Task) /\ InTurn(stages, acc.tasks, j)
      /\ left >= 5 /\ len < 3 =>
           \A i \in Open(stages, j) : \E k \in DOMAIN acc.tasks : acc.tasks[k].stage = i
  BY DEF SplitInv
<1> HIDE DEF share, c, d, stage, left, len, total
<1>5. CASE stage.completed
  <2>1. AddTask(stages, minutes, acc, j + 1) = acc
    BY <1>5 DEF AddTask, stage, left, len
  <2>2. /\ Open(stages, j + 1) = Open(stages, j) /\ OpenTo(stages, j + 1) = OpenTo(stages, j)
    BY <1>2, <1>5 DEF OpenTo
  <2>3. InTurn(stages, acc.tasks, j + 1)
    BY <1>8, StagePassed
  <2> QED BY <2>1, <2>2, <2>3 DEF SplitInv
<1>6. CASE ~stage.completed /\ (left < 5 \/ len = 3)
  <2>1. AddTask(stages, minutes, acc, j + 1) = acc
    BY <1>6 DEF AddTask, stage, left, len
  <2>2. InTurn(stages, acc.tasks, j + 1)
    BY <1>8, StagePassed
  <2>3. ~(left >= 5 /\ len < 3)
    BY <1>3, <1>6
  <2>4. \/ left = minutes - Smaller(d, 3) * share /\ len = Smaller(d, 3)
        \/ left < 5 /\ minutes - Smaller(d, 3) * share < 5
    <3>1. d = c + 1
      BY <1>2, <1>6
    <3>2. CASE c >= 3
      <4>1. Smaller(c, 3) = 3 /\ Smaller(d, 3) = 3
        BY <1>1, <3>1, <3>2 DEF Smaller
      <4> QED BY <1>4, <4>1
    <3>3. CASE c < 3
      <4>1. Smaller(c, 3) = c /\ Smaller(d, 3) = c + 1
        BY <1>1, <3>1, <3>3 DEF Smaller
      <4>2. left < 5
        BY <1>1, <1>3, <1>4, <1>6, <3>3, <4>1
      <4>3. c = 0 \/ c = 1 \/ c = 2
        BY <1>1, <3>3
      <4> QED BY <1>1, <1>3, <1>4, <4>1, <4>2, <4>3
    <3> QED BY <1>1, <3>2, <3>3
  <2>5. SplitInv(stages, minutes, acc, j + 1)
    BY <1>3, <1>8, <2>2, <2>3, <2>4 DEF SplitInv, OpenTo, share, d, left, len, total
  <2> QED BY <2>1, <2>5
<1>7. CASE ~stage.completed /\ left >= 5 /\ len # 3
  <2> DEFINE mine == MinutesFor(left, minutes)
             task == StageTask(j + 1, stage, mine)
             more == Append(acc.tasks, task)
             new == [tasks |-> more, left |-> left - mine]
  <2>1. AddTask(stages, minutes, acc, j + 1) = new
    BY <1>3, <1>7 DEF AddTask, stage, left, len
  <2>2. mine = Smaller(left, share) /\ mine \in Nat /\ mine >= 5 /\ mine <= left
    <3>1. mine = Smaller(left, share)
      BY DEF MinutesFor, share
    <3> HIDE DEF mine
    <3> QED BY <1>1, <1>3, <1>7, <3>1 DEF Smaller
  <2>3. stage \in Stages(Texts) /\ HasDetail(stage)
    <3> DEFINE S == Stages(Texts)
    <3>1. stages \in Seq(S) /\ j + 1 \in 1..Len(stages)
      OBVIOUS
    <3> HIDE DEF S
    <3>2. stages[j + 1] \in S
      BY <3>1
    <3> QED BY <3>2 DEF S, stage
  <2>4. task \in Task /\ Full(task.texts) /\ task.stage = j + 1 /\ task.minutes = mine
    <3>1. j + 1 \in Nat
      OBVIOUS
    <3> HIDE DEF mine
    <3> QED BY <2>2, <2>3, <3>1, TaskIsFull
  <2> HIDE DEF mine, task
  <2>5. len < 3
    BY <1>3, <1>7
  <2>6. /\ more \in Seq(Task)
        /\ InTurn(stages, more, j + 1)
        /\ \A i \in Open(stages, j + 1) : \E k \in DOMAIN more : more[k].stage = i
        /\ TotalMinutes(more) = total + task.minutes
    <3>1. \A i \in Open(stages, j) : \E k \in DOMAIN acc.tasks : acc.tasks[k].stage = i
      BY <1>7, <1>8, <2>5
    <3>2. Open(stages, j + 1) = Open(stages, j) \cup {j + 1} /\ task.minutes >= 5
      BY <1>7, <2>2, <2>4, OpenFacts DEF stage
    <3>3. acc.tasks \in Seq(Task) /\ InTurn(stages, acc.tasks, j)
      BY <1>8
    <3> DEFINE tasks == acc.tasks
    <3>4. j \in Nat /\ tasks \in Seq(Task) /\ task \in Task /\ InTurn(stages, tasks, j) /\ Full(task.texts)
          /\ task.stage = j + 1 /\ \A i \in Open(stages, j) : \E k \in DOMAIN tasks : tasks[k].stage = i
      BY <2>4, <3>1, <3>3
    <3>5. total = TotalMinutes(tasks) /\ more = Append(tasks, task)
      BY DEF total
    <3> HIDE DEF tasks, more
    <3>6. /\ Append(tasks, task) \in Seq(Task)
          /\ InTurn(stages, Append(tasks, task), j + 1)
          /\ \A i \in Open(stages, j + 1) :
               \E k \in DOMAIN Append(tasks, task) : Append(tasks, task)[k].stage = i
          /\ TotalMinutes(Append(tasks, task)) = TotalMinutes(tasks) + task.minutes
      BY <3>2, <3>4, TaskAdded, Zenon
    <3> QED BY <3>5, <3>6, Zenon
  <2>7. Len(more) = len + 1
    BY <1>8, <2>4 DEF len
  <2> HIDE DEF more
  <2>8. new.tasks = more /\ new.left = left - mine
    OBVIOUS
  <2> HIDE DEF new
  <2>9. TotalMinutes(more) \in Nat /\ TotalMinutes(more) + new.left = minutes /\ new.left \in Nat
    <3>1. TotalMinutes(more) = total + mine
      BY <2>4, <2>6
    <3> QED BY <1>1, <1>3, <2>2, <2>8, <3>1
  <2>10. \/ new.left = minutes - Smaller(d, 3) * share /\ Len(more) = Smaller(d, 3)
         \/ new.left < 5 /\ minutes - Smaller(d, 3) * share < 5
    <3>1. left = minutes - Smaller(c, 3) * share /\ len = Smaller(c, 3)
      BY <1>3, <1>4, <1>7
    <3>2. c < 3 /\ Smaller(c, 3) = c /\ d = c + 1 /\ Smaller(d, 3) = c + 1
      BY <1>1, <1>2, <1>7, <2>5, <3>1 DEF Smaller
    <3>3. c = 0 \/ c = 1 \/ c = 2
      BY <1>1, <3>2
    <3> DEFINE taken == c * share
    <3>4. taken \in Nat /\ (c + 1) * share = taken + share
      BY <1>1, <3>3
    <3>7. left = minutes - taken
      BY <3>1, <3>2
    <3> HIDE DEF taken
    <3>5. CASE left >= share
      <4>1. mine = share
        BY <1>1, <1>3, <2>2, <3>5 DEF Smaller
      <4>2. left - share = minutes - (c + 1) * share
        BY <1>1, <1>3, <3>4, <3>7
      <4>3. new.left = minutes - (c + 1) * share /\ Len(more) = c + 1
        BY <2>7, <2>8, <3>1, <3>2, <4>1, <4>2
      <4> QED BY <3>2, <4>3
    <3>6. CASE left < share
      <4>1. mine = left
        BY <1>1, <1>3, <2>2, <3>6 DEF Smaller
      <4>2. left - left = 0
        BY <1>3
      <4>3. new.left = 0
        BY <2>8, <4>1, <4>2
      <4>4. minutes - (c + 1) * share = left - share
        BY <1>1, <1>3, <3>4, <3>7
      <4>5. left - share < 5
        BY <1>1, <1>3, <3>6
      <4> QED BY <3>2, <4>3, <4>4, <4>5
    <3> QED BY <1>1, <1>3, <3>5, <3>6
  <2>11. SplitInv(stages, minutes, new, j + 1)
    <3>1. Len(more) <= 3
      BY <1>3, <2>5, <2>7
    <3> HIDE DEF SplitInv
    <3>2. SplitInv(stages, minutes, new, j + 1)
      BY <2>6, <2>8, <2>9, <2>10, <3>1, Zenon DEF SplitInv, OpenTo, share, d
    <3> QED BY <3>2
  <2> QED BY <2>1, <2>11
<1> QED BY <1>3, <1>5, <1>6, <1>7

(* The split of a day.                                                     *)
LEMMA SplitHolds ==
  ASSUME NEW stages \in Seq(Stages(Texts)), \A i \in DOMAIN stages : HasDetail(stages[i]),
         NEW minutes \in 10..480
  PROVE  SplitInv(stages, minutes, StageTasks(stages, minutes), Len(stages))
<1> DEFINE n == Len(stages)
<1>1. n \in Nat /\ DOMAIN stages = 1..n
  <2> DEFINE S == Stages(Texts)
  <2>1. stages \in Seq(S)
    OBVIOUS
  <2> HIDE DEF S
  <2> QED BY <2>1
<1>2. PICK acc : /\ acc[0] = [tasks |-> <<>>, left |-> minutes]
                 /\ \A j \in 0..(n - 1) : acc[j + 1] = AddTask(stages, minutes, acc[j], j + 1)
                 /\ StageTasks(stages, minutes) = acc[n]
  <2> HIDE DEF n
  <2> QED BY <1>1, TasksRun
<1> DEFINE T == {j \in Nat : j <= n => SplitInv(stages, minutes, acc[j], j)}
<1>3. 0 \in T
  <2>1. acc[0].tasks = <<>> /\ acc[0].left = minutes
    BY <1>2
  <2>2. <<>> \in Seq(Task) /\ Len(<<>>) = 0 /\ DOMAIN <<>> = {}
    OBVIOUS
  <2>3. Open(stages, 0) = {} /\ Cardinality({}) = 0
    BY OpenFacts, FS_EmptySet
  <2>4. OpenTo(stages, 0) = 0
    BY <2>3 DEF OpenTo, Smaller
  <2>5. Share(minutes) \in 15..60
    BY ShareBounds
  <2>6. InTurn(stages, acc[0].tasks, 0)
    BY <2>1, <2>2 DEF InTurn
  <2>7. minutes \in Nat /\ minutes = minutes - 0 * Share(minutes)
    <3> DEFINE share == Share(minutes)
    <3>1. share \in 15..60
      BY <2>5
    <3> HIDE DEF share
    <3>2. minutes = minutes - 0 * share
      BY <3>1
    <3> QED BY <3>2 DEF share
  <2>8. SplitInv(stages, minutes, acc[0], 0)
    BY <2>1, <2>2, <2>3, <2>4, <2>6, <2>7, NoMinutes DEF SplitInv
  <2> QED BY <2>8
<1>4. ASSUME NEW j \in T PROVE j + 1 \in T
  <2> SUFFICES ASSUME j + 1 <= n PROVE SplitInv(stages, minutes, acc[j + 1], j + 1)
    OBVIOUS
  <2>1. j \in Nat /\ j < n /\ j \in 0..(n - 1) /\ j + 1 \in DOMAIN stages /\ SplitInv(stages, minutes, acc[j], j)
    BY <1>1
  <2>2. acc[j + 1] = AddTask(stages, minutes, acc[j], j + 1)
    BY <1>2, <2>1
  <2> QED BY <2>1, <2>2, SplitStep
<1>5. T = Nat
  <2> HIDE DEF T
  <2>1. T \in SUBSET Nat
    BY DEF T
  <2> QED BY <1>3, <1>4, <2>1, NatSetInduction
<1>6. SplitInv(stages, minutes, acc[n], n)
  <2>1. n \in T
    BY <1>1, <1>5
  <2> QED BY <2>1
<1> QED BY <1>2, <1>6

-----------------------------------------------------------------------------
(***************************************************************************)
(* The day.                                                                *)
(***************************************************************************)

(* The tasks of stages in a day, and those of reviews.                     *)
OfStages(day) == {k \in DOMAIN day : day[k].kind = "stage"}
OfReviews(day) == {k \in DOMAIN day : day[k].kind = "reviews"}

(* A day's tasks are long enough and full, and those of stages take the    *)
(* open ones in their order.                                               *)
Ordered(day, open) ==
  /\ \A k \in DOMAIN day : day[k].minutes >= 5 /\ Full(day[k].texts)
  /\ \A k, l \in OfStages(day) : k < l => day[k].stage < day[l].stage
  /\ \A k \in OfStages(day) :
       /\ day[k].stage \in open
       /\ \A i \in open : i < day[k].stage => \E l \in OfStages(day) : day[l].stage = i

(* A task of another kind in front (the reviews, or the first setup)       *)
(* leaves the stages their turns.                                          *)
LEMMA DayInTurn ==
  ASSUME NEW stages, NEW j \in Nat, NEW tasks \in Seq(Task), InTurn(stages, tasks, j),
         NEW front \in {0, 1}, NEW day, DOMAIN day = 1..(Len(tasks) + front),
         \A k \in 1..Len(tasks) : day[k + front] = tasks[k],
         front = 1 => day[1].kind # "stage" /\ day[1].minutes >= 5 /\ Full(day[1].texts)
  PROVE  /\ Ordered(day, Open(stages, j))
         /\ tasks # <<>> => OfStages(day) # {}
         /\ OfReviews(day) = IF front = 1 /\ day[1].kind = "reviews" THEN {1} ELSE {}
<1> DEFINE n == Len(tasks)
<1>1. n \in Nat /\ DOMAIN tasks = 1..n /\ \A k \in 1..n : tasks[k] \in Task
  OBVIOUS
<1>2. \A k \in 1..n : tasks[k].kind = "stage"
  BY <1>1 DEF Task
<1>3. \A k \in 1..n : k + front \in DOMAIN day /\ day[k + front] = tasks[k] /\ k + front \in OfStages(day)
  <2>1. \A k \in 1..n : k + front \in 1..(n + front)
    BY <1>1
  <2> QED BY <1>2, <2>1 DEF OfStages
<1>4. \A k \in DOMAIN day :
        \/ k = 1 /\ front = 1
        \/ k - front \in 1..n /\ day[k] = tasks[k - front] /\ k \in Nat /\ k \in OfStages(day)
  <2> SUFFICES ASSUME NEW k \in 1..(n + front), ~(k = 1 /\ front = 1)
               PROVE  k - front \in 1..n /\ day[k] = tasks[k - front] /\ k \in Nat /\ k \in OfStages(day)
    OBVIOUS
  <2>1. k - front \in 1..n /\ (k - front) + front = k /\ k \in Nat
    BY <1>1
  <2> QED BY <1>3, <2>1
<1>5. \A k \in OfStages(day) : k - front \in 1..n /\ day[k] = tasks[k - front] /\ k \in Nat
  BY <1>4 DEF OfStages
<1> HIDE DEF n
<1>6. \A k \in DOMAIN day : day[k].minutes >= 5 /\ Full(day[k].texts)
  <2>1. \A k \in 1..n : tasks[k].minutes >= 5 /\ Full(tasks[k].texts)
    BY <1>1 DEF InTurn
  <2> QED BY <1>4, <2>1
<1>7. ASSUME NEW k \in OfStages(day), NEW l \in OfStages(day), k < l
      PROVE  day[k].stage < day[l].stage
  <2>1. k - front < l - front
    BY <1>5, <1>7
  <2> QED BY <1>1, <1>5, <2>1 DEF InTurn
<1>8. ASSUME NEW k \in OfStages(day)
      PROVE  /\ day[k].stage \in Open(stages, j)
             /\ \A i \in Open(stages, j) : i < day[k].stage => \E l \in OfStages(day) : day[l].stage = i
  <2>1. k - front \in DOMAIN tasks /\ day[k] = tasks[k - front]
    BY <1>1, <1>5
  <2>2. day[k].stage \in Open(stages, j)
    BY <2>1 DEF InTurn
  <2>3. ASSUME NEW i \in Open(stages, j), i < day[k].stage
        PROVE  \E l \in OfStages(day) : day[l].stage = i
    <3>1. PICK l \in DOMAIN tasks : tasks[l].stage = i
      BY <2>1, <2>3 DEF InTurn
    <3>2. l + front \in OfStages(day) /\ day[l + front] = tasks[l]
      BY <1>1, <1>3
    <3> QED BY <3>1, <3>2
  <2> QED BY <2>2, <2>3
<1>9. ASSUME tasks # <<>> PROVE OfStages(day) # {}
  <2>1. n # 0
    BY <1>9 DEF n
  <2>2. 1 \in 1..n
    BY <1>1, <2>1
  <2> QED BY <1>3, <2>2
<1>10. OfReviews(day) = IF front = 1 /\ day[1].kind = "reviews" THEN {1} ELSE {}
  <2>1. \A k \in OfStages(day) : day[k].kind # "reviews"
    BY DEF OfStages
  <2>2. front = 1 => 1 \in DOMAIN day
    BY <1>1 DEF n
  <2> QED BY <1>4, <2>1, <2>2 DEF OfReviews
<1>11. Ordered(day, Open(stages, j))
  BY <1>6, <1>7, <1>8 DEF Ordered
<1> QED BY <1>9, <1>10, <1>11

(* A day of the learner fits the learner's minutes (build_daily_plan), the *)
(* same for every course, minutes and reviews.                             *)
THEOREM DayFitsMinutes == Spec => []DayFits
<1>1. PlanInv => DayFits
  <2> SUFFICES ASSUME PlanInv, today # NoPlan PROVE DayFits
    BY DEF DayFits
  <2> DEFINE stages == EnrichStages(course.stages)
             minutes == learner.minutes
             split == StageTasks(stages, minutes)
             tasks == split.tasks
             left == split.left
             n == Len(stages)
             open == {i \in DOMAIN course.stages : ~course.stages[i].completed}
             taken == Smaller(Cardinality(open), 3) * Share(minutes)
             with == learner.due /\ left >= 10
  <2>1. minutes \in 10..480 /\ learner.due \in BOOLEAN /\ today = DayPlan(course.stages, learner)
        /\ course.stages \in Seq(Stages(Texts))
    BY ContentAssumption DEF PlanInv, Learners
  <2>2. /\ stages \in Seq(Stages(Texts)) /\ DOMAIN stages = DOMAIN course.stages
        /\ \A i \in DOMAIN stages : HasDetail(stages[i]) /\ stages[i].completed = course.stages[i].completed
    BY <2>1, StagesAreEnriched DEF Keeps
  <2>3. today = IF with THEN <<Review(left)>> \o tasks
                ELSE IF tasks = <<>> THEN <<Setup(minutes)>> ELSE tasks
    <3>1. tasks \in Seq(Task)
      BY <2>1, <2>2, SplitHolds DEF SplitInv
    <3>2. <<Review(left)>> \o tasks # <<>>
      BY <3>1
    <3> QED BY <2>1, <3>2 DEF DayPlan
  <2> HIDE DEF stages
  <2>4. n \in Nat /\ DOMAIN stages = 1..n
    <3> DEFINE S == Stages(Texts)
    <3>1. stages \in Seq(S)
      BY <2>2
    <3> HIDE DEF S
    <3> QED BY <3>1
  <2>5. SplitInv(stages, minutes, split, n)
    BY <2>1, <2>2, SplitHolds
  <2>6. open = Open(stages, n)
    BY <2>2, <2>4 DEF Open
  <2>7. /\ tasks \in Seq(Task) /\ left \in Nat /\ TotalMinutes(tasks) \in Nat
        /\ TotalMinutes(tasks) + left = minutes
        /\ InTurn(stages, tasks, n)
        /\ left >= 5 /\ Len(tasks) < 3 => \A i \in open : \E k \in DOMAIN tasks : tasks[k].stage = i
        /\ left = minutes - taken \/ (left < 5 /\ minutes - taken < 5)
    BY <2>5, <2>6 DEF SplitInv, OpenTo
  <2>8. left >= 10 <=> minutes - taken >= 10
    <3>1. taken \in Int
      <4> DEFINE share == Share(minutes)
                 c == Cardinality(open)
      <4>1. share \in Int
        <5>1. share \in 15..60
          BY <2>1, ShareBounds
        <5> HIDE DEF share
        <5> QED BY <5>1
      <4>2. c \in Nat
        BY <2>4, <2>6, OpenFacts
      <4> HIDE DEF share, c
      <4>3. Smaller(c, 3) * share \in Int
        BY <4>1, <4>2 DEF Smaller
      <4> QED BY <4>3 DEF share, c
    <3> HIDE DEF taken, left
    <3> QED BY <2>1, <2>7, <3>1
  <2>9. tasks = <<>> => open = {} /\ left = minutes
    <3> SUFFICES ASSUME tasks = <<>> PROVE open = {} /\ left = minutes
      OBVIOUS
    <3>1. TotalMinutes(tasks) = 0 /\ Len(tasks) = 0 /\ DOMAIN tasks = {}
      BY NoMinutes
    <3>2. left = minutes /\ left >= 5
      <4> DEFINE total == TotalMinutes(tasks)
      <4>1. total = 0 /\ total + left = minutes /\ left \in Nat /\ minutes \in 10..480
        BY <2>1, <2>7, <3>1
      <4> HIDE DEF total, left, minutes, tasks, split
      <4>2. left = minutes
        BY <4>1
      <4> QED BY <4>1, <4>2
    <3>3. Len(tasks) < 3
      BY <3>1
    <3> QED BY <2>7, <3>1, <3>2, <3>3
  <2> DEFINE Fine ==
        /\ TotalMinutes(today) <= minutes
        /\ Ordered(today, open)
        /\ open # {} => OfStages(today) # {}
        /\ Cardinality(OfReviews(today)) = IF with THEN 1 ELSE 0
  <2>10. /\ left >= 10 => Review(left).minutes >= 5 /\ Review(left).minutes <= left
                          /\ Review(left).minutes \in Nat
         /\ Setup(minutes).minutes >= 5 /\ Setup(minutes).minutes <= minutes
         /\ Setup(minutes).minutes \in Nat
         /\ Review(left).kind = "reviews" /\ Full(Review(left).texts)
         /\ Setup(minutes).kind = "setup" /\ Full(Setup(minutes).texts)
    <3>1. Review(left).minutes = Smaller(left, 20) /\ Setup(minutes).minutes = Smaller(minutes, 20)
          /\ Review(left).kind = "reviews" /\ Setup(minutes).kind = "setup"
          /\ Review(left).texts = Template /\ Setup(minutes).texts = Template
      BY DEF Review, Setup
    <3>2. Full(Template)
      BY DEF Full, Template
    <3> HIDE DEF left, minutes
    <3>3. left \in Nat /\ minutes \in 10..480
      BY <2>1, <2>7
    <3> QED BY <3>1, <3>2, <3>3 DEF Smaller
  <2>13. Cardinality({}) = 0 /\ Cardinality({1}) = 1
    BY FS_EmptySet, FS_Singleton
  <2>14. /\ Len(tasks) \in Nat /\ DOMAIN tasks = 1..Len(tasks)
         /\ \A k \in 1..Len(tasks) : tasks[k].minutes \in Nat
    <3>1. \A k \in 1..Len(tasks) : tasks[k] \in Task
      BY <2>7
    <3> QED BY <2>7, <3>1 DEF Task
  <2> HIDE DEF open, taken, split, minutes, n, left, tasks, with, Fine
  <2>15. ASSUME with PROVE Fine
    <3> DEFINE first == Review(left)
    <3>1. today = <<first>> \o tasks /\ left >= 10
      BY <2>3, <2>15 DEF with
    <3>2. /\ DOMAIN today = 1..(Len(tasks) + 1) /\ today[1] = first
          /\ \A k \in 1..Len(tasks) : today[k + 1] = tasks[k]
      BY <2>7, <3>1
    <3>3. TotalMinutes(today) = first.minutes + TotalMinutes(tasks)
      <4> DEFINE m == Len(tasks)
      <4>1. /\ m \in Nat /\ DOMAIN tasks = 1..m /\ DOMAIN today = 1..(m + 1)
            /\ \A k \in 1..m : today[k + 1] = tasks[k] /\ tasks[k].minutes \in Int
            /\ today[1].minutes \in Int /\ today[1].minutes = first.minutes
        BY <2>10, <2>14, <3>1, <3>2
      <4> HIDE DEF m, first
      <4> QED BY <4>1, MinutesPrepended
    <3>4. TotalMinutes(today) <= minutes
      <4> DEFINE total == TotalMinutes(tasks)
                 mine == first.minutes
      <4>1. /\ total \in Nat /\ mine \in Nat /\ left \in Nat /\ mine <= left
            /\ total + left = minutes /\ TotalMinutes(today) = mine + total
        BY <2>7, <2>10, <3>1, <3>3
      <4> HIDE DEF total, mine
      <4> QED BY <4>1
    <3>5. first.kind = "reviews" /\ first.minutes >= 5 /\ Full(first.texts)
      BY <2>10, <3>1
    <3> HIDE DEF first
    <3>6. /\ Ordered(today, Open(stages, n)) /\ (tasks # <<>> => OfStages(today) # {})
          /\ OfReviews(today) = {1}
      <4>1. /\ n \in Nat /\ tasks \in Seq(Task) /\ InTurn(stages, tasks, n) /\ 1 \in {0, 1}
            /\ today[1].kind = "reviews" /\ "reviews" # "stage" /\ today[1].minutes >= 5
            /\ Full(today[1].texts)
        BY <2>4, <2>7, <3>2, <3>5
      <4> QED BY <3>2, <4>1, DayInTurn
    <3> QED BY <2>6, <2>9, <2>13, <2>15, <3>4, <3>6, Zenon DEF Fine
  <2>16. ASSUME ~with, tasks = <<>> PROVE Fine
    <3> DEFINE first == Setup(minutes)
    <3>1. today = <<first>> /\ open = {}
      BY <2>3, <2>9, <2>16
    <3>2. first.kind = "setup" /\ first.minutes >= 5 /\ first.minutes <= minutes
          /\ first.minutes \in Nat /\ Full(first.texts)
      BY <2>10
    <3>3. Len(tasks) = 0 /\ DOMAIN today = 1..(0 + 1) /\ today[1] = first /\ DOMAIN tasks = 1..0
      BY <2>16, <3>1
    <3> HIDE DEF first
    <3>4. TotalMinutes(today) <= minutes
      <4>1. /\ 0 \in Nat /\ \A k \in 1..0 : today[k + 1] = tasks[k] /\ tasks[k].minutes \in Int
            /\ today[1].minutes \in Int
        BY <3>2, <3>3
      <4>2. TotalMinutes(today) = today[1].minutes + TotalMinutes(tasks)
        BY <3>3, <4>1, MinutesPrepended
      <4>3. TotalMinutes(tasks) = 0
        BY <2>16, NoMinutes
      <4>4. TotalMinutes(today) = first.minutes
        BY <3>2, <3>3, <4>2, <4>3
      <4> QED BY <3>2, <4>4
    <3>5. Ordered(today, Open(stages, n)) /\ OfReviews(today) = {}
      <4>1. /\ n \in Nat /\ tasks \in Seq(Task) /\ InTurn(stages, tasks, n) /\ 1 \in {0, 1}
            /\ today[1].kind = "setup" /\ "setup" # "stage" /\ "setup" # "reviews"
            /\ today[1].minutes >= 5 /\ Full(today[1].texts)
            /\ DOMAIN today = 1..(Len(tasks) + 1)
            /\ \A k \in 1..Len(tasks) : today[k + 1] = tasks[k]
        BY <2>4, <2>7, <3>2, <3>3
      <4> QED BY <4>1, DayInTurn
    <3> QED BY <2>6, <2>13, <2>16, <3>1, <3>4, <3>5, Zenon DEF Fine
  <2>17. ASSUME ~with, tasks # <<>> PROVE Fine
    <3>1. today = tasks
      BY <2>3, <2>17
    <3>2. /\ Ordered(today, Open(stages, n)) /\ OfStages(today) # {}
          /\ OfReviews(today) = {}
      <4>1. /\ n \in Nat /\ tasks \in Seq(Task) /\ InTurn(stages, tasks, n) /\ 0 \in {0, 1} /\ 0 # 1
            /\ DOMAIN today = 1..(Len(tasks) + 0)
            /\ \A k \in 1..Len(tasks) : today[k + 0] = tasks[k]
        BY <2>4, <2>7, <2>14, <3>1
      <4> QED BY <2>17, <4>1, DayInTurn
    <3>3. TotalMinutes(today) <= minutes
      <4> DEFINE total == TotalMinutes(tasks)
      <4>1. total \in Nat /\ left \in Nat /\ total + left = minutes /\ TotalMinutes(today) = total
        BY <2>7, <3>1
      <4> HIDE DEF total
      <4> QED BY <4>1
    <3> QED BY <2>6, <2>13, <2>17, <3>2, <3>3, Zenon DEF Fine
  <2> HIDE DEF Fine
  <2>11. Fine
    BY <2>15, <2>16, <2>17, Zenon
  <2>12. Cardinality(OfReviews(today)) = IF learner.due /\ minutes - taken >= 10 THEN 1 ELSE 0
    BY <2>8, <2>11 DEF Fine, with
  <2> QED BY <2>11, <2>12, Zenon DEF DayFits, Fine, Ordered, OfStages, OfReviews, open, taken, minutes
<1> QED BY <1>1, PlanInvariant, PTL
=============================================================================
