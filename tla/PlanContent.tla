----------------------------- MODULE PlanContent -----------------------------
(***************************************************************************)
(* What becomes of the content of a course: the model answers with a plan  *)
(* (agent/service.py _run_planning_flow), gaps are filled from a template  *)
(* (learning/content.py), the proposal is revised or approved              *)
(* (learning/tools.py apply_approved_tool), and the approval splits the    *)
(* learner's minutes over the first stages (learning/daily.py).            *)
(*                                                                         *)
(* A text is what it came from: nothing, the model, or the template.  A    *)
(* lesson has three of its six texts here, explanation, example and        *)
(* expected output go the way of the exercise.                             *)
(*                                                                         *)
(* A definition marked "fault" is a plausible slip in the one that follows *)
(* it; no action uses it, it serves to see that a property notices.        *)
(***************************************************************************)
EXTENDS Integers, Sequences, FiniteSets, SequencesExt

CONSTANTS
  Answers,    (* sequences of stages the model may answer with             *)
  Minutes,    (* daily_minutes the learner may have                        *)
  NoPlan,     (* nothing is proposed, no plan of today                     *)
  Malformed,  (* an answer that is no plan, or no answer                   *)
  MaxVersions (* bound: approvals                                          *)

Texts == {"", "model", "template"}
Fields == {"concepts", "exercise", "criteria"}
StageTexts == {"key_concepts", "criteria", "practice"}

Stages(texts) ==
  [key_concepts : texts, criteria : texts, practice : texts, lessons : Seq([Fields -> texts]),
   status : {"needs_enrichment", "fallback", "complete"}, completed : BOOLEAN]

(* CoursePlan and its parts validate: texts of the model, minutes between  *)
(* 10 and 480 (LearnerProfile).                                            *)
ASSUME ContentAssumption ==
  /\ \A answer \in Answers : answer # <<>> /\ answer \in Seq(Stages({"", "model"}))
  /\ Minutes \subseteq 10..480
  /\ Malformed \notin Answers
  /\ MaxVersions \in Nat

VARIABLES
  proposal,  (* stages and source of the plan that awaits approval         *)
  course,    (* course.json: version, stages, source                       *)
  today,     (* the tasks in the order of today's plan                     *)
  learner,   (* minutes and due reviews when today's plan was made         *)
  draft,     (* history: the answer the proposal was made of               *)
  basis      (* history: the answer the course was made of                 *)

vars == <<proposal, course, today, learner, draft, basis>>

-----------------------------------------------------------------------------
(* Enrichment.                                                             *)

Or(text, other) == IF text = "" THEN other ELSE text
Full(lesson) == \A f \in Fields : lesson[f] # ""

HasDetail(stage) ==
  /\ \A f \in StageTexts : stage[f] # ""
  /\ stage.lessons # <<>>
  /\ \A i \in DOMAIN stage.lessons : Full(stage.lessons[i])

TemplateLesson(stage) ==
  [f \in Fields |-> IF f = "concepts" THEN Or(stage.key_concepts, "template") ELSE "template"]

(* Fault: a lesson of the model is replaced, not completed.                *)
ReplacesLesson(stage) == TemplateLesson(stage)

(* The first lesson, completed; the others are dropped.                    *)
FilledLesson(stage) ==
  IF stage.lessons = <<>> THEN TemplateLesson(stage)
  ELSE [f \in Fields |-> Or(Head(stage.lessons)[f], TemplateLesson(stage)[f])]

EnrichStage(stage) ==
  IF HasDetail(stage) THEN [stage EXCEPT !.status = "complete"]
  ELSE LET lesson == FilledLesson(stage) IN
       [stage EXCEPT !.key_concepts = Or(@, "template"),
                     !.lessons = <<lesson>>,
                     !.criteria = Or(@, lesson.criteria),
                     !.practice = Or(@, lesson.exercise),
                     !.status = "fallback"]

EnrichStages(stages) == [i \in DOMAIN stages |-> EnrichStage(stages[i])]

(* Fault: one complete stage makes the plan the model's.                   *)
AnyDetail(stages) == IF \E i \in DOMAIN stages : HasDetail(stages[i]) THEN "model" ELSE "fallback"

SourceOf(stages) == IF \A i \in DOMAIN stages : HasDetail(stages[i]) THEN "model" ELSE "fallback"

(* fallback_course_plan: five stages that have their concepts only,        *)
(* enriched at once.                                                       *)
FallbackStages ==
  EnrichStages([i \in 1..5 |->
    [key_concepts |-> "template", criteria |-> "", practice |-> "", lessons |-> <<>>,
     status |-> "needs_enrichment", completed |-> FALSE]])

(* What the planning flow proposes for an answer.                          *)
ProposalFor(answer) ==
  IF answer = Malformed
  THEN [stages |-> EnrichStages(FallbackStages), source |-> "fallback"]
  ELSE [stages |-> EnrichStages(answer), source |-> SourceOf(answer)]

-----------------------------------------------------------------------------
(* The plan of the day: half of the minutes, between 15 and 60, for each   *)
(* of at most three open stages, then the reviews with what is left.       *)

Smaller(a, b) == IF a < b THEN a ELSE b
Larger(a, b) == IF a > b THEN a ELSE b
Share(minutes) == Larger(15, Smaller(60, minutes \div 2))

(* Fault: every stage takes its share, also of the last minutes.           *)
TakesShare(left, minutes) == Share(minutes)

MinutesFor(left, minutes) == Smaller(left, Share(minutes))

StageTask(i, stage, minutes) ==
  LET lesson == Head(stage.lessons) IN
  [kind |-> "stage", stage |-> i, minutes |-> minutes,
   texts |-> [lesson EXCEPT !.concepts = Or(@, stage.key_concepts), !.criteria = Or(@, stage.criteria)]]

(* Once around the loop over the stages.                                   *)
AddTask(stages, minutes, acc, i) ==
  IF stages[i].completed \/ acc.left < 5 \/ Len(acc.tasks) = 3 THEN acc
  ELSE LET mine == MinutesFor(acc.left, minutes) IN
       [tasks |-> Append(acc.tasks, StageTask(i, stages[i], mine)), left |-> acc.left - mine]

StageTasks(stages, minutes) ==
  FoldLeft(LAMBDA acc, i : AddTask(stages, minutes, acc, i),
           [tasks |-> <<>>, left |-> minutes], [i \in DOMAIN stages |-> i])

Template == [f \in Fields |-> "template"]
Review(left) == [kind |-> "reviews", stage |-> 0, minutes |-> Smaller(left, 20), texts |-> Template]
Setup(minutes) == [kind |-> "setup", stage |-> 0, minutes |-> Smaller(minutes, 20), texts |-> Template]

(* The course is enriched once more before it is split, in memory.         *)
DayPlan(stages, who) ==
  LET split == StageTasks(EnrichStages(stages), who.minutes)
      tasks == IF who.due /\ split.left >= 10 THEN <<Review(split.left)>> \o split.tasks
               ELSE split.tasks
  IN IF tasks = <<>> THEN <<Setup(who.minutes)>> ELSE tasks

-----------------------------------------------------------------------------
Learners == [minutes : Minutes, due : BOOLEAN]

Init ==
  /\ proposal = NoPlan
  /\ course = [version |-> 1, stages |-> <<>>, source |-> "legacy"]
  /\ today = NoPlan
  /\ learner \in Learners
  /\ draft = Malformed /\ basis = Malformed

(* A planning turn, a checkpoint, or the revision of what is proposed.     *)
Propose(answer) ==
  /\ proposal' = ProposalFor(answer)
  /\ draft' = answer
  /\ UNCHANGED <<course, today, learner, basis>>

Dismiss ==
  /\ proposal # NoPlan
  /\ proposal' = NoPlan
  /\ UNCHANGED <<course, today, learner, draft, basis>>

(* The learner's profile and cards change meanwhile, so the day's minutes  *)
(* are an input.                                                           *)
Approve(who) ==
  /\ proposal # NoPlan
  /\ course.version <= MaxVersions
  /\ course' = [version |-> course.version + 1,
                stages |-> EnrichStages(proposal.stages),
                source |-> SourceOf(proposal.stages)]
  /\ today' = DayPlan(course'.stages, who)
  /\ learner' = who
  /\ basis' = draft
  /\ proposal' = NoPlan
  /\ UNCHANGED draft

(* The plan of a day before there is a course, or of a later day.          *)
PlanDay(who) ==
  /\ today' = DayPlan(course.stages, who)
  /\ learner' = who
  /\ UNCHANGED <<proposal, course, draft, basis>>

Next ==
  \/ \E answer \in Answers \cup {Malformed} : Propose(answer)
  \/ Dismiss
  \/ \E who \in Learners : Approve(who) \/ PlanDay(who)

Spec == Init /\ [][Next]_vars

-----------------------------------------------------------------------------
(* Properties.                                                             *)

(* docs/api.md: a lesson has its concepts, exercise and criteria, and what *)
(* the model gave is kept.  Every stage proposed or approved is complete;  *)
(* a text of the model in a stage or in its first lesson survives both     *)
(* enrichments, the further lessons only of a stage that was complete.     *)
Keeps(given, got) ==
  /\ HasDetail(got)
  /\ \A f \in StageTexts : given[f] # "" => got[f] = given[f]
  /\ given.lessons # <<>> => \A f \in Fields :
       Head(given.lessons)[f] # "" => Head(got.lessons)[f] = Head(given.lessons)[f]
  /\ HasDetail(given) => got.lessons = given.lessons

KeepsAll(answer, stages) ==
  IF answer = Malformed THEN \A i \in DOMAIN stages : HasDetail(stages[i])
  ELSE DOMAIN stages = DOMAIN answer /\ \A i \in DOMAIN stages : Keeps(answer[i], stages[i])

ContentKeptAndCompleted ==
  /\ proposal # NoPlan => KeepsAll(draft, proposal.stages)
  /\ course.version > 1 => KeepsAll(basis, course.stages)

(* What the learner approves says where it comes from: a proposal with any *)
(* text of the template says fallback, and one that says model has the     *)
(* texts and lessons of the model's answer, all and no others.             *)
HasTemplate(stages) ==
  \E i \in DOMAIN stages :
    \/ \E f \in StageTexts : stages[i][f] = "template"
    \/ \E j \in DOMAIN stages[i].lessons, f \in Fields : stages[i].lessons[j][f] = "template"

ProposalTellsSource ==
  proposal # NoPlan =>
    /\ HasTemplate(proposal.stages) => proposal.source = "fallback"
    /\ proposal.source = "model" =>
         proposal.stages = [i \in DOMAIN draft |-> [draft[i] EXCEPT !.status = "complete"]]

TotalMinutes(tasks) == FoldLeft(LAMBDA sum, task : sum + task.minutes, 0, tasks)

(* A day's tasks fit the learner's minutes, none is too short to store,    *)
(* its stages are the first open ones in their order and have something to *)
(* do; and due reviews have a task exactly when the shares of at most      *)
(* three open stages leave ten minutes (so with two open stages, under 130 *)
(* minutes, never).                                                        *)
DayFits ==
  today # NoPlan =>
    LET open == {i \in DOMAIN course.stages : ~course.stages[i].completed}
        stages == {k \in DOMAIN today : today[k].kind = "stage"}
        reviews == {k \in DOMAIN today : today[k].kind = "reviews"}
    IN /\ TotalMinutes(today) <= learner.minutes
       /\ \A k \in DOMAIN today : today[k].minutes >= 5 /\ Full(today[k].texts)
       /\ \A k, l \in stages : k < l => today[k].stage < today[l].stage
       /\ \A k \in stages :
            /\ today[k].stage \in open
            /\ \A i \in open : i < today[k].stage => \E l \in stages : today[l].stage = i
       /\ open # {} => stages # {}
       /\ Cardinality(reviews) =
            IF /\ learner.due
               /\ learner.minutes - Smaller(Cardinality(open), 3) * Share(learner.minutes) >= 10
            THEN 1 ELSE 0

(* docs/api.md: what the template filled is marked in content_source.  It  *)
(* fails in the saved course: see the README.                              *)
TemplateContentMarked == HasTemplate(course.stages) => course.source = "fallback"
=============================================================================
