-------------------------- MODULE DailyPlans_proofs --------------------------
(***************************************************************************)
(* Proofs about today's plan, for every course, every drift of the model,  *)
(* any number of generations and every bound.  The inductive invariant     *)
(* says which writes a handler may have before it, and what the row it is  *)
(* going to save already promises; and that a generation no later write    *)
(* made stale began under the present course and, unless forced, before    *)
(* the learner finished anything.  A generation of the CLI may save below  *)
(* a handler, but then it is stale (CliInv), so that everything the plan   *)
(* promises is waived.                                                     *)
(***************************************************************************)
EXTENDS DailyPlans, SequenceTheorems, TLAPS

Plans == UNION {[T -> Rows] : T \in SUBSET Tasks}
GenRecs == [on : BOOLEAN, base : Plans, force : BOOLEAN, stale : BOOLEAN]
CourseRecs ==
  [version : 0..MaxCourses, stages : SUBSET Stages, done : SUBSET Stages]

DataInv ==
  /\ course \in CourseRecs
  /\ course.done \subseteq course.stages
  /\ saved \in BOOLEAN
  /\ plan \in Plans
  /\ ~saved => DOMAIN plan = {}
  /\ gens \in [Generators -> GenRecs]
  /\ finished \in SUBSET Tasks
  /\ cut \in SUBSET Tasks
  /\ overtaken \in BOOLEAN
  /\ torn \in BOOLEAN
  /\ forced \in 0..MaxForced
  /\ crashes \in 0..MaxCrashes

-----------------------------------------------------------------------------
(* The statements a handler may have before it.                            *)
PlanOf(row, done) == [do |-> "plan", tasks |-> row, done |-> done]
LearnOf(t, done) == [do |-> "learn", task |-> t, done |-> done]
MarkOf(S, asked) == [do |-> "mark", stages |-> S, asked |-> asked]
CourseOf(c) == [do |-> "course", course |-> c]

(* A row shows what is finished, and is about a course.                    *)
Keeps(row, done) ==
  ~overtaken => \A t \in done \ cut : t \in DOMAIN row /\ row[t].status = "completed"
Follows(row, c) == ~overtaken => DOMAIN row \cap Stages \subseteq c.stages
Whole == Keeps(plan, finished) /\ Follows(plan, course)
Present(done) == ~overtaken => done \ cut \subseteq DOMAIN plan

AllStale == \A g \in Generators : gens[g].on => gens[g].stale

Rest == todo = <<>> /\ Whole

Saving ==
  \E row \in Plans, done \in SUBSET Tasks :
    /\ Keeps(row, done) /\ Follows(row, course)
    /\ Present(finished)
    /\ AllStale
    /\ \/ todo = <<PlanOf(row, done)>>
       \/ /\ StageTasksDone(row)
          /\ \E S \in SUBSET course.stages : todo = <<PlanOf(row, done), MarkOf(S, FALSE)>>

Learning ==
  \E row \in Plans, done \in SUBSET Tasks, t \in Tasks :
    /\ Keeps(row, done) /\ Follows(row, course)
    /\ Whole
    /\ Present(done)
    /\ AllStale
    /\ \/ todo = <<LearnOf(t, done), PlanOf(row, done)>>
       \/ /\ StageTasksDone(row)
          /\ \E S \in SUBSET course.stages :
               todo = <<LearnOf(t, done), PlanOf(row, done), MarkOf(S, FALSE)>>

Asked ==
  /\ Whole
  /\ \E S \in SUBSET course.stages :
       \/ todo = <<MarkOf(S, TRUE)>>
       \/ /\ AllStale
          /\ \E row \in Plans, done \in SUBSET Tasks :
               /\ Keeps(row, done) /\ Follows(row, course)
               /\ todo = <<MarkOf(S, TRUE), PlanOf(row, done)>>

Earned ==
  /\ Whole
  /\ StageTasksDone(plan) \/ torn
  /\ \E S \in SUBSET course.stages : todo = <<MarkOf(S, FALSE)>>

Replacing ==
  /\ Whole
  /\ AllStale
  /\ \E c \in CourseRecs :
       /\ c.version = course.version + 1
       /\ c.done \subseteq c.stages
       /\ \/ overtaken /\ todo = <<CourseOf(c)>>
          \/ \E row \in Plans :
               /\ Follows(row, c)
               /\ todo = <<CourseOf(c), PlanOf(row, {})>>

WorkInv == Rest \/ Saving \/ Learning \/ Asked \/ Earned \/ Replacing

FreshInv ==
  \A g \in Generators :
    gens[g].on /\ ~gens[g].stale =>
      /\ DOMAIN gens[g].base \cap Stages \subseteq course.stages
      /\ ~gens[g].force /\ ~overtaken => finished \ cut = {}

CliInv == todo # <<>> => \A g \in Cli : gens[g].on => gens[g].stale

IInv == DataInv /\ WorkInv /\ FreshInv /\ CliInv

LEMMA CliGenerates == \A g \in Cli : g \in Generators
  BY CliAssumption

-----------------------------------------------------------------------------
(* Sequences of at most three writes, put together.                        *)
LEMMA Joins ==
  ASSUME NEW a, NEW b, NEW c
  PROVE  /\ <<>> \o <<>> = <<>>
         /\ <<a>> \o <<>> = <<a>>
         /\ <<>> \o <<a>> = <<a>>
         /\ <<a>> \o <<b>> = <<a, b>>
         /\ <<a, b>> \o <<>> = <<a, b>>
         /\ <<a, b>> \o <<c>> = <<a, b, c>>
  <1>1. <<>> \o <<>> = <<>>
    OBVIOUS
  <1>2. <<a>> \o <<>> = <<a>>
    OBVIOUS
  <1>3. <<>> \o <<a>> = <<a>>
    OBVIOUS
  <1> DEFINE S == {a, b, c}
  <1>a. <<a>> \in Seq(S) /\ <<b>> \in Seq(S) /\ <<c>> \in Seq(S) /\ <<a, b>> \in Seq(S)
    OBVIOUS
  <1>b. <<a, b, c>> \in Seq(S)
    OBVIOUS
  <1>4. <<a>> \o <<b>> = <<a, b>>
    <2>1. /\ <<a>> \o <<b>> \in Seq(S)
          /\ Len(<<a>> \o <<b>>) = 2
          /\ (<<a>> \o <<b>>)[1] = a
          /\ (<<a>> \o <<b>>)[2] = b
      BY <1>a, ConcatProperties
    <2>2. \A i \in 1..2 : (<<a>> \o <<b>>)[i] = <<a, b>>[i]
      BY <2>1
    <2>3. QED
      BY <1>a, <2>1, <2>2, SeqEqual
  <1>5. <<a, b>> \o <<>> = <<a, b>>
    OBVIOUS
  <1>6. <<a, b>> \o <<c>> = <<a, b, c>>
    <2>1. /\ <<a, b>> \o <<c>> \in Seq(S)
          /\ Len(<<a, b>> \o <<c>>) = 3
          /\ (<<a, b>> \o <<c>>)[1] = a
          /\ (<<a, b>> \o <<c>>)[2] = b
          /\ (<<a, b>> \o <<c>>)[3] = c
      BY <1>a, ConcatProperties
    <2>2. \A i \in 1..3 : (<<a, b>> \o <<c>>)[i] = <<a, b, c>>[i]
      BY <2>1
    <2>3. QED
      BY <1>b, <2>1, <2>2, SeqEqual
  <1>7. QED
    BY <1>1, <1>2, <1>3, <1>4, <1>5, <1>6

LEMMA PairParts ==
  ASSUME NEW a, NEW b, NEW s, s = <<a, b>>
  PROVE  s # <<>> /\ Head(s) = a /\ Tail(s) = <<b>>
  OBVIOUS

LEMMA TripleParts ==
  ASSUME NEW a, NEW b, NEW c, NEW s, s = <<a, b, c>>
  PROVE  s # <<>> /\ Head(s) = a /\ Tail(s) = <<b, c>>
  OBVIOUS

LEMMA MarksOrNone ==
  ASSUME NEW S, NEW asked
  PROVE  MarkAll(S, asked) \in {<<>>, <<MarkOf(S, asked)>>}
  BY DEF MarkAll, MarkOf

(* The plan computed from a course is a plan, about that course.           *)
LEMMA BaseIsPlan ==
  ASSUME NEW c \in CourseRecs, NEW due \in BOOLEAN
  PROVE  /\ Base(c, due) \in Plans
         /\ DOMAIN Base(c, due) \cap Stages \subseteq c.stages
  <1>1. DOMAIN Base(c, due) = BaseTasks(c, due)
    BY DEF Base
  <1>2. BaseTasks(c, due) \in SUBSET Tasks /\ BaseTasks(c, due) \cap Stages \subseteq c.stages
    <2>1. /\ c.stages \subseteq Stages
          /\ {"reviews", "setup"} \cap Stages = {}
      BY StagesAssumption DEF CourseRecs, Others
    <2> DEFINE open == c.stages \ c.done
               first == {s \in open : Cardinality({u \in open : Position(u) < Position(s)}) < PerDay}
               chosen == first \cup (IF due THEN {"reviews"} ELSE {})
    <2>2. first \subseteq c.stages
      OBVIOUS
    <2>3. BaseTasks(c, due) = (IF chosen = {} THEN {"setup"} ELSE chosen)
      BY DEF BaseTasks
    <2> HIDE DEF first
    <2>4. QED
      BY <2>1, <2>2, <2>3 DEF Tasks, Others
  <1>3. \A t \in BaseTasks(c, due) : [status |-> "open", stage |-> StageOf(t)] \in Rows
    BY DEF StageOf, Rows
  <1>4. Base(c, due) \in [BaseTasks(c, due) -> Rows]
    BY <1>3 DEF Base
  <1>5. QED
    BY <1>1, <1>2, <1>4 DEF Plans

LEMMA PlanIsFunction ==
  ASSUME NEW row \in Plans
  PROVE  /\ DOMAIN row \in SUBSET Tasks
         /\ row \in [DOMAIN row -> Rows]
  BY DEF Plans

LEMMA NoPlan == NoTasks \in Plans /\ DOMAIN NoTasks = {}
  <1>1. NoTasks \in [{} -> Rows] /\ DOMAIN NoTasks = {}
    BY DEF NoTasks
  <1>2. QED
    BY <1>1 DEF Plans

LEMMA RestingIsGen == Resting \in GenRecs /\ ~Resting.on
  BY NoPlan DEF Resting, GenRecs

LEMMA AwaitsIsGen ==
  ASSUME NEW base \in Plans, NEW force \in BOOLEAN, NEW stale \in BOOLEAN
  PROVE  /\ Awaits(base, force, stale) \in GenRecs
         /\ Awaits(base, force, stale).base = base
         /\ Awaits(base, force, stale).force = force
         /\ Awaits(base, force, stale).stale = stale
  BY DEF Awaits, GenRecs

(* What a write of the learner does to the generations.                    *)
LEMMA OutdatedStale ==
  ASSUME gens \in [Generators -> GenRecs]
  PROVE  /\ Outdated \in [Generators -> GenRecs]
         /\ \A g \in Generators : Outdated[g].on => Outdated[g].stale
  <1>1. \A g \in Generators : [gens[g] EXCEPT !.stale = gens[g].on] \in GenRecs
    BY DEF GenRecs
  <1>2. \A g \in Generators :
          LET new == [gens[g] EXCEPT !.stale = gens[g].on] IN new.on => new.stale
    BY DEF GenRecs
  <1>3. QED
    BY <1>1, <1>2 DEF Outdated

-----------------------------------------------------------------------------
LEMMA InitIInv == Init => IInv
  <1> SUFFICES ASSUME Init PROVE IInv
    OBVIOUS
  <1>1. course \in CourseRecs /\ course.done \subseteq course.stages
    <2>1. PICK c \in Courses : course = Course(0, c)
      BY DEF Init
    <2>2. 0 \in 0..MaxCourses
      BY BoundsAssumption
    <2>3. QED
      BY <2>1, <2>2, StagesAssumption DEF Course, CourseRecs
  <1>2. gens \in [Generators -> GenRecs] /\ \A g \in Generators : ~gens[g].on
    BY RestingIsGen DEF Init
  <1>3. forced \in 0..MaxForced /\ crashes \in 0..MaxCrashes
    BY BoundsAssumption DEF Init
  <1>4. DataInv
    BY <1>1, <1>2, <1>3, NoPlan DEF Init, DataInv
  <1>5. WorkInv
    BY NoPlan DEF Init, WorkInv, Rest, Whole, Keeps, Follows
  <1>6. FreshInv
    BY <1>2 DEF FreshInv
  <1>7. CliInv
    BY DEF Init, CliInv
  <1>8. QED
    BY <1>4, <1>5, <1>6, <1>7 DEF IInv

LEMMA RestWhenFree == WorkInv /\ LoopFree => Whole /\ todo = <<>>
  BY DEF WorkInv, LoopFree, Rest, Saving, Learning, Asked, Earned, Replacing

-----------------------------------------------------------------------------
(* The learner: what a write of a web route has in common.                 *)
LEMMA LearnerFrame ==
  ASSUME IInv, LoopFree, gens' = Outdated,
         UNCHANGED <<course, saved, plan, history, bounds>>
  PROVE  DataInv' /\ FreshInv' /\ AllStale' /\ Whole' /\ Present(finished)' /\ CliInv'
  <1>1. DataInv' /\ AllStale'
    BY OutdatedStale DEF IInv, DataInv, AllStale, history, bounds
  <1>2. FreshInv'
    BY <1>1 DEF FreshInv, AllStale
  <1>3. Whole' /\ Present(finished)'
    <2>1. Whole
      BY RestWhenFree DEF IInv
    <2>2. QED
      BY <2>1 DEF Whole, Keeps, Follows, Present, history
  <1>4. CliInv'
    BY <1>1, CliGenerates DEF AllStale, CliInv
  <1>5. QED
    BY <1>1, <1>2, <1>3, <1>4

(* A plan with the status of one task changed.                             *)
LEMMA WithIsPlan ==
  ASSUME plan \in Plans, NEW t \in DOMAIN plan, NEW status \in {"open", "completed"}
  PROVE  /\ With(t, status) \in Plans
         /\ DOMAIN With(t, status) = DOMAIN plan
         /\ With(t, status)[t].status = status
         /\ \A u \in DOMAIN plan \ {t} : With(t, status)[u] = plan[u]
  <1>1. DOMAIN plan \in SUBSET Tasks /\ plan \in [DOMAIN plan -> Rows]
    BY PlanIsFunction
  <1>2. [plan[t] EXCEPT !.status = status] \in Rows
    BY <1>1 DEF Rows
  <1>3. [plan[t] EXCEPT !.status = status].status = status
    BY <1>1 DEF Rows
  <1>4. With(t, status) = [plan EXCEPT ![t] = [plan[t] EXCEPT !.status = status]]
    BY DEF With
  <1>5. With(t, status) \in [DOMAIN plan -> Rows]
    BY <1>1, <1>2, <1>4
  <1>6. QED
    BY <1>1, <1>3, <1>4, <1>5 DEF Plans

(* The stages marked after a plan was saved.                               *)
LEMMA MarksOfShape ==
  ASSUME NEW row
  PROVE  \/ MarksOf(row) = <<>>
         \/ /\ StageTasksDone(row)
            /\ \E S \in SUBSET course.stages : MarksOf(row) = <<MarkOf(S, FALSE)>>
  <1> DEFINE S == StagesIn(row) \cap course.stages
  <1>1. CASE StageTasksDone(row)
    <2>1. MarksOf(row) = MarkAll(S, FALSE)
      BY <1>1 DEF MarksOf, Marks
    <2> HIDE DEF S
    <2>2. MarkAll(S, FALSE) \in {<<>>, <<MarkOf(S, FALSE)>>}
      BY MarksOrNone
    <2>3. S \in SUBSET course.stages
      BY DEF S
    <2>4. QED
      BY <1>1, <2>1, <2>2, <2>3
  <1>2. CASE ~StageTasksDone(row)
    BY <1>2 DEF MarksOf
  <1>3. QED
    BY <1>1, <1>2

LEMMA StartTaskKeeps ==
  ASSUME IInv, NEW t \in Tasks, StartTask(t)
  PROVE  IInv'
  <1>1. DataInv' /\ FreshInv' /\ AllStale' /\ Whole' /\ Present(finished)' /\ CliInv'
    BY LearnerFrame DEF StartTask
  <1>2. Saving'
    <2>1. plan \in Plans /\ finished \in SUBSET Tasks
      BY DEF IInv, DataInv
    <2>2. UNCHANGED <<course, plan, finished, cut, overtaken>>
      BY DEF StartTask, history
    <2>3. todo' = <<PlanOf(plan, finished)>>
      BY DEF StartTask, SavesPlan, PlanOf
    <2>4. Keeps(plan, finished)' /\ Follows(plan, course)'
      BY <1>1 DEF Whole
    <2>5. QED
      BY <1>1, <2>1, <2>2, <2>3, <2>4 DEF Saving, PlanOf
  <1>3. QED
    BY <1>1, <1>2 DEF IInv, WorkInv

(* The row and the tasks done after a report of one task.                  *)
LEMMA ReportedRow ==
  ASSUME IInv, LoopFree, NEW t \in DOMAIN plan,
         NEW status \in {"open", "completed"}, NEW done \in SUBSET Tasks,
         done \subseteq finished \cup {t},
         t \in done => status = "completed"
  PROVE  /\ With(t, status) \in Plans
         /\ Keeps(With(t, status), done)
         /\ Follows(With(t, status), course)
         /\ Present(done)
  <1>1. Whole
    BY RestWhenFree DEF IInv
  <1>2. plan \in Plans
    BY DEF IInv, DataInv
  <1>3. QED
    BY <1>1, <1>2, WithIsPlan DEF Whole, Keeps, Follows, Present

LEMMA CompleteTaskKeeps ==
  ASSUME IInv, NEW t \in Tasks, CompleteTask(t)
  PROVE  IInv'
  <1>1. DataInv' /\ FreshInv' /\ AllStale' /\ Whole' /\ Present(finished)' /\ CliInv'
    BY LearnerFrame DEF CompleteTask
  <1>2. PICK row : row = With(t, "completed")
    OBVIOUS
  <1>3. PICK done \in SUBSET Tasks : done = finished \cup {t}
    BY DEF IInv, DataInv
  <1>4. row \in Plans /\ Keeps(row, done) /\ Follows(row, course)
    BY <1>2, <1>3, ReportedRow DEF CompleteTask
  <1>5. Keeps(row, done)' /\ Follows(row, course)'
    BY <1>4 DEF CompleteTask, history, Keeps, Follows
  <1>6. todo' = <<PlanOf(row, done)>> \o MarksOf(row)
    BY <1>2, <1>3 DEF CompleteTask, SavesPlan, PlanOf
  <1>7. Saving'
    <2>1. CASE MarksOf(row) = <<>>
      <3>1. todo' = <<PlanOf(row, done)>>
        BY <1>6, <2>1, Joins
      <3>2. QED
        BY <1>1, <1>4, <1>5, <3>1 DEF Saving, PlanOf
    <2>2. CASE /\ StageTasksDone(row)
               /\ \E S \in SUBSET course.stages : MarksOf(row) = <<MarkOf(S, FALSE)>>
      <3>1. PICK S \in SUBSET course.stages : MarksOf(row) = <<MarkOf(S, FALSE)>>
        BY <2>2
      <3>2. todo' = <<PlanOf(row, done), MarkOf(S, FALSE)>>
        BY <1>6, <3>1, Joins
      <3>3. course' = course
        BY DEF CompleteTask
      <3>4. QED
        BY <1>1, <1>4, <1>5, <2>2, <3>2, <3>3 DEF Saving, PlanOf, MarkOf, StageTasksDone
    <2>3. QED
      BY <2>1, <2>2, MarksOfShape
  <1>8. QED
    BY <1>1, <1>7 DEF IInv, WorkInv

LEMMA RecordResultKeeps ==
  ASSUME IInv, NEW t \in Tasks, NEW completed \in BOOLEAN, RecordResult(t, completed)
  PROVE  IInv'
  <1>1. DataInv' /\ FreshInv' /\ AllStale' /\ Whole' /\ Present(finished)' /\ CliInv'
    BY LearnerFrame DEF RecordResult
  <1>2. PICK status \in {"open", "completed"} :
           status = (IF completed THEN "completed" ELSE "open")
    OBVIOUS
  <1>3. PICK row : row = With(t, status)
    OBVIOUS
  <1>4. PICK done \in SUBSET Tasks :
           done = (IF completed THEN finished \cup {t} ELSE finished \ {t})
    BY DEF IInv, DataInv
  <1>5. row \in Plans /\ Keeps(row, done) /\ Follows(row, course) /\ Present(done)
    BY <1>2, <1>3, <1>4, ReportedRow DEF RecordResult
  <1>6. Keeps(row, done)' /\ Follows(row, course)' /\ Present(done)'
    BY <1>5 DEF RecordResult, history, Keeps, Follows, Present
  <1>7. todo' = <<LearnOf(t, done)>> \o <<PlanOf(row, done)>> \o MarksOf(row)
    BY <1>2, <1>3, <1>4 DEF RecordResult, SavesPlan, PlanOf, LearnOf
  <1>8. Learning'
    <2>1. CASE MarksOf(row) = <<>>
      <3>1. todo' = <<LearnOf(t, done), PlanOf(row, done)>>
        BY <1>7, <2>1, Joins
      <3>2. QED
        BY <1>1, <1>5, <1>6, <3>1 DEF Learning, PlanOf, LearnOf
    <2>2. CASE /\ StageTasksDone(row)
               /\ \E S \in SUBSET course.stages : MarksOf(row) = <<MarkOf(S, FALSE)>>
      <3>1. PICK S \in SUBSET course.stages : MarksOf(row) = <<MarkOf(S, FALSE)>>
        BY <2>2
      <3>2. todo' = <<LearnOf(t, done), PlanOf(row, done), MarkOf(S, FALSE)>>
        BY <1>7, <3>1, Joins
      <3>3. course' = course
        BY DEF RecordResult
      <3>4. QED
        BY <1>1, <1>5, <1>6, <2>2, <3>2, <3>3
           DEF Learning, PlanOf, LearnOf, MarkOf, StageTasksDone
    <2>3. QED
      BY <2>1, <2>2, MarksOfShape
  <1>9. QED
    BY <1>1, <1>8 DEF IInv, WorkInv

LEMMA CompleteStageKeeps ==
  ASSUME IInv, NEW s \in Stages, NEW g \in Generators, CompleteStage(s, g)
  PROVE  IInv'
  <1> DEFINE its == {t \in DOMAIN plan : plan[t].stage = s}
             row == [t \in DOMAIN plan |-> IF t \in its
                                             THEN [plan[t] EXCEPT !.status = "completed"]
                                             ELSE plan[t]]
             new == [course EXCEPT !.done = @ \cup {s}]
  <1>1. /\ LoopFree
        /\ s \in course.stages
        /\ UNCHANGED <<course, saved, plan, finished, cut, overtaken, torn, bounds>>
    BY DEF CompleteStage
  <1>2. Whole /\ Whole'
    BY <1>1, RestWhenFree DEF IInv, Whole, Keeps, Follows
  <1>3. PICK S \in SUBSET course.stages : S = {s} \cap course.stages
    OBVIOUS
  <1>4. Marks({s}, TRUE) \in {<<>>, <<MarkOf(S, TRUE)>>}
    BY <1>3, MarksOrNone DEF Marks
  <1>5. CASE saved
    <2>1. /\ todo' = Marks({s}, TRUE) \o SavesPlan(row, finished \cup its)
          /\ gens' = Outdated
      BY <1>5 DEF CompleteStage
    <2>2. DataInv' /\ FreshInv' /\ AllStale' /\ Present(finished)' /\ CliInv'
      BY <1>1, <2>1, LearnerFrame DEF history
    <2>3. DOMAIN plan \in SUBSET Tasks /\ plan \in [DOMAIN plan -> Rows]
      BY PlanIsFunction DEF IInv, DataInv
    <2>4. PICK done \in SUBSET Tasks : done = finished \cup its
      BY <2>3 DEF IInv, DataInv
    <2>5. \A t \in DOMAIN plan : [plan[t] EXCEPT !.status = "completed"] \in Rows
      BY <2>3 DEF Rows
    <2>6. row \in [DOMAIN plan -> Rows] /\ DOMAIN row = DOMAIN plan
      BY <2>3, <2>5
    <2>7. row \in Plans
      BY <2>3, <2>6 DEF Plans
    <2>8. \A t \in DOMAIN plan : plan[t].status = "completed" \/ t \in its
                                   => row[t].status = "completed"
      <3>1. \A t \in DOMAIN plan : [plan[t] EXCEPT !.status = "completed"].status = "completed"
        BY <2>3 DEF Rows
      <3>2. QED
        BY <3>1
    <2> HIDE DEF row, its
    <2>9. Keeps(row, done) /\ Follows(row, course)
      <3>1. its \subseteq DOMAIN plan
        BY DEF its
      <3>2. QED
        BY <1>2, <2>4, <2>6, <2>8, <3>1 DEF Whole, Keeps, Follows
    <2>10. PICK kept : kept = row
      OBVIOUS
    <2>11. Keeps(kept, done)' /\ Follows(kept, course)'
      BY <1>1, <2>9, <2>10 DEF Keeps, Follows
    <2>12. \/ todo' = <<PlanOf(kept, done)>>
           \/ todo' = <<MarkOf(S, TRUE), PlanOf(kept, done)>>
      <3>1. todo' = Marks({s}, TRUE) \o <<PlanOf(kept, done)>>
        BY <2>1, <2>4, <2>10 DEF SavesPlan, PlanOf
      <3>2. QED
        BY <1>4, <3>1, Joins
    <2>13. Saving' \/ Asked'
      <3>1. kept \in Plans
        BY <2>7, <2>10
      <3>2. CASE todo' = <<PlanOf(kept, done)>>
        BY <2>2, <2>11, <3>1, <3>2 DEF Saving, PlanOf
      <3>3. CASE todo' = <<MarkOf(S, TRUE), PlanOf(kept, done)>>
        BY <1>1, <1>2, <2>2, <2>11, <3>1, <3>3 DEF Asked, PlanOf, MarkOf
      <3>4. QED
        BY <2>12, <3>2, <3>3
    <2>14. QED
      BY <2>2, <2>13 DEF IInv, WorkInv
  <1>6. CASE ~saved
    <2>1. PICK due \in BOOLEAN :
             /\ todo' = Marks({s}, TRUE)
             /\ gens' = [Outdated EXCEPT ![g] = Awaits(Base(new, due), FALSE, FALSE)]
             /\ g \notin Cli
      BY <1>6 DEF CompleteStage
    <2>2. /\ course \in CourseRecs
          /\ gens \in [Generators -> GenRecs]
          /\ DOMAIN plan = {}
      BY <1>6 DEF IInv, DataInv
    <2>3. new \in CourseRecs /\ new.stages = course.stages
      BY <2>2 DEF CourseRecs
    <2> HIDE DEF new
    <2>4. PICK base \in Plans : base = Base(new, due)
      BY <2>3, BaseIsPlan
    <2>5. DOMAIN base \cap Stages \subseteq course.stages
      BY <2>3, <2>4, BaseIsPlan
    <2>6. PICK gen \in GenRecs : /\ gen = Awaits(base, FALSE, FALSE)
                                 /\ gen.base = base
      BY AwaitsIsGen
    <2>7. gens' = [Outdated EXCEPT ![g] = gen]
      BY <2>1, <2>4, <2>6
    <2>8. DataInv'
      BY <1>1, <2>7, OutdatedStale DEF IInv, DataInv, bounds
    <2>9. FreshInv'
      <3>1. ~overtaken => finished \cut = {}
        BY <1>2, <2>2 DEF Whole, Keeps
      <3>2. gens'[g] = gen
        BY <2>2, <2>7, OutdatedStale
      <3>3. \A h \in Generators \ {g} : gens'[h].on => gens'[h].stale
        BY <2>2, <2>7, OutdatedStale
      <3>4. QED
        BY <1>1, <2>5, <2>6, <3>1, <3>2, <3>3 DEF FreshInv
    <2>10. Rest' \/ Asked'
      <3>1. course' = course
        BY <1>1
      <3>2. CASE todo' = <<>>
        BY <1>2, <3>2 DEF Rest
      <3>3. CASE todo' = <<MarkOf(S, TRUE)>>
        BY <1>2, <3>1, <3>3 DEF Asked, MarkOf
      <3>4. QED
        BY <1>4, <2>1, <3>2, <3>3
    <2>11. CliInv'
      BY <2>1, <2>2, <2>7, OutdatedStale, CliGenerates DEF CliInv
    <2>12. QED
      BY <2>8, <2>9, <2>10, <2>11 DEF IInv, WorkInv
  <1>7. QED
    BY <1>5, <1>6

LEMMA ReplaceCourseKeeps ==
  ASSUME IInv, NEW approved \in Courses, NEW due \in BOOLEAN, NEW planned \in BOOLEAN,
         ReplaceCourse(approved, due, planned)
  PROVE  IInv'
  <1>1. PICK c : c = Course(course.version + 1, approved)
    OBVIOUS
  <1>2. /\ LoopFree
        /\ course.version < MaxCourses
        /\ gens' = Outdated
        /\ overtaken' = (overtaken \/ ~planned)
        /\ UNCHANGED <<course, saved, plan, finished, cut, torn, bounds>>
    BY DEF ReplaceCourse
  <1>3. c \in CourseRecs /\ c.version = course.version + 1 /\ c.done \subseteq c.stages
    <2>1. course.version \in 0..MaxCourses
      BY DEF IInv, DataInv, CourseRecs
    <2>2. course.version + 1 \in 0..MaxCourses
      BY <1>2, <2>1, BoundsAssumption
    <2>3. QED
      BY <1>1, <2>2, StagesAssumption DEF Course, CourseRecs
  <1>4. Whole'
    BY <1>2, RestWhenFree DEF IInv, Whole, Keeps, Follows
  <1>5. DataInv' /\ AllStale'
    <2>1. overtaken' \in BOOLEAN
      BY <1>2
    <2>2. QED
      BY <1>2, <2>1, OutdatedStale DEF IInv, DataInv, AllStale, bounds
  <1>6. FreshInv'
    BY <1>5 DEF FreshInv, AllStale
  <1>7. Replacing'
    <2>1. CASE planned
      <3>1. PICK row \in Plans : row = Base(c, due)
        BY <1>3, BaseIsPlan
      <3>2. DOMAIN row \cap Stages \subseteq c.stages
        BY <1>3, <3>1, BaseIsPlan
      <3>3. todo' = <<CourseOf(c)>> \o <<PlanOf(row, {})>>
        BY <1>1, <2>1, <3>1 DEF ReplaceCourse, SavesPlan, CourseOf, PlanOf
      <3>4. todo' = <<CourseOf(c), PlanOf(row, {})>>
        BY <3>3, Joins
      <3>5. QED
        BY <1>2, <1>3, <1>4, <1>5, <3>2, <3>4 DEF Replacing, Follows, CourseOf, PlanOf
    <2>2. CASE ~planned
      <3>1. todo' = <<CourseOf(c)>> \o <<>>
        BY <1>1, <2>2 DEF ReplaceCourse, CourseOf
      <3>2. todo' = <<CourseOf(c)>>
        BY <3>1, Joins
      <3>3. QED
        BY <1>2, <1>3, <1>4, <1>5, <2>2, <3>2 DEF Replacing, CourseOf
    <2>3. QED
      BY <2>1, <2>2
  <1>8. CliInv'
    BY <1>5, CliGenerates DEF AllStale, CliInv
  <1>9. QED
    BY <1>5, <1>6, <1>7, <1>8 DEF IInv, WorkInv

-----------------------------------------------------------------------------
(* Generating.                                                             *)

(* Everything but the generations and the counters stays.                  *)
LEMMA WorkFrame ==
  ASSUME WorkInv, UNCHANGED <<course, plan, todo, finished, cut, overtaken, torn>>,
         AllStale => AllStale'
  PROVE  WorkInv'
  <1>1. Whole => Whole'
    BY DEF Whole, Keeps, Follows
  <1>2. CASE Rest
    BY <1>1, <1>2 DEF Rest, WorkInv
  <1>3. CASE Saving
    <2>1. PICK row \in Plans, done \in SUBSET Tasks :
            /\ Keeps(row, done) /\ Follows(row, course)
            /\ Present(finished)
            /\ AllStale
            /\ \/ todo = <<PlanOf(row, done)>>
               \/ /\ StageTasksDone(row)
                  /\ \E S \in SUBSET course.stages : todo = <<PlanOf(row, done), MarkOf(S, FALSE)>>
      BY <1>3 DEF Saving
    <2>2. Keeps(row, done)' /\ Follows(row, course)' /\ Present(finished)'
      BY <2>1 DEF Keeps, Follows, Present
    <2>3. Saving'
      BY <2>1, <2>2 DEF Saving, PlanOf, MarkOf, StageTasksDone
    <2>4. QED
      BY <2>3 DEF WorkInv
  <1>4. CASE Learning
    <2>1. PICK row \in Plans, done \in SUBSET Tasks, t \in Tasks :
            /\ Keeps(row, done) /\ Follows(row, course)
            /\ Whole
            /\ Present(done)
            /\ AllStale
            /\ \/ todo = <<LearnOf(t, done), PlanOf(row, done)>>
               \/ /\ StageTasksDone(row)
                  /\ \E S \in SUBSET course.stages :
                       todo = <<LearnOf(t, done), PlanOf(row, done), MarkOf(S, FALSE)>>
      BY <1>4 DEF Learning
    <2>2. Keeps(row, done)' /\ Follows(row, course)' /\ Present(done)'
      BY <2>1 DEF Keeps, Follows, Present
    <2>3. Learning'
      BY <1>1, <2>1, <2>2 DEF Learning, LearnOf, PlanOf, MarkOf, StageTasksDone
    <2>4. QED
      BY <2>3 DEF WorkInv
  <1>5. CASE Asked
    <2>1. PICK S \in SUBSET course.stages :
            \/ todo = <<MarkOf(S, TRUE)>>
            \/ /\ AllStale
               /\ \E row \in Plans, done \in SUBSET Tasks :
                    /\ Keeps(row, done) /\ Follows(row, course)
                    /\ todo = <<MarkOf(S, TRUE), PlanOf(row, done)>>
      BY <1>5 DEF Asked
    <2>2. Asked'
      BY <1>1, <1>5, <2>1 DEF Asked, MarkOf, PlanOf, Keeps, Follows
    <2>3. QED
      BY <2>2 DEF WorkInv
  <1>6. CASE Earned
    BY <1>1, <1>6 DEF Earned, MarkOf, StageTasksDone, WorkInv
  <1>7. CASE Replacing
    BY <1>1, <1>7 DEF Replacing, Follows, CourseOf, PlanOf, WorkInv
  <1>8. QED
    BY <1>2, <1>3, <1>4, <1>5, <1>6, <1>7 DEF WorkInv

(* A generation of the CLI saved over something newer: what the handler    *)
(* has still to write is the same, what the plan promises is waived.       *)
LEMMA TornFrame ==
  ASSUME WorkInv, UNCHANGED <<course, todo>>, overtaken', torn', AllStale => AllStale'
  PROVE  WorkInv'
  <1>1. Whole' /\ \A row, done, c : Keeps(row, done)' /\ Follows(row, c)' /\ Present(done)'
    BY DEF Whole, Keeps, Follows, Present
  <1>2. CASE Rest
    BY <1>1, <1>2 DEF Rest, WorkInv
  <1>3. CASE Saving
    BY <1>1, <1>3 DEF Saving, PlanOf, MarkOf, StageTasksDone, Keeps, Follows, Present, WorkInv
  <1>4. CASE Learning
    BY <1>1, <1>4 DEF Learning, LearnOf, PlanOf, MarkOf, StageTasksDone, Keeps, Follows, Present,
                      WorkInv
  <1>5. CASE Asked
    BY <1>1, <1>5 DEF Asked, PlanOf, MarkOf, Keeps, Follows, WorkInv
  <1>6. CASE Earned
    BY <1>1, <1>6 DEF Earned, MarkOf, WorkInv
  <1>7. CASE Replacing
    BY <1>1, <1>7 DEF Replacing, Follows, CourseOf, PlanOf, WorkInv
  <1>8. QED
    BY <1>2, <1>3, <1>4, <1>5, <1>6, <1>7 DEF WorkInv

LEMMA GenerateKeeps ==
  ASSUME IInv, NEW g \in Generators, NEW due \in BOOLEAN, NEW force \in BOOLEAN,
         Generate(g, due, force)
  PROVE  IInv'
  <1>1. /\ saved => force
        /\ UNCHANGED <<course, saved, plan, todo, finished, cut, overtaken, torn, crashes>>
    BY DEF Generate, history
  <1>2. course \in CourseRecs /\ gens \in [Generators -> GenRecs] /\ (~saved => DOMAIN plan = {})
    BY DEF IInv, DataInv
  <1>3. PICK base \in Plans : /\ base = Base(course, due)
                              /\ DOMAIN base \cap Stages \subseteq course.stages
    BY <1>2, BaseIsPlan
  <1>4. PICK stale \in BOOLEAN : stale = ~LoopFree
    OBVIOUS
  <1>5. PICK gen \in GenRecs : /\ gen = Awaits(base, force, stale)
                               /\ gen.base = base
                               /\ gen.force = force
                               /\ gen.stale = stale
    BY AwaitsIsGen
  <1>6. gens' = [gens EXCEPT ![g] = gen]
    BY <1>3, <1>4, <1>5 DEF Generate
  <1>7. gens'[g] = gen /\ \A h \in Generators \ {g} : gens'[h] = gens[h]
    BY <1>2, <1>6
  <1>8. DataInv'
    <2>1. forced' \in 0..MaxForced
      BY BoundsAssumption DEF Generate, IInv, DataInv
    <2>2. QED
      BY <1>1, <1>6, <2>1 DEF IInv, DataInv
  <1>9. WorkInv'
    <2>1. CASE LoopFree
      BY <1>1, <2>1, RestWhenFree DEF IInv, WorkInv, Rest, Whole, Keeps, Follows
    <2>2. CASE ~LoopFree
      <3>1. gens'[g].stale
        BY <1>4, <1>5, <1>7, <2>2
      <3>2. AllStale => AllStale'
        BY <1>7, <3>1 DEF AllStale
      <3>3. QED
        BY <1>1, <3>2, WorkFrame DEF IInv
    <2>3. QED
      BY <2>1, <2>2
  <1>10. FreshInv'
    <2>1. LoopFree /\ ~force /\ ~overtaken => finished \cut = {}
      BY <1>1, <1>2, RestWhenFree DEF IInv, Whole, Keeps
    <2>2. QED
      BY <1>1, <1>3, <1>4, <1>5, <1>7, <2>1 DEF IInv, FreshInv
  <1>11. CliInv'
    BY <1>1, <1>4, <1>5, <1>7, CliGenerates DEF IInv, CliInv, LoopFree
  <1>12. QED
    BY <1>8, <1>9, <1>10, <1>11 DEF IInv

LEMMA SavePlanKeeps ==
  ASSUME IInv, NEW g \in Generators, NEW tasks \in Plans,
         DOMAIN tasks \subseteq DOMAIN gens[g].base,
         SavePlan(g, tasks)
  PROVE  IInv'
  <1>1. /\ LoopFree \/ g \in Cli
        /\ gens[g].on
        /\ saved' = TRUE
        /\ plan' = tasks
        /\ finished' = IF gens[g].force THEN {} ELSE finished
        /\ cut' = IF gens[g].force THEN {} ELSE cut
        /\ overtaken' = (overtaken \/ gens[g].stale)
        /\ torn' = ~LoopFree
        /\ gens' = [gens EXCEPT ![g] = Resting]
        /\ UNCHANGED <<course, todo, forced, crashes>>
    BY DEF SavePlan, Runs, bounds
  <1>2. gens \in [Generators -> GenRecs]
    BY DEF IInv, DataInv
  <1>3. ~gens'[g].on /\ \A h \in Generators \ {g} : gens'[h] = gens[h]
    BY <1>1, <1>2, RestingIsGen
  <1>4. DataInv'
    <2>1. gens' \in [Generators -> GenRecs]
      BY <1>1, <1>2, RestingIsGen
    <2>2. overtaken' \in BOOLEAN /\ torn' \in BOOLEAN
      BY <1>1
    <2>3. QED
      BY <1>1, <2>1, <2>2 DEF IInv, DataInv
  <1>5. ~overtaken' =>
          /\ DOMAIN gens[g].base \cap Stages \subseteq course.stages
          /\ ~gens[g].force => finished \ cut = {}
    BY <1>1 DEF IInv, FreshInv
  <1>6. WorkInv'
    <2>1. CASE LoopFree
      <3>1. Keeps(plan, finished)'
        BY <1>1, <1>5 DEF Keeps
      <3>2. Follows(plan, course)'
        BY <1>1, <1>5 DEF Follows
      <3>3. QED
        BY <1>1, <2>1, <3>1, <3>2 DEF WorkInv, Rest, Whole, LoopFree
    <2>2. CASE ~LoopFree
      <3>1. gens[g].stale
        BY <1>1, <2>2 DEF IInv, CliInv, LoopFree
      <3>2. overtaken' /\ torn'
        BY <1>1, <2>2, <3>1
      <3>3. AllStale => AllStale'
        BY <1>3 DEF AllStale
      <3>4. QED
        BY <1>1, <3>2, <3>3, TornFrame DEF IInv
    <2>3. QED
      BY <2>1, <2>2
  <1>7. FreshInv'
    BY <1>1, <1>3 DEF IInv, FreshInv
  <1>8. CliInv'
    BY <1>1, <1>3, CliGenerates DEF IInv, CliInv
  <1>9. QED
    BY <1>4, <1>6, <1>7, <1>8 DEF IInv

LEMMA ModelPlansKeeps ==
  ASSUME IInv, NEW g \in Generators, ModelPlans(g)
  PROVE  IInv'
  <1>1. PICK c \in Accepted(gens[g].base) : SavePlan(g, c)
    BY DEF ModelPlans
  <1>2. PICK T \in SUBSET DOMAIN gens[g].base : c \in [T -> Rows]
    BY <1>1 DEF Accepted
  <1>3. DOMAIN gens[g].base \in SUBSET Tasks
    <2>1. gens[g].base \in Plans
      BY DEF IInv, DataInv, GenRecs
    <2>2. QED
      BY <2>1, PlanIsFunction
  <1>4. c \in Plans
    BY <1>2, <1>3 DEF Plans
  <1>5. QED
    BY <1>1, <1>2, <1>4, SavePlanKeeps

LEMMA ModelFailsKeeps ==
  ASSUME IInv, NEW g \in Generators, ModelFails(g)
  PROVE  IInv'
  <1>1. gens[g].base \in Plans
    BY DEF IInv, DataInv, GenRecs
  <1>2. QED
    BY <1>1, SavePlanKeeps DEF ModelFails

LEMMA LostKeeps ==
  ASSUME IInv, NEW g \in Generators, Lost(g)
  PROVE  IInv'
  <1>1. /\ gens' = [gens EXCEPT ![g] = Resting]
        /\ UNCHANGED <<course, saved, plan, todo, finished, cut, overtaken, torn, forced, crashes>>
    BY DEF Lost, history, bounds
  <1>2. gens \in [Generators -> GenRecs]
    BY DEF IInv, DataInv
  <1>3. ~gens'[g].on /\ \A h \in Generators \ {g} : gens'[h] = gens[h]
    BY <1>1, <1>2, RestingIsGen
  <1>4. DataInv'
    BY <1>1, <1>2, RestingIsGen DEF IInv, DataInv
  <1>5. WorkInv'
    <2>1. AllStale => AllStale'
      BY <1>3 DEF AllStale
    <2>2. QED
      BY <1>1, <2>1, WorkFrame DEF IInv
  <1>6. FreshInv'
    BY <1>1, <1>3 DEF IInv, FreshInv
  <1>7. CliInv'
    BY <1>1, <1>3, CliGenerates DEF IInv, CliInv
  <1>8. QED
    BY <1>4, <1>5, <1>6, <1>7 DEF IInv

-----------------------------------------------------------------------------
(* The writes of a handler.                                                *)

(* What comes next, and what is left after it.                             *)
LEMMA SavingParts ==
  ASSUME Saving
  PROVE  \E row \in Plans, done \in SUBSET Tasks :
           /\ Keeps(row, done) /\ Follows(row, course)
           /\ todo # <<>> /\ Head(todo) = PlanOf(row, done)
           /\ \/ Tail(todo) = <<>>
              \/ /\ StageTasksDone(row)
                 /\ \E S \in SUBSET course.stages : Tail(todo) = <<MarkOf(S, FALSE)>>
  <1>1. PICK row \in Plans, done \in SUBSET Tasks :
          /\ Keeps(row, done) /\ Follows(row, course)
          /\ \/ todo = <<PlanOf(row, done)>>
             \/ /\ StageTasksDone(row)
                /\ \E S \in SUBSET course.stages : todo = <<PlanOf(row, done), MarkOf(S, FALSE)>>
    BY DEF Saving
  <1>2. /\ todo # <<>> /\ Head(todo) = PlanOf(row, done)
        /\ \/ Tail(todo) = <<>>
           \/ /\ StageTasksDone(row)
              /\ \E S \in SUBSET course.stages : Tail(todo) = <<MarkOf(S, FALSE)>>
    <2>1. CASE todo = <<PlanOf(row, done)>>
      BY <2>1
    <2>2. CASE /\ StageTasksDone(row)
               /\ \E S \in SUBSET course.stages : todo = <<PlanOf(row, done), MarkOf(S, FALSE)>>
      <3>1. PICK S \in SUBSET course.stages : todo = <<PlanOf(row, done), MarkOf(S, FALSE)>>
        BY <2>2
      <3>2. todo # <<>> /\ Head(todo) = PlanOf(row, done) /\ Tail(todo) = <<MarkOf(S, FALSE)>>
        BY <3>1, PairParts
      <3>3. QED
        BY <2>2, <3>2
    <2>3. QED
      BY <1>1, <2>1, <2>2
  <1>3. QED
    BY <1>1, <1>2

LEMMA LearningParts ==
  ASSUME Learning
  PROVE  \E row \in Plans, done \in SUBSET Tasks, t \in Tasks :
           /\ Keeps(row, done) /\ Follows(row, course)
           /\ Present(done)
           /\ Head(todo) = LearnOf(t, done)
           /\ \/ Tail(todo) = <<PlanOf(row, done)>>
              \/ /\ StageTasksDone(row)
                 /\ \E S \in SUBSET course.stages :
                      Tail(todo) = <<PlanOf(row, done), MarkOf(S, FALSE)>>
  <1>1. PICK row \in Plans, done \in SUBSET Tasks, t \in Tasks :
          /\ Keeps(row, done) /\ Follows(row, course)
          /\ Present(done)
          /\ \/ todo = <<LearnOf(t, done), PlanOf(row, done)>>
             \/ /\ StageTasksDone(row)
                /\ \E S \in SUBSET course.stages :
                     todo = <<LearnOf(t, done), PlanOf(row, done), MarkOf(S, FALSE)>>
    BY DEF Learning
  <1>2. /\ Head(todo) = LearnOf(t, done)
        /\ \/ Tail(todo) = <<PlanOf(row, done)>>
           \/ /\ StageTasksDone(row)
              /\ \E S \in SUBSET course.stages :
                   Tail(todo) = <<PlanOf(row, done), MarkOf(S, FALSE)>>
    <2>1. CASE todo = <<LearnOf(t, done), PlanOf(row, done)>>
      BY <2>1, PairParts
    <2>2. CASE /\ StageTasksDone(row)
               /\ \E S \in SUBSET course.stages :
                    todo = <<LearnOf(t, done), PlanOf(row, done), MarkOf(S, FALSE)>>
      <3>1. PICK S \in SUBSET course.stages :
              todo = <<LearnOf(t, done), PlanOf(row, done), MarkOf(S, FALSE)>>
        BY <2>2
      <3>2. /\ Head(todo) = LearnOf(t, done)
            /\ Tail(todo) = <<PlanOf(row, done), MarkOf(S, FALSE)>>
        <4>1. PICK learn, save, mark :
                /\ learn = LearnOf(t, done)
                /\ save = PlanOf(row, done)
                /\ mark = MarkOf(S, FALSE)
          OBVIOUS
        <4>2. todo = <<learn, save, mark>>
          BY <3>1, <4>1
        <4>3. Head(todo) = learn /\ Tail(todo) = <<save, mark>>
          BY <4>2, TripleParts
        <4>4. QED
          BY <4>1, <4>3
      <3>3. QED
        BY <2>2, <3>2
    <2>3. QED
      BY <1>1, <2>1, <2>2
  <1>3. QED
    BY <1>1, <1>2

LEMMA MarkingParts ==
  ASSUME Asked \/ Earned
  PROVE  \E S \in SUBSET course.stages, asked \in BOOLEAN :
           /\ Head(todo) = MarkOf(S, asked)
           /\ asked \/ Earned
           /\ \/ Tail(todo) = <<>>
              \/ /\ asked = TRUE
                 /\ AllStale
                 /\ \E row \in Plans, done \in SUBSET Tasks :
                      /\ Keeps(row, done) /\ Follows(row, course)
                      /\ Tail(todo) = <<PlanOf(row, done)>>
  <1>1. CASE Asked
    <2>1. PICK S \in SUBSET course.stages :
            \/ todo = <<MarkOf(S, TRUE)>>
            \/ /\ AllStale
               /\ \E row \in Plans, done \in SUBSET Tasks :
                    /\ Keeps(row, done) /\ Follows(row, course)
                    /\ todo = <<MarkOf(S, TRUE), PlanOf(row, done)>>
      BY <1>1 DEF Asked
    <2>2. /\ Head(todo) = MarkOf(S, TRUE)
          /\ \/ Tail(todo) = <<>>
             \/ /\ AllStale
                /\ \E row \in Plans, done \in SUBSET Tasks :
                     /\ Keeps(row, done) /\ Follows(row, course)
                     /\ Tail(todo) = <<PlanOf(row, done)>>
      <3>1. CASE todo = <<MarkOf(S, TRUE)>>
        BY <3>1
      <3>2. CASE /\ AllStale
                 /\ \E row \in Plans, done \in SUBSET Tasks :
                      /\ Keeps(row, done) /\ Follows(row, course)
                      /\ todo = <<MarkOf(S, TRUE), PlanOf(row, done)>>
        <4>1. PICK row \in Plans, done \in SUBSET Tasks :
                /\ Keeps(row, done) /\ Follows(row, course)
                /\ todo = <<MarkOf(S, TRUE), PlanOf(row, done)>>
          BY <3>2
        <4>2. Head(todo) = MarkOf(S, TRUE) /\ Tail(todo) = <<PlanOf(row, done)>>
          BY <4>1, PairParts
        <4>3. QED
          BY <3>2, <4>1, <4>2
      <3>3. QED
        BY <2>1, <3>1, <3>2
    <2>3. QED
      BY <2>2
  <1>2. CASE Earned
    <2>1. PICK S \in SUBSET course.stages : todo = <<MarkOf(S, FALSE)>>
      BY <1>2 DEF Earned
    <2>2. Head(todo) = MarkOf(S, FALSE) /\ Tail(todo) = <<>>
      BY <2>1
    <2>3. QED
      BY <1>2, <2>2
  <1>3. QED
    BY <1>1, <1>2

LEMMA ReplacingParts ==
  ASSUME Replacing
  PROVE  \E c \in CourseRecs :
           /\ c.version = course.version + 1
           /\ c.done \subseteq c.stages
           /\ Head(todo) = CourseOf(c)
           /\ \/ overtaken /\ Tail(todo) = <<>>
              \/ \E row \in Plans : Follows(row, c) /\ Tail(todo) = <<PlanOf(row, {})>>
  <1>1. PICK c \in CourseRecs :
          /\ c.version = course.version + 1
          /\ c.done \subseteq c.stages
          /\ \/ overtaken /\ todo = <<CourseOf(c)>>
             \/ \E row \in Plans :
                  /\ Follows(row, c)
                  /\ todo = <<CourseOf(c), PlanOf(row, {})>>
    BY DEF Replacing
  <1>2. CASE overtaken /\ todo = <<CourseOf(c)>>
    <2>1. Head(todo) = CourseOf(c) /\ Tail(todo) = <<>>
      BY <1>2
    <2>2. QED
      BY <1>1, <1>2, <2>1
  <1>3. CASE \E row \in Plans : /\ Follows(row, c)
                                /\ todo = <<CourseOf(c), PlanOf(row, {})>>
    <2>1. PICK row \in Plans : /\ Follows(row, c)
                               /\ todo = <<CourseOf(c), PlanOf(row, {})>>
      BY <1>3
    <2>2. Head(todo) = CourseOf(c) /\ Tail(todo) = <<PlanOf(row, {})>>
      BY <2>1, PairParts
    <2>3. QED
      BY <1>1, <2>1, <2>2
  <1>4. QED
    BY <1>1, <1>2, <1>3

(* Which shape of todo begins with which write.                            *)
LEMMA NextWrite ==
  ASSUME WorkInv, todo # <<>>
  PROVE  /\ Head(todo).do = "plan" => Saving
         /\ Head(todo).do = "learn" => Learning
         /\ Head(todo).do = "course" => Replacing
         /\ Head(todo).do = "mark" => Asked \/ Earned
  <1>1. ~Rest
    BY DEF Rest
  <1>2. ASSUME Saving PROVE Head(todo).do = "plan"
    <2>1. PICK row, done : Head(todo) = PlanOf(row, done)
      BY <1>2, SavingParts
    <2>2. QED
      BY <2>1 DEF PlanOf
  <1>3. ASSUME Learning PROVE Head(todo).do = "learn"
    <2>1. PICK done, t : Head(todo) = LearnOf(t, done)
      BY <1>3, LearningParts
    <2>2. QED
      BY <2>1 DEF LearnOf
  <1>4. ASSUME Asked \/ Earned PROVE Head(todo).do = "mark"
    <2>1. PICK S, asked : Head(todo) = MarkOf(S, asked)
      BY <1>4, MarkingParts
    <2>2. QED
      BY <2>1 DEF MarkOf
  <1>5. Replacing => Head(todo).do = "course"
    BY ReplacingParts DEF CourseOf
  <1>6. QED
    BY <1>1, <1>2, <1>3, <1>4, <1>5 DEF WorkInv

LEMMA WritePlanKeeps ==
  ASSUME IInv, WritePlan
  PROVE  IInv'
  <1>1. /\ Head(todo).do = "plan" /\ todo # <<>>
        /\ todo' = Tail(todo)
        /\ saved' = TRUE
        /\ plan' = Head(todo).tasks
        /\ finished' = Head(todo).done
        /\ cut' = cut \cap Head(todo).done
        /\ torn' = FALSE
        /\ UNCHANGED <<course, gens, overtaken, forced, crashes>>
    BY DEF WritePlan, Write, bounds
  <1>2. Saving
    BY <1>1, NextWrite DEF IInv
  <1>3. PICK row \in Plans, done \in SUBSET Tasks :
          /\ Keeps(row, done) /\ Follows(row, course)
          /\ Head(todo) = PlanOf(row, done)
          /\ \/ Tail(todo) = <<>>
             \/ /\ StageTasksDone(row)
                /\ \E S \in SUBSET course.stages : Tail(todo) = <<MarkOf(S, FALSE)>>
    BY <1>2, SavingParts
  <1>4. plan' = row /\ finished' = done /\ cut' = cut \cap done
    BY <1>1, <1>3 DEF PlanOf
  <1>5. DataInv'
    BY <1>1, <1>4 DEF IInv, DataInv
  <1>6. Whole'
    <2>1. finished' \ cut' = done \ cut
      BY <1>4
    <2>2. QED
      BY <1>1, <1>3, <1>4, <2>1 DEF Whole, Keeps, Follows
  <1>7. FreshInv'
    BY <1>1, <1>2 DEF Saving, FreshInv, AllStale
  <1>8. Rest' \/ Earned'
    <2>1. CASE Tail(todo) = <<>>
      BY <1>1, <1>6, <2>1 DEF Rest
    <2>2. CASE /\ StageTasksDone(row)
               /\ \E S \in SUBSET course.stages : Tail(todo) = <<MarkOf(S, FALSE)>>
      <3>1. PICK S \in SUBSET course.stages : todo' = <<MarkOf(S, FALSE)>>
        BY <1>1, <2>2
      <3>2. StageTasksDone(plan)'
        BY <1>4, <2>2 DEF StageTasksDone
      <3>3. QED
        BY <1>1, <1>6, <3>1, <3>2 DEF Earned, MarkOf
    <2>3. QED
      BY <1>3, <2>1, <2>2
  <1>9. CliInv'
    BY <1>1 DEF IInv, CliInv
  <1>10. QED
    BY <1>5, <1>7, <1>8, <1>9 DEF IInv, WorkInv

LEMMA LearnKeeps ==
  ASSUME IInv, Learn
  PROVE  IInv'
  <1>1. /\ Head(todo).do = "learn" /\ todo # <<>>
        /\ todo' = Tail(todo)
        /\ finished' = Head(todo).done
        /\ UNCHANGED <<course, saved, plan, gens, cut, overtaken, torn, forced, crashes>>
    BY DEF Learn, Write, bounds
  <1>2. Learning
    BY <1>1, NextWrite DEF IInv
  <1>3. PICK row \in Plans, done \in SUBSET Tasks, t \in Tasks :
          /\ Keeps(row, done) /\ Follows(row, course)
          /\ Present(done)
          /\ Head(todo) = LearnOf(t, done)
          /\ \/ Tail(todo) = <<PlanOf(row, done)>>
             \/ /\ StageTasksDone(row)
                /\ \E S \in SUBSET course.stages :
                     Tail(todo) = <<PlanOf(row, done), MarkOf(S, FALSE)>>
    BY <1>2, LearningParts
  <1>4. finished' = done
    BY <1>1, <1>3 DEF LearnOf
  <1>5. DataInv'
    BY <1>1, <1>4 DEF IInv, DataInv
  <1>6. FreshInv' /\ AllStale'
    BY <1>1, <1>2 DEF Learning, FreshInv, AllStale
  <1>7. Keeps(row, done)' /\ Follows(row, course)' /\ Present(finished)'
    BY <1>1, <1>3, <1>4 DEF Keeps, Follows, Present
  <1>8. Saving'
    <2>1. CASE todo' = <<PlanOf(row, done)>>
      BY <1>6, <1>7, <2>1 DEF Saving, PlanOf
    <2>2. CASE /\ StageTasksDone(row)
               /\ \E S \in SUBSET course.stages :
                    todo' = <<PlanOf(row, done), MarkOf(S, FALSE)>>
      BY <1>1, <1>6, <1>7, <2>2 DEF Saving, PlanOf, MarkOf, StageTasksDone
    <2>3. QED
      BY <1>1, <1>3, <2>1, <2>2
  <1>9. CliInv'
    BY <1>1 DEF IInv, CliInv
  <1>10. QED
    BY <1>5, <1>6, <1>8, <1>9 DEF IInv, WorkInv

LEMMA WriteCourseKeeps ==
  ASSUME IInv, WriteCourse
  PROVE  IInv'
  <1>1. /\ Head(todo).do = "course" /\ todo # <<>>
        /\ todo' = Tail(todo)
        /\ course' = Head(todo).course
        /\ UNCHANGED <<saved, plan, gens, finished, cut, overtaken, torn, forced, crashes>>
    BY DEF WriteCourse, Write, history, bounds
  <1>2. Replacing
    BY <1>1, NextWrite DEF IInv
  <1>3. PICK c \in CourseRecs :
          /\ c.done \subseteq c.stages
          /\ Head(todo) = CourseOf(c)
          /\ \/ overtaken /\ Tail(todo) = <<>>
             \/ \E row \in Plans : Follows(row, c) /\ Tail(todo) = <<PlanOf(row, {})>>
    BY <1>2, ReplacingParts
  <1>4. course' = c
    BY <1>1, <1>3 DEF CourseOf
  <1>5. DataInv'
    BY <1>1, <1>3, <1>4 DEF IInv, DataInv
  <1>6. FreshInv' /\ AllStale'
    BY <1>1, <1>2 DEF Replacing, FreshInv, AllStale
  <1>7. Rest' \/ Saving'
    <2>1. CASE overtaken /\ Tail(todo) = <<>>
      BY <1>1, <2>1 DEF Rest, Whole, Keeps, Follows
    <2>2. CASE \E row \in Plans : Follows(row, c) /\ Tail(todo) = <<PlanOf(row, {})>>
      <3>1. PICK row \in Plans : Follows(row, c) /\ todo' = <<PlanOf(row, {})>>
        BY <1>1, <2>2
      <3>2. Keeps(row, {})'
        BY DEF Keeps
      <3>3. Follows(row, course)'
        BY <1>1, <1>4, <3>1 DEF Follows
      <3>4. Present(finished)'
        BY <1>1, <1>2 DEF Replacing, Whole, Keeps, Present
      <3>5. QED
        BY <1>6, <3>1, <3>2, <3>3, <3>4 DEF Saving, PlanOf
    <2>3. QED
      BY <1>3, <2>1, <2>2
  <1>8. CliInv'
    BY <1>1 DEF IInv, CliInv
  <1>9. QED
    BY <1>5, <1>6, <1>7, <1>8 DEF IInv, WorkInv

LEMMA MarkStageKeeps ==
  ASSUME IInv, MarkStage
  PROVE  IInv'
  <1>1. PICK s \in Head(todo).stages :
          /\ course' = [course EXCEPT !.done = @ \cup {s}]
          /\ todo' = MarkAll(Head(todo).stages \ {s}, Head(todo).asked) \o Tail(todo)
    BY DEF MarkStage
  <1>2. /\ todo # <<>> /\ Head(todo).do = "mark"
        /\ UNCHANGED <<saved, plan, gens, finished, cut, overtaken, torn, forced, crashes>>
    BY DEF MarkStage, history, bounds
  <1>3. Asked \/ Earned
    BY <1>2, NextWrite DEF IInv
  <1>4. PICK S \in SUBSET course.stages, asked \in BOOLEAN :
          /\ Head(todo) = MarkOf(S, asked)
          /\ asked \/ Earned
          /\ \/ Tail(todo) = <<>>
             \/ /\ asked = TRUE
                /\ AllStale
                /\ \E row \in Plans, done \in SUBSET Tasks :
                     /\ Keeps(row, done) /\ Follows(row, course)
                     /\ Tail(todo) = <<PlanOf(row, done)>>
    BY <1>3, MarkingParts
  <1>5. Head(todo).stages = S /\ Head(todo).asked = asked
    BY <1>4 DEF MarkOf
  <1>6. PICK R \in SUBSET course.stages : R = S \ {s}
    OBVIOUS
  <1>7. course \in CourseRecs /\ course.done \subseteq course.stages
    BY DEF IInv, DataInv
  <1>8. /\ course' \in CourseRecs
        /\ course'.done \subseteq course'.stages
        /\ course'.stages = course.stages
    BY <1>1, <1>4, <1>5, <1>7 DEF CourseRecs
  <1>9. DataInv'
    BY <1>2, <1>8 DEF IInv, DataInv
  <1>10. Whole'
    <2>1. Whole
      BY <1>3 DEF Asked, Earned
    <2>2. QED
      BY <1>2, <1>8, <2>1 DEF Whole, Keeps, Follows
  <1>11. FreshInv'
    BY <1>2, <1>8 DEF IInv, FreshInv
  <1>12. MarkAll(R, asked) \in {<<>>, <<MarkOf(R, asked)>>}
    BY MarksOrNone
  <1>13. todo' = MarkAll(R, asked) \o Tail(todo)
    BY <1>1, <1>5, <1>6
  <1>14. Rest' \/ Saving' \/ Asked' \/ Earned'
    <2>1. CASE Tail(todo) = <<>>
      <3>1. todo' \in {<<>>, <<MarkOf(R, asked)>>}
        BY <1>12, <1>13, <2>1, Joins
      <3>2. asked \/ (StageTasksDone(plan) \/ torn)'
        BY <1>2, <1>4 DEF Earned, StageTasksDone
      <3>3. CASE todo' = <<>>
        BY <1>10, <3>3 DEF Rest
      <3>4. CASE todo' = <<MarkOf(R, asked)>> /\ asked = TRUE
        BY <1>8, <1>10, <3>4 DEF Asked, MarkOf
      <3>5. CASE todo' = <<MarkOf(R, asked)>> /\ asked = FALSE
        BY <1>8, <1>10, <3>2, <3>5 DEF Earned, MarkOf
      <3>6. QED
        BY <3>1, <3>3, <3>4, <3>5
    <2>2. CASE /\ asked = TRUE
               /\ AllStale
               /\ \E row \in Plans, done \in SUBSET Tasks :
                    /\ Keeps(row, done) /\ Follows(row, course)
                    /\ Tail(todo) = <<PlanOf(row, done)>>
      <3>1. PICK row \in Plans, done \in SUBSET Tasks :
              /\ Keeps(row, done) /\ Follows(row, course)
              /\ Tail(todo) = <<PlanOf(row, done)>>
        BY <2>2
      <3>2. todo' \in {<<PlanOf(row, done)>>, <<MarkOf(R, TRUE), PlanOf(row, done)>>}
        BY <1>12, <1>13, <2>2, <3>1, Joins
      <3>3. Keeps(row, done)' /\ Follows(row, course)' /\ Present(finished)' /\ AllStale'
        BY <1>2, <1>8, <1>10, <2>2, <3>1
           DEF Whole, Keeps, Follows, Present, AllStale
      <3>4. CASE todo' = <<PlanOf(row, done)>>
        BY <3>3, <3>4 DEF Saving, PlanOf
      <3>5. CASE todo' = <<MarkOf(R, TRUE), PlanOf(row, done)>>
        BY <1>8, <1>10, <3>3, <3>5 DEF Asked, MarkOf, PlanOf
      <3>6. QED
        BY <3>2, <3>4, <3>5
    <2>3. QED
      BY <1>4, <2>1, <2>2
  <1>15. CliInv'
    BY <1>2 DEF IInv, CliInv
  <1>16. QED
    BY <1>9, <1>11, <1>14, <1>15 DEF IInv, WorkInv

(* A row that was not saved is about the tasks of the stored plan, unless  *)
(* the crash is remembered as having overtaken it.                         *)
LEMMA UnsavedRow ==
  ASSUME Saving,
         ~\E i \in 1..Len(todo) :
            todo[i].do = "plan" /\ DOMAIN todo[i].tasks # DOMAIN plan
  PROVE  Follows(plan, course)
  <1>1. PICK row, done :
          /\ Follows(row, course)
          /\ \/ todo = <<PlanOf(row, done)>>
             \/ \E S : todo = <<PlanOf(row, done), MarkOf(S, FALSE)>>
    BY DEF Saving
  <1>2. PICK save : save = PlanOf(row, done)
    OBVIOUS
  <1>3. 1 \in 1..Len(todo) /\ todo[1] = save
    <2>1. CASE todo = <<save>>
      BY <2>1
    <2>2. CASE \E S : todo = <<save, MarkOf(S, FALSE)>>
      <3>1. PICK mark : todo = <<save, mark>>
        BY <2>2
      <3>2. QED
        BY <3>1
    <2>3. QED
      BY <1>1, <1>2, <2>1, <2>2
  <1>4. DOMAIN row = DOMAIN plan
    BY <1>2, <1>3 DEF PlanOf
  <1>5. QED
    BY <1>1, <1>4 DEF Follows

LEMMA CrashKeeps ==
  ASSUME IInv, Crash
  PROVE  IInv'
  <1>1. /\ crashes < MaxCrashes
        /\ crashes' = crashes + 1
        /\ todo' = <<>>
        /\ gens' = [g \in Generators |-> IF g \in Cli THEN gens[g] ELSE Resting]
        /\ UNCHANGED <<course, saved, plan, finished, torn, forced>>
    BY DEF Crash
  <1>2. overtaken' = (overtaken \/ \E i \in 1..Len(todo) :
                        todo[i].do = "plan" /\ DOMAIN todo[i].tasks # DOMAIN plan)
    BY DEF Crash
  <1>3. cut' = IF todo # <<>> /\ Head(todo).do = "plan"
                 THEN cut \cup {t \in finished : t \in DOMAIN plan /\ plan[t].status # "completed"}
                 ELSE cut
    BY DEF Crash
  <1>4. DataInv'
    <2>1. crashes' \in 0..MaxCrashes
      BY <1>1, BoundsAssumption DEF IInv, DataInv
    <2>2. overtaken' \in BOOLEAN
      BY <1>2
    <2>3. cut' \in SUBSET Tasks
      BY <1>3 DEF IInv, DataInv
    <2>4. gens' \in [Generators -> GenRecs]
      BY <1>1, RestingIsGen DEF IInv, DataInv
    <2>5. QED
      BY <1>1, <2>1, <2>2, <2>3, <2>4 DEF IInv, DataInv
  <1>5. Whole'
    <2>1. CASE Whole
      BY <1>1, <1>2, <1>3, <2>1 DEF Whole, Keeps, Follows
    <2>2. CASE Saving
      <3>1. todo # <<>> /\ Head(todo).do = "plan"
        <4>1. PICK row, done : todo # <<>> /\ Head(todo) = PlanOf(row, done)
          BY <2>2, SavingParts
        <4>2. QED
          BY <4>1 DEF PlanOf
      <3>2. Keeps(plan, finished)'
        <4>1. cut' = cut \cup {t \in finished : t \in DOMAIN plan /\ plan[t].status # "completed"}
          BY <1>3, <3>1
        <4>2. Present(finished)
          BY <2>2 DEF Saving
        <4>3. QED
          BY <1>1, <1>2, <4>1, <4>2 DEF Keeps, Present
      <3>3. Follows(plan, course)'
        <4>1. CASE overtaken'
          BY <4>1 DEF Follows
        <4>2. CASE ~overtaken'
          <5>1. Follows(plan, course) /\ ~overtaken
            BY <1>2, <2>2, <4>2, UnsavedRow
          <5>2. QED
            BY <1>1, <5>1 DEF Follows
        <4>3. QED
          BY <4>1, <4>2
      <3>4. QED
        BY <3>2, <3>3 DEF Whole
    <2>3. QED
      BY <2>1, <2>2 DEF IInv, WorkInv, Rest, Learning, Asked, Earned, Replacing
  <1>6. Rest'
    BY <1>1, <1>5 DEF Rest
  <1>7. FreshInv'
    <2> SUFFICES ASSUME NEW g \in Generators, gens'[g].on, ~gens'[g].stale
                 PROVE  /\ DOMAIN gens'[g].base \cap Stages \subseteq course'.stages
                        /\ ~gens'[g].force /\ ~overtaken' => finished' \ cut' = {}
      BY DEF FreshInv
    <2>1. g \in Cli /\ gens'[g] = gens[g]
      BY <1>1, RestingIsGen
    <2>2. todo = <<>>
      BY <2>1 DEF IInv, CliInv
    <2>3. cut' = cut /\ overtaken' = overtaken
      BY <1>2, <1>3, <2>2 DEF IInv, DataInv
    <2>4. QED
      BY <1>1, <2>1, <2>3 DEF IInv, FreshInv
  <1>8. CliInv'
    BY <1>1 DEF CliInv
  <1>9. QED
    BY <1>4, <1>6, <1>7, <1>8 DEF IInv, WorkInv

-----------------------------------------------------------------------------
LEMMA StutterKeeps ==
  ASSUME IInv, UNCHANGED vars
  PROVE  IInv'
  <1>1. UNCHANGED <<course, saved, plan, gens, todo, finished, cut, overtaken, torn, forced, crashes>>
    BY DEF vars, history, bounds
  <1>2. DataInv'
    BY <1>1 DEF IInv, DataInv
  <1>3. WorkInv'
    <2>1. AllStale => AllStale'
      BY <1>1 DEF AllStale
    <2>2. QED
      BY <1>1, <2>1, WorkFrame DEF IInv
  <1>4. FreshInv'
    BY <1>1 DEF IInv, FreshInv
  <1>5. CliInv'
    BY <1>1 DEF IInv, CliInv
  <1>6. QED
    BY <1>2, <1>3, <1>4, <1>5 DEF IInv

LEMMA StepIInv == IInv /\ [Next]_vars => IInv'
  <1> SUFFICES ASSUME IInv, [Next]_vars PROVE IInv'
    OBVIOUS
  <1>1. ASSUME NEW g \in Generators, NEW due \in BOOLEAN, NEW force \in BOOLEAN,
               Generate(g, due, force)
        PROVE  IInv'
    BY <1>1, GenerateKeeps
  <1>2. ASSUME NEW g \in Generators, ModelPlans(g)
        PROVE  IInv'
    BY <1>2, ModelPlansKeeps
  <1>3. ASSUME NEW g \in Generators, ModelFails(g)
        PROVE  IInv'
    BY <1>3, ModelFailsKeeps
  <1>4. ASSUME NEW g \in Generators, Lost(g)
        PROVE  IInv'
    BY <1>4, LostKeeps
  <1>5. ASSUME NEW g \in Generators, NEW s \in Stages, CompleteStage(s, g)
        PROVE  IInv'
    BY <1>5, CompleteStageKeeps
  <1>6. ASSUME NEW t \in Tasks, StartTask(t)
        PROVE  IInv'
    BY <1>6, StartTaskKeeps
  <1>7. ASSUME NEW t \in Tasks, CompleteTask(t)
        PROVE  IInv'
    BY <1>7, CompleteTaskKeeps
  <1>8. ASSUME NEW t \in Tasks, NEW completed \in BOOLEAN, RecordResult(t, completed)
        PROVE  IInv'
    BY <1>8, RecordResultKeeps
  <1>9. ASSUME NEW c \in Courses, NEW due \in BOOLEAN, NEW planned \in BOOLEAN,
               ReplaceCourse(c, due, planned)
        PROVE  IInv'
    BY <1>9, ReplaceCourseKeeps
  <1>10. CASE WritePlan
    BY <1>10, WritePlanKeeps
  <1>11. CASE MarkStage
    BY <1>11, MarkStageKeeps
  <1>12. CASE WriteCourse
    BY <1>12, WriteCourseKeeps
  <1>13. CASE Learn
    BY <1>13, LearnKeeps
  <1>14. CASE Crash
    BY <1>14, CrashKeeps
  <1>15. CASE UNCHANGED vars
    BY <1>15, StutterKeeps
  <1>16. QED
    BY <1>1, <1>2, <1>3, <1>4, <1>5, <1>6, <1>7, <1>8, <1>9, <1>10, <1>11, <1>12,
       <1>13, <1>14, <1>15 DEF Next

(* Every state of today's plan satisfies the inductive invariant.          *)
THEOREM DailyInvariance == Spec => []IInv
  BY InitIInv, StepIInv, PTL DEF Spec

-----------------------------------------------------------------------------
LEMMA WritesAreTyped ==
  ASSUME IInv
  PROVE  \A i \in 1..Len(todo) : todo[i].do \in {"course", "mark", "plan", "learn"}
  <1> DEFINE Typed(s) == \A i \in 1..Len(s) : s[i].do \in {"course", "mark", "plan", "learn"}
             Known(a) == a.do \in {"course", "mark", "plan", "learn"}
  <1>1. \A row, done, t, S, asked, c :
          Known(PlanOf(row, done)) /\ Known(LearnOf(t, done))
            /\ Known(MarkOf(S, asked)) /\ Known(CourseOf(c))
    BY DEF PlanOf, LearnOf, MarkOf, CourseOf
  <1>2. ASSUME NEW a, NEW b, NEW c, Known(a), Known(b), Known(c),
               todo \in {<<>>, <<a>>, <<a, b>>, <<a, b, c>>}
        PROVE  Typed(todo)
    BY <1>2
  <1> HIDE DEF Typed, Known
  <1>3. Typed(todo)
    <2>1. CASE Rest
      BY <2>1, <1>1, <1>2 DEF Rest
    <2>2. CASE Saving
      <3>1. PICK row, done : \/ todo = <<PlanOf(row, done)>>
                             \/ \E S : todo = <<PlanOf(row, done), MarkOf(S, FALSE)>>
        BY <2>2 DEF Saving
      <3>2. PICK S : \/ todo = <<PlanOf(row, done)>>
                     \/ todo = <<PlanOf(row, done), MarkOf(S, FALSE)>>
        BY <3>1
      <3>3. QED
        BY <1>1, <1>2, <3>2
    <2>3. CASE Learning
      <3>1. PICK row, done, t :
              \/ todo = <<LearnOf(t, done), PlanOf(row, done)>>
              \/ \E S : todo = <<LearnOf(t, done), PlanOf(row, done), MarkOf(S, FALSE)>>
        BY <2>3 DEF Learning
      <3>2. PICK S : \/ todo = <<LearnOf(t, done), PlanOf(row, done)>>
                     \/ todo = <<LearnOf(t, done), PlanOf(row, done), MarkOf(S, FALSE)>>
        BY <3>1
      <3>3. QED
        BY <1>1, <1>2, <3>2
    <2>4. CASE Asked
      <3>1. PICK S : \/ todo = <<MarkOf(S, TRUE)>>
                     \/ \E row, done : todo = <<MarkOf(S, TRUE), PlanOf(row, done)>>
        BY <2>4 DEF Asked
      <3>2. PICK row, done : \/ todo = <<MarkOf(S, TRUE)>>
                             \/ todo = <<MarkOf(S, TRUE), PlanOf(row, done)>>
        BY <3>1
      <3>3. QED
        BY <1>1, <1>2, <3>2
    <2>5. CASE Earned
      <3>1. PICK S : todo = <<MarkOf(S, FALSE)>>
        BY <2>5 DEF Earned
      <3>2. QED
        BY <1>1, <1>2, <3>1
    <2>6. CASE Replacing
      <3>1. PICK c : \/ todo = <<CourseOf(c)>>
                     \/ \E row : todo = <<CourseOf(c), PlanOf(row, {})>>
        BY <2>6 DEF Replacing
      <3>2. PICK row : \/ todo = <<CourseOf(c)>>
                       \/ todo = <<CourseOf(c), PlanOf(row, {})>>
        BY <3>1
      <3>3. QED
        BY <1>1, <1>2, <3>2
    <2>7. QED
      BY <2>1, <2>2, <2>3, <2>4, <2>5, <2>6 DEF IInv, WorkInv
  <1>4. QED
    BY <1>3 DEF Typed

(* The variables of DailyPlans keep their types: a handler has only known  *)
(* writes before it, a task stands in the plan at most once and only       *)
(* stages of the course are completed, for every course and every drift of *)
(* the model that _model_plan accepts.                                     *)
THEOREM TypeCorrect == Spec => []TypeOK
  <1>1. IInv => TypeOK
    <2> SUFFICES ASSUME IInv PROVE TypeOK
      OBVIOUS
    <2>1. DOMAIN plan \subseteq Tasks /\ \A t \in DOMAIN plan : plan[t] \in Rows
      BY PlanIsFunction DEF IInv, DataInv
    <2>2. \A g \in Generators :
            /\ gens[g].on \in BOOLEAN /\ gens[g].force \in BOOLEAN /\ gens[g].stale \in BOOLEAN
            /\ gens[g].base \in Plans
      BY DEF IInv, DataInv, GenRecs
    <2>3. \A g \in Generators : DOMAIN gens[g].base \subseteq Tasks
      BY <2>2, PlanIsFunction
    <2>4. QED
      BY <2>1, <2>2, <2>3, WritesAreTyped DEF TypeOK, IInv, DataInv, CourseRecs
  <1>2. QED
    BY <1>1, DailyInvariance, PTL

(* A task the learner finished is shown as completed when no handler runs, *)
(* unless its report died halfway or a generation in progress saved over   *)
(* it (generate_daily_plan, save_task_result, mark_task_complete).         *)
THEOREM FinishedTasksKept == Spec => []FinishedTaskKept
  <1>1. IInv => FinishedTaskKept
    BY RestWhenFree DEF IInv, FinishedTaskKept, Shown, Whole, Keeps
  <1>2. QED
    BY <1>1, DailyInvariance, PTL

(* Every stage task of today's plan stands for a stage of the present      *)
(* course, unless a generation begun under another course saved late or an *)
(* approval ended between the course and the plan (decide_action).         *)
THEOREM PlansFollowCourse == Spec => []PlanFollowsCourse
  <1>1. IInv => PlanFollowsCourse
    BY RestWhenFree DEF IInv, PlanFollowsCourse, Whole, Follows
  <1>2. QED
    BY <1>1, DailyInvariance, PTL

(* A stage is completed only because the learner named it or because no    *)
(* stage task of the stored plan is left, unless the CLI has just saved    *)
(* over that plan: no generation, start, crash or half-done report marks   *)
(* one (mark_task_complete, mark_stage_completed).                         *)
THEOREM StagesEarned == Spec => StagesAreEarned
  <1> DEFINE Earning ==
        \A s \in course'.done \ course.done :
          course'.version = course.version =>
            Head(todo).asked \/ StageTasksDone(plan) \/ torn
  <1>1. IInv /\ [Next]_vars => [Earning]_vars
    <2> SUFFICES ASSUME IInv, [Next]_vars PROVE course' = course \/ Earning
      BY DEF vars
    <2>1. CASE MarkStage
      <3>1. todo # <<>> /\ Head(todo).do = "mark"
        BY <2>1 DEF MarkStage
      <3>2. Asked \/ Earned
        BY <3>1, NextWrite DEF IInv
      <3>3. PICK S, asked : Head(todo) = MarkOf(S, asked) /\ (asked = TRUE \/ Earned)
        BY <3>2, MarkingParts
      <3>4. Head(todo).asked \/ StageTasksDone(plan) \/ torn
        BY <3>3 DEF MarkOf, Earned
      <3>5. QED
        BY <3>4
    <2>2. CASE WriteCourse
      <3>1. /\ todo # <<>> /\ Head(todo).do = "course"
            /\ course' = Head(todo).course
        BY <2>2 DEF WriteCourse, Write
      <3>2. PICK c \in CourseRecs : c.version = course.version + 1 /\ Head(todo) = CourseOf(c)
        BY <3>1, NextWrite, ReplacingParts DEF IInv
      <3>3. course.version \in Nat
        BY DEF IInv, DataInv, CourseRecs
      <3>4. course'.version # course.version
        BY <3>1, <3>2, <3>3 DEF CourseOf
      <3>5. QED
        BY <3>4
    <2>3. QED
      <3>1. ~MarkStage /\ ~WriteCourse => course' = course
        BY DEF Next, vars, Generate, ModelPlans, ModelFails, SavePlan, Lost, CompleteStage,
               StartTask, CompleteTask, RecordResult, ReplaceCourse, WritePlan, Learn, Crash
      <3>2. QED
        BY <2>1, <2>2, <3>1
  <1>2. QED
    BY <1>1, DailyInvariance, PTL DEF Spec, StagesAreEarned
=============================================================================
