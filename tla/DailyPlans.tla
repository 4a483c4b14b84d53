------------------------------ MODULE DailyPlans ------------------------------
(***************************************************************************)
(* Today's plan of one session (learning/daily.py): it is generated from   *)
(* the course, improved by a model that is awaited, saved as one row, and  *)
(* changed by the learner, who starts tasks, completes them, reports       *)
(* results and completes stages (web/app.py, agent/service.py), while an   *)
(* approved plan may replace course.json.                                  *)
(*                                                                         *)
(* The web routes and the scheduler's autonomous run share one asyncio     *)
(* loop, so between awaits a handler runs alone; what it writes is kept in *)
(* todo, in order, because the process may die between two writes.         *)
(* Several generations may await the model at once; each saves the whole   *)
(* row when its answer comes.  Those of the CLI (cli.py plan) run in a     *)
(* process of their own: they neither wait for the loop, so one may begin  *)
(* or save between two writes of a handler, nor die with the server.       *)
(*                                                                         *)
(* Data: a stage task is named after its stage; texts, minutes and scores  *)
(* are left out, a task in progress is open.  How many stages fit in a day *)
(* follows from the minutes of the learner and is PerDay here.             *)
(*                                                                         *)
(* A definition marked "fault" is a plausible slip in the one that follows *)
(* it; no action uses it, it serves to see that a property notices.        *)
(***************************************************************************)
EXTENDS Naturals, Sequences, FiniteSets, SequencesExt

CONSTANTS
  StageOrder,   (* the stage ids courses use, in the order of a course     *)
  Courses,      (* what course.json may hold: stages, and completed ones   *)
  PerDay,       (* stage tasks in a plan, at most three                    *)
  Drift,        (* <<task, stage id>> a model may put into it by mistake   *)
  Generators,   (* requests for a plan that may be in progress at once     *)
  Cli,          (* those of them made by the CLI                           *)
  MaxCourses,   (* bound: courses approved                                 *)
  MaxForced,    (* bound: forced generations                               *)
  MaxCrashes    (* bound: deaths of the server                             *)

Stages == ToSet(StageOrder)
Others == {"reviews", "setup"}
Tasks == Stages \cup Others
NoStage == "no stage"

ASSUME StagesAssumption ==
  /\ IsInjective(StageOrder)
  /\ (Others \cup {NoStage}) \cap Stages = {}
  /\ \A c \in Courses : c.stages \subseteq Stages /\ c.done \subseteq c.stages
  /\ Drift \subseteq Tasks \X (Stages \cup {NoStage})

ASSUME CliAssumption == Cli \subseteq Generators

ASSUME BoundsAssumption ==
  PerDay \in 1..3 /\ MaxCourses \in Nat /\ MaxForced \in Nat /\ MaxCrashes \in Nat

VARIABLES
  course,     (* course.json: a count of approvals, its stages, the completed *)
              (* ones                                                      *)
  saved,      (* today's row of daily_plans exists                         *)
  plan,       (* its tasks                                                 *)
  gens,       (* the generations in progress, volatile                     *)
  todo,       (* writes the running handler has still to do                *)
  finished,   (* history: tasks last reported or marked as finished        *)
  cut,        (* history: tasks whose report died before the plan was saved *)
  overtaken,  (* history: a generation saved over something newer, or an   *)
              (* approval ended between the course and today's plan        *)
  torn,       (* history: the CLI saved below a handler, which did not save *)
              (* the plan since                                            *)
  forced, crashes

history == <<finished, cut, overtaken, torn>>
bounds == <<forced, crashes>>
vars == <<course, saved, plan, gens, todo, history, bounds>>

Rows == [status : {"open", "completed"}, stage : Stages \cup {NoStage}]
NoTasks == [t \in {} |-> t]
Resting == [on |-> FALSE, base |-> NoTasks, force |-> FALSE, stale |-> FALSE]

TypeOK ==
  /\ course \in [version : 0..MaxCourses, stages : SUBSET Stages, done : SUBSET Stages]
  /\ course.done \subseteq course.stages
  /\ saved \in BOOLEAN
  /\ DOMAIN plan \subseteq Tasks
  /\ \A t \in DOMAIN plan : plan[t] \in Rows
  /\ \A g \in Generators :
       /\ gens[g].on \in BOOLEAN /\ gens[g].force \in BOOLEAN /\ gens[g].stale \in BOOLEAN
       /\ DOMAIN gens[g].base \subseteq Tasks
  /\ \A i \in 1..Len(todo) : todo[i].do \in {"course", "mark", "plan", "learn"}
  /\ finished \in SUBSET Tasks /\ cut \in SUBSET Tasks
  /\ overtaken \in BOOLEAN /\ torn \in BOOLEAN
  /\ forced \in 0..MaxForced /\ crashes \in 0..MaxCrashes

Course(version, c) == [version |-> version, stages |-> c.stages, done |-> c.done]

(* A day begins with the course of the days before and without a plan.     *)
Init ==
  /\ \E c \in Courses : course = Course(0, c)
  /\ saved = FALSE
  /\ plan = NoTasks
  /\ gens = [g \in Generators |-> Resting]
  /\ todo = <<>>
  /\ finished = {} /\ cut = {}
  /\ overtaken = FALSE /\ torn = FALSE
  /\ forced = 0 /\ crashes = 0

-----------------------------------------------------------------------------
(* _deterministic_plan: the first open stages of the course, reviews when  *)
(* some are due and minutes are left, and a setup task when that is all.   *)
StageOf(t) == IF t \in Stages THEN t ELSE NoStage

Position(s) == CHOOSE i \in 1..Len(StageOrder) : StageOrder[i] = s

BaseTasks(c, due) ==
  LET open == c.stages \ c.done
      first == {s \in open : Cardinality({u \in open : Position(u) < Position(s)}) < PerDay}
      chosen == first \cup (IF due THEN {"reviews"} ELSE {})
  IN IF chosen = {} THEN {"setup"} ELSE chosen

Base(c, due) == [t \in BaseTasks(c, due) |-> [status |-> "open", stage |-> StageOf(t)]]

(* What _model_plan accepts: some of the base's tasks, in the state and    *)
(* with the stage id the model gives them.                                 *)
Accepted(base) ==
  {c \in UNION {[T -> Rows] : T \in SUBSET DOMAIN base} :
     \A t \in DOMAIN c : c[t].stage = StageOf(t) \/ <<t, c[t].stage>> \in Drift}

LoopFree == todo = <<>>
Runs(g) == LoopFree \/ g \in Cli

(* A write of the learner makes every generation in progress stale.        *)
Outdated == [g \in Generators |-> [gens[g] EXCEPT !.stale = gens[g].on]]

-----------------------------------------------------------------------------
(* Generating.                                                             *)

(* What the handler below it has still to write is newer, too.             *)
Awaits(base, force, stale) ==
  [on |-> TRUE, base |-> base, force |-> force, stale |-> stale]

(* Fault: a plan that is there is generated again.                         *)
Regenerates(g, due, force) ==
  /\ Runs(g) /\ ~gens[g].on
  /\ force => forced < MaxForced /\ g \notin Cli
  /\ forced' = IF force THEN forced + 1 ELSE forced
  /\ gens' = [gens EXCEPT ![g] = Awaits(Base(course, due), force, ~LoopFree)]
  /\ UNCHANGED <<course, saved, plan, todo, history, crashes>>

(* generate_daily_plan up to the model call: an existing plan is returned  *)
(* unless the request forces a new one, which the CLI never does.          *)
Generate(g, due, force) ==
  /\ Runs(g) /\ ~gens[g].on
  /\ saved => force
  /\ force => forced < MaxForced /\ g \notin Cli
  /\ forced' = IF force THEN forced + 1 ELSE forced
  /\ gens' = [gens EXCEPT ![g] = Awaits(Base(course, due), force, ~LoopFree)]
  /\ UNCHANGED <<course, saved, plan, todo, history, crashes>>

(* The model answered, or it failed or broke a constraint and the base     *)
(* stands: the row is saved, whatever it holds by now.                     *)
SavePlan(g, tasks) ==
  /\ Runs(g) /\ gens[g].on
  /\ saved' = TRUE
  /\ plan' = tasks
  /\ finished' = IF gens[g].force THEN {} ELSE finished
  /\ cut' = IF gens[g].force THEN {} ELSE cut
  /\ overtaken' = (overtaken \/ gens[g].stale)
  /\ torn' = ~LoopFree
  /\ gens' = [gens EXCEPT ![g] = Resting]
  /\ UNCHANGED <<course, todo, bounds>>

ModelPlans(g) == \E c \in Accepted(gens[g].base) : SavePlan(g, c)
ModelFails(g) == SavePlan(g, gens[g].base)

(* The CLI's process dies, or stop() cancels the scheduler's run.          *)
Lost(g) ==
  /\ gens[g].on
  /\ gens' = [gens EXCEPT ![g] = Resting]
  /\ UNCHANGED <<course, saved, plan, todo, history, bounds>>

-----------------------------------------------------------------------------
(* The learner.                                                            *)

SavesPlan(tasks, done) == <<[do |-> "plan", tasks |-> tasks, done |-> done]>>

(* The stages a handler marks, in the order of its tasks, which the model  *)
(* may have arranged; an id the course does not have is passed over.       *)
MarkAll(stages, asked) ==
  IF stages = {} THEN <<>> ELSE <<[do |-> "mark", stages |-> stages, asked |-> asked]>>

(* Fault: a stage id the course does not have is marked all the same.      *)
MarksUnknown(stages, asked) == MarkAll(stages, asked)

Marks(stages, asked) == MarkAll(stages \cap course.stages, asked)

StagesIn(tasks) == {tasks[t].stage : t \in DOMAIN tasks} \ {NoStage}
StageTasksDone(tasks) ==
  \A t \in DOMAIN tasks : tasks[t].stage # NoStage => tasks[t].status = "completed"

(* Fault: a stage is marked when its own task is completed.                *)
MarksEarly(tasks) ==
  Marks({tasks[t].stage : t \in {u \in DOMAIN tasks : tasks[u].status = "completed"}}, FALSE)

(* Once every stage task is completed, every stage of the plan is marked.  *)
MarksOf(tasks) == IF StageTasksDone(tasks) THEN Marks(StagesIn(tasks), FALSE) ELSE <<>>

With(t, status) == [plan EXCEPT ![t].status = status]

(* A started task is open as before, a completed one stays completed; the  *)
(* row is saved as it was read.                                            *)
StartTask(t) ==
  /\ LoopFree
  /\ t \in DOMAIN plan
  /\ todo' = SavesPlan(plan, finished)
  /\ gens' = Outdated
  /\ UNCHANGED <<course, saved, plan, history, bounds>>

CompleteTask(t) ==
  /\ LoopFree
  /\ t \in DOMAIN plan
  /\ todo' = SavesPlan(With(t, "completed"), finished \cup {t}) \o MarksOf(With(t, "completed"))
  /\ gens' = Outdated
  /\ UNCHANGED <<course, saved, plan, history, bounds>>

(* A result goes through the learning tool first, then into the plan.      *)
RecordResult(t, completed) ==
  LET row == With(t, IF completed THEN "completed" ELSE "open")
      done == IF completed THEN finished \cup {t} ELSE finished \ {t}
  IN
  /\ LoopFree
  /\ t \in DOMAIN plan
  /\ todo' = <<[do |-> "learn", task |-> t, done |-> done]>> \o SavesPlan(row, done) \o MarksOf(row)
  /\ gens' = Outdated
  /\ UNCHANGED <<course, saved, plan, history, bounds>>

(* complete_task with a stage id: the course first, then the tasks of that *)
(* stage, or a plan if there is none yet.                                  *)
CompleteStage(s, g) ==
  LET its == {t \in DOMAIN plan : plan[t].stage = s}
      row == [t \in DOMAIN plan |-> IF t \in its THEN [plan[t] EXCEPT !.status = "completed"]
                                                 ELSE plan[t]]
  IN
  /\ LoopFree
  /\ s \in course.stages
  /\ IF saved
       THEN /\ todo' = Marks({s}, TRUE) \o SavesPlan(row, finished \cup its)
            /\ gens' = Outdated
       ELSE /\ ~gens[g].on /\ g \notin Cli
            /\ todo' = Marks({s}, TRUE)
            /\ \E due \in BOOLEAN :
                 gens' = [Outdated EXCEPT ![g] =
                            Awaits(Base([course EXCEPT !.done = @ \cup {s}], due), FALSE, FALSE)]
  /\ UNCHANGED <<course, saved, plan, finished, cut, overtaken, torn, bounds>>

(* Fault: today's plan is computed before the course is replaced.          *)
PlansOldCourse(approved, due, planned) ==
  LET c == Course(course.version + 1, approved) IN
  /\ LoopFree
  /\ course.version < MaxCourses
  /\ todo' = <<[do |-> "course", course |-> c]>>
             \o (IF planned THEN SavesPlan(Base(course, due), {}) ELSE <<>>)
  /\ gens' = Outdated
  /\ overtaken' = (overtaken \/ ~planned)
  /\ UNCHANGED <<course, saved, plan, finished, cut, torn, bounds>>

(* EXECUTE of a plan card: course.json is replaced, then today's plan is   *)
(* made from it without a model (unless computing it raises).              *)
ReplaceCourse(approved, due, planned) ==
  LET c == Course(course.version + 1, approved) IN
  /\ LoopFree
  /\ course.version < MaxCourses
  /\ todo' = <<[do |-> "course", course |-> c]>>
             \o (IF planned THEN SavesPlan(Base(c, due), {}) ELSE <<>>)
  /\ gens' = Outdated
  /\ overtaken' = (overtaken \/ ~planned)
  /\ UNCHANGED <<course, saved, plan, finished, cut, torn, bounds>>

-----------------------------------------------------------------------------
(* The writes of a handler, one by one.                                    *)
Write(do) == todo # <<>> /\ Head(todo).do = do /\ todo' = Tail(todo)

WritePlan ==
  /\ Write("plan")
  /\ saved' = TRUE
  /\ plan' = Head(todo).tasks
  /\ finished' = Head(todo).done
  /\ cut' = cut \cap Head(todo).done
  /\ torn' = FALSE
  /\ UNCHANGED <<course, gens, overtaken, bounds>>

MarkStage ==
  /\ todo # <<>> /\ Head(todo).do = "mark"
  /\ \E s \in Head(todo).stages :
       /\ course' = [course EXCEPT !.done = @ \cup {s}]
       /\ todo' = MarkAll(Head(todo).stages \ {s}, Head(todo).asked) \o Tail(todo)
  /\ UNCHANGED <<saved, plan, gens, history, bounds>>

WriteCourse ==
  /\ Write("course")
  /\ course' = Head(todo).course
  /\ UNCHANGED <<saved, plan, gens, history, bounds>>

Learn ==
  /\ Write("learn")
  /\ finished' = Head(todo).done
  /\ UNCHANGED <<course, saved, plan, gens, cut, overtaken, torn, bounds>>

(* The server dies: a report the learning files already have may miss in  *)
(* the plan, a new course may stand beside the old plan.                   *)
Crash ==
  /\ crashes < MaxCrashes
  /\ crashes' = crashes + 1
  /\ todo' = <<>>
  /\ gens' = [g \in Generators |-> IF g \in Cli THEN gens[g] ELSE Resting]
  /\ cut' = IF todo # <<>> /\ Head(todo).do = "plan"
              THEN cut \cup {t \in finished : t \in DOMAIN plan /\ plan[t].status # "completed"}
              ELSE cut
  /\ overtaken' = (overtaken \/ \E i \in 1..Len(todo) :
                                  todo[i].do = "plan" /\ DOMAIN todo[i].tasks # DOMAIN plan)
  /\ UNCHANGED <<course, saved, plan, finished, torn, forced>>

Next ==
  \/ \E g \in Generators :
       \/ \E due, force \in BOOLEAN : Generate(g, due, force)
       \/ ModelPlans(g)
       \/ ModelFails(g)
       \/ Lost(g)
       \/ \E s \in Stages : CompleteStage(s, g)
  \/ \E t \in Tasks :
       \/ StartTask(t)
       \/ CompleteTask(t)
       \/ \E completed \in BOOLEAN : RecordResult(t, completed)
  \/ \E c \in Courses : \E due, planned \in BOOLEAN : ReplaceCourse(c, due, planned)
  \/ WritePlan
  \/ MarkStage
  \/ WriteCourse
  \/ Learn
  \/ Crash

Spec == Init /\ [][Next]_vars

-----------------------------------------------------------------------------
(* Properties.                                                             *)

(* A task the learner finished (its result is in the learning files, or it *)
(* was ticked off) is shown as completed, unless the report died halfway   *)
(* or a generation that was in progress saved over it: starting it again,  *)
(* other tasks, other requests for the plan, completed stages and restarts *)
(* do not undo it.                                                         *)
Shown(t) == t \in DOMAIN plan /\ plan[t].status = "completed"

FinishedTaskKept ==
  LoopFree /\ ~overtaken => \A t \in finished \ cut : Shown(t)

(* Today's plan is about the course there is: every stage task stands for  *)
(* a stage of course.json, unless a generation begun under another course  *)
(* saved late or an approval ended halfway.                                *)
PlanFollowsCourse ==
  LoopFree /\ ~overtaken => DOMAIN plan \cap Stages \subseteq course.stages

(* A stage is completed only at the learner's word: as a stage, or when no *)
(* stage task of the stored plan is left, except when the CLI saves its    *)
(* own plan in just that moment.                                           *)
StagesAreEarned ==
  [][\A s \in course'.done \ course.done :
       course'.version = course.version =>
         Head(todo).asked \/ StageTasksDone(plan) \/ torn]_vars
=============================================================================
