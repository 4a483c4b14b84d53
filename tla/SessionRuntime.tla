---------------------------- MODULE SessionRuntime ----------------------------
(***************************************************************************)
(* One learning session: its turns (agent/runtime.py run_turn), the cards  *)
(* a user decides (agent/service.py decide_action), the plan proposals and *)
(* their effect-ledger rows (learning/tools.py ProposeCoursePlan), and the *)
(* recovery at the start of a process (mark_interrupted_runs).             *)
(*                                                                         *)
(* The server is one asyncio loop.  Between two awaits a handler runs      *)
(* alone, but each of its db statements commits by itself.  So an action   *)
(* that models a handler puts the statements it will issue, in order, into *)
(* todo; the Write actions issue them one by one; no other handler of this *)
(* process starts before todo is empty; the process may die in between.    *)
(* A second process (the CLI builds an AgentService too) marks interrupted *)
(* runs while this server is alive.                                        *)
(*                                                                         *)
(* Data: a course plan is a member of Plans; a message is what the skill   *)
(* selection sees in it; events, artifacts and texts are left out.         *)
(*                                                                         *)
(* A definition marked "fault" is a plausible slip in the one that follows  *)
(* it; no action uses it, it serves to see that a property notices.        *)
(***************************************************************************)
EXTENDS Naturals, Sequences, FiniteSets

CONSTANTS
  Plans,        (* course plans a planner may produce                      *)
  Texts,        (* kinds of user message: see SkillFor                     *)
  Suggestions,  (* texts of a SUGGEST decision                             *)
  MaxRuns,      (* bound: turns that are started                           *)
  MaxMessages,  (* bound: user messages                                    *)
  MaxCards,     (* bound: action cards and approvals                       *)
  MaxSaves,     (* bound: how often one plan is saved to course.json       *)
  MaxCrashes,   (* bound: deaths of the server process                     *)
  MaxCli,       (* bound: other processes started beside the server        *)
  NoKey         (* the proposal of an approval that does not exist         *)

ASSUME BoundsAssumption ==
  /\ MaxRuns \in Nat /\ MaxMessages \in Nat /\ MaxCards \in Nat
  /\ MaxSaves \in Nat /\ MaxCrashes \in Nat /\ MaxCli \in Nat

ASSUME TextsAssumption == Texts \subseteq {"recovery", "plan", "goal", "other"}

ASSUME ReasonsAssumption == "planned" \notin Suggestions

VARIABLES
  session,    (* its row: status, latest user message and what it asks     *)
  runs,       (* runs and the latest checkpoint of each                    *)
  cards,      (* actions                                                   *)
  approvals,  (* approvals; a plan card and its approval share their id    *)
  course,     (* course.json: how often the plan of an approval was saved *)
  effects,    (* tool_effects of create_or_replace_course_plan             *)
  ready,      (* learner.json: the four goal slots are filled              *)
  up,         (* the server process lives                                  *)
  todo,       (* statements the running handler has still to issue         *)
  marking,    (* runs the start of the server has still to mark, volatile  *)
  turn,       (* the task of the active turn, volatile                     *)
  deciding,   (* decisions that await a planner, volatile                  *)
  cli,        (* runs another process has still to mark                    *)
  handling,   (* history: the approval an unfinished decision is about   *)
  cut,        (* history: approvals of decisions that ended halfway        *)
  crashes, clis

tables == <<session, runs, cards, approvals, course, effects, ready>>
bounds == <<crashes, clis>>
vars == <<tables, up, todo, marking, turn, deciding, cli, handling, cut, bounds>>

RunIds == 1..MaxRuns
Ids == 1..MaxCards
NoRun == 0      (* a run id decide_action makes up, with no row in runs    *)
NoId == 0

Reasons == {"planned"} \cup Suggestions
Keys == [source : 0..MaxMessages, plan : Plans, reason : Reasons]

ASSUME NoKeyAssumption == NoKey \notin Keys

SessionStatus == {"idle", "running", "awaiting_approval", "completed", "failed", "recovering"}
RunStatus == {"absent", "running", "awaiting_action", "completed", "failed", "recovering"}
Stages == {"received", "context_ready", "model_completed", "awaiting_action", "completed",
           "failed", "cancelled"}
CardStatus == {"pending", "completed", "rejected", "cancelled"}
Skills == {"goal-anchoring", "planning", "tutoring"}

TypeOK ==
  /\ session \in [status : SessionStatus, latest : 0..MaxMessages, text : Texts \cup {"none"}]
  /\ runs \in [RunIds -> [status : RunStatus, stage : Stages, checkpoint : Stages \cup {"none"}]]
  /\ cards \in [Ids -> [kind : {"absent", "checkpoint", "plan"}, status : CardStatus,
                        run : RunIds \cup {NoRun}, approval : Ids \cup {NoId}, next : BOOLEAN]]
  /\ approvals \in [Ids -> [status : {"absent", "pending", "approved", "rejected"},
                            run : RunIds \cup {NoRun}, key : Keys \cup {NoKey}]]
  /\ course \in [Ids -> [saved : 0..MaxSaves]]
  /\ effects \in [Keys -> [status : {"absent", "reserved", "completed"},
                           approval : Ids \cup {NoId}]]
  /\ ready \in BOOLEAN
  /\ up \in BOOLEAN
  /\ \A i \in 1..Len(todo) :
       todo[i].table \in {"session", "runs", "cards", "approvals", "course", "effects"}
  /\ marking \in SUBSET RunIds
  /\ turn \in [pc : {"none", "queued", "agent", "compact", "finish"}, run : RunIds \cup {NoRun},
               text : Texts \cup {"none"}, persist : BOOLEAN, skill : Skills \cup {"none"}]
  /\ deciding \in SUBSET [card : Ids, reason : Reasons]
  /\ cli \in SUBSET RunIds
  /\ handling \in Ids \cup {NoId}
  /\ cut \in SUBSET Ids
  /\ crashes \in 0..MaxCrashes
  /\ clis \in 0..MaxCli

NoTurn == [pc |-> "none", run |-> NoRun, text |-> "none", persist |-> FALSE, skill |-> "none"]

Init ==
  /\ session = [status |-> "idle", latest |-> 0, text |-> "none"]
  /\ runs = [r \in RunIds |-> [status |-> "absent", stage |-> "received", checkpoint |-> "none"]]
  /\ cards = [c \in Ids |-> [kind |-> "absent", status |-> "pending", run |-> NoRun,
                             approval |-> NoId, next |-> FALSE]]
  /\ approvals = [a \in Ids |-> [status |-> "absent", run |-> NoRun, key |-> NoKey]]
  /\ course = [a \in Ids |-> [saved |-> 0]]
  /\ effects = [k \in Keys |-> [status |-> "absent", approval |-> NoId]]
  /\ ready = FALSE
  /\ up = TRUE
  /\ todo = <<>>
  /\ marking = {}
  /\ turn = NoTurn
  /\ deciding = {}
  /\ cli = {}
  /\ handling = NoId
  /\ cut = {}
  /\ crashes = 0 /\ clis = 0

-----------------------------------------------------------------------------
(* Statements.                                                             *)

(* An UPDATE sets the columns it names and leaves the others.              *)
Merge(row, set) == [f \in DOMAIN row |-> IF f \in DOMAIN set THEN set[f] ELSE row[f]]

SessionRow(set) == <<[table |-> "session", row |-> NoId, set |-> set]>>
RunRow(r, set) == IF r = NoRun THEN <<>> ELSE <<[table |-> "runs", row |-> r, set |-> set]>>
CardRow(c, set) == <<[table |-> "cards", row |-> c, set |-> set]>>
ApprovalRow(a, set) == <<[table |-> "approvals", row |-> a, set |-> set]>>
CourseRow(a, set) == <<[table |-> "course", row |-> a, set |-> set]>>
EffectRow(k, set) == <<[table |-> "effects", row |-> k, set |-> set]>>

SessionIs(status) == SessionRow([status |-> status])

(* _checkpoint: the stage of the run, then the checkpoint row.             *)
Checkpoint(r, stage) == RunRow(r, [stage |-> stage]) \o RunRow(r, [checkpoint |-> stage])

(* Issue the next statement if it is for table t.                          *)
Issue(t) ==
  /\ up
  /\ todo # <<>>
  /\ Head(todo).table = t
  /\ todo' = Tail(todo)
  /\ handling' = IF Tail(todo) = <<>> THEN NoId ELSE handling
  /\ UNCHANGED <<ready, up, marking, turn, deciding, cli, cut, bounds>>

WriteSession ==
  /\ Issue("session")
  /\ session' = Merge(session, Head(todo).set)
  /\ UNCHANGED <<runs, cards, approvals, course, effects>>

WriteRun ==
  /\ Issue("runs")
  /\ runs' = [runs EXCEPT ![Head(todo).row] = Merge(@, Head(todo).set)]
  /\ UNCHANGED <<session, cards, approvals, course, effects>>

WriteCard ==
  /\ Issue("cards")
  /\ cards' = [cards EXCEPT ![Head(todo).row] = Merge(@, Head(todo).set)]
  /\ UNCHANGED <<session, runs, approvals, course, effects>>

WriteApproval ==
  /\ Issue("approvals")
  /\ approvals' = [approvals EXCEPT ![Head(todo).row] = Merge(@, Head(todo).set)]
  /\ UNCHANGED <<session, runs, cards, course, effects>>

WriteCourse ==
  /\ Issue("course")
  /\ course' = [course EXCEPT ![Head(todo).row] = Merge(@, Head(todo).set)]
  /\ UNCHANGED <<session, runs, cards, approvals, effects>>

WriteEffect ==
  /\ Issue("effects")
  /\ effects' = [effects EXCEPT ![Head(todo).row] = Merge(@, Head(todo).set)]
  /\ UNCHANGED <<session, runs, cards, approvals, course>>

(* The loop is free to run a handler: no statement is left, the start is   *)
(* over, and no turn is between its last await and its end.                *)
LoopFree == up /\ todo = <<>> /\ marking = {} /\ turn.pc # "finish"

-----------------------------------------------------------------------------
(* What handlers read.                                                     *)

UsedRuns == {r \in RunIds : runs[r].status # "absent"}
NextRun == Cardinality(UsedRuns) + 1
UsedIds == {c \in Ids : cards[c].kind # "absent" \/ approvals[c].status # "absent"}
NextId == Cardinality(UsedIds) + 1

(* Bound: nothing starts that could need a card beyond MaxCards.           *)
RoomForCard ==
  Cardinality(UsedIds) + Cardinality(deciding)
    + (IF turn.pc \in {"queued", "agent"} THEN 1 ELSE 0) < MaxCards

PendingCards == {c \in Ids : cards[c].kind # "absent" /\ cards[c].status = "pending"}
HasCourse == \E a \in Ids : course[a].saved > 0

(* SkillCatalog.select: course-planning and plan-recovery run the same     *)
(* planning flow; review-coaching and daily-tutoring only teach.  Whether  *)
(* reviews are due (or asked for) is an input.                             *)
SkillFor(text, due) ==
  IF text = "recovery" THEN "planning"
  ELSE IF due THEN "tutoring"
  ELSE IF text = "plan" \/ (~HasCourse /\ ready) THEN "planning"
  ELSE IF ~HasCourse \/ text = "goal" THEN "goal-anchoring"
  ELSE "tutoring"

-----------------------------------------------------------------------------
(* Proposing a plan (ProposeCoursePlan.execute).                           *)

ProposalKey(p, reason) == [source |-> session.latest, plan |-> p, reason |-> reason]

(* Fault: a reserved row is tried again.                                   *)
RetriesReserved(k) == effects[k].status # "completed"

(* The ledger lets a proposal through that nobody made; a completed one is *)
(* answered from it, a reserved one raises.                                *)
IsNewProposal(k) == effects[k].status = "absent"
IsMadeProposal(k) == effects[k].status = "completed"
IsStuckProposal(k) == effects[k].status = "reserved"

PlanCard(r, a, next) ==
  [kind |-> "plan", status |-> "pending", run |-> r, approval |-> a, next |-> next]

ProposalRows(k, r) ==
  LET a == NextId IN
    EffectRow(k, [status |-> "reserved"])
    \o ApprovalRow(a, [status |-> "pending", run |-> r, key |-> k])
    \o CardRow(a, PlanCard(r, a, TRUE))
    \o SessionIs("awaiting_approval")
    \o EffectRow(k, [status |-> "completed", approval |-> a])

-----------------------------------------------------------------------------
(* Turns.                                                                  *)

(* submit: one turn per session at a time; the row and the message come    *)
(* only when the task has the semaphore and the session's lock.            *)
Submit(text) ==
  /\ LoopFree
  /\ turn.pc = "none"
  /\ NextRun \in RunIds /\ RoomForCard
  /\ session.latest < MaxMessages
  /\ turn' = [NoTurn EXCEPT !.pc = "queued", !.text = text, !.persist = TRUE]
  /\ UNCHANGED <<tables, up, marking, todo, deciding, cli, handling, cut, bounds>>

(* POST retry: the latest user message again, not persisted again.         *)
Retry ==
  /\ LoopFree
  /\ turn.pc = "none"
  /\ NextRun \in RunIds /\ RoomForCard
  /\ session.latest > 0
  /\ turn' = [NoTurn EXCEPT !.pc = "queued", !.text = session.text]
  /\ UNCHANGED <<tables, up, marking, todo, deciding, cli, handling, cut, bounds>>

(* run_turn up to its first await, the call of the agent.                  *)
StartTurn(due) ==
  LET r == NextRun IN
  /\ LoopFree
  /\ turn.pc = "queued"
  /\ todo' = RunRow(r, [status |-> "running", stage |-> "received"])
             \o SessionIs("running")
             \o (IF turn.persist
                   THEN SessionRow([latest |-> session.latest + 1, text |-> turn.text])
                   ELSE <<>>)
             \o Checkpoint(r, "received")
             \o Checkpoint(r, "context_ready")
  /\ turn' = [NoTurn EXCEPT !.pc = "agent", !.run = r, !.skill = SkillFor(turn.text, due)]
  /\ UNCHANGED <<tables, up, marking, deciding, cli, handling, cut, bounds>>

(* While anchoring the goal the agent calls update_learner_profile; the    *)
(* last missing slot is filled.                                            *)
FillGoal ==
  /\ LoopFree
  /\ turn.pc = "agent" /\ turn.skill = "goal-anchoring"
  /\ ~ready
  /\ ready' = TRUE
  /\ UNCHANGED <<session, runs, cards, approvals, course, effects, up, todo, marking, turn,
                 deciding, cli, handling, cut, bounds>>

(* _maybe_create_goal_checkpoint.                                          *)
GoalCheckpoint ==
  IF turn.skill = "goal-anchoring" /\ PendingCards = {} /\ ~HasCourse /\ ready
    THEN CardRow(NextId, [kind |-> "checkpoint", status |-> "pending", run |-> turn.run,
                          approval |-> NoId, next |-> TRUE])
         \o SessionIs("awaiting_approval")
    ELSE <<>>

(* The agent answered: the rest of run_turn up to the compaction, which    *)
(* awaits a model or returns at once.                                      *)
Answered(rows, compacts) ==
  /\ todo' = rows \o Checkpoint(turn.run, "model_completed") \o GoalCheckpoint
  /\ turn' = [turn EXCEPT !.pc = IF compacts THEN "compact" ELSE "finish", !.skill = "none"]

AgentAnswers(compacts) ==
  /\ LoopFree
  /\ turn.pc = "agent" /\ turn.skill # "planning"
  /\ Answered(<<>>, compacts)
  /\ UNCHANGED <<tables, up, marking, deciding, cli, handling, cut, bounds>>

(* The planner (or its deterministic fallback) returned a plan: it is      *)
(* proposed, or was proposed before for the same message.                  *)
TurnProposes(p, compacts) ==
  LET k == ProposalKey(p, "planned") IN
  /\ LoopFree
  /\ turn.pc = "agent" /\ turn.skill = "planning"
  /\ \/ IsNewProposal(k) /\ Answered(ProposalRows(k, turn.run), compacts)
     \/ IsMadeProposal(k) /\ Answered(<<>>, compacts)
  /\ UNCHANGED <<tables, up, marking, deciding, cli, handling, cut, bounds>>

(* run_turn's exception boundary: no final answer, an exhausted budget, a  *)
(* proposal the ledger refuses.                                            *)
TurnFails ==
  /\ LoopFree
  /\ turn.pc = "agent"
  /\ turn.skill = "planning" => \E p \in Plans : IsStuckProposal(ProposalKey(p, "planned"))
  /\ todo' = SessionIs("failed")
             \o RunRow(turn.run, [stage |-> "failed", status |-> "failed"])
             \o Checkpoint(turn.run, "failed")
  /\ turn' = NoTurn
  /\ UNCHANGED <<tables, up, marking, deciding, cli, handling, cut, bounds>>

Compacted ==
  /\ LoopFree
  /\ turn.pc = "compact"
  /\ turn' = [turn EXCEPT !.pc = "finish"]
  /\ UNCHANGED <<tables, up, marking, todo, deciding, cli, handling, cut, bounds>>

(* The end of run_turn goes by the session's status as it is now, whoever  *)
(* set it.                                                                 *)
FinishTurn ==
  LET r == turn.run IN
  /\ up /\ todo = <<>>
  /\ turn.pc = "finish"
  /\ todo' = IF session.status = "awaiting_approval"
               THEN Checkpoint(r, "awaiting_action")
                    \o RunRow(r, [stage |-> "awaiting_action", status |-> "awaiting_action"])
               ELSE SessionIs("completed")
                    \o Checkpoint(r, "completed")
                    \o RunRow(r, [stage |-> "completed", status |-> "completed"])
  /\ turn' = NoTurn
  /\ UNCHANGED <<tables, up, marking, deciding, cli, handling, cut, bounds>>

-----------------------------------------------------------------------------
(* Decisions (decide_action).  A decision of a card that is not pending    *)
(* returns its row, one the card does not offer raises: neither changes    *)
(* anything.                                                               *)

(* An approval without a card (the process died between their inserts) is  *)
(* given its card by the old approval endpoint, which can only execute or  *)
(* reject it.                                                              *)
HasCard(c) == cards[c].kind # "absent"
CardOf(c) == IF HasCard(c) THEN cards[c] ELSE PlanCard(approvals[c].run, c, TRUE)
MissingCard(c) == IF HasCard(c) THEN <<>> ELSE CardRow(c, CardOf(c))

(* Fault: a decided card is decided again.                                 *)
DecidesAgain(c) == LoopFree /\ c \in UsedIds /\ CardOf(c).kind = "plan"
OpenPlanCard(c) ==
  LoopFree /\ c \in UsedIds /\ CardOf(c).kind = "plan" /\ CardOf(c).status = "pending"
OpenCheckpoint(c) == LoopFree /\ cards[c].kind = "checkpoint" /\ cards[c].status = "pending"

(* Fault: the approval is given the card's word for it.                    *)
StoresCardStatus(a, status) ==
  IF approvals[a].status = "pending" THEN ApprovalRow(a, [status |-> "completed"]) ELSE <<>>

(* UPDATE approvals ... WHERE status = 'pending'.                          *)
DecideApproval(a, status) ==
  IF approvals[a].status = "pending" THEN ApprovalRow(a, [status |-> status]) ELSE <<>>

CancelCheckpoint(c) ==
  /\ OpenCheckpoint(c)
  /\ todo' = CardRow(c, [status |-> "cancelled"])
             \o RunRow(cards[c].run, [stage |-> "cancelled", status |-> "completed"])
             \o SessionIs("completed")
  /\ UNCHANGED <<tables, up, marking, turn, deciding, cli, handling, cut, bounds>>

(* EXECUTE and NEXT of the goal checkpoint: the card is completed, then    *)
(* the planner is awaited under a run id of its own.                       *)
PlanFromCheckpoint(c) ==
  /\ OpenCheckpoint(c)
  /\ RoomForCard
  /\ todo' = CardRow(c, [status |-> "completed"])
  /\ deciding' = deciding \cup {[card |-> c, reason |-> "planned"]}
  /\ UNCHANGED <<tables, up, marking, turn, cli, handling, cut, bounds>>

SuggestChange(c, text) ==
  /\ OpenPlanCard(c)
  /\ HasCard(c)
  /\ RoomForCard
  /\ todo' = CardRow(c, [status |-> "completed"])
  /\ deciding' = deciding \cup {[card |-> c, reason |-> text]}
  /\ UNCHANGED <<tables, up, marking, turn, cli, handling, cut, bounds>>

(* Fault: NEXT forgets to complete the card it replaces.                   *)
AddsCard(c) ==
  /\ OpenPlanCard(c)
  /\ HasCard(c)
  /\ cards[c].next
  /\ RoomForCard
  /\ todo' = CardRow(NextId, PlanCard(cards[c].run, cards[c].approval, FALSE))
             \o RunRow(cards[c].run, [stage |-> "awaiting_action", status |-> "running"])
  /\ UNCHANGED <<tables, up, marking, turn, deciding, cli, handling, cut, bounds>>

NextStep(c) ==
  /\ OpenPlanCard(c)
  /\ HasCard(c)
  /\ cards[c].next
  /\ RoomForCard
  /\ todo' = CardRow(c, [status |-> "completed"])
             \o CardRow(NextId, PlanCard(cards[c].run, cards[c].approval, FALSE))
             \o RunRow(cards[c].run, [stage |-> "awaiting_action", status |-> "running"])
  /\ UNCHANGED <<tables, up, marking, turn, deciding, cli, handling, cut, bounds>>

(* EXECUTE of a plan: course.json, the approval, today's plan, the card,   *)
(* the run and the session, in this order.  Computing today's plan may     *)
(* raise (more than twenty reviews due), which ends the handler there.     *)
DecidedRows(c, status, stage) ==
  CardRow(c, [status |-> status])
  \o RunRow(CardOf(c).run, [stage |-> stage, status |-> "completed"])
  \o SessionIs("completed")

ApplyRows(a) ==
  CourseRow(a, [saved |-> course[a].saved + 1])
  \o DecideApproval(a, "approved")

Execute(c, planned) ==
  LET a == CardOf(c).approval IN
  /\ OpenPlanCard(c)
  /\ course[a].saved < MaxSaves
  /\ todo' = MissingCard(c) \o ApplyRows(a)
             \o (IF planned THEN DecidedRows(c, "completed", "completed") ELSE <<>>)
  /\ handling' = a
  /\ cut' = IF planned THEN cut ELSE cut \cup {a}
  /\ UNCHANGED <<tables, up, marking, turn, deciding, cli, bounds>>

Reject(c) ==
  /\ OpenPlanCard(c)
  /\ todo' = MissingCard(c) \o DecideApproval(CardOf(c).approval, "rejected")
             \o DecidedRows(c, "rejected", "cancelled")
  /\ handling' = CardOf(c).approval
  /\ UNCHANGED <<tables, up, marking, turn, deciding, cli, cut, bounds>>

(* The planner a checkpoint awaited returned: propose under the user       *)
(* message that is the latest now.                                         *)
CheckpointProposes(d, p) ==
  LET k == ProposalKey(p, d.reason) IN
  /\ LoopFree
  /\ d \in deciding /\ d.reason = "planned"
  /\ ~IsStuckProposal(k)
  /\ todo' = IF IsNewProposal(k) THEN ProposalRows(k, NoRun) ELSE <<>>
  /\ deciding' = deciding \ {d}
  /\ UNCHANGED <<tables, up, marking, turn, cli, handling, cut, bounds>>

(* The revision of a plan returned: propose it, then put the run of the    *)
(* decided card back to running.                                           *)
RevisionProposes(d, p) ==
  LET k == ProposalKey(p, d.reason) IN
  /\ LoopFree
  /\ d \in deciding /\ d.reason # "planned"
  /\ ~IsStuckProposal(k)
  /\ todo' = (IF IsNewProposal(k) THEN ProposalRows(k, NoRun) ELSE <<>>)
             \o RunRow(cards[d.card].run, [stage |-> "awaiting_action", status |-> "running"])
  /\ deciding' = deciding \ {d}
  /\ UNCHANGED <<tables, up, marking, turn, cli, handling, cut, bounds>>

(* Fault: a failed revision makes its card pending again.                  *)
ReopensCard(d) ==
  /\ LoopFree
  /\ d \in deciding
  /\ d.reason = "planned" => \E p \in Plans : IsStuckProposal(ProposalKey(p, d.reason))
  /\ todo' = CardRow(d.card, [status |-> "pending"])
  /\ deciding' = deciding \ {d}
  /\ UNCHANGED <<tables, up, marking, turn, cli, handling, cut, bounds>>

(* The model call of a revision fails, or the ledger refuses the proposal: *)
(* the request ends with an error, the card stays decided.                 *)
DecisionFails(d) ==
  /\ LoopFree
  /\ d \in deciding
  /\ d.reason = "planned" => \E p \in Plans : IsStuckProposal(ProposalKey(p, d.reason))
  /\ deciding' = deciding \ {d}
  /\ UNCHANGED <<tables, up, marking, todo, turn, cli, handling, cut, bounds>>

-----------------------------------------------------------------------------
(* Death, restart, and the other process.                                  *)

Crash ==
  /\ up
  /\ crashes < MaxCrashes
  /\ crashes' = crashes + 1
  /\ up' = FALSE
  /\ cut' = cut \cup ({handling} \ {NoId})
  /\ todo' = <<>> /\ marking' = {} /\ turn' = NoTurn /\ deciding' = {} /\ handling' = NoId
  /\ UNCHANGED <<tables, cli, clis>>

(* mark_interrupted_runs, over incomplete_runs() in creation order.        *)
(* Fault: the start of a process finds no run.                             *)
FindsNone == {}

Interrupted == {r \in RunIds : runs[r].status \in {"running", "recovering"}}
IsOldest(r, rs) == r \in rs /\ \A q \in rs : r <= q

StableStage(r) == IF runs[r].checkpoint = "none" THEN runs[r].stage ELSE runs[r].checkpoint

MarkedRun(r) ==
  IF StableStage(r) = "awaiting_action"
    THEN [stage |-> "awaiting_action", status |-> "awaiting_action"]
    ELSE [status |-> "recovering"]
MarkedSession(r) ==
  IF StableStage(r) = "awaiting_action" THEN "awaiting_approval" ELSE "recovering"

Restart ==
  /\ ~up
  /\ up' = TRUE
  /\ marking' = Interrupted
  /\ UNCHANGED <<tables, todo, turn, deciding, cli, handling, cut, bounds>>

Mark(r) ==
  /\ up /\ todo = <<>>
  /\ IsOldest(r, marking)
  /\ todo' = RunRow(r, MarkedRun(r)) \o SessionIs(MarkedSession(r))
  /\ marking' = marking \ {r}
  /\ UNCHANGED <<tables, up, turn, deciding, cli, handling, cut, bounds>>

(* Another process reads the same rows, then marks one run after the       *)
(* other; its two statements for a run are one step here.                  *)
StartCli ==
  /\ clis < MaxCli
  /\ cli = {}
  /\ clis' = clis + 1
  /\ cli' = Interrupted
  /\ UNCHANGED <<tables, up, todo, marking, turn, deciding, handling, cut, crashes>>

CliMarks(r) ==
  /\ IsOldest(r, cli)
  /\ runs' = [runs EXCEPT ![r] = Merge(@, MarkedRun(r))]
  /\ session' = [session EXCEPT !.status = MarkedSession(r)]
  /\ cli' = cli \ {r}
  /\ UNCHANGED <<cards, approvals, course, effects, ready, up, todo, marking, turn, deciding,
                 handling, cut, bounds>>

-----------------------------------------------------------------------------
Write == WriteSession \/ WriteRun \/ WriteCard \/ WriteApproval \/ WriteCourse \/ WriteEffect

AgentReturns ==
  \/ \E compacts \in BOOLEAN :
       \/ AgentAnswers(compacts)
       \/ \E p \in Plans : TurnProposes(p, compacts)
  \/ TurnFails

PlannerReturns ==
  \E d \in deciding :
    \/ \E p \in Plans : CheckpointProposes(d, p) \/ RevisionProposes(d, p)
    \/ DecisionFails(d)

Decide ==
  \E c \in Ids :
    \/ CancelCheckpoint(c)
    \/ PlanFromCheckpoint(c)
    \/ \E text \in Suggestions : SuggestChange(c, text)
    \/ NextStep(c)
    \/ \E planned \in BOOLEAN : Execute(c, planned)
    \/ Reject(c)

StartTurns == \E due \in BOOLEAN : StartTurn(due)
Marks == \E r \in RunIds : Mark(r)

Next ==
  \/ Write
  \/ \E text \in Texts : Submit(text)
  \/ Retry
  \/ StartTurns
  \/ FillGoal
  \/ AgentReturns
  \/ Compacted
  \/ FinishTurn
  \/ Decide
  \/ PlannerReturns
  \/ Crash
  \/ Restart
  \/ Marks
  \/ StartCli
  \/ \E r \in RunIds : CliMarks(r)

Spec == Init /\ [][Next]_vars
(* Fairness: statements and loop steps happen, a model call ends (the turn *)
(* guard ends it after 180 s, the provider client has a timeout), and a    *)
(* dead server is started again.  Nothing is assumed of the user.          *)
Fairness ==
  /\ WF_vars(Write)
  /\ WF_vars(StartTurns)
  /\ WF_vars(AgentReturns)
  /\ WF_vars(Compacted)
  /\ WF_vars(FinishTurn)
  /\ WF_vars(PlannerReturns)
  /\ WF_vars(Restart)
  /\ WF_vars(Marks)

FairSpec == Spec /\ Fairness

-----------------------------------------------------------------------------
(* Properties.                                                             *)

(* Unless a death or an error cut its decision short, an approval's plan   *)
(* is saved to course.json at most once, never when it was rejected, and   *)
(* is marked approved as soon as the decision is over - with any           *)
(* interleaving of turns, other cards, NEXT chains and revisions.          *)
UncutPlansAppliedOnce ==
  \A a \in Ids : a \notin cut =>
    /\ course[a].saved <= 1
    /\ approvals[a].status = "rejected" => course[a].saved = 0
    /\ course[a].saved = 1 /\ handling # a => approvals[a].status = "approved"

(* A proposal (message, plan, reason) makes at most one approval, and a    *)
(* ledger row that is completed names an approval of that proposal whose   *)
(* card exists, so the answer "awaiting approval" always has its card.     *)
OneCardPerProposal ==
  /\ \A a, b \in Ids : approvals[a].key # NoKey /\ approvals[a].key = approvals[b].key => a = b
  /\ \A k \in Keys : effects[k].status = "completed" =>
       LET a == effects[k].approval IN
         a \in Ids /\ approvals[a].key = k /\ cards[a].kind = "plan"

(* A pending plan card can still be decided: its approval is pending too,  *)
(* and no other pending card stands for the same approval (NEXT replaces   *)
(* the card, it does not add one).                                         *)
PendingCardOwnsItsApproval ==
  \A c \in PendingCards : cards[c].kind = "plan" =>
    /\ cards[c].approval \notin cut \cup {handling} =>
         approvals[cards[c].approval].status = "pending"
    /\ \A d \in PendingCards : cards[d].approval = cards[c].approval => d = c

(* What was decided stays decided: neither a late planner, nor a restart,  *)
(* nor a repeated decision opens a card or an approval again.              *)
DecidedStaysDecided ==
  [][\A c \in Ids :
       /\ HasCard(c) /\ cards[c].status # "pending" => cards'[c] = cards[c]
       /\ approvals[c].status \in {"approved", "rejected"} => approvals'[c] = approvals[c]]_vars

(* A session never stays running for ever: its turn ends, or the next      *)
(* start of the server marks it.                                           *)
NeverStuckRunning == session.status = "running" ~> session.status # "running"

(* docs/api.md: a repeated decision returns the stored state and does not  *)
(* apply the tool's side effect again.  It fails when the first EXECUTE    *)
(* ended halfway.                                                          *)
PlanAppliedOncePerApproval == \A a \in Ids : course[a].saved <= 1
=============================================================================
