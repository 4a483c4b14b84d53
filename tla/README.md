# LearningLoop in TLA+

LearningLoop is a self-hosted learning companion: a FastAPI server in which a learner talks to an agent, approves course
plans, works through a daily plan and is reminded by mail. One asyncio process serves the pages, runs the agent's turns
and polls the reminders; SQLite (`db.py`) and a directory of JSON files per session (`learning/state.py`) keep what must
survive. This directory models the parts whose correctness depends on the order of steps: what is written when, what
a crash leaves behind, what two handlers that await a model at the same time do to each other's rows.

All paths below are relative to `src/src/learningloop/` unless they start with `src/`.

## 1. Inventory

| Component | State | Operations | What is hard | What makes it correct |
|---|---|---|---|---|
| Learning tools, effect ledger (`learning/tools.py`, `learning/state.py`) | `tool_effects`; `concepts.json`, `errors.json`, `reviews.json`, `learner.json` | `record_learning_result`, `update_learner_profile`, `_reserve_effect` | four files and a table written one after the other; the process may die, or validation refuse a value, between any two; calls are repeated | a result is applied at most once; the ledger tells the truth about the files; profile values pass the MemoryGate |
| Turn runtime (`agent/runtime.py`, `agent/service.py`) | `runs`, `checkpoints`, `sessions`, `messages` | `run_turn`, compaction, failure, `mark_interrupted_runs` | statements commit one by one around several awaits; another process marks runs of the live server | a session shown as running has a turn and leaves that state |
| Submission queue (`agent/service.py`) | volatile tasks, locks, a semaphore | `submit`, `retry` | 202 is answered before anything is stored | one turn per session; what is accepted ends and tells its outcome once |
| Cards and approvals (`agent/service.py`, `learning/tools.py`) | `actions`, `approvals`, `course.json` | `decide_action` (EXECUTE, NEXT, SUGGEST, REJECT, CANCEL), `ProposeCoursePlan`, the approval endpoint | a decision is six writes; revisions await a model and come back late | decisions are final; a plan is applied once; a pending card can be decided |
| Daily plans (`learning/daily.py`, `web/app.py`) | `daily_plans`, completed stages of `course.json` | generate, start, complete, result, complete stage, replace the course | check, await the model, replace the row | a finished task stays finished; stages are completed when earned, once |
| Notification scheduler (`notifications.py`, `cli.py`) | `notification_deliveries` | poll, deliver, skip, retry, forced run | mail cannot be taken back; two processes; stops; midnight | a reminder is sent once and settled in time |
| Model gateway (`llm/gateway.py`, `llm/search.py`) | `model_calls`; circuits and the client's last usage, volatile | `complete`, `stream_complete`, budget check, fallback, search | all turns share the circuits and the clients; requests are counted after they end | limits bound the requests; every request is recorded with its own usage; circuits open for a cause |
| Daily reviews (`learning/daily.py`, `web/app.py`) | `daily_reviews` | generate on a page, by the scheduler, by the CLI | three processes or handlers check, await the model, store | what is mailed is what the page shows |
| Notification settings (`web/app.py`, `db.py`) | `notification_settings` | save, verify by a test mail | a changed address; a test mail still in its thread | reminders go out only after a test mail arrived |
| Autonomous runs (`agent/service.py`) | `runs`, `agent_artifacts` | run a scheduled plan or review | failure or cancellation in the middle; another process marks live runs | every run is closed with what was stored, or was interrupted |
| Course content (`learning/content.py`, `learning/tools.py`) | the proposed plan, `course.json` | complete a plan from the template, propose, revise, approve | the same completion is applied two or three times | no text of the model is replaced; the template is marked as such |
| Model policy, skills, tool policy (`llm/gateway.py`, `skills.py`, `agent/policy.py`) | none | choose a route, a skill, the allowed tools | overlapping rules | each rule wins where documented |
| Events and SSE (`agent/hooks.py`, `web/app.py`, `web/static/app.js`) | `events`; the page's cursor | append, stream from a cursor, listen | a cursor across broken connections, restarts, deletions | the page hears every event of its run and how it ended |
| Accounts (`auth.py`, `web/app.py`, `db.py`) | `users`, `auth_sessions`, `owner_id` columns | create, disable, log in and out, own | the first account takes over rows of two tables out of several, beside a running server | rows follow the owner of their session; owned sessions never change hands |
| Usage accounting (`usage.py`, `metrics.py`) | none | normalise, price, aggregate | nulls and boundaries of price periods | sums agree with the rows |
| Review scheduling (`learning/scheduler.py`) | FSRS cards | review | arithmetic of the py-fsrs package | a card sees each result once |
| Context builder, search results, backup, doctor, telemetry, settings, web pages | | | | |

How they interact: the web routes, the scheduler and the turns all run on one event loop. A handler runs alone
between two awaits, but every database call commits by itself, so a death of the process is visible between any two. The
agent's tools are called in the middle of a turn and write the session's files; the gateway is called by turns,
decisions, daily plans and compaction, and takes the run and turn of its caller from a context variable. Cards connect
turns to the course: a turn (or a revision) proposes a plan, which creates an approval and a card and puts the session
into `awaiting_approval`; deciding the card writes `course.json` and today's plan. The scheduler calls the daily plan
service through autonomous runs. The CLI is a second process on the same files.

## 2. Modules

| Module | Models | Checked by | Proofs |
|---|---|---|---|
| `AtMostOnce` | abstract: an effect is claimed, writes each file at most once, and is settled or abandoned | as `ImplementsPromise` | refinement |
| `LearningTools` | the learning tools, the ledger, the workspace files | `MCLearningTools` | `LearningTools_proofs` |
| `SessionRuntime` | turns, cards, approvals, recovery of one session | `MCSessionRuntime` | `SessionRuntime_proofs` |
| `DailyPlans` | today's plan of one session and the stages of its course | `MCDailyPlans` | `DailyPlans_proofs` |
| `Notifications` | the reminders of one session, server and CLI | `MCNotifications` | `Notifications_proofs` |
| `ModelGateway` | the calls of one model route, and searches | `MCModelGateway` | `ModelGateway_proofs` |
| `TurnPromise` | abstract: an accepted turn is owed one outcome, which comes once | as `ImplementsPromise` | refinement |
| `TurnQueue` | submission, semaphore, turns, deletion and clean-up of several sessions | through the next two | `TurnQueue_proofs` |
| `EventStream` | `TurnQueue` and a page that follows the events of a run | `MCEventStream` | `TurnQueue_proofs` |
| `Accounts` | `TurnQueue` and the accounts, logins and owners of rows | `MCAccounts` | `TurnQueue_proofs` |
| `EveningReview` | the review of one evening, its autonomous runs, its mail and the settings | `MCEveningReview` | `EveningReview_proofs` |
| `PlanContent` | the content of a course from the model's answer to the day's tasks | `MCPlanContent` | `PlanContent_proofs` |

Conventions. One action is one stretch of code between two points at which something else can happen: an await
or, where a process may die, a durable write. Where a handler writes several rows, the action of the handler computes
the writes and puts them into `todo`, `Write...` actions issue them in order, and no other handler of the process starts
before (`LoopFree`); `Crash` is enabled in between. Variables marked *history* record what happened and are read by
properties only; no guard reads them. Constants named `Max...` are bounds of the instance and stand in guards, each
named where it is declared. Definitions marked *fault* are plausible slips in the definition below them; no action uses
them. Putting one in the place of that definition must break the property named in section 4, which shows that the
property can fail at all.

### LearningTools

A tool body has no await, so one call at a time is in progress (`call`), but it saves `concepts.json`, `errors.json`,
`reviews.json` and the ledger row one after the other: `ReserveEffect`, `SaveConcepts`, `SaveErrors`, `SaveReviews`
(or `SaveLearner`), `CompleteEffect`. `Interrupt` ends the call between any two writes; `RaiseValidation` is the Pydantic
error that comes after the reservation. Mastery, attempts and the FSRS card are folds over results, so the files are
represented by how often each result was folded in. The effect key (a SHA-256 of session, latest message, tool and
arguments) is the record of message and arguments.

### SessionRuntime

The tables are `session`, `runs`, `cards`, `approvals`, `effects`, the file `course`. `StartTurn` is `run_turn` up to the call of the agent;
`AgentAnswers`, `TurnProposes` and `TurnFails` are the ways back; `Compacted` ends the await of the compaction;
`FinishTurn` ends the turn by the session's status at that time. `decide_action` is one action per decision:
`CancelCheckpoint`, `PlanFromCheckpoint`, `SuggestChange`, `NextStep`, `Execute`, `Reject`; the two that await a planner stay
in `deciding` until `CheckpointProposes`, `RevisionProposes` or `DecisionFails`. `Execute` has an outcome in which computing
today's plan raises after the course is saved (more than twenty due reviews exceed `DailyTask.concepts`). `Restart` and
`StartCli`/`CliMarks` are `mark_interrupted_runs` in the server and in a CLI command; it marks the runs one by one, oldest first. `cut` remembers approvals whose
decision ended halfway, by a death or that error.

### DailyPlans

`Generate` is `generate_daily_plan` up to the model call; the generation stays in `gens` until `ModelPlans`, `ModelFails`
or `Lost` (the scheduler that awaited it is stopped); it then replaces the row whatever it holds. `StartTask`, `CompleteTask`, `RecordResult`,
`CompleteStage` are the learner's requests; `ReplaceCourse` is what an executed plan card does to course and plan. `Drift` is
what `_model_plan` does not validate: a task that carries another stage's id. The stages that are marked after a completed task come in
the order of the tasks, which the model may have arranged, so any order is possible here. The generations in `Cli` are those of
`cli.py plan`, in a process of its own: they do not wait for the loop (`Runs`), so they may begin or save between two writes of a
handler, and they survive the server. `finished`, `cut`, `overtaken` and `torn` (the CLI saved below a handler) are history.

### Notifications

A poll reads the clock once (`at`), visits the reminders of that date in order, reserves a row, prepares the text (an await),
mails (a thread), records. `Stop` ends a process anywhere in between, and the mail may leave all the same. `disputed` are the
reminders whose outcome got lost or on which two processes worked at once.

### ModelGateway

`Request` is everything from the call to the request on the wire: providers with an open circuit are passed over, the
budgets are checked against the rows there are. `Answers` and `Fails` are everything from there back, up to the next
provider's request. A failure is described by whether the circuit counts it and whether the fallback goes on, because the
two use different lists: a status code for a passing condition is in both, the client's own timeout only in the fallback's,
authentication, schema errors and cancellation in none, and no stream falls back once text has been handed on. Input, output and cost are
sums of the same shape and are one number. The fallback, the client and its `last_usage` belong to the vendored package
`react-agent-harness` and are modelled from how `gateway.py` uses them.

### TurnQueue, TurnPromise

The steps of the event loop over several sessions. A task exists from the 202 answer on (`Submit`), waits in the order of arrival
for one of `Slots` (`AtHead`), begins (`Begin`, or `BeginDeleted` and `BeginEmpty` when its session or its message is gone), awaits the agent
(`Answer`, `Fail`) and the compaction (`Finish`), and is forgotten by a callback of the next iteration (`FinishTask`). `DeleteSession` and
`Cleanup` remove rows below it without telling it; `Crash` loses tasks, queue and slots; `Restart` marks what it finds. Where
`SessionRuntime` goes write by write through one session, `TurnQueue` goes await by await through several; the status `ended`
stands for completed and awaiting an action alike. Event ids are never used twice, so the rows of a session are the end of the sequence `log`
of all events it ever got, after the first `gone`.

`TurnPromise` is what the 202 answer promises, with nothing of the queue: a session is owed at most one outcome, an owed outcome comes once, and
is given up only when the process dies or the session was deleted before the turn began. The refinement reads the outcome of a
run from its events, so it would notice an outcome told twice, or told to a session that is owed none.

### EventStream

`EventStream` and `Accounts` extend `TurnQueue` and conjoin its actions with their own, each with a next-state relation of its own. In
`EventStream` a page submits (`SubmitFollowed`) with the last event id of the 202 answer as its cursor. The server's stream keeps a cursor
and sends the rows above it into `pipe`; `Hear` is the page's listener, which moves the page's cursor only for the kinds it has a
listener for and closes at an outcome or a decision; `Break` is a broken connection or the end of an idle stream, after which
`Connect` begins from the page's cursor. `DecideCard` is the decision of a card in another tab as far as the page hears it. Kinds of
events that begin and end nothing are left out.

### Accounts

Who may call (`Callers`) depends on `auth`, which may change while the server is down. `CreateUser` is one transaction of the CLI's process
and may come in the middle of a turn; when no account is active it takes over the sessions and model calls of `Local`. A turn reads
the owner once when it begins (`Owns`), books its chat calls on it (`RecordCall`), and its compaction reads it again (`AnswerOwned`).
A web search in a turn leaves a row of the same run and session that names no owner and is stored as `Local` (`RecordSearch`): the
usage pages of an account leave its searches out, and a later first account takes their rows over. `calls` has one element per run,
site and owner, however often the row is repeated. `straddled` are the turns in progress at a take-over.

### EveningReview

A page, the server's scheduler and the CLI generate the review of one evening: `AskReview` or `Poll` up to the model call,
`Generated` or `GenerationFails` after it, `MailSent` or `MailFails` for the two that mail. The server's generation is wrapped in an
autonomous run (`Opens`); no handler sees the cancellation of a stop, so `StopServer` leaves the run running. `CliStarts` and `StartServer`
mark runs. The settings go through `SaveSettings`, `SendTest`, `TestArrives`. A review is the tasks it calls completed and who wrote
it; the model may answer with any, as the code validates neither. How often a reminder is tried is in `Notifications`.

### PlanContent

A text is what it came from: nothing, the model, or the template. `EnrichStage` is `enrich_course_plan` for a stage, `ProposalFor` what the
planning flow makes of an answer or of none, `Approve` what `apply_approved_tool` saves, with the plan of the day (`DayPlan`) that follows in
the same handler; `PlanDay` is that of a later day. Three of a lesson's six texts are modelled; the other three are treated like the
exercise, line by line. The order of steps is in `SessionRuntime` and `DailyPlans`; here proposals and approvals come in any order.

## 3. Plan

All modules of section 2 are written, and every safety invariant and action property of a passing run is a theorem (section 6).
Each module with proofs has its invariant in the module named `..._proofs`; the proofs about the two compositions with the queue are
in `TurnQueue_proofs`, beside those of the queue they rest on.

What would come next:

1. What the notes of the hazards in `PROJECT.json` leave open: windows that pass midnight, with the reminders of two dates.
2. Liveness of the reminders of more than one session in one poll, which visits them one after the other.

Recursive operators stay out of every module with proofs: sums and loops use the folds of the community modules, or are stated over
sets of indices.

## 4. Runs

Passing runs. "Broken by" names the fault under which the property fails on the same instance.

**learning_tools** (`MCLearningTools.cfg`). Two messages, two concepts of which one is no slug, answers that leave an error, an
unknown category, doubtful and invalid profile updates. At most three effects are reserved (`FewEffects`): three is enough for a
finished, an abandoned and a running effect side by side, and effects of different keys meet only in the two bounded lists,
whose limits (1 and 2 instead of 20 and 200) overflow with them.

| Property | Says | Broken by |
|---|---|---|
| `AppliedAtMostOnce` | no result reaches mastery, errors or review card twice | `IgnoresLedger` |
| `LedgerExplainsFiles` | a recorded result is in both files; they differ only under a reservation | `ReturnsAfterError` |
| `ErrorsHaveEvidence` | an error's message is evidence of its concept unless newer evidence replaced it | `OldestEvidence` |
| `ProfileIsGated` | profile fields hold only confident, valid values | `PassesAll` |
| `ReplyIsDurable` | what a caller was told is what the ledger says | `ForgetsToComplete` |
| `AbandonedStaysAbandoned` | a reservation whose call is gone is never completed or written for | `AssumesDone` |
| `ImplementsPromise` | ledger and files implement `AtMostOnce` | `RetriesBlindly` |
| `TypeOK` | | `StatusOnly` |

**session_runtime** (`MCSessionRuntime.cfg`, `FairSpec`). Two turns on one message (the second is a retry), three cards or
approvals, one death of the server, one other process. Three cards allow a goal checkpoint, the plan it leads to and a NEXT or a
revision of it; two runs allow a turn beside an interrupted one.

| Property | Says | Broken by |
|---|---|---|
| `UncutPlansAppliedOnce` | unless its decision was cut short, a plan is saved at most once, never when rejected, and is approved when the decision ends | `DecidesAgain` |
| `OneCardPerProposal` | a proposal has one approval; a completed ledger row names it and its card exists | `RetriesReserved` |
| `PendingCardOwnsItsApproval` | a pending plan card has a pending approval of its own | `AddsCard` |
| `DecidedStaysDecided` | decided cards and approvals never change | `ReopensCard` |
| `NeverStuckRunning` | a running session leaves that state | `FindsNone` |
| `TypeOK` | | `StoresCardStatus` |

**notifications** (`MCNotifications.cfg`). A day of five units with reminders at 1 and 3, a clock that passes midnight, two
attempts, one forced run, one stop. The catch-up window is one unit, so the evening's window ends before midnight; what
happens to a window that passes it is said below. Two attempts need one unit of backoff, which the window and the day leave exactly
(`RetriesFit`).

| Property | Says | Broken by |
|---|---|---|
| `UndisputedMailedOnce` | an undisputed reminder is mailed at most once, and was mailed exactly if its row says sent | `CountsOnly` |
| `RemindersSettleOnTime` | while polls are timely, a reminder is sent or out of attempts when its last backoff is over | `OnlyFresh` |
| `TypeOK` | | `OneTooMany` |

**daily_plans** (`MCDailyPlans.cfg`). Two stages, one generation of the server and one of the CLI, which may be in progress together, one drifting task, and either a new course and a crash or
a forced plan (`FewDisturbances`; a crash in the middle of an approval is what leaves course and plan apart, while a forced plan meets
every generation and report already alone). A second request to the server overlaps with the first as the CLI's does, except that it waits for
the loop; the theorems of section 6 are about any number of both.

| Property | Says | Broken by |
|---|---|---|
| `FinishedTaskKept` | a finished task is shown as completed unless its report died halfway or a generation overtook it | `Regenerates` |
| `PlanFollowsCourse` | stage tasks stand for stages of the present course | `PlansOldCourse` |
| `StagesAreEarned` | stages are completed at the learner's word, or when no stage task of the stored plan is open, unless the CLI has saved over it in just that moment | `MarksEarly` |
| `TypeOK` | | `MarksUnknown` |

**model_gateway** (`MCModelGateway.cfg`). Two turns, two providers, a circuit that opens at two failures, rows enough to use up each
limit, a clock that passes the cooldown and midnight, one crash. Turns are symmetric; no property names one.

| Property | Says | Broken by |
|---|---|---|
| `LimitsBoundRequests` | no chat request of a turn beyond its limits, fallback included; the day's limit is exceeded by the other turns in progress at most | `IgnoresTurn` |
| `BudgetSeesEveryToken` | no token a provider reported is missing in the sums | `StaleUsage` |
| `CircuitOpenAfterBurst` | a circuit is open exactly for a cooldown after a burst of failures since the last success | `StaleFailures` |
| `EveryRequestAudited` | every chat request leaves one row, cancelled ones too | `ForgetsCancelled` |
| `TypeOK` | | `FallsOff` |

**event_stream** (`MCEventStream.cfg`, `StreamSpec`). Two sessions, one slot, two submissions, one death, one broken connection, one
decision. Two sessions on one slot make a turn wait while the other's session is deleted or its server dies; a third submission
would only wait longer.

| Property | Says | Broken by |
|---|---|---|
| `ImplementsPromise` | the queue implements `TurnPromise` | `SubmitsAlways` |
| `TurnsEnd` | every accepted turn ends, and its session takes messages again | `LosesSlot` |
| `ClientMissesNothing` | a page that stopped at an outcome heard every event of its run, and the outcome is that of its run unless a crash took the run without a word | `FollowsFromStart` |
| `WatcherHearsOutcome` | while the server lives and the session exists, the page hears how its run ended, or a decision | `ConnectsToNow` |

**accounts** (`MCAccounts.cfg`). The same sessions, slot, submissions and death, two accounts: the second finds the first active or disabled.
Sessions and accounts are symmetric; no property names one, and none is about liveness. A state with more than one row of model calls
(`MaxCalls`) is checked and not followed: no guard reads the rows, a step changes each by itself, and the properties look at one at a time,
so what two rows can show, one shows. The theorems are about any number.

| Property | Says | Broken by |
|---|---|---|
| `RowsFollowOwner` | what turns spend in chat is booked on the owner of their session, and so are the searches of turns begun under local, except by turns in progress at the take-over; runs say the owner, or local if older | `SessionsOnly` |
| `OwnedStaysOwned` | a session of an account never changes hands; one of local goes to an active account | `TakesAll` |
| `DeletedLeavesNothing` | a session deleted while none of its turns ran leaves no row, also if a turn was accepted and still waits | `Starts` |
| `AccountsTypeOK` | among others, whoever is logged in is active | `KeepsLogin` |

**evening_review** (`MCEveningReview.cfg`). One task, so a review is one of four; two autonomous runs, one stop. A page and two processes can
generate at once, and a retry can follow an interrupted run.

| Property | Says | Broken by |
|---|---|---|
| `MailedAsShown` | what is mailed was stored, after a test mail had arrived; when only one review was stored, every mail says what the page shows | `MailsBase` |
| `AutonomousRunsSettle` | a run is open only while it is awaited or after a stop; a completed one has an artifact that was stored; a session is recovering only after a stop or a start beside a live run | `FailsUnsaid` |
| `TypeOK` | | `RunsRetried` |

**plan_content** (`MCPlanContent.cfg`). Answers of one stage with any of its texts and lessons' texts missing, of two to four stages that are complete
or bare, done or open; minutes on both sides of every threshold of the split (10, 24/25, 129/130, 189/190); one approval, after which
further proposals and days follow.

| Property | Says | Broken by |
|---|---|---|
| `ContentKeptAndCompleted` | every proposed or saved stage is complete; texts of the model in a stage or its first lesson are kept, further lessons only in complete stages | `ReplacesLesson` |
| `ProposalTellsSource` | a proposal with any text of the template says fallback; one that says model is the model's answer | `AnyDetail` |
| `DayFits` | the tasks fit the learner's minutes, none under five minutes, none without content; they take the first open stages in their order; due reviews have a task exactly if the shares of at most three open stages leave ten minutes | `TakesShare` |

Violations. Each run checks one sentence of the documentation, and TLC finds a behaviour of the code that breaks it.

| Run | Sentence | What happens |
|---|---|---|
| repeated_submission | `src/docs/api.md:60`: submitting a result again does not write again | the effect key takes the latest chat message; a message in between makes the submission a new effect |
| plan_reapplied | `src/docs/api.md:42`: a repeated decision does not apply the side effect again | `course.json` is saved before the card is decided; a death (or an error) in between leaves the card pending |
| template_unmarked | `src/docs/api.md:77`: contents of the template are marked in `content_source` | the approval completes the plan again, when nothing is missing any more, and saves the model as its source |

The passing runs of the same modules say what remains true: `UncutPlansAppliedOnce` with decisions that were not cut short,
`ProposalTellsSource` up to the approval.

Other places where the code and a document disagree show in the premises of the passing properties and have no run of their own:

- `src/docs/notifications.md:37` says that a reminder is not sent again. A process that stops between the mail (`notifications.py:246`) and its
  row (253) sends it again: `UndisputedMailedOnce` speaks of undisputed reminders.
- `src/docs/notifications.md:39` promises reminders of the last six hours after a restart. A poll visits the reminders of its own date only
  (`notifications.py:165`), so an evening reminder missed shortly before midnight is neither sent nor skipped: the instance keeps the
  window inside the day.
- `src/docs/recovery.md:5` says that an interrupted run is executed again from its stable stage. Nothing executes or closes a recovering run; a
  retry is a run of its own. `NeverStuckRunning` is about running sessions only.
- `src/docs/architecture.md:52` says that task, mastery and card are read from the same state. A generation in progress saves its older tasks
  over a report (`daily.py:140`): `FinishedTaskKept` leaves out overtaken reports.
- `src/README.md:95` says that missing usage stays null. A failed request is recorded with the client's usage of an earlier one
  (`gateway.py:287`): `BudgetSeesEveryToken` says that tokens are never missed, not that none is counted twice.
- The docstring of `enrich_course_plan` (`content.py:129`) says that the fields the model gave are kept. Of an incomplete stage the lessons after
  the first are dropped: `ContentKeptAndCompleted` says so.
- `src/docs/operations.md:30` says that all usage is scoped by owner. A web search of an account's turn is recorded without an owner, so on local
  (`llm/search.py:150`): `RowsFollowOwner` is about chat calls, and about searches of turns that began under local.
- A changed address inherits the verification of the old one (`db.py:1073`): `MailedAsShown` says only that some test mail had arrived.

Some hazards are caught in part. `PROJECT.json` says of each what its properties permit because the code does it: a session that waits without a
card after a failed revision, or is completed beside a pending one; a recovering run that nothing closes; stages a late plan of the old course
marks; a review that two processes store; rows that a begun turn writes after its session was deleted.

Deadlock is checked in learning_tools, evening_review and plan_content, where something is possible in every state. The other instances
stop when their bounds are used up, so their cfg files switch it off; `NeverStuckRunning` and `TurnsEnd` take its place in
session_runtime and event_stream.

## 5. Fairness

`SessionRuntime` and `EventStream` state liveness. `FairSpec` of `SessionRuntime` assumes weak fairness of: the statements of a handler that has
begun (`Write`), the start of a queued task, the end of an agent call or a planner call (the provider client has a request timeout and
`run_turn` a guard of 180 s, each ends in the exception path, which is a disjunct of `AgentReturns`), the end of compaction, the end
of a turn, and the restart of a dead server (the container's restart policy). Nothing is assumed of the learner: `Submit`, `Retry` and all
decisions are unfair.

`StreamSpec` assumes weak fairness of every step of every turn (`RunStep`; the loop is fair to its tasks, the semaphore serves in the order of arrival, calls
end as above) and of the page (`PageStep`; it asks again 1.2 s after a connection broke, and what is sent arrives unless the connection breaks). Restart,
submissions, deletions and decisions are unfair; the number of broken connections is bounded, since a page whose connection always breaks in
time hears nothing. A turn without an outcome is not excused by fairness: `TurnsEnd` fails as soon as a slot is lost.

`RemindersSettleOnTime` is a safety property with a clock: it speaks of states in which the polls so far were timely, so it needs no
fairness.

## 6. Proofs

TLC checks the small instances of section 4. The theorems hold for every value of the constants that satisfies the assumptions below: any
number of sessions, turns, reminders or generations, every set of arguments or courses, and every bound.

| Module | Theorem | Property |
|---|---|---|
| `LearningTools_proofs` | `TypeCorrect` | `TypeOK` |
| | `EffectsAppliedAtMostOnce` | `AppliedAtMostOnce` |
| | `LedgerIsTruthful` | `LedgerExplainsFiles` |
| | `AbandonedIsFinal` | `AbandonedStaysAbandoned` |
| | `LedgerImplementsPromise` | `ImplementsPromise` (`AtMostOnce`) |
| | `ProfileStaysGated` | `ProfileIsGated` |
| | `RepliesAreDurable` | `ReplyIsDurable` |
| | `ErrorsStayExplained` | `ErrorsHaveEvidence` |
| `SessionRuntime_proofs` | `TypeCorrect` | `TypeOK` |
| | `PlansAppliedOnce` | `UncutPlansAppliedOnce` |
| | `ProposalsMakeOneCard` | `OneCardPerProposal` |
| | `PendingCardsOwnTheirApprovals` | `PendingCardOwnsItsApproval` |
| | `DecisionsStay` | `DecidedStaysDecided` |
| `Notifications_proofs` | `TypeCorrect` | `TypeOK` |
| | `RemindersMailedOnce` | `UndisputedMailedOnce` |
| | `RemindersSettle` | `RemindersSettleOnTime`, if `RetriesFit` |
| `DailyPlans_proofs` | `TypeCorrect` | `TypeOK` |
| | `FinishedTasksKept` | `FinishedTaskKept` |
| | `PlansFollowCourse` | `PlanFollowsCourse` |
| | `StagesEarned` | `StagesAreEarned` |
| `EveningReview_proofs` | `TypeCorrect` | `TypeOK` |
| | `ReviewsMailedAsShown` | `MailedAsShown` |
| | `RunsSettle` | `AutonomousRunsSettle` |
| `TurnQueue_proofs` | `TypeCorrect`, `SlotsAreConserved`, `OneTurnPerSession` | of every composition with the queue |
| | `QueueKeepsPromise` | `ImplementsPromise` (`TurnPromise`) |
| | `StreamKeepsPromise` | `ImplementsPromise` (`TurnPromise`) |
| | `PagesMissNothing` | `ClientMissesNothing` |
| | `AccountsTypeCorrect` | `AccountsTypeOK` |
| | `CallsFollowOwner` | `RowsFollowOwner` |
| | `DeletionIsComplete` | `DeletedLeavesNothing` |
| | `AccountsKeepSessions` | `OwnedStaysOwned` |
| `ModelGateway_proofs` | `TypeCorrect` | `TypeOK` |
| | `RequestsAudited` | `EveryRequestAudited` |
| | `RequestsLimited` | `LimitsBoundRequests` |
| | `TokensSeen` | `BudgetSeesEveryToken` |
| | `CircuitTrue` | `CircuitOpenAfterBurst` |
| `PlanContent_proofs` | `ContentKept` | `ContentKeptAndCompleted` |
| | `SourceTold` | `ProposalTellsSource` |
| | `DayFitsMinutes` | `DayFits` |

Assumptions. All are named `ASSUME`s of the models, which TLC evaluates in the runs: the bounds are numbers, the limits and the length of a day are
positive (`BoundsAssumption`, `QueueAssumption`, `StreamAssumption`, `EveningAssumption`, `GatewayAssumption`), times of day lie within the day
(`TimesAssumption`), arguments and courses have the shape the schemas give them (`ArgsAssumption`, `StagesAssumption`, `ContentAssumption`: a planner's answer has at least one stage, its texts are the model's or missing, and a learner's
minutes are between 10 and 480), and "nothing" is none of
the things there are (`NoKeyAssumption`, `NoReviewAssumption`, `OwnersAssumption`, `ReasonsAssumption`; `TextsAssumption` lists the kinds of
messages). `GatewayAssumption` also takes the turns to be finitely many and at least one, because the
day's sum is over all of them. One hypothesis is of another kind: `RemindersSettle` assumes `RetriesFit`, that all backoffs of a reminder fit into the catch-up window and
into what is left of its day. The default settings satisfy it for reminders up to minutes before midnight (three minutes of backoff, hours of window);
without it the property is false, and the gap is a hazard of section 7. The instance satisfies it exactly (`MCNotifications` asserts it).

None of the safety properties is inductive. Each module has one invariant that is, with the property as a conjunct or a consequence:

- **LearningTools** (`IInv`). That a result is folded in once does not say that the call which is about to fold it has not done so yet. `CallInv` says
  that a call in progress owns a reserved row and has written exactly the files before its stage; `EffectInv` what each ledger state implies
  for the two counts; `ErrorInv` that `errors.json` has no result twice, none without a ledger row, and none that is still to be written. A
  reservation is made only for an absent row, and no action takes a reserved row whose call is gone. The refinement maps a ledger row to free,
  claimed or settled, and the two counts to the writes of `AtMostOnce`. For the errors, `EvidenceInv` adds that evidence stands in the order
  of its messages and that a call works for the latest of them, so that what a full list loses is older than all it keeps.
- **SessionRuntime** (`SInv`). A decision is up to six statements that commit one by one, and the process may die between any two. So the invariant speaks
  of the tables as they may be in the middle of a handler (`TableInv`: cards, approvals, saved plans, ledger) and of every statement that waits in `todo`:
  what it will find when its turn comes (`NewCardOk`, `VerdictOk`, `SaveOk`, `CompletionOk`, ...), which takes the order in which statements wait (`Ordered`). `IdInv`
  keeps the ids apart: those in use are the first ones, and a card that is still to be inserted has one of its own. Each handler is shown to leave a list of that kind, each
  write to consume the head of one, and a crash to drop it.
- **Notifications** (`MailerInv`, `TimeInv`). `MailInv` says of every undisputed reminder that at most one process is at it, that its mail count is one exactly in
  the moment between the mail and its row, and otherwise what the row says. For the punctuality, `TrackInv` gives each open reminder a latest moment
  (`Limit`, after `attempts` backoffs of 2^0, 2^1, ... units) at which it is still waited for; `PresentInv` says that a poll works at its
  own time while polls are timely, and `AttemptInv`, `SameInv`, `SkipInv` what two processes that work on one row at once do to its
  count. Steps at which time stands still are handled together (`QuietStep`), the clock apart. The powers of two come from the library's count of the subsets of a finite
  set.
- **DailyPlans** (`IInv`). `WorkInv` lists the shapes of `todo` a handler may leave (`Rest`, `Saving`, `Learning`, `Asked`, `Earned`, `Replacing`) and what the row that is
  going to be saved promises by then: it shows what is finished and is about the course it will stand beside; marks wait behind a row only
  if its stage tasks are done. `FreshInv` is about the generations that await the model: one that no later write made stale began under the present
  course and, unless forced, before the learner finished anything. A handler that still has the plan to write has made every generation stale,
  which is why the answer of a fresh one can replace the row. Only a generation of the CLI can begin or save while a handler has writes
left, and it is stale then (`CliInv`), which waives what the plan promises; marks that follow such a save are what `torn` excepts.
- **EveningReview** (`IInv`). What a process holds while it awaits the model or a mail: only the server holds a run, whoever polls was allowed to by
  a test mail that arrived, whoever mails holds a review that was stored, and the one on the page as long as nothing was stored since.
- **TurnQueue** (`QInv`). Tasks, queue, semaphore, active sessions and events agree: `SlotInv` says that the free slots and the turns that began add up to
  `Slots`, `QueueInv` that a waiting run waits once, `TurnInv` that an alive task blocks its session, `LogInv` that an outcome in the events is
  the last word of its task. The refinement reads the outcome of a run from its events; a step that adds an event other than an outcome, or
  drops the rows of a deleted session, is a stutter of `TurnPromise`.
- **EventStream**, **Accounts**. Their steps are steps of the queue, or leave it alone, or (a decided card) add an event that is no outcome, so `QInv` carries over.
  `StreamInv` adds that only submitted runs have a row. For the page, `StoryInv` says that an outcome is the last a run tells and that, as long
  as nobody died, an ended run of a live session has told one; `PageInv` what a page that follows has heard: all of its run below its cursor
  (`Heeds`), with what lies between the two cursors in the pipe, in order (`Streams`). An outcome of another run can reach it only after all its own
  run had to tell, since a session has one turn at a time. `AInv` adds whom a turn books its calls on while it runs (`HeldInv`: the owner of its
  session, unless it was claimed under it or is gone; a run that did not begin has booked nothing, so the owner it will begin with explains all its rows) and that a turn that runs in a deleted session was caught by the deletion (`CaughtInv`).

- **ModelGateway** (`GInv`). A limit is checked before a request and its row comes after, so `BudgetInv` says of every awaited request that the rows of
  its turn are still below the limits, and `ClockInv` that no row is of a day to come; the day's sum then exceeds its limit by what the other
  awaited requests add, one request each. `OwnInv` says that a row never has less than the provider reported. For the circuits, `InOrder`, `Knows`
  and `OpenFor` compare what a circuit keeps with all failures since the last success: it forgets a prefix of them, all out of the
  window, and is open until the cooldown of the last burst is over. The code drops outdated failures from the front of a deque;
  `WithinIsSuffix` shows that the model's selection by time does the same, because the failures are in order.
- **PlanContent** (`PlanInv`, `SplitInv`). Proposal, course and today's plan are functions of the answer, so `PlanInv` says which; the three properties
  are facts about these functions. `StageIsEnriched` says that an enrichment completes a stage and keeps what it had, `KeptAgain` that the
  second one changes the status only. The split of the day is a loop, and `SplitInv` is its invariant: the minutes given and those left add up, every open
  stage so far has a task while there is time and room, and what is left is what full shares leave, or under five minutes.

`StagesEarned`, `DecisionsStay`, `AbandonedIsFinal` and `AccountsKeepSessions` are about steps: each follows from the invariant before the step, action by action.

Sums, loops and selections over data are proved by induction although the provers cannot apply the library's theorems of induction, which take an
operator as a parameter. Both modules that need it derive it from a fact about sets, that a set of numbers that is not empty has a least
element (`NatSetInduction`, `SubsetInduction`), and show that a fold of the library satisfies the equations it is defined by (`FoldExists`,
`FoldIsUnique`). `SelectSeq`, which the provers cannot expand, appears in no
module; what it would select is stated over sets of indices.

Only model-checked: `NeverStuckRunning`, `TurnsEnd` and `WatcherHearsOutcome`, since liveness under fairness is outside the provers'
reach, as is what is enabled: that no deadlock is found in the three instances that check it.

## 7. Not modelled

- What `PROJECT.json` lists as a hazard without a property: a restored backup beside newer files, the parity of the message count before a
  compaction, the exception of the client's own timeout.
- The address of the reminders, their times and zones as settings that change; the page's other scripts; the 200 rows a query of events returns.
- Texts, prompts, the wording of the templates, scores, FSRS arithmetic, prices: data that no modelled guard reads, or pure functions.
- Migrations, backup's copy, password hashing, pages, telemetry, doctor: I/O or formatting.
- The SMTP dialogue, providers' answers, the event loop and SQLite themselves: the environment, represented by its outcomes.
