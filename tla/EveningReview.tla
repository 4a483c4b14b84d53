---------------------------- MODULE EveningReview ----------------------------
(***************************************************************************)
(* The evening review of one session on one day: who generates it          *)
(* (learning/daily.py generate_review: a page, the scheduler of the        *)
(* server, the forced run of the CLI), the autonomous run around the       *)
(* scheduled ones (agent/service.py _run_autonomous_daily), the mail, and  *)
(* the settings that say to whom (web/app.py, db.py): saved on a page,     *)
(* verified by a test mail.                                                *)
(*                                                                         *)
(* A generation looks for a stored review, takes the finished tasks of the *)
(* plan, awaits the model and stores whatever came out.  Only the server   *)
(* wraps it in an autonomous run.  The CLI is a process of its own; its    *)
(* start, like the server's, marks the runs it finds running.  When and    *)
(* how often a reminder is due is in Notifications, here a sent reminder   *)
(* is only not sent again.                                                 *)
(*                                                                         *)
(* A review is the set of the tasks it calls completed, and who wrote it;  *)
(* the model may answer with any.                                          *)
(*                                                                         *)
(* A definition marked "fault" is a plausible slip in the one that follows *)
(* it; no action uses it, it serves to see that a property notices.        *)
(***************************************************************************)
EXTENDS Naturals, FiniteSets

CONSTANTS
  Tasks,     (* of the plan of the day                                     *)
  NoReview,  (* no review is stored                                        *)
  MaxRuns,   (* bound: autonomous runs                                     *)
  MaxStops   (* bound: processes that stop in the middle of something      *)

ASSUME EveningAssumption ==
  /\ IsFiniteSet(Tasks)
  /\ MaxRuns \in Nat /\ MaxStops \in Nat

Reviews == [completed : SUBSET Tasks, source : {"deterministic", "model"}]

ASSUME NoReviewAssumption == NoReview \notin Reviews

VARIABLES
  done,      (* the tasks of the plan that are completed                   *)
  review,    (* the row in daily_reviews                                   *)
  settings,  (* the row in notification_settings                           *)
  sent,      (* the delivery of the evening says sent                      *)
  runs,      (* autonomous runs and their artifacts                        *)
  status,    (* sessions.status, as far as it says recovering              *)
  up,        (* the server lives                                           *)
  work,      (* the generation or the mail a process is at, volatile       *)
  test,      (* a test mail is on its way, volatile                        *)
  saved,     (* history: every review that was ever stored                 *)
  saves,     (* history: how many times, up to two                         *)
  mails,     (* history: the reviews that were mailed                      *)
  tested,    (* history: a test mail arrived                               *)
  cut,       (* history: runs a stop interrupted                           *)
  doubted,   (* history: a live run was marked by a process that started   *)
  stops

tables == <<done, review, settings, sent, runs, status>>
history == <<saved, saves, mails, tested, cut, doubted>>
vars == <<tables, up, work, test, history, stops>>

Workers == {"page", "server", "cli"}
Polls == {"server", "cli"}
RunIds == 1..MaxRuns
NoRun == 0

TypeOK ==
  /\ done \in SUBSET Tasks
  /\ review \in Reviews \cup {NoReview}
  /\ settings \in [exists : BOOLEAN, enabled : BOOLEAN, verified : BOOLEAN]
  /\ sent \in BOOLEAN
  /\ runs \in [RunIds -> [status : {"absent", "running", "completed", "failed", "recovering"},
                          artifact : Reviews \cup {NoReview}]]
  /\ status \in {"settled", "recovering"}
  /\ up \in BOOLEAN
  /\ work \in [Workers -> [pc : {"idle", "model", "mailing"}, run : RunIds \cup {NoRun},
                           result : Reviews \cup {NoReview}]]
  /\ test \in BOOLEAN
  /\ saved \in SUBSET Reviews
  /\ saves \in 0..2
  /\ mails \in SUBSET Reviews
  /\ tested \in BOOLEAN
  /\ cut \in SUBSET RunIds
  /\ doubted \in BOOLEAN
  /\ stops \in 0..MaxStops

Idle == [pc |-> "idle", run |-> NoRun, result |-> NoReview]

Init ==
  /\ done = {}
  /\ review = NoReview
  /\ settings = [exists |-> FALSE, enabled |-> FALSE, verified |-> FALSE]
  /\ sent = FALSE
  /\ runs = [r \in RunIds |-> [status |-> "absent", artifact |-> NoReview]]
  /\ status = "settled"
  /\ up = TRUE
  /\ work = [p \in Workers |-> Idle]
  /\ test = FALSE
  /\ saved = {} /\ saves = 0 /\ mails = {} /\ tested = FALSE /\ cut = {}
  /\ doubted = FALSE
  /\ stops = 0

-----------------------------------------------------------------------------
(* The learner and the settings page.                                      *)

CompleteTask(t) ==
  /\ up
  /\ done' = done \cup {t}
  /\ UNCHANGED <<review, settings, sent, runs, status, up, work, test, history, stops>>

(* A turn of the learner ends and sets the status of the session.          *)
TurnEnds ==
  /\ up
  /\ status' = "settled"
  /\ UNCHANGED <<done, review, settings, sent, runs, up, work, test, history, stops>>

MayEnable(wish) == wish /\ settings.verified

(* COALESCE keeps the verification, whatever address comes with it.        *)
SaveSettings(wish) ==
  /\ up
  /\ settings' = [settings EXCEPT !.exists = TRUE, !.enabled = MayEnable(wish)]
  /\ UNCHANGED <<done, review, sent, runs, status, up, work, test, history, stops>>

(* The test mail is sent in a thread, to the address read before.          *)
SendTest ==
  /\ up
  /\ settings.exists /\ ~test
  /\ test' = TRUE
  /\ UNCHANGED <<tables, up, work, history, stops>>

TestArrives ==
  /\ test
  /\ settings' = [settings EXCEPT !.verified = TRUE]
  /\ tested' = TRUE
  /\ test' = FALSE
  /\ UNCHANGED <<done, review, sent, runs, status, up, work, saved, saves, mails, cut, doubted,
                 stops>>

(* The SMTP dialogue raises, or mail is in its dry mode.                   *)
TestFails ==
  /\ test
  /\ test' = FALSE
  /\ UNCHANGED <<tables, up, work, history, stops>>

-----------------------------------------------------------------------------
(* Generations.                                                            *)

Alive(p) == IF p = "cli" THEN TRUE ELSE up
Base == [completed |-> done, source |-> "deterministic"]
Sets(p, w) == work' = [work EXCEPT ![p] = w]

Store(what) ==
  /\ review' = what
  /\ saved' = saved \cup {what}
  /\ saves' = IF saves < 2 THEN saves + 1 ELSE 2

(* GET reviews/today; without force a stored review is simply shown.       *)
AskReview(force) ==
  /\ up
  /\ work["page"].pc = "idle"
  /\ force \/ review = NoReview
  /\ Sets("page", [Idle EXCEPT !.pc = "model", !.result = Base])
  /\ UNCHANGED <<tables, up, test, history, stops>>

(* The scheduler of the server opens a run and generates, or finds the     *)
(* review stored; the CLI does without the run.                            *)
Opens(r) ==
  runs' = [runs EXCEPT ![r] = IF review = NoReview THEN [@ EXCEPT !.status = "running"]
                              ELSE [status |-> "completed", artifact |-> review]]

NextRun(r) == runs[r].status = "absent" /\ \A q \in 1..(r - 1) : runs[q].status # "absent"

Poll(p, r) ==
  /\ Alive(p)
  /\ work[p].pc = "idle"
  /\ settings.enabled /\ ~sent
  /\ IF p = "server" THEN r \in RunIds /\ NextRun(r) /\ Opens(r)
                       ELSE r = NoRun /\ UNCHANGED runs
  /\ Sets(p, IF review = NoReview THEN [pc |-> "model", run |-> r, result |-> Base]
             ELSE [pc |-> "mailing", run |-> r, result |-> review])
  /\ UNCHANGED <<done, review, settings, sent, status, up, test, history, stops>>

(* mark_interrupted_runs; every CLI command that needs the agent does it.  *)
Interrupted == {r \in RunIds : runs[r].status \in {"running", "recovering"}}
Marked == [r \in RunIds |-> IF r \in Interrupted THEN [runs[r] EXCEPT !.status = "recovering"]
                            ELSE runs[r]]
Live(r) == work["server"].pc = "model" /\ work["server"].run = r

CliStarts ==
  /\ work["cli"].pc = "idle"
  /\ Interrupted # {}
  /\ runs' = Marked
  /\ status' = "recovering"
  /\ doubted' = (doubted \/ \E r \in Interrupted : Live(r))
  /\ UNCHANGED <<done, review, settings, sent, up, work, test, saved, saves, mails, tested, cut,
                 stops>>

(* The model answers, or it fails and the base stands.                     *)
Answers(p) == {work[p].result} \cup [completed : SUBSET Tasks, source : {"model"}]

(* Fault: the mail is made of the base and not of what was stored.         *)
MailsBase(p, what) ==
  Sets(p, IF p = "page" THEN Idle ELSE [work[p] EXCEPT !.pc = "mailing"])

GoesOn(p, what) ==
  Sets(p, IF p = "page" THEN Idle ELSE [work[p] EXCEPT !.pc = "mailing", !.result = what])

Generated(p, what) ==
  /\ Alive(p)
  /\ work[p].pc = "model"
  /\ what \in Answers(p)
  /\ Store(what)
  /\ runs' = IF work[p].run = NoRun THEN runs
             ELSE [runs EXCEPT ![work[p].run] = [status |-> "completed", artifact |-> what]]
  /\ GoesOn(p, what)
  /\ UNCHANGED <<done, settings, sent, status, up, test, mails, tested, cut, doubted, stops>>

(* What is not the model's fault raises: the run says so, the delivery     *)
(* is tried again.                                                         *)
(* Fault: the failure is left to the delivery.                             *)
FailsUnsaid(p) == runs

(* Fault: the run takes the status of the delivery.                        *)
RunsRetried(p) ==
  IF work[p].run = NoRun THEN runs ELSE [runs EXCEPT ![work[p].run].status = "retry"]

RunsFailed(p) ==
  IF work[p].run = NoRun THEN runs ELSE [runs EXCEPT ![work[p].run].status = "failed"]

GenerationFails(p) ==
  /\ Alive(p)
  /\ work[p].pc = "model"
  /\ runs' = RunsFailed(p)
  /\ Sets(p, Idle)
  /\ UNCHANGED <<done, review, settings, sent, status, up, test, history, stops>>

Leaves(p) == mails' = mails \cup {work[p].result}

MailSent(p) ==
  /\ Alive(p)
  /\ work[p].pc = "mailing"
  /\ Leaves(p)
  /\ sent' = TRUE
  /\ Sets(p, Idle)
  /\ UNCHANGED <<done, review, settings, runs, status, up, test, saved, saves, tested, cut,
                 doubted, stops>>

MailFails(p) ==
  /\ Alive(p)
  /\ work[p].pc = "mailing"
  /\ Sets(p, Idle)
  /\ UNCHANGED <<tables, up, test, history, stops>>

-----------------------------------------------------------------------------
(* Stops: a death, or the cancellation at shutdown, which no handler       *)
(* catches.  A mail in its thread may still leave.                         *)

StopServer(left) ==
  /\ up /\ stops < MaxStops
  /\ stops' = stops + 1
  /\ left => work["server"].pc = "mailing"
  /\ IF left THEN Leaves("server") ELSE UNCHANGED mails
  /\ up' = FALSE
  /\ work' = [work EXCEPT !["server"] = Idle, !["page"] = Idle]
  /\ test' = FALSE
  /\ cut' = cut \cup {r \in RunIds : Live(r)}
  /\ UNCHANGED <<tables, saved, saves, tested, doubted>>

StopCli(left) ==
  /\ work["cli"].pc # "idle" /\ stops < MaxStops
  /\ stops' = stops + 1
  /\ left => work["cli"].pc = "mailing"
  /\ IF left THEN Leaves("cli") ELSE UNCHANGED mails
  /\ Sets("cli", Idle)
  /\ UNCHANGED <<tables, up, test, saved, saves, tested, cut, doubted>>

StartServer ==
  /\ ~up
  /\ up' = TRUE
  /\ runs' = Marked
  /\ status' = IF Interrupted = {} THEN status ELSE "recovering"
  /\ UNCHANGED <<done, review, settings, sent, work, test, history, stops>>

-----------------------------------------------------------------------------
Next ==
  \/ \E t \in Tasks : CompleteTask(t)
  \/ TurnEnds
  \/ \E wish \in BOOLEAN : SaveSettings(wish)
  \/ SendTest \/ TestArrives \/ TestFails
  \/ \E force \in BOOLEAN : AskReview(force)
  \/ \E p \in Polls, r \in RunIds \cup {NoRun} : Poll(p, r)
  \/ CliStarts
  \/ \E p \in Workers :
       \/ \E what \in Answers(p) : Generated(p, what)
       \/ GenerationFails(p)
  \/ \E p \in Polls : MailSent(p) \/ MailFails(p)
  \/ \E left \in BOOLEAN : StopServer(left) \/ StopCli(left)
  \/ StartServer

Spec == Init /\ [][Next]_vars

-----------------------------------------------------------------------------
(* Properties.                                                             *)

(* What is mailed was stored, and a test mail had arrived before - at some *)
(* address, a later one inherits the verification.  When the review was    *)
(* stored once, by whoever came first, every mail of any attempt and       *)
(* process says what the page shows.                                       *)
MailedAsShown ==
  \A m \in mails : m \in saved /\ tested /\ (saves = 1 => m = review)

(* A run is open only while the scheduler awaits the model for it, or      *)
(* after a stop; a completed run has an artifact, one that was stored.     *)
(* And a session is recovering only after a stop, or after a process that  *)
(* started beside a live run.                                              *)
AutonomousRunsSettle ==
  /\ \A r \in RunIds :
       /\ runs[r].status \in {"running", "recovering"} => Live(r) \/ r \in cut
       /\ runs[r].status = "completed" => runs[r].artifact \in saved
  /\ status = "recovering" => cut # {} \/ doubted
=============================================================================
