----------------------------- MODULE EventStream -----------------------------
(***************************************************************************)
(* A page on top of TurnQueue: it submits a message and follows the events *)
(* of that run over server-sent events (web/app.py events, static/app.js   *)
(* watchEvents), across broken connections and restarts, while other tabs  *)
(* submit, decide cards and delete sessions.  It also composes what        *)
(* TurnQueue promises with these steps: see its ImplementsPromise.         *)
(*                                                                         *)
(* The server's stream keeps a cursor and yields the rows above it; what   *)
(* it yielded is on its way (pipe) until the page hears it.  The page      *)
(* listens to every kind but "recovering"; the id of the last event it     *)
(* listened to is the cursor of its next connection.                       *)
(***************************************************************************)
EXTENDS TurnQueue

CONSTANTS
  MaxBreaks,   (* bound: broken connections of the page                    *)
  MaxDecided   (* bound: decisions of cards                                *)

ASSUME StreamAssumption == MaxBreaks \in Nat /\ MaxDecided \in Nat

VARIABLES
  page,  (* the run the page follows, its EventSource, what it heard       *)
  breaks, decided

svars == <<qvars, page, breaks, decided>>

NoRun == 0

NoPage == [run |-> NoRun, conn |-> "closed", cursor |-> 0, sent |-> 0, pipe |-> <<>>,
           seen |-> {}, end |-> "none"]

StreamInit == Init /\ page = NoPage /\ breaks = 0 /\ decided = 0

Shown == SessionOf(page.run)
KindAt(i) == log[Shown][i].kind
Following(s) == page.conn # "closed" /\ Shown = s

(* The connection is gone, and the server's stream with it.                *)
Cut(p, conn) == [p EXCEPT !.conn = conn, !.sent = 0, !.pipe = <<>>]

-----------------------------------------------------------------------------
(* What TurnQueue does, seen by the page.                                  *)

(* Fault: the page follows from the first event on.                        *)
FollowsFromStart(r, s) == [NoPage EXCEPT !.run = r, !.conn = "waiting"]

(* after_event_id of the 202 answer is where the page begins.              *)
Follow(r, s) == [NoPage EXCEPT !.run = r, !.conn = "waiting", !.cursor = LastEventId(s)]

SubmitFollowed(s, r, retry) ==
  /\ Submit(s, r, retry)
  /\ page.conn = "closed"
  /\ page' = Follow(r, s)

CrashCuts ==
  /\ Crash
  /\ page' = IF page.conn = "streaming" THEN Cut(page, "waiting") ELSE page

(* What a page still waits for is younger than the retention.              *)
CleanupBehind(s) ==
  /\ Following(s) => turn[page.run].phase = "queued"
  /\ CleansUp(s)
  /\ UNCHANGED page

(* decide_action as far as a page can hear it: the card of a turn closes.  *)
DecideCard(r) ==
  LET s == SessionOf(r) IN
  /\ up
  /\ row[r] = "ended" \/ (row[r] = "running" /\ turn[r].phase = "compacting")
  /\ decided < MaxDecided
  /\ decided' = decided + 1
  /\ Emit(s, r, "decided")
  /\ UNCHANGED <<session, asked, row, gone, up, tasks, caught, crashes, page, breaks>>

-----------------------------------------------------------------------------
(* The connection.                                                         *)

(* Fault: it asks for what is new.                                         *)
ConnectsToNow ==
  /\ up
  /\ page.conn = "waiting" /\ session[Shown] = "open"
  /\ page' = [page EXCEPT !.conn = "streaming", !.sent = LastEventId(Shown)]
  /\ UNCHANGED <<qvars, breaks, decided>>

Connect ==
  /\ up
  /\ page.conn = "waiting" /\ session[Shown] = "open"
  /\ page' = [page EXCEPT !.conn = "streaming", !.sent = page.cursor]
  /\ UNCHANGED <<qvars, breaks, decided>>

(* The stream yields the next row above its cursor.                        *)
Send ==
  LET next == (IF page.sent > gone[Shown] THEN page.sent ELSE gone[Shown]) + 1 IN
  /\ up
  /\ page.conn = "streaming" /\ next <= Len(log[Shown])
  /\ page' = [page EXCEPT !.sent = next, !.pipe = Append(@, next)]
  /\ UNCHANGED <<qvars, breaks, decided>>

(* An outcome or a decision closes the EventSource.                        *)
EndAt(i) ==
  CASE KindAt(i) \in Outcomes -> "outcome"
    [] KindAt(i) = "decided" -> "decision"
    [] OTHER -> "none"

Heard(i) ==
  LET took == [page EXCEPT !.pipe = Tail(@)]
      noted == [took EXCEPT !.seen = @ \cup {i}, !.cursor = i, !.end = EndAt(i)]
  IN IF KindAt(i) = "recovering" THEN took
     ELSE IF EndAt(i) = "none" THEN noted ELSE Cut(noted, "closed")

Hear ==
  /\ page.conn = "streaming" /\ page.pipe # <<>>
  /\ page' = Heard(Head(page.pipe))
  /\ UNCHANGED <<qvars, breaks, decided>>

(* The connection breaks, or the stream ends because it was idle: what was *)
(* on its way is lost.                                                     *)
Break ==
  /\ page.conn = "streaming"
  /\ breaks < MaxBreaks
  /\ breaks' = breaks + 1
  /\ page' = Cut(page, "waiting")
  /\ UNCHANGED <<qvars, decided>>

PageStep == Connect \/ Send \/ Hear

-----------------------------------------------------------------------------
Unseen ==
  \/ \E s \in Sessions :
       \/ CreateSession(s) \/ DeleteSession(s)
       \/ \E r \in Runs, retry \in BOOLEAN : Submit(s, r, retry)
  \/ \E r \in Runs : RunStep(r)
  \/ Restart

ServerStep ==
  /\ \/ Unseen /\ UNCHANGED page
     \/ \E s \in Sessions, r \in Runs, retry \in BOOLEAN : SubmitFollowed(s, r, retry)
     \/ CrashCuts
     \/ \E s \in Sessions : CleanupBehind(s)
  /\ UNCHANGED <<breaks, decided>>

StreamNext ==
  \/ ServerStep
  \/ \E r \in Runs : DecideCard(r)
  \/ PageStep \/ Break

(* As in TurnQueue; and a page that lost its connection asks again after   *)
(* 1.2 s, and what is sent over a connection arrives or the connection     *)
(* breaks.                                                                 *)
StreamSpec ==
  /\ StreamInit /\ [][StreamNext]_svars
  /\ \A r \in Runs : WF_svars(RunStep(r) /\ UNCHANGED <<page, breaks, decided>>)
  /\ WF_svars(PageStep)

-----------------------------------------------------------------------------
(* Properties.                                                             *)

(* A page that stopped at an outcome has heard every event of its run, in  *)
(* spite of broken connections, restarts and clean-ups, and the outcome is *)
(* that of its run; only a run that a crash took without a word lets the   *)
(* page hear that of a later run.  A deletion takes the events below it.   *)
ClientMissesNothing ==
  page.end = "outcome" /\ Shown \notin Gone =>
    /\ \A i \in 1..Len(log[Shown]) :
         log[Shown][i].run = page.run /\ log[Shown][i].kind \in Outcomes \cup {"run_started"}
           => i \in page.seen
    /\ log[Shown][page.cursor].run # page.run => crashes > 0 /\ OutcomeOf(page.run) = {}

(* While the server does not die and the session is not deleted, the page  *)
(* hears how its run ended, or that a card was decided.                    *)
WatcherHearsOutcome ==
  \A r \in Runs :
    page.run = r /\ page.conn # "closed"
      ~> page.conn = "closed" \/ crashes > 0 \/ SessionOf(r) \in Gone
=============================================================================
