------------------------------ MODULE TurnQueue ------------------------------
(***************************************************************************)
(* Several sessions on one server: submission (agent/service.py submit),   *)
(* the tasks that wait for the global semaphore and run                    *)
(* (agent/runtime.py run_turn), and the deletion and clean-up of sessions  *)
(* below them (db.py).  EventStream adds a page that follows the events,   *)
(* Accounts the owners of the rows.                                        *)
(*                                                                         *)
(* The server is one asyncio loop: what runs between two awaits is one     *)
(* step.  A turn awaits the semaphore, the agent and the compaction; the   *)
(* deaths between two statements of one such step, and the cards a         *)
(* decision writes, are in SessionRuntime.                                 *)
(*                                                                         *)
(* Event ids grow and are never used twice (AUTOINCREMENT), so the rows of *)
(* a session are the end of the sequence of all events it ever got: log    *)
(* is that sequence and gone the length of the part that was deleted.      *)
(*                                                                         *)
(* A definition marked "fault" is a plausible slip in the one that follows *)
(* it; no action uses it, it serves to see that a property notices.        *)
(***************************************************************************)
EXTENDS Naturals, Sequences, FiniteSets

CONSTANTS
  Sessions,
  NoSession,   (* the session of a run nobody submitted yet                *)
  Slots,       (* settings.global_concurrency                              *)
  MaxRuns,     (* bound: submissions                                       *)
  MaxCrashes   (* bound: deaths of the server                              *)

ASSUME QueueAssumption ==
  /\ NoSession \notin Sessions
  /\ Slots \in Nat \ {0}
  /\ MaxRuns \in Nat /\ MaxCrashes \in Nat

VARIABLES
  session,  (* [Sessions -> its row: not yet, open, or deleted]            *)
  asked,    (* sessions with a user message in their rows                  *)
  row,      (* the status in runs                                          *)
  log,      (* [Sessions -> all events it ever got]                        *)
  gone,     (* [Sessions -> how many of them are deleted]                  *)
  up,       (* the server lives                                            *)
  active,   (* AgentService._active_sessions                               *)
  turn,     (* the task of a run: its session, where it is, if it retries  *)
  queue,    (* tasks that wait for the semaphore, in the order they came   *)
  free,     (* the value of the semaphore                                  *)
  caught,   (* history: runs that had begun when their session was deleted *)
  crashes

rows == <<session, asked, row, log, gone>>
tasks == <<active, turn, queue, free>>
qvars == <<rows, up, tasks, caught, crashes>>

Runs == 1..MaxRuns

Outcomes == {"done", "error"}
Begun == {"agent", "compacting"}
InProgress == {"queued"} \cup Begun

Turns == [session : Sessions \cup {NoSession},
          phase : {"none", "returning", "over"} \cup InProgress, retry : BOOLEAN]

Events == [run : Runs, kind : {"run_started", "recovering", "decided"} \cup Outcomes]

TypeOK ==
  /\ session \in [Sessions -> {"none", "open", "deleted"}]
  /\ asked \in SUBSET Sessions
  /\ row \in [Runs -> {"absent", "running", "ended", "failed", "recovering"}]
  /\ log \in [Sessions -> Seq(Events)]
  /\ gone \in [Sessions -> Nat] /\ \A s \in Sessions : gone[s] <= Len(log[s])
  /\ up \in BOOLEAN
  /\ active \in SUBSET Sessions
  /\ turn \in [Runs -> Turns]
  /\ queue \in Seq(Runs)
  /\ free \in 0..Slots
  /\ caught \in SUBSET Runs
  /\ crashes \in 0..MaxCrashes

Init ==
  /\ session = [s \in Sessions |-> "none"]
  /\ asked = {}
  /\ row = [r \in Runs |-> "absent"]
  /\ log = [s \in Sessions |-> <<>>]
  /\ gone = [s \in Sessions |-> 0]
  /\ up = TRUE
  /\ active = {}
  /\ turn = [r \in Runs |-> [session |-> NoSession, phase |-> "none", retry |-> FALSE]]
  /\ queue = <<>>
  /\ free = Slots
  /\ caught = {}
  /\ crashes = 0

-----------------------------------------------------------------------------
(* Rows.                                                                   *)

SessionOf(r) == turn[r].session
Gone == {s \in Sessions : session[s] = "deleted"}
RunsOf(s) == {r \in Runs : SessionOf(r) = s}
LastEventId(s) == IF gone[s] = Len(log[s]) THEN 0 ELSE Len(log[s])
Emit(s, r, kind) == log' = [log EXCEPT ![s] = Append(@, [run |-> r, kind |-> kind])]

CreateSession(s) ==
  /\ up
  /\ session[s] = "none"
  /\ session' = [session EXCEPT ![s] = "open"]
  /\ UNCHANGED <<asked, row, log, gone, up, tasks, caught, crashes>>

(* Every table loses the rows of the session; the tasks are not told.      *)
DeleteSession(s) ==
  /\ up
  /\ session[s] = "open"
  /\ session' = [session EXCEPT ![s] = "deleted"]
  /\ asked' = asked \ {s}
  /\ row' = [r \in Runs |-> IF r \in RunsOf(s) THEN "absent" ELSE row[r]]
  /\ gone' = [gone EXCEPT ![s] = Len(log[s])]
  /\ caught' = caught \cup {r \in RunsOf(s) : turn[r].phase \in Begun}
  /\ UNCHANGED <<log, up, tasks, crashes>>

(* Messages and events older than the retention are deleted by the CLI; a  *)
(* turn that began is younger.  A message is older than the events of its  *)
(* turn, so it goes when all of them go.                                   *)
Cleanup(s, n, keep) ==
  /\ session[s] # "none"
  /\ \A r \in RunsOf(s) : turn[r].phase \in {"queued", "over"}
  /\ n \in gone[s]..Len(log[s])
  /\ keep => n < Len(log[s])
  /\ asked' = IF keep THEN asked ELSE asked \ {s}
  /\ gone' = [gone EXCEPT ![s] = n]
  /\ UNCHANGED <<session, row, log, up, tasks, caught, crashes>>

-----------------------------------------------------------------------------
(* Tasks.                                                                  *)

(* Fault: the running turn of a session is not looked for.                 *)
SubmitsAlways(s) == session[s] = "open"

Submittable(s) == session[s] = "open" /\ s \notin active

(* post_message and retry_message.                                         *)
Submit(s, r, retry) ==
  /\ up
  /\ Submittable(s)
  /\ retry => s \in asked
  /\ turn[r].phase = "none" /\ \A q \in 1..(r - 1) : turn[q].phase # "none"
  /\ active' = active \cup {s}
  /\ turn' = [turn EXCEPT ![r] = [session |-> s, phase |-> "queued", retry |-> retry]]
  /\ queue' = Append(queue, r)
  /\ UNCHANGED <<rows, up, free, caught, crashes>>

Enters(r, phase) == turn' = [turn EXCEPT ![r].phase = phase]
TurnAt(r, phase) == up /\ turn[r].phase = phase

(* Whoever waits longest takes a slot.                                     *)
AtHead(r) == up /\ queue # <<>> /\ free > 0 /\ r = Head(queue)

(* Fault: the session is not looked up.                                    *)
Starts(r) == AtHead(r) /\ (turn[r].retry => SessionOf(r) \in asked)

(* run_turn up to the agent's first await.                                 *)
CanBegin(r) ==
  /\ AtHead(r)
  /\ session[SessionOf(r)] = "open"
  /\ turn[r].retry => SessionOf(r) \in asked

Begin(r) ==
  /\ CanBegin(r)
  /\ queue' = Tail(queue)
  /\ free' = free - 1
  /\ row' = [row EXCEPT ![r] = "running"]
  /\ asked' = asked \cup {SessionOf(r)}
  /\ Emit(SessionOf(r), r, "run_started")
  /\ Enters(r, "agent")
  /\ UNCHANGED <<session, gone, up, active, caught, crashes>>

(* Fault: the slot is taken before the look-up and not given back.         *)
LosesSlot(r) ==
  /\ AtHead(r)
  /\ session[SessionOf(r)] # "open"
  /\ queue' = Tail(queue)
  /\ free' = free - 1
  /\ Enters(r, "returning")
  /\ UNCHANGED <<rows, up, active, caught, crashes>>

(* KeyError: the session was deleted while the task waited.                *)
BeginDeleted(r) ==
  /\ AtHead(r)
  /\ session[SessionOf(r)] # "open"
  /\ queue' = Tail(queue)
  /\ Enters(r, "returning")
  /\ UNCHANGED <<rows, up, active, free, caught, crashes>>

(* A retry whose message was cleaned up meanwhile fails at once.           *)
BeginEmpty(r) ==
  /\ AtHead(r)
  /\ session[SessionOf(r)] = "open"
  /\ turn[r].retry /\ SessionOf(r) \notin asked
  /\ queue' = Tail(queue)
  /\ row' = [row EXCEPT ![r] = "failed"]
  /\ Emit(SessionOf(r), r, "error")
  /\ Enters(r, "returning")
  /\ UNCHANGED <<session, asked, gone, up, active, free, caught, crashes>>

(* update_run of a run without a row does nothing.                         *)
SetRow(r, status) ==
  row' = [row EXCEPT ![r] = IF row[r] = "absent" THEN "absent" ELSE status]

(* The agent raises; or the session is gone, and the answer violates the   *)
(* foreign key of messages.                                                *)
Fail(r) ==
  /\ TurnAt(r, "agent")
  /\ SetRow(r, "failed")
  /\ Emit(SessionOf(r), r, "error")
  /\ free' = free + 1
  /\ Enters(r, "returning")
  /\ UNCHANGED <<session, asked, gone, up, active, queue, caught, crashes>>

(* The answer is stored; then the older messages may be compacted.         *)
Answer(r) ==
  /\ TurnAt(r, "agent")
  /\ session[SessionOf(r)] = "open"
  /\ Enters(r, "compacting")
  /\ UNCHANGED <<rows, up, active, queue, free, caught, crashes>>

Finish(r) ==
  /\ TurnAt(r, "compacting")
  /\ SetRow(r, "ended")
  /\ Emit(SessionOf(r), r, "done")
  /\ free' = free + 1
  /\ Enters(r, "returning")
  /\ UNCHANGED <<session, asked, gone, up, active, queue, caught, crashes>>

(* _finish_task, a callback of the loop's next iteration.                  *)
FinishTask(r) ==
  /\ TurnAt(r, "returning")
  /\ active' = active \ {SessionOf(r)}
  /\ Enters(r, "over")
  /\ UNCHANGED <<rows, up, queue, free, caught, crashes>>

(* The process dies: tasks, queue and slots are gone, the rows stay.       *)
Crash ==
  /\ up
  /\ crashes < MaxCrashes
  /\ crashes' = crashes + 1
  /\ up' = FALSE
  /\ active' = {}
  /\ queue' = <<>>
  /\ free' = Slots
  /\ turn' = [r \in Runs |-> IF turn[r].phase = "none" THEN turn[r] ELSE [turn[r] EXCEPT !.phase = "over"]]
  /\ UNCHANGED <<rows, caught>>

(* mark_interrupted_runs, which takes the oldest run first.                *)
Nth(rs, i) == CHOOSE r \in rs : Cardinality({q \in rs : q <= r}) = i
Noted(rs) == [i \in 1..Cardinality(rs) |-> [run |-> Nth(rs, i), kind |-> "recovering"]]

Restart ==
  LET cut == {r \in Runs : row[r] \in {"running", "recovering"}} IN
  /\ ~up
  /\ up' = TRUE
  /\ row' = [r \in Runs |-> IF r \in cut THEN "recovering" ELSE row[r]]
  /\ log' = [s \in Sessions |-> log[s] \o Noted(cut \cap RunsOf(s))]
  /\ UNCHANGED <<session, asked, gone, tasks, caught, crashes>>

-----------------------------------------------------------------------------
RunStep(r) ==
  \/ Begin(r) \/ BeginDeleted(r) \/ BeginEmpty(r)
  \/ Fail(r)
  \/ Answer(r)
  \/ Finish(r) \/ FinishTask(r)

CleansUp(s) == \E n \in gone[s]..Len(log[s]), keep \in BOOLEAN : Cleanup(s, n, keep)

SessionStep(s) == CreateSession(s) \/ DeleteSession(s) \/ CleansUp(s)

Next ==
  \/ \E s \in Sessions :
       \/ SessionStep(s)
       \/ \E r \in Runs, retry \in BOOLEAN : Submit(s, r, retry)
  \/ \E r \in Runs : RunStep(r)
  \/ Crash \/ Restart

Spec == Init /\ [][Next]_qvars

-----------------------------------------------------------------------------
(* Properties.                                                             *)

(* The events of a run tell its outcome at most once, for every run that   *)
(* was accepted while no other of its session was, and only a death of the *)
(* server or the deletion of the session leaves one untold.                *)
OutcomeOf(r) ==
  LET s == SessionOf(r)
      told == {i \in 1..Len(log[s]) : log[s][i].run = r /\ log[s][i].kind \in Outcomes}
  IN IF s = NoSession THEN {} ELSE {[at |-> i, kind |-> log[s][i].kind] : i \in told}

Existing == {s \in Sessions : session[s] = "open"}
Owed == [s \in Sessions |-> {r \in RunsOf(s) : turn[r].phase \in InProgress}]
Accepted == {r \in Runs : turn[r].phase # "none"}

Promise == INSTANCE TurnPromise WITH
  open <- Existing, owed <- Owed, accepted <- Accepted,
  outcome <- [r \in Runs |-> OutcomeOf(r)]

ImplementsPromise == Promise!Spec

(* Every accepted turn ends, whatever is deleted or fails around it, and   *)
(* its session takes messages again.                                       *)
TurnsEnd ==
  \A r \in Runs :
    turn[r].phase = "queued" ~> turn[r].phase = "over" /\ SessionOf(r) \notin active
=============================================================================
