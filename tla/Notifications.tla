---------------------------- MODULE Notifications ----------------------------
(***************************************************************************)
(* The reminder scheduler (notifications.py): every poll looks at the      *)
(* morning plan and the evening review of the local date, reserves a row   *)
(* of notification_deliveries, prepares the plan or the review, mails it   *)
(* in a thread and records the outcome.  One session whose reminders are   *)
(* enabled.                                                                *)
(*                                                                         *)
(* The server polls for ever; the CLI's "notifications run-once --force"   *)
(* is a process of its own that polls once and ignores the times.  The     *)
(* scheduler's lock keeps two polls of one process apart, so each process  *)
(* has one poll at most.  Between the awaits (the preparation, the mail)   *)
(* other processes run and time passes; a process may stop anywhere, and   *)
(* a mail handed to the thread may leave although the process that would   *)
(* record it is gone.                                                      *)
(*                                                                         *)
(* Time counts units of the first backoff (one minute).  The timezone      *)
(* conversion, the texts and the SMTP dialogue are left out.               *)
(*                                                                         *)
(* A definition marked "fault" is a plausible slip in the one that follows *)
(* it; no action uses it, it serves to see that a property notices.        *)
(***************************************************************************)
EXTENDS Naturals, Sequences

CONSTANTS
  Types,       (* the reminder types, in the order a poll visits them      *)
  TimeOf,      (* [type |-> its configured time of day]                    *)
  DayLength,   (* units in a day                                           *)
  CatchUp,     (* notification_catchup_hours                               *)
  RetryLimit,  (* notification_retry_limit                                 *)
  MaxTime,     (* bound: the clock                                         *)
  MaxForced,   (* bound: forced runs of the CLI                            *)
  MaxStops     (* bound: stops of a process in the middle of a poll        *)

TypeSet == {Types[i] : i \in 1..Len(Types)}

ASSUME TimesAssumption ==
  /\ Types \in Seq(STRING)
  /\ DayLength \in Nat \ {0}
  /\ TimeOf \in [TypeSet -> 0..(DayLength - 1)]

ASSUME BoundsAssumption ==
  /\ CatchUp \in Nat /\ RetryLimit \in Nat \ {0}
  /\ MaxTime \in Nat /\ MaxForced \in Nat /\ MaxStops \in Nat

VARIABLES
  now,       (* the clock                                                  *)
  rows,      (* notification_deliveries                                    *)
  work,      (* the poll of each process, volatile                         *)
  mails,     (* history: how many mails of a reminder left                 *)
  disputed,  (* history: reminders whose outcome was lost or contended     *)
  polled,    (* history: a poll the server began in this unit has ended    *)
  timely,    (* history: so far the server ended a poll in every unit, and *)
             (* no poll lasted from one unit into the next                 *)
  forced, stops

bounds == <<forced, stops>>
history == <<mails, disputed, polled, timely>>
vars == <<now, rows, work, history, bounds>>

Procs == {"server", "cli"}
DateOf(t) == t \div DayLength
ClockOf(t) == t % DayLength
Dates == 0..DateOf(MaxTime)
Reminders == Dates \X TypeSet
Scheduled(r) == r[1] * DayLength + TimeOf[r[2]]

(* min(3600, 60 * 2**attempts) seconds: with three attempts the cap is     *)
(* never reached.                                                          *)
Backoff(attempts) == 2 ^ attempts

Busy == {"skipping", "preparing", "sending", "accepted", "refused"}

TypeOK ==
  /\ now \in 0..MaxTime
  /\ rows \in [Reminders -> [status : {"absent", "pending", "sent", "failed", "skipped"},
                             attempts : 0..RetryLimit, next : Nat]]
  /\ work \in [Procs -> [pc : {"down", "idle", "scan"} \cup Busy, at : 0..MaxTime,
                         i : 1..(Len(Types) + 1), attempts : 0..RetryLimit]]
  /\ mails \in [Reminders -> Nat]
  /\ disputed \in SUBSET Reminders
  /\ polled \in BOOLEAN
  /\ timely \in BOOLEAN
  /\ forced \in 0..MaxForced /\ stops \in 0..MaxStops

Resting(pc) == [pc |-> pc, at |-> 0, i |-> 1, attempts |-> 0]

Init ==
  /\ now = 0
  /\ rows = [r \in Reminders |-> [status |-> "absent", attempts |-> 0, next |-> 0]]
  /\ work = [p \in Procs |-> Resting("idle")]
  /\ mails = [r \in Reminders |-> 0]
  /\ disputed = {}
  /\ polled = FALSE /\ timely = TRUE
  /\ forced = 0 /\ stops = 0

-----------------------------------------------------------------------------
(* The reminder a poll is at, and its row after INSERT OR IGNORE (which    *)
(* dates next_attempt_at, but nothing reads that of a row without          *)
(* attempts).                                                              *)
Reminder(p) == <<DateOf(work[p].at), Types[work[p].i]>>
Reserved(r) ==
  IF rows[r].status = "absent" THEN [rows[r] EXCEPT !.status = "pending"] ELSE rows[r]

Scanning(p) == work[p].pc = "scan" /\ work[p].i <= Len(Types)
Contended(p) == \E q \in Procs \ {p} : work[q].pc \in Busy /\ Reminder(q) = Reminder(p)

Moves(p) == work' = [work EXCEPT ![p].pc = "scan", ![p].i = @ + 1, ![p].attempts = 0]
Enters(p, pc) == work' = [work EXCEPT ![p].pc = pc]

(* What a poll does with the reminder it is at, by the time it began.      *)
IsForced(p) == p = "cli"
Late(p) == ClockOf(work[p].at) - TimeOf[Types[work[p].i]]
NotDue(p) == ~IsForced(p) /\ ClockOf(work[p].at) < TimeOf[Types[work[p].i]]
Expired(p) == ~IsForced(p) /\ ~NotDue(p) /\ Late(p) > CatchUp
Due(p) == ~NotDue(p) /\ ~Expired(p)

Poll(p) ==
  /\ work[p].pc = "idle"
  /\ p = "cli" => forced < MaxForced
  /\ work' = [work EXCEPT ![p] = [Resting("scan") EXCEPT !.at = now]]
  /\ forced' = IF p = "cli" THEN forced + 1 ELSE forced
  /\ UNCHANGED <<now, rows, history, stops>>

EndPoll(p) ==
  /\ work[p].pc = "scan" /\ work[p].i > Len(Types)
  /\ work' = [work EXCEPT ![p] = Resting("idle")]
  /\ polled' = (polled \/ (p = "server" /\ work[p].at = now))
  /\ UNCHANGED <<now, rows, mails, disputed, timely, bounds>>

PassOver(p) ==
  /\ Scanning(p) /\ NotDue(p)
  /\ Moves(p)
  /\ UNCHANGED <<now, rows, history, bounds>>

(* _skip_missed: reserve, look at the row, then mark it.                   *)
ReserveExpired(p) ==
  LET r == Reminder(p) IN
  /\ Scanning(p) /\ Expired(p)
  /\ rows' = [rows EXCEPT ![r] = Reserved(r)]
  /\ IF Reserved(r).status \in {"sent", "skipped"}
       THEN Moves(p) /\ UNCHANGED disputed
       ELSE /\ Enters(p, "skipping")
            /\ disputed' = IF Contended(p) THEN disputed \cup {r} ELSE disputed
  /\ UNCHANGED <<now, mails, polled, timely, bounds>>

MarkSkipped(p) ==
  /\ work[p].pc = "skipping"
  /\ rows' = [rows EXCEPT ![Reminder(p)].status = "skipped"]
  /\ Moves(p)
  /\ UNCHANGED <<now, history, bounds>>

(* _deliver up to its first await.                                         *)
(* Fault: a failed reminder is given up.                                   *)
OnlyFresh(p) == Reserved(Reminder(p)).status # "pending"

(* Fault: only the attempts count, not that one of them succeeded.         *)
CountsOnly(p) == Reserved(Reminder(p)).attempts >= RetryLimit

(* Fault: one attempt too many.                                            *)
OneTooMany(p) ==
  LET row == Reserved(Reminder(p)) IN
    row.status = "sent" \/ row.attempts > RetryLimit \/ (row.attempts > 0 /\ row.next > work[p].at)

NothingToDo(p) ==
  LET row == Reserved(Reminder(p)) IN
    \/ row.status = "sent"
    \/ row.attempts >= RetryLimit
    \/ row.attempts > 0 /\ row.next > work[p].at

ReserveDue(p) ==
  LET r == Reminder(p) IN
  /\ Scanning(p) /\ Due(p)
  /\ rows' = [rows EXCEPT ![r] = Reserved(r)]
  /\ IF NothingToDo(p)
       THEN Moves(p) /\ UNCHANGED disputed
       ELSE /\ work' = [work EXCEPT ![p].pc = "preparing", ![p].attempts = Reserved(r).attempts]
            /\ disputed' = IF Contended(p) THEN disputed \cup {r} ELSE disputed
  /\ UNCHANGED <<now, mails, polled, timely, bounds>>

(* The plan or the review is there, or raised.                             *)
Prepared(p) ==
  /\ work[p].pc = "preparing"
  /\ \E pc \in {"sending", "refused"} : Enters(p, pc)
  /\ UNCHANGED <<now, rows, history, bounds>>

MailLeaves(p) ==
  /\ work[p].pc = "sending"
  /\ mails' = [mails EXCEPT ![Reminder(p)] = @ + 1]
  /\ Enters(p, "accepted")
  /\ UNCHANGED <<now, rows, disputed, polled, timely, bounds>>

(* The SMTP dialogue raises, before the mail was accepted or after it.     *)
MailFails(p, left) ==
  LET r == Reminder(p) IN
  /\ work[p].pc = "sending"
  /\ mails' = IF left THEN [mails EXCEPT ![r] = @ + 1] ELSE mails
  /\ disputed' = IF left THEN disputed \cup {r} ELSE disputed
  /\ Enters(p, "refused")
  /\ UNCHANGED <<now, rows, polled, timely, bounds>>

RecordSent(p) ==
  /\ work[p].pc = "accepted"
  /\ rows' = [rows EXCEPT ![Reminder(p)] =
                [status |-> "sent", attempts |-> work[p].attempts + 1, next |-> @.next]]
  /\ Moves(p)
  /\ UNCHANGED <<now, history, bounds>>

RecordFailure(p) ==
  /\ work[p].pc = "refused"
  /\ rows' = [rows EXCEPT ![Reminder(p)] =
                [status |-> "failed", attempts |-> work[p].attempts + 1,
                 next |-> now + Backoff(work[p].attempts)]]
  /\ Moves(p)
  /\ UNCHANGED <<now, history, bounds>>

(* The process dies, or stop() cancels the poll; a mail being sent by the  *)
(* thread may still leave.                                                 *)
Stop(p, left) ==
  LET r == Reminder(p) IN
  /\ work[p].pc \in Busy
  /\ stops < MaxStops
  /\ stops' = stops + 1
  /\ left => work[p].pc = "sending"
  /\ mails' = IF left THEN [mails EXCEPT ![r] = @ + 1] ELSE mails
  /\ disputed' = IF left \/ work[p].pc = "accepted" THEN disputed \cup {r} ELSE disputed
  /\ work' = [work EXCEPT ![p] = Resting(IF p = "server" THEN "down" ELSE "idle")]
  /\ UNCHANGED <<now, rows, polled, timely, forced>>

(* The server is down between polls, too; it is started again.             *)
ShutDown ==
  /\ work["server"].pc = "idle"
  /\ stops < MaxStops
  /\ stops' = stops + 1
  /\ work' = [work EXCEPT !["server"] = Resting("down")]
  /\ UNCHANGED <<now, rows, history, forced>>

Start ==
  /\ work["server"].pc = "down"
  /\ work' = [work EXCEPT !["server"] = Resting("idle")]
  /\ UNCHANGED <<now, rows, history, bounds>>

Tick ==
  /\ now < MaxTime
  /\ now' = now + 1
  /\ polled' = FALSE
  /\ timely' = (timely /\ polled /\ \A p \in Procs : work[p].pc \in {"idle", "down"})
  /\ UNCHANGED <<rows, work, mails, disputed, bounds>>

Next ==
  \/ \E p \in Procs :
       \/ Poll(p)
       \/ EndPoll(p)
       \/ PassOver(p)
       \/ ReserveExpired(p)
       \/ MarkSkipped(p)
       \/ ReserveDue(p)
       \/ Prepared(p)
       \/ MailLeaves(p)
       \/ \E left \in BOOLEAN : MailFails(p, left) \/ Stop(p, left)
       \/ RecordSent(p)
       \/ RecordFailure(p)
  \/ ShutDown
  \/ Start
  \/ Tick

Spec == Init /\ [][Next]_vars

-----------------------------------------------------------------------------
(* Properties.                                                             *)

AtWork(r) == \E p \in Procs : work[p].pc \in Busy /\ Reminder(p) = r

(* Unless its outcome was lost (a stop, a mail accepted with an error) or  *)
(* two processes worked on it at once, a reminder is mailed at most once,  *)
(* and when nobody is at it, it was mailed exactly if its row says sent -  *)
(* with retries, outages, skips and forced runs in any order.              *)
UndisputedMailedOnce ==
  \A r \in Reminders \ disputed :
    /\ mails[r] <= 1
    /\ ~AtWork(r) => mails[r] = IF rows[r].status = "sent" THEN 1 ELSE 0

(* While the server ends a poll in every unit of time, and no poll lasts   *)
(* longer, a reminder is settled once its last retry is due: sent, or all  *)
(* attempts used up.  Neither the backoff nor the catch-up window nor      *)
(* midnight loses one, if the window and the rest of the day leave room    *)
(* for all backoffs, 2^0 + ... + 2^(RetryLimit - 2) units (RetriesFit).    *)
(* By default that is three minutes and a window of hours; a reminder in   *)
(* the last minutes of a day has no such room and is lost at midnight.     *)
RetriesFit ==
  /\ 2 ^ (RetryLimit - 1) <= CatchUp + 1
  /\ \A t \in TypeSet : TimeOf[t] + 2 ^ (RetryLimit - 1) <= DayLength

Settled(r) == rows[r].status = "sent" \/ rows[r].attempts >= RetryLimit

RemindersSettleOnTime ==
  \A r \in Reminders :
    timely /\ now > Scheduled(r) + 2 ^ (RetryLimit - 1) - 1 => Settled(r)
=============================================================================
