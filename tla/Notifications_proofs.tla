------------------------- MODULE Notifications_proofs -------------------------
(***************************************************************************)
(* Proofs about the reminder scheduler: its variables keep their types; a  *)
(* reminder whose outcome nobody lost or contended is mailed at most once, *)
(* and exactly if its row says so; and while the polls are timely every    *)
(* reminder is settled when its last retry was due.                        *)
(***************************************************************************)
EXTENDS Notifications, Integers, FiniteSetTheorems, TLAPS

-----------------------------------------------------------------------------
(* Arithmetic.  The backoff doubles; the library knows powers of two as    *)
(* the numbers of subsets.                                                 *)

LEMMA PowerCounts ==
  ASSUME NEW n \in Nat
  PROVE  /\ IsFiniteSet(SUBSET (1..n)) /\ Cardinality(SUBSET (1..n)) = 2 ^ n
         /\ 2 ^ n \in Nat /\ 2 ^ n > 0
<1>1. IsFiniteSet(1..n) /\ Cardinality(1..n) = n
  BY FS_Interval
<1>2. IsFiniteSet(SUBSET (1..n)) /\ Cardinality(SUBSET (1..n)) = 2 ^ n
  BY <1>1, FS_SUBSET
<1>3. Cardinality(SUBSET (1..n)) \in Nat
  BY <1>2, FS_CardinalityType
<1>4. Cardinality(SUBSET (1..n)) # 0
  BY <1>2, FS_EmptySet
<1>5. QED
  BY <1>2, <1>3, <1>4

LEMMA PowerGrows ==
  ASSUME NEW m \in Nat, NEW n \in Nat, m <= n
  PROVE  2 ^ m <= 2 ^ n
<1>1. SUBSET (1..m) \subseteq SUBSET (1..n)
  OBVIOUS
<1>2. Cardinality(SUBSET (1..m)) <= Cardinality(SUBSET (1..n))
  BY <1>1, PowerCounts, FS_Subset
<1>3. QED
  BY <1>2, PowerCounts

LEMMA PowerDoubles ==
  ASSUME NEW n \in Nat
  PROVE  2 ^ (n + 1) = 2 ^ n + 2 ^ n
<1> DEFINE Old == SUBSET (1..n)
           With(T) == T \cup {n + 1}
           New == {With(T) : T \in Old}
<1>1. IsFiniteSet(Old) /\ Cardinality(Old) = 2 ^ n /\ 2 ^ n \in Nat
  BY PowerCounts
<1>2. SUBSET (1..(n + 1)) = Old \cup New
  <2>1. ASSUME NEW T \in SUBSET (1..(n + 1)) PROVE T \in Old \cup New
    <3>1. CASE n + 1 \in T
      <4>1. T \ {n + 1} \in Old /\ T = With(T \ {n + 1})
        BY <3>1
      <4>2. QED
        BY <4>1
    <3>2. CASE n + 1 \notin T
      BY <3>2
    <3>3. QED
      BY <3>1, <3>2
  <2>2. ASSUME NEW T \in Old \cup New PROVE T \in SUBSET (1..(n + 1))
    OBVIOUS
  <2>3. QED
    BY <2>1, <2>2
<1>3. Old \cap New = {}
  OBVIOUS
<1>4. Cardinality(New) = Cardinality(Old) /\ IsFiniteSet(New)
  <2> DEFINE f == [T \in Old |-> With(T)]
  <2>1. f \in Bijection(Old, New)
    <3>1. f \in [Old -> New] /\ \A T \in New : \E S \in Old : f[S] = T
      OBVIOUS
    <3>2. ASSUME NEW S \in Old, NEW T \in Old, f[S] = f[T] PROVE S = T
      <4>1. n + 1 \notin S /\ n + 1 \notin T
        OBVIOUS
      <4>2. S \cup {n + 1} = T \cup {n + 1}
        BY <3>2
      <4>3. QED
        BY <4>1, <4>2
    <3>3. QED
      BY <3>1, <3>2 DEF Bijection, Injection, Surjection, IsInjective
  <2>2. QED
    BY <1>1, <2>1, FS_Bijection DEF ExistsBijection
<1>5. Cardinality(Old \cup New) = Cardinality(Old) + Cardinality(New)
  <2> HIDE DEF Old, New
  <2>1. Cardinality(Old \cap New) = 0
    BY <1>3, FS_EmptySet
  <2>2. Cardinality(Old \cup New) = Cardinality(Old) + Cardinality(New) - Cardinality(Old \cap New)
    BY <1>1, <1>4, FS_Union
  <2>3. QED
    BY <1>1, <1>4, <2>1, <2>2
<1>6. Cardinality(SUBSET (1..(n + 1))) = 2 ^ (n + 1)
  BY PowerCounts
<1>7. QED
  <2> HIDE DEF Old, New
  <2>1. QED
    BY <1>1, <1>2, <1>4, <1>5, <1>6

(* A clock reading is a date and a time of day.                            *)
LEMMA DateParts ==
  ASSUME NEW t \in Nat
  PROVE  /\ DateOf(t) \in Nat /\ ClockOf(t) \in 0..(DayLength - 1)
         /\ t = DayLength * DateOf(t) + ClockOf(t)
BY TimesAssumption DEF DateOf, ClockOf

LEMMA DateGrows ==
  ASSUME NEW t \in Nat, NEW u \in Nat, t <= u
  PROVE  DateOf(t) <= DateOf(u)
BY TimesAssumption, SMTT(30) DEF DateOf

LEMMA DateIsUnique ==
  ASSUME NEW t \in Nat, NEW d \in Nat, d * DayLength <= t, t < (d + 1) * DayLength
  PROVE  DateOf(t) = d
BY TimesAssumption, SMTT(30) DEF DateOf

-----------------------------------------------------------------------------
(* Types.                                                                  *)
Statuses == {"absent", "pending", "sent", "failed", "skipped"}
RowType == [status : Statuses, attempts : 0..RetryLimit, next : Nat]
Places == {"down", "idle", "scan"} \cup Busy
WorkType == [pc : Places, at : 0..MaxTime, i : 1..(Len(Types) + 1), attempts : 0..RetryLimit]

(* A process that tries to deliver.                                        *)
Delivering == {"preparing", "sending", "accepted", "refused"}

(* A process that is busy is busy with some reminder, and one that tries   *)
(* to deliver has an attempt left.                                         *)
PlaceInv ==
  \A p \in Procs :
    /\ work[p].pc \in Busy => work[p].i <= Len(Types)
    /\ work[p].pc \in Delivering => work[p].attempts < RetryLimit

LEMMA Lengths == Len(Types) \in Nat /\ RetryLimit \in Nat /\ RetryLimit > 0 /\ MaxTime \in Nat
BY TimesAssumption, BoundsAssumption

LEMMA ReminderType ==
  ASSUME TypeOK, NEW p \in Procs, work[p].i <= Len(Types)
  PROVE  /\ Reminder(p) \in Reminders /\ Reminder(p)[1] = DateOf(work[p].at)
         /\ Reminder(p)[2] = Types[work[p].i] /\ Types[work[p].i] \in TypeSet
<1>1. work[p].at \in 0..MaxTime /\ work[p].i \in 1..Len(Types)
  BY Lengths DEF TypeOK
<1>2. DateOf(work[p].at) \in Nat /\ DateOf(MaxTime) \in Nat /\ DateOf(work[p].at) <= DateOf(MaxTime)
  <2>1. work[p].at \in Nat /\ MaxTime \in Nat /\ work[p].at <= MaxTime
    BY <1>1, Lengths
  <2>2. QED
    BY <2>1, DateParts, DateGrows
<1>3. QED
  BY <1>1, <1>2 DEF Reminder, Reminders, TypeSet, Dates

LEMMA ReservedFacts ==
  ASSUME TypeOK, NEW r \in Reminders
  PROVE  /\ Reserved(r) \in RowType
         /\ Reserved(r).attempts = rows[r].attempts /\ Reserved(r).next = rows[r].next
         /\ \/ Reserved(r).status = rows[r].status
            \/ rows[r].status = "absent" /\ Reserved(r).status = "pending"
<1>1. rows[r] \in RowType
  BY DEF TypeOK, RowType, Statuses
<1>2. CASE rows[r].status = "absent"
  <2>1. Reserved(r) = [status |-> "pending", attempts |-> rows[r].attempts, next |-> rows[r].next]
    BY <1>1, <1>2 DEF Reserved, RowType
  <2>2. QED
    BY <1>1, <1>2, <2>1 DEF RowType, Statuses
<1>3. CASE rows[r].status # "absent"
  <2>1. Reserved(r) = rows[r]
    BY <1>3 DEF Reserved
  <2>2. QED
    BY <1>1, <2>1
<1>4. QED
  BY <1>2, <1>3

(* What the steps of a poll leave alone, and where they lead.              *)
LEMMA MovesFacts ==
  ASSUME TypeOK, NEW p \in Procs, work[p].i <= Len(Types), Moves(p)
  PROVE  /\ work' \in [Procs -> WorkType]
         /\ work'[p].pc = "scan" /\ work'[p].at = work[p].at /\ work'[p].i = work[p].i + 1
         /\ \A q \in Procs : q # p => work'[q] = work[q]
<1>1. work[p] \in WorkType
  BY DEF TypeOK, WorkType, Places
<1> DEFINE w == [pc |-> "scan", at |-> work[p].at, i |-> work[p].i + 1, attempts |-> 0]
<1>2. work[p].i + 1 \in 1..(Len(Types) + 1) /\ work[p].at \in 0..MaxTime /\ 0 \in 0..RetryLimit
  BY <1>1, Lengths DEF WorkType
<1>3. w \in WorkType /\ w.pc = "scan" /\ w.at = work[p].at /\ w.i = work[p].i + 1
  BY <1>2 DEF WorkType, Places
<1>4. work' = [work EXCEPT ![p] = w]
  <2>1. work \in [Procs -> WorkType]
    BY DEF TypeOK, WorkType, Places
  <2>2. QED
    BY <1>1, <2>1 DEF Moves, WorkType
<1> HIDE DEF w
<1>5. QED
  BY <1>3, <1>4 DEF TypeOK, WorkType, Places

LEMMA EntersFacts ==
  ASSUME TypeOK, NEW p \in Procs, NEW pc \in Places, Enters(p, pc)
  PROVE  /\ work' \in [Procs -> WorkType]
         /\ work'[p].pc = pc /\ work'[p].at = work[p].at /\ work'[p].i = work[p].i
         /\ work'[p].attempts = work[p].attempts
         /\ \A q \in Procs : q # p => work'[q] = work[q]
<1>1. work[p] \in WorkType
  BY DEF TypeOK, WorkType, Places
<1>2. QED
  BY <1>1 DEF Enters, TypeOK, WorkType, Places

LEMMA RestsFacts ==
  ASSUME TypeOK, NEW p \in Procs, NEW pc \in Places, work' = [work EXCEPT ![p] = Resting(pc)]
  PROVE  /\ work' \in [Procs -> WorkType] /\ work'[p].pc = pc
         /\ \A q \in Procs : q # p => work'[q] = work[q]
<1>1. Resting(pc) \in WorkType
  BY Lengths DEF Resting, WorkType
<1>2. QED
  BY <1>1 DEF TypeOK, WorkType, Places, Resting

(* What the two entrances to a delivery or a skip do to the reminder.      *)
LEMMA DueFacts ==
  ASSUME TypeOK, NEW p \in Procs, ReserveDue(p)
  PROVE  /\ work[p].pc = "scan" /\ work[p].i <= Len(Types) /\ Due(p)
         /\ rows' = [rows EXCEPT ![Reminder(p)] = Reserved(Reminder(p))]
         /\ \/ NothingToDo(p) /\ Moves(p) /\ UNCHANGED disputed
            \/ /\ ~NothingToDo(p)
               /\ work' \in [Procs -> WorkType]
               /\ work'[p].pc = "preparing" /\ work'[p].at = work[p].at /\ work'[p].i = work[p].i
               /\ work'[p].attempts = rows[Reminder(p)].attempts
               /\ \A q \in Procs : q # p => work'[q] = work[q]
               /\ disputed' = IF Contended(p) THEN disputed \cup {Reminder(p)} ELSE disputed
         /\ UNCHANGED <<now, mails, polled, timely, bounds>>
<1>1. work[p] \in WorkType
  BY DEF TypeOK, WorkType, Places
<1>2. Scanning(p) /\ Due(p)
  BY DEF ReserveDue
<1>3. Reminder(p) \in Reminders
  BY <1>2, ReminderType DEF Scanning
<1>4. Reserved(Reminder(p)).attempts = rows[Reminder(p)].attempts /\ rows[Reminder(p)].attempts \in 0..RetryLimit
  BY <1>3, ReservedFacts DEF TypeOK
<1>5. CASE NothingToDo(p)
  BY <1>2, <1>5 DEF ReserveDue, Scanning
<1>6. CASE ~NothingToDo(p)
  <2> DEFINE w == [work[p] EXCEPT !.pc = "preparing", !.attempts = rows[Reminder(p)].attempts]
  <2>1. work' = [work EXCEPT ![p].pc = "preparing", ![p].attempts = rows[Reminder(p)].attempts]
    BY <1>4, <1>6 DEF ReserveDue
  <2>2. work' = [work EXCEPT ![p] = w]
    BY <2>1 DEF TypeOK
  <2>3. w \in WorkType /\ w.pc = "preparing" /\ w.at = work[p].at /\ w.i = work[p].i /\ w.attempts = rows[Reminder(p)].attempts
    BY <1>1, <1>4 DEF WorkType, Places, Busy
  <2> HIDE DEF w
  <2>4. work' \in [Procs -> WorkType] /\ work'[p] = w /\ \A q \in Procs : q # p => work'[q] = work[q]
    BY <2>2, <2>3 DEF TypeOK, WorkType, Places
  <2>5. QED
    BY <1>2, <1>6, <2>3, <2>4 DEF ReserveDue, Scanning
<1>7. QED
  BY <1>5, <1>6

(* The type of the rows, and the places, for each step.                    *)
LEMMA ExpiredFacts ==
  ASSUME TypeOK, NEW p \in Procs, ReserveExpired(p)
  PROVE  /\ work[p].pc = "scan" /\ work[p].i <= Len(Types) /\ Expired(p)
         /\ rows' = [rows EXCEPT ![Reminder(p)] = Reserved(Reminder(p))]
         /\ work' \in [Procs -> WorkType]
         /\ work'[p].at = work[p].at
         /\ \A q \in Procs : q # p => work'[q] = work[q]
         /\ \/ /\ Reserved(Reminder(p)).status \in {"sent", "skipped"}
               /\ work'[p].pc = "scan" /\ work'[p].i = work[p].i + 1 /\ UNCHANGED disputed
            \/ /\ Reserved(Reminder(p)).status \notin {"sent", "skipped"}
               /\ work'[p].pc = "skipping" /\ work'[p].i = work[p].i
               /\ disputed' = IF Contended(p) THEN disputed \cup {Reminder(p)} ELSE disputed
         /\ UNCHANGED <<now, mails, polled, timely, bounds>>
<1>1. work[p].pc = "scan" /\ work[p].i <= Len(Types) /\ Expired(p)
  BY DEF ReserveExpired, Scanning
<1>2. "skipping" \in Places
  BY DEF Places, Busy
<1>3. CASE Reserved(Reminder(p)).status \in {"sent", "skipped"}
  <2>1. Moves(p) /\ UNCHANGED disputed
    BY <1>3 DEF ReserveExpired
  <2>2. QED
    BY <1>1, <1>3, <2>1, MovesFacts DEF ReserveExpired
<1>4. CASE Reserved(Reminder(p)).status \notin {"sent", "skipped"}
  <2>1. /\ Enters(p, "skipping")
        /\ disputed' = IF Contended(p) THEN disputed \cup {Reminder(p)} ELSE disputed
    BY <1>4 DEF ReserveExpired
  <2>2. QED
    BY <1>1, <1>2, <1>4, <2>1, EntersFacts DEF ReserveExpired
<1>5. QED
  BY <1>3, <1>4

LEMMA RowsKeepType ==
  ASSUME TypeOK, NEW r \in Reminders, NEW row \in RowType, rows' = [rows EXCEPT ![r] = row]
  PROVE  /\ rows' \in [Reminders -> RowType] /\ rows'[r] = row
         /\ \A s \in Reminders : s # r => rows'[s] = rows[s]
BY DEF TypeOK, RowType, Statuses

(* The row after a mail that was sent, one that failed, and a skip.        *)
LEMMA OutcomeFacts ==
  ASSUME TypeOK, PlaceInv, NEW p \in Procs, work[p].pc \in Busy
  PROVE  /\ RecordSent(p) =>
              /\ rows' \in [Reminders -> RowType]
              /\ rows'[Reminder(p)] = [status |-> "sent", attempts |-> work[p].attempts + 1,
                                       next |-> rows[Reminder(p)].next]
              /\ \A r \in Reminders : r # Reminder(p) => rows'[r] = rows[r]
         /\ RecordFailure(p) =>
              /\ rows' \in [Reminders -> RowType]
              /\ rows'[Reminder(p)] = [status |-> "failed", attempts |-> work[p].attempts + 1,
                                       next |-> now + 2 ^ work[p].attempts]
              /\ \A r \in Reminders : r # Reminder(p) => rows'[r] = rows[r]
         /\ MarkSkipped(p) =>
              /\ rows' \in [Reminders -> RowType]
              /\ rows'[Reminder(p)] = [status |-> "skipped", attempts |-> rows[Reminder(p)].attempts,
                                       next |-> rows[Reminder(p)].next]
              /\ \A r \in Reminders : r # Reminder(p) => rows'[r] = rows[r]
<1>1. Reminder(p) \in Reminders /\ work[p] \in WorkType
  BY ReminderType DEF PlaceInv, TypeOK, WorkType, Places
<1> DEFINE r == Reminder(p)
           old == rows[r]
<1>2. rows \in [Reminders -> RowType] /\ old \in RowType
  BY <1>1 DEF TypeOK, RowType, Statuses
<1>3. ASSUME RecordSent(p)
      PROVE  rows' = [rows EXCEPT ![r] = [status |-> "sent", attempts |-> work[p].attempts + 1, next |-> old.next]]
             /\ [status |-> "sent", attempts |-> work[p].attempts + 1, next |-> old.next] \in RowType
  <2>1. work[p].attempts \in Nat /\ work[p].attempts < RetryLimit
    BY <1>1, <1>3 DEF RecordSent, PlaceInv, Delivering, WorkType
  <2>3. rows' = [rows EXCEPT ![r] = [status |-> "sent", attempts |-> work[p].attempts + 1, next |-> old.next]]
    BY <1>3 DEF RecordSent
  <2>4. work[p].attempts + 1 \in 0..RetryLimit /\ old.next \in Nat
    BY <1>2, <2>1, Lengths DEF RowType
  <2>5. QED
    BY <2>3, <2>4 DEF RowType, Statuses
<1>4. ASSUME RecordFailure(p)
      PROVE  rows' = [rows EXCEPT ![r] = [status |-> "failed", attempts |-> work[p].attempts + 1,
                                          next |-> now + 2 ^ work[p].attempts]]
             /\ [status |-> "failed", attempts |-> work[p].attempts + 1,
                 next |-> now + 2 ^ work[p].attempts] \in RowType
  <2>1. work[p].attempts \in Nat /\ work[p].attempts < RetryLimit
    BY <1>1, <1>4 DEF RecordFailure, PlaceInv, Delivering, WorkType
  <2>2. 2 ^ work[p].attempts \in Nat /\ now \in Nat
    <3>1. now \in Nat
      BY Lengths DEF TypeOK
    <3>2. QED
      BY <2>1, <3>1, PowerCounts
  <2>3. work[p].attempts + 1 \in 0..RetryLimit /\ now + 2 ^ work[p].attempts \in Nat
    BY <2>1, <2>2, Lengths
  <2>4. QED
    BY <1>4, <2>3 DEF RecordFailure, Backoff, RowType, Statuses
<1>5. ASSUME MarkSkipped(p)
      PROVE  rows' = [rows EXCEPT ![r] = [status |-> "skipped", attempts |-> old.attempts, next |-> old.next]]
             /\ [status |-> "skipped", attempts |-> old.attempts, next |-> old.next] \in RowType
  <2>1. rows' = [rows EXCEPT ![r].status = "skipped"]
    BY <1>5 DEF MarkSkipped
  <2>2. ASSUME NEW o \in RowType
        PROVE  /\ [o EXCEPT !.status = "skipped"] = [status |-> "skipped", attempts |-> o.attempts, next |-> o.next]
               /\ [status |-> "skipped", attempts |-> o.attempts, next |-> o.next] \in RowType
    BY DEF RowType, Statuses
  <2>3. rows' = [rows EXCEPT ![r] = [old EXCEPT !.status = "skipped"]]
    BY <1>1, <1>2, <2>1
  <2>4. QED
    BY <1>2, <2>2, <2>3
<1>6. QED
  <2> HIDE DEF r, old
  <2>1. r \in Reminders
    BY <1>1 DEF r
  <2>2. RecordSent(p) => /\ rows' \in [Reminders -> RowType]
                         /\ rows'[r] = [status |-> "sent", attempts |-> work[p].attempts + 1, next |-> old.next]
                         /\ \A s \in Reminders : s # r => rows'[s] = rows[s]
    BY <1>3, <2>1, RowsKeepType
  <2>3. RecordFailure(p) => /\ rows' \in [Reminders -> RowType]
                            /\ rows'[r] = [status |-> "failed", attempts |-> work[p].attempts + 1,
                                           next |-> now + 2 ^ work[p].attempts]
                            /\ \A s \in Reminders : s # r => rows'[s] = rows[s]
    BY <1>4, <2>1, RowsKeepType
  <2>4. MarkSkipped(p) => /\ rows' \in [Reminders -> RowType]
                          /\ rows'[r] = [status |-> "skipped", attempts |-> old.attempts, next |-> old.next]
                          /\ \A s \in Reminders : s # r => rows'[s] = rows[s]
    BY <1>5, <2>1, RowsKeepType
  <2>5. QED
    BY <2>2, <2>3, <2>4 DEF r, old

LEMMA TypeStep ==
  ASSUME TypeOK, PlaceInv, Next
  PROVE  TypeOK' /\ PlaceInv'
<1> DEFINE Typed == /\ rows' \in [Reminders -> RowType] /\ work' \in [Procs -> WorkType]
                    /\ mails' \in [Reminders -> Nat] /\ disputed' \in SUBSET Reminders
           Rest == /\ now' \in 0..MaxTime /\ polled' \in BOOLEAN /\ timely' \in BOOLEAN
                   /\ forced' \in 0..MaxForced /\ stops' \in 0..MaxStops
           Placed(q) == /\ work'[q].pc \in Busy => work'[q].i <= Len(Types)
                        /\ work'[q].pc \in Delivering => work'[q].attempts < RetryLimit
<1>1. Typed /\ Rest /\ (\A q \in Procs : Placed(q)) => TypeOK' /\ PlaceInv'
  BY DEF TypeOK, PlaceInv, RowType, Statuses, WorkType, Places, Reminders, Dates, TypeSet
<1>2. /\ rows \in [Reminders -> RowType] /\ work \in [Procs -> WorkType]
      /\ mails \in [Reminders -> Nat] /\ disputed \in SUBSET Reminders
      /\ now \in 0..MaxTime /\ polled \in BOOLEAN /\ timely \in BOOLEAN
      /\ forced \in 0..MaxForced /\ stops \in 0..MaxStops
      /\ RetryLimit \in Nat \ {0} /\ MaxForced \in Nat /\ MaxStops \in Nat /\ MaxTime \in Nat
  BY BoundsAssumption DEF TypeOK, RowType, Statuses, WorkType, Places
<1>3. Delivering \subseteq Busy /\ Busy \subseteq Places /\ {"idle", "down", "scan"} \cap Busy = {}
      /\ {"idle", "down", "scan"} \subseteq Places /\ "skipping" \notin Delivering
  BY DEF Delivering, Busy, Places
<1>4. ASSUME NEW p \in Procs, work[p].pc \in Busy \/ Scanning(p) PROVE Reminder(p) \in Reminders
  BY <1>4, ReminderType DEF PlaceInv, Scanning
<1> DEFINE Acts(p) == \/ PassOver(p) \/ ReserveExpired(p) \/ MarkSkipped(p) \/ ReserveDue(p)
                      \/ RecordSent(p) \/ RecordFailure(p)
<1>5. ASSUME NEW p \in Procs, Poll(p) \/ EndPoll(p) \/ (\E left \in BOOLEAN : Stop(p, left)) \/ (p = "server" /\ (ShutDown \/ Start))
      PROVE  Typed /\ Rest /\ (\A q \in Procs : Placed(q))
  <2>1. Rest
    <3>1. CASE Poll(p)
      BY <1>2, <3>1 DEF Poll, history
    <3>2. CASE EndPoll(p)
      BY <1>2, <3>2 DEF EndPoll, bounds
    <3>3. CASE \E left \in BOOLEAN : Stop(p, left)
      BY <1>2, <3>3 DEF Stop
    <3>4. CASE ShutDown \/ Start
      BY <1>2, <3>4 DEF ShutDown, Start, history, bounds
    <3>5. QED
      BY <1>5, <3>1, <3>2, <3>3, <3>4
  <2>2. mails' \in [Reminders -> Nat] /\ disputed' \in SUBSET Reminders
    BY <1>2, <1>4, <1>5 DEF Poll, EndPoll, Stop, ShutDown, Start, history, bounds
  <2>3. rows' = rows
    BY <1>5 DEF Poll, EndPoll, Stop, ShutDown, Start, history, bounds
  <2>4. PICK w \in WorkType : w.pc \in {"idle", "down", "scan"} /\ work' = [work EXCEPT ![p] = w]
    <3>1. CASE Poll(p)
      <4>1. [Resting("scan") EXCEPT !.at = now] = [pc |-> "scan", at |-> now, i |-> 1, attempts |-> 0]
        BY DEF Resting
      <4>2. [pc |-> "scan", at |-> now, i |-> 1, attempts |-> 0] \in WorkType
        BY <1>2, <1>3, Lengths DEF WorkType
      <4>3. QED
        BY <3>1, <4>1, <4>2 DEF Poll
    <3>2. CASE ~Poll(p)
      <4>1. PICK pc \in {"idle", "down"} : work' = [work EXCEPT ![p] = Resting(pc)]
        BY <1>5, <3>2 DEF EndPoll, Stop, ShutDown, Start
      <4>2. Resting(pc) \in WorkType /\ Resting(pc).pc = pc
        BY <1>3, <4>1, Lengths DEF Resting, WorkType
      <4>3. QED
        BY <4>1, <4>2
    <3>3. QED
      BY <3>1, <3>2
  <2>5. work' \in [Procs -> WorkType] /\ work'[p] = w /\ \A q \in Procs : q # p => work'[q] = work[q]
    BY <1>2, <2>4
  <2>6. \A q \in Procs : Placed(q)
    BY <1>3, <2>4, <2>5 DEF PlaceInv
  <2>7. QED
    BY <1>2, <2>1, <2>2, <2>3, <2>5, <2>6
<1>6. ASSUME NEW p \in Procs, Acts(p) PROVE Typed /\ Rest /\ (\A q \in Procs : Placed(q))
  <2>1. Rest /\ mails' = mails
    BY <1>2, <1>6 DEF PassOver, ReserveExpired, MarkSkipped, ReserveDue, RecordSent, RecordFailure, history, bounds
  <2>2. Reminder(p) \in Reminders
    <3>1. work[p].pc \in Busy \/ Scanning(p)
      BY <1>6 DEF PassOver, ReserveExpired, MarkSkipped, ReserveDue, RecordSent, RecordFailure, Busy
    <3>2. QED
      BY <1>4, <3>1
  <2>3. disputed' \in SUBSET Reminders
    <3>1. disputed' \in {disputed, disputed \cup {Reminder(p)}}
      BY <1>6, DueFacts, ExpiredFacts DEF PassOver, MarkSkipped, RecordSent, RecordFailure, history
    <3>2. QED
      BY <1>2, <2>2, <3>1
  <2>4. rows' \in [Reminders -> RowType]
    <3>1. CASE PassOver(p)
      BY <1>2, <3>1 DEF PassOver
    <3>2. CASE ReserveExpired(p) \/ ReserveDue(p)
      <4>1. rows' = [rows EXCEPT ![Reminder(p)] = Reserved(Reminder(p))]
        BY <3>2 DEF ReserveExpired, ReserveDue
      <4>2. QED
        BY <2>2, <4>1, ReservedFacts, RowsKeepType
    <3>3. CASE MarkSkipped(p) \/ RecordSent(p) \/ RecordFailure(p)
      <4>1. work[p].pc \in Busy
        BY <3>3 DEF MarkSkipped, RecordSent, RecordFailure, Busy
      <4>2. QED
        BY <3>3, <4>1, OutcomeFacts
    <3>4. QED
      BY <1>6, <3>1, <3>2, <3>3
  <2>5. \/ Moves(p) /\ work[p].i <= Len(Types)
        \/ ReserveExpired(p) \/ ReserveDue(p)
    BY <1>6 DEF PassOver, MarkSkipped, RecordSent, RecordFailure, Scanning, PlaceInv, Busy
  <2>6. /\ work' \in [Procs -> WorkType] /\ (\A q \in Procs : q # p => work'[q] = work[q])
        /\ Placed(p)
    <3>1. CASE Moves(p) /\ work[p].i <= Len(Types)
      BY <1>3, <3>1, MovesFacts
    <3>2. CASE ReserveExpired(p)
      BY <1>3, <3>2, ExpiredFacts
    <3>3. CASE ReserveDue(p)
      <4>1. CASE NothingToDo(p)
        BY <1>3, <3>3, <4>1, DueFacts, MovesFacts
      <4>2. CASE ~NothingToDo(p)
        <5>1. rows[Reminder(p)].attempts < RetryLimit /\ rows[Reminder(p)].attempts \in 0..RetryLimit
          BY <1>2, <2>2, <4>2, ReservedFacts DEF NothingToDo, RowType
        <5>2. QED
          BY <3>3, <4>2, <5>1, DueFacts
      <4>3. QED
        BY <4>1, <4>2
    <3>4. QED
      BY <2>5, <3>1, <3>2, <3>3
  <2>7. \A q \in Procs : Placed(q)
    BY <2>6 DEF PlaceInv
  <2>8. QED
    BY <1>2, <2>1, <2>3, <2>4, <2>6, <2>7
<1>7. ASSUME NEW p \in Procs, Prepared(p) \/ MailLeaves(p) \/ (\E left \in BOOLEAN : MailFails(p, left))
      PROVE  Typed /\ Rest /\ (\A q \in Procs : Placed(q))
  <2>1. rows' = rows /\ Rest /\ work[p].pc \in Delivering
    BY <1>2, <1>7 DEF Prepared, MailLeaves, MailFails, history, bounds, Delivering
  <2>2. PICK pc \in Delivering : Enters(p, pc)
    BY <1>7 DEF Prepared, MailLeaves, MailFails, Delivering
  <2>3. mails' \in [Reminders -> Nat] /\ disputed' \in SUBSET Reminders
    BY <1>2, <1>3, <1>4, <1>7, <2>1 DEF Prepared, MailLeaves, MailFails, history
  <2>4. /\ work' \in [Procs -> WorkType]
        /\ work'[p].i = work[p].i /\ work'[p].attempts = work[p].attempts
        /\ \A q \in Procs : q # p => work'[q] = work[q]
    BY <1>3, <2>2, EntersFacts
  <2>5. \A q \in Procs : Placed(q)
    BY <1>3, <2>1, <2>4 DEF PlaceInv
  <2>6. QED
    BY <1>2, <2>1, <2>3, <2>4, <2>5
<1>8. CASE Tick
  <2>1. Rest
    <3>1. now' \in 0..MaxTime /\ polled' \in BOOLEAN /\ forced' = forced /\ stops' = stops
      <4>1. now < MaxTime /\ now' = now + 1
        BY <1>8 DEF Tick
      <4>2. polled' = FALSE /\ forced' = forced /\ stops' = stops
        BY <1>8, Zenon DEF Tick, bounds
      <4>3. now' \in 0..MaxTime
        BY <1>2, <4>1
      <4>4. QED
        BY <4>2, <4>3
    <3>2. timely' = (timely /\ polled /\ \A p \in Procs : work[p].pc \in {"idle", "down"})
      BY <1>8 DEF Tick
    <3>3. (timely /\ polled /\ \A p \in Procs : work[p].pc \in {"idle", "down"}) \in BOOLEAN
      BY Zenon
    <3>4. timely' \in BOOLEAN
      BY <3>2, <3>3, Zenon
    <3>5. QED
      BY <1>2, <3>1, <3>4
  <2>2. Typed /\ \A q \in Procs : Placed(q)
    BY <1>2, <1>8 DEF Tick, PlaceInv
  <2>3. QED
    BY <1>1, <2>1, <2>2
<1>9. QED
  BY <1>1, <1>5, <1>6, <1>7, <1>8 DEF Next, Procs

-----------------------------------------------------------------------------
(* Mail.  Of an undisputed reminder: one process at most is at it; while   *)
(* it is, the row does not say sent and the mail has left exactly if the   *)
(* process knows that it did; and when nobody is at it, row and mail       *)
(* agree.                                                                  *)
At(p, r) == work[p].pc \in Busy /\ Reminder(p) = r

Told(r) ==
  /\ \A p, q \in Procs : At(p, r) /\ At(q, r) => p = q
  /\ \A p \in Procs : At(p, r) =>
       rows[r].status # "sent" /\ mails[r] = IF work[p].pc = "accepted" THEN 1 ELSE 0
  /\ (\A p \in Procs : ~At(p, r)) => mails[r] = IF rows[r].status = "sent" THEN 1 ELSE 0

MailInv == \A r \in Reminders \ disputed : Told(r)

LEMMA ToldStep ==
  ASSUME NEW r \in Reminders, NEW p \in Procs, Told(r),
         \A q \in Procs : q # p => work'[q] = work[q],
         \/ /\ ~At(p, r) /\ ~At(p, r)' /\ mails'[r] = mails[r]
            /\ rows'[r].status = "sent" <=> rows[r].status = "sent"
         \/ /\ ~At(p, r) /\ At(p, r)' /\ work'[p].pc # "accepted" /\ mails'[r] = mails[r]
            /\ rows'[r].status # "sent" /\ rows[r].status # "sent"
            /\ \A q \in Procs : q # p => ~At(q, r)
         \/ /\ At(p, r) /\ At(p, r)' /\ rows'[r].status = rows[r].status
            /\ mails'[r] = IF work'[p].pc = "accepted" THEN 1 ELSE 0
         \/ /\ At(p, r) /\ ~At(p, r)'
            /\ mails'[r] = IF rows'[r].status = "sent" THEN 1 ELSE 0
  PROVE  Told(r)'
<1>1. \A q \in Procs : q # p => (At(q, r)' <=> At(q, r)) /\ work'[q].pc = work[q].pc
  BY DEF At, Reminder
<1> DEFINE Same == /\ ~At(p, r) /\ ~At(p, r)' /\ mails'[r] = mails[r]
                   /\ rows'[r].status = "sent" <=> rows[r].status = "sent"
<1>2. CASE Same
  BY <1>1, <1>2 DEF Told
<1>3. CASE /\ ~At(p, r) /\ At(p, r)' /\ work'[p].pc # "accepted" /\ mails'[r] = mails[r]
           /\ rows'[r].status # "sent" /\ rows[r].status # "sent"
           /\ \A q \in Procs : q # p => ~At(q, r)
  <2>1. \A q \in Procs : ~At(q, r)
    BY <1>3
  <2>2. mails'[r] = 0
    BY <1>3, <2>1 DEF Told
  <2>3. \A q \in Procs : At(q, r)' => q = p
    BY <1>1, <1>3
  <2>4. QED
    BY <1>3, <2>2, <2>3 DEF Told
<1>4. CASE /\ At(p, r) /\ At(p, r)' /\ rows'[r].status = rows[r].status
           /\ mails'[r] = IF work'[p].pc = "accepted" THEN 1 ELSE 0
  <2>1. \A q \in Procs : At(q, r)' => q = p
    BY <1>1, <1>4 DEF Told
  <2>2. rows'[r].status # "sent"
    BY <1>4 DEF Told
  <2>3. QED
    BY <1>4, <2>1, <2>2 DEF Told
<1>5. CASE /\ At(p, r) /\ ~At(p, r)'
           /\ mails'[r] = IF rows'[r].status = "sent" THEN 1 ELSE 0
  <2>1. \A q \in Procs : ~At(q, r)'
    BY <1>1, <1>5 DEF Told
  <2>2. QED
    BY <1>5, <2>1 DEF Told
<1>6. QED
  BY <1>2, <1>3, <1>4, <1>5

LEMMA MailStep ==
  ASSUME TypeOK, PlaceInv, MailInv, Next
  PROVE  MailInv'
<1> SUFFICES ASSUME NEW r \in Reminders, r \notin disputed' PROVE Told(r)'
  BY DEF MailInv, Reminders, Dates, TypeSet
<1>1. Busy \cap {"idle", "down", "scan"} = {} /\ {"skipping"} \cup Delivering = Busy /\ "accepted" # "skipping"
  BY DEF Busy, Delivering
<1>2. ASSUME NEW p \in Procs, work[p].pc \in Busy PROVE Reminder(p) \in Reminders
  BY <1>2, ReminderType DEF PlaceInv
<1>3. ASSUME Told(r), NEW p \in Procs, At(p, r)
      PROVE  rows[r].status # "sent" /\ mails[r] = IF work[p].pc = "accepted" THEN 1 ELSE 0
  BY <1>3 DEF Told
<1>4. \/ \E p \in Procs :
           \/ Poll(p) \/ EndPoll(p) \/ PassOver(p) \/ (p = "server" /\ (ShutDown \/ Start))
           \/ ReserveExpired(p) \/ ReserveDue(p)
           \/ MarkSkipped(p) \/ RecordSent(p) \/ RecordFailure(p)
           \/ Prepared(p) \/ MailLeaves(p)
           \/ \E left \in BOOLEAN : MailFails(p, left) \/ Stop(p, left)
      \/ Tick
  BY DEF Next, Procs
<1>5. ASSUME NEW p \in Procs,
             Poll(p) \/ EndPoll(p) \/ PassOver(p) \/ (p = "server" /\ (ShutDown \/ Start))
      PROVE  Told(r)'
  <2>1. /\ work[p].pc \notin Busy /\ rows' = rows /\ mails' = mails /\ disputed' = disputed
    BY <1>1, <1>5 DEF Poll, EndPoll, PassOver, ShutDown, Start, Scanning, history
  <2>2. work'[p].pc \notin Busy /\ \A q \in Procs : q # p => work'[q] = work[q]
    BY <1>1, <1>5 DEF Poll, EndPoll, PassOver, ShutDown, Start, Moves, Resting, TypeOK
  <2>3. Told(r) /\ ~At(p, r) /\ ~At(p, r)'
    BY <2>1, <2>2 DEF At, MailInv
  <2>4. QED
    BY <2>1, <2>2, <2>3, ToldStep
<1>6. ASSUME NEW p \in Procs, ReserveExpired(p) \/ ReserveDue(p) PROVE Told(r)'
  <2>1. work[p].pc = "scan" /\ work[p].i <= Len(Types) /\ mails' = mails /\ disputed \subseteq disputed'
    BY <1>6, DueFacts, ExpiredFacts
  <2>2. Told(r) /\ ~At(p, r)
    BY <1>1, <2>1 DEF At, MailInv
  <2>3. rows' = [rows EXCEPT ![Reminder(p)] = Reserved(Reminder(p))] /\ Reminder(p) \in Reminders
    BY <1>6, <2>1, DueFacts, ExpiredFacts, ReminderType
  <2>4. rows'[r].status = "sent" <=> rows[r].status = "sent"
    <3>1. rows'[r] = IF r = Reminder(p) THEN Reserved(r) ELSE rows[r]
      BY <2>3 DEF TypeOK
    <3>2. QED
      BY <3>1, ReservedFacts
  <2>5. \A q \in Procs : q # p => work'[q] = work[q]
    BY <1>6, <2>1, DueFacts, ExpiredFacts, MovesFacts
  <2>6. CASE ~At(p, r)'
    BY <2>1, <2>2, <2>4, <2>5, <2>6, ToldStep
  <2>7. CASE At(p, r)'
    <3>1. work'[p].pc \in Busy
      BY <2>7 DEF At
    <3>2. /\ Reserved(Reminder(p)).status # "sent"
          /\ work'[p].pc # "accepted" /\ work'[p].at = work[p].at /\ work'[p].i = work[p].i
          /\ disputed' = IF Contended(p) THEN disputed \cup {Reminder(p)} ELSE disputed
      BY <1>1, <1>6, <2>1, <3>1, DueFacts, ExpiredFacts, MovesFacts DEF NothingToDo
    <3>3. Reminder(p) = r
      BY <2>7, <3>2 DEF At, Reminder
    <3>4. ~Contended(p)
      BY <3>2, <3>3
    <3>5. \A q \in Procs : q # p => ~At(q, r)
      BY <3>3, <3>4 DEF Contended, At
    <3>6. rows[r].status # "sent" /\ rows'[r].status # "sent"
      BY <2>4, <3>2, <3>3, ReservedFacts
    <3>7. QED
      BY <2>1, <2>2, <2>5, <2>7, <3>2, <3>5, <3>6, ToldStep
  <2>8. QED
    BY <2>6, <2>7
<1>7. ASSUME NEW p \in Procs, MarkSkipped(p) \/ RecordSent(p) \/ RecordFailure(p) PROVE Told(r)'
  <2>1. work[p].pc \in Busy /\ Moves(p) /\ mails' = mails /\ disputed' = disputed
    BY <1>7 DEF MarkSkipped, RecordSent, RecordFailure, Busy, history
  <2>2. Told(r) /\ work[p].i <= Len(Types)
    BY <2>1 DEF MailInv, PlaceInv
  <2>3. work'[p].pc = "scan" /\ \A q \in Procs : q # p => work'[q] = work[q]
    BY <2>1, <2>2, MovesFacts
  <2>4. ~At(p, r)'
    BY <1>1, <2>3 DEF At
  <2>5. CASE Reminder(p) # r
    <3>1. rows'[r] = rows[r] /\ ~At(p, r)
      BY <1>7, <2>1, <2>5, OutcomeFacts DEF At
    <3>2. QED
      BY <2>1, <2>2, <2>3, <2>4, <3>1, ToldStep
  <2>6. CASE Reminder(p) = r
    <3>1. At(p, r)
      BY <2>1, <2>6 DEF At
    <3>2. mails[r] = IF work[p].pc = "accepted" THEN 1 ELSE 0
      BY <1>3, <2>2, <3>1
    <3>3. (rows'[r].status = "sent") <=> (work[p].pc = "accepted")
      <4>1. CASE RecordSent(p)
        BY <2>1, <2>6, <4>1, OutcomeFacts DEF RecordSent
      <4>2. CASE RecordFailure(p)
        BY <2>1, <2>6, <4>2, OutcomeFacts DEF RecordFailure
      <4>3. CASE MarkSkipped(p)
        BY <2>1, <2>6, <4>3, OutcomeFacts DEF MarkSkipped
      <4>4. QED
        BY <1>7, <4>1, <4>2, <4>3
    <3>4. mails'[r] = IF rows'[r].status = "sent" THEN 1 ELSE 0
      BY <2>1, <3>2, <3>3
    <3>5. QED
      BY <2>2, <2>3, <2>4, <3>1, <3>4, ToldStep
  <2>7. QED
    BY <2>5, <2>6
<1>8. ASSUME NEW p \in Procs, Prepared(p) \/ MailLeaves(p) \/ (\E left \in BOOLEAN : MailFails(p, left))
      PROVE  Told(r)'
  <2>1. /\ work[p].pc \in {"preparing", "sending"} /\ rows' = rows /\ disputed \subseteq disputed'
    BY <1>8 DEF Prepared, MailLeaves, MailFails, history
  <2>2. PICK pc \in Delivering : /\ Enters(p, pc)
                                 /\ pc = "accepted" <=> MailLeaves(p)
    BY <1>8 DEF Prepared, MailLeaves, MailFails, Delivering
  <2>3. /\ work'[p].pc = pc /\ work'[p].at = work[p].at /\ work'[p].i = work[p].i
        /\ \A q \in Procs : q # p => work'[q] = work[q]
    BY <2>2, EntersFacts DEF Places, Busy, Delivering
  <2>4. Told(r) /\ Reminder(p) \in Reminders
    BY <1>1, <1>2, <2>1 DEF MailInv, Delivering
  <2>5. (At(p, r) <=> Reminder(p) = r) /\ (At(p, r)' <=> Reminder(p) = r)
    BY <1>1, <2>1, <2>2, <2>3 DEF At, Reminder, Delivering
  <2>6. CASE Reminder(p) # r
    <3>1. mails'[r] = mails[r]
      BY <1>8, <2>6 DEF Prepared, MailLeaves, MailFails, TypeOK, history
    <3>2. QED
      BY <2>1, <2>3, <2>4, <2>5, <2>6, <3>1, ToldStep
  <2>7. CASE Reminder(p) = r
    <3>1. mails[r] = 0
      BY <1>3, <2>1, <2>4, <2>5, <2>7
    <3>2. mails'[r] = IF MailLeaves(p) THEN 1 ELSE 0
      <4>1. CASE MailLeaves(p)
        BY <2>7, <3>1, <4>1 DEF MailLeaves, TypeOK
      <4>2. CASE ~MailLeaves(p)
        BY <1>8, <2>7, <3>1, <4>2 DEF Prepared, MailFails, history
      <4>3. QED
        BY <4>1, <4>2
    <3>3. QED
      BY <2>1, <2>2, <2>3, <2>4, <2>5, <2>7, <3>2, ToldStep
  <2>8. QED
    BY <2>6, <2>7
<1>9. ASSUME NEW p \in Procs, NEW left \in BOOLEAN, Stop(p, left) PROVE Told(r)'
  <2>1. /\ work[p].pc \in Busy /\ rows' = rows
        /\ mails' = IF left THEN [mails EXCEPT ![Reminder(p)] = @ + 1] ELSE mails
        /\ disputed' = IF left \/ work[p].pc = "accepted" THEN disputed \cup {Reminder(p)} ELSE disputed
    BY <1>9 DEF Stop
  <2>2. work'[p].pc \notin Busy /\ \A q \in Procs : q # p => work'[q] = work[q]
    BY <1>1, <1>9 DEF Stop, Resting, TypeOK
  <2>3. Told(r) /\ ~At(p, r)'
    BY <2>1, <2>2 DEF MailInv, At
  <2>4. CASE Reminder(p) # r
    <3>1. mails'[r] = mails[r] /\ ~At(p, r)
      BY <2>1, <2>4 DEF TypeOK, At
    <3>2. QED
      BY <2>1, <2>2, <2>3, <3>1, ToldStep
  <2>5. CASE Reminder(p) = r
    <3>1. ~left /\ work[p].pc # "accepted" /\ At(p, r)
      BY <2>1, <2>5 DEF At
    <3>2. mails'[r] = 0 /\ rows'[r].status # "sent"
      BY <1>3, <2>1, <2>3, <3>1
    <3>3. QED
      BY <2>2, <2>3, <3>1, <3>2, ToldStep
  <2>6. QED
    BY <2>4, <2>5
<1>10. CASE Tick
  BY <1>10 DEF Tick, MailInv, Told, At, Reminder
<1>11. QED
  BY <1>4, <1>5, <1>6, <1>7, <1>8, <1>9, <1>10

MailerInv == TypeOK /\ PlaceInv /\ MailInv

LEMMA MailerInit == Init => MailerInv
<1> SUFFICES ASSUME Init PROVE MailerInv
  OBVIOUS
<1>1. Resting("idle") \in WorkType /\ Resting("idle").pc = "idle"
  BY Lengths DEF Resting, WorkType, Places
<1>2. TypeOK
  <2>1. [status |-> "absent", attempts |-> 0, next |-> 0] \in RowType
    BY Lengths DEF RowType, Statuses
  <2>2. rows \in [Reminders -> RowType] /\ work \in [Procs -> WorkType] /\ mails \in [Reminders -> Nat]
    BY <1>1, <2>1 DEF Init
  <2>3. /\ now \in 0..MaxTime /\ disputed \in SUBSET Reminders /\ polled \in BOOLEAN /\ timely \in BOOLEAN
        /\ forced \in 0..MaxForced /\ stops \in 0..MaxStops
    <3>1. polled \in BOOLEAN /\ timely \in BOOLEAN /\ disputed = {}
      BY Zenon DEF Init
    <3>2. now \in 0..MaxTime /\ forced \in 0..MaxForced /\ stops \in 0..MaxStops
      BY BoundsAssumption DEF Init
    <3>3. QED
      BY <3>1, <3>2
  <2>4. QED
    BY <2>2, <2>3 DEF TypeOK, RowType, Statuses, WorkType, Places
<1>3. \A p \in Procs : work[p].pc = "idle"
  BY <1>1 DEF Init
<1>4. QED
  BY <1>2, <1>3 DEF MailerInv, PlaceInv, MailInv, Told, At, Init, Busy, Delivering

LEMMA MailerNext == MailerInv /\ [Next]_vars => MailerInv'
<1>1. CASE Next
  BY <1>1, TypeStep, MailStep DEF MailerInv
<1>2. CASE UNCHANGED vars
  BY <1>2 DEF MailerInv, vars, history, bounds, TypeOK, PlaceInv, MailInv, Told, At, Reminder, Reminders, Dates, TypeSet
<1>3. QED
  BY <1>1, <1>2

(* In every state of the scheduler, the types and places hold and the      *)
(* undisputed reminders are told truthfully: the inductive invariant.      *)
THEOREM MailerInvariance == Spec => []MailerInv
BY MailerInit, MailerNext, PTL DEF Spec

(* The variables keep their types; in particular a row counts no more than *)
(* RetryLimit attempts (_deliver).                                         *)
THEOREM TypeCorrect == Spec => []TypeOK
<1>1. MailerInv => TypeOK
  BY DEF MailerInv
<1>2. QED
  BY <1>1, MailerInvariance, PTL

(* Whatever polls, forced runs, outages, retries, skips and stops do: a    *)
(* reminder whose outcome was neither lost nor contended is mailed at most *)
(* once, and exactly if its row says sent (notifications.py).              *)
THEOREM RemindersMailedOnce == Spec => []UndisputedMailedOnce
<1>1. MailerInv => UndisputedMailedOnce
  <2> SUFFICES ASSUME MailerInv, NEW r \in Reminders, r \notin disputed
               PROVE  /\ mails[r] <= 1
                      /\ ~AtWork(r) => mails[r] = IF rows[r].status = "sent" THEN 1 ELSE 0
    BY DEF UndisputedMailedOnce
  <2>1. Told(r)
    BY DEF MailerInv, MailInv
  <2>2. AtWork(r) <=> \E p \in Procs : At(p, r)
    BY DEF AtWork, At
  <2>3. mails[r] \in {0, 1}
    BY <2>1 DEF Told
  <2>4. QED
    BY <2>1, <2>2, <2>3 DEF Told
<1>2. QED
  BY <1>1, MailerInvariance, PTL

-----------------------------------------------------------------------------
(* Time.                                                                   *)

(* After k failures the next attempt is due 2^k - 1 units after the        *)
(* reminder's time at the latest.                                          *)
Limit(r) == Scheduled(r) + 2 ^ rows[r].attempts - 1
Later(r) == rows[r].attempts > 0 /\ rows[r].next > now

(* In this unit of time the server was at the reminder.                    *)
Awake == Busy \cup {"scan"}
Past(t) ==
  /\ work["server"].pc \in Awake
  /\ \E j \in 1..Len(Types) : j < work["server"].i /\ Types[j] = t
Visited(r) == r[1] = DateOf(now) /\ (polled \/ Past(r[2]))

OnTrack(r) ==
  /\ now <= Limit(r)
  /\ rows[r].attempts > 0 => rows[r].next <= Limit(r)
  /\ Visited(r) => now < Scheduled(r) \/ Later(r)

TrackInv == \A r \in Reminders : Settled(r) \/ OnTrack(r)
PresentInv == \A p \in Procs : work[p].pc \in Awake => work[p].at = now

(* A delivery in progress began in time, and what another process did to   *)
(* its row since was one attempt of the same number.                       *)
Fresh(r, a) ==
  /\ now < Scheduled(r) + 2 ^ a
  /\ rows[r].attempts \in {a, a + 1}
  /\ rows[r].attempts = a + 1 => Settled(r) \/ Later(r)

AttemptInv == \A p \in Procs : work[p].pc \in Delivering => Fresh(Reminder(p), work[p].attempts)

SameInv ==
  \A p, q \in Procs :
    /\ work[p].pc \in Delivering /\ work[q].pc \in Delivering /\ Reminder(p) = Reminder(q)
    => work[p].attempts = work[q].attempts

SkipInv == \A p \in Procs : work[p].pc = "skipping" => rows[Reminder(p)].attempts = RetryLimit

Timed == TrackInv /\ PresentInv /\ AttemptInv /\ SameInv /\ SkipInv
TimeInv == timely => Timed

LEMMA Times ==
  ASSUME TypeOK, NEW r \in Reminders
  PROVE  /\ now \in Nat /\ DateOf(now) \in Nat /\ r[1] \in Nat /\ r[2] \in TypeSet /\ r = <<r[1], r[2]>>
         /\ TimeOf[r[2]] \in 0..(DayLength - 1) /\ Scheduled(r) \in Nat
         /\ Scheduled(r) = r[1] * DayLength + TimeOf[r[2]]
         /\ rows[r].attempts \in 0..RetryLimit /\ rows[r].next \in Nat
         /\ 2 ^ rows[r].attempts \in Nat /\ 2 ^ rows[r].attempts > 0
         /\ Limit(r) \in Nat /\ Scheduled(r) <= Limit(r)
<1>1. now \in Nat /\ DateOf(now) \in Nat
  <2>1. now \in Nat
    BY Lengths DEF TypeOK
  <2>2. QED
    BY <2>1, DateParts
<1>2. r[1] \in Dates /\ r[2] \in TypeSet /\ r = <<r[1], r[2]>>
  BY DEF Reminders
<1>3. r[1] \in Nat
  BY <1>2, Lengths, DateParts DEF Dates
<1>4. TimeOf[r[2]] \in 0..(DayLength - 1) /\ DayLength \in Nat \ {0}
  BY <1>2, TimesAssumption
<1>5. rows[r].attempts \in 0..RetryLimit /\ rows[r].next \in Nat
  BY DEF TypeOK
<1>6. 2 ^ rows[r].attempts \in Nat /\ 2 ^ rows[r].attempts > 0
  <2>1. rows[r].attempts \in Nat
    BY <1>5, Lengths
  <2>2. QED
    BY <2>1, PowerCounts
<1>7. Scheduled(r) = r[1] * DayLength + TimeOf[r[2]]
  BY DEF Scheduled
<1>8. Scheduled(r) \in Nat
  BY <1>3, <1>4, <1>7
<1>9. QED
  BY <1>1, <1>2, <1>3, <1>4, <1>5, <1>6, <1>7, <1>8 DEF Limit

(* What is still open has attempts left, so its limit is in its day.       *)
LEMMA OpenLimit ==
  ASSUME RetriesFit, TypeOK, NEW r \in Reminders, ~Settled(r)
  PROVE  /\ rows[r].attempts < RetryLimit
         /\ Limit(r) <= Scheduled(r) + 2 ^ (RetryLimit - 1) - 1
         /\ Limit(r) <= Scheduled(r) + CatchUp
         /\ Limit(r) < (r[1] + 1) * DayLength
<1>1. rows[r].attempts \in Nat /\ rows[r].attempts <= RetryLimit - 1 /\ RetryLimit - 1 \in Nat
  BY Times, Lengths DEF Settled
<1>2. 2 ^ rows[r].attempts <= 2 ^ (RetryLimit - 1) /\ 2 ^ (RetryLimit - 1) \in Nat
  BY <1>1, PowerGrows, PowerCounts
<1>3. TimeOf[r[2]] + 2 ^ (RetryLimit - 1) <= DayLength /\ 2 ^ (RetryLimit - 1) <= CatchUp + 1
  BY Times DEF RetriesFit
<1>4. CatchUp \in Nat /\ DayLength \in Nat
  BY TimesAssumption, BoundsAssumption
<1>5. Limit(r) = Scheduled(r) + 2 ^ rows[r].attempts - 1
  BY DEF Limit
<1>6. Limit(r) <= Scheduled(r) + 2 ^ (RetryLimit - 1) - 1
  BY <1>2, <1>5, Times
<1>7. Limit(r) <= Scheduled(r) + CatchUp
  BY <1>2, <1>3, <1>4, <1>6, Times
<1>8. r[1] * DayLength + DayLength = (r[1] + 1) * DayLength
  BY <1>4, Times
<1>9. Limit(r) < r[1] * DayLength + DayLength
  <2>1. PICK m : m = r[1] * DayLength
    OBVIOUS
  <2>2. m \in Nat
    BY <1>4, <2>1, Times
  <2>3. Scheduled(r) = m + TimeOf[r[2]]
    BY <2>1, Times
  <2>4. QED
    BY <1>2, <1>3, <1>4, <1>6, <2>1, <2>2, <2>3, Times
<1>10. QED
  BY <1>1, <1>6, <1>7, <1>8, <1>9, Lengths

(* At its own date, a reminder's lateness is the distance of the clock.    *)
LEMMA Lateness ==
  ASSUME TypeOK, NEW p \in Procs, work[p].i <= Len(Types), work[p].at = now
  PROVE  /\ NotDue(p) => now < Scheduled(Reminder(p))
         /\ Expired(p) => now > Scheduled(Reminder(p)) + CatchUp
<1> DEFINE r == Reminder(p)
<1>1. r \in Reminders /\ r[1] = DateOf(now) /\ r[2] = Types[work[p].i]
  BY ReminderType
<1>2. Scheduled(r) = DateOf(now) * DayLength + TimeOf[Types[work[p].i]]
  BY <1>1 DEF Scheduled
<1>3. now = DayLength * DateOf(now) + ClockOf(now) /\ ClockOf(now) \in 0..(DayLength - 1)
      /\ DateOf(now) \in Nat /\ now \in Nat
  BY <1>1, Times, DateParts
<1>4. TimeOf[Types[work[p].i]] \in 0..(DayLength - 1) /\ DayLength \in Nat /\ CatchUp \in Nat
  BY <1>1, Times, TimesAssumption, BoundsAssumption
<1>5. PICK m : m = DateOf(now) * DayLength
  OBVIOUS
<1>6. m \in Nat /\ now = m + ClockOf(now) /\ Scheduled(r) = m + TimeOf[Types[work[p].i]]
  BY <1>2, <1>3, <1>4, <1>5
<1>7. NotDue(p) => ClockOf(now) < TimeOf[Types[work[p].i]]
  BY DEF NotDue
<1>8. Expired(p) => ClockOf(now) - TimeOf[Types[work[p].i]] > CatchUp
  BY DEF Expired, Late
<1>9. QED
  BY <1>3, <1>4, <1>6, <1>7, <1>8

LEMMA ExpiredIsSettled ==
  ASSUME RetriesFit, TypeOK, NEW p \in Procs, work[p].i <= Len(Types), work[p].at = now,
         Expired(p), Settled(Reminder(p)) \/ OnTrack(Reminder(p))
  PROVE  Settled(Reminder(p))
<1>1. Reminder(p) \in Reminders
  BY ReminderType
<1> SUFFICES ASSUME ~Settled(Reminder(p)) PROVE FALSE
  OBVIOUS
<1>2. now <= Limit(Reminder(p)) /\ Limit(Reminder(p)) <= Scheduled(Reminder(p)) + CatchUp
  BY <1>1, OpenLimit DEF OnTrack
<1>3. now > Scheduled(Reminder(p)) + CatchUp
  BY Lateness
<1>4. now \in Nat /\ Scheduled(Reminder(p)) \in Nat /\ Limit(Reminder(p)) \in Nat /\ CatchUp \in Nat
  BY <1>1, Times, BoundsAssumption
<1>5. QED
  BY <1>2, <1>3, <1>4

-----------------------------------------------------------------------------
(* The steps while time stands still.                                      *)

(* A row that keeps its attempts and stays settled if it was.              *)
Kept(r) ==
  /\ rows'[r].attempts = rows[r].attempts /\ rows'[r].next = rows[r].next
  /\ Settled(r) => Settled(r)'

LEMMA TrackKept ==
  ASSUME NEW r \in Reminders, now' = now, Settled(r) \/ OnTrack(r), Kept(r),
         Visited(r)' => Visited(r) \/ Settled(r)' \/ now < Scheduled(r) \/ Later(r)'
  PROVE  Settled(r)' \/ OnTrack(r)'
<1>1. Limit(r)' = Limit(r) /\ Scheduled(r)' = Scheduled(r) /\ (Later(r)' <=> Later(r))
  BY DEF Limit, Later, Scheduled, Kept
<1>2. QED
  BY <1>1 DEF OnTrack, Kept

LEMMA FreshKept ==
  ASSUME NEW r \in Reminders, NEW a, now' = now, Fresh(r, a), Kept(r)
  PROVE  (rows'[r].attempts \in {a, a + 1} /\ now < Scheduled(r) + 2 ^ a)
         /\ (rows'[r].attempts = a + 1 => Settled(r)' \/ Later(r)')
BY DEF Fresh, Kept, Later

(* An attempt with number a + 1 that was just recorded.                    *)
Recorded(r, a) ==
  /\ rows'[r].attempts = a + 1
  /\ Settled(r)' \/ rows'[r].next = now + 2 ^ a

LEMMA TrackRecorded ==
  ASSUME TypeOK, NEW r \in Reminders, NEW a \in Nat, now' = now, Fresh(r, a), Recorded(r, a)
  PROVE  /\ Settled(r)' \/ OnTrack(r)'
         /\ Settled(r)' \/ Later(r)'
<1>1. CASE Settled(r)'
  BY <1>1
<1>2. CASE ~Settled(r)'
  <2>1. 2 ^ a \in Nat /\ 2 ^ a > 0 /\ 2 ^ (a + 1) = 2 ^ a + 2 ^ a
    BY PowerCounts, PowerDoubles
  <2>2. now \in Nat /\ Scheduled(r) \in Nat /\ now < Scheduled(r) + 2 ^ a
    BY Times DEF Fresh
  <2>3. rows'[r].attempts = a + 1 /\ rows'[r].next = now + 2 ^ a
    BY <1>2 DEF Recorded
  <2>4. Limit(r)' = Scheduled(r) + 2 ^ (a + 1) - 1
    BY <2>3 DEF Limit, Scheduled
  <2>5. now + 2 ^ a <= Limit(r)' /\ now <= Limit(r)' /\ now + 2 ^ a > now
    BY <2>1, <2>2, <2>4
  <2>6. Later(r)'
    BY <2>3, <2>5 DEF Later
  <2>7. QED
    BY <2>3, <2>5, <2>6 DEF OnTrack
<1>3. QED
  BY <1>1, <1>2

(* What the server comes to have visited.                                  *)
LEMMA VisitedStep ==
  ASSUME TypeOK, NEW p \in Procs, now' = now, polled' = polled,
         \A q \in Procs : q # p => work'[q] = work[q],
         \/ work'[p].pc \notin Awake
         \/ work'[p].i = 1
         \/ work[p].pc \in Awake /\ work'[p].i = work[p].i
         \/ /\ work[p].pc \in Awake /\ work[p].i <= Len(Types) /\ work[p].at = now
            /\ work'[p].i = work[p].i + 1,
         NEW r \in Reminders, Visited(r)'
  PROVE  \/ Visited(r)
         \/ work[p].i <= Len(Types) /\ work'[p].i = work[p].i + 1 /\ r = Reminder(p)
<1>1. r[1] = DateOf(now) /\ (polled \/ Past(r[2])')
  BY DEF Visited
<1>2. CASE polled
  BY <1>1, <1>2 DEF Visited
<1>3. CASE p # "server"
  <2>1. work'["server"] = work["server"]
    BY <1>3 DEF Procs
  <2>2. Past(r[2])' => Past(r[2])
    BY <2>1 DEF Past
  <2>3. QED
    BY <1>1, <2>2 DEF Visited
<1>4. CASE ~polled /\ p = "server"
  <2>1. work'[p].pc \in Awake
    BY <1>1, <1>4 DEF Past
  <2>2. PICK j \in 1..Len(Types) : j < work'[p].i /\ Types[j] = r[2]
    BY <1>1, <1>4 DEF Past
  <2>3. work[p].pc \in Awake
    BY <2>1, <2>2, Lengths
  <2>4. CASE j < work[p].i
    <3>1. Past(r[2])
      BY <1>4, <2>2, <2>3, <2>4 DEF Past
    <3>2. QED
      BY <1>1, <3>1 DEF Visited
  <2>5. CASE ~(j < work[p].i)
    <3>1. /\ work[p].i <= Len(Types) /\ work[p].at = now /\ work'[p].i = work[p].i + 1
          /\ work[p].i \in Nat
      BY <2>1, <2>2, <2>5, Lengths DEF TypeOK
    <3>2. j = work[p].i
      BY <2>2, <2>5, <3>1, Lengths
    <3>3. r = <<r[1], r[2]>> /\ Reminder(p) = <<DateOf(now), Types[work[p].i]>>
      BY <3>1, Times DEF Reminder
    <3>4. QED
      BY <1>1, <2>2, <3>1, <3>2, <3>3
  <2>6. QED
    BY <2>4, <2>5
<1>5. QED
  BY <1>2, <1>3, <1>4

(* What each step of a process keeps while time stands still.              *)
RowsStep(p) ==
  \A r \in Reminders :
    \/ Kept(r)
    \/ /\ work[p].pc \in Delivering /\ work'[p].pc = "scan" /\ r = Reminder(p)
       /\ Recorded(r, work[p].attempts)

VisitStep ==
  \A r \in Reminders : Visited(r)' => Visited(r) \/ Settled(r)' \/ now < Scheduled(r) \/ Later(r)'

Continues(p) ==
  /\ work[p].pc \in Delivering /\ work'[p].attempts = work[p].attempts /\ rows' = rows
  /\ Reminder(p)' = Reminder(p)
Enrols(p) ==
  /\ Reminder(p) \in Reminders /\ Reminder(p)' = Reminder(p)
  /\ work'[p].attempts = rows[Reminder(p)].attempts
  /\ ~Settled(Reminder(p)) /\ ~Later(Reminder(p))

QuietStep(p) ==
  /\ now' = now
  /\ \A q \in Procs : q # p => work'[q] = work[q]
  /\ work'[p].pc \in Awake => work'[p].at = now
  /\ RowsStep(p)
  /\ VisitStep
  /\ work'[p].pc \in Delivering => Continues(p) \/ Enrols(p)
  /\ work'[p].pc = "skipping" =>
       /\ Reminder(p) \in Reminders /\ Reminder(p)' = Reminder(p)
       /\ rows[Reminder(p)].attempts = RetryLimit

LEMMA BusyReminder ==
  ASSUME TypeOK, PlaceInv, NEW p \in Procs, work[p].pc \in Busy
  PROVE  Reminder(p) \in Reminders /\ work[p].attempts \in Nat
BY ReminderType, Lengths DEF PlaceInv, TypeOK

LEMMA QuietAttempts ==
  ASSUME TypeOK, PlaceInv, Timed, NEW p \in Procs, QuietStep(p)
  PROVE  AttemptInv' /\ SameInv' /\ SkipInv'
<1>1. Delivering \subseteq Busy /\ "skipping" \in Busy /\ "scan" \notin Busy /\ "skipping" \notin Delivering
  BY DEF Delivering, Busy
<1>2. ASSUME NEW q \in Procs, q # p PROVE work'[q] = work[q] /\ Reminder(q)' = Reminder(q)
  BY <1>2 DEF QuietStep, Reminder
<1>3. ASSUME Enrols(p)
      PROVE  /\ now < Scheduled(Reminder(p)) + 2 ^ rows[Reminder(p)].attempts
             /\ \A q \in Procs : work[q].pc \in Delivering /\ Reminder(q) = Reminder(p)
                  => work[q].attempts = rows[Reminder(p)].attempts
  <2> DEFINE r == Reminder(p)
  <2>1. r \in Reminders /\ ~Settled(r) /\ ~Later(r)
    BY <1>3 DEF Enrols
  <2>2. now <= Limit(r)
    BY <2>1 DEF Timed, TrackInv, OnTrack
  <2>3. now < Scheduled(r) + 2 ^ rows[r].attempts
    <3>1. now \in Nat /\ Scheduled(r) \in Nat /\ 2 ^ rows[r].attempts \in Nat
      BY <2>1, Times
    <3>2. QED
      BY <2>2, <3>1 DEF Limit
  <2>4. ASSUME NEW q \in Procs, work[q].pc \in Delivering, Reminder(q) = r
        PROVE  work[q].attempts = rows[r].attempts
    BY <2>1, <2>4 DEF Timed, AttemptInv, Fresh
  <2>5. QED
    BY <2>3, <2>4
<1>4. AttemptInv'
  <2> SUFFICES ASSUME NEW q \in Procs, work'[q].pc \in Delivering
               PROVE  Fresh(Reminder(q), work[q].attempts)'
    BY DEF AttemptInv
  <2>1. CASE q # p
    <3>1. work'[q] = work[q] /\ Reminder(q)' = Reminder(q) /\ work[q].pc \in Delivering /\ now' = now
      BY <1>2, <2>1 DEF QuietStep
    <3>2. PICK r \in Reminders, a \in Nat : r = Reminder(q) /\ a = work[q].attempts
      BY <1>1, <3>1, BusyReminder
    <3>3. Fresh(r, a)
      BY <3>1, <3>2 DEF Timed, AttemptInv
    <3>4. /\ rows'[r].attempts \in {a, a + 1} /\ now < Scheduled(r) + 2 ^ a
          /\ rows'[r].attempts = a + 1 => Settled(r)' \/ Later(r)'
      <4>1. CASE Kept(r)
        BY <3>1, <3>3, <4>1, FreshKept
      <4>2. CASE ~Kept(r)
        <5>1. work[p].pc \in Delivering /\ r = Reminder(p) /\ Recorded(r, work[p].attempts)
          BY <4>2 DEF QuietStep, RowsStep
        <5>2. work[p].attempts = a
          BY <3>1, <3>2, <5>1 DEF Timed, SameInv
        <5>3. Recorded(r, a)
          BY <5>1, <5>2
        <5>4. Settled(r)' \/ Later(r)'
          BY <3>1, <3>3, <5>3, TrackRecorded
        <5>5. QED
          BY <3>3, <5>3, <5>4 DEF Fresh, Recorded
      <4>3. QED
        BY <4>1, <4>2
    <3>5. Fresh(r, a)'
      BY <3>1, <3>4 DEF Fresh, Scheduled
    <3>6. Reminder(q)' = r /\ work'[q].attempts = a
      BY <3>1, <3>2
    <3>7. QED
      BY <3>5, <3>6 DEF Fresh, Later, Settled, Scheduled
  <2>2. CASE q = p /\ Continues(p)
    BY <2>2 DEF QuietStep, Continues, Timed, AttemptInv, Fresh, Later, Settled, Scheduled
  <2>3. CASE q = p /\ Enrols(p)
    <3>1. PICK s \in Reminders : s = Reminder(p)
      BY <2>3 DEF Enrols
    <3>2. PICK b : b = rows[s].attempts
      OBVIOUS
    <3>3. work'[q].attempts = b /\ Reminder(q)' = s /\ b \in Nat /\ now < Scheduled(s) + 2 ^ b /\ now' = now
      BY <1>3, <2>3, <3>1, <3>2, Times, Lengths DEF Enrols, QuietStep
    <3>4. Kept(s)
      BY <1>1, <2>3, <3>1 DEF QuietStep, RowsStep
    <3>5. rows'[s].attempts = b /\ b # b + 1
      BY <3>2, <3>3, <3>4 DEF Kept
    <3>6. QED
      BY <3>3, <3>5 DEF Fresh, Scheduled
  <2>4. QED
    BY <2>1, <2>2, <2>3 DEF QuietStep
<1>5. SameInv'
  <2>1. ASSUME NEW q \in Procs, q # p, work'[q].pc \in Delivering, work'[p].pc \in Delivering,
               Reminder(q)' = Reminder(p)'
        PROVE  work'[q].attempts = work'[p].attempts
    <3>1. work'[q] = work[q] /\ Reminder(q)' = Reminder(q)
      BY <1>2, <2>1
    <3>2. CASE Continues(p)
      BY <2>1, <3>1, <3>2 DEF Continues, Timed, SameInv
    <3>3. CASE Enrols(p)
      BY <1>3, <2>1, <3>1, <3>3 DEF Enrols
    <3>4. QED
      BY <2>1, <3>2, <3>3 DEF QuietStep
  <2>2. ASSUME NEW q \in Procs, NEW o \in Procs, q # p, o # p,
               work'[q].pc \in Delivering, work'[o].pc \in Delivering, Reminder(q)' = Reminder(o)'
        PROVE  work'[q].attempts = work'[o].attempts
    BY <1>2, <2>2 DEF Timed, SameInv
  <2>3. QED
    BY <2>1, <2>2 DEF SameInv
<1>6. SkipInv'
  <2> SUFFICES ASSUME NEW q \in Procs, work'[q].pc = "skipping"
               PROVE  rows'[Reminder(q)'].attempts = RetryLimit
    BY DEF SkipInv
  <2>1. CASE q = p
    <3>1. Reminder(p) \in Reminders /\ Reminder(p)' = Reminder(p) /\ rows[Reminder(p)].attempts = RetryLimit
      BY <2>1 DEF QuietStep
    <3>2. Kept(Reminder(p))
      BY <2>1, <3>1 DEF QuietStep, RowsStep
    <3>3. QED
      BY <2>1, <3>1, <3>2 DEF Kept
  <2>2. CASE q # p
    <3>1. work[q].pc = "skipping" /\ Reminder(q)' = Reminder(q)
      BY <1>2, <2>2
    <3>2. Reminder(q) \in Reminders /\ rows[Reminder(q)].attempts = RetryLimit
      BY <1>1, <3>1, BusyReminder DEF Timed, SkipInv
    <3>3. CASE Kept(Reminder(q))
      BY <3>1, <3>2, <3>3 DEF Kept
    <3>4. CASE ~Kept(Reminder(q))
      <4>1. /\ work[p].pc \in Delivering /\ Reminder(q) = Reminder(p)
            /\ rows'[Reminder(q)].attempts = work[p].attempts + 1
        BY <3>2, <3>4 DEF QuietStep, RowsStep, Recorded
      <4>2. rows[Reminder(q)].attempts \in {work[p].attempts, work[p].attempts + 1}
        BY <4>1 DEF Timed, AttemptInv, Fresh
      <4>3. work[p].attempts < RetryLimit /\ work[p].attempts \in Nat
        BY <1>1, <4>1, BusyReminder DEF PlaceInv
      <4>4. QED
        BY <3>1, <3>2, <4>1, <4>2, <4>3, Lengths
    <3>5. QED
      BY <3>3, <3>4
  <2>3. QED
    BY <2>1, <2>2
<1>7. QED
  BY <1>4, <1>5, <1>6

LEMMA QuietTimed ==
  ASSUME TypeOK, PlaceInv, Timed, NEW p \in Procs, QuietStep(p)
  PROVE  Timed'
<1>1. TrackInv'
  <2> SUFFICES ASSUME NEW r \in Reminders PROVE Settled(r)' \/ OnTrack(r)'
    BY DEF TrackInv, Reminders, Dates, TypeSet
  <2>1. CASE Kept(r)
    <3>1. now' = now /\ (Settled(r) \/ OnTrack(r))
      BY DEF QuietStep, Timed, TrackInv
    <3>2. Visited(r)' => Visited(r) \/ Settled(r)' \/ now < Scheduled(r) \/ Later(r)'
      BY DEF QuietStep, VisitStep
    <3>3. QED
      BY <2>1, <3>1, <3>2, TrackKept
  <2>2. CASE ~Kept(r)
    <3>1. work[p].pc \in Delivering /\ r = Reminder(p) /\ Recorded(r, work[p].attempts)
      BY <2>2 DEF QuietStep, RowsStep
    <3>2. now' = now /\ Fresh(r, work[p].attempts) /\ work[p].attempts \in Nat
      BY <3>1, BusyReminder DEF QuietStep, Timed, AttemptInv, Delivering, Busy
    <3>3. QED
      BY <3>1, <3>2, TrackRecorded
  <2>3. QED
    BY <2>1, <2>2
<1>2. PresentInv'
  BY DEF QuietStep, Timed, PresentInv
<1>3. QED
  BY <1>1, <1>2, QuietAttempts DEF Timed

LEMMA AllKept ==
  ASSUME rows' = rows
  PROVE  \A r \in Reminders : Kept(r)
BY DEF Kept, Settled

LEMMA RestsQuiet ==
  ASSUME MailerInv, Timed, NEW p \in Procs,
         \/ Poll(p) \/ EndPoll(p) \/ (\E left \in BOOLEAN : Stop(p, left))
         \/ p = "server" /\ (ShutDown \/ Start)
  PROVE  QuietStep(p)
<1>1. now' = now /\ rows' = rows
  BY DEF Poll, EndPoll, Stop, ShutDown, Start, history, bounds
<1>2. /\ \A q \in Procs : q # p => work'[q] = work[q]
      /\ Poll(p) => work'[p].pc = "scan" /\ work'[p].at = now /\ work'[p].i = 1
      /\ ~Poll(p) => work'[p].pc \in {"idle", "down"}
  <2>1. CASE Poll(p)
    <3>1. [Resting("scan") EXCEPT !.at = now] = [pc |-> "scan", at |-> now, i |-> 1, attempts |-> 0]
      BY DEF Resting
    <3>2. work' = [work EXCEPT ![p] = [pc |-> "scan", at |-> now, i |-> 1, attempts |-> 0]]
      BY <2>1, <3>1 DEF Poll
    <3>3. QED
      BY <2>1, <3>2 DEF MailerInv, TypeOK
  <2>2. CASE ~Poll(p)
    <3>1. PICK pc \in {"idle", "down"} : work' = [work EXCEPT ![p] = Resting(pc)]
      BY <2>2 DEF EndPoll, Stop, ShutDown, Start
    <3>2. QED
      BY <2>2, <3>1 DEF MailerInv, TypeOK, Resting
  <2>3. QED
    BY <2>1, <2>2
<1>3. Awake \cap {"idle", "down"} = {} /\ Delivering \subseteq Awake \ {"scan", "skipping"} /\ "skipping" \in Awake
  BY DEF Awake, Delivering, Busy
<1>4. VisitStep
  <2> SUFFICES ASSUME NEW r \in Reminders, Visited(r)' PROVE Visited(r)
    BY DEF VisitStep
  <2>1. CASE ~EndPoll(p)
    <3>1. polled' = polled
      BY <2>1 DEF Poll, Stop, ShutDown, Start, history
    <3>2. work'[p].pc \notin Awake \/ work'[p].i = 1
      BY <1>2, <1>3
    <3>3. Visited(r) \/ (work[p].i <= Len(Types) /\ work'[p].i = work[p].i + 1)
      BY <1>1, <1>2, <3>1, <3>2, VisitedStep DEF MailerInv
    <3>4. work'[p].i = 1
      BY <1>2, <2>1 DEF Poll, Stop, ShutDown, Start, Resting, MailerInv, TypeOK
    <3>5. work[p].i \in Nat /\ work[p].i >= 1
      BY Lengths DEF MailerInv, TypeOK
    <3>6. QED
      BY <3>3, <3>4, <3>5
  <2>2. CASE EndPoll(p)
    <3>1. CASE p = "server" /\ work[p].at = now
      <4>1. work[p].pc \in Awake /\ work[p].i = Len(Types) + 1
        BY <2>2, Lengths DEF EndPoll, Awake, MailerInv, TypeOK
      <4>2. r[1] = DateOf(now) /\ r[2] \in TypeSet
        BY <1>1, Times DEF Visited, MailerInv
      <4>3. PICK j \in 1..Len(Types) : Types[j] = r[2]
        BY <4>2 DEF TypeSet
      <4>4. j < work[p].i
        BY <4>1, Lengths
      <4>5. QED
        BY <3>1, <4>1, <4>2, <4>3, <4>4 DEF Visited, Past
    <3>2. CASE ~(p = "server" /\ work[p].at = now)
      <4>1. polled' = polled
        <5>1. polled' = (polled \/ (p = "server" /\ work[p].at = now))
          BY <2>2 DEF EndPoll
        <5>2. polled \in BOOLEAN
          BY DEF MailerInv, TypeOK
        <5>3. QED
          BY <3>2, <5>1, <5>2
      <4>2. work'[p].pc \notin Awake
        BY <1>2, <1>3, <2>2 DEF Poll, EndPoll
      <4>3. work'[p].i = 1 /\ work[p].i \in Nat /\ work[p].i >= 1
        BY <2>2, Lengths DEF EndPoll, Resting, MailerInv, TypeOK
      <4>4. QED
        BY <1>1, <1>2, <4>1, <4>2, <4>3, VisitedStep DEF MailerInv
    <3>3. QED
      BY <3>1, <3>2
  <2>3. QED
    BY <2>1, <2>2
<1>5. QED
  BY <1>1, <1>2, <1>3, <1>4, AllKept DEF QuietStep, RowsStep

LEMMA MailsQuiet ==
  ASSUME MailerInv, Timed, NEW p \in Procs,
         Prepared(p) \/ MailLeaves(p) \/ (\E left \in BOOLEAN : MailFails(p, left))
  PROVE  QuietStep(p)
<1>1. now' = now /\ rows' = rows /\ polled' = polled /\ work[p].pc \in Delivering
  BY DEF Prepared, MailLeaves, MailFails, Delivering, history
<1>2. PICK pc \in Delivering : Enters(p, pc)
  BY DEF Prepared, MailLeaves, MailFails, Delivering
<1>3. /\ work'[p].pc = pc /\ work'[p].at = work[p].at /\ work'[p].i = work[p].i
      /\ work'[p].attempts = work[p].attempts
      /\ \A q \in Procs : q # p => work'[q] = work[q]
  BY <1>2, EntersFacts DEF MailerInv, Places, Busy, Delivering
<1>4. Delivering \subseteq Awake \ {"skipping"}
  BY DEF Awake, Delivering, Busy
<1>5. work[p].at = now
  BY <1>1, <1>4 DEF Timed, PresentInv
<1>6. VisitStep
  <2>1. work[p].i # work[p].i + 1
    BY Lengths DEF MailerInv, TypeOK
  <2>2. QED
    BY <1>1, <1>3, <1>4, <2>1, VisitedStep DEF VisitStep, MailerInv
<1>7. Continues(p)
  BY <1>1, <1>3 DEF Continues, Reminder
<1>8. QED
  BY <1>1, <1>2, <1>3, <1>4, <1>5, <1>6, <1>7, AllKept DEF QuietStep, RowsStep

(* Every step on to the next reminder leaves this one settled, too early,  *)
(* or to be retried later.                                                 *)
LEMMA MovesQuiet ==
  ASSUME MailerInv, Timed, NEW p \in Procs, work[p].pc \in Awake, work[p].i <= Len(Types), Moves(p),
         now' = now, polled' = polled, RowsStep(p),
         \A r \in Reminders : r = Reminder(p) => Settled(r)' \/ now < Scheduled(r) \/ Later(r)'
  PROVE  QuietStep(p)
<1>1. /\ work'[p].pc = "scan" /\ work'[p].at = work[p].at /\ work'[p].i = work[p].i + 1
      /\ \A q \in Procs : q # p => work'[q] = work[q]
  BY MovesFacts DEF MailerInv
<1>2. work[p].at = now
  BY DEF Timed, PresentInv
<1>3. VisitStep
  <2> SUFFICES ASSUME NEW r \in Reminders, Visited(r)'
               PROVE  Visited(r) \/ Settled(r)' \/ now < Scheduled(r) \/ Later(r)'
    BY DEF VisitStep
  <2>1. Visited(r) \/ r = Reminder(p)
    BY <1>1, <1>2, VisitedStep DEF MailerInv
  <2>2. QED
    BY <2>1
<1>4. "scan" \notin Delivering
  BY DEF Delivering
<1>5. QED
  BY <1>1, <1>2, <1>3, <1>4 DEF QuietStep

LEMMA PassOverQuiet ==
  ASSUME MailerInv, Timed, NEW p \in Procs, PassOver(p)
  PROVE  QuietStep(p)
<1>1. /\ work[p].pc \in Awake /\ work[p].i <= Len(Types) /\ Moves(p) /\ NotDue(p)
      /\ now' = now /\ polled' = polled /\ rows' = rows
  BY DEF PassOver, Scanning, Awake, history
<1>2. work[p].at = now
  BY <1>1 DEF Timed, PresentInv
<1>3. now < Scheduled(Reminder(p))
  BY <1>1, <1>2, Lateness DEF MailerInv
<1>4. \A r \in Reminders : r = Reminder(p) => Settled(r)' \/ now < Scheduled(r) \/ Later(r)'
  BY <1>3
<1>5. RowsStep(p)
  BY <1>1, AllKept DEF RowsStep
<1>6. QED
  BY <1>1, <1>4, <1>5, MovesQuiet

LEMMA OutcomeQuiet ==
  ASSUME MailerInv, Timed, NEW p \in Procs, RecordSent(p) \/ RecordFailure(p) \/ MarkSkipped(p)
  PROVE  QuietStep(p)
<1>1. /\ work[p].pc \in Busy /\ Moves(p) /\ now' = now /\ polled' = polled
  BY DEF RecordSent, RecordFailure, MarkSkipped, Busy, history
<1>2. PICK r \in Reminders, a \in Nat : r = Reminder(p) /\ a = work[p].attempts
  BY <1>1, BusyReminder DEF MailerInv
<1>3. work[p].i <= Len(Types) /\ work[p].pc \in Awake
  BY <1>1 DEF MailerInv, PlaceInv, Awake
<1>4. \A s \in Reminders : s # r => Kept(s)
  <2>1. \A s \in Reminders : s # r => rows'[s] = rows[s]
    BY <1>1, <1>2, OutcomeFacts DEF MailerInv
  <2>2. QED
    BY <2>1 DEF Kept, Settled
<1>5. work'[p].pc = "scan"
  BY <1>1, <1>3, MovesFacts DEF MailerInv
<1>6. CASE RecordSent(p) \/ RecordFailure(p)
  <2>1. work[p].pc \in Delivering
    BY <1>6 DEF RecordSent, RecordFailure, Delivering
  <2>2. Recorded(r, a)
    <3>1. CASE RecordSent(p)
      <4>1. rows'[r] = [status |-> "sent", attempts |-> a + 1, next |-> rows[r].next]
        BY <1>1, <1>2, <3>1, OutcomeFacts DEF MailerInv
      <4>2. QED
        BY <4>1 DEF Recorded, Settled
    <3>2. CASE RecordFailure(p)
      <4>1. rows'[r] = [status |-> "failed", attempts |-> a + 1, next |-> now + 2 ^ a]
        BY <1>1, <1>2, <3>2, OutcomeFacts DEF MailerInv
      <4>2. QED
        BY <4>1 DEF Recorded
    <3>3. QED
      BY <1>6, <3>1, <3>2
  <2>3. Fresh(r, a)
    BY <1>2, <2>1 DEF Timed, AttemptInv
  <2>4. Settled(r)' \/ Later(r)'
    BY <1>1, <2>2, <2>3, TrackRecorded DEF MailerInv
  <2>5. RowsStep(p)
    BY <1>2, <1>4, <1>5, <2>1, <2>2 DEF RowsStep
  <2>6. \A s \in Reminders : s = Reminder(p) => Settled(s)' \/ now < Scheduled(s) \/ Later(s)'
    BY <1>2, <2>4
  <2>7. QED
    BY <1>1, <1>3, <2>5, <2>6, MovesQuiet
<1>7. CASE MarkSkipped(p)
  <2>1. rows[r].attempts = RetryLimit
    <3>1. work[p].pc = "skipping"
      BY <1>7 DEF MarkSkipped
    <3>2. rows[Reminder(p)].attempts = RetryLimit
      BY <3>1 DEF Timed, SkipInv
    <3>3. QED
      BY <1>2, <3>2
  <2>2. rows'[r].attempts = rows[r].attempts /\ rows'[r].next = rows[r].next
    <3>1. rows'[r] = [status |-> "skipped", attempts |-> rows[r].attempts, next |-> rows[r].next]
      BY <1>1, <1>2, <1>7, OutcomeFacts DEF MailerInv
    <3>2. QED
      BY <3>1
  <2>3. Settled(r)'
    BY <2>1, <2>2, Lengths DEF Settled
  <2>4. Kept(r)
    BY <2>2, <2>3 DEF Kept
  <2>5. RowsStep(p)
    BY <1>4, <2>4 DEF RowsStep
  <2>6. \A s \in Reminders : s = Reminder(p) => Settled(s)' \/ now < Scheduled(s) \/ Later(s)'
    BY <1>2, <2>3
  <2>7. QED
    BY <1>1, <1>3, <2>5, <2>6, MovesQuiet
<1>8. QED
  BY <1>6, <1>7

LEMMA ReserveQuiet ==
  ASSUME RetriesFit, MailerInv, Timed, NEW p \in Procs, ReserveExpired(p) \/ ReserveDue(p)
  PROVE  QuietStep(p)
<1>1. /\ work[p].pc = "scan" /\ work[p].i <= Len(Types) /\ now' = now /\ polled' = polled
      /\ rows' = [rows EXCEPT ![Reminder(p)] = Reserved(Reminder(p))]
      /\ \A q \in Procs : q # p => work'[q] = work[q]
  BY DueFacts, ExpiredFacts, MovesFacts DEF MailerInv
<1>2. work[p].pc \in Awake /\ work[p].at = now
  BY <1>1 DEF Timed, PresentInv, Awake
<1>3. PICK r \in Reminders : r = Reminder(p)
  BY <1>1, ReminderType DEF MailerInv
<1>4. \A s \in Reminders : Kept(s)
  <2> SUFFICES ASSUME NEW s \in Reminders PROVE Kept(s)
    OBVIOUS
  <2>1. rows'[s] = IF s = r THEN Reserved(s) ELSE rows[s]
    BY <1>1, <1>3 DEF MailerInv, TypeOK
  <2>2. QED
    BY <2>1, ReservedFacts DEF MailerInv, Kept, Settled
<1>5. RowsStep(p)
  BY <1>4 DEF RowsStep
<1>6. Settled(r) \/ OnTrack(r)
  BY DEF Timed, TrackInv
<1>7. ASSUME Expired(p) PROVE Settled(r)
  BY <1>1, <1>2, <1>3, <1>6, <1>7, ExpiredIsSettled DEF MailerInv
<1>8. Settled(r)' <=> Settled(r)
  <2>1. rows'[r] = Reserved(r)
    BY <1>1, <1>3 DEF MailerInv, TypeOK
  <2>2. QED
    BY <2>1, ReservedFacts DEF MailerInv, Settled
<1>9. Later(r)' <=> Later(r)
  BY <1>1, <1>4 DEF Kept, Later
<1>10. (NothingToDo(p) <=> Settled(r) \/ Later(r))
       /\ (Reserved(r).status = "sent" <=> rows[r].status = "sent")
  BY <1>2, <1>3, ReservedFacts DEF MailerInv, NothingToDo, Settled, Later
<1>11. CASE Moves(p)
  <2>1. Settled(r) \/ Later(r)
    <3>1. CASE ReserveExpired(p)
      BY <1>7, <3>1 DEF ReserveExpired
    <3>2. CASE ReserveDue(p)
      <4>1. work'[p].pc = "scan"
        BY <1>1, <1>11, MovesFacts DEF MailerInv
      <4>2. NothingToDo(p)
        BY <3>2, <4>1, DueFacts DEF MailerInv
      <4>3. QED
        BY <1>10, <4>2
    <3>3. QED
      BY <3>1, <3>2
  <2>2. \A s \in Reminders : s = Reminder(p) => Settled(s)' \/ now < Scheduled(s) \/ Later(s)'
    BY <1>3, <1>8, <1>9, <2>1
  <2>3. QED
    BY <1>1, <1>2, <1>5, <1>11, <2>2, MovesQuiet
<1>12. CASE ~Moves(p)
  <2>1. work'[p].at = work[p].at /\ work'[p].i = work[p].i
    BY <1>12, DueFacts, ExpiredFacts DEF MailerInv, ReserveExpired
  <2>2. Reminder(p)' = Reminder(p)
    BY <2>1 DEF Reminder
  <2>3. VisitStep
    <3>1. work[p].i # work[p].i + 1
      BY Lengths DEF MailerInv, TypeOK
    <3>2. QED
      BY <1>1, <1>2, <2>1, <3>1, VisitedStep DEF VisitStep, MailerInv
  <2>4. CASE ReserveExpired(p)
    <3>1. /\ Reserved(r).status \notin {"sent", "skipped"} /\ work'[p].pc = "skipping"
      BY <1>3, <1>12, <2>4, ExpiredFacts DEF MailerInv, ReserveExpired
    <3>2. rows[r].attempts \in 0..RetryLimit
      BY Times DEF MailerInv
    <3>3. rows[r].attempts = RetryLimit
      BY <1>7, <1>10, <2>4, <3>1, <3>2, Lengths DEF Settled, ReserveExpired
    <3>4. QED
      BY <1>1, <1>2, <1>3, <1>5, <2>1, <2>2, <2>3, <3>1, <3>3 DEF QuietStep, Delivering
  <2>5. CASE ReserveDue(p)
    <3>1. ~NothingToDo(p) /\ work'[p].pc = "preparing" /\ work'[p].attempts = rows[r].attempts
      BY <1>3, <1>12, <2>5, DueFacts DEF MailerInv
    <3>2. Enrols(p)
      BY <1>3, <1>10, <2>2, <3>1 DEF Enrols
    <3>3. QED
      BY <1>1, <1>2, <1>5, <2>1, <2>3, <3>1, <3>2 DEF QuietStep
  <2>6. QED
    BY <2>4, <2>5
<1>13. QED
  BY <1>11, <1>12

-----------------------------------------------------------------------------
(* Time passes.  The poll that ended in this unit saw every reminder of    *)
(* the date; those of later dates are still to come, those of earlier      *)
(* dates are settled, for their limits are in their days.                  *)
LEMMA TickTimed ==
  ASSUME RetriesFit, MailerInv, Timed, Tick, timely'
  PROVE  Timed'
<1>1. now' = now + 1 /\ polled' = FALSE /\ rows' = rows /\ work' = work
  BY DEF Tick
<1>2. polled /\ \A p \in Procs : work[p].pc \in {"idle", "down"}
  BY DEF Tick
<1>3. Awake \cap {"idle", "down"} = {} /\ Delivering \subseteq Awake /\ "skipping" \in Awake
  BY DEF Awake, Delivering, Busy
<1>4. \A p \in Procs : work'[p].pc \notin Awake
  BY <1>1, <1>2, <1>3
<1>5. PresentInv' /\ AttemptInv' /\ SameInv' /\ SkipInv'
  BY <1>3, <1>4 DEF PresentInv, AttemptInv, SameInv, SkipInv
<1>6. TrackInv'
  <2> SUFFICES ASSUME NEW r \in Reminders, ~Settled(r) PROVE OnTrack(r)'
    BY <1>1 DEF TrackInv, Settled, Reminders, Dates, TypeSet
  <2>1. OnTrack(r)
    BY DEF Timed, TrackInv
  <2>2. Limit(r)' = Limit(r)
    BY <1>1 DEF Limit, Scheduled
  <2>3. ~Visited(r)'
    BY <1>1, <1>4 DEF Visited, Past, Procs
  <2>4. now \in Nat /\ Limit(r) \in Nat /\ Scheduled(r) \in Nat /\ Scheduled(r) <= Limit(r)
    BY Times DEF MailerInv
  <2>5. now + 1 <= Limit(r)
    <3>1. CASE r[1] = DateOf(now)
      <4>1. now < Scheduled(r) \/ Later(r)
        BY <1>2, <2>1, <3>1 DEF OnTrack, Visited
      <4>2. CASE now < Scheduled(r)
        BY <2>4, <4>2
      <4>3. CASE Later(r)
        <5>1. rows[r].next > now /\ rows[r].next <= Limit(r) /\ rows[r].next \in Nat
          BY <2>1, <4>3, Times DEF OnTrack, Later, MailerInv
        <5>2. QED
          BY <2>4, <5>1
      <4>4. QED
        BY <4>1, <4>2, <4>3
    <3>2. CASE r[1] # DateOf(now)
      <4>1. now < (r[1] + 1) * DayLength
        BY <2>1, <2>4, OpenLimit, TimesAssumption, Times DEF OnTrack, MailerInv
      <4>2. now = DayLength * DateOf(now) + ClockOf(now) /\ ClockOf(now) \in 0..(DayLength - 1)
            /\ DateOf(now) \in Nat /\ r[1] \in Nat /\ DayLength \in Nat \ {0}
        BY <2>4, DateParts, Times, TimesAssumption DEF MailerInv
      <4>3. ~(r[1] < DateOf(now))
        <5> SUFFICES ASSUME r[1] + 1 <= DateOf(now) PROVE FALSE
          BY <4>2
        <5>1. (r[1] + 1) * DayLength <= DateOf(now) * DayLength
          BY <4>2
        <5>2. QED
          BY <4>1, <4>2, <5>1
      <4>4. (DateOf(now) + 1) * DayLength <= r[1] * DayLength
        <5>1. DateOf(now) + 1 <= r[1]
          BY <3>2, <4>2, <4>3
        <5>2. QED
          BY <4>2, <5>1
      <4>5. now + 1 <= (DateOf(now) + 1) * DayLength
        BY <4>2
      <4>6. r[1] * DayLength <= Scheduled(r)
        BY <4>2, Times DEF MailerInv
      <4>7. QED
        BY <2>4, <4>2, <4>4, <4>5, <4>6
    <3>3. QED
      BY <3>1, <3>2
  <2>6. QED
    BY <1>1, <2>1, <2>2, <2>3, <2>5 DEF OnTrack
<1>7. QED
  BY <1>5, <1>6 DEF Timed

LEMMA TimeInit ==
  ASSUME Init
  PROVE  TimeInv
<1>1. \A p \in Procs : work[p].pc = "idle"
  BY DEF Init, Resting
<1>2. now = 0 /\ polled = FALSE /\ \A r \in Reminders : rows[r].attempts = 0
  BY DEF Init
<1>3. \A r \in Reminders : OnTrack(r)
  <2> SUFFICES ASSUME NEW r \in Reminders PROVE OnTrack(r)
    OBVIOUS
  <2>1. TypeOK
    BY MailerInit DEF MailerInv
  <2>2. 0 <= Limit(r)
    BY <2>1, Times
  <2>3. ~Visited(r)
    BY <1>1, <1>2 DEF Visited, Past, Awake, Busy, Procs
  <2>4. QED
    BY <1>2, <2>2, <2>3 DEF OnTrack
<1>4. QED
  BY <1>1, <1>3 DEF TimeInv, Timed, TrackInv, PresentInv, AttemptInv, SameInv, SkipInv,
                    Awake, Busy, Delivering

LEMMA TimeNext ==
  ASSUME RetriesFit, MailerInv, TimeInv, [Next]_vars
  PROVE  TimeInv'
<1> SUFFICES ASSUME timely' PROVE Timed'
  BY DEF TimeInv
<1>1. CASE Tick
  <2>1. timely
    BY <1>1 DEF Tick
  <2>2. QED
    BY <1>1, <2>1, TickTimed DEF TimeInv
<1>2. ASSUME NEW p \in Procs,
             \/ Poll(p) \/ EndPoll(p) \/ PassOver(p) \/ (p = "server" /\ (ShutDown \/ Start))
             \/ ReserveExpired(p) \/ ReserveDue(p)
             \/ MarkSkipped(p) \/ RecordSent(p) \/ RecordFailure(p)
             \/ Prepared(p) \/ MailLeaves(p)
             \/ \E left \in BOOLEAN : MailFails(p, left) \/ Stop(p, left)
      PROVE  Timed'
  <2>1. timely' = timely
    <3>1. CASE Poll(p) \/ EndPoll(p) \/ PassOver(p) \/ ShutDown \/ Start
      BY <3>1 DEF Poll, EndPoll, PassOver, ShutDown, Start, history
    <3>2. CASE ReserveExpired(p) \/ ReserveDue(p)
      BY <3>2 DEF ReserveExpired, ReserveDue
    <3>3. CASE MarkSkipped(p) \/ RecordSent(p) \/ RecordFailure(p) \/ Prepared(p) \/ MailLeaves(p)
      BY <3>3 DEF MarkSkipped, RecordSent, RecordFailure, Prepared, MailLeaves, history
    <3>4. CASE \E left \in BOOLEAN : MailFails(p, left) \/ Stop(p, left)
      BY <3>4 DEF MailFails, Stop
    <3>5. QED
      BY <1>2, <3>1, <3>2, <3>3, <3>4
  <2>2. Timed
    BY <2>1 DEF TimeInv
  <2>3. QuietStep(p)
    BY <1>2, <2>2, RestsQuiet, PassOverQuiet, ReserveQuiet, OutcomeQuiet, MailsQuiet
  <2>4. QED
    BY <2>2, <2>3, QuietTimed DEF MailerInv
<1>3. CASE UNCHANGED vars
  BY <1>3 DEF TimeInv, Timed, TrackInv, PresentInv, AttemptInv, SameInv, SkipInv, OnTrack, Settled, Limit,
              Later, Visited, Past, Fresh, Reminder, Scheduled, Reminders, Dates, TypeSet, vars, history, bounds
<1>4. QED
  BY <1>1, <1>2, <1>3 DEF Next, Procs

(* While the server ends a poll in every unit of time, a reminder whose    *)
(* retries fit into the catch-up window and the rest of its day is sent or *)
(* out of attempts once its last retry was due: backoff, window, midnight, *)
(* skips, forced runs and stops lose none (run_once, _deliver).            *)
THEOREM RemindersSettle ==
  ASSUME RetriesFit
  PROVE  Spec => []RemindersSettleOnTime
<1>1. Init => MailerInv /\ TimeInv
  BY MailerInit, TimeInit
<1>2. MailerInv /\ TimeInv /\ [Next]_vars => (MailerInv /\ TimeInv)'
  BY MailerNext, TimeNext
<1>3. MailerInv /\ TimeInv => RemindersSettleOnTime
  <2> SUFFICES ASSUME MailerInv, Timed, NEW r \in Reminders, ~Settled(r),
                      now > Scheduled(r) + 2 ^ (RetryLimit - 1) - 1
               PROVE  FALSE
    BY DEF RemindersSettleOnTime, TimeInv
  <2>1. now <= Limit(r) /\ Limit(r) <= Scheduled(r) + 2 ^ (RetryLimit - 1) - 1
    BY OpenLimit DEF Timed, TrackInv, OnTrack, MailerInv
  <2>2. now \in Nat /\ Limit(r) \in Nat /\ Scheduled(r) \in Nat /\ 2 ^ (RetryLimit - 1) \in Nat
    <3>1. RetryLimit - 1 \in Nat
      BY Lengths
    <3>2. QED
      BY <3>1, Times, PowerCounts DEF MailerInv
  <2>3. QED
    BY <2>1, <2>2
<1>4. QED
  BY <1>1, <1>2, <1>3, PTL DEF Spec
=============================================================================
