---------------------------- MODULE TurnQueue_proofs ----------------------------
(***************************************************************************)
(* Proofs about TurnQueue and the two modules that add to it, for every    *)
(* set of sessions and every bound.                                        *)
(*                                                                         *)
(* The queue: the semaphore is conserved, a session has one turn at a      *)
(* time, and what the server promises with its 202 answer is kept.  The    *)
(* inductive invariant relates what the tasks say of a run with the queue, *)
(* the semaphore, the set of active sessions and the events.               *)
(*                                                                         *)
(* EventStream: the page and the decided cards leave what TurnQueue        *)
(* promises alone, for a step of the page does not touch the queue and a   *)
(* decision adds an event that is no outcome.  Then: a page that stops at  *)
(* an outcome has missed nothing; that part knows of the server only how   *)
(* tasks and events go on (GoesOn).                                        *)
(*                                                                         *)
(* Accounts, for every set of accounts: the inductive invariant says whom  *)
(* a turn books its chat calls on while it runs: on the owner of its       *)
(* session, unless the session was claimed under it or is gone.            *)
(***************************************************************************)
EXTENDS EventStream, Accounts, FiniteSetTheorems, SequenceTheorems, TLAPS

(* The phases of a task that asyncio knows.                                *)
Alive == InProgress \cup {"returning"}

(* Which session a task belongs to: an alive one blocks its session.       *)
TurnInv ==
  \A r \in Runs :
    /\ turn[r].phase = "none" <=> SessionOf(r) = NoSession
    /\ turn[r].phase # "none" => session[SessionOf(r)] # "none"
    /\ turn[r].phase \in Alive => up /\ SessionOf(r) \in active

OneTurn ==
  \A q, r \in Runs :
    turn[q].phase \in Alive /\ turn[r].phase \in Alive /\ SessionOf(q) = SessionOf(r) => q = r

(* Whoever is in the queue waits, and once.                                *)
QueueInv ==
  /\ \A i \in 1..Len(queue) : turn[queue[i]].phase = "queued"
  /\ \A i, j \in 1..Len(queue) : queue[i] = queue[j] => i = j

(* The semaphore and the turns that began share the slots.                 *)
Working == {r \in Runs : turn[r].phase \in Begun}
SlotInv == free + Cardinality(Working) = Slots

(* An event belongs to the session of its run, and an outcome is the last  *)
(* word of a task.                                                         *)
LogInv ==
  \A s \in Sessions : \A i \in 1..Len(log[s]) :
    /\ SessionOf(log[s][i].run) = s
    /\ log[s][i].kind \in Outcomes => turn[log[s][i].run].phase \in {"returning", "over"}

QInv == TypeOK /\ TurnInv /\ OneTurn /\ QueueInv /\ SlotInv /\ LogInv

-----------------------------------------------------------------------------
(* The oldest runs of a set come one after the other.                      *)
LEMMA NthType ==
  ASSUME NEW rs \in SUBSET Runs
  PROVE  /\ Cardinality(rs) \in Nat
         /\ \A i \in 1..Cardinality(rs) : Nth(rs, i) \in rs
  <1> DEFINE n == Cardinality(rs)
             below(r) == {q \in rs : q <= r}
             rank == [r \in rs |-> Cardinality(below(r))]
  <1>1. IsFiniteSet(rs) /\ n \in Nat
    <2>1. IsFiniteSet(Runs)
      BY QueueAssumption, FS_Interval DEF Runs
    <2>2. QED
      BY <2>1, FS_Subset, FS_CardinalityType
  <1>2. \A r \in rs : /\ IsFiniteSet(below(r)) /\ Cardinality(below(r)) <= n
                      /\ Cardinality(below(r)) \in Nat
    <2>1. \A r \in rs : below(r) \in SUBSET rs
      OBVIOUS
    <2>2. QED
      BY <1>1, <2>1, FS_Subset, FS_CardinalityType
  <1>3. \A r \in rs : Cardinality(below(r)) >= 1
    <2> TAKE r \in rs
    <2>1. r \in below(r)
      BY DEF Runs
    <2>2. Cardinality(below(r)) # 0
      <3> HIDE DEF below
      <3> QED
        BY <1>2, <2>1, FS_EmptySet
    <2>3. QED
      BY <1>2, <2>2
  <1>4. rank \in [rs -> 1..n]
    <2>1. \A r \in rs : Cardinality(below(r)) \in 1..n
      <3> HIDE DEF below, n
      <3> QED
        BY <1>1, <1>2, <1>3
    <2>2. QED
      BY <2>1
  <1>5. ASSUME NEW q \in rs, NEW r \in rs, q < r PROVE rank[q] < rank[r]
    <2>1. \A x \in rs : x \in Int
      BY DEF Runs
    <2>2. below(q) \in SUBSET below(r)
      BY <1>5, <2>1
    <2>3. r \in below(r) /\ r \notin below(q)
      BY <1>5, <2>1
    <2>4. Cardinality(below(q)) <= Cardinality(below(r)) /\ Cardinality(below(q)) # Cardinality(below(r))
      BY <1>2, <2>2, <2>3, FS_Subset
    <2>5. QED
      BY <1>2, <2>4
  <1>6. \A q, r \in rs : rank[q] = rank[r] => q = r
    <2> TAKE q, r \in rs
    <2>1. q < r \/ r < q \/ q = r
      BY DEF Runs
    <2>2. rank[q] \in Nat /\ rank[r] \in Nat
      BY <1>2
    <2>3. QED
      BY <2>1, <2>2, <1>5
  <1>7. rank \in Injection(rs, 1..n)
    BY <1>4, <1>6 DEF Injection, IsInjective
  <1>8. IsFiniteSet(1..n) /\ Cardinality(1..n) = n
    BY <1>1, FS_Interval
  <1>9. rank \in Surjection(rs, 1..n)
    BY <1>7, <1>8, FS_Injection
  <1>10. ASSUME NEW i \in 1..n PROVE Nth(rs, i) \in rs
    <2>1. \E r \in rs : Cardinality(below(r)) = i
      BY <1>9 DEF Surjection
    <2>2. QED
      BY <2>1 DEF Nth
  <1>11. QED
    BY <1>1, <1>10

LEMMA NotedType ==
  ASSUME NEW rs \in SUBSET Runs
  PROVE  /\ Noted(rs) \in Seq(Events)
         /\ \A i \in 1..Len(Noted(rs)) : Noted(rs)[i].kind = "recovering" /\ Noted(rs)[i].run \in rs
  <1> DEFINE n == Cardinality(rs)
  <1>1. n \in Nat /\ \A i \in 1..n : Nth(rs, i) \in rs
    BY NthType
  <1>2. \A i \in 1..n : [run |-> Nth(rs, i), kind |-> "recovering"] \in Events
    BY <1>1 DEF Events
  <1>3. Noted(rs) = [i \in 1..n |-> [run |-> Nth(rs, i), kind |-> "recovering"]]
    BY DEF Noted
  <1> HIDE DEF n
  <1>4. Noted(rs) \in Seq(Events) /\ Len(Noted(rs)) = n
    BY <1>1, <1>2, <1>3
  <1>5. QED
    BY <1>1, <1>3, <1>4

(* An event more.                                                          *)
LEMMA EmitFacts ==
  ASSUME TypeOK, NEW s \in Sessions, NEW r \in Runs,
         NEW kind \in {"run_started", "recovering", "decided"} \cup Outcomes, Emit(s, r, kind)
  PROVE  /\ log' \in [Sessions -> Seq(Events)]
         /\ \A t \in Sessions : t # s => log'[t] = log[t]
         /\ Len(log[s]) \in Nat /\ Len(log'[s]) = Len(log[s]) + 1
         /\ \A i \in 1..Len(log[s]) : log'[s][i] = log[s][i]
         /\ log'[s][Len(log[s]) + 1].run = r
         /\ log'[s][Len(log[s]) + 1].kind = kind
         /\ \A t \in Sessions : gone[t] <= Len(log'[t])
  <1> DEFINE e == [run |-> r, kind |-> kind]
  <1>1. e \in Events /\ log[s] \in Seq(Events)
    BY DEF TypeOK, Events
  <1>2. log' = [log EXCEPT ![s] = Append(log[s], e)]
    BY DEF Emit
  <1>3. log'[s] = Append(log[s], e) /\ \A t \in Sessions : t # s => log'[t] = log[t]
    BY <1>2 DEF TypeOK
  <1>4. Append(log[s], e) \in Seq(Events)
    BY <1>1
  <1>5. log' \in [Sessions -> Seq(Events)]
    BY <1>2, <1>4 DEF TypeOK
  <1>6. e.run = r /\ e.kind = kind
    OBVIOUS
  <1> HIDE DEF e
  <1>7. /\ Len(log[s]) \in Nat /\ Len(log'[s]) = Len(log[s]) + 1
        /\ \A i \in 1..Len(log[s]) : log'[s][i] = log[s][i]
        /\ log'[s][Len(log[s]) + 1] = e
    BY <1>1, <1>3, AppendProperties, LenProperties
  <1>8. \A t \in Sessions : gone[t] <= Len(log'[t])
    <2>1. gone[s] \in Nat /\ gone[s] <= Len(log[s])
      BY DEF TypeOK
    <2>2. gone[s] <= Len(log'[s])
      BY <1>7, <2>1
    <2>3. QED
      BY <1>3, <2>2 DEF TypeOK
  <1>9. QED
    BY <1>3, <1>5, <1>6, <1>7, <1>8

(* A start adds what it marks, and nothing else.                           *)
LEMMA RestartFacts ==
  ASSUME TypeOK, Restart
  PROVE  /\ log' \in [Sessions -> Seq(Events)]
         /\ \A s \in Sessions :
              /\ Len(log[s]) \in Nat /\ Len(log'[s]) \in Nat /\ Len(log[s]) <= Len(log'[s])
              /\ \A i \in 1..Len(log[s]) : log'[s][i] = log[s][i]
              /\ \A i \in Len(log[s]) + 1 .. Len(log'[s]) :
                   log'[s][i].kind = "recovering" /\ log'[s][i].run \in RunsOf(s)
         /\ \A s \in Sessions : (\A r \in RunsOf(s) : row[r] = "absent") => log'[s] = log[s]
  <1> DEFINE cut == {r \in Runs : row[r] \in {"running", "recovering"}}
             more(s) == Noted(cut \cap RunsOf(s))
  <1>1. \A s \in Sessions : log'[s] = log[s] \o more(s) /\ log[s] \in Seq(Events)
    BY DEF Restart, TypeOK
  <1>2. \A s \in Sessions :
          /\ more(s) \in Seq(Events)
          /\ \A i \in 1..Len(more(s)) : more(s)[i].kind = "recovering" /\ more(s)[i].run \in RunsOf(s)
    <2> TAKE s \in Sessions
    <2> DEFINE rs == cut \cap RunsOf(s)
    <2>1. rs \in SUBSET Runs /\ rs \subseteq RunsOf(s)
      OBVIOUS
    <2> HIDE DEF rs
    <2>2. Noted(rs) \in Seq(Events)
          /\ \A i \in 1..Len(Noted(rs)) : Noted(rs)[i].kind = "recovering" /\ Noted(rs)[i].run \in rs
      BY <2>1, NotedType
    <2>3. QED
      BY <2>1, <2>2 DEF rs
  <1>3. \A s \in Sessions : (\A r \in RunsOf(s) : row[r] = "absent") => Len(more(s)) = 0
    <2> TAKE s \in Sessions
    <2> HAVE \A r \in RunsOf(s) : row[r] = "absent"
    <2>1. cut \cap RunsOf(s) = {}
      BY DEF TypeOK
    <2>2. Cardinality({}) = 0
      BY FS_EmptySet
    <2>3. more(s) = [i \in 1..0 |-> [run |-> Nth({}, i), kind |-> "recovering"]]
      BY <2>1, <2>2 DEF Noted
    <2>4. QED
      BY <2>3
  <1>4. log' = [s \in Sessions |-> log[s] \o more(s)]
    BY DEF Restart
  <1> HIDE DEF more
  <1>5. log' \in [Sessions -> Seq(Events)]
    BY <1>1, <1>2, <1>4
  <1>6. ASSUME NEW s \in Sessions
        PROVE  /\ Len(log[s]) \in Nat /\ Len(more(s)) \in Nat
               /\ Len(log'[s]) = Len(log[s]) + Len(more(s))
               /\ \A i \in 1..Len(log[s]) : log'[s][i] = log[s][i]
               /\ \A i \in Len(log[s]) + 1 .. Len(log'[s]) :
                    log'[s][i] = more(s)[i - Len(log[s])] /\ i - Len(log[s]) \in 1..Len(more(s))
    <2>1. log[s] \in Seq(Events) /\ more(s) \in Seq(Events) /\ log'[s] = log[s] \o more(s)
      BY <1>1, <1>2
    <2>2. /\ Len(log[s]) \in Nat /\ Len(more(s)) \in Nat
          /\ Len(log[s] \o more(s)) = Len(log[s]) + Len(more(s))
      BY <2>1, ConcatProperties, LenProperties
    <2>3. \A i \in 1..Len(log[s]) + Len(more(s)) : log'[s][i] =
            IF i <= Len(log[s]) THEN log[s][i] ELSE more(s)[i - Len(log[s])]
      BY <2>1, ConcatProperties
    <2>4. QED
      BY <2>1, <2>2, <2>3
  <1>7. ASSUME NEW s \in Sessions, \A r \in RunsOf(s) : row[r] = "absent"
        PROVE  log'[s] = log[s]
    <2>1. more(s) = <<>>
      BY <1>2, <1>3, <1>7, EmptySeq
    <2>2. QED
      BY <1>1, <2>1, ConcatEmptySeq
  <1>8. QED
    BY <1>2, <1>5, <1>6, <1>7

(* A task goes on.                                                         *)
LEMMA EntersFacts ==
  ASSUME TypeOK, NEW r \in Runs,
         NEW phase \in {"none", "returning", "over"} \cup InProgress, Enters(r, phase)
  PROVE  /\ turn' \in [Runs -> Turns]
         /\ turn'[r].phase = phase
         /\ \A q \in Runs : turn'[q].session = turn[q].session /\ turn'[q].retry = turn[q].retry
         /\ \A q \in Runs : q # r => turn'[q] = turn[q]
         /\ \A q \in Runs : SessionOf(q)' = SessionOf(q)
         /\ \A s \in Sessions : RunsOf(s)' = RunsOf(s)
  <1>1. turn' = [turn EXCEPT ![r] = [turn[r] EXCEPT !.phase = phase]]
    BY DEF Enters
  <1>2. turn \in [Runs -> Turns] /\ turn[r] \in Turns
    BY DEF TypeOK
  <1>3. /\ [turn[r] EXCEPT !.phase = phase] \in Turns
        /\ [turn[r] EXCEPT !.phase = phase].phase = phase
        /\ [turn[r] EXCEPT !.phase = phase].session = turn[r].session
        /\ [turn[r] EXCEPT !.phase = phase].retry = turn[r].retry
    BY <1>2 DEF Turns
  <1>4. /\ turn' \in [Runs -> Turns]
        /\ turn'[r] = [turn[r] EXCEPT !.phase = phase]
        /\ \A q \in Runs : q # r => turn'[q] = turn[q]
    BY <1>1, <1>2, <1>3
  <1>5. QED
    BY <1>3, <1>4 DEF SessionOf, RunsOf

(* Whoever is at the head.                                                 *)
LEMMA HeadFacts ==
  ASSUME TypeOK, QueueInv, NEW r, AtHead(r)
  PROVE  /\ r \in Runs /\ turn[r].phase = "queued"
         /\ Tail(queue) \in Seq(Runs)
         /\ \A i \in 1..Len(Tail(queue)) :
              i + 1 \in 1..Len(queue) /\ Tail(queue)[i] = queue[i + 1] /\ Tail(queue)[i] # r
         /\ Len(Tail(queue)) \in Nat
  <1>1. queue \in Seq(Runs) /\ queue # <<>> /\ r = Head(queue)
    BY DEF TypeOK, AtHead
  <1>2. /\ r = queue[1] /\ Len(queue) \in Nat \ {0} /\ r \in Runs
        /\ Tail(queue) \in Seq(Runs) /\ Len(Tail(queue)) = Len(queue) - 1
        /\ \A i \in 1..Len(Tail(queue)) : Tail(queue)[i] = queue[i + 1]
    BY <1>1, HeadTailProperties, EmptySeq
  <1>3. \A i \in 1..Len(Tail(queue)) : i + 1 \in 1..Len(queue) /\ i + 1 # 1
    BY <1>2
  <1>4. QED
    BY <1>2, <1>3 DEF QueueInv

(* A task that was submitted has a session.                                *)
LEMMA HasSession ==
  ASSUME TypeOK, TurnInv, NEW r \in Runs, turn[r].phase # "none"
  PROVE  SessionOf(r) \in Sessions
  BY DEF TypeOK, TurnInv, SessionOf, Turns

-----------------------------------------------------------------------------
LEMMA InitQInv == Init => QInv
  <1> SUFFICES ASSUME Init PROVE QInv
    OBVIOUS
  <1>1. \A r \in Runs : turn[r] = [session |-> NoSession, phase |-> "none", retry |-> FALSE]
    BY DEF Init
  <1>2. \A r \in Runs : turn[r].phase = "none" /\ SessionOf(r) = NoSession
    BY <1>1 DEF SessionOf
  <1>3. turn \in [Runs -> Turns]
    BY DEF Init, Turns
  <1>4. log \in [Sessions -> Seq(Events)] /\ \A s \in Sessions : Len(log[s]) = 0
    BY DEF Init
  <1>5. gone \in [Sessions -> Nat] /\ \A s \in Sessions : gone[s] <= Len(log[s])
    BY <1>4 DEF Init
  <1>6. TypeOK
    <2>1. session \in [Sessions -> {"none", "open", "deleted"}]
          /\ row \in [Runs -> {"absent", "running", "ended", "failed", "recovering"}]
      BY DEF Init
    <2>2. free \in 0..Slots /\ crashes \in 0..MaxCrashes /\ queue \in Seq(Runs)
      BY QueueAssumption DEF Init
    <2>3. QED
      BY <1>3, <1>4, <1>5, <2>1, <2>2 DEF Init, TypeOK
  <1>7. TurnInv /\ OneTurn /\ LogInv
    BY <1>2, <1>4 DEF TurnInv, OneTurn, LogInv, Alive, InProgress, Begun
  <1>8. QueueInv
    BY DEF Init, QueueInv
  <1>9. SlotInv
    <2>1. Working = {}
      BY <1>2 DEF Working, Begun
    <2>2. QED
      BY <2>1, FS_EmptySet, QueueAssumption DEF Init, SlotInv
  <1>10. QED
    BY <1>6, <1>7, <1>8, <1>9 DEF QInv

(* The semaphore: a turn that ends gives back what it took.                *)
LEMMA WorkingType ==
  /\ IsFiniteSet(Working) /\ Cardinality(Working) \in Nat
  <1>1. IsFiniteSet(Runs)
    BY QueueAssumption, FS_Interval DEF Runs
  <1>2. Working \in SUBSET Runs
    BY DEF Working
  <1>3. QED
    BY <1>1, <1>2, FS_Subset, FS_CardinalityType

LEMMA SlotTaken ==
  ASSUME TypeOK, SlotInv, NEW r \in Runs, turn[r].phase \notin Begun, Enters(r, "agent"),
         free > 0, free' = free - 1
  PROVE  SlotInv' /\ free' \in 0..Slots
  <1>1. Working' = Working \cup {r} /\ r \notin Working
    BY EntersFacts DEF Working, Begun, InProgress
  <1>2. Cardinality(Working') = Cardinality(Working) + 1
    BY <1>1, WorkingType, FS_AddElement
  <1>3. QED
    BY <1>2, WorkingType, QueueAssumption DEF SlotInv, TypeOK

LEMMA SlotGiven ==
  ASSUME TypeOK, SlotInv, NEW r \in Runs, turn[r].phase \in Begun, Enters(r, "returning"),
         free' = free + 1
  PROVE  SlotInv' /\ free' \in 0..Slots
  <1>1. Working' = Working \ {r} /\ r \in Working
    BY EntersFacts DEF Working, Begun
  <1>2. Cardinality(Working') = Cardinality(Working) - 1 /\ Cardinality(Working) # 0
    BY <1>1, WorkingType, FS_RemoveElement, FS_EmptySet
  <1>3. QED
    BY <1>2, WorkingType, QueueAssumption DEF SlotInv, TypeOK

LEMMA SlotKept ==
  ASSUME TypeOK, SlotInv, NEW r \in Runs, NEW phase \in {"none", "returning", "over"} \cup InProgress,
         turn[r].phase \in Begun <=> phase \in Begun, Enters(r, phase), free' = free
  PROVE  SlotInv'
  <1>1. Working' = Working
    BY EntersFacts DEF Working
  <1>2. QED
    BY <1>1 DEF SlotInv

(* What a step that leaves the tasks and the events alone keeps.           *)
LEMMA TasksKept ==
  ASSUME OneTurn, QueueInv, SlotInv, LogInv, UNCHANGED <<turn, queue, free, log>>
  PROVE  OneTurn' /\ QueueInv' /\ SlotInv' /\ LogInv'
  <1>1. OneTurn' /\ QueueInv' /\ LogInv'
    BY DEF OneTurn, QueueInv, LogInv, SessionOf
  <1>2. SlotInv'
    BY DEF SlotInv, Working
  <1>3. QED
    BY <1>1, <1>2

(* What going on to another phase keeps: an alive task stays alive, or     *)
(* gives its session back.                                                 *)
LEMMA EntersKeeps ==
  ASSUME TypeOK, TurnInv, OneTurn, NEW r \in Runs, turn[r].phase \in Alive,
         NEW phase \in Alive \cup {"over"}, Enters(r, phase), UNCHANGED <<session, up>>,
         active' = IF phase = "over" THEN active \ {SessionOf(r)} ELSE active
  PROVE  TurnInv' /\ OneTurn'
  <1>0. phase \in {"none", "returning", "over"} \cup InProgress
    BY DEF Alive
  <1>1. /\ turn'[r].phase = phase
        /\ \A q \in Runs : SessionOf(q)' = SessionOf(q)
        /\ \A q \in Runs : q # r => turn'[q] = turn[q]
    BY <1>0, EntersFacts
  <1>2. turn[r].phase # "none" /\ phase # "none"
    BY <1>0 DEF Alive, InProgress, Begun
  <1>3. OneTurn'
    BY <1>1 DEF OneTurn, Alive, InProgress, Begun
  <1>4. TurnInv'
    <2> SUFFICES ASSUME NEW q \in Runs
                 PROVE  /\ turn'[q].phase = "none" <=> SessionOf(q)' = NoSession
                        /\ turn'[q].phase # "none" => session'[SessionOf(q)'] # "none"
                        /\ turn'[q].phase \in Alive => up' /\ SessionOf(q)' \in active'
      BY DEF TurnInv
    <2>1. CASE q = r
      BY <1>1, <1>2, <2>1 DEF TurnInv, Alive, InProgress, Begun
    <2>2. CASE q # r
      <3>1. turn[q].phase \in Alive => SessionOf(q) # SessionOf(r)
        BY <2>2 DEF OneTurn
      <3>2. QED
        BY <1>1, <2>2, <3>1 DEF TurnInv
    <2>3. QED
      BY <2>1, <2>2
  <1>5. QED
    BY <1>3, <1>4

(* A task that has not waited leaves the queue as it is; one that did is   *)
(* taken from its head.                                                    *)
LEMMA QueueKept ==
  ASSUME TypeOK, QueueInv, NEW r \in Runs, turn[r].phase # "queued",
         NEW phase \in {"none", "returning", "over"} \cup InProgress,
         Enters(r, phase), queue' = queue
  PROVE  QueueInv'
  <1>1. \A i \in 1..Len(queue) : queue[i] \in Runs /\ queue[i] # r
    BY DEF TypeOK, QueueInv
  <1>2. QED
    BY <1>1, EntersFacts DEF QueueInv

LEMMA QueueTaken ==
  ASSUME TypeOK, QueueInv, NEW r \in Runs, AtHead(r),
         NEW phase \in {"none", "returning", "over"} \cup InProgress,
         Enters(r, phase), queue' = Tail(queue)
  PROVE  QueueInv'
  <1>1. /\ Tail(queue) \in Seq(Runs) /\ Len(Tail(queue)) \in Nat
        /\ \A i \in 1..Len(Tail(queue)) :
             i + 1 \in 1..Len(queue) /\ Tail(queue)[i] = queue[i + 1] /\ Tail(queue)[i] # r
    BY HeadFacts
  <1>2. \A i \in 1..Len(Tail(queue)) : Tail(queue)[i] \in Runs
    BY <1>1, ElementOfSeq
  <1>3. \A i \in 1..Len(Tail(queue)) : turn'[Tail(queue)[i]].phase = "queued"
    BY <1>1, <1>2, EntersFacts DEF QueueInv
  <1>4. \A i, j \in 1..Len(Tail(queue)) : Tail(queue)[i] = Tail(queue)[j] => i = j
    <2> SUFFICES ASSUME NEW i \in 1..Len(Tail(queue)), NEW j \in 1..Len(Tail(queue)),
                        Tail(queue)[i] = Tail(queue)[j]
                 PROVE  i = j
      OBVIOUS
    <2>1. i + 1 = j + 1
      BY <1>1 DEF QueueInv
    <2>2. QED
      BY <2>1
  <1>5. QED
    BY <1>3, <1>4 DEF QueueInv

LEMMA LogRuns ==
  ASSUME TypeOK
  PROVE  \A s \in Sessions : \A i \in 1..Len(log[s]) : log[s][i].run \in Runs
  <1> SUFFICES ASSUME NEW s \in Sessions, NEW i \in 1..Len(log[s])
               PROVE  log[s][i].run \in Runs
    OBVIOUS
  <1>1. log[s] \in Seq(Events)
    BY DEF TypeOK
  <1>2. log[s][i] \in Events
    BY <1>1, ElementOfSeq
  <1>3. QED
    BY <1>2 DEF Events

(* An outcome is written when its task is done, other events do not say    *)
(* how a run ended.                                                        *)
LEMMA LogEmits ==
  ASSUME TypeOK, TurnInv, LogInv, NEW r \in Runs, turn[r].phase # "none",
         NEW kind \in {"run_started", "recovering", "decided"} \cup Outcomes,
         Emit(SessionOf(r), r, kind),
         \A q \in Runs : turn'[q].session = turn[q].session,
         \A q \in Runs : turn[q].phase \in {"returning", "over"}
                           => turn'[q].phase \in {"returning", "over"},
         kind \in Outcomes => turn'[r].phase \in {"returning", "over"}
  PROVE  LogInv'
  <1> DEFINE n == Len(log[SessionOf(r)])
  <1>1. SessionOf(r) \in Sessions
    BY HasSession
  <1>2. /\ \A t \in Sessions : t # SessionOf(r) => log'[t] = log[t]
        /\ n \in Nat /\ Len(log'[SessionOf(r)]) = n + 1
        /\ \A i \in 1..n : log'[SessionOf(r)][i] = log[SessionOf(r)][i]
        /\ log'[SessionOf(r)][n + 1].run = r
        /\ log'[SessionOf(r)][n + 1].kind = kind
    BY <1>1, EmitFacts
  <1>3. \A t \in Sessions : \A i \in 1..Len(log[t]) : log[t][i].run \in Runs
    BY LogRuns
  <1>4. ASSUME NEW t \in Sessions, NEW i \in 1..Len(log'[t]),
               \/ i \in 1..Len(log[t]) /\ log'[t][i] = log[t][i]
               \/ t = SessionOf(r) /\ log'[t][i].run = r /\ log'[t][i].kind = kind
        PROVE  /\ turn'[log'[t][i].run].session = t
               /\ log'[t][i].kind \in Outcomes
                    => turn'[log'[t][i].run].phase \in {"returning", "over"}
    <2>1. CASE i \in 1..Len(log[t]) /\ log'[t][i] = log[t][i]
      <3>1. log[t][i].run \in Runs /\ turn[log[t][i].run].session = t
        BY <1>3, <2>1 DEF LogInv, SessionOf
      <3>2. turn'[log'[t][i].run].session = t
        BY <2>1, <3>1
      <3>3. QED
        BY <2>1, <3>1, <3>2 DEF LogInv
    <2>2. CASE t = SessionOf(r) /\ log'[t][i].run = r /\ log'[t][i].kind = kind
      <3>1. turn'[log'[t][i].run].session = t
        BY <2>2 DEF SessionOf
      <3>2. QED
        BY <2>2, <3>1
    <2>3. QED
      BY <1>4, <2>1, <2>2
  <1>5. \A t \in Sessions : \A i \in 1..Len(log'[t]) :
          \/ i \in 1..Len(log[t]) /\ log'[t][i] = log[t][i]
          \/ t = SessionOf(r) /\ log'[t][i].run = r /\ log'[t][i].kind = kind
    <2> TAKE t \in Sessions
    <2> TAKE i \in 1..Len(log'[t])
    <2>1. CASE t = SessionOf(r)
      <3>1. i \in 1..n \/ i = n + 1
        BY <1>2, <2>1
      <3>2. QED
        BY <1>2, <2>1, <3>1
    <2>2. CASE t # SessionOf(r)
      BY <1>2, <2>2
    <2>3. QED
      BY <2>1, <2>2
  <1>6. QED
    BY <1>4, <1>5 DEF LogInv, SessionOf

LEMMA LogKept ==
  ASSUME TypeOK, LogInv, log' = log,
         \A q \in Runs : turn[q].phase # "none" => turn'[q].session = turn[q].session,
         \A q \in Runs : SessionOf(q) \in Sessions => turn[q].phase # "none",
         \A q \in Runs : turn[q].phase \in {"returning", "over"}
                           => turn'[q].phase \in {"returning", "over"}
  PROVE  LogInv'
  <1> SUFFICES ASSUME NEW s \in Sessions, NEW i \in 1..Len(log[s])
               PROVE  /\ turn'[log[s][i].run].session = s
                      /\ log[s][i].kind \in Outcomes
                           => turn'[log[s][i].run].phase \in {"returning", "over"}
    BY DEF LogInv, SessionOf
  <1>1. log[s][i].run \in Runs
    BY LogRuns
  <1>2. SessionOf(log[s][i].run) = s
    BY DEF LogInv
  <1>3. turn[log[s][i].run].phase # "none"
    BY <1>1, <1>2
  <1>4. turn'[log[s][i].run].session = s
    BY <1>1, <1>2, <1>3 DEF SessionOf
  <1>5. QED
    BY <1>1, <1>4 DEF LogInv

LEMMA EntersKeepsLog ==
  ASSUME TypeOK, TurnInv, LogInv, NEW r \in Runs, log' = log,
         NEW phase \in {"none", "returning", "over"} \cup InProgress, Enters(r, phase),
         turn[r].phase = "returning" => phase = "over",
         turn[r].phase # "over"
  PROVE  LogInv'
  <1>1. \A q \in Runs : SessionOf(q) \in Sessions => turn[q].phase # "none"
    BY QueueAssumption DEF TurnInv
  <1>2. \A q \in Runs : turn[q].phase \in {"returning", "over"}
          => turn'[q].phase \in {"returning", "over"}
    BY EntersFacts
  <1>3. \A q \in Runs : turn'[q].session = turn[q].session
    BY EntersFacts
  <1>4. QED
    BY <1>1, <1>2, <1>3, LogKept

-----------------------------------------------------------------------------
(* What happens to the sessions.                                           *)
LEMMA SessionKeeps ==
  ASSUME QInv, NEW s \in Sessions, SessionStep(s)
  PROVE  QInv'
  <1>1. CASE CreateSession(s)
    <2>1. TypeOK' /\ TurnInv'
      BY <1>1 DEF QInv, CreateSession, tasks, TypeOK, TurnInv, SessionOf, Turns
    <2>2. QED
      BY <1>1, <2>1, TasksKept DEF QInv, CreateSession, tasks
  <1>2. CASE DeleteSession(s)
    <2>1. Len(log[s]) \in Nat
      BY DEF QInv, TypeOK
    <2>2. gone' \in [Sessions -> Nat] /\ \A t \in Sessions : gone'[t] <= Len(log[t])
      BY <1>2, <2>1 DEF QInv, TypeOK, DeleteSession
    <2>3. row' \in [Runs -> {"absent", "running", "ended", "failed", "recovering"}]
      BY <1>2 DEF QInv, TypeOK, DeleteSession
    <2>4. TypeOK'
      BY <1>2, <2>2, <2>3 DEF QInv, TypeOK, DeleteSession, tasks, RunsOf
    <2>5. TurnInv'
      BY <1>2 DEF QInv, DeleteSession, tasks, TypeOK, TurnInv, SessionOf
    <2>6. QED
      BY <1>2, <2>4, <2>5, TasksKept DEF QInv, DeleteSession, tasks
  <1>3. CASE CleansUp(s)
    <2>1. PICK n \in gone[s]..Len(log[s]), keep \in BOOLEAN : Cleanup(s, n, keep)
      BY <1>3 DEF CleansUp
    <2>2. n \in Nat /\ n <= Len(log[s])
      BY DEF QInv, TypeOK
    <2>3. TypeOK' /\ TurnInv'
      BY <2>1, <2>2 DEF QInv, Cleanup, tasks, TypeOK, TurnInv, SessionOf
    <2>4. QED
      BY <2>1, <2>3, TasksKept DEF QInv, Cleanup, tasks
  <1>4. QED
    BY <1>1, <1>2, <1>3 DEF SessionStep

(* A task more: nobody of its session is alive, and none of its events is  *)
(* there yet.                                                              *)
LEMMA SubmitKeeps ==
  ASSUME QInv, NEW s \in Sessions, NEW r \in Runs, NEW retry \in BOOLEAN, Submit(s, r, retry)
  PROVE  QInv'
  <1> DEFINE task == [session |-> s, phase |-> "queued", retry |-> retry]
  <1> USE DEF QInv
  <1>1. task \in Turns
    BY DEF Turns, InProgress
  <1>2. /\ turn' \in [Runs -> Turns] /\ turn'[r] = task
        /\ \A q \in Runs : q # r => turn'[q] = turn[q]
    BY <1>1 DEF Submit, TypeOK
  <1>3. turn'[r].phase = "queued" /\ turn'[r].session = s
    BY <1>2
  <1> HIDE DEF task
  <1>4. turn[r].phase = "none" /\ SessionOf(r) = NoSession /\ s # NoSession
    BY QueueAssumption DEF Submit, TurnInv
  <1>5. queue \in Seq(Runs) /\ queue' = Append(queue, r)
    BY DEF TypeOK, Submit
  <1>6. /\ queue' \in Seq(Runs) /\ Len(queue) \in Nat /\ Len(queue') = Len(queue) + 1
        /\ \A i \in 1..Len(queue) : queue'[i] = queue[i]
        /\ queue'[Len(queue) + 1] = r
    BY <1>5, AppendProperties, LenProperties
  <1>7. TypeOK'
    BY <1>2, <1>6 DEF TypeOK, Submit, rows
  <1>8. TurnInv'
    <2> SUFFICES ASSUME NEW q \in Runs
                 PROVE  /\ turn'[q].phase = "none" <=> turn'[q].session = NoSession
                        /\ turn'[q].phase # "none" => session'[turn'[q].session] # "none"
                        /\ turn'[q].phase \in Alive => up' /\ turn'[q].session \in active'
      BY DEF TurnInv, SessionOf
    <2>1. CASE q = r
      BY <1>3, <1>4, <2>1 DEF Submit, Submittable, rows
    <2>2. CASE q # r
      BY <1>2, <2>2 DEF Submit, rows, TurnInv, SessionOf
    <2>3. QED
      BY <2>1, <2>2
  <1>9. OneTurn'
    <2>1. \A q \in Runs : q # r /\ turn'[q].phase \in Alive => turn'[q].session # s
      BY <1>2 DEF Submit, Submittable, TurnInv, SessionOf
    <2>2. QED
      BY <1>2, <1>3, <2>1 DEF OneTurn, SessionOf
  <1>10. QueueInv'
    <2>1. \A i \in 1..Len(queue) : queue[i] \in Runs /\ queue[i] # r
      BY <1>4, <1>5, ElementOfSeq DEF QueueInv
    <2>2. \A i \in 1..Len(queue') : i \in 1..Len(queue) \/ i = Len(queue) + 1
      BY <1>6
    <2>3. \A i \in 1..Len(queue') : turn'[queue'[i]].phase = "queued"
      BY <1>2, <1>3, <1>6, <2>1, <2>2 DEF QueueInv
    <2>4. \A i, j \in 1..Len(queue') : queue'[i] = queue'[j] => i = j
      BY <1>6, <2>1, <2>2 DEF QueueInv
    <2>5. QED
      BY <2>3, <2>4 DEF QueueInv
  <1>11. SlotInv'
    <2>1. Working' = Working
      BY <1>2, <1>3, <1>4 DEF Working, Begun
    <2>2. QED
      BY <2>1 DEF SlotInv, Submit
  <1>12. LogInv'
    <2>1. \A q \in Runs : SessionOf(q) \in Sessions => turn[q].phase # "none"
      BY QueueAssumption DEF TurnInv
    <2>2. \A q \in Runs : turn[q].phase # "none" => turn'[q] = turn[q]
      BY <1>2, <1>4
    <2>3. \A q \in Runs : turn[q].phase \in {"returning", "over"} => turn[q].phase # "none"
      OBVIOUS
    <2>4. log' = log
      BY DEF Submit, rows
    <2>5. QED
      BY <2>1, <2>2, <2>3, <2>4, LogKept
  <1>13. QED
    BY <1>7, <1>8, <1>9, <1>10, <1>11, <1>12

(* A turn that begins, goes on or ends.                                    *)
LEMMA RunKeeps ==
  ASSUME QInv, NEW r \in Runs, RunStep(r)
  PROVE  QInv'
  <1> USE DEF QInv
  <1> DEFINE s == SessionOf(r)
  <1>0. ASSUME turn[r].phase \in InProgress
        PROVE  turn[r].phase \in Alive /\ turn[r].phase # "none" /\ s \in Sessions
    BY <1>0, HasSession DEF Alive, InProgress, Begun
  <1>1. CASE Begin(r)
    <2>1. AtHead(r) /\ turn[r].phase = "queued" /\ Tail(queue) \in Seq(Runs)
      BY <1>1, HeadFacts DEF Begin, CanBegin
    <2>2. turn[r].phase \in InProgress /\ turn[r].phase \notin Begun
      BY <2>1 DEF InProgress, Begun
    <2>3. "agent" \in InProgress /\ "agent" \in Alive
      BY DEF InProgress, Alive, Begun
    <2>4. Enters(r, "agent") /\ Emit(s, r, "run_started") /\ turn' \in [Runs -> Turns]
          /\ turn'[r].phase = "agent"
      BY <1>1, <2>3, EntersFacts DEF Begin
    <2>5. log' \in [Sessions -> Seq(Events)] /\ \A t \in Sessions : gone[t] <= Len(log'[t])
      BY <1>0, <2>2, <2>4, EmitFacts
    <2>6. SlotInv' /\ free' \in 0..Slots
      BY <1>1, <2>1, <2>2, SlotTaken DEF Begin, AtHead
    <2>7. TypeOK'
      <3>1. asked' \in SUBSET Sessions
            /\ row' \in [Runs -> {"absent", "running", "ended", "failed", "recovering"}]
        BY <1>0, <1>1, <2>2 DEF TypeOK, Begin
      <3>2. QED
        BY <1>1, <2>1, <2>4, <2>5, <2>6, <3>1 DEF TypeOK, Begin
    <2>8. TurnInv' /\ OneTurn'
      BY <1>0, <1>1, <2>2, <2>3, <2>4, EntersKeeps DEF Begin
    <2>9. QueueInv'
      BY <1>1, <2>1, <2>3, <2>4, QueueTaken DEF Begin
    <2>10. LogInv'
      <3>1. "run_started" \notin Outcomes
        BY DEF Outcomes
      <3>2. \A q \in Runs : /\ turn'[q].session = turn[q].session
                            /\ turn[q].phase \in {"returning", "over"} => turn'[q] = turn[q]
        BY <2>1, <2>3, <2>4, EntersFacts
      <3>3. QED
        BY <1>0, <2>2, <2>4, <3>1, <3>2, LogEmits
    <2>11. QED
      BY <2>6, <2>7, <2>8, <2>9, <2>10
  <1>2. CASE BeginDeleted(r)
    <2>1. AtHead(r) /\ turn[r].phase = "queued" /\ Tail(queue) \in Seq(Runs)
      BY <1>2, HeadFacts DEF BeginDeleted
    <2>2. turn[r].phase \in InProgress /\ turn[r].phase \notin Begun /\ "returning" \notin Begun
      BY <2>1 DEF InProgress, Begun
    <2>3. Enters(r, "returning") /\ turn' \in [Runs -> Turns] /\ "returning" \in Alive
      BY <1>2, EntersFacts DEF BeginDeleted, Alive
    <2>4. TypeOK'
      BY <1>2, <2>1, <2>3 DEF TypeOK, BeginDeleted, rows
    <2>5. TurnInv' /\ OneTurn'
      BY <1>0, <1>2, <2>2, <2>3, EntersKeeps DEF BeginDeleted, rows
    <2>6. QueueInv'
      BY <1>2, <2>1, <2>3, QueueTaken DEF BeginDeleted
    <2>7. SlotInv'
      BY <1>2, <2>2, <2>3, SlotKept DEF BeginDeleted
    <2>8. LogInv'
      BY <1>2, <2>1, <2>3, EntersKeepsLog DEF BeginDeleted, rows
    <2>9. QED
      BY <2>4, <2>5, <2>6, <2>7, <2>8
  <1>3. CASE BeginEmpty(r)
    <2>1. AtHead(r) /\ turn[r].phase = "queued" /\ Tail(queue) \in Seq(Runs)
      BY <1>3, HeadFacts DEF BeginEmpty
    <2>2. turn[r].phase \in InProgress /\ turn[r].phase \notin Begun /\ "returning" \notin Begun
      BY <2>1 DEF InProgress, Begun
    <2>3. /\ Enters(r, "returning") /\ turn' \in [Runs -> Turns] /\ "returning" \in Alive
          /\ turn'[r].phase = "returning" /\ Emit(s, r, "error") /\ "error" \in Outcomes
      BY <1>3, EntersFacts DEF BeginEmpty, Alive, Outcomes
    <2>4. log' \in [Sessions -> Seq(Events)] /\ \A t \in Sessions : gone[t] <= Len(log'[t])
      BY <1>0, <2>2, <2>3, EmitFacts
    <2>5. TypeOK'
      <3>1. row' \in [Runs -> {"absent", "running", "ended", "failed", "recovering"}]
        BY <1>3 DEF TypeOK, BeginEmpty
      <3>2. QED
        BY <1>3, <2>1, <2>3, <2>4, <3>1 DEF TypeOK, BeginEmpty
    <2>6. TurnInv' /\ OneTurn'
      BY <1>0, <1>3, <2>2, <2>3, EntersKeeps DEF BeginEmpty
    <2>7. QueueInv'
      BY <1>3, <2>1, <2>3, QueueTaken DEF BeginEmpty
    <2>8. SlotInv'
      BY <1>3, <2>2, <2>3, SlotKept DEF BeginEmpty
    <2>9. LogInv'
      BY <1>0, <2>2, <2>3, EntersFacts, LogEmits
    <2>10. QED
      BY <2>5, <2>6, <2>7, <2>8, <2>9
  <1>4. CASE Fail(r) \/ Finish(r)
    <2>1. turn[r].phase \in Begun
      BY <1>4 DEF Fail, Finish, TurnAt, Begun
    <2>2. turn[r].phase \in InProgress /\ turn[r].phase # "queued"
      BY <2>1 DEF InProgress, Begun
    <2>3. PICK kind \in Outcomes : Emit(s, r, kind)
      BY <1>4 DEF Fail, Finish, Outcomes
    <2>4. /\ Enters(r, "returning") /\ turn' \in [Runs -> Turns] /\ "returning" \in Alive
          /\ turn'[r].phase = "returning"
      BY <1>4, EntersFacts DEF Fail, Finish, Alive
    <2>5. log' \in [Sessions -> Seq(Events)] /\ \A t \in Sessions : gone[t] <= Len(log'[t])
      BY <1>0, <2>2, <2>3, EmitFacts
    <2>6. SlotInv' /\ free' \in 0..Slots
      BY <1>4, <2>1, <2>4, SlotGiven DEF Fail, Finish
    <2>7. row' \in [Runs -> {"absent", "running", "ended", "failed", "recovering"}]
      BY <1>4 DEF TypeOK, Fail, Finish, SetRow
    <2>8. TypeOK'
      BY <1>4, <2>4, <2>5, <2>6, <2>7 DEF TypeOK, Fail, Finish
    <2>9. TurnInv' /\ OneTurn'
      BY <1>0, <1>4, <2>2, <2>4, EntersKeeps DEF Fail, Finish
    <2>10. QueueInv'
      BY <1>4, <2>2, <2>4, QueueKept DEF Fail, Finish
    <2>11. LogInv'
      BY <1>0, <2>2, <2>3, <2>4, EntersFacts, LogEmits
    <2>12. QED
      BY <2>6, <2>8, <2>9, <2>10, <2>11
  <1>5. CASE Answer(r)
    <2>1. turn[r].phase \in InProgress /\ turn[r].phase # "queued" /\ turn[r].phase \in Begun
      BY <1>5 DEF Answer, TurnAt, InProgress, Begun
    <2>2. /\ Enters(r, "compacting") /\ turn' \in [Runs -> Turns] /\ "compacting" \in Alive
          /\ "compacting" \in Begun /\ "compacting" \in InProgress
      BY <1>5, EntersFacts DEF Answer, Alive, InProgress, Begun
    <2>3. TypeOK'
      BY <1>5, <2>2 DEF TypeOK, Answer, rows
    <2>4. TurnInv' /\ OneTurn'
      BY <1>0, <1>5, <2>1, <2>2, EntersKeeps DEF Answer, rows
    <2>5. QueueInv'
      BY <1>5, <2>1, <2>2, QueueKept DEF Answer
    <2>6. SlotInv'
      BY <1>5, <2>1, <2>2, SlotKept DEF Answer
    <2>7. LogInv'
      BY <1>5, <2>2, EntersKeepsLog DEF Answer, TurnAt, rows
    <2>8. QED
      BY <2>3, <2>4, <2>5, <2>6, <2>7
  <1>6. CASE FinishTask(r)
    <2>1. turn[r].phase = "returning" /\ turn[r].phase \in Alive
      BY <1>6 DEF FinishTask, TurnAt, Alive
    <2>2. Enters(r, "over") /\ turn' \in [Runs -> Turns] /\ turn'[r].phase = "over"
      BY <1>6, EntersFacts DEF FinishTask
    <2>3. TypeOK'
      BY <1>6, <2>2 DEF TypeOK, FinishTask, rows
    <2>4. TurnInv' /\ OneTurn'
      BY <1>6, <2>1, <2>2, EntersKeeps DEF FinishTask, rows
    <2>5. QueueInv'
      BY <1>6, <2>1, <2>2, QueueKept DEF FinishTask
    <2>6. SlotInv'
      <3>1. "returning" \notin Begun /\ "over" \notin Begun
        BY DEF Begun
      <3>2. QED
        BY <1>6, <2>1, <2>2, <3>1, SlotKept DEF FinishTask
    <2>7. LogInv'
      BY <1>6, <2>1, <2>2, EntersKeepsLog DEF FinishTask, rows
    <2>8. QED
      BY <2>3, <2>4, <2>5, <2>6, <2>7
  <1>7. QED
    BY <1>1, <1>2, <1>3, <1>4, <1>5, <1>6 DEF RunStep

(* A death ends every task, a start adds events that say no outcome.       *)
LEMMA CrashKeeps ==
  ASSUME QInv, Crash
  PROVE  QInv'
  <1> USE DEF QInv
  <1>1. ASSUME NEW r \in Runs
        PROVE  /\ turn'[r] \in Turns /\ turn'[r].session = turn[r].session
               /\ turn'[r].phase = IF turn[r].phase = "none" THEN "none" ELSE "over"
    BY DEF Crash, TypeOK, Turns
  <1>2. turn' \in [Runs -> Turns]
    BY <1>1 DEF Crash
  <1>3. TypeOK'
    <2>1. free' \in 0..Slots /\ crashes' \in 0..MaxCrashes /\ queue' \in Seq(Runs)
      BY QueueAssumption DEF TypeOK, Crash
    <2>2. QED
      BY <1>2, <2>1 DEF TypeOK, Crash, rows
  <1>4. TurnInv' /\ OneTurn'
    BY <1>1 DEF TurnInv, OneTurn, SessionOf, Crash, rows, Alive, InProgress, Begun
  <1>5. QueueInv'
    BY DEF QueueInv, Crash
  <1>6. SlotInv'
    <2>1. Working' = {}
      BY <1>1 DEF Working, Begun
    <2>2. QED
      BY <2>1, FS_EmptySet, QueueAssumption DEF SlotInv, Crash
  <1>7. LogInv'
    <2>1. \A q \in Runs : SessionOf(q) \in Sessions => turn[q].phase # "none"
      BY QueueAssumption DEF TurnInv
    <2>2. \A q \in Runs : turn'[q].session = turn[q].session
      BY <1>1
    <2>3. \A q \in Runs : turn[q].phase \in {"returning", "over"}
            => turn'[q].phase \in {"returning", "over"}
      BY <1>1
    <2>4. log' = log
      BY DEF Crash, rows
    <2>5. QED
      BY <2>1, <2>2, <2>3, <2>4, LogKept
  <1>8. QED
    BY <1>3, <1>4, <1>5, <1>6, <1>7

LEMMA RestartKeeps ==
  ASSUME QInv, Restart
  PROVE  QInv'
  <1> USE DEF QInv
  <1>1. UNCHANGED <<session, asked, gone, turn, active, queue, free, caught, crashes>> /\ up' = TRUE
    BY DEF Restart, tasks
  <1>2. row' \in [Runs -> {"absent", "running", "ended", "failed", "recovering"}]
    BY DEF Restart, TypeOK
  <1>3. gone' \in [Sessions -> Nat] /\ \A s \in Sessions : gone'[s] <= Len(log'[s])
    BY <1>1, RestartFacts DEF TypeOK
  <1>4. TypeOK'
    BY <1>1, <1>2, <1>3, RestartFacts DEF TypeOK
  <1>5. TurnInv' /\ OneTurn' /\ QueueInv'
    BY <1>1 DEF TurnInv, OneTurn, QueueInv, SessionOf
  <1>6. SlotInv'
    BY <1>1 DEF SlotInv, Working
  <1>7. LogInv'
    <2> SUFFICES ASSUME NEW s \in Sessions, NEW i \in 1..Len(log'[s])
                 PROVE  /\ turn[log'[s][i].run].session = s
                        /\ log'[s][i].kind \in Outcomes
                             => turn[log'[s][i].run].phase \in {"returning", "over"}
      BY <1>1 DEF LogInv, SessionOf
    <2>1. CASE i \in 1..Len(log[s])
      BY <2>1, RestartFacts DEF LogInv, SessionOf
    <2>2. CASE i \notin 1..Len(log[s])
      <3>1. i \in Len(log[s]) + 1 .. Len(log'[s])
        BY <2>2, RestartFacts
      <3>2. log'[s][i].kind = "recovering" /\ log'[s][i].run \in RunsOf(s)
        BY <3>1, RestartFacts
      <3>3. QED
        BY <3>2 DEF RunsOf, SessionOf, Outcomes
    <2>3. QED
      BY <2>1, <2>2
  <1>8. QED
    BY <1>4, <1>5, <1>6, <1>7

LEMMA QStep ==
  ASSUME QInv, [Next]_qvars
  PROVE  QInv'
  <1>1. ASSUME UNCHANGED qvars PROVE QInv'
    <2>1. TypeOK' /\ TurnInv'
      BY <1>1 DEF QInv, qvars, rows, tasks, TypeOK, TurnInv, SessionOf
    <2>2. QED
      BY <1>1, <2>1, TasksKept DEF QInv, qvars, rows, tasks
  <1>2. QED
    BY <1>1, SessionKeeps, SubmitKeeps, RunKeeps, CrashKeeps, RestartKeeps DEF Next

(* In every state slots, tasks, rows and events fit together.              *)
THEOREM QueueInvariance == Spec => []QInv
  BY InitQInv, QStep, PTL DEF Spec

-----------------------------------------------------------------------------
(* The promise.  What a client is told of a run, as the abstract           *)
(* specification sees it.                                                  *)
OutcomeBar == [r \in Runs |-> OutcomeOf(r)]

(* As long as no outcome of a run is added, what was told stays.           *)
LEMMA OutcomeSame ==
  ASSUME TypeOK, NEW r \in Runs, turn'[r].session = turn[r].session,
         \A s \in Sessions :
           /\ Len(log[s]) \in Nat /\ Len(log'[s]) \in Nat /\ Len(log[s]) <= Len(log'[s])
           /\ \A i \in 1..Len(log[s]) : log'[s][i] = log[s][i]
           /\ \A i \in Len(log[s]) + 1 .. Len(log'[s]) :
                ~(log'[s][i].run = r /\ log'[s][i].kind \in Outcomes)
  PROVE  OutcomeOf(r)' = OutcomeOf(r)
  <1> DEFINE s == turn[r].session
             told == {i \in 1..Len(log[s]) : log[s][i].run = r /\ log[s][i].kind \in Outcomes}
             toldNow == {i \in 1..Len(log'[s]) : log'[s][i].run = r /\ log'[s][i].kind \in Outcomes}
  <1>1. CASE s = NoSession
    BY <1>1 DEF OutcomeOf, SessionOf
  <1>2. CASE s # NoSession
    <2>1. s \in Sessions
      BY <1>2 DEF TypeOK, Turns
    <2>2. told = toldNow
      <3>1. \A i \in 1..Len(log'[s]) : i \in 1..Len(log[s]) \/ i \in Len(log[s]) + 1 .. Len(log'[s])
        BY <2>1
      <3>2. \A i \in 1..Len(log[s]) : i \in 1..Len(log'[s])
        BY <2>1
      <3>3. QED
        BY <2>1, <3>1, <3>2
    <2>3. \A i \in told : log'[s][i] = log[s][i]
      BY <2>1
    <2>4. OutcomeOf(r) = {[at |-> i, kind |-> log[s][i].kind] : i \in told}
      BY <1>2 DEF OutcomeOf, SessionOf
    <2>5. OutcomeOf(r)' = {[at |-> i, kind |-> log'[s][i].kind] : i \in toldNow}
      BY <1>2 DEF OutcomeOf, SessionOf
    <2> HIDE DEF told, toldNow
    <2>6. QED
      BY <2>2, <2>3, <2>4, <2>5
  <1>3. QED
    BY <1>1, <1>2

(* Nothing is told of a run that is not submitted or still in progress.    *)
LEMMA Untold ==
  ASSUME QInv, NEW r \in Runs, turn[r].phase \in {"none"} \cup InProgress
  PROVE  OutcomeOf(r) = {}
  <1> DEFINE s == SessionOf(r)
  <1>1. CASE s = NoSession
    BY <1>1 DEF OutcomeOf
  <1>2. CASE s # NoSession
    <2>1. s \in Sessions
      BY <1>2 DEF QInv, TypeOK, Turns, SessionOf
    <2>2. \A i \in 1..Len(log[s]) : log[s][i].kind \in Outcomes => log[s][i].run # r
      BY <2>1 DEF QInv, LogInv, InProgress, Begun
    <2>3. QED
      BY <1>2, <2>2 DEF OutcomeOf
  <1>3. QED
    BY <1>1, <1>2

(* A task that ends with an outcome settles what is owed.                  *)
LEMMA Settles ==
  ASSUME QInv, NEW r \in Runs, turn[r].phase \in InProgress, NEW kind \in Outcomes,
         Emit(SessionOf(r), r, kind), Enters(r, "returning"), session' = session
  PROVE  Promise!Next
  <1> DEFINE s == SessionOf(r)
             n == Len(log[s])
             e == [at |-> n + 1, kind |-> kind]
  <1>0. TypeOK /\ TurnInv /\ LogInv /\ turn[r].phase # "none"
    BY DEF QInv, InProgress, Begun
  <1>1. s \in Sessions /\ s # NoSession
    BY <1>0, HasSession, QueueAssumption
  <1>2. /\ \A t \in Sessions : t # s => log'[t] = log[t]
        /\ n \in Nat /\ Len(log'[s]) = n + 1
        /\ \A i \in 1..n : log'[s][i] = log[s][i]
        /\ log'[s][n + 1].run = r /\ log'[s][n + 1].kind = kind
    <2>1. kind \in {"run_started", "recovering", "decided"} \cup Outcomes
      OBVIOUS
    <2>2. QED
      BY <1>0, <1>1, <2>1, EmitFacts
  <1>3. /\ turn'[r].phase = "returning"
        /\ \A q \in Runs : turn'[q].session = turn[q].session
        /\ \A q \in Runs : q # r => turn'[q] = turn[q]
    BY <1>0, EntersFacts
  <1>4. OutcomeOf(r) = {}
    BY Untold
  <1>5. OutcomeOf(r)' = {e}
    <2>1. \A i \in 1..n : ~(log'[s][i].run = r /\ log'[s][i].kind \in Outcomes)
      BY <1>0, <1>1, <1>2 DEF LogInv, InProgress, Begun
    <2>2. {i \in 1..Len(log'[s]) : log'[s][i].run = r /\ log'[s][i].kind \in Outcomes} = {n + 1}
      <3>1. \A i \in 1..Len(log'[s]) : i \in 1..n \/ i = n + 1
        BY <1>2
      <3>2. n + 1 \in 1..Len(log'[s])
        BY <1>2
      <3>3. QED
        BY <1>2, <2>1, <3>1, <3>2
    <2>3. turn'[r].session = s
      BY <1>3 DEF SessionOf
    <2> HIDE DEF s, n
    <2>4. QED
      BY <1>1, <1>2, <2>2, <2>3 DEF OutcomeOf, SessionOf
  <1>6. ASSUME NEW q \in Runs, q # r PROVE OutcomeOf(q)' = OutcomeOf(q)
    <2>1. ASSUME NEW t \in Sessions
          PROVE  /\ Len(log[t]) \in Nat /\ Len(log'[t]) \in Nat /\ Len(log[t]) <= Len(log'[t])
                 /\ \A i \in 1..Len(log[t]) : log'[t][i] = log[t][i]
                 /\ \A i \in Len(log[t]) + 1 .. Len(log'[t]) :
                      ~(log'[t][i].run = q /\ log'[t][i].kind \in Outcomes)
      <3>1. CASE t = s
        <4>1. \A i \in Len(log[t]) + 1 .. Len(log'[t]) : i = n + 1
          BY <1>2, <3>1
        <4>2. QED
          BY <1>2, <1>6, <3>1, <4>1
      <3>2. CASE t # s
        <4>1. log'[t] = log[t] /\ Len(log[t]) \in Nat
          BY <1>0, <1>2, <3>2 DEF TypeOK
        <4>2. \A i \in Len(log[t]) + 1 .. Len(log'[t]) : FALSE
          BY <4>1
        <4>3. QED
          BY <4>1, <4>2
      <3>3. QED
        BY <3>1, <3>2
    <2>2. QED
      BY <1>0, <1>3, <2>1, OutcomeSame
  <1>7. OutcomeBar' = [OutcomeBar EXCEPT ![r] = {e}] /\ OutcomeBar'[r] = {e}
    BY <1>5, <1>6 DEF OutcomeBar
  <1>8. Owed' = [Owed EXCEPT ![s] = @ \ {r}] /\ r \in Owed[s]
    <2>1. r \in Owed[s]
      BY <1>1 DEF Owed, RunsOf
    <2>2. \A t \in Sessions : Owed'[t] = IF t = s THEN Owed[s] \ {r} ELSE Owed[t]
      BY <1>1, <1>3 DEF Owed, RunsOf, SessionOf, InProgress, Begun
    <2>3. QED
      BY <1>1, <2>1, <2>2 DEF Owed
  <1>9. Accepted' = Accepted /\ Existing' = Existing
    BY <1>0, <1>3 DEF Accepted, Existing
  <1>10. Promise!Settle(s, r)
    <2>1. e.kind \in {"done", "error"}
      BY DEF Outcomes
    <2> HIDE DEF e
    <2>2. QED
      BY <1>4, <1>7, <1>8, <1>9, <2>1 DEF Promise!Settle, OutcomeBar
  <1>11. QED
    BY <1>1, <1>10 DEF Promise!Next

(* What the promise does not see.                                          *)
LEMMA Unnoticed ==
  ASSUME \A r \in Runs : /\ turn'[r].session = turn[r].session
                         /\ turn[r].phase = "none" <=> turn'[r].phase = "none"
                         /\ turn[r].phase \in InProgress <=> turn'[r].phase \in InProgress
                         /\ OutcomeOf(r)' = OutcomeOf(r)
  PROVE  Owed' = Owed /\ Accepted' = Accepted /\ OutcomeBar' = OutcomeBar
  BY DEF Owed, Accepted, OutcomeBar, RunsOf, SessionOf

(* An event that is no outcome tells nothing.                              *)
LEMMA EmitTellsNothing ==
  ASSUME TypeOK, NEW r \in Runs, SessionOf(r) \in Sessions,
         NEW kind \in {"run_started", "recovering", "decided"}, Emit(SessionOf(r), r, kind),
         \A q \in Runs : turn'[q].session = turn[q].session
  PROVE  \A q \in Runs : OutcomeOf(q)' = OutcomeOf(q)
  <1> DEFINE s == SessionOf(r)
             n == Len(log[s])
  <1>1. kind \in {"run_started", "recovering", "decided"} \cup Outcomes /\ kind \notin Outcomes
    BY DEF Outcomes
  <1>2. /\ \A t \in Sessions : t # s => log'[t] = log[t]
        /\ n \in Nat /\ Len(log'[s]) = n + 1
        /\ \A i \in 1..n : log'[s][i] = log[s][i]
        /\ log'[s][n + 1].kind = kind
    BY <1>1, EmitFacts
  <1>3. ASSUME NEW t \in Sessions
        PROVE  /\ Len(log[t]) \in Nat /\ Len(log'[t]) \in Nat /\ Len(log[t]) <= Len(log'[t])
               /\ \A i \in 1..Len(log[t]) : log'[t][i] = log[t][i]
               /\ \A i \in Len(log[t]) + 1 .. Len(log'[t]) : log'[t][i].kind \notin Outcomes
    <2>1. CASE t = s
      <3>1. \A i \in Len(log[t]) + 1 .. Len(log'[t]) : i = n + 1
        BY <1>2, <2>1
      <3>2. QED
        BY <1>1, <1>2, <2>1, <3>1
    <2>2. CASE t # s
      <3>1. log'[t] = log[t] /\ Len(log[t]) \in Nat
        BY <1>2, <2>2 DEF TypeOK
      <3>2. \A i \in Len(log[t]) + 1 .. Len(log'[t]) : FALSE
        BY <3>1
      <3>3. QED
        BY <3>1, <3>2
    <2>3. QED
      BY <2>1, <2>2
  <1>4. QED
    BY <1>3, OutcomeSame

LEMMA SameEventsTellTheSame ==
  ASSUME log' = log, \A r \in Runs : turn'[r].session = turn[r].session
  PROVE  \A r \in Runs : OutcomeOf(r)' = OutcomeOf(r)
  BY DEF OutcomeOf, SessionOf

(* Every step of the queue is one of the promise, or not seen by it.       *)
PromiseStuttersOrSteps == Promise!Next \/ UNCHANGED <<Existing, Owed, Accepted, OutcomeBar>>

LEMMA SessionsPromised ==
  ASSUME QInv, NEW s \in Sessions, SessionStep(s)
  PROVE  PromiseStuttersOrSteps
  <1>1. UNCHANGED <<turn, log>>
    BY DEF SessionStep, CreateSession, DeleteSession, CleansUp, Cleanup, tasks
  <1>2. Owed' = Owed /\ Accepted' = Accepted /\ OutcomeBar' = OutcomeBar
    BY <1>1, SameEventsTellTheSame, Unnoticed
  <1>3. CASE CreateSession(s)
    <2>1. Existing' = Existing \cup {s}
      BY <1>3 DEF CreateSession, Existing, QInv, TypeOK
    <2>2. Promise!Open(s)
      BY <1>2, <2>1 DEF Promise!Open, OutcomeBar
    <2>3. QED
      BY <2>2 DEF Promise!Next, PromiseStuttersOrSteps
  <1>4. CASE DeleteSession(s)
    <2>1. Existing' = Existing \ {s}
      BY <1>4 DEF DeleteSession, Existing, QInv, TypeOK
    <2>2. Promise!Remove(s)
      BY <1>2, <2>1 DEF Promise!Remove, OutcomeBar
    <2>3. QED
      BY <2>2 DEF Promise!Next, PromiseStuttersOrSteps
  <1>5. CASE CleansUp(s)
    <2>1. Existing' = Existing
      BY <1>5 DEF CleansUp, Cleanup, Existing
    <2>2. QED
      BY <1>2, <2>1 DEF PromiseStuttersOrSteps
  <1>6. QED
    BY <1>3, <1>4, <1>5 DEF SessionStep

LEMMA SubmitPromised ==
  ASSUME QInv, QInv', NEW s \in Sessions, NEW r \in Runs, NEW retry \in BOOLEAN, Submit(s, r, retry)
  PROVE  PromiseStuttersOrSteps
  <1>1. /\ turn'[r].session = s /\ turn'[r].phase = "queued"
        /\ \A q \in Runs : q # r => turn'[q] = turn[q]
        /\ turn[r].phase = "none" /\ log' = log /\ session' = session
    BY DEF QInv, TypeOK, Submit, rows
  <1>2. turn'[r].phase \in InProgress /\ turn'[r].phase # "none"
    BY <1>1 DEF InProgress
  <1>3. s \in Existing /\ Existing' = Existing
    BY <1>1 DEF Submit, Submittable, Existing
  <1>4. Owed[s] = {}
    BY DEF Owed, RunsOf, SessionOf, QInv, TurnInv, Submit, Submittable, Alive
  <1>5. Owed' = [Owed EXCEPT ![s] = {r}]
    <2>1. \A t \in Sessions : Owed'[t] = IF t = s THEN {r} ELSE Owed[t]
      <3>1. turn[r].session = NoSession /\ NoSession \notin Sessions
        BY <1>1, QueueAssumption DEF QInv, TurnInv, SessionOf
      <3>2. QED
        BY <1>1, <1>2, <1>4, <3>1 DEF Owed, RunsOf, SessionOf
    <2>2. QED
      BY <2>1 DEF Owed
  <1>6. r \notin Accepted /\ Accepted' = Accepted \cup {r}
    BY <1>1, <1>2 DEF Accepted
  <1>7. OutcomeBar' = OutcomeBar
    <2>1. OutcomeOf(r) = {}
      BY <1>1, Untold
    <2>2. OutcomeOf(r)' = {}
      <3>1. \A i \in 1..Len(log'[s]) : log'[s][i].kind \in Outcomes => log'[s][i].run # r
        BY <1>1 DEF QInv, LogInv
      <3>2. QED
        BY <1>1, <3>1 DEF OutcomeOf, SessionOf
    <2>3. \A q \in Runs : q # r => OutcomeOf(q)' = OutcomeOf(q)
      BY <1>1 DEF OutcomeOf, SessionOf
    <2>4. QED
      BY <2>1, <2>2, <2>3 DEF OutcomeBar
  <1>8. Promise!Accept(s, r)
    BY <1>3, <1>4, <1>5, <1>6, <1>7 DEF Promise!Accept, OutcomeBar
  <1>9. QED
    BY <1>8 DEF Promise!Next, PromiseStuttersOrSteps

LEMMA RunPromised ==
  ASSUME QInv, NEW r \in Runs, RunStep(r)
  PROVE  PromiseStuttersOrSteps
  <1> DEFINE s == SessionOf(r)
  <1>0. TypeOK /\ TurnInv /\ QueueInv
    BY DEF QInv
  <1>1. CASE Begin(r)
    <2>1. turn[r].phase = "queued" /\ s \in Sessions /\ "agent" \in InProgress
      BY <1>0, <1>1, HeadFacts, HasSession DEF Begin, CanBegin, InProgress, Begun
    <2>2. /\ turn'[r].phase = "agent" /\ \A q \in Runs : turn'[q].session = turn[q].session
          /\ \A q \in Runs : q # r => turn'[q] = turn[q]
      BY <1>0, <1>1, <2>1, EntersFacts DEF Begin
    <2>3. \A q \in Runs : OutcomeOf(q)' = OutcomeOf(q)
      BY <1>0, <1>1, <2>1, <2>2, EmitTellsNothing DEF Begin
    <2>4. Owed' = Owed /\ Accepted' = Accepted /\ OutcomeBar' = OutcomeBar
      BY <2>1, <2>2, <2>3, Unnoticed DEF InProgress
    <2>5. QED
      BY <1>1, <2>4 DEF Begin, Existing, PromiseStuttersOrSteps
  <1>2. CASE BeginDeleted(r)
    <2>1. turn[r].phase = "queued" /\ s \in Sessions
      BY <1>0, <1>2, HeadFacts, HasSession DEF BeginDeleted
    <2>2. /\ turn'[r].phase = "returning" /\ \A q \in Runs : turn'[q].session = turn[q].session
          /\ \A q \in Runs : q # r => turn'[q] = turn[q]
      BY <1>0, <1>2, EntersFacts DEF BeginDeleted
    <2>3. \A q \in Runs : OutcomeOf(q)' = OutcomeOf(q)
      BY <1>2, <2>2, SameEventsTellTheSame DEF BeginDeleted, rows
    <2>4. OutcomeBar' = OutcomeBar
      BY <2>3 DEF OutcomeBar
    <2>5. Accepted' = Accepted /\ Existing' = Existing /\ s \notin Existing
      BY <1>2, <2>1, <2>2 DEF Accepted, Existing, BeginDeleted, rows
    <2>6. r \in Owed[s]
      BY <2>1 DEF Owed, RunsOf, InProgress
    <2>7. Owed' = [Owed EXCEPT ![s] = @ \ {r}]
      <3>1. \A t \in Sessions : Owed'[t] = IF t = s THEN Owed[s] \ {r} ELSE Owed[t]
        BY <2>1, <2>2 DEF Owed, RunsOf, SessionOf, InProgress, Begun
      <3>2. QED
        BY <3>1 DEF Owed
    <2>8. Promise!Drop(s, r)
      BY <2>4, <2>5, <2>6, <2>7 DEF Promise!Drop, OutcomeBar
    <2>9. QED
      BY <2>1, <2>8 DEF Promise!Next, PromiseStuttersOrSteps
  <1>3. CASE BeginEmpty(r)
    <2>1. turn[r].phase \in InProgress /\ "error" \in Outcomes
      BY <1>0, <1>3, HeadFacts DEF BeginEmpty, InProgress, Outcomes
    <2>2. QED
      BY <1>3, <2>1, Settles DEF BeginEmpty, PromiseStuttersOrSteps
  <1>4. CASE Fail(r) \/ Finish(r)
    <2>1. turn[r].phase \in InProgress
      BY <1>4 DEF Fail, Finish, TurnAt, InProgress, Begun
    <2>2. \E kind \in Outcomes : Emit(s, r, kind)
      BY <1>4 DEF Fail, Finish, Outcomes
    <2>3. QED
      BY <1>4, <2>1, <2>2, Settles DEF Fail, Finish, PromiseStuttersOrSteps
  <1>5. CASE Answer(r) \/ FinishTask(r)
    <2>1. PICK phase \in {"compacting", "over"} :
            Enters(r, phase) /\ (turn[r].phase \in InProgress <=> phase \in InProgress)
            /\ turn[r].phase # "none"
      BY <1>5 DEF Answer, FinishTask, TurnAt, InProgress, Begun
    <2>2. /\ turn'[r].phase = phase /\ \A q \in Runs : turn'[q].session = turn[q].session
          /\ \A q \in Runs : q # r => turn'[q] = turn[q]
      BY <1>0, <2>1, EntersFacts DEF InProgress, Begun
    <2>3. \A q \in Runs : OutcomeOf(q)' = OutcomeOf(q)
      BY <1>5, <2>2, SameEventsTellTheSame DEF Answer, FinishTask, rows
    <2>4. Owed' = Owed /\ Accepted' = Accepted /\ OutcomeBar' = OutcomeBar
      BY <2>1, <2>2, <2>3, Unnoticed
    <2>5. QED
      BY <1>5, <2>4 DEF Answer, FinishTask, rows, Existing, PromiseStuttersOrSteps
  <1>6. QED
    BY <1>1, <1>2, <1>3, <1>4, <1>5 DEF RunStep

LEMMA CrashPromised ==
  ASSUME QInv, Crash
  PROVE  PromiseStuttersOrSteps
  <1>1. \A r \in Runs : /\ turn'[r].session = turn[r].session
                        /\ turn'[r].phase = IF turn[r].phase = "none" THEN "none" ELSE "over"
    BY DEF Crash, QInv, TypeOK, Turns
  <1>2. OutcomeBar' = OutcomeBar
    BY <1>1, SameEventsTellTheSame DEF Crash, rows, OutcomeBar
  <1>3. Accepted' = Accepted /\ Existing' = Existing
    BY <1>1 DEF Accepted, Existing, Crash, rows
  <1>4. Owed' = [s \in Sessions |-> {}]
    <2>1. \A r \in Runs : turn'[r].phase \notin InProgress
      BY <1>1 DEF InProgress, Begun
    <2>2. \A s \in Sessions : {r \in RunsOf(s)' : turn'[r].phase \in InProgress} = {}
      BY <2>1 DEF RunsOf
    <2>3. QED
      BY <2>2 DEF Owed
  <1>5. Promise!Die
    BY <1>2, <1>3, <1>4 DEF Promise!Die, OutcomeBar
  <1>6. QED
    BY <1>5 DEF Promise!Next, PromiseStuttersOrSteps

LEMMA RestartPromised ==
  ASSUME QInv, Restart
  PROVE  PromiseStuttersOrSteps
  <1>1. UNCHANGED <<session, turn>>
    BY DEF Restart, tasks
  <1>2. \A r \in Runs : OutcomeOf(r)' = OutcomeOf(r)
    <2>1. "recovering" \notin Outcomes /\ TypeOK
      BY DEF Outcomes, QInv
    <2>2. QED
      BY <1>1, <2>1, RestartFacts, OutcomeSame
  <1>3. QED
    BY <1>1, <1>2, Unnoticed DEF Existing, PromiseStuttersOrSteps

LEMMA PromiseStep ==
  ASSUME QInv, QInv', [Next]_qvars
  PROVE  PromiseStuttersOrSteps
  <1>1. ASSUME UNCHANGED qvars PROVE PromiseStuttersOrSteps
    <2>1. UNCHANGED <<session, turn, log>>
      BY <1>1 DEF qvars, rows, tasks
    <2>2. QED
      BY <2>1, SameEventsTellTheSame, Unnoticed DEF Existing, PromiseStuttersOrSteps
  <1>2. QED
    BY <1>1, SessionsPromised, SubmitPromised, RunPromised, CrashPromised, RestartPromised DEF Next

LEMMA InitPromised == Init => Promise!Init
  <1> SUFFICES ASSUME Init PROVE Promise!Init
    OBVIOUS
  <1>1. \A r \in Runs : turn[r].phase = "none" /\ SessionOf(r) = NoSession
    BY DEF Init, SessionOf
  <1>2. Existing = {}
    BY DEF Init, Existing
  <1>3. Owed = [s \in Sessions |-> {}]
    <2>1. \A r \in Runs : turn[r].phase \notin InProgress
      BY <1>1 DEF InProgress, Begun
    <2>2. \A s \in Sessions : {r \in RunsOf(s) : turn[r].phase \in InProgress} = {}
      BY <2>1 DEF RunsOf
    <2>3. QED
      BY <2>2 DEF Owed
  <1>4. Accepted = {}
    BY <1>1 DEF Accepted
  <1>5. OutcomeBar = [r \in Runs |-> {}]
    BY <1>1 DEF OutcomeBar, OutcomeOf
  <1>6. QED
    BY <1>2, <1>3, <1>4, <1>5 DEF Promise!Init, OutcomeBar

-----------------------------------------------------------------------------
(* Every variable keeps its type; in particular the semaphore never has    *)
(* more slots than global_concurrency (agent/runtime.py run_turn).         *)
THEOREM TypeCorrect == Spec => []TypeOK
  BY QueueInvariance, PTL DEF QInv

(* No slot is lost or made up, whichever way a turn begins, fails, ends or *)
(* dies with the server: the free ones and the running turns are as many   *)
(* as global_concurrency (agent/runtime.py run_turn).                      *)
THEOREM SlotsAreConserved == Spec => []SlotInv
  BY QueueInvariance, PTL DEF QInv

(* A session has one task alive at a time, from the submission to the      *)
(* callback that gives it back (agent/service.py submit, _finish_task).    *)
THEOREM OneTurnPerSession == Spec => []OneTurn
  BY QueueInvariance, PTL DEF QInv

(* The queue keeps the promise of the 202 answer, step by step: for any    *)
(* number of sessions, slots, submissions and deaths the events tell the   *)
(* outcome of an accepted run at most once, and nothing but a death or the *)
(* deletion of its session drops it.                                       *)
THEOREM QueueKeepsPromise == Spec => ImplementsPromise
  <1>1. QInv /\ QInv' /\ [Next]_qvars => [Promise!Next]_(Promise!pvars)
    BY PromiseStep DEF PromiseStuttersOrSteps, Promise!pvars, OutcomeBar
  <1>2. QED
    BY InitPromised, <1>1, QueueInvariance, PTL DEF Spec, ImplementsPromise, Promise!Spec

-----------------------------------------------------------------------------
(***************************************************************************)
(* EventStream: TurnQueue and a page that follows the events of a run.     *)
(***************************************************************************)

(* Only a run that was submitted has a row.                                *)
RowInv == \A r \in Runs : row[r] # "absent" => turn[r].phase # "none"

StreamInv == QInv /\ RowInv

-----------------------------------------------------------------------------
(* A step of the composition is one of the queue, or decides a card.       *)
LEMMA StreamSteps ==
  ASSUME [StreamNext]_svars
  PROVE  [Next]_qvars \/ \E r \in Runs : DecideCard(r)
  <1>1. CASE ServerStep
    <2>1. CASE Unseen
      BY <2>1 DEF Unseen, Next, SessionStep
    <2>2. ASSUME NEW s \in Sessions, NEW r \in Runs, NEW retry \in BOOLEAN, SubmitFollowed(s, r, retry)
          PROVE  Next
      BY <2>2 DEF SubmitFollowed, Next
    <2>3. CASE CrashCuts
      BY <2>3 DEF CrashCuts, Next
    <2>4. ASSUME NEW s \in Sessions, CleanupBehind(s) PROVE Next
      BY <2>4 DEF CleanupBehind, Next, SessionStep
    <2>5. QED
      BY <1>1, <2>1, <2>2, <2>3, <2>4 DEF ServerStep
  <1>2. CASE PageStep \/ Break
    BY <1>2 DEF PageStep, Connect, Send, Hear, Break
  <1>3. CASE UNCHANGED svars
    BY <1>3 DEF svars
  <1>4. QED
    BY <1>1, <1>2, <1>3 DEF StreamNext

LEMMA DecisionKeeps ==
  ASSUME QInv, NEW r \in Runs, SessionOf(r) \in Sessions, DecideCard(r)
  PROVE  QInv' /\ PromiseStuttersOrSteps
  <1> USE DEF QInv
  <1>0. /\ Emit(SessionOf(r), r, "decided") /\ "decided" \notin Outcomes
        /\ UNCHANGED <<session, asked, row, gone, up, tasks, caught, crashes>>
    BY DEF DecideCard, Outcomes
  <1>1. turn[r].phase # "none"
    BY QueueAssumption DEF TurnInv
  <1>2. log' \in [Sessions -> Seq(Events)] /\ \A t \in Sessions : gone[t] <= Len(log'[t])
    BY <1>0, EmitFacts
  <1>3. TypeOK'
    BY <1>0, <1>2 DEF TypeOK, tasks
  <1>4. TurnInv' /\ OneTurn' /\ QueueInv'
    BY <1>0 DEF TurnInv, OneTurn, QueueInv, SessionOf, tasks
  <1>5. SlotInv'
    BY <1>0 DEF SlotInv, Working, tasks
  <1>6. LogInv'
    BY <1>0, <1>1, LogEmits DEF tasks
  <1>7. \A q \in Runs : OutcomeOf(q)' = OutcomeOf(q)
    BY <1>0, EmitTellsNothing DEF tasks
  <1>8. PromiseStuttersOrSteps
    BY <1>0, <1>7, Unnoticed DEF tasks, Existing, PromiseStuttersOrSteps
  <1>9. QED
    BY <1>3, <1>4, <1>5, <1>6, <1>8

LEMMA RowStep ==
  ASSUME StreamInv, [Next]_qvars
  PROVE  RowInv'
  <1> USE DEF StreamInv, QInv, RowInv
  <1>1. ASSUME NEW s \in Sessions, SessionStep(s) PROVE RowInv'
    BY <1>1 DEF SessionStep, CreateSession, DeleteSession, CleansUp, Cleanup, tasks
  <1>2. ASSUME NEW s \in Sessions, NEW r \in Runs, NEW retry \in BOOLEAN, Submit(s, r, retry)
        PROVE  RowInv'
    BY <1>2 DEF Submit, rows, TypeOK
  <1>3. ASSUME NEW r \in Runs, RunStep(r) PROVE RowInv'
    <2>1. PICK phase \in {"returning", "over"} \cup InProgress : Enters(r, phase) /\ phase # "none"
      BY <1>3 DEF RunStep, Begin, BeginDeleted, BeginEmpty, Fail, Answer, Finish, FinishTask,
                  InProgress, Begun
    <2>2. turn'[r].phase # "none" /\ \A q \in Runs : q # r => turn'[q] = turn[q]
      BY <2>1, EntersFacts
    <2>3. \A q \in Runs : q # r => row'[q] = row[q]
      BY <1>3 DEF RunStep, Begin, BeginDeleted, BeginEmpty, Fail, Answer, Finish, FinishTask, SetRow,
                  rows, TypeOK
    <2>4. QED
      BY <2>2, <2>3
  <1>4. CASE Crash
    BY <1>4 DEF Crash, rows, TypeOK, Turns
  <1>5. CASE Restart
    BY <1>5 DEF Restart, tasks, TypeOK
  <1>6. CASE UNCHANGED qvars
    BY <1>6 DEF qvars, rows, tasks
  <1>7. QED
    BY <1>1, <1>2, <1>3, <1>4, <1>5, <1>6 DEF Next

LEMMA StreamStep ==
  ASSUME StreamInv, [StreamNext]_svars
  PROVE  StreamInv' /\ PromiseStuttersOrSteps
  <1>1. CASE [Next]_qvars
    BY <1>1, QStep, RowStep, PromiseStep DEF StreamInv
  <1>2. ASSUME NEW r \in Runs, DecideCard(r) PROVE StreamInv' /\ PromiseStuttersOrSteps
    <2>1. TypeOK /\ TurnInv /\ turn[r].phase # "none"
      BY <1>2 DEF DecideCard, StreamInv, QInv, RowInv
    <2>2. SessionOf(r) \in Sessions
      BY <2>1, HasSession
    <2>3. RowInv'
      BY <1>2 DEF DecideCard, tasks, StreamInv, RowInv
    <2>4. QED
      BY <1>2, <2>2, <2>3, DecisionKeeps DEF StreamInv
  <1>3. QED
    BY <1>1, <1>2, StreamSteps

LEMMA InitStream == StreamInit => StreamInv /\ Promise!Init
  <1> SUFFICES ASSUME StreamInit PROVE StreamInv /\ Promise!Init
    OBVIOUS
  <1>1. QInv /\ Promise!Init
    BY InitQInv, InitPromised DEF StreamInit
  <1>2. RowInv
    BY DEF StreamInit, Init, RowInv
  <1>3. QED
    BY <1>1, <1>2 DEF StreamInv

(* The queue's invariant holds beside the page and the decisions, too.     *)
THEOREM StreamInvariance == StreamSpec => []StreamInv
  BY InitStream, StreamStep, PTL DEF StreamSpec

-----------------------------------------------------------------------------
(* Also beside a page that follows the events, and with cards decided in   *)
(* between, the server keeps what it promised for the 202 answer           *)
(* (agent/service.py submit, agent/runtime.py run_turn, decide_action).    *)
THEOREM StreamKeepsPromise == StreamSpec => ImplementsPromise
  <1>1. StreamInv /\ [StreamNext]_svars => [Promise!Next]_(Promise!pvars)
    BY StreamStep DEF PromiseStuttersOrSteps, Promise!pvars, OutcomeBar
  <1>2. QED
    BY InitStream, <1>1, StreamInvariance, PTL DEF StreamSpec, ImplementsPromise, Promise!Spec
-----------------------------------------------------------------------------
(* What the page has to hear of its run.                                   *)
Telling == Outcomes \cup {"run_started"}

(* A run that began has left the queue, an outcome is the last that a run  *)
(* tells, and while nobody died an ended run of a live session has told.   *)
StoryInv ==
  /\ \A s \in Sessions : \A i \in 1..Len(log[s]) :
       /\ log[s][i].kind = "run_started" => turn[log[s][i].run].phase # "queued"
       /\ log[s][i].kind \in Outcomes =>
            \A j \in 1..Len(log[s]) :
              log[s][j].run = log[s][i].run /\ log[s][j].kind \in Telling => j <= i
  /\ \A r \in Runs :
       turn[r].phase \in {"returning", "over"} /\ SessionOf(r) \notin Gone /\ crashes = 0 =>
         \E i \in 1..Len(log[SessionOf(r)]) :
           log[SessionOf(r)][i].run = r /\ log[SessionOf(r)][i].kind \in Outcomes

(* What every step does to the tasks and to the events.                    *)
TurnsGoOn ==
  \A q \in Runs :
    IF turn[q].phase = "none" THEN turn'[q].phase \in {"none", "queued"} ELSE
    /\ turn'[q].session = turn[q].session /\ turn'[q].phase # "none"
    /\ turn[q].phase = "over" => turn'[q].phase = "over"
    /\ turn[q].phase \in {"returning", "over"} => turn'[q].phase \in {"returning", "over"}
    /\ turn[q].phase # "queued" => turn'[q].phase # "queued"

LogGoesOn ==
  \A s \in Sessions :
    /\ Len(log[s]) \in Nat /\ Len(log'[s]) \in Nat /\ Len(log[s]) <= Len(log'[s])
    /\ \A i \in 1..Len(log[s]) : log'[s][i] = log[s][i]
    /\ \A i \in 1..Len(log'[s]) : i > Len(log[s]) /\ log'[s][i].kind \in Telling =>
         /\ i = Len(log[s]) + 1
         /\ log'[s][i].run \in Runs /\ SessionOf(log'[s][i].run) = s
         /\ turn[log'[s][i].run].phase \in InProgress
         /\ log'[s][i].kind = "run_started" => turn'[log'[s][i].run].phase # "queued"

EndsTell ==
  \A q \in Runs : turn'[q].phase \in {"returning", "over"} /\ crashes' = 0 =>
    \/ turn[q].phase \in {"returning", "over"}
    \/ session'[SessionOf(q)] = "deleted"
    \/ SessionOf(q) \in Sessions /\ \E i \in 1..Len(log'[SessionOf(q)]) :
         log'[SessionOf(q)][i].run = q /\ log'[SessionOf(q)][i].kind \in Outcomes

(* Nothing comes back: neither a deleted session nor a death is undone.    *)
NothingReturns == Gone \subseteq Gone' /\ crashes <= crashes' /\ crashes \in Nat /\ crashes' \in Nat

GoesOn == TurnsGoOn /\ LogGoesOn /\ EndsTell /\ NothingReturns

-----------------------------------------------------------------------------
LEMMA LogStays ==
  ASSUME TypeOK, log' = log
  PROVE  LogGoesOn
  <1>1. \A s \in Sessions : Len(log[s]) \in Nat
    BY DEF TypeOK
  <1>2. QED
    BY <1>1 DEF LogGoesOn

LEMMA EmitGoesOn ==
  ASSUME TypeOK, NEW r \in Runs, SessionOf(r) \in Sessions,
         NEW kind \in {"run_started", "recovering", "decided"} \cup Outcomes,
         Emit(SessionOf(r), r, kind),
         kind \in Telling => turn[r].phase \in InProgress,
         kind = "run_started" => turn'[r].phase # "queued"
  PROVE  /\ LogGoesOn
         /\ Len(log'[SessionOf(r)]) \in 1..Len(log'[SessionOf(r)])
         /\ log'[SessionOf(r)][Len(log'[SessionOf(r)])].run = r
         /\ log'[SessionOf(r)][Len(log'[SessionOf(r)])].kind = kind
  <1> DEFINE s == SessionOf(r)
             n == Len(log[s])
  <1>1. /\ \A t \in Sessions : t # s => log'[t] = log[t]
        /\ n \in Nat /\ Len(log'[s]) = n + 1
        /\ \A i \in 1..n : log'[s][i] = log[s][i]
        /\ log'[s][n + 1].run = r /\ log'[s][n + 1].kind = kind
    BY EmitFacts
  <1>2. \A t \in Sessions : Len(log[t]) \in Nat
    BY DEF TypeOK
  <1>3. ASSUME NEW t \in Sessions
        PROVE  /\ Len(log[t]) \in Nat /\ Len(log'[t]) \in Nat /\ Len(log[t]) <= Len(log'[t])
               /\ \A i \in 1..Len(log[t]) : log'[t][i] = log[t][i]
               /\ \A i \in 1..Len(log'[t]) : i > Len(log[t]) =>
                    t = s /\ i = n + 1 /\ log'[t][i].run = r /\ log'[t][i].kind = kind
    <2>1. CASE t = s
      <3>1. \A i \in 1..Len(log'[t]) : i > Len(log[t]) => i = n + 1
        BY <1>1, <2>1
      <3>2. QED
        BY <1>1, <2>1, <3>1
    <2>2. CASE t # s
      BY <1>1, <1>2, <2>2
    <2>3. QED
      BY <2>1, <2>2
  <1>4. LogGoesOn
    BY <1>3 DEF LogGoesOn
  <1>5. QED
    BY <1>1, <1>4

LEMMA EntersGoesOn ==
  ASSUME TypeOK, NEW r \in Runs, NEW phase \in {"returning", "over"} \cup Begun,
         Enters(r, phase), turn[r].phase \notin {"none", "over"},
         turn[r].phase = "returning" => phase = "over"
  PROVE  /\ TurnsGoOn /\ turn'[r].phase = phase
         /\ \A q \in Runs : q # r => turn'[q] = turn[q]
  <1>1. phase \in {"none", "returning", "over"} \cup InProgress /\ phase \notin {"none", "queued"}
    BY DEF InProgress, Begun
  <1>2. /\ turn'[r].phase = phase
        /\ \A q \in Runs : turn'[q].session = turn[q].session
        /\ \A q \in Runs : q # r => turn'[q] = turn[q]
    BY <1>1, EntersFacts
  <1>3. QED
    BY <1>1, <1>2 DEF TurnsGoOn

LEMMA SessionsGoOn ==
  ASSUME StreamInv, NEW s \in Sessions, SessionStep(s)
  PROVE  GoesOn
  <1>1. TypeOK /\ crashes \in Nat
    BY QueueAssumption DEF StreamInv, QInv, TypeOK
  <1>2. turn' = turn /\ log' = log /\ crashes' = crashes
    BY DEF SessionStep, CreateSession, DeleteSession, CleansUp, Cleanup, tasks
  <1>3. Gone \subseteq Gone'
    BY <1>1 DEF SessionStep, CreateSession, DeleteSession, CleansUp, Cleanup, Gone, TypeOK
  <1>4. QED
    BY <1>1, <1>2, <1>3, LogStays DEF GoesOn, TurnsGoOn, EndsTell, NothingReturns

LEMMA SubmitGoesOn ==
  ASSUME StreamInv, NEW s \in Sessions, NEW r \in Runs, NEW retry \in BOOLEAN, Submit(s, r, retry)
  PROVE  GoesOn
  <1>1. TypeOK /\ crashes \in Nat
    BY QueueAssumption DEF StreamInv, QInv, TypeOK
  <1>2. /\ log' = log /\ crashes' = crashes /\ session' = session /\ turn[r].phase = "none"
        /\ turn' = [turn EXCEPT ![r] = [session |-> s, phase |-> "queued", retry |-> retry]]
    BY DEF Submit, rows
  <1>3. turn'[r].phase = "queued" /\ \A q \in Runs : q # r => turn'[q] = turn[q]
    BY <1>1, <1>2 DEF TypeOK
  <1>4. QED
    BY <1>1, <1>2, <1>3, LogStays DEF GoesOn, TurnsGoOn, EndsTell, NothingReturns, Gone

LEMMA RunGoesOn ==
  ASSUME StreamInv, NEW r \in Runs, RunStep(r)
  PROVE  GoesOn
  <1>0. /\ TypeOK /\ TurnInv /\ QueueInv /\ crashes \in Nat
        /\ session' = session /\ crashes' = crashes
    BY QueueAssumption DEF StreamInv, QInv, TypeOK, RunStep, Begin, BeginDeleted, BeginEmpty, Fail,
       Answer, Finish, FinishTask, rows
  <1>1. NothingReturns
    BY <1>0 DEF NothingReturns, Gone
  <1>2. ASSUME turn[r].phase \in InProgress
        PROVE  SessionOf(r) \in Sessions /\ turn[r].phase \notin {"none", "over", "returning"}
    BY <1>0, <1>2, HasSession DEF InProgress, Begun
  <1>3. CASE Begin(r)
    <2>1. turn[r].phase \in InProgress
      BY <1>0, <1>3, HeadFacts DEF Begin, CanBegin, InProgress
    <2>2. TurnsGoOn /\ turn'[r].phase = "agent" /\ \A q \in Runs : q # r => turn'[q] = turn[q]
      BY <1>0, <1>2, <1>3, <2>1, EntersGoesOn DEF Begin, Begun
    <2>3. LogGoesOn
      BY <1>0, <1>2, <1>3, <2>1, <2>2, EmitGoesOn DEF Begin
    <2>4. QED
      BY <1>1, <2>2, <2>3 DEF GoesOn, EndsTell
  <1>4. CASE BeginDeleted(r)
    <2>1. turn[r].phase = "queued" /\ turn[r].phase \in InProgress
      BY <1>0, <1>4, HeadFacts DEF BeginDeleted, InProgress
    <2>2. TurnsGoOn /\ \A q \in Runs : q # r => turn'[q] = turn[q]
      BY <1>0, <1>2, <1>4, <2>1, EntersGoesOn DEF BeginDeleted
    <2>3. LogGoesOn
      BY <1>0, <1>4, LogStays DEF BeginDeleted, rows
    <2>4. session'[SessionOf(r)] = "deleted"
      BY <1>0, <1>2, <1>4, <2>1 DEF BeginDeleted, TypeOK, TurnInv
    <2>5. QED
      BY <1>1, <2>2, <2>3, <2>4 DEF GoesOn, EndsTell
  <1>5. ASSUME NEW kind \in Outcomes, turn[r].phase \in InProgress, Emit(SessionOf(r), r, kind),
               Enters(r, "returning")
        PROVE  GoesOn
    <2>1. TurnsGoOn /\ \A q \in Runs : q # r => turn'[q] = turn[q]
      BY <1>0, <1>2, <1>5, EntersGoesOn
    <2>2. kind # "run_started" /\ kind \in {"run_started", "recovering", "decided"} \cup Outcomes
      BY DEF Outcomes
    <2>3. /\ LogGoesOn
          /\ Len(log'[SessionOf(r)]) \in 1..Len(log'[SessionOf(r)])
          /\ log'[SessionOf(r)][Len(log'[SessionOf(r)])].run = r
          /\ log'[SessionOf(r)][Len(log'[SessionOf(r)])].kind = kind
      BY <1>0, <1>2, <1>5, <2>2, EmitGoesOn
    <2>4. EndsTell
      BY <1>2, <1>5, <2>1, <2>3 DEF EndsTell
    <2>5. QED
      BY <1>1, <2>1, <2>3, <2>4 DEF GoesOn
  <1>6. CASE BeginEmpty(r)
    <2>1. turn[r].phase \in InProgress
      BY <1>0, <1>6, HeadFacts DEF BeginEmpty, InProgress
    <2>2. QED
      BY <1>5, <1>6, <2>1 DEF BeginEmpty, Outcomes
  <1>7. CASE Fail(r)
    BY <1>5, <1>7 DEF Fail, TurnAt, Outcomes, InProgress, Begun
  <1>8. CASE Answer(r)
    <2>1. turn[r].phase \in InProgress
      BY <1>8 DEF Answer, TurnAt, InProgress, Begun
    <2>2. /\ TurnsGoOn /\ turn'[r].phase = "compacting"
          /\ \A q \in Runs : q # r => turn'[q] = turn[q]
      BY <1>0, <1>2, <1>8, <2>1, EntersGoesOn DEF Answer, Begun
    <2>3. LogGoesOn
      BY <1>0, <1>8, LogStays DEF Answer, rows
    <2>4. QED
      BY <1>1, <2>2, <2>3 DEF GoesOn, EndsTell
  <1>9. CASE Finish(r)
    BY <1>5, <1>9 DEF Finish, TurnAt, Outcomes, InProgress, Begun
  <1>10. CASE FinishTask(r)
    <2>1. turn[r].phase = "returning"
      BY <1>10 DEF FinishTask, TurnAt
    <2>2. TurnsGoOn /\ \A q \in Runs : q # r => turn'[q] = turn[q]
      BY <1>0, <1>10, <2>1, EntersGoesOn DEF FinishTask
    <2>3. LogGoesOn
      BY <1>0, <1>10, LogStays DEF FinishTask, rows
    <2>4. QED
      BY <1>1, <2>1, <2>2, <2>3 DEF GoesOn, EndsTell
  <1>11. QED
    BY <1>3, <1>4, <1>6, <1>7, <1>8, <1>9, <1>10 DEF RunStep

(* A death counts itself; a start adds only what no page listens to.       *)
LEMMA DeathGoesOn ==
  ASSUME StreamInv, Crash \/ Restart
  PROVE  GoesOn
  <1>0. TypeOK /\ crashes \in Nat
    BY QueueAssumption DEF StreamInv, QInv, TypeOK
  <1>1. CASE Crash
    <2>1. \A r \in Runs : /\ turn'[r].session = turn[r].session
                          /\ turn'[r].phase = IF turn[r].phase = "none" THEN "none" ELSE "over"
      BY <1>0, <1>1 DEF Crash, TypeOK, Turns
    <2>2. log' = log /\ session' = session /\ crashes' = crashes + 1
      BY <1>1 DEF Crash, rows
    <2>3. crashes' # 0
      BY <1>0, <2>2
    <2>4. TurnsGoOn /\ EndsTell
      BY <2>1, <2>3 DEF TurnsGoOn, EndsTell
    <2>5. NothingReturns
      BY <1>0, <2>2 DEF NothingReturns, Gone
    <2>6. QED
      BY <1>0, <2>2, <2>4, <2>5, LogStays DEF GoesOn
  <1>2. CASE Restart
    <2>1. turn' = turn /\ session' = session /\ crashes' = crashes
      BY <1>2 DEF Restart, tasks
    <2>2. \A s \in Sessions :
            /\ Len(log[s]) \in Nat /\ Len(log'[s]) \in Nat /\ Len(log[s]) <= Len(log'[s])
            /\ \A i \in 1..Len(log[s]) : log'[s][i] = log[s][i]
            /\ \A i \in Len(log[s]) + 1 .. Len(log'[s]) : log'[s][i].kind = "recovering"
      BY <1>0, <1>2, RestartFacts
    <2>3. ASSUME NEW s \in Sessions, NEW i \in 1..Len(log'[s]), i > Len(log[s])
          PROVE  log'[s][i].kind \notin Telling
      <3>1. i \in Len(log[s]) + 1 .. Len(log'[s])
        BY <2>2, <2>3
      <3>2. QED
        BY <2>2, <3>1 DEF Telling, Outcomes
    <2>4. LogGoesOn
      BY <2>2, <2>3 DEF LogGoesOn
    <2>5. QED
      BY <1>0, <2>1, <2>4 DEF GoesOn, TurnsGoOn, EndsTell, NothingReturns, Gone
  <1>3. QED
    BY <1>1, <1>2

LEMMA DecisionGoesOn ==
  ASSUME StreamInv, NEW r \in Runs, DecideCard(r)
  PROVE  GoesOn
  <1>0. TypeOK /\ TurnInv /\ crashes \in Nat /\ turn[r].phase # "none"
    BY QueueAssumption DEF StreamInv, QInv, TypeOK, RowInv, DecideCard
  <1>1. /\ Emit(SessionOf(r), r, "decided") /\ "decided" \notin Telling
        /\ turn' = turn /\ session' = session /\ crashes' = crashes
    BY DEF DecideCard, tasks, Telling, Outcomes
  <1>2. LogGoesOn
    BY <1>0, <1>1, HasSession, EmitGoesOn DEF Telling
  <1>3. QED
    BY <1>0, <1>1, <1>2 DEF GoesOn, TurnsGoOn, EndsTell, NothingReturns, Gone

(* Whatever happens on the server or to the page, tasks and events go on.  *)
LEMMA StreamGoesOn ==
  ASSUME StreamInv, [StreamNext]_svars
  PROVE  GoesOn
  <1>1. CASE UNCHANGED qvars
    <2>1. TypeOK /\ crashes \in Nat
      BY QueueAssumption DEF StreamInv, QInv, TypeOK
    <2>2. turn' = turn /\ log' = log /\ session' = session /\ crashes' = crashes
      BY <1>1 DEF qvars, rows, tasks
    <2>3. QED
      BY <2>1, <2>2, LogStays DEF GoesOn, TurnsGoOn, EndsTell, NothingReturns, Gone
  <1>2. QED
    BY <1>1, StreamSteps, SessionsGoOn, SubmitGoesOn, RunGoesOn, DeathGoesOn, DecisionGoesOn DEF Next

LEMMA StoryStep ==
  ASSUME StreamInv, StoryInv, GoesOn
  PROVE  StoryInv'
  <1>0. /\ TypeOK /\ TurnInv /\ LogInv /\ \A s \in Sessions : \A i \in 1..Len(log[s]) : log[s][i].run \in Runs
    BY LogRuns DEF StreamInv, QInv
  <1>1. ASSUME NEW s \in Sessions, NEW i \in 1..Len(log[s])
        PROVE  /\ log[s][i].run \in Runs /\ turn[log[s][i].run].phase # "none"
               /\ log[s][i].kind \in Outcomes => turn[log[s][i].run].phase \in {"returning", "over"}
    <2>1. log[s][i].run \in Runs /\ SessionOf(log[s][i].run) = s
      BY <1>0 DEF LogInv
    <2>2. QED
      BY <1>0, <2>1, QueueAssumption DEF TurnInv, LogInv
  <1>2. ASSUME NEW s \in Sessions, NEW i \in 1..Len(log'[s]), log'[s][i].kind = "run_started"
        PROVE  turn'[log'[s][i].run].phase # "queued"
    <2>1. CASE i \in 1..Len(log[s])
      <3>1. log'[s][i] = log[s][i] /\ turn[log[s][i].run].phase # "queued"
        BY <1>2, <2>1 DEF GoesOn, LogGoesOn, StoryInv
      <3>2. QED
        BY <1>1, <2>1, <3>1 DEF GoesOn, TurnsGoOn
    <2>2. CASE i > Len(log[s])
      BY <1>2, <2>2 DEF GoesOn, LogGoesOn, Telling
    <2>3. QED
      BY <2>1, <2>2 DEF GoesOn, LogGoesOn
  <1>3. ASSUME NEW s \in Sessions, NEW i \in 1..Len(log'[s]), NEW j \in 1..Len(log'[s]),
               log'[s][i].kind \in Outcomes, log'[s][j].run = log'[s][i].run,
               log'[s][j].kind \in Telling
        PROVE  j <= i
    <2>0. /\ Len(log[s]) \in Nat /\ Len(log'[s]) \in Nat
          /\ \A k \in 1..Len(log[s]) : log'[s][k] = log[s][k]
          /\ \A k \in 1..Len(log'[s]) : k > Len(log[s]) /\ log'[s][k].kind \in Telling =>
               k = Len(log[s]) + 1 /\ turn[log'[s][k].run].phase \in InProgress
      BY DEF GoesOn, LogGoesOn
    <2>1. CASE i \in 1..Len(log[s]) /\ j \in 1..Len(log[s])
      BY <1>3, <2>0, <2>1 DEF StoryInv
    <2>2. CASE i \in 1..Len(log[s]) /\ j > Len(log[s])
      <3>1. turn[log[s][i].run].phase \in {"returning", "over"} /\ log'[s][i] = log[s][i]
        BY <1>1, <1>3, <2>0, <2>2
      <3>2. turn[log'[s][j].run].phase \in InProgress
        BY <1>3, <2>0, <2>2
      <3>3. QED
        BY <1>3, <3>1, <3>2 DEF InProgress, Begun
    <2>3. CASE i > Len(log[s])
      <3>1. i = Len(log[s]) + 1
        BY <1>3, <2>0, <2>3 DEF Telling
      <3>2. j > Len(log[s]) => j = Len(log[s]) + 1
        BY <1>3, <2>0
      <3>3. QED
        BY <2>0, <3>1, <3>2
    <2>4. QED
      BY <2>0, <2>1, <2>2, <2>3
  <1>4. ASSUME NEW r \in Runs, turn'[r].phase \in {"returning", "over"},
               turn'[r].session \notin Gone', crashes' = 0
        PROVE  \E i \in 1..Len(log'[turn'[r].session]) :
                 log'[turn'[r].session][i].run = r /\ log'[turn'[r].session][i].kind \in Outcomes
    <2>1. PICK s : s = SessionOf(r)
      OBVIOUS
    <2>2. turn[r].phase # "none" => s \in Sessions /\ turn'[r].session = s
      BY <1>0, <2>1, HasSession DEF GoesOn, TurnsGoOn, SessionOf
    <2>3. CASE turn[r].phase \in {"returning", "over"}
      <3>1. s \in Sessions /\ turn'[r].session = s /\ s \notin Gone /\ crashes = 0
        BY <1>4, <2>2, <2>3 DEF GoesOn, NothingReturns
      <3>2. PICK i \in 1..Len(log[s]) : log[s][i].run = r /\ log[s][i].kind \in Outcomes
        BY <2>1, <2>3, <3>1 DEF StoryInv
      <3>3. i \in 1..Len(log'[s]) /\ log'[s][i] = log[s][i]
        BY <3>1, <3>2 DEF GoesOn, LogGoesOn
      <3>4. QED
        BY <3>1, <3>2, <3>3
    <2>4. CASE turn[r].phase \notin {"returning", "over"}
      <3>1. \/ session'[s] = "deleted"
            \/ s \in Sessions /\ \E i \in 1..Len(log'[s]) :
                 log'[s][i].run = r /\ log'[s][i].kind \in Outcomes
        BY <1>4, <2>1, <2>4 DEF GoesOn, EndsTell
      <3>2. turn[r].phase # "none"
        BY <1>4 DEF GoesOn, TurnsGoOn
      <3>3. s \in Sessions /\ turn'[r].session = s /\ session'[s] # "deleted"
        BY <1>4, <2>2, <3>2 DEF Gone
      <3>4. QED
        BY <3>1, <3>3
    <2>5. QED
      BY <2>3, <2>4
  <1>5. QED
    BY <1>2, <1>3, <1>4 DEF StoryInv, SessionOf

-----------------------------------------------------------------------------
(* The page.                                                               *)
Pages == [run : Runs \cup {NoRun}, conn : {"closed", "waiting", "streaming"},
          cursor : Nat, sent : Nat, pipe : Seq(Nat), seen : SUBSET Nat,
          end : {"none", "outcome", "decision"}]

LogOf(p) == log[SessionOf(p.run)]
Own(p) == {i \in 1..Len(LogOf(p)) : LogOf(p)[i].run = p.run /\ LogOf(p)[i].kind \in Telling}
OnItsWay(p) == {p.pipe[k] : k \in 1..Len(p.pipe)}

(* While the page follows: no event of its run was cleaned up, it heard    *)
(* those below its cursor and no outcome, and an outcome of another run    *)
(* that it may still hear comes after all that its own run had to tell.    *)
Heeds(p) ==
  /\ p.cursor <= Len(LogOf(p))
  /\ \A i \in Own(p) :
       /\ i > gone[SessionOf(p.run)]
       /\ i <= p.cursor => i \in p.seen /\ LogOf(p)[i].kind \notin Outcomes
  /\ \A i \in 1..Len(LogOf(p)) :
       LogOf(p)[i].kind \in Outcomes /\ LogOf(p)[i].run # p.run =>
         \/ i <= p.cursor
         \/ i <= gone[SessionOf(p.run)] /\ i \notin OnItsWay(p)
         \/ turn[p.run].phase = "over" /\ \A j \in Own(p) : j < i

(* What the page has to hear between the two cursors is on its way.        *)
Streams(p) ==
  /\ p.cursor <= p.sent /\ p.sent <= Len(LogOf(p))
  /\ \A k \in 1..Len(p.pipe) : p.cursor < p.pipe[k] /\ p.pipe[k] <= p.sent
  /\ \A k, l \in 1..Len(p.pipe) : k < l => p.pipe[k] < p.pipe[l]
  /\ \A i \in Own(p) : p.cursor < i /\ i <= p.sent => i \in OnItsWay(p)

HeardAll(p) ==
  /\ p.cursor \in 1..Len(LogOf(p))
  /\ Own(p) \subseteq p.seen
  /\ turn[p.run].phase \in {"returning", "over"}
  /\ LogOf(p)[p.cursor].run # p.run =>
       crashes > 0 /\ \A i \in Own(p) : LogOf(p)[i].kind \notin Outcomes

PageInv(p) ==
  /\ p \in Pages
  /\ p.conn = "waiting" => p.pipe = <<>>
  /\ p.run = NoRun => p.conn = "closed" /\ p.end = "none"
  /\ p.run # NoRun => turn[p.run].phase # "none"
  /\ p.run # NoRun /\ SessionOf(p.run) \notin Gone =>
       /\ p.conn # "closed" => Heeds(p)
       /\ p.conn = "streaming" => Streams(p)
       /\ p.end = "outcome" => HeardAll(p)

ClientInv == StreamInv /\ StoryInv /\ PageInv(page)

-----------------------------------------------------------------------------
(* A page that follows a run of a session that is still there.             *)
LEMMA Followed ==
  ASSUME StreamInv, NEW p, PageInv(p), p.run # NoRun
  PROVE  /\ p.run \in Runs /\ SessionOf(p.run) \in Sessions
         /\ Len(LogOf(p)) \in Nat /\ gone[SessionOf(p.run)] \in Nat
         /\ gone[SessionOf(p.run)] <= Len(LogOf(p))
         /\ \A i \in 1..Len(LogOf(p)) :
              /\ LogOf(p)[i].run \in Runs /\ SessionOf(LogOf(p)[i].run) = SessionOf(p.run)
              /\ LogOf(p)[i].kind \in Outcomes => turn[LogOf(p)[i].run].phase \in {"returning", "over"}
  <1>1. p.run \in Runs /\ turn[p.run].phase # "none" /\ TypeOK /\ TurnInv /\ LogInv
    BY DEF PageInv, Pages, StreamInv, QInv
  <1>2. SessionOf(p.run) \in Sessions
    BY <1>1, HasSession
  <1>3. Len(LogOf(p)) \in Nat
    BY <1>1, <1>2 DEF TypeOK, LogOf
  <1>4. QED
    BY <1>1, <1>2, <1>3, LogRuns DEF TypeOK, LogOf, LogInv

(* The server goes on while the page waits: what is new comes above all    *)
(* cursors, and another run of the session tells its outcome only when     *)
(* this one is over.                                                       *)
LEMMA PageStays ==
  ASSUME StreamInv, StreamInv', GoesOn, NEW p, PageInv(p),
         p.run # NoRun /\ p.conn # "closed" /\ SessionOf(p.run) \notin Gone' =>
           \/ gone'[SessionOf(p.run)] = gone[SessionOf(p.run)]
           \/ /\ gone'[SessionOf(p.run)] >= gone[SessionOf(p.run)]
              /\ log' = log /\ Own(p) = {}
  PROVE  PageInv(p)'
  <1>1. CASE p.run = NoRun
    BY <1>1 DEF PageInv
  <1>2. CASE p.run # NoRun
    <2> DEFINE s == SessionOf(p.run)
               n == Len(LogOf(p))
    <2>0. /\ p \in Pages /\ p.cursor \in Nat /\ p.sent \in Nat
          /\ p.run \in Runs /\ s \in Sessions /\ n \in Nat /\ gone[s] \in Nat /\ gone[s] <= n
          /\ turn[p.run].phase # "none" /\ OneTurn /\ TypeOK
      BY <1>2, Followed DEF PageInv, Pages, StreamInv, QInv
    <2>1. /\ turn'[p.run].session = turn[p.run].session /\ turn'[p.run].phase # "none"
          /\ turn[p.run].phase = "over" => turn'[p.run].phase = "over"
          /\ turn[p.run].phase \in {"returning", "over"} => turn'[p.run].phase \in {"returning", "over"}
      BY <2>0 DEF GoesOn, TurnsGoOn
    <2>2. SessionOf(p.run)' = s /\ LogOf(p)' = log'[s]
      BY <2>1 DEF SessionOf, LogOf
    <2>3. /\ Len(log'[s]) \in Nat /\ n <= Len(log'[s])
          /\ \A i \in 1..n : i \in 1..Len(log'[s]) /\ log'[s][i] = LogOf(p)[i]
          /\ \A i \in 1..Len(log'[s]) : i \notin 1..n => i > n
          /\ \A i \in 1..Len(log'[s]) : i > n /\ log'[s][i].kind \in Telling =>
               /\ i = n + 1 /\ log'[s][i].run \in Runs /\ SessionOf(log'[s][i].run) = s
               /\ turn[log'[s][i].run].phase \in InProgress
      BY <2>0 DEF GoesOn, LogGoesOn, LogOf
    <2> DEFINE New == {i \in 1..Len(log'[s]) : i > n /\ log'[s][i].run = p.run /\ log'[s][i].kind \in Telling}
    <2>4. Own(p)' = Own(p) \cup New
      BY <2>1, <2>2, <2>3 DEF Own, LogOf
    <2>5. \A i \in New : i = n + 1 /\ turn[p.run].phase \in InProgress
      BY <2>3
    <2>6. \A i \in Own(p) : i \in 1..n /\ log'[s][i] = LogOf(p)[i]
      BY <2>3 DEF Own
    <2>7. OnItsWay(p)' = OnItsWay(p)
      BY DEF OnItsWay
    <2>8. crashes \in Nat /\ crashes' \in Nat /\ crashes <= crashes' /\ (s \notin Gone' => s \notin Gone)
      BY DEF GoesOn, NothingReturns
    <2>9. gone'[s] \in Nat
      BY <2>0 DEF StreamInv, QInv, TypeOK
    <2> HIDE DEF s, n, New
    <2>10. ASSUME s \notin Gone', p.conn # "closed"
          PROVE  Heeds(p)'
      <3>1. Heeds(p)
        BY <1>2, <2>8, <2>10 DEF PageInv, s
      <3>2. \/ gone'[s] = gone[s]
            \/ gone'[s] >= gone[s] /\ log' = log /\ Own(p) = {}
        BY <1>2, <2>10 DEF s
      <3>3. p.cursor <= Len(log'[s])
        BY <2>0, <2>3, <3>1 DEF Heeds, n
      <3>4. ASSUME NEW i \in Own(p)'
            PROVE  /\ i > gone'[s]
                   /\ i <= p.cursor => i \in p.seen /\ log'[s][i].kind \notin Outcomes
        <4>1. CASE i \in Own(p)
          <5>1. gone'[s] = gone[s]
            BY <3>2, <4>1
          <5>2. QED
            BY <2>6, <3>1, <4>1, <5>1 DEF Heeds, s
        <4>2. CASE i \in New
          <5>1. i = n + 1 /\ i \in 1..Len(log'[s])
            BY <2>5, <4>2 DEF New
          <5>2. i > gone[s] /\ ~(i <= p.cursor)
            BY <2>0, <3>1, <5>1 DEF Heeds, n
          <5>3. gone'[s] = gone[s]
            <6>1. log' = log => Len(log'[s]) = n
              BY DEF n, LogOf, s
            <6>2. QED
              BY <2>0, <3>2, <5>1, <6>1
          <5>4. QED
            BY <5>2, <5>3
        <4>3. QED
          BY <2>4, <3>4, <4>1, <4>2
      <3>5. ASSUME NEW i \in 1..Len(log'[s]), log'[s][i].kind \in Outcomes, log'[s][i].run # p.run
            PROVE  \/ i <= p.cursor
                   \/ i <= gone'[s] /\ i \notin OnItsWay(p)
                   \/ turn'[p.run].phase = "over" /\ \A j \in Own(p)' : j < i
        <4>1. CASE i \in 1..n
          <5>1. \/ i <= p.cursor
                \/ i <= gone[s] /\ i \notin OnItsWay(p)
                \/ turn[p.run].phase = "over" /\ \A j \in Own(p) : j < i
            BY <2>3, <3>1, <3>5, <4>1 DEF Heeds, s, n
          <5>2. CASE i <= gone[s] /\ i \notin OnItsWay(p)
            <6>1. gone'[s] \in Nat /\ gone'[s] >= gone[s]
              BY <2>0, <2>9, <3>2
            <6>2. QED
              BY <2>0, <5>2, <6>1
          <5>3. CASE turn[p.run].phase = "over" /\ \A j \in Own(p) : j < i
            <6>1. New = {}
              BY <2>5, <5>3 DEF InProgress, Begun
            <6>2. QED
              BY <2>1, <2>4, <5>3, <6>1
          <5>4. QED
            BY <5>1, <5>2, <5>3
        <4>2. CASE i \notin 1..n
          <5>1. /\ i > n /\ i = n + 1 /\ log'[s][i].run \in Runs /\ SessionOf(log'[s][i].run) = s
                /\ turn[log'[s][i].run].phase \in InProgress
            BY <2>3, <3>5, <4>2 DEF Telling
          <5>2. turn[p.run].phase \notin Alive
            BY <2>0, <3>5, <5>1 DEF OneTurn, Alive, s
          <5>3. turn[p.run].phase = "over"
            BY <2>0, <5>2 DEF TypeOK, Turns, Alive
          <5>4. New = {}
            BY <2>5, <5>3 DEF InProgress, Begun
          <5>5. \A j \in Own(p)' : j < i
            BY <2>0, <2>4, <2>6, <5>1, <5>4
          <5>6. QED
            BY <2>1, <5>3, <5>5
        <4>3. QED
          BY <4>1, <4>2
      <3>6. QED
        BY <2>2, <2>7, <3>3, <3>4, <3>5 DEF Heeds
    <2>11. ASSUME s \notin Gone', p.conn = "streaming"
           PROVE  Streams(p)'
      <3>1. Streams(p)
        BY <1>2, <2>8, <2>11 DEF PageInv, s
      <3>2. p.sent <= n
        BY <3>1 DEF Streams, n
      <3>3. \A i \in New : ~(i <= p.sent)
        BY <2>0, <2>5, <3>2
      <3>4. p.sent <= Len(log'[s])
        BY <2>0, <2>3, <3>2
      <3>5. \A i \in Own(p)' : p.cursor < i /\ i <= p.sent => i \in OnItsWay(p)
        BY <2>4, <3>1, <3>3 DEF Streams
      <3>6. QED
        BY <2>2, <2>7, <3>1, <3>4, <3>5 DEF Streams
    <2>12. ASSUME s \notin Gone', p.end = "outcome"
           PROVE  HeardAll(p)'
      <3>1. HeardAll(p)
        BY <1>2, <2>8, <2>12 DEF PageInv, s
      <3>2. New = {}
        BY <2>5, <3>1 DEF HeardAll, InProgress, Begun
      <3>3. p.cursor \in 1..n
        BY <3>1 DEF HeardAll, n
      <3>4. p.cursor \in 1..Len(log'[s]) /\ log'[s][p.cursor] = LogOf(p)[p.cursor]
        BY <2>3, <3>3
      <3>5. crashes > 0 => crashes' > 0
        BY <2>8
      <3>6. QED
        BY <2>1, <2>2, <2>4, <2>6, <3>1, <3>2, <3>4, <3>5 DEF HeardAll
    <2>13. QED
      BY <1>2, <2>0, <2>1, <2>2, <2>10, <2>11, <2>12 DEF PageInv
  <1>3. QED
    BY <1>1, <1>2

-----------------------------------------------------------------------------
(* What the page and its connection do, state by state.                    *)
LEMMA CutKeeps ==
  ASSUME NEW p, NEW q \in Pages, PageInv(p), p.conn # "closed", q.conn = "waiting", q.pipe = <<>>,
         q.run = p.run, q.cursor = p.cursor, q.seen = p.seen, q.end = p.end
  PROVE  PageInv(q)
  <1>1. SessionOf(q.run) = SessionOf(p.run) /\ LogOf(q) = LogOf(p) /\ Own(q) = Own(p)
    BY DEF LogOf, Own
  <1>2. OnItsWay(q) = {}
    BY DEF OnItsWay
  <1>3. Heeds(p) => Heeds(q)
    BY <1>1, <1>2 DEF Heeds
  <1>4. HeardAll(p) => HeardAll(q)
    BY <1>1 DEF HeardAll
  <1>5. QED
    BY <1>1, <1>3, <1>4 DEF PageInv

LEMMA ConnectKeeps ==
  ASSUME NEW p, NEW q \in Pages, PageInv(p), p.conn = "waiting", q.conn = "streaming",
         q.sent = p.cursor, q.pipe = p.pipe,
         q.run = p.run, q.cursor = p.cursor, q.seen = p.seen, q.end = p.end
  PROVE  PageInv(q)
  <1>1. SessionOf(q.run) = SessionOf(p.run) /\ LogOf(q) = LogOf(p) /\ Own(q) = Own(p)
    BY DEF LogOf, Own
  <1>2. OnItsWay(q) = OnItsWay(p) /\ q.pipe = <<>> /\ q.cursor \in Nat /\ q.sent = q.cursor
    BY DEF OnItsWay, PageInv, Pages
  <1>3. Heeds(p) => Heeds(q)
    BY <1>1, <1>2 DEF Heeds
  <1>4. ASSUME Heeds(p) PROVE Streams(q)
    <2>1. q.sent <= Len(LogOf(q)) /\ q.cursor <= q.sent
      BY <1>1, <1>2, <1>4 DEF Heeds
    <2>2. \A i \in Own(q) : ~(q.cursor < i /\ i <= q.sent)
      <3>1. \A i \in Own(q) : i \in Int
        BY DEF Own
      <3>2. QED
        BY <1>2, <3>1
    <2>3. QED
      BY <1>2, <2>1, <2>2 DEF Streams
  <1>5. HeardAll(p) => HeardAll(q)
    BY <1>1 DEF HeardAll
  <1>6. QED
    BY <1>1, <1>3, <1>4, <1>5 DEF PageInv

(* The stream skips only what was cleaned up, which is none of the run.    *)
LEMMA SendKeeps ==
  ASSUME StreamInv, NEW p, NEW q \in Pages, PageInv(p), p.conn = "streaming", NEW next \in Nat,
         next > p.sent, next > gone[SessionOf(p.run)],
         next = p.sent + 1 \/ next = gone[SessionOf(p.run)] + 1, next <= Len(LogOf(p)),
         q.conn = "streaming", q.sent = next, q.pipe = Append(p.pipe, next),
         q.run = p.run, q.cursor = p.cursor, q.seen = p.seen, q.end = p.end
  PROVE  PageInv(q)
  <1>0. /\ p.run # NoRun /\ p.cursor \in Nat /\ p.sent \in Nat /\ p.pipe \in Seq(Nat)
        /\ gone[SessionOf(p.run)] \in Nat
    BY Followed DEF PageInv, Pages
  <1>1. SessionOf(q.run) = SessionOf(p.run) /\ LogOf(q) = LogOf(p) /\ Own(q) = Own(p)
    BY DEF LogOf, Own
  <1> DEFINE m == Len(p.pipe)
  <1>2. /\ m \in Nat /\ Len(q.pipe) = m + 1 /\ q.pipe[m + 1] = next
        /\ \A k \in 1..m : q.pipe[k] = p.pipe[k] /\ p.pipe[k] \in Nat
    BY <1>0
  <1>3. \A k \in 1..Len(q.pipe) : k \in 1..m \/ k = m + 1
    BY <1>2
  <1> HIDE DEF m
  <1>4. OnItsWay(q) = OnItsWay(p) \cup {next}
    <2>1. \A x \in OnItsWay(q) : x \in OnItsWay(p) \/ x = next
      BY <1>2, <1>3 DEF OnItsWay, m
    <2>2. \A k \in 1..m : k \in 1..Len(q.pipe)
      BY <1>2
    <2>3. m + 1 \in 1..Len(q.pipe)
      BY <1>2
    <2>4. \A x \in OnItsWay(p) : x \in OnItsWay(q)
      BY <1>2, <2>2 DEF OnItsWay, m
    <2>5. next \in OnItsWay(q)
      BY <1>2, <2>3 DEF OnItsWay
    <2>6. QED
      BY <2>1, <2>4, <2>5
  <1>5. ASSUME Heeds(p) PROVE Heeds(q)
    <2>1. ASSUME NEW i \in 1..Len(LogOf(p)), i <= gone[SessionOf(p.run)]
          PROVE  i # next
      BY <1>0, <2>1
    <2>2. QED
      BY <1>1, <1>4, <1>5, <2>1 DEF Heeds
  <1>6. ASSUME Heeds(p), Streams(p) PROVE Streams(q)
    <2>1. q.cursor <= q.sent /\ q.sent <= Len(LogOf(q))
      BY <1>0, <1>1, <1>6 DEF Streams
    <2>2. \A k \in 1..Len(q.pipe) : q.cursor < q.pipe[k] /\ q.pipe[k] <= q.sent
      <3>1. \A k \in 1..m : p.cursor < p.pipe[k] /\ p.pipe[k] <= p.sent
        BY <1>6 DEF Streams, m
      <3>2. p.cursor < next
        BY <1>0, <1>6 DEF Streams
      <3>3. QED
        BY <1>0, <1>2, <1>3, <3>1, <3>2
    <2>3. ASSUME NEW k \in 1..Len(q.pipe), NEW l \in 1..Len(q.pipe), k < l
          PROVE  q.pipe[k] < q.pipe[l]
      <3>1. k \in 1..m
        BY <1>2, <2>3
      <3>2. CASE l \in 1..m
        BY <1>2, <1>6, <2>3, <3>1, <3>2 DEF Streams, m
      <3>3. CASE l = m + 1
        <4>1. p.pipe[k] <= p.sent /\ p.pipe[k] \in Nat
          BY <1>2, <1>6, <3>1 DEF Streams, m
        <4>2. QED
          BY <1>0, <1>2, <3>1, <3>3, <4>1
      <3>4. QED
        BY <1>3, <3>2, <3>3
    <2>4. ASSUME NEW i \in Own(q), q.cursor < i, i <= q.sent
          PROVE  i \in OnItsWay(q)
      <3>1. i \in Own(p) /\ i \in Nat /\ i > gone[SessionOf(p.run)]
        BY <1>1, <1>6, <2>4 DEF Heeds, Own
      <3>2. i <= p.sent \/ i = next
        BY <1>0, <2>4, <3>1
      <3>3. QED
        BY <1>4, <1>6, <2>4, <3>1, <3>2 DEF Streams
    <2>5. QED
      BY <2>1, <2>2, <2>3, <2>4 DEF Streams
  <1>7. HeardAll(p) => HeardAll(q)
    BY <1>1 DEF HeardAll
  <1>8. QED
    BY <1>0, <1>1, <1>5, <1>6, <1>7 DEF PageInv

(* The first event on its way, and what is behind it.                      *)
LEMMA NextHeard ==
  ASSUME NEW p \in Pages, Streams(p), p.pipe # <<>>, NEW i, i = Head(p.pipe)
  PROVE  /\ i \in Nat /\ p.cursor < i /\ i <= p.sent /\ i \in OnItsWay(p)
         /\ Tail(p.pipe) \in Seq(Nat) /\ Len(Tail(p.pipe)) \in Nat
         /\ \A k \in 1..Len(Tail(p.pipe)) :
              k + 1 \in 1..Len(p.pipe) /\ Tail(p.pipe)[k] = p.pipe[k + 1] /\ i < p.pipe[k + 1]
         /\ \A x \in OnItsWay(p) :
              x >= i /\ (x = i \/ \E k \in 1..Len(Tail(p.pipe)) : x = Tail(p.pipe)[k])
  <1>1. /\ p.pipe \in Seq(Nat) /\ Len(p.pipe) \in Nat \ {0} /\ i = p.pipe[1]
        /\ Tail(p.pipe) \in Seq(Nat) /\ Len(Tail(p.pipe)) = Len(p.pipe) - 1
        /\ \A k \in 1..Len(Tail(p.pipe)) : Tail(p.pipe)[k] = p.pipe[k + 1]
    BY HeadTailProperties, EmptySeq DEF Pages
  <1>2. 1 \in 1..Len(p.pipe) /\ \A k \in 1..Len(p.pipe) : p.pipe[k] \in Nat
    BY <1>1
  <1>3. i \in Nat /\ p.cursor < i /\ i <= p.sent /\ i \in OnItsWay(p)
    BY <1>1, <1>2 DEF Streams, OnItsWay
  <1>4. \A k \in 1..Len(Tail(p.pipe)) : k + 1 \in 1..Len(p.pipe) /\ 1 < k + 1
    BY <1>1
  <1>5. \A k \in 1..Len(Tail(p.pipe)) : i < p.pipe[k + 1]
    BY <1>1, <1>2, <1>4 DEF Streams
  <1>6. ASSUME NEW x \in OnItsWay(p)
        PROVE  x >= i /\ (x = i \/ \E k \in 1..Len(Tail(p.pipe)) : x = Tail(p.pipe)[k])
    <2>1. PICK l \in 1..Len(p.pipe) : x = p.pipe[l]
      BY DEF OnItsWay
    <2>2. CASE l = 1
      BY <1>1, <1>3, <2>1, <2>2
    <2>3. CASE l # 1
      <3>1. PICK k \in 1..Len(Tail(p.pipe)) : k + 1 = l
        <4>1. l - 1 \in 1..Len(Tail(p.pipe)) /\ (l - 1) + 1 = l
          BY <1>1, <2>1, <2>3
        <4>2. QED
          BY <4>1
      <3>2. x = Tail(p.pipe)[k] /\ i < x
        BY <1>1, <1>5, <2>1, <3>1
      <3>3. x \in Nat
        BY <1>2, <2>1
      <3>4. QED
        BY <1>3, <3>2, <3>3
    <2>4. QED
      BY <2>2, <2>3
  <1>7. QED
    BY <1>1, <1>3, <1>4, <1>5, <1>6

(* Below the next event nothing of the run is left to hear.                *)
LEMMA NothingBefore ==
  ASSUME NEW p \in Pages, Heeds(p), Streams(p), p.pipe # <<>>, NEW i, i = Head(p.pipe),
         NEW j \in Own(p), j < i
  PROVE  j <= p.cursor /\ j \in p.seen /\ LogOf(p)[j].kind \notin Outcomes
  <1>1. /\ i \in Nat /\ i <= p.sent /\ p.sent \in Nat /\ p.cursor \in Nat /\ j \in Int
        /\ \A x \in OnItsWay(p) : x >= i
    BY NextHeard DEF Pages, Own
  <1>2. CASE p.cursor < j
    <2>1. j <= p.sent
      BY <1>1
    <2>2. j \in OnItsWay(p)
      BY <1>2, <2>1 DEF Streams
    <2>3. QED
      BY <1>1, <2>2
  <1>3. CASE ~(p.cursor < j)
    BY <1>1, <1>3 DEF Heeds
  <1>4. QED
    BY <1>2, <1>3

(* The page goes on listening: cursor is where it was, if it does not      *)
(* listen to this kind, or at the event.                                   *)
LEMMA ListensOn ==
  ASSUME NEW p, NEW q \in Pages, PageInv(p), p.conn = "streaming", p.pipe # <<>>,
         NEW i, i = Head(p.pipe), p.run # NoRun /\ SessionOf(p.run) \notin Gone =>
           LogOf(p)[i].kind \notin Outcomes,
         q.conn = "streaming", q.sent = p.sent, q.pipe = Tail(p.pipe), q.run = p.run,
         \/ /\ q.cursor = p.cursor /\ q.seen = p.seen /\ q.end = p.end
            /\ p.run # NoRun /\ SessionOf(p.run) \notin Gone => i \notin Own(p)
         \/ q.cursor = i /\ q.seen = p.seen \cup {i} /\ q.end = "none"
  PROVE  PageInv(q)
  <1>0. p \in Pages /\ p.run # NoRun
    BY DEF PageInv
  <1>1. SessionOf(q.run) = SessionOf(p.run) /\ LogOf(q) = LogOf(p) /\ Own(q) = Own(p)
    BY DEF LogOf, Own
  <1>2. ASSUME SessionOf(p.run) \notin Gone PROVE Heeds(q) /\ Streams(q)
    <2>0. Heeds(p) /\ Streams(p) /\ LogOf(p)[i].kind \notin Outcomes
      BY <1>0, <1>2 DEF PageInv
    <2>1. /\ i \in Nat /\ p.cursor < i /\ i <= p.sent /\ p.cursor \in Nat /\ p.sent \in Nat
          /\ Len(Tail(p.pipe)) \in Nat
          /\ \A k \in 1..Len(Tail(p.pipe)) :
               k + 1 \in 1..Len(p.pipe) /\ Tail(p.pipe)[k] = p.pipe[k + 1] /\ i < p.pipe[k + 1]
          /\ \A x \in OnItsWay(p) : x = i \/ \E k \in 1..Len(Tail(p.pipe)) : x = Tail(p.pipe)[k]
      <3>1. p.cursor \in Nat /\ p.sent \in Nat
        BY <1>0 DEF Pages
      <3>2. QED
        BY <1>0, <2>0, <3>1, NextHeard
    <2>2. q.cursor \in {p.cursor, i} /\ (q.cursor = p.cursor => i \notin Own(p))
      BY <1>0, <1>2, <2>1
    <2>3. p.cursor <= q.cursor /\ q.cursor <= i
      BY <2>1, <2>2
    <2>4. OnItsWay(q) \subseteq OnItsWay(p)
      BY <2>1 DEF OnItsWay
    <2>5. \A x \in OnItsWay(p) : x = i \/ x \in OnItsWay(q)
      BY <2>1 DEF OnItsWay
    <2>6. q.cursor <= Len(LogOf(p))
      <3>1. p.sent <= Len(LogOf(p)) /\ p.cursor <= Len(LogOf(p))
        BY <2>0 DEF Heeds, Streams
      <3>2. CASE q.cursor = p.cursor
        BY <3>1, <3>2
      <3>3. CASE q.cursor = i
        <4>1. i <= p.sent /\ p.sent <= Len(LogOf(p)) /\ Len(LogOf(p)) \in Int
          BY <2>1, <3>1 DEF Streams
        <4>2. QED
          BY <2>1, <3>3, <4>1
      <3>4. QED
        BY <2>2, <3>2, <3>3
    <2>7. ASSUME NEW j \in Own(p), j <= q.cursor
          PROVE  j \in q.seen /\ LogOf(p)[j].kind \notin Outcomes
      <3>1. j \in Int
        BY DEF Own
      <3>2. CASE j = i
        <4>1. q.cursor = i /\ q.seen = p.seen \cup {i}
          BY <1>0, <1>2, <3>2, <2>1, <2>7
        <4>2. QED
          BY <2>0, <3>2, <4>1
      <3>3. CASE j # i
        <4>1. j < i
          BY <2>1, <2>2, <2>3, <2>7, <3>1, <3>3
        <4>2. j \in p.seen /\ LogOf(p)[j].kind \notin Outcomes
          BY <1>0, <2>0, <4>1, NothingBefore
        <4>3. QED
          BY <4>2
      <3>4. QED
        BY <3>2, <3>3
    <2>8. ASSUME NEW j \in 1..Len(LogOf(p)), j <= p.cursor PROVE j <= q.cursor
      BY <2>1, <2>2, <2>3, <2>8
    <2>9. Heeds(q)
      BY <1>1, <2>0, <2>4, <2>6, <2>7, <2>8 DEF Heeds
    <2>10. \A k \in 1..Len(q.pipe) : q.cursor < q.pipe[k] /\ q.pipe[k] <= q.sent
      <3>1. \A k \in 1..Len(p.pipe) : p.pipe[k] <= p.sent /\ p.cursor < p.pipe[k]
        BY <2>0 DEF Streams
      <3>2. QED
        BY <2>1, <2>2, <3>1
    <2>11. \A k, l \in 1..Len(q.pipe) : k < l => q.pipe[k] < q.pipe[l]
      <3>1. \A k, l \in 1..Len(p.pipe) : k < l => p.pipe[k] < p.pipe[l]
        BY <2>0 DEF Streams
      <3>2. QED
        BY <2>1, <3>1
    <2>12. ASSUME NEW j \in Own(p), q.cursor < j, j <= q.sent
           PROVE  j \in OnItsWay(q)
      <3>1. j \in Int /\ p.cursor < j
        BY <2>1, <2>2, <2>3, <2>12 DEF Own
      <3>2. j \in OnItsWay(p)
        BY <2>0, <2>12, <3>1 DEF Streams
      <3>3. j # i
        BY <2>1, <2>2, <2>12
      <3>4. QED
        BY <2>5, <3>2, <3>3
    <2>13. q.cursor <= q.sent /\ q.sent <= Len(LogOf(q))
      <3>1. p.sent <= Len(LogOf(p))
        BY <2>0 DEF Streams
      <3>2. QED
        BY <1>1, <2>1, <2>2, <3>1
    <2>14. QED
      BY <1>1, <2>9, <2>10, <2>11, <2>12, <2>13 DEF Streams
  <1>3. ASSUME q.end = "outcome", SessionOf(p.run) \notin Gone PROVE HeardAll(q)
    <2>1. q.cursor = p.cursor /\ q.seen = p.seen /\ HeardAll(p)
      BY <1>0, <1>3 DEF PageInv
    <2>2. QED
      BY <1>1, <2>1 DEF HeardAll
  <1>4. QED
    BY <1>0, <1>1, <1>2, <1>3 DEF PageInv

(* It stops at an outcome: at its own, which is the last event of its run, *)
(* or at that of a later run, which can be heard only when its own run is  *)
(* over and was never told of.                                             *)
LEMMA StopsAtOutcome ==
  ASSUME StreamInv, StoryInv, NEW p, NEW q \in Pages, PageInv(p), p.conn = "streaming",
         p.pipe # <<>>, NEW i, i = Head(p.pipe), LogOf(p)[i].kind \in Outcomes,
         q.conn = "closed", q.run = p.run, q.cursor = i, q.seen = p.seen \cup {i}
  PROVE  PageInv(q)
  <1>0. p \in Pages /\ p.run # NoRun
    BY DEF PageInv
  <1>1. SessionOf(q.run) = SessionOf(p.run) /\ LogOf(q) = LogOf(p) /\ Own(q) = Own(p)
    BY DEF LogOf, Own
  <1>2. ASSUME SessionOf(p.run) \notin Gone PROVE HeardAll(q)
    <2> DEFINE s == SessionOf(p.run)
    <2>0. /\ Heeds(p) /\ Streams(p) /\ p.run \in Runs /\ s \in Sessions /\ LogOf(p) = log[s]
          /\ turn[p.run].phase # "none"
      BY <1>0, <1>2, Followed DEF PageInv, LogOf
    <2>1. /\ i \in Nat /\ p.cursor < i /\ p.cursor \in Nat /\ i \in OnItsWay(p)
          /\ i \in 1..Len(LogOf(p))
      <3>1. /\ i \in Nat /\ p.cursor < i /\ i <= p.sent /\ p.cursor \in Nat /\ p.sent \in Nat
            /\ i \in OnItsWay(p)
        BY <1>0, <2>0, NextHeard DEF Pages
      <3>2. p.sent <= Len(LogOf(p)) /\ Len(LogOf(p)) \in Nat
        BY <1>0, <2>0, Followed DEF Streams
      <3>3. QED
        BY <3>1, <3>2
    <2>2. \A j \in Own(p) : j < i => j \in p.seen /\ LogOf(p)[j].kind \notin Outcomes
      BY <1>0, <2>0, NothingBefore
    <2>3. CASE LogOf(p)[i].run = p.run
      <3>1. \A j \in Own(p) : j <= i /\ j \in Int
        BY <2>0, <2>1, <2>3 DEF StoryInv, Own
      <3>2. Own(p) \subseteq q.seen
        <4>1. \A j \in Own(p) : j = i \/ j < i
          BY <2>1, <3>1
        <4>2. QED
          BY <2>2, <4>1
      <3>3. turn[p.run].phase \in {"returning", "over"}
        BY <1>0, <2>1, <2>3, Followed
      <3>4. QED
        BY <1>1, <2>1, <2>3, <3>2, <3>3 DEF HeardAll
    <2>4. CASE LogOf(p)[i].run # p.run
      <3>1. turn[p.run].phase = "over" /\ \A j \in Own(p) : j < i
        BY <2>0, <2>1, <2>4 DEF Heeds
      <3>2. Own(p) \subseteq q.seen /\ \A j \in Own(p) : LogOf(p)[j].kind \notin Outcomes
        BY <2>2, <3>1
      <3>3. crashes # 0
        <4>1. \A j \in 1..Len(log[s]) : ~(log[s][j].run = p.run /\ log[s][j].kind \in Outcomes)
          BY <2>0, <3>2 DEF Own, Telling
        <4>2. QED
          BY <1>2, <2>0, <3>1, <4>1 DEF StoryInv
      <3>4. crashes > 0
        BY <3>3, QueueAssumption DEF StreamInv, QInv, TypeOK
      <3>5. QED
        BY <1>1, <2>1, <3>1, <3>2, <3>4 DEF HeardAll
    <2>5. QED
      BY <2>3, <2>4
  <1>3. QED
    BY <1>0, <1>1, <1>2 DEF PageInv

-----------------------------------------------------------------------------
LEMMA CutFacts ==
  ASSUME NEW p \in Pages, NEW conn \in {"closed", "waiting"}
  PROVE  /\ Cut(p, conn) \in Pages /\ Cut(p, conn).conn = conn /\ Cut(p, conn).pipe = <<>>
         /\ Cut(p, conn).run = p.run /\ Cut(p, conn).cursor = p.cursor
         /\ Cut(p, conn).seen = p.seen /\ Cut(p, conn).end = p.end
  <1>1. <<>> \in Seq(Nat)
    OBVIOUS
  <1>2. QED
    BY <1>1 DEF Cut, Pages

(* What the page knows is about the server's state only.                   *)
LEMMA ServerStill ==
  ASSUME NEW p, UNCHANGED qvars, PageInv(p)
  PROVE  PageInv(p)'
  <1>1. UNCHANGED <<session, turn, log, gone, crashes>>
    BY DEF qvars, rows, tasks
  <1>2. /\ LogOf(p)' = LogOf(p) /\ SessionOf(p.run)' = SessionOf(p.run) /\ Gone' = Gone
        /\ Own(p)' = Own(p) /\ OnItsWay(p)' = OnItsWay(p)
    BY <1>1 DEF LogOf, SessionOf, Gone, Own, OnItsWay
  <1>3. Heeds(p)' = Heeds(p) /\ Streams(p)' = Streams(p) /\ HeardAll(p)' = HeardAll(p)
    BY <1>1, <1>2 DEF Heeds, Streams, HeardAll
  <1>4. QED
    BY <1>1, <1>2, <1>3 DEF PageInv

LEMMA HearKeeps ==
  ASSUME StreamInv, StoryInv, NEW p, NEW q, p = page, q = page', PageInv(p), Hear
  PROVE  PageInv(q)
  <1> DEFINE i == Head(p.pipe)
             took == [p EXCEPT !.pipe = Tail(@)]
             noted == [took EXCEPT !.seen = @ \cup {i}, !.cursor = i, !.end = EndAt(i)]
  <1>1. /\ p \in Pages /\ p.run # NoRun /\ p.conn = "streaming" /\ p.pipe # <<>>
        /\ q = IF KindAt(i) = "recovering" THEN took
               ELSE IF EndAt(i) = "none" THEN noted ELSE Cut(noted, "closed")
    BY DEF PageInv, Hear, Heard
  <1>2. KindAt(i) = LogOf(p)[i].kind
    BY DEF KindAt, Shown, LogOf
  <1>3. i \in Nat /\ Tail(p.pipe) \in Seq(Nat)
    BY <1>1, HeadTailProperties, EmptySeq DEF Pages
  <1>4. EndAt(i) \in {"none", "outcome", "decision"}
        /\ (EndAt(i) = "outcome" <=> KindAt(i) \in Outcomes)
    BY DEF EndAt, Outcomes
  <1>5. /\ took \in Pages /\ took.pipe = Tail(p.pipe) /\ took.run = p.run /\ took.conn = p.conn
        /\ took.sent = p.sent /\ took.cursor = p.cursor /\ took.seen = p.seen /\ took.end = p.end
    BY <1>1, <1>3 DEF Pages
  <1> HIDE DEF took, i
  <1>6. /\ noted \in Pages /\ noted.pipe = Tail(p.pipe) /\ noted.run = p.run /\ noted.conn = p.conn
        /\ noted.sent = p.sent /\ noted.cursor = i /\ noted.seen = p.seen \cup {i}
        /\ noted.end = EndAt(i)
    BY <1>3, <1>4, <1>5 DEF Pages
  <1> HIDE DEF noted
  <1>7. CASE KindAt(i) = "recovering"
    <2>1. q = took
      BY <1>1, <1>7
    <2>2. i \notin Own(p) /\ LogOf(p)[i].kind \notin Outcomes
      BY <1>2, <1>7 DEF Own, Telling, Outcomes
    <2>3. QED
      BY <1>1, <1>5, <2>1, <2>2, ListensOn DEF i
  <1>8. CASE KindAt(i) # "recovering" /\ EndAt(i) = "none"
    <2>1. q = noted /\ LogOf(p)[i].kind \notin Outcomes
      BY <1>1, <1>2, <1>4, <1>8
    <2>2. QED
      BY <1>1, <1>6, <1>8, <2>1, ListensOn DEF i
  <1>9. CASE KindAt(i) # "recovering" /\ EndAt(i) # "none"
    <2>1. q = Cut(noted, "closed")
      BY <1>1, <1>9
    <2>2. /\ q \in Pages /\ q.conn = "closed" /\ q.run = p.run /\ q.cursor = i
          /\ q.seen = p.seen \cup {i} /\ q.end = EndAt(i)
      BY <1>6, <2>1, CutFacts
    <2>3. CASE EndAt(i) = "outcome"
      BY <1>1, <1>2, <1>4, <2>2, <2>3, StopsAtOutcome DEF i
    <2>4. CASE EndAt(i) = "decision"
      BY <1>1, <2>2, <2>4 DEF PageInv
    <2>5. QED
      BY <1>4, <1>9, <2>3, <2>4
  <1>10. QED
    BY <1>7, <1>8, <1>9

LEMMA PageStepKeeps ==
  ASSUME StreamInv, StoryInv, NEW p, NEW q, p = page, q = page', PageInv(p), PageStep \/ Break
  PROVE  PageInv(q) /\ UNCHANGED qvars
  <1>0. UNCHANGED qvars
    BY DEF PageStep, Connect, Send, Hear, Break
  <1>1. CASE Connect
    <2>1. /\ p \in Pages /\ p.conn = "waiting"
          /\ q = [p EXCEPT !.conn = "streaming", !.sent = p.cursor]
      BY <1>1 DEF Connect, PageInv
    <2>2. /\ q \in Pages /\ q.conn = "streaming" /\ q.sent = p.cursor /\ q.pipe = p.pipe
          /\ q.run = p.run /\ q.cursor = p.cursor /\ q.seen = p.seen /\ q.end = p.end
      BY <2>1 DEF Pages
    <2>3. QED
      BY <1>0, <2>1, <2>2, ConnectKeeps
  <1>2. CASE Send
    <2> DEFINE g == gone[SessionOf(p.run)]
    <2>1. p \in Pages /\ p.conn = "streaming" /\ p.run # NoRun /\ p.sent \in Nat /\ p.pipe \in Seq(Nat)
      BY <1>2 DEF Send, PageInv, Pages
    <2>2. g \in Nat
      BY <2>1, Followed
    <2>3. PICK next : next = (IF p.sent > g THEN p.sent ELSE g) + 1
      OBVIOUS
    <2>4. next <= Len(LogOf(p)) /\ q = [p EXCEPT !.sent = next, !.pipe = Append(@, next)]
      BY <1>2, <2>3 DEF Send, Shown, LogOf
    <2> HIDE DEF g
    <2>5. next \in Nat /\ next > p.sent /\ next > g /\ (next = p.sent + 1 \/ next = g + 1)
      BY <2>1, <2>2, <2>3
    <2>6. Append(p.pipe, next) \in Seq(Nat)
      BY <2>1, <2>5
    <2>7. /\ q \in Pages /\ q.conn = "streaming" /\ q.sent = next /\ q.pipe = Append(p.pipe, next)
          /\ q.run = p.run /\ q.cursor = p.cursor /\ q.seen = p.seen /\ q.end = p.end
      BY <2>1, <2>4, <2>5, <2>6 DEF Pages
    <2>8. QED
      BY <1>0, <2>1, <2>4, <2>5, <2>7, SendKeeps DEF g
  <1>3. CASE Hear
    BY <1>0, <1>3, HearKeeps
  <1>4. CASE Break
    <2>1. p \in Pages /\ p.conn = "streaming" /\ q = Cut(p, "waiting")
      BY <1>4 DEF Break, PageInv
    <2>2. QED
      BY <1>0, <2>1, CutFacts, CutKeeps
  <1>5. QED
    BY <1>1, <1>2, <1>3, <1>4 DEF PageStep

(* A page that begins to follow a run starts behind all there is, and its  *)
(* run has told nothing.                                                   *)
LEMMA FollowKeeps ==
  ASSUME StreamInv, NEW s \in Sessions, NEW r \in Runs, NEW retry \in BOOLEAN,
         SubmitFollowed(s, r, retry), NEW q, q = page'
  PROVE  PageInv(q)'
  <1>0. TypeOK /\ TurnInv /\ LogInv
    BY DEF StreamInv, QInv
  <1>1. /\ turn[r].phase = "none" /\ UNCHANGED <<session, log, gone>>
        /\ turn' = [turn EXCEPT ![r] = [session |-> s, phase |-> "queued", retry |-> retry]]
        /\ q = Follow(r, s)
    BY DEF SubmitFollowed, Submit, rows
  <1>2. turn'[r].session = s /\ turn'[r].phase = "queued"
    BY <1>0, <1>1 DEF TypeOK
  <1>3. Len(log[s]) \in Nat /\ gone[s] \in Nat /\ LastEventId(s) \in Nat
        /\ (LastEventId(s) = Len(log[s]) \/ (LastEventId(s) = 0 /\ gone[s] = Len(log[s])))
    BY <1>0 DEF TypeOK, LastEventId
  <1>4. /\ q \in Pages /\ q.run = r /\ q.conn = "waiting" /\ q.cursor = LastEventId(s)
        /\ q.pipe = <<>> /\ q.end = "none"
    <2>1. q = [run |-> r, conn |-> "waiting", cursor |-> LastEventId(s), sent |-> 0, pipe |-> <<>>,
               seen |-> {}, end |-> "none"]
      BY <1>1 DEF Follow, NoPage
    <2>2. <<>> \in Seq(Nat)
      OBVIOUS
    <2>3. QED
      BY <1>3, <2>1, <2>2 DEF Pages
  <1>5. LogOf(q)' = log[s] /\ SessionOf(q.run)' = s /\ OnItsWay(q)' = {} /\ r # NoRun
    BY <1>1, <1>2, <1>4 DEF LogOf, SessionOf, OnItsWay, NoRun, Runs
  <1>6. \A i \in 1..Len(log[s]) : log[s][i].run # r
    BY <1>0, <1>1, QueueAssumption DEF LogInv, TurnInv
  <1>7. Own(q)' = {}
    BY <1>4, <1>5, <1>6 DEF Own
  <1>8. q.cursor <= Len(log[s]) /\ \A i \in 1..Len(log[s]) : i <= q.cursor \/ i <= gone'[s]
    BY <1>1, <1>3, <1>4
  <1>9. Heeds(q)'
    BY <1>5, <1>7, <1>8 DEF Heeds
  <1>10. QED
    BY <1>2, <1>4, <1>5, <1>9 DEF PageInv

(* Only a clean-up moves the end of what is gone from a session that is    *)
(* still there, and it spares the events of a turn that began.             *)
LEMMA PageKeeps ==
  ASSUME ClientInv, StreamInv', [StreamNext]_svars
  PROVE  PageInv(page)'
  <1>0. StreamInv /\ StoryInv /\ GoesOn /\ TypeOK
    BY StreamGoesOn DEF ClientInv, StreamInv, QInv
  <1>1. PICK p : p = page
    OBVIOUS
  <1>2. PICK q : q = page'
    OBVIOUS
  <1>3. PageInv(p)
    BY <1>1 DEF ClientInv
  <1>4. p.run # NoRun => p.run \in Runs /\ SessionOf(p.run) \in Sessions
    BY <1>0, <1>3, Followed
  <1>5. PageInv(q)' => PageInv(page)'
    BY <1>2
  <1>6. ASSUME NEW x, PageInv(x), \A s \in Sessions : s \notin Gone' => gone'[s] = gone[s]
        PROVE  PageInv(x)'
    BY <1>0, <1>6, Followed, PageStays
  <1>7. CASE ServerStep
    <2>1. CASE Unseen /\ UNCHANGED page
      <3>1. ASSUME NEW s \in Sessions, s \notin Gone' PROVE gone'[s] = gone[s]
        BY <1>0, <2>1, <3>1 DEF Unseen, CreateSession, DeleteSession, Submit, RunStep, Begin,
           BeginDeleted, BeginEmpty, Fail, Answer, Finish, FinishTask, Restart, rows, TypeOK, Gone
      <3>2. QED
        BY <1>1, <1>2, <1>3, <1>5, <1>6, <2>1, <3>1
    <2>2. ASSUME NEW s \in Sessions, NEW r \in Runs, NEW retry \in BOOLEAN, SubmitFollowed(s, r, retry)
          PROVE  PageInv(page)'
      BY <1>0, <1>2, <1>5, <2>2, FollowKeeps
    <2>3. CASE CrashCuts
      <3>1. gone' = gone
        BY <2>3 DEF CrashCuts, Crash, rows
      <3>2. CASE p.conn = "streaming"
        <4>1. q = Cut(p, "waiting") /\ p \in Pages
          BY <1>1, <1>2, <1>3, <2>3, <3>2 DEF CrashCuts, PageInv
        <4>2. PageInv(q)
          BY <1>3, <3>2, <4>1, CutFacts, CutKeeps
        <4>3. QED
          BY <1>5, <1>6, <3>1, <4>2
      <3>3. CASE p.conn # "streaming"
        <4>1. page' = page
          BY <1>1, <2>3, <3>3 DEF CrashCuts
        <4>2. QED
          BY <1>1, <1>2, <1>3, <1>5, <1>6, <3>1, <4>1
      <3>4. QED
        BY <3>2, <3>3
    <2>4. ASSUME NEW s \in Sessions, CleanupBehind(s) PROVE PageInv(page)'
      <3>1. page' = page /\ log' = log
        BY <2>4 DEF CleanupBehind, CleansUp, Cleanup
      <3>2. PICK n \in gone[s]..Len(log[s]) : gone' = [gone EXCEPT ![s] = n]
        BY <2>4 DEF CleanupBehind, CleansUp, Cleanup
      <3>3. /\ gone'[s] >= gone[s] /\ gone[s] \in Nat
            /\ \A t \in Sessions : t # s => gone'[t] = gone[t]
        BY <1>0, <3>2 DEF TypeOK
      <3>4. CASE p.run # NoRun /\ p.conn # "closed" /\ SessionOf(p.run) = s
        <4>1. turn[p.run].phase = "queued"
          BY <1>1, <2>4, <3>4 DEF CleanupBehind, Following, Shown
        <4>2. Own(p) = {}
          <5>1. \A i \in 1..Len(log[s]) :
                  /\ log[s][i].kind = "run_started" => turn[log[s][i].run].phase # "queued"
                  /\ log[s][i].kind \in Outcomes => turn[log[s][i].run].phase \in {"returning", "over"}
            BY <1>0 DEF StoryInv, StreamInv, QInv, LogInv
          <5>2. QED
            BY <3>4, <4>1, <5>1 DEF Own, LogOf, Telling
        <4>3. PageInv(p)'
          BY <1>0, <1>3, <3>1, <3>3, <3>4, <4>2, PageStays
        <4>4. QED
          BY <1>1, <1>2, <1>5, <3>1, <4>3
      <3>5. CASE ~(p.run # NoRun /\ p.conn # "closed" /\ SessionOf(p.run) = s)
        <4>1. PageInv(p)'
          BY <1>0, <1>3, <1>4, <3>3, <3>5, PageStays
        <4>2. QED
          BY <1>1, <1>2, <1>5, <3>1, <4>1
      <3>6. QED
        BY <3>4, <3>5
    <2>5. QED
      BY <1>7, <2>1, <2>2, <2>3, <2>4 DEF ServerStep
  <1>8. ASSUME NEW r \in Runs, DecideCard(r) PROVE PageInv(page)'
    <2>1. gone' = gone /\ page' = page
      BY <1>8 DEF DecideCard
    <2>2. QED
      BY <1>1, <1>2, <1>3, <1>5, <1>6, <2>1
  <1>9. CASE PageStep \/ Break
    <2>1. PageInv(q) /\ UNCHANGED qvars
      BY <1>0, <1>1, <1>2, <1>3, <1>9, PageStepKeeps
    <2>2. QED
      BY <1>5, <2>1, ServerStill
  <1>10. CASE UNCHANGED svars
    <2>1. UNCHANGED qvars /\ page' = page
      BY <1>10 DEF svars
    <2>2. QED
      BY <1>1, <1>2, <1>3, <1>5, <2>1, ServerStill
  <1>11. QED
    BY <1>7, <1>8, <1>9, <1>10 DEF StreamNext

LEMMA InitClient == StreamInit => ClientInv
  <1> SUFFICES ASSUME StreamInit PROVE ClientInv
    OBVIOUS
  <1>1. StreamInv
    BY InitStream
  <1>2. page = NoPage /\ NoPage \in Pages
    <2>1. <<>> \in Seq(Nat)
      OBVIOUS
    <2>2. QED
      BY <2>1 DEF StreamInit, NoPage, Pages
  <1>3. PageInv(page)
    BY <1>2 DEF PageInv, NoPage
  <1>4. StoryInv
    <2>1. \A s \in Sessions : Len(log[s]) = 0
      BY DEF StreamInit, Init
    <2>2. \A r \in Runs : turn[r].phase = "none"
      BY DEF StreamInit, Init
    <2>3. QED
      BY <2>1, <2>2 DEF StoryInv
  <1>5. QED
    BY <1>1, <1>3, <1>4 DEF ClientInv

LEMMA ClientStep ==
  ASSUME ClientInv, [StreamNext]_svars
  PROVE  ClientInv'
  <1>1. StreamInv' /\ StoryInv'
    BY StreamStep, StreamGoesOn, StoryStep DEF ClientInv
  <1>2. QED
    BY <1>1, PageKeeps DEF ClientInv

(* A page that stopped at an outcome heard all its run had to tell, in any *)
(* number of broken connections, restarts, clean-ups and other tabs:       *)
(* the cursor of the next connection never passes an unheard event         *)
(* (web/app.py events, static/app.js watchEvents, db.py list_events).      *)
THEOREM PagesMissNothing == StreamSpec => []ClientMissesNothing
  <1>1. ASSUME ClientInv PROVE ClientMissesNothing
    <2> SUFFICES ASSUME page.end = "outcome", Shown \notin Gone
                 PROVE  /\ \A i \in 1..Len(log[Shown]) :
                             log[Shown][i].run = page.run /\ log[Shown][i].kind \in Outcomes \cup {"run_started"}
                               => i \in page.seen
                        /\ log[Shown][page.cursor].run # page.run
                             => crashes > 0 /\ OutcomeOf(page.run) = {}
      BY DEF ClientMissesNothing
    <2>1. PageInv(page) /\ page.run # NoRun /\ HeardAll(page) /\ LogOf(page) = log[Shown]
      BY <1>1 DEF ClientInv, PageInv, Shown, LogOf
    <2>2. ASSUME \A i \in Own(page) : LogOf(page)[i].kind \notin Outcomes
          PROVE  OutcomeOf(page.run) = {}
      <3>1. \A i \in 1..Len(log[Shown]) : ~(log[Shown][i].run = page.run /\ log[Shown][i].kind \in Outcomes)
        BY <2>1, <2>2 DEF Own, Telling
      <3>2. QED
        BY <3>1 DEF OutcomeOf, Shown
    <2>3. QED
      BY <2>1, <2>2 DEF HeardAll, Own, Telling
  <1>2. QED
    BY <1>1, InitClient, ClientStep, PTL DEF StreamSpec

-----------------------------------------------------------------------------
(***************************************************************************)
(* Accounts: TurnQueue and the owners of its rows.                         *)
(***************************************************************************)

(* The context of a turn that began has an owner; of a run that did not    *)
(* begin nothing is booked.                                                *)
HeldInv ==
  \A r \in Runs :
    /\ turn[r].phase \in Begun => held[r] # NoOwner
    /\ turn[r].phase \in Begun /\ r \notin straddled /\ session[SessionOf(r)] = "open"
         => held[r] = owner[SessionOf(r)]
    /\ turn[r].phase = "none" => runOwner[r] = NoOwner
    /\ turn[r].phase \in {"none", "queued"} => \A c \in calls : c.run # r

(* A turn that still runs in a deleted session was caught by the deletion. *)
CaughtInv ==
  \A r \in Runs : turn[r].phase \in Begun /\ SessionOf(r) \in Gone => r \in caught

AInv ==
  QInv /\ AccountsTypeOK /\ HeldInv /\ CaughtInv /\ RowsFollowOwner /\ DeletedLeavesNothing

-----------------------------------------------------------------------------
(* What Accounts does to the queue is a step of the queue, or nothing.     *)
LEMMA QueueSteps ==
  ASSUME [AccountsNext]_avars
  PROVE  [Next]_qvars
  <1>1. ASSUME NEW u \in Users, CreateUser(u) \/ DisableUser(u) \/ Login(u) \/ Logout(u)
        PROVE  UNCHANGED qvars
    BY <1>1 DEF CreateUser, DisableUser, Login, Logout
  <1>2. ASSUME NEW s \in Sessions,
               \/ CreateOwned(s) \/ DeleteOwned(s) \/ CleansUp(s)
               \/ \E r \in Runs, retry \in BOOLEAN : SubmitOwned(s, r, retry)
        PROVE  Next
    BY <1>2 DEF CreateOwned, DeleteOwned, SubmitOwned, Next, SessionStep
  <1>3. ASSUME NEW r \in Runs, TurnStep(r) PROVE Next
    BY <1>3 DEF TurnStep, BeginOwned, AnswerOwned, Unowned, Next, RunStep
  <1>4. ASSUME NEW r \in Runs, RecordCall(r) \/ RecordSearch(r) PROVE UNCHANGED qvars
    BY <1>4 DEF RecordCall, RecordSearch
  <1>5. CASE Crash \/ RestartOwned
    BY <1>5 DEF RestartOwned, Next
  <1>6. CASE UNCHANGED avars
    BY <1>6 DEF avars
  <1>7. QED
    BY <1>1, <1>2, <1>3, <1>4, <1>5, <1>6 DEF AccountsNext

LEMMA InitAInv == AccountsInit => AInv
  <1> SUFFICES ASSUME AccountsInit PROVE AInv
    OBVIOUS
  <1>1. QInv /\ Init
    BY InitQInv DEF AccountsInit
  <1>2. \A r \in Runs : turn[r].phase = "none" /\ SessionOf(r) = NoSession
    BY <1>1 DEF Init, SessionOf
  <1>3. AccountsTypeOK
    BY <1>1 DEF AccountsInit, Init, AccountsTypeOK, QInv
  <1>4. HeldInv /\ CaughtInv
    BY <1>2 DEF AccountsInit, HeldInv, CaughtInv, Begun
  <1>5. RowsFollowOwner /\ DeletedLeavesNothing
    BY <1>1 DEF Init, RowsFollowOwner, DeletedLeavesNothing, Gone
  <1>6. QED
    BY <1>1, <1>3, <1>4, <1>5 DEF AInv

-----------------------------------------------------------------------------
(* Steps of the accounts.                                                  *)
LEMMA OwnersDiffer ==
  /\ \A u \in Users : u # Local /\ u # NoOwner /\ u \in Owners
  /\ Local \in Owners /\ Local # NoOwner
  BY OwnersAssumption DEF Owners

LEMMA CreateUserKeeps ==
  ASSUME AInv, QInv', NEW u \in Users, CreateUser(u)
  PROVE  AInv'
  <1> USE DEF AInv
  <1>1. /\ UNCHANGED <<session, asked, row, log, gone, turn, caught, up, auth, login, runOwner, held>>
        /\ users' = [users EXCEPT ![u] = "active"] /\ users[u] = "absent"
    BY DEF CreateUser, qvars, rows, tasks
  <1>2. TypeOK'
    BY DEF QInv
  <1>3. CASE Active # {}
    <2>1. UNCHANGED <<owner, calls, straddled>>
      BY <1>3 DEF CreateUser
    <2>2. AccountsTypeOK'
      BY <1>1, <1>2, <2>1 DEF AccountsTypeOK
    <2>3. HeldInv' /\ CaughtInv'
      BY <1>1, <2>1 DEF HeldInv, CaughtInv, SessionOf, Gone
    <2>4. RowsFollowOwner' /\ DeletedLeavesNothing'
      BY <1>1, <2>1 DEF RowsFollowOwner, DeletedLeavesNothing, SessionOf, RunsOf, Gone, CallsOf
    <2>5. QED
      BY <2>2, <2>3, <2>4
  <1>4. CASE Active = {}
    <2>1. /\ owner' = [s \in Sessions |-> IF owner[s] = Local THEN u ELSE owner[s]]
          /\ calls' = {[c EXCEPT !.owner = IF @ = Local THEN u ELSE @] : c \in calls}
          /\ straddled' = straddled \cup {r \in Runs : held[r] = Local /\ turn[r].phase \in Begun}
      BY <1>4 DEF CreateUser, TakeOver
    <2>2. /\ owner' \in [Sessions -> Owners \cup {NoOwner}]
          /\ \A s \in Sessions : owner'[s] = NoOwner <=> owner[s] = NoOwner
      BY <2>1, OwnersDiffer DEF AccountsTypeOK
    <2>3. calls' \subseteq Calls
      BY <2>1, OwnersDiffer DEF AccountsTypeOK, Calls
    <2>4. AccountsTypeOK'
      BY <1>1, <1>2, <2>1, <2>2, <2>3 DEF AccountsTypeOK
    <2>5. \A d \in calls' : \E c \in calls :
            /\ d.run = c.run /\ d.site = c.site
            /\ d.owner = IF c.owner = Local THEN u ELSE c.owner
      BY <2>1 DEF AccountsTypeOK, Calls
    <2>6. HeldInv'
      <3> SUFFICES ASSUME NEW r \in Runs
                   PROVE  /\ turn[r].phase \in Begun => held[r] # NoOwner
                          /\ turn[r].phase \in Begun /\ r \notin straddled'
                               /\ session[SessionOf(r)] = "open" => held[r] = owner'[SessionOf(r)]
                          /\ turn[r].phase = "none" => runOwner[r] = NoOwner
                          /\ turn[r].phase \in {"none", "queued"} =>
                               \A c \in calls' : c.run # r
        BY <1>1 DEF HeldInv, SessionOf
      <3>1. turn[r].phase \in Begun => held[r] # NoOwner
        BY DEF HeldInv
      <3>2. /\ turn[r].phase = "none" => runOwner[r] = NoOwner
            /\ turn[r].phase \in {"none", "queued"} => \A c \in calls' : c.run # r
        BY <2>5 DEF HeldInv
      <3>3. ASSUME turn[r].phase \in Begun, r \notin straddled', session[SessionOf(r)] = "open"
            PROVE  held[r] = owner'[SessionOf(r)]
        <4>1. r \notin straddled /\ held[r] # Local
          BY <2>1, <3>3
        <4>2. held[r] = owner[SessionOf(r)]
          BY <3>3, <4>1 DEF HeldInv
        <4>3. SessionOf(r) \in Sessions
          BY <3>3, HasSession DEF QInv, Begun
        <4>4. QED
          BY <2>1, <4>1, <4>2, <4>3
      <3>4. QED
        BY <3>1, <3>2, <3>3
    <2>7. CaughtInv'
      BY <1>1 DEF CaughtInv, SessionOf, Gone
    <2>8. RowsFollowOwner'
      <3> SUFFICES ASSUME NEW s \in Sessions, NEW r \in Runs, session[s] = "open", r \in RunsOf(s)
                   PROVE  /\ r \notin straddled' =>
                               \A d \in calls' : d.run = r =>
                                 d.owner = owner'[s] \/ (d.site = "search" /\ held[r] # Local)
                          /\ runOwner[r] \in {owner'[s], Local, NoOwner}
        BY <1>1 DEF RowsFollowOwner, RunsOf, SessionOf
      <3>1. ASSUME r \notin straddled', NEW d \in calls', d.run = r
            PROVE  d.owner = owner'[s] \/ (d.site = "search" /\ held[r] # Local)
        <4>1. PICK c \in calls : /\ d.run = c.run /\ d.site = c.site
                                 /\ d.owner = IF c.owner = Local THEN u ELSE c.owner
          BY <2>5
        <4>2. c.owner = owner[s] \/ (c.site = "search" /\ held[r] # Local)
          BY <2>1, <3>1, <4>1 DEF RowsFollowOwner
        <4>3. QED
          BY <2>1, <4>1, <4>2
      <3>2. runOwner[r] \in {owner'[s], Local, NoOwner}
        BY <2>1 DEF RowsFollowOwner
      <3>3. QED
        BY <3>1, <3>2
    <2>9. DeletedLeavesNothing'
      <3> SUFFICES ASSUME NEW s \in Gone, RunsOf(s) \cap caught = {}
                   PROVE  gone[s] = Len(log[s]) /\ (\A r \in RunsOf(s) : row[r] = "absent")
                          /\ \A d \in calls' : d.run \notin RunsOf(s)
        BY <1>1 DEF DeletedLeavesNothing, Gone, RunsOf, SessionOf, CallsOf
      <3>1. \A c \in calls : c.run \notin RunsOf(s)
        BY DEF DeletedLeavesNothing, CallsOf
      <3>2. QED
        BY <2>5, <3>1 DEF DeletedLeavesNothing
    <2>10. QED
      BY <2>4, <2>6, <2>7, <2>8, <2>9
  <1>5. QED
    BY <1>3, <1>4

(* Whoever is disabled, logs in or out: the rows keep their owners.        *)
LEMMA LoginKeeps ==
  ASSUME AInv, QInv', NEW u \in Users, DisableUser(u) \/ Login(u) \/ Logout(u)
  PROVE  AInv'
  <1> USE DEF AInv
  <1>1. UNCHANGED <<session, log, gone, row, turn, caught, auth, owner, runOwner, held, calls, straddled>>
    BY DEF DisableUser, Login, Logout, qvars, rows, tasks, owners
  <1>2. /\ users' \in [Users -> {"absent", "active", "disabled"}]
        /\ login' \subseteq {v \in Users : users'[v] = "active"}
    BY DEF DisableUser, Login, Logout, AccountsTypeOK
  <1>3. AccountsTypeOK'
    BY <1>1, <1>2 DEF AccountsTypeOK, QInv
  <1>4. HeldInv' /\ CaughtInv' /\ RowsFollowOwner' /\ DeletedLeavesNothing'
    BY <1>1 DEF HeldInv, CaughtInv, RowsFollowOwner, DeletedLeavesNothing, SessionOf, RunsOf, Gone,
                CallsOf
  <1>5. QED
    BY <1>3, <1>4

-----------------------------------------------------------------------------
(* Steps of the sessions.                                                  *)
LEMMA CreateKeeps ==
  ASSUME AInv, QInv', NEW s \in Sessions, CreateOwned(s)
  PROVE  AInv'
  <1> USE DEF AInv
  <1>1. /\ session[s] = "none" /\ session' = [session EXCEPT ![s] = "open"]
        /\ UNCHANGED <<row, log, gone, turn, caught, auth, users, login, runOwner, held, calls, straddled>>
    BY DEF CreateOwned, CreateSession, tasks, accounts
  <1>2. PICK c \in Callers : owner' = [owner EXCEPT ![s] = c]
    BY DEF CreateOwned
  <1>3. c \in Owners /\ c # NoOwner
    BY OwnersDiffer DEF Callers, AccountsTypeOK
  <1>4. session \in [Sessions -> {"none", "open", "deleted"}]
    BY DEF QInv, TypeOK
  <1>5. AccountsTypeOK'
    <2>1. \A t \in Sessions : owner'[t] = NoOwner <=> session'[t] # "open"
      BY <1>1, <1>2, <1>3, <1>4 DEF AccountsTypeOK
    <2>2. owner' \in [Sessions -> Owners \cup {NoOwner}]
      BY <1>2, <1>3 DEF AccountsTypeOK
    <2>3. TypeOK'
      BY DEF QInv
    <2>4. /\ auth' \in BOOLEAN /\ users' \in [Users -> {"absent", "active", "disabled"}]
          /\ login' \subseteq {u \in Users : users'[u] = "active"}
          /\ runOwner' \in [Runs -> Owners \cup {NoOwner}] /\ held' \in [Runs -> Owners \cup {NoOwner}]
          /\ calls' \subseteq Calls /\ straddled' \in SUBSET Runs
      BY <1>1 DEF AccountsTypeOK
    <2>5. QED
      BY <2>1, <2>2, <2>3, <2>4 DEF AccountsTypeOK
  <1>6. \A r \in Runs : SessionOf(r) # s
    <2> TAKE r \in Runs
    <2>1. session[s] = "none"
      BY DEF CreateOwned, CreateSession
    <2>2. CASE turn[r].phase = "none"
      BY <2>2, QueueAssumption DEF QInv, TurnInv, SessionOf
    <2>3. CASE turn[r].phase # "none"
      BY <2>1, <2>3 DEF QInv, TurnInv, SessionOf
    <2>4. QED
      BY <2>2, <2>3
  <1>7. \A t \in Sessions : t # s => session'[t] = session[t] /\ owner'[t] = owner[t]
    BY <1>1, <1>2
  <1>8. RunsOf(s) = {} /\ \A r \in Runs : turn[r].phase # "none" => SessionOf(r) \in Sessions
    BY <1>6, HasSession DEF RunsOf, QInv
  <1>9. HeldInv'
    <2>1. \A r \in Runs : turn[r].phase \in Begun =>
            SessionOf(r) \in Sessions /\ SessionOf(r) # s
      BY <1>6, <1>8 DEF Begun
    <2>2. QED
      BY <1>1, <1>7, <2>1 DEF HeldInv, SessionOf
  <1>10. Gone' = Gone
    BY <1>1, <1>4 DEF Gone
  <1>11. CaughtInv' /\ DeletedLeavesNothing'
    BY <1>1, <1>10 DEF CaughtInv, DeletedLeavesNothing, SessionOf, RunsOf, CallsOf
  <1>12. RowsFollowOwner'
    BY <1>1, <1>7, <1>8 DEF RowsFollowOwner, RunsOf, SessionOf
  <1>13. QED
    BY <1>5, <1>9, <1>11, <1>12

LEMMA DeleteKeeps ==
  ASSUME AInv, QInv', NEW s \in Sessions, DeleteOwned(s)
  PROVE  AInv'
  <1> USE DEF AInv
  <1>1. /\ session[s] = "open" /\ session' = [session EXCEPT ![s] = "deleted"]
        /\ row' = [r \in Runs |-> IF r \in RunsOf(s) THEN "absent" ELSE row[r]]
        /\ gone' = [gone EXCEPT ![s] = Len(log[s])]
        /\ caught' = caught \cup {r \in RunsOf(s) : turn[r].phase \in Begun}
        /\ owner' = [owner EXCEPT ![s] = NoOwner]
        /\ runOwner' = [r \in Runs |-> IF r \in RunsOf(s) THEN NoOwner ELSE runOwner[r]]
        /\ calls' = calls \ CallsOf(s)
        /\ UNCHANGED <<log, turn, auth, users, login, held, straddled>>
    BY DEF DeleteOwned, DeleteSession, tasks, accounts
  <1>2. session \in [Sessions -> {"none", "open", "deleted"}] /\ gone \in [Sessions -> Nat]
    BY DEF QInv, TypeOK
  <1>3. \A t \in Sessions : t # s => session'[t] = session[t] /\ owner'[t] = owner[t] /\ gone'[t] = gone[t]
    BY <1>1, <1>2 DEF AccountsTypeOK
  <1>4. session'[s] = "deleted" /\ owner'[s] = NoOwner /\ gone'[s] = Len(log[s])
    BY <1>1, <1>2 DEF AccountsTypeOK
  <1>5. AccountsTypeOK'
    <2>1. runOwner' \in [Runs -> Owners \cup {NoOwner}]
      BY <1>1 DEF AccountsTypeOK
    <2>2. \A t \in Sessions : owner'[t] = NoOwner <=> session'[t] # "open"
      BY <1>3, <1>4 DEF AccountsTypeOK
    <2>3. QED
      BY <1>1, <2>1, <2>2 DEF AccountsTypeOK, QInv
  <1>6. HeldInv'
    <2> SUFFICES ASSUME NEW r \in Runs
                 PROVE  /\ turn[r].phase \in Begun => held[r] # NoOwner
                        /\ turn[r].phase \in Begun /\ r \notin straddled
                             /\ session'[SessionOf(r)] = "open" => held[r] = owner'[SessionOf(r)]
                        /\ turn[r].phase = "none" => runOwner'[r] = NoOwner
                        /\ turn[r].phase \in {"none", "queued"} => \A c \in calls' : c.run # r
      BY <1>1 DEF HeldInv, SessionOf
    <2>1. turn[r].phase \in Begun => SessionOf(r) \in Sessions
      BY HasSession DEF QInv, Begun
    <2>2. QED
      BY <1>1, <1>3, <1>4, <2>1 DEF HeldInv
  <1>7. Gone' = Gone \cup {s}
    BY <1>3, <1>4 DEF Gone
  <1>8. CaughtInv'
    BY <1>1, <1>7 DEF CaughtInv, SessionOf, RunsOf
  <1>9. RowsFollowOwner'
    BY <1>1, <1>3, <1>4 DEF RowsFollowOwner, RunsOf, SessionOf
  <1>10. DeletedLeavesNothing'
    <2> SUFFICES ASSUME NEW t \in Gone \cup {s}, RunsOf(t) \cap caught' = {}
                 PROVE  /\ gone'[t] = Len(log[t])
                        /\ \A r \in RunsOf(t) : row'[r] = "absent"
                        /\ \A c \in calls' : c.run \notin RunsOf(t)
      BY <1>1, <1>7 DEF DeletedLeavesNothing, RunsOf, SessionOf, CallsOf
    <2>1. CASE t = s
      BY <1>1, <1>4, <2>1 DEF CallsOf, RunsOf
    <2>2. CASE t # s
      <3>1. t \in Gone /\ RunsOf(t) \cap caught = {}
        BY <1>1, <2>2
      <3>2. gone'[t] = Len(log[t])
        BY <1>3, <2>2, <3>1 DEF Gone, DeletedLeavesNothing
      <3>3. QED
        BY <1>1, <3>1, <3>2 DEF DeletedLeavesNothing, CallsOf, RunsOf
    <2>3. QED
      BY <2>1, <2>2
  <1>11. QED
    BY <1>5, <1>6, <1>8, <1>9, <1>10

LEMMA CleanupKeeps ==
  ASSUME AInv, QInv', NEW s \in Sessions, CleansUp(s), UNCHANGED <<accounts, owners>>
  PROVE  AInv'
  <1> USE DEF AInv
  <1>1. PICK n \in gone[s]..Len(log[s]), keep \in BOOLEAN : Cleanup(s, n, keep)
    BY DEF CleansUp
  <1>2. UNCHANGED <<session, row, log, turn, caught, auth, users, login, owner, runOwner, held, calls,
                    straddled>> /\ gone' = [gone EXCEPT ![s] = n]
    BY <1>1 DEF Cleanup, tasks, accounts, owners
  <1>3. AccountsTypeOK'
    BY <1>2 DEF AccountsTypeOK, QInv
  <1>4. HeldInv' /\ CaughtInv' /\ RowsFollowOwner'
    BY <1>2 DEF HeldInv, CaughtInv, RowsFollowOwner, SessionOf, RunsOf, Gone
  <1>5. DeletedLeavesNothing'
    <2>1. gone \in [Sessions -> Nat] /\ Len(log[s]) \in Nat
      BY DEF QInv, TypeOK
    <2>2. \A t \in Sessions : gone[t] = Len(log[t]) => gone'[t] = Len(log[t])
      BY <1>2, <2>1
    <2>3. QED
      BY <1>2, <2>2 DEF DeletedLeavesNothing, Gone, RunsOf, SessionOf, CallsOf
  <1>6. QED
    BY <1>3, <1>4, <1>5

LEMMA SubmitOwnedKeeps ==
  ASSUME AInv, QInv', NEW s \in Sessions, NEW r \in Runs, NEW retry \in BOOLEAN,
         SubmitOwned(s, r, retry)
  PROVE  AInv'
  <1> USE DEF AInv
  <1>1. /\ UNCHANGED <<session, row, log, gone, caught, auth, users, login, owner, runOwner, held, calls,
                       straddled>>
        /\ session[s] = "open" /\ turn[r].phase = "none"
        /\ turn' = [turn EXCEPT ![r] = [session |-> s, phase |-> "queued", retry |-> retry]]
    BY DEF SubmitOwned, Submit, Submittable, rows, accounts, owners
  <1>2. /\ turn'[r].session = s /\ turn'[r].phase = "queued"
        /\ \A q \in Runs : q # r => turn'[q] = turn[q]
    BY <1>1 DEF QInv, TypeOK
  <1>3. AccountsTypeOK'
    BY <1>1 DEF AccountsTypeOK, QInv
  <1>4. runOwner[r] = NoOwner /\ \A c \in calls : c.run # r
    BY <1>1 DEF HeldInv
  <1>5. HeldInv' /\ CaughtInv'
    BY <1>1, <1>2 DEF HeldInv, CaughtInv, SessionOf, Begun, Gone
  <1>6. RowsFollowOwner'
    <2> SUFFICES ASSUME NEW t \in Sessions, NEW q \in Runs, session[t] = "open", turn'[q].session = t
                 PROVE  /\ q \notin straddled =>
                             \A c \in calls : c.run = q =>
                               c.owner = owner[t] \/ (c.site = "search" /\ held[q] # Local)
                        /\ runOwner[q] \in {owner[t], Local, NoOwner}
      BY <1>1 DEF RowsFollowOwner, RunsOf, SessionOf
    <2>1. QED
      BY <1>2, <1>4 DEF RowsFollowOwner, RunsOf, SessionOf
  <1>7. DeletedLeavesNothing'
    <2>1. \A t \in Gone : RunsOf(t)' = RunsOf(t)
      <3>1. SessionOf(r) = NoSession /\ NoSession \notin Sessions /\ s \notin Gone
        BY <1>1, QueueAssumption DEF QInv, TurnInv, Gone
      <3>2. QED
        BY <1>2, <3>1 DEF RunsOf, SessionOf, Gone
    <2>2. QED
      BY <1>1, <2>1 DEF DeletedLeavesNothing, Gone, CallsOf
  <1>8. QED
    BY <1>3, <1>5, <1>6, <1>7

-----------------------------------------------------------------------------
(* Steps of the turns.                                                     *)

(* A turn that is not caught writes nothing into a deleted session.        *)
LEMMA TurnLeavesDeleted ==
  ASSUME AInv, NEW r \in Runs, RunStep(r)
  PROVE  /\ UNCHANGED <<session, gone, caught>>
         /\ \A q \in Runs : turn'[q].session = turn[q].session
         /\ \A q \in Runs : q # r => turn'[q] = turn[q]
         /\ turn[r].phase # "none" /\ turn'[r].phase \notin {"none", "queued"}
         /\ \A t \in Gone : RunsOf(t) \cap caught = {} =>
              log'[t] = log[t] /\ \A q \in RunsOf(t) : row'[q] = row[q]
  <1> USE DEF AInv, QInv
  <1> DEFINE s == SessionOf(r)
  <1>1. turn[r].phase \in {"queued", "returning"} \cup Begun
    BY HeadFacts DEF RunStep, Begin, CanBegin, BeginDeleted, BeginEmpty, Fail, Answer, Finish,
                     FinishTask, TurnAt, Begun
  <1>2. turn[r].phase # "none" /\ s \in Sessions
    BY <1>1, HasSession DEF Begun
  <1>3. PICK phase \in {"returning", "over"} \cup Begun : Enters(r, phase)
    BY DEF RunStep, Begin, BeginDeleted, BeginEmpty, Fail, Answer, Finish, FinishTask, Begun
  <1>4. /\ turn'[r].phase \notin {"none", "queued"} /\ \A q \in Runs : q # r => turn'[q] = turn[q]
        /\ \A q \in Runs : turn'[q].session = turn[q].session
    <2>1. phase \in {"none", "returning", "over"} \cup InProgress /\ phase \notin {"none", "queued"}
      BY DEF Begun, InProgress
    <2>2. QED
      BY <1>2, <1>3, <2>1, EntersFacts
  <1>5. UNCHANGED <<session, gone, caught>>
    BY DEF RunStep, Begin, BeginDeleted, BeginEmpty, Fail, Answer, Finish, FinishTask, rows
  <1>6. ASSUME NEW t \in Gone, RunsOf(t) \cap caught = {}
        PROVE  log'[t] = log[t] /\ \A q \in RunsOf(t) : row'[q] = row[q]
    <2>1. t \in Sessions
      BY DEF Gone
    <2>2. CASE Begin(r) \/ BeginEmpty(r)
      <3>1. t # s
        BY <2>2, <1>6 DEF Begin, BeginEmpty, CanBegin, Gone
      <3>2. r \notin RunsOf(t)
        BY <3>1 DEF RunsOf
      <3>3. \E kind : Emit(s, r, kind)
        BY <2>2 DEF Begin, BeginEmpty
      <3>4. log'[t] = log[t]
        BY <1>2, <2>1, <3>1, <3>3 DEF Emit, TypeOK
      <3>5. \A q \in RunsOf(t) : row'[q] = row[q]
        BY <2>2, <3>2 DEF Begin, BeginEmpty, TypeOK, RunsOf
      <3>6. QED
        BY <3>4, <3>5
    <2>3. CASE Fail(r) \/ Finish(r)
      <3>1. turn[r].phase \in Begun
        BY <2>3 DEF Fail, Finish, TurnAt, Begun
      <3>2. t # s
        BY <1>6, <3>1 DEF CaughtInv, RunsOf
      <3>3. r \notin RunsOf(t)
        BY <3>2 DEF RunsOf
      <3>4. \E kind : Emit(s, r, kind)
        BY <2>3 DEF Fail, Finish
      <3>5. log'[t] = log[t]
        BY <1>2, <2>1, <3>2, <3>4 DEF Emit, TypeOK
      <3>6. \A q \in RunsOf(t) : row'[q] = row[q]
        BY <2>3, <3>3 DEF Fail, Finish, SetRow, TypeOK, RunsOf
      <3>7. QED
        BY <3>5, <3>6
    <2>4. CASE BeginDeleted(r) \/ Answer(r) \/ FinishTask(r)
      BY <2>4 DEF BeginDeleted, Answer, FinishTask, rows
    <2>5. QED
      BY <2>2, <2>3, <2>4 DEF RunStep
  <1>7. QED
    BY <1>2, <1>4, <1>5, <1>6

LEMMA TurnKeeps ==
  ASSUME AInv, QInv', NEW r \in Runs, TurnStep(r)
  PROVE  AInv'
  <1> USE DEF AInv
  <1> DEFINE s == SessionOf(r)
             o == OwnerId(s)
  <1>1. RunStep(r) /\ UNCHANGED <<auth, users, login, owner, calls, straddled>>
    BY DEF TurnStep, BeginOwned, AnswerOwned, Unowned, RunStep, accounts, owners
  <1>2. /\ UNCHANGED <<session, gone, caught>>
        /\ \A q \in Runs : turn'[q].session = turn[q].session
        /\ \A q \in Runs : q # r => turn'[q] = turn[q]
        /\ turn[r].phase # "none" /\ turn'[r].phase \notin {"none", "queued"}
        /\ \A t \in Gone : RunsOf(t) \cap caught = {} =>
             log'[t] = log[t] /\ \A q \in RunsOf(t) : row'[q] = row[q]
    BY <1>1, TurnLeavesDeleted
  <1>3. s \in Sessions
    BY <1>2, HasSession DEF QInv
  <1>4. o \in Owners /\ o # NoOwner /\ (session[s] = "open" => o = owner[s])
    BY <1>3, OwnersDiffer DEF OwnerId, AccountsTypeOK
  <1> HIDE DEF o
  <1>5. /\ runOwner' = runOwner \/ (runOwner' = [runOwner EXCEPT ![r] = o] /\ session[s] = "open")
        /\ held' = held \/ held' = [held EXCEPT ![r] = o]
    BY DEF TurnStep, BeginOwned, Begin, CanBegin, BeginEmpty, Owns, AnswerOwned, owners, o
  <1>6. turn'[r].phase \in Begun => held' = [held EXCEPT ![r] = o] /\ session[s] = "open"
    <2>1. CASE BeginOwned(r) \/ AnswerOwned(r)
      BY <2>1 DEF BeginOwned, AnswerOwned, Answer, Begin, CanBegin, BeginEmpty, Owns, o
    <2>2. CASE Unowned(r)
      <3>1. PICK phase \in {"returning", "over"} : Enters(r, phase)
        BY <2>2 DEF Unowned, BeginDeleted, Fail, Finish, FinishTask
      <3>2. turn'[r].phase = phase
        BY <3>1, EntersFacts DEF QInv
      <3>3. QED
        BY <3>2 DEF Begun
    <2>3. QED
      BY <2>1, <2>2 DEF TurnStep
  <1>7. held' # held => turn[r].phase \in {"none", "queued"} \cup Begun
    BY HeadFacts DEF TurnStep, BeginOwned, Begin, CanBegin, BeginEmpty, AnswerOwned, Answer, TurnAt,
                     Begun, owners, QInv
  <1>8. AccountsTypeOK'
    <2>1. runOwner' \in [Runs -> Owners \cup {NoOwner}] /\ held' \in [Runs -> Owners \cup {NoOwner}]
      BY <1>4, <1>5 DEF AccountsTypeOK
    <2>2. QED
      BY <1>1, <1>2, <2>1 DEF AccountsTypeOK, QInv
  <1>9. HeldInv'
    <2> SUFFICES ASSUME NEW q \in Runs
                 PROVE  /\ turn'[q].phase \in Begun => held'[q] # NoOwner
                        /\ turn'[q].phase \in Begun /\ q \notin straddled
                             /\ session[SessionOf(q)] = "open" => held'[q] = owner[SessionOf(q)]
                        /\ turn'[q].phase = "none" => runOwner'[q] = NoOwner
                        /\ turn'[q].phase \in {"none", "queued"} => \A c \in calls : c.run # q
      BY <1>1, <1>2 DEF HeldInv, SessionOf
    <2>1. CASE q = r
      <3>1. turn'[r].phase \in Begun => held'[r] = o
        BY <1>6 DEF AccountsTypeOK
      <3>2. QED
        BY <1>2, <1>4, <2>1, <3>1
    <2>2. CASE q # r
      <3>1. turn'[q] = turn[q] /\ held'[q] = held[q] /\ runOwner'[q] = runOwner[q]
        BY <1>2, <1>5, <2>2 DEF AccountsTypeOK
      <3>2. QED
        BY <3>1 DEF HeldInv
    <2>3. QED
      BY <2>1, <2>2
  <1>10. CaughtInv'
    <2>1. s \in Gone => turn'[r].phase \notin Begun
      BY <1>6 DEF Gone
    <2>2. QED
      BY <1>2, <2>1 DEF CaughtInv, SessionOf, Gone
  <1>11. RowsFollowOwner'
    <2> SUFFICES ASSUME NEW t \in Sessions, NEW q \in Runs, session[t] = "open", q \in RunsOf(t)
                 PROVE  /\ q \notin straddled =>
                             \A c \in calls : c.run = q =>
                               c.owner = owner[t] \/ (c.site = "search" /\ held'[q] # Local)
                        /\ runOwner'[q] \in {owner[t], Local, NoOwner}
      BY <1>1, <1>2 DEF RowsFollowOwner, RunsOf, SessionOf
    <2>1. runOwner'[q] = runOwner[q] \/ (q = r /\ runOwner'[q] = o)
      BY <1>5 DEF AccountsTypeOK
    <2>2. q = r => t = s
      BY DEF RunsOf
    <2>3. ASSUME q \notin straddled, NEW c \in calls, c.run = q PROVE held'[q] = held[q]
      <3>1. turn[q].phase \notin {"none", "queued"}
        BY <2>3 DEF HeldInv
      <3>2. CASE q = r /\ turn[r].phase \in Begun
        BY <1>4, <1>5, <2>2, <2>3, <3>2 DEF HeldInv, AccountsTypeOK
      <3>3. CASE q # r \/ turn[r].phase \notin Begun
        BY <1>5, <1>7, <3>1, <3>3 DEF AccountsTypeOK
      <3>4. QED
        BY <3>2, <3>3
    <2>4. QED
      BY <1>4, <2>1, <2>2, <2>3 DEF RowsFollowOwner
  <1>12. DeletedLeavesNothing'
    <2>1. \A t \in Sessions : RunsOf(t)' = RunsOf(t)
      BY <1>2 DEF RunsOf, SessionOf
    <2>2. Gone' = Gone /\ Gone \subseteq Sessions
      BY <1>2 DEF Gone
    <2>3. QED
      BY <1>1, <1>2, <2>1, <2>2 DEF DeletedLeavesNothing, CallsOf
  <1>13. QED
    BY <1>8, <1>9, <1>10, <1>11, <1>12

(* A call is booked on whom the turn was made for, a search on Local,      *)
(* which is the same as long as Local owns the session.                    *)
LEMMA RecordKeeps ==
  ASSUME AInv, QInv', NEW r \in Runs, RecordCall(r) \/ RecordSearch(r)
  PROVE  AInv'
  <1> USE DEF AInv
  <1>1. /\ UNCHANGED <<session, log, gone, row, turn, caught, auth, users, login, owner, runOwner, held,
                       straddled>>
        /\ turn[r].phase \in Begun
    BY DEF RecordCall, RecordSearch, TurnAt, Begun, qvars, rows, tasks, accounts
  <1>2. held[r] \in Owners /\ turn[r].phase \notin {"none", "queued"}
    BY <1>1 DEF HeldInv, AccountsTypeOK, Begun
  <1>3. PICK new \in Calls : /\ calls' = calls \cup {new} /\ new.run = r
                             /\ new.owner = held[r] \/ (new.site = "search" /\ new.owner = Local)
    <2> DEFINE chat == [run |-> r, site |-> "chat", owner |-> held[r]]
               search == [run |-> r, site |-> "search", owner |-> Local]
    <2>1. /\ chat \in Calls /\ chat.run = r /\ chat.owner = held[r]
          /\ search \in Calls /\ search.run = r /\ search.site = "search" /\ search.owner = Local
      BY <1>2, OwnersDiffer DEF Calls
    <2>2. calls' = calls \cup {chat} \/ calls' = calls \cup {search}
      BY DEF RecordCall, RecordSearch, Books
    <2> HIDE DEF chat, search
    <2>3. QED
      BY <2>1, <2>2
  <1>4. AccountsTypeOK'
    BY <1>1, <1>3 DEF AccountsTypeOK, QInv
  <1>5. HeldInv' /\ CaughtInv'
    BY <1>1, <1>2, <1>3 DEF HeldInv, CaughtInv, SessionOf, Gone
  <1>6. RowsFollowOwner'
    BY <1>1, <1>3 DEF RowsFollowOwner, HeldInv, RunsOf, SessionOf
  <1>7. DeletedLeavesNothing'
    <2> SUFFICES ASSUME NEW t \in Gone, RunsOf(t) \cap caught = {}
                 PROVE  \A c \in calls' : c.run \notin RunsOf(t)
      BY <1>1 DEF DeletedLeavesNothing, Gone, RunsOf, SessionOf, CallsOf
    <2>1. r \notin RunsOf(t)
      BY <1>1 DEF CaughtInv, RunsOf
    <2>2. QED
      BY <1>3, <2>1 DEF DeletedLeavesNothing, CallsOf
  <1>8. QED
    BY <1>4, <1>5, <1>6, <1>7

LEMMA ServerKeeps ==
  ASSUME AInv, QInv', (Crash /\ UNCHANGED <<accounts, owners>>) \/ RestartOwned
  PROVE  AInv'
  <1> USE DEF AInv
  <1>1. /\ UNCHANGED <<session, gone, caught, users, login, owner, runOwner, held, calls, straddled>>
        /\ auth' \in BOOLEAN
        /\ \A q \in Runs : turn'[q].session = turn[q].session
        /\ \A q \in Runs : turn'[q].phase \in Begun => turn'[q] = turn[q]
        /\ \A q \in Runs : turn'[q].phase \in {"none", "queued"} => turn'[q].phase = turn[q].phase
    <2>1. CASE Crash /\ UNCHANGED <<accounts, owners>>
      <3>1. \A q \in Runs : /\ turn'[q].session = turn[q].session
                            /\ turn[q].phase = "none" => turn'[q] = turn[q]
                            /\ turn[q].phase # "none" => turn'[q].phase = "over"
        BY <2>1 DEF Crash, QInv, TypeOK, Turns
      <3>2. QED
        BY <2>1, <3>1 DEF Crash, rows, accounts, owners, AccountsTypeOK, Begun
    <2>2. CASE RestartOwned
      BY <2>2 DEF RestartOwned, Restart, tasks, owners
    <2>3. QED
      BY <2>1, <2>2
  <1>2. AccountsTypeOK'
    BY <1>1 DEF AccountsTypeOK, QInv
  <1>3. HeldInv' /\ CaughtInv' /\ RowsFollowOwner'
    BY <1>1 DEF HeldInv, CaughtInv, RowsFollowOwner, SessionOf, RunsOf, Gone
  <1>4. ASSUME NEW t \in Gone, RunsOf(t) \cap caught = {}
        PROVE  log'[t] = log[t] /\ \A q \in RunsOf(t) : row'[q] = "absent"
    <2>1. \A q \in RunsOf(t) : row[q] = "absent"
      BY <1>4 DEF DeletedLeavesNothing
    <2>2. CASE Crash
      BY <2>1, <2>2 DEF Crash, rows
    <2>3. CASE Restart
      <3>1. log'[t] = log[t]
        BY <2>1, <2>3, RestartFacts DEF Gone, QInv
      <3>2. QED
        BY <2>1, <2>3, <3>1 DEF Restart, RunsOf
    <2>4. QED
      BY <2>2, <2>3 DEF RestartOwned
  <1>5. DeletedLeavesNothing'
    <2>1. Gone' = Gone /\ \A t \in Sessions : RunsOf(t)' = RunsOf(t)
      BY <1>1 DEF Gone, RunsOf, SessionOf
    <2>2. QED
      BY <1>1, <1>4, <2>1 DEF DeletedLeavesNothing, CallsOf, Gone
  <1>6. QED
    BY <1>2, <1>3, <1>5

LEMMA AStep ==
  ASSUME AInv, [AccountsNext]_avars
  PROVE  AInv'
  <1>1. QInv'
    BY QueueSteps, QStep DEF AInv
  <1>2. ASSUME UNCHANGED avars PROVE AInv'
    BY <1>1, <1>2 DEF AInv, avars, qvars, rows, tasks, accounts, owners, AccountsTypeOK, HeldInv,
       CaughtInv, RowsFollowOwner, DeletedLeavesNothing, SessionOf, RunsOf, Gone, CallsOf, QInv
  <1>3. QED
    BY <1>1, <1>2, CreateUserKeeps, LoginKeeps, CreateKeeps, DeleteKeeps, CleanupKeeps,
       SubmitOwnedKeeps, TurnKeeps, RecordKeeps, ServerKeeps DEF AccountsNext

(* In every state accounts, logins, sessions and rows fit together.        *)
THEOREM AccountsInvariance == AccountsSpec => []AInv
  BY InitAInv, AStep, PTL DEF AccountsSpec

-----------------------------------------------------------------------------
(* Every variable keeps its type; in particular only active accounts are   *)
(* logged in, and exactly the sessions that exist have an owner (auth.py,  *)
(* db.py).                                                                 *)
THEOREM AccountsTypeCorrect == AccountsSpec => []AccountsTypeOK
  BY AccountsInvariance, PTL DEF AInv

(* Whatever interleaving of turns, deletions, restarts and accounts: the   *)
(* chat calls of a session that exists are booked on its owner, and the    *)
(* searches of those of its turns that Local owned as well, unless the     *)
(* take-over met the turn in progress (llm/gateway.py, llm/search.py,      *)
(* db.py create_user).                                                     *)
THEOREM CallsFollowOwner == AccountsSpec => []RowsFollowOwner
  BY AccountsInvariance, PTL DEF AInv

(* A deletion that meets no running turn is complete, and stays so: no     *)
(* waiting turn, clean-up or restart writes a row of the session again     *)
(* (db.py delete_session, agent/runtime.py run_turn).                      *)
THEOREM DeletionIsComplete == AccountsSpec => []DeletedLeavesNothing
  BY AccountsInvariance, PTL DEF AInv

(* Only the first account's take-over changes the owner of a session that  *)
(* exists, from Local to that account, which is active (db.py create_user).*)
THEOREM AccountsKeepSessions == AccountsSpec => OwnedStaysOwned
  <1> DEFINE Kept == \A s \in Sessions :
               session[s] = "open" /\ session'[s] = "open" /\ owner'[s] # owner[s] =>
                 owner[s] = Local /\ users'[owner'[s]] = "active"
  <1>1. ASSUME AInv, [AccountsNext]_avars PROVE Kept
    <2>1. ASSUME NEW u \in Users, CreateUser(u) PROVE Kept
      <3>1. users'[u] = "active"
        BY <1>1, <2>1 DEF CreateUser, AInv, AccountsTypeOK
      <3>2. owner' = owner \/ owner' = [s \in Sessions |-> IF owner[s] = Local THEN u ELSE owner[s]]
        BY <2>1 DEF CreateUser, TakeOver
      <3>3. QED
        BY <3>1, <3>2
    <2>2. ASSUME NEW s \in Sessions, CreateOwned(s) PROVE Kept
      <3>1. session[s] = "none" /\ \E c : owner' = [owner EXCEPT ![s] = c]
        BY <2>2 DEF CreateOwned, CreateSession
      <3>2. QED
        BY <1>1, <3>1 DEF AInv, AccountsTypeOK
    <2>3. ASSUME NEW s \in Sessions, DeleteOwned(s) PROVE Kept
      <3>1. session'[s] = "deleted" /\ owner' = [owner EXCEPT ![s] = NoOwner]
        BY <1>1, <2>3 DEF DeleteOwned, DeleteSession, AInv, QInv, TypeOK
      <3>2. QED
        BY <1>1, <3>1 DEF AInv, AccountsTypeOK
    <2>4. CASE UNCHANGED owner
      BY <2>4
    <2>5. QED
      BY <1>1, <2>1, <2>2, <2>3, <2>4 DEF AccountsNext, DisableUser, Login, Logout, SubmitOwned,
         TurnStep, BeginOwned, AnswerOwned, RecordCall, RecordSearch, RestartOwned, owners, avars
  <1>2. QED
    BY <1>1, AccountsInvariance, PTL DEF AccountsSpec, OwnedStaysOwned
=============================================================================
