------------------------- MODULE SessionRuntime_proofs -------------------------
(***************************************************************************)
(* Proofs about SessionRuntime for every set of plans, texts and bounds.   *)
(* A handler's statements commit one by one and the process may die        *)
(* between any two.  So the inductive invariant speaks about the tables    *)
(* and, for every statement that waits, about what it will find when its   *)
(* turn comes: that takes the order in which the statements wait.          *)
(***************************************************************************)
EXTENDS SessionRuntime, FiniteSetTheorems, TLAPS

(* The statements, by what they do.                                        *)
NewCard(x) == x.table = "cards" /\ "kind" \in DOMAIN x.set
CardDecision(x) == x.table = "cards" /\ "kind" \notin DOMAIN x.set
NewApproval(x) == x.table = "approvals" /\ "key" \in DOMAIN x.set
Verdict(x) == x.table = "approvals" /\ "key" \notin DOMAIN x.set
CourseSave(x) == x.table = "course"
Reservation(x) == x.table = "effects" /\ "approval" \notin DOMAIN x.set
Completion(x) == x.table = "effects" /\ "approval" \in DOMAIN x.set
Plain(x) == x.table \in {"session", "runs"}

CardRecords ==
  [kind : {"checkpoint", "plan"}, status : {"pending"}, run : RunIds \cup {NoRun},
   approval : Ids \cup {NoId}, next : BOOLEAN]
ApprovalRecords == [status : {"pending"}, run : RunIds \cup {NoRun}, key : Keys]
RunSets ==
  [stage : Stages] \cup [checkpoint : Stages] \cup [status : RunStatus \ {"absent"}]
    \cup [stage : Stages, status : RunStatus \ {"absent"}]

SessionStatements == [table : {"session"}, row : {NoId}, set : [status : SessionStatus]]
MessageStatements ==
  [table : {"session"}, row : {NoId}, set : [latest : 0..MaxMessages, text : Texts \cup {"none"}]]
RunStatements(rs) == [table : {"runs"}, row : rs, set : RunSets]
PlainStatements == SessionStatements \cup MessageStatements \cup RunStatements(RunIds)
CardStatements ==
  [table : {"cards"}, row : Ids, set : CardRecords]
    \cup [table : {"cards"}, row : Ids, set : [status : CardStatus \ {"pending"}]]
ApprovalStatements ==
  [table : {"approvals"}, row : Ids, set : ApprovalRecords]
    \cup [table : {"approvals"}, row : Ids, set : [status : {"approved", "rejected"}]]
CourseStatements == [table : {"course"}, row : Ids, set : [saved : 0..MaxSaves]]
EffectStatements ==
  [table : {"effects"}, row : Keys, set : [status : {"reserved"}]]
    \cup [table : {"effects"}, row : Keys, set : [status : {"completed"}, approval : Ids]]

Statements ==
  PlainStatements \cup CardStatements \cup ApprovalStatements \cup CourseStatements
    \cup EffectStatements

(* Which statement may wait before which.                                  *)
Before(x, y) ==
  \/ Plain(x) \/ Plain(y)
  \/ Reservation(x) /\ (NewApproval(y) \/ NewCard(y) \/ Completion(y))
  \/ NewApproval(x) /\ (NewCard(y) \/ Completion(y))
  \/ NewCard(x) /\ (Completion(y) \/ CourseSave(y) \/ Verdict(y))
  \/ NewCard(x) /\ CardDecision(y) /\ y.row = x.row
  \/ CourseSave(x) /\ (Verdict(y) \/ CardDecision(y))
  \/ Verdict(x) /\ CardDecision(y)
  \/ CardDecision(x) /\ NewCard(y) /\ y.row # x.row

Ordered(s) == \A i, j \in 1..Len(s) : i < j => Before(s[i], s[j])
Fit(s) == s \in Seq(Statements) /\ Ordered(s)
Elems(s) == {s[i] : i \in 1..Len(s)}
Waiting == Elems(todo)

-----------------------------------------------------------------------------
(* The inductive invariant.                                                *)
StatementInv == Fit(todo)

(* What the tables say of cards, approvals, saved plans and the ledger at  *)
(* any time, in the middle of a handler, too.                              *)
CardInv ==
  \A c \in Ids :
    /\ cards[c].kind = "absent" => cards[c].status = "pending"
    /\ cards[c].kind = "plan" =>
         cards[c].approval \in Ids /\ approvals[cards[c].approval].status # "absent"
    /\ cards[c].kind # "plan" => cards[c].approval = NoId
    /\ cards[c].kind # "absent" /\ approvals[c].status # "absent" =>
         cards[c].kind = "plan" /\ cards[c].approval = c

ApprovalInv ==
  \A a \in Ids :
    /\ approvals[a].status = "absent" <=> approvals[a].key = NoKey
    /\ approvals[a].status = "absent" => course[a].saved = 0 /\ a \notin cut
    /\ approvals[a].key # NoKey => effects[approvals[a].key].status # "absent"
    /\ cards[a].kind = "absent" /\ approvals[a].status # "absent" =>
         /\ approvals[a].status = "pending" /\ course[a].saved = 0
         /\ \A c \in Ids : cards[c].approval # a

(* What waits.                                                             *)
Decides(c) == \E z \in Waiting : CardDecision(z) /\ z.row = c
Approves(a) == \E z \in Waiting : Verdict(z) /\ z.row = a /\ z.set.status = "approved"
Gets(a) == \E z \in Waiting : NewApproval(z) /\ z.row = a
HasCardSoon(a) == cards[a].kind # "absent" \/ \E z \in Waiting : NewCard(z) /\ z.row = a

(* What a statement finds, or will find once those before it are issued.   *)
NewCardOk(x) ==
  /\ cards[x.row].kind = "absent"
  /\ x.set.kind = "checkpoint" => x.set.approval = NoId /\ approvals[x.row].status = "absent"
  /\ \A y \in Waiting :
       NewApproval(y) => x.set.kind = "plan" /\ x.row = y.row /\ x.set.approval = y.row

NewPlanCardOk(x) ==
  LET a == x.set.approval IN
  /\ a \in Ids
  /\ approvals[a].status # "absent" \/ Gets(a)
  /\ a \notin cut \cup {handling} => approvals[a].status \in {"pending", "absent"}
  /\ \A c \in PendingCards : cards[c].approval = a => Decides(c)
  /\ x.row = a \/ (approvals[x.row].status = "absent" /\ cards[a].kind # "absent")

DecisionOk(x) == cards[x.row].status = "pending" /\ HasCardSoon(x.row)

NewApprovalOk(x) ==
  /\ \A a \in Ids : approvals[a].key # x.set.key
  /\ effects[x.set.key].status # "completed"
  /\ effects[x.set.key].status = "absent" =>
       \E y \in Waiting : Reservation(y) /\ y.row = x.set.key

VerdictOk(x) ==
  /\ x.row = handling /\ approvals[x.row].status = "pending" /\ HasCardSoon(x.row)
  /\ x.set.status = "rejected" =>
       /\ x.row \notin cut => course[x.row].saved = 0
       /\ \A y \in Waiting : ~CourseSave(y)

SaveOk(x) ==
  /\ x.row = handling /\ approvals[x.row].status # "absent" /\ HasCardSoon(x.row)
  /\ x.set.saved = course[x.row].saved + 1
  /\ x.row \notin cut => course[x.row].saved = 0 /\ Approves(x.row)

CompletionOk(x) ==
  LET a == x.set.approval IN
  /\ \/ approvals[a].key = x.row
     \/ \E y \in Waiting : NewApproval(y) /\ y.row = a /\ y.set.key = x.row
  /\ \/ cards[a].kind = "plan"
     \/ \E y \in Waiting : NewCard(y) /\ y.row = a /\ y.set.kind = "plan"

WaitInv ==
  \A x \in Waiting :
    /\ NewCard(x) => NewCardOk(x)
    /\ NewCard(x) /\ x.set.kind = "plan" => NewPlanCardOk(x)
    /\ CardDecision(x) => DecisionOk(x)
    /\ NewApproval(x) => NewApprovalOk(x)
    /\ Verdict(x) => VerdictOk(x)
    /\ CourseSave(x) => SaveOk(x)
    /\ Reservation(x) => effects[x.row].status = "absent"
    /\ Completion(x) => CompletionOk(x)

(* A plan that is saved is approved, or the statement that approves it     *)
(* waits.                                                                  *)
SavedInv ==
  \A a \in Ids \ cut :
    /\ course[a].saved <= 1
    /\ approvals[a].status = "rejected" => course[a].saved = 0
    /\ course[a].saved = 1 => approvals[a].status = "approved" \/ Approves(a)

(* While an approval is decided the statements that decide its open cards  *)
(* wait.                                                                   *)
HandlingInv ==
  handling # NoId =>
    /\ todo # <<>> /\ approvals[handling].status # "absent"
    /\ handling \notin cut =>
         /\ \A c \in PendingCards : cards[c].approval = handling => Decides(c)
         /\ \A x \in Waiting : NewCard(x) => Decides(x.row)

(* Ids and runs are given out in order, and there is room for those that   *)
(* are promised.                                                           *)
Inserting == \E x \in Waiting : (NewApproval(x) \/ NewCard(x)) /\ x.row = NextId
Expected == IF turn.pc \in {"queued", "agent"} THEN 1 ELSE 0

IdInv ==
  /\ UsedIds = 1..Cardinality(UsedIds)
  /\ IsFiniteSet(deciding)
  /\ \A x \in Waiting :
       /\ NewApproval(x) => x.row = NextId
       /\ NewCard(x) => x.row = NextId \/ approvals[x.row].status # "absent"
  /\ Cardinality(UsedIds) + Cardinality(deciding) + Expected
       + (IF Inserting THEN 1 ELSE 0) <= MaxCards

CreatesRun ==
  /\ todo # <<>>
  /\ Head(todo).table = "runs" /\ Head(todo).row = turn.run /\ "status" \in DOMAIN Head(todo).set

RunInv ==
  /\ turn.pc \in {"agent", "compact", "finish"} =>
       turn.run \in RunIds /\ (turn.run \in UsedRuns \/ CreatesRun)
  /\ turn.pc = "queued" =>
       /\ Cardinality(UsedRuns) < MaxRuns
       /\ turn.persist => session.latest < MaxMessages
       /\ \A x \in Waiting : x.table = "runs" => x.row \in UsedRuns
  /\ \A x \in Waiting : x.table = "session" /\ "latest" \in DOMAIN x.set => turn.pc = "agent"
  /\ cli \subseteq UsedRuns /\ marking \subseteq UsedRuns
  /\ \A c \in Ids : /\ cards[c].run \in UsedRuns \cup {NoRun}
                    /\ approvals[c].run \in UsedRuns \cup {NoRun}
  /\ \A x \in Waiting :
       NewCard(x) \/ NewApproval(x) => x.set.run \in UsedRuns \cup {NoRun}

(* The tables and what waits.                                              *)
TableInv ==
  /\ CardInv /\ ApprovalInv /\ WaitInv /\ SavedInv /\ HandlingInv
  /\ OneCardPerProposal /\ PendingCardOwnsItsApproval

SInv == TypeOK /\ StatementInv /\ TableInv /\ IdInv /\ RunInv

-----------------------------------------------------------------------------
(* What a statement of each kind holds.                                    *)
LEMMA StatementFacts ==
  ASSUME NEW x \in Statements
  PROVE  /\ Plain(x) => x \in PlainStatements
         /\ NewCard(x) => x.row \in Ids /\ x.set \in CardRecords
         /\ CardDecision(x) => x.row \in Ids /\ x.set \in [status : CardStatus \ {"pending"}]
         /\ NewApproval(x) => x.row \in Ids /\ x.set \in ApprovalRecords
         /\ Verdict(x) => x.row \in Ids /\ x.set \in [status : {"approved", "rejected"}]
         /\ CourseSave(x) => x.row \in Ids /\ x.set \in [saved : 0..MaxSaves]
         /\ Reservation(x) => x.row \in Keys /\ x.set \in [status : {"reserved"}]
         /\ Completion(x) => x.row \in Keys /\ x.set \in [status : {"completed"}, approval : Ids]
  <1>1. CASE x \in PlainStatements
    <2>1. x.table \in {"session", "runs"}
      BY <1>1 DEF PlainStatements, SessionStatements, MessageStatements, RunStatements
    <2>2. QED
      BY <1>1, <2>1 DEF Plain, NewCard, CardDecision, NewApproval, Verdict, CourseSave,
                        Reservation, Completion
  <1>2. CASE x \in CardStatements
    <2>1. x.table = "cards" /\ x.row \in Ids
          /\ (x.set \in CardRecords \/ x.set \in [status : CardStatus \ {"pending"}])
      BY <1>2 DEF CardStatements
    <2>2. "kind" \in DOMAIN x.set => x.set \in CardRecords
      BY <2>1
    <2>3. "kind" \notin DOMAIN x.set => x.set \in [status : CardStatus \ {"pending"}]
      BY <2>1 DEF CardRecords
    <2>4. QED
      BY <2>1, <2>2, <2>3 DEF Plain, NewCard, CardDecision, NewApproval, Verdict, CourseSave,
                        Reservation, Completion
  <1>3. CASE x \in ApprovalStatements
    <2>1. x.table = "approvals" /\ x.row \in Ids
          /\ (x.set \in ApprovalRecords \/ x.set \in [status : {"approved", "rejected"}])
      BY <1>3 DEF ApprovalStatements
    <2>2. "key" \in DOMAIN x.set => x.set \in ApprovalRecords
      BY <2>1
    <2>3. "key" \notin DOMAIN x.set => x.set \in [status : {"approved", "rejected"}]
      BY <2>1 DEF ApprovalRecords
    <2>4. QED
      BY <2>1, <2>2, <2>3 DEF Plain, NewCard, CardDecision, NewApproval, Verdict, CourseSave,
                        Reservation, Completion
  <1>4. CASE x \in CourseStatements
    BY <1>4 DEF CourseStatements, Plain, NewCard, CardDecision, NewApproval, Verdict, CourseSave,
                        Reservation, Completion
  <1>5. CASE x \in EffectStatements
    <2>1. x.table = "effects" /\ x.row \in Keys
          /\ (x.set \in [status : {"reserved"}] \/ x.set \in [status : {"completed"}, approval : Ids])
      BY <1>5 DEF EffectStatements
    <2>2. "approval" \in DOMAIN x.set => x.set \in [status : {"completed"}, approval : Ids]
      BY <2>1
    <2>3. "approval" \notin DOMAIN x.set => x.set \in [status : {"reserved"}]
      BY <2>1
    <2>4. QED
      BY <2>1, <2>2, <2>3 DEF Plain, NewCard, CardDecision, NewApproval, Verdict, CourseSave,
                        Reservation, Completion
  <1>6. QED
    BY <1>1, <1>2, <1>3, <1>4, <1>5 DEF Statements

(* A statement is of one kind.                                             *)
LEMMA OneKind ==
  ASSUME NEW x \in Statements
  PROVE  /\ \/ Plain(x) \/ NewCard(x) \/ CardDecision(x) \/ NewApproval(x) \/ Verdict(x)
            \/ CourseSave(x) \/ Reservation(x) \/ Completion(x)
         /\ Plain(x) => ~NewCard(x) /\ ~CardDecision(x) /\ ~NewApproval(x) /\ ~Verdict(x)
                        /\ ~CourseSave(x) /\ ~Reservation(x) /\ ~Completion(x)
         /\ NewCard(x) => ~CardDecision(x) /\ ~NewApproval(x) /\ ~Verdict(x)
                        /\ ~CourseSave(x) /\ ~Reservation(x) /\ ~Completion(x)
         /\ CardDecision(x) => ~NewApproval(x) /\ ~Verdict(x)
                        /\ ~CourseSave(x) /\ ~Reservation(x) /\ ~Completion(x)
         /\ NewApproval(x) => ~Verdict(x) /\ ~CourseSave(x) /\ ~Reservation(x) /\ ~Completion(x)
         /\ Verdict(x) => ~CourseSave(x) /\ ~Reservation(x) /\ ~Completion(x)
         /\ CourseSave(x) => ~Reservation(x) /\ ~Completion(x)
         /\ Reservation(x) => ~Completion(x)
  <1>1. x.table \in {"session", "runs", "cards", "approvals", "course", "effects"}
    BY DEF Statements, PlainStatements, SessionStatements, MessageStatements, RunStatements,
           CardStatements, ApprovalStatements, CourseStatements, EffectStatements
  <1>2. QED
    BY <1>1 DEF Plain, NewCard, CardDecision, NewApproval, Verdict, CourseSave,
                Reservation, Completion

-----------------------------------------------------------------------------
(* Sequences of statements.                                                *)
LEMMA EmptyFit == Fit(<<>>) /\ Elems(<<>>) = {}
  BY DEF Fit, Ordered, Elems

LEMMA SingleFit ==
  ASSUME NEW x \in Statements
  PROVE  Fit(<<x>>) /\ Elems(<<x>>) = {x}
  <1>1. <<x>> \in Seq(Statements) /\ Len(<<x>>) = 1 /\ <<x>>[1] = x
    OBVIOUS
  <1>2. QED
    BY <1>1 DEF Fit, Ordered, Elems

LEMMA ConcatFit ==
  ASSUME NEW s, NEW t, Fit(s), Fit(t),
         \A x \in Elems(s), y \in Elems(t) : Before(x, y)
  PROVE  Fit(s \o t) /\ Elems(s \o t) = Elems(s) \cup Elems(t)
  <1> DEFINE u == s \o t
  <1>1. /\ s \in Seq(Statements) /\ t \in Seq(Statements) /\ u \in Seq(Statements)
        /\ Len(s) \in Nat /\ Len(t) \in Nat /\ Len(u) = Len(s) + Len(t)
        /\ \A i \in 1..Len(s) : u[i] = s[i]
        /\ \A i \in Len(s)+1..Len(u) : i - Len(s) \in 1..Len(t) /\ u[i] = t[i - Len(s)]
    BY DEF Fit
  <1>2. Elems(u) = Elems(s) \cup Elems(t)
    <2>1. \A i \in 1..Len(t) : Len(s) + i \in Len(s)+1..Len(u) /\ u[Len(s) + i] = t[i]
      BY <1>1
    <2>2. \A i \in 1..Len(s) : i \in 1..Len(u)
      BY <1>1
    <2>3. \A i \in 1..Len(u) : i \in 1..Len(s) \/ i \in Len(s)+1..Len(u)
      BY <1>1
    <2>4. \A i \in Len(s)+1..Len(u) : i \in 1..Len(u)
      BY <1>1
    <2> HIDE DEF u
    <2>5. Elems(u) \subseteq Elems(s) \cup Elems(t)
      BY <1>1, <2>3 DEF Elems
    <2>6. Elems(s) \subseteq Elems(u)
      BY <1>1, <2>2 DEF Elems
    <2>7. Elems(t) \subseteq Elems(u)
      BY <1>1, <2>1, <2>4 DEF Elems
    <2>8. QED
      BY <2>5, <2>6, <2>7
  <1>3. Ordered(u)
    <2> SUFFICES ASSUME NEW i \in 1..Len(u), NEW j \in 1..Len(u), i < j
                 PROVE  Before(u[i], u[j])
      BY DEF Ordered
    <2>1. CASE j <= Len(s)
      <3>1. i \in 1..Len(s) /\ j \in 1..Len(s)
        BY <1>1, <2>1
      <3> HIDE DEF u
      <3>2. QED
        BY <1>1, <3>1 DEF Fit, Ordered
    <2>2. CASE i > Len(s)
      <3>1. i - Len(s) \in 1..Len(t) /\ j - Len(s) \in 1..Len(t) /\ i - Len(s) < j - Len(s)
            /\ u[i] = t[i - Len(s)] /\ u[j] = t[j - Len(s)]
        BY <1>1, <2>2
      <3> HIDE DEF u
      <3>2. QED
        BY <3>1 DEF Fit, Ordered
    <2>3. CASE i <= Len(s) /\ j > Len(s)
      <3>1. u[i] \in Elems(s)
        BY <1>1, <2>3 DEF Elems
      <3>2. u[j] \in Elems(t)
        BY <1>1, <2>3 DEF Elems
      <3>3. QED
        BY <3>1, <3>2
    <2>4. QED
      BY <1>1, <2>1, <2>2, <2>3
  <1>4. QED
    BY <1>1, <1>2, <1>3 DEF Fit

LEMMA PlainFit ==
  ASSUME NEW s \in Seq(PlainStatements)
  PROVE  /\ Fit(s) /\ Elems(s) \subseteq PlainStatements
         /\ \A x \in Elems(s) : Plain(x)
  <1>1. \A x \in PlainStatements : x \in Statements /\ Plain(x)
    BY DEF PlainStatements, SessionStatements, MessageStatements, RunStatements, Plain, Statements
  <1>2. \A i \in 1..Len(s) : s[i] \in PlainStatements
    OBVIOUS
  <1>3. s \in Seq(Statements)
    BY <1>1
  <1>4. QED
    BY <1>1, <1>2, <1>3 DEF Fit, Ordered, Elems, Before

(* Issuing the first statement.                                            *)
LEMMA PopFit ==
  ASSUME NEW s, Fit(s), s # <<>>
  PROVE  /\ Fit(Tail(s))
         /\ Head(s) \in Statements /\ Head(s) = s[1]
         /\ Elems(s) = Elems(Tail(s)) \cup {Head(s)}
         /\ \A y \in Elems(Tail(s)) : y \in Statements /\ Before(Head(s), y)
  <1> DEFINE t == Tail(s)
  <1>1. /\ s \in Seq(Statements) /\ Len(s) \in Nat /\ Len(s) >= 1
        /\ t \in Seq(Statements) /\ Len(t) = Len(s) - 1
        /\ \A i \in 1..Len(t) : i + 1 \in 1..Len(s) /\ t[i] = s[i + 1]
        /\ Head(s) = s[1] /\ 1 \in 1..Len(s)
    BY DEF Fit
  <1>2. \A i \in 1..Len(s) : i = 1 \/ (i - 1 \in 1..Len(t) /\ t[i - 1] = s[i])
    BY <1>1
  <1> HIDE DEF t
  <1>3. Elems(s) = Elems(t) \cup {Head(s)}
    <2>1. Elems(s) \subseteq Elems(t) \cup {Head(s)}
      BY <1>1, <1>2 DEF Elems
    <2>2. Elems(t) \subseteq Elems(s) /\ Head(s) \in Elems(s)
      BY <1>1 DEF Elems
    <2>3. QED
      BY <2>1, <2>2
  <1>4. Ordered(t)
    <2>1. ASSUME NEW i \in 1..Len(t), NEW j \in 1..Len(t), i < j
          PROVE  Before(t[i], t[j])
      <3>1. i + 1 \in 1..Len(s) /\ j + 1 \in 1..Len(s) /\ i + 1 < j + 1
        BY <1>1, <2>1
      <3>2. QED
        BY <1>1, <3>1 DEF Fit, Ordered
    <2>2. QED
      BY <2>1 DEF Ordered
  <1>5. \A y \in Elems(t) : y \in Statements /\ Before(Head(s), y)
    <2>1. ASSUME NEW i \in 1..Len(t) PROVE t[i] \in Statements /\ Before(s[1], t[i])
      <3>1. i + 1 \in 1..Len(s) /\ 1 < i + 1
        BY <1>1
      <3>2. QED
        BY <1>1, <3>1 DEF Fit, Ordered
    <2>2. QED
      BY <1>1, <2>1 DEF Elems
  <1>6. QED
    BY <1>1, <1>3, <1>4, <1>5 DEF Fit, t
-----------------------------------------------------------------------------
LEMMA Bounds ==
  /\ IsFiniteSet(RunIds) /\ IsFiniteSet(Ids)
  /\ RunIds \subseteq Nat /\ Ids \subseteq Nat
  /\ NoRun \notin RunIds /\ NoId \notin Ids
  /\ \A n \in Nat : n >= 1 /\ n <= MaxCards => n \in Ids
  BY BoundsAssumption, FS_Interval DEF RunIds, Ids, NoRun, NoId

LEMMA InitSInv == Init => SInv
  <1> SUFFICES ASSUME Init PROVE SInv
    OBVIOUS
  <1>1. Waiting = {}
    BY EmptyFit DEF Init, Waiting
  <1>2. PendingCards = {} /\ UsedRuns = {}
    BY DEF Init, PendingCards, UsedRuns
  <1>3. UsedIds = {} /\ Cardinality(UsedIds) = 0 /\ Cardinality(UsedRuns) = 0
    BY <1>2, FS_EmptySet DEF Init, UsedIds
  <1>4. TypeOK
    <2>1. NoTurn \in [pc : {"none", "queued", "agent", "compact", "finish"},
                      run : RunIds \cup {NoRun}, text : Texts \cup {"none"}, persist : BOOLEAN,
                      skill : Skills \cup {"none"}]
      BY DEF NoTurn
    <2>2. /\ session \in [status : SessionStatus, latest : 0..MaxMessages, text : Texts \cup {"none"}]
          /\ runs \in [RunIds -> [status : RunStatus, stage : Stages, checkpoint : Stages \cup {"none"}]]
      BY BoundsAssumption DEF Init, SessionStatus, RunStatus, Stages
    <2>3. cards \in [Ids -> [kind : {"absent", "checkpoint", "plan"}, status : CardStatus,
                             run : RunIds \cup {NoRun}, approval : Ids \cup {NoId}, next : BOOLEAN]]
      BY DEF Init, CardStatus
    <2>4. approvals \in [Ids -> [status : {"absent", "pending", "approved", "rejected"},
                                 run : RunIds \cup {NoRun}, key : Keys \cup {NoKey}]]
      BY DEF Init
    <2>5. /\ course \in [Ids -> [saved : 0..MaxSaves]]
          /\ effects \in [Keys -> [status : {"absent", "reserved", "completed"},
                                   approval : Ids \cup {NoId}]]
      BY BoundsAssumption DEF Init
    <2>6. Len(todo) = 0
      BY DEF Init
    <2>7. /\ ready \in BOOLEAN /\ up \in BOOLEAN /\ turn = NoTurn
          /\ marking \in SUBSET RunIds /\ cli \in SUBSET RunIds /\ cut \in SUBSET Ids
          /\ deciding \in SUBSET [card : Ids, reason : Reasons]
      BY DEF Init
    <2>8. handling \in Ids \cup {NoId} /\ crashes \in 0..MaxCrashes /\ clis \in 0..MaxCli
      BY BoundsAssumption DEF Init
    <2>9. QED
      BY <2>1, <2>2, <2>3, <2>4, <2>5, <2>6, <2>7, <2>8 DEF TypeOK
  <1>5. StatementInv
    BY EmptyFit DEF Init, StatementInv
  <1>6. TableInv
    BY <1>1, <1>2, NoKeyAssumption DEF Init, TableInv, CardInv, ApprovalInv, WaitInv, SavedInv,
       HandlingInv, OneCardPerProposal, PendingCardOwnsItsApproval
  <1>7. IdInv
    <2>1. ~Inserting
      BY <1>1 DEF Inserting
    <2>2. Expected = 0 /\ Cardinality(deciding) = 0 /\ IsFiniteSet(deciding)
      BY FS_EmptySet DEF Init, Expected, NoTurn
    <2>3. QED
      BY <1>1, <1>3, <2>1, <2>2, BoundsAssumption DEF IdInv
  <1>8. RunInv
    BY <1>1, <1>2 DEF Init, RunInv, NoTurn
  <1>9. QED
    BY <1>4, <1>5, <1>6, <1>7, <1>8 DEF SInv

-----------------------------------------------------------------------------
(* What an UPDATE makes of a row, table by table.                          *)
CardRows ==
  [kind : {"absent", "checkpoint", "plan"}, status : CardStatus, run : RunIds \cup {NoRun},
   approval : Ids \cup {NoId}, next : BOOLEAN]
ApprovalRows ==
  [status : {"absent", "pending", "approved", "rejected"}, run : RunIds \cup {NoRun},
   key : Keys \cup {NoKey}]
EffectRows == [status : {"absent", "reserved", "completed"}, approval : Ids \cup {NoId}]
RunRows == [status : RunStatus, stage : Stages, checkpoint : Stages \cup {"none"}]
SessionRows == [status : SessionStatus, latest : 0..MaxMessages, text : Texts \cup {"none"}]

LEMMA MergeCard ==
  ASSUME NEW row \in CardRows, NEW set
  PROVE  /\ set \in CardRecords => Merge(row, set) = set
         /\ set \in [status : CardStatus] => Merge(row, set) = [row EXCEPT !.status = set.status]
  BY DEF Merge, CardRows, CardRecords

LEMMA MergeApproval ==
  ASSUME NEW row \in ApprovalRows, NEW set
  PROVE  /\ set \in ApprovalRecords => Merge(row, set) = set
         /\ set \in [status : {"approved", "rejected"}] =>
              Merge(row, set) = [row EXCEPT !.status = set.status]
  BY DEF Merge, ApprovalRows, ApprovalRecords

LEMMA MergeEffect ==
  ASSUME NEW row \in EffectRows, NEW set
  PROVE  /\ set \in [status : {"completed"}, approval : Ids] => Merge(row, set) = set
         /\ set \in [status : {"reserved"}] => Merge(row, set) = [row EXCEPT !.status = "reserved"]
  BY DEF Merge, EffectRows

LEMMA MergeCourse ==
  ASSUME NEW row \in [saved : 0..MaxSaves], NEW set \in [saved : 0..MaxSaves]
  PROVE  Merge(row, set) = set
  BY DEF Merge

LEMMA MergeRun ==
  ASSUME NEW row \in RunRows, NEW set \in RunSets
  PROVE  /\ Merge(row, set) \in RunRows
         /\ row.status # "absent" => Merge(row, set).status # "absent"
         /\ "status" \in DOMAIN set => Merge(row, set).status # "absent"
  <1> DEFINE m == Merge(row, set)
  <1>1. m = [f \in {"status", "stage", "checkpoint"} |-> IF f \in DOMAIN set THEN set[f] ELSE row[f]]
    BY DEF Merge, RunRows
  <1>2. /\ "status" \in DOMAIN set => set.status \in RunStatus \ {"absent"}
        /\ "stage" \in DOMAIN set => set.stage \in Stages
        /\ "checkpoint" \in DOMAIN set => set.checkpoint \in Stages
    BY DEF RunSets
  <1>3. m = [status |-> m.status, stage |-> m.stage, checkpoint |-> m.checkpoint]
    BY <1>1
  <1>4. /\ m.status = IF "status" \in DOMAIN set THEN set.status ELSE row.status
        /\ m.stage = IF "stage" \in DOMAIN set THEN set.stage ELSE row.stage
        /\ m.checkpoint = IF "checkpoint" \in DOMAIN set THEN set.checkpoint ELSE row.checkpoint
    BY <1>1
  <1> HIDE DEF m
  <1>5. m.status \in RunStatus /\ m.stage \in Stages /\ m.checkpoint \in Stages \cup {"none"}
    BY <1>2, <1>4 DEF RunRows
  <1>6. m \in RunRows
    BY <1>3, <1>5 DEF RunRows
  <1>7. QED
    BY <1>2, <1>4, <1>6 DEF m

LEMMA MergeSession ==
  ASSUME NEW row \in SessionRows, NEW set
  PROVE  /\ set \in [status : SessionStatus] =>
              Merge(row, set) \in SessionRows /\ Merge(row, set).latest = row.latest
         /\ set \in [latest : 0..MaxMessages, text : Texts \cup {"none"}] =>
              Merge(row, set) \in SessionRows
  BY DEF Merge, SessionRows

-----------------------------------------------------------------------------
(* Issuing a statement.                                                    *)
LEMMA Issues ==
  ASSUME SInv, NEW t, Issue(t)
  PROVE  /\ Fit(todo') /\ Head(todo) \in Statements /\ Head(todo).table = t
         /\ Waiting = Waiting' \cup {Head(todo)}
         /\ \A y \in Waiting' : y \in Statements /\ y \in Waiting /\ Before(Head(todo), y)
         /\ todo' = <<>> => Waiting' = {} /\ handling' = NoId
         /\ todo' # <<>> => handling' = handling
         /\ UNCHANGED <<ready, up, marking, turn, deciding, cli, cut, crashes, clis>>
  <1>1. Fit(todo) /\ todo # <<>> /\ todo' = Tail(todo) /\ Head(todo).table = t
        /\ handling' = (IF Tail(todo) = <<>> THEN NoId ELSE handling)
        /\ UNCHANGED <<ready, up, marking, turn, deciding, cli, cut, crashes, clis>>
    BY DEF SInv, StatementInv, Issue, bounds
  <1>2. todo' = <<>> => Waiting' = {}
    BY EmptyFit DEF Waiting
  <1>3. QED
    BY <1>1, <1>2, PopFit DEF Waiting

LEMMA StillWaiting ==
  ASSUME NEW h, Waiting = Waiting' \cup {h}
  PROVE  /\ \A c : Decides(c) => Decides(c)' \/ (CardDecision(h) /\ h.row = c)
         /\ \A a : Approves(a) => Approves(a)' \/ (Verdict(h) /\ h.row = a)
         /\ \A a : Gets(a) => Gets(a)' \/ (NewApproval(h) /\ h.row = a)
  BY DEF Decides, Approves, Gets

(* Nothing of a kind waits behind a statement that may not wait before it. *)
LEMMA Behind ==
  ASSUME NEW h \in Statements, NEW y \in Statements, Before(h, y)
  PROVE  /\ NewCard(h) => /\ ~NewCard(y) /\ ~NewApproval(y) /\ ~Reservation(y)
                          /\ CardDecision(y) => y.row = h.row
         /\ CardDecision(h) => /\ Plain(y) \/ NewCard(y)
                               /\ NewCard(y) => y.row # h.row
         /\ NewApproval(h) => Plain(y) \/ NewCard(y) \/ Completion(y)
         /\ Verdict(h) => Plain(y) \/ CardDecision(y)
         /\ CourseSave(h) => Plain(y) \/ Verdict(y) \/ CardDecision(y)
         /\ Reservation(h) => Plain(y) \/ NewApproval(y) \/ NewCard(y) \/ Completion(y)
         /\ Completion(h) => Plain(y)
  BY OneKind DEF Before

LEMMA TodoTables ==
  ASSUME NEW s, Fit(s)
  PROVE  \A i \in 1..Len(s) :
           s[i].table \in {"session", "runs", "cards", "approvals", "course", "effects"}
  <1>1. \A x \in Statements :
          x.table \in {"session", "runs", "cards", "approvals", "course", "effects"}
    BY DEF Statements, PlainStatements, SessionStatements, MessageStatements, RunStatements,
           CardStatements, ApprovalStatements, CourseStatements, EffectStatements
  <1>2. QED
    BY <1>1 DEF Fit

(* The statement at the head is of the table it is issued for.             *)
LEMMA HeadFacts ==
  ASSUME NEW h \in Statements
  PROVE  /\ h.table = "session" =>
              /\ Plain(h)
              /\ h.set \in [status : SessionStatus]
                 \/ h.set \in [latest : 0..MaxMessages, text : Texts \cup {"none"}]
         /\ h.table = "runs" => Plain(h) /\ h.row \in RunIds /\ h.set \in RunSets
         /\ h.table = "cards" => NewCard(h) \/ CardDecision(h)
         /\ h.table = "approvals" => NewApproval(h) \/ Verdict(h)
         /\ h.table = "course" => CourseSave(h)
         /\ h.table = "effects" => Reservation(h) \/ Completion(h)
  <1>1. Plain(h) => h \in PlainStatements
    BY StatementFacts
  <1>2. h \in SessionStatements => h.table = "session" /\ h.set \in [status : SessionStatus]
    BY DEF SessionStatements
  <1>3. h \in MessageStatements =>
          h.table = "session" /\ h.set \in [latest : 0..MaxMessages, text : Texts \cup {"none"}]
    BY DEF MessageStatements
  <1>4. h \in RunStatements(RunIds) => h.table = "runs" /\ h.row \in RunIds /\ h.set \in RunSets
    BY DEF RunStatements
  <1>5. QED
    BY <1>1, <1>2, <1>3, <1>4 DEF PlainStatements, Plain, NewCard, CardDecision, NewApproval,
       Verdict, CourseSave, Reservation, Completion

LEMMA WriteTypes ==
  ASSUME SInv, Write
  PROVE  TypeOK' /\ StatementInv'
  <1> DEFINE h == Head(todo)
  <1>1. PICK t : Issue(t)
    BY DEF Write, WriteSession, WriteRun, WriteCard, WriteApproval, WriteCourse, WriteEffect
  <1>2. /\ Fit(todo') /\ h \in Statements /\ handling' \in {handling, NoId}
        /\ UNCHANGED <<ready, up, marking, turn, deciding, cli, cut, crashes, clis>>
    BY <1>1, Issues
  <1>3. \A i \in 1..Len(todo') :
          todo'[i].table \in {"session", "runs", "cards", "approvals", "course", "effects"}
    BY <1>2, TodoTables
  <1>4. session' \in SessionRows
    <2>1. session \in SessionRows
      BY DEF SInv, TypeOK, SessionRows
    <2>2. CASE WriteSession
      <3>1. h.table = "session" /\ session' = Merge(session, h.set)
        BY <2>2 DEF WriteSession, Issue
      <3>2. QED
        BY <1>2, <2>1, <3>1, HeadFacts, MergeSession
    <2>3. QED
      BY <2>1, <2>2 DEF Write, WriteRun, WriteCard, WriteApproval, WriteCourse, WriteEffect
  <1>5. runs' \in [RunIds -> RunRows]
    <2>1. runs \in [RunIds -> RunRows]
      BY DEF SInv, TypeOK, RunRows
    <2>2. CASE WriteRun
      <3>1. h.table = "runs" /\ runs' = [runs EXCEPT ![h.row] = Merge(runs[h.row], h.set)]
        BY <2>2 DEF WriteRun, Issue
      <3>2. h.row \in RunIds /\ Merge(runs[h.row], h.set) \in RunRows
        BY <1>2, <2>1, <3>1, HeadFacts, MergeRun
      <3>3. QED
        BY <2>1, <3>1, <3>2
    <2>3. QED
      BY <2>1, <2>2 DEF Write, WriteSession, WriteCard, WriteApproval, WriteCourse, WriteEffect
  <1>6. cards' \in [Ids -> CardRows]
    <2>1. cards \in [Ids -> CardRows]
      BY DEF SInv, TypeOK, CardRows
    <2>2. CASE WriteCard
      <3>1. h.table = "cards" /\ cards' = [cards EXCEPT ![h.row] = Merge(cards[h.row], h.set)]
        BY <2>2 DEF WriteCard, Issue
      <3>2. h.row \in Ids /\ (h.set \in CardRecords \/ h.set \in [status : CardStatus])
        <4>1. h.set \in [status : CardStatus \ {"pending"}] => h.set \in [status : CardStatus]
          OBVIOUS
        <4>2. QED
          BY <1>2, <3>1, <4>1, HeadFacts, StatementFacts
      <3>3. \A row \in CardRows, v \in CardStatus : [row EXCEPT !.status = v] \in CardRows
        BY DEF CardRows
      <3>4. CardRecords \subseteq CardRows
        BY DEF CardRecords, CardRows, CardStatus
      <3>5. Merge(cards[h.row], h.set) \in CardRows
        BY <2>1, <3>2, <3>3, <3>4, MergeCard
      <3>6. QED
        BY <2>1, <3>1, <3>2, <3>5
    <2>3. QED
      BY <2>1, <2>2 DEF Write, WriteSession, WriteRun, WriteApproval, WriteCourse, WriteEffect
  <1>7. approvals' \in [Ids -> ApprovalRows]
    <2>1. approvals \in [Ids -> ApprovalRows]
      BY DEF SInv, TypeOK, ApprovalRows
    <2>2. CASE WriteApproval
      <3>1. /\ h.table = "approvals"
            /\ approvals' = [approvals EXCEPT ![h.row] = Merge(approvals[h.row], h.set)]
        BY <2>2 DEF WriteApproval, Issue
      <3>2. h.row \in Ids /\ (h.set \in ApprovalRecords \/ h.set \in [status : {"approved", "rejected"}])
        BY <1>2, <3>1, HeadFacts, StatementFacts
      <3>3. \A row \in ApprovalRows, v \in {"approved", "rejected"} :
              [row EXCEPT !.status = v] \in ApprovalRows
        BY DEF ApprovalRows
      <3>4. ApprovalRecords \subseteq ApprovalRows
        BY DEF ApprovalRecords, ApprovalRows
      <3>5. Merge(approvals[h.row], h.set) \in ApprovalRows
        <4>1. approvals[h.row] \in ApprovalRows
          BY <2>1, <3>2
        <4>2. CASE h.set \in ApprovalRecords
          BY <3>4, <4>1, <4>2, MergeApproval
        <4>3. CASE h.set \in [status : {"approved", "rejected"}]
          <5>1. Merge(approvals[h.row], h.set) = [approvals[h.row] EXCEPT !.status = h.set.status]
            BY <4>1, <4>3, MergeApproval
          <5>2. h.set.status \in {"approved", "rejected"}
            BY <4>3
          <5>3. QED
            BY <3>3, <4>1, <5>1, <5>2
        <4>4. QED
          BY <3>2, <4>2, <4>3
      <3>6. QED
        BY <2>1, <3>1, <3>2, <3>5
    <2>3. QED
      BY <2>1, <2>2 DEF Write, WriteSession, WriteRun, WriteCard, WriteCourse, WriteEffect
  <1>8. course' \in [Ids -> [saved : 0..MaxSaves]]
    <2>1. course \in [Ids -> [saved : 0..MaxSaves]]
      BY DEF SInv, TypeOK
    <2>2. CASE WriteCourse
      <3>1. h.table = "course" /\ course' = [course EXCEPT ![h.row] = Merge(course[h.row], h.set)]
        BY <2>2 DEF WriteCourse, Issue
      <3>2. h.row \in Ids /\ h.set \in [saved : 0..MaxSaves]
        BY <1>2, <3>1, HeadFacts, StatementFacts
      <3>3. QED
        BY <2>1, <3>1, <3>2, MergeCourse
    <2>3. QED
      BY <2>1, <2>2 DEF Write, WriteSession, WriteRun, WriteCard, WriteApproval, WriteEffect
  <1>9. effects' \in [Keys -> EffectRows]
    <2>1. effects \in [Keys -> EffectRows]
      BY DEF SInv, TypeOK, EffectRows
    <2>2. CASE WriteEffect
      <3>1. h.table = "effects" /\ effects' = [effects EXCEPT ![h.row] = Merge(effects[h.row], h.set)]
        BY <2>2 DEF WriteEffect, Issue
      <3>2. h.row \in Keys /\ (h.set \in [status : {"reserved"}]
                               \/ h.set \in [status : {"completed"}, approval : Ids])
        BY <1>2, <3>1, HeadFacts, StatementFacts
      <3>3. \A row \in EffectRows : [row EXCEPT !.status = "reserved"] \in EffectRows
        BY DEF EffectRows
      <3>4. [status : {"completed"}, approval : Ids] \subseteq EffectRows
        BY DEF EffectRows
      <3>5. Merge(effects[h.row], h.set) \in EffectRows
        BY <2>1, <3>2, <3>3, <3>4, MergeEffect
      <3>6. QED
        BY <2>1, <3>1, <3>2, <3>5
    <2>3. QED
      BY <2>1, <2>2 DEF Write, WriteSession, WriteRun, WriteCard, WriteApproval, WriteCourse
  <1>10. /\ ready' \in BOOLEAN /\ up' \in BOOLEAN /\ marking' \in SUBSET RunIds
         /\ turn' \in [pc : {"none", "queued", "agent", "compact", "finish"}, run : RunIds \cup {NoRun},
                       text : Texts \cup {"none"}, persist : BOOLEAN, skill : Skills \cup {"none"}]
         /\ deciding' \in SUBSET [card : Ids, reason : Reasons]
         /\ cli' \in SUBSET RunIds /\ handling' \in Ids \cup {NoId} /\ cut' \in SUBSET Ids
         /\ crashes' \in 0..MaxCrashes /\ clis' \in 0..MaxCli
    BY <1>2 DEF SInv, TypeOK
  <1> HIDE DEF h
  <1>11. TypeOK'
    BY <1>3, <1>4, <1>5, <1>6, <1>7, <1>8, <1>9, <1>10
       DEF TypeOK, SessionRows, RunRows, CardRows, ApprovalRows, EffectRows
  <1>12. QED
    BY <1>2, <1>11 DEF StatementInv

-----------------------------------------------------------------------------
(* Issuing preserves what the tables and the waiting statements hold.      *)

(* What ends with the last statement of a decision.                        *)
LEMMA HandlingEnds ==
  ASSUME SInv, NEW t, Issue(t),
         handling # NoId => approvals'[handling].status # "absent",
         handling # NoId /\ handling \notin cut =>
           /\ \A c \in PendingCards' : cards'[c].approval = handling => Decides(c)'
           /\ \A x \in Waiting' : NewCard(x) => Decides(x.row)',
         \A c \in PendingCards' :
           cards'[c].kind = "plan" =>
             /\ cards'[c].approval \in Ids
             /\ cards'[c].approval \notin cut \cup {handling} =>
                  approvals'[cards'[c].approval].status = "pending"
             /\ \A d \in PendingCards' : cards'[d].approval = cards'[c].approval => d = c
  PROVE  HandlingInv' /\ PendingCardOwnsItsApproval'
  <1>1. /\ todo' = <<>> => Waiting' = {} /\ handling' = NoId
        /\ todo' # <<>> => handling' = handling
        /\ cut' = cut
    BY Issues
  <1>2. HandlingInv'
    BY <1>1 DEF HandlingInv
  <1>3. ASSUME NEW c \in PendingCards', cards'[c].kind = "plan",
               cards'[c].approval \notin cut' \cup {handling'}
        PROVE  approvals'[cards'[c].approval].status = "pending"
    <2>1. CASE cards'[c].approval # handling
      BY <1>1, <1>3, <2>1
    <2>2. CASE cards'[c].approval = handling
      <3>1. handling # NoId /\ handling \notin cut
        BY <1>1, <1>3, <2>2, Bounds
      <3>2. Decides(c)' /\ todo' = <<>>
        BY <1>1, <1>3, <2>2, <3>1
      <3>3. QED
        BY <1>1, <3>2 DEF Decides
    <2>3. QED
      BY <2>1, <2>2
  <1>4. QED
    BY <1>2, <1>3 DEF PendingCardOwnsItsApproval

LEMMA PlainWrite ==
  ASSUME SInv, WriteSession \/ WriteRun
  PROVE  TableInv'
  <1> DEFINE h == Head(todo)
  <1>1. PICK t : Issue(t) /\ t \in {"session", "runs"}
    BY DEF WriteSession, WriteRun
  <1>2. /\ h \in Statements /\ Plain(h)
        /\ Waiting = Waiting' \cup {h}
        /\ \A y \in Waiting' : y \in Waiting
        /\ Waiting' # {} => handling' = handling
        /\ UNCHANGED <<cards, approvals, course, effects, cut>>
    <2>1. UNCHANGED <<cards, approvals, course, effects>>
      BY DEF WriteSession, WriteRun
    <2>2. QED
      BY <1>1, <2>1, Issues DEF Plain
  <1> HIDE DEF h
  <1>3. /\ \A c : Decides(c) => Decides(c)'
        /\ \A c : Approves(c) => Approves(c)'
        /\ \A c : Gets(c) => Gets(c)'
    BY <1>2, StillWaiting, OneKind
  <1>4. \A c : HasCardSoon(c) => HasCardSoon(c)'
    BY <1>2, OneKind DEF HasCardSoon
  <1>5. PendingCards' = PendingCards
    BY <1>2 DEF PendingCards
  <1>6. CardInv' /\ ApprovalInv' /\ OneCardPerProposal'
    BY <1>2 DEF SInv, TableInv, CardInv, ApprovalInv, OneCardPerProposal
  <1>7. WaitInv'
    <2> SUFFICES ASSUME NEW x \in Waiting'
                 PROVE  /\ NewCard(x) => NewCardOk(x)'
                        /\ NewCard(x) /\ x.set.kind = "plan" => NewPlanCardOk(x)'
                        /\ CardDecision(x) => DecisionOk(x)'
                        /\ NewApproval(x) => NewApprovalOk(x)'
                        /\ Verdict(x) => VerdictOk(x)'
                        /\ CourseSave(x) => SaveOk(x)'
                        /\ Reservation(x) => effects'[x.row].status = "absent"
                        /\ Completion(x) => CompletionOk(x)'
      BY DEF WaitInv
    <2>1. WaitInv /\ x \in Waiting /\ handling' = handling
      BY <1>2 DEF SInv, TableInv
    <2>2. NewCard(x) => NewCardOk(x)'
      BY <1>2, <2>1 DEF WaitInv, NewCardOk
    <2>3. NewCard(x) /\ x.set.kind = "plan" => NewPlanCardOk(x)'
      BY <1>2, <1>3, <1>5, <2>1 DEF WaitInv, NewPlanCardOk
    <2>4. CardDecision(x) => DecisionOk(x)'
      BY <1>2, <1>4, <2>1 DEF WaitInv, DecisionOk
    <2>5. NewApproval(x) => NewApprovalOk(x)'
      BY <1>2, <2>1, OneKind DEF WaitInv, NewApprovalOk
    <2>6. Verdict(x) => VerdictOk(x)'
      BY <1>2, <1>4, <2>1 DEF WaitInv, VerdictOk
    <2>7. CourseSave(x) => SaveOk(x)'
      BY <1>2, <1>3, <1>4, <2>1 DEF WaitInv, SaveOk
    <2>8. Completion(x) => CompletionOk(x)'
      BY <1>2, <2>1, OneKind DEF WaitInv, CompletionOk
    <2>9. Reservation(x) => effects'[x.row].status = "absent"
      BY <1>2, <2>1 DEF WaitInv
    <2>10. QED
      BY <2>2, <2>3, <2>4, <2>5, <2>6, <2>7, <2>8, <2>9
  <1>8. SavedInv'
    BY <1>2, <1>3 DEF SInv, TableInv, SavedInv
  <1>9. HandlingInv' /\ PendingCardOwnsItsApproval'
    <2>1. handling # NoId => approvals'[handling].status # "absent"
      BY <1>2 DEF SInv, TableInv, HandlingInv
    <2>2. handling # NoId /\ handling \notin cut =>
           /\ \A c \in PendingCards' : cards'[c].approval = handling => Decides(c)'
           /\ \A x \in Waiting' : NewCard(x) => Decides(x.row)'
      BY <1>2, <1>3, <1>5 DEF SInv, TableInv, HandlingInv
    <2>3. \A c \in PendingCards : cards[c].kind = "plan" => cards[c].approval \in Ids
      BY DEF SInv, TableInv, CardInv, PendingCards
    <2>4. \A c \in PendingCards' :
           cards'[c].kind = "plan" =>
             /\ cards'[c].approval \in Ids
             /\ cards'[c].approval \notin cut \cup {handling} =>
                  approvals'[cards'[c].approval].status = "pending"
             /\ \A d \in PendingCards' : cards'[d].approval = cards'[c].approval => d = c
      BY <1>2, <1>5, <2>3 DEF SInv, TableInv, PendingCardOwnsItsApproval
    <2>5. QED
      BY <1>1, <2>1, <2>2, <2>4, HandlingEnds
  <1>10. QED
    BY <1>6, <1>7, <1>8, <1>9 DEF TableInv

LEMMA InsertCard ==
  ASSUME SInv, WriteCard, NewCard(Head(todo))
  PROVE  TableInv'
  <1> DEFINE h == Head(todo)
             n == h.row
             a == h.set.approval
  <1>1. Issue("cards")
    BY DEF WriteCard
  <1>2. /\ h \in Statements /\ NewCard(h) /\ n \in Ids /\ h.set \in CardRecords /\ h \in Waiting
        /\ Waiting = Waiting' \cup {h}
        /\ \A y \in Waiting' : y \in Waiting /\ y \in Statements
        /\ Waiting' # {} => handling' = handling
        /\ UNCHANGED <<approvals, course, effects, cut>>
    <2>1. UNCHANGED <<approvals, course, effects>>
      BY DEF WriteCard
    <2>2. QED
      BY <1>1, <2>1, Issues, StatementFacts
  <1>3. \A y \in Waiting' : /\ ~NewCard(y) /\ ~NewApproval(y) /\ ~Reservation(y)
                            /\ CardDecision(y) => y.row = n
    BY <1>1, <1>2, Issues, Behind
  <1>4. cards \in [Ids -> CardRows] /\ cards' = [cards EXCEPT ![n] = h.set]
    <2>1. cards \in [Ids -> CardRows]
      BY DEF SInv, TypeOK, CardRows
    <2>2. QED
      BY <1>2, <2>1, MergeCard DEF WriteCard
  <1>5. /\ NewCardOk(h) /\ (h.set.kind = "plan" => NewPlanCardOk(h))
        /\ h.set.kind \in {"checkpoint", "plan"} /\ h.set.status = "pending"
    BY <1>2 DEF SInv, TableInv, WaitInv, CardRecords
  <1> HIDE DEF h
  <1>6. /\ \A c : Decides(c) => Decides(c)'
        /\ \A c : Approves(c) => Approves(c)'
        /\ \A c : ~Gets(c)
    <2>1. \A c : ~Gets(c)
      BY <1>2, <1>3, OneKind DEF Gets
    <2>2. QED
      BY <1>2, <2>1, StillWaiting, OneKind
  <1>7. \A c \in Ids : HasCardSoon(c) => cards'[c].kind # "absent"
    BY <1>2, <1>3, <1>4, <1>5 DEF HasCardSoon
  <1>8. /\ cards[n].kind = "absent" /\ n \notin PendingCards
        /\ PendingCards' = PendingCards \cup {n}
        /\ cards'[n] = h.set /\ \A c \in Ids : c # n => cards'[c] = cards[c]
    BY <1>2, <1>4, <1>5 DEF PendingCards, NewCardOk
  <1>9. h.set.kind = "plan" => a \in Ids /\ approvals[a].status # "absent"
    BY <1>5, <1>6 DEF NewPlanCardOk
  <1>10. CardInv'
    <2>1. h.set.kind = "checkpoint" => a = NoId /\ approvals[n].status = "absent"
      BY <1>5 DEF NewCardOk
    <2>2. h.set.kind = "plan" => a = n \/ approvals[n].status = "absent"
      BY <1>5 DEF NewPlanCardOk
    <2>3. QED
      BY <1>2, <1>5, <1>8, <1>9, <2>1, <2>2 DEF SInv, TableInv, CardInv
  <1>11. ApprovalInv'
    <2>1. h.set.kind = "plan" => n = a \/ cards[a].kind # "absent"
      BY <1>5 DEF NewPlanCardOk
    <2>2. h.set.kind = "checkpoint" => a \notin Ids
      BY <1>5, Bounds DEF NewCardOk
    <2>3. ASSUME NEW b \in Ids, cards'[b].kind = "absent", approvals'[b].status # "absent"
          PROVE  /\ approvals'[b].status = "pending" /\ course'[b].saved = 0
                 /\ \A c \in Ids : cards'[c].approval # b
      BY <1>2, <1>5, <1>8, <2>1, <2>2, <2>3 DEF SInv, TableInv, ApprovalInv
    <2>4. QED
      BY <1>2, <2>3 DEF SInv, TableInv, ApprovalInv
  <1>12. WaitInv'
    <2> SUFFICES ASSUME NEW x \in Waiting'
                 PROVE  /\ CardDecision(x) => DecisionOk(x)'
                        /\ Verdict(x) => VerdictOk(x)'
                        /\ CourseSave(x) => SaveOk(x)'
                        /\ Completion(x) => CompletionOk(x)'
      BY <1>3 DEF WaitInv
    <2>1. WaitInv /\ x \in Waiting /\ x \in Statements /\ handling' = handling
      BY <1>2 DEF SInv, TableInv
    <2>2. CardDecision(x) => DecisionOk(x)'
      BY <1>3, <1>5, <1>8 DEF DecisionOk, HasCardSoon
    <2>3. Verdict(x) => VerdictOk(x)'
      BY <1>2, <1>7, <2>1, StatementFacts DEF WaitInv, VerdictOk, HasCardSoon
    <2>4. CourseSave(x) => SaveOk(x)'
      BY <1>2, <1>6, <1>7, <2>1, StatementFacts DEF WaitInv, SaveOk, HasCardSoon
    <2>5. Completion(x) => CompletionOk(x)'
      <3> SUFFICES ASSUME Completion(x) PROVE CompletionOk(x)'
        OBVIOUS
      <3>1. CompletionOk(x) /\ x.set.approval \in Ids
        BY <2>1, StatementFacts DEF WaitInv
      <3>2. approvals[x.set.approval].key = x.row
        BY <1>2, <1>3, <3>1, OneKind DEF CompletionOk
      <3>3. cards'[x.set.approval].kind = "plan"
        BY <1>2, <1>3, <1>8, <3>1 DEF CompletionOk
      <3>4. QED
        BY <1>2, <3>2, <3>3 DEF CompletionOk
    <2>6. QED
      BY <2>2, <2>3, <2>4, <2>5
  <1>13. SavedInv'
    BY <1>2, <1>6 DEF SInv, TableInv, SavedInv
  <1>14. OneCardPerProposal'
    <2>1. ASSUME NEW k \in Keys, effects'[k].status = "completed"
          PROVE  LET b == effects'[k].approval IN
                   b \in Ids /\ approvals'[b].key = k /\ cards'[b].kind = "plan"
      BY <1>2, <1>8, <2>1 DEF SInv, TableInv, OneCardPerProposal
    <2>2. QED
      BY <1>2, <2>1 DEF SInv, TableInv, OneCardPerProposal
  <1>15. HandlingInv' /\ PendingCardOwnsItsApproval'
    <2>1. handling # NoId => approvals'[handling].status # "absent"
      BY <1>2 DEF SInv, TableInv, HandlingInv
    <2>2. handling # NoId /\ handling \notin cut =>
           /\ \A c \in PendingCards' : cards'[c].approval = handling => Decides(c)'
           /\ \A x \in Waiting' : NewCard(x) => Decides(x.row)'
      BY <1>2, <1>3, <1>6, <1>8 DEF SInv, TableInv, HandlingInv, PendingCards
    <2>3. ASSUME NEW d \in PendingCards, cards[d].approval = a, h.set.kind = "plan"
          PROVE  FALSE
      <3>1. Decides(d)
        BY <1>5, <2>3 DEF NewPlanCardOk
      <3>2. PICK z \in Waiting' : CardDecision(z) /\ z.row = d
        BY <1>6, <3>1 DEF Decides
      <3>3. QED
        BY <1>3, <1>8, <3>2
    <2>4. ASSUME NEW c \in PendingCards', cards'[c].kind = "plan"
          PROVE  /\ cards'[c].approval \in Ids
                 /\ cards'[c].approval \notin cut \cup {handling} =>
                      approvals'[cards'[c].approval].status = "pending"
                 /\ \A d \in PendingCards' : cards'[d].approval = cards'[c].approval => d = c
      <3>1. CASE c = n
        <4>1. a \notin cut \cup {handling} => approvals[a].status = "pending"
          BY <1>5, <1>8, <1>9, <2>4, <3>1 DEF NewPlanCardOk
        <4>2. \A d \in PendingCards' : cards'[d].approval = a => d = n
          BY <1>8, <2>3, <2>4, <3>1 DEF PendingCards
        <4>3. QED
          BY <1>2, <1>8, <1>9, <2>4, <3>1, <4>1, <4>2
      <3>2. CASE c # n
        <4>1. c \in PendingCards /\ c \in Ids /\ cards'[c] = cards[c] /\ cards[c].kind = "plan"
          BY <1>8, <2>4, <3>2 DEF PendingCards
        <4>2. cards[c].approval \in Ids
          BY <4>1 DEF SInv, TableInv, CardInv
        <4>3. a # cards[c].approval
          <5>1. CASE h.set.kind = "plan"
            BY <2>3, <4>1, <5>1
          <5>2. CASE h.set.kind = "checkpoint"
            BY <1>5, <4>2, <5>2, Bounds DEF NewCardOk
          <5>3. QED
            BY <1>5, <5>1, <5>2
        <4>4. \A d \in PendingCards' : cards'[d].approval = cards'[c].approval => d = c
          BY <1>8, <4>1, <4>3 DEF SInv, TableInv, PendingCardOwnsItsApproval, PendingCards
        <4>5. QED
          BY <1>2, <4>1, <4>2, <4>4 DEF SInv, TableInv, PendingCardOwnsItsApproval
      <3>3. QED
        BY <3>1, <3>2
    <2>5. QED
      BY <1>1, <2>1, <2>2, <2>4, HandlingEnds
  <1>16. QED
    BY <1>10, <1>11, <1>12, <1>13, <1>14, <1>15 DEF TableInv

LEMMA DecideCard ==
  ASSUME SInv, WriteCard, CardDecision(Head(todo))
  PROVE  TableInv'
  <1> DEFINE h == Head(todo)
             n == h.row
  <1>1. Issue("cards")
    BY DEF WriteCard
  <1>2. /\ h \in Statements /\ CardDecision(h) /\ n \in Ids
        /\ h.set \in [status : CardStatus \ {"pending"}] /\ h \in Waiting
        /\ Waiting = Waiting' \cup {h}
        /\ \A y \in Waiting' : y \in Waiting /\ y \in Statements
        /\ Waiting' # {} => handling' = handling
        /\ UNCHANGED <<approvals, course, effects, cut>>
    <2>1. UNCHANGED <<approvals, course, effects>>
      BY DEF WriteCard
    <2>2. QED
      BY <1>1, <2>1, Issues, StatementFacts
  <1>3. \A y \in Waiting' : Plain(y) \/ (NewCard(y) /\ y.row # n)
    BY <1>1, <1>2, Issues, Behind
  <1>4. cards \in [Ids -> CardRows] /\ cards' = [cards EXCEPT ![n].status = h.set.status]
    <2>1. cards \in [Ids -> CardRows]
      BY DEF SInv, TypeOK, CardRows
    <2>2. h.set \in [status : CardStatus]
      BY <1>2
    <2>3. QED
      BY <1>2, <2>1, <2>2, MergeCard DEF WriteCard
  <1>5. cards[n].kind # "absent" /\ h.set.status # "pending"
    <2>1. HasCardSoon(n)
      BY <1>2 DEF SInv, TableInv, WaitInv, DecisionOk
    <2>2. QED
      BY <1>2, <1>3, <2>1, OneKind DEF HasCardSoon
  <1> HIDE DEF h
  <1>6. /\ PendingCards' = PendingCards \ {n}
        /\ \A c \in Ids : /\ cards'[c].kind = cards[c].kind
                          /\ cards'[c].approval = cards[c].approval
                          /\ c # n => cards'[c] = cards[c]
    BY <1>2, <1>4, <1>5 DEF PendingCards, CardRows
  <1>7. /\ \A c : c # n => (Decides(c) => Decides(c)')
        /\ \A c : Approves(c) => Approves(c)'
        /\ \A c : Gets(c) => Gets(c)'
    BY <1>2, StillWaiting, OneKind
  <1>8. CardInv' /\ ApprovalInv' /\ OneCardPerProposal'
    <2>1. CardInv'
      BY <1>2, <1>5, <1>6 DEF SInv, TableInv, CardInv
    <2>2. ApprovalInv'
      BY <1>2, <1>6 DEF SInv, TableInv, ApprovalInv
    <2>3. OneCardPerProposal'
      BY <1>2, <1>6 DEF SInv, TableInv, OneCardPerProposal
    <2>4. QED
      BY <2>1, <2>2, <2>3
  <1>9. WaitInv'
    <2> SUFFICES ASSUME NEW x \in Waiting', NewCard(x)
                 PROVE  NewCardOk(x)' /\ (x.set.kind = "plan" => NewPlanCardOk(x)')
      BY <1>2, <1>3, OneKind DEF WaitInv
    <2>1. WaitInv /\ x \in Waiting /\ handling' = handling /\ x.row \in Ids /\ x.row # n
          /\ x.set \in CardRecords
      BY <1>2, <1>3, StatementFacts, OneKind DEF SInv, TableInv
    <2>2. NewCardOk(x)'
      BY <1>2, <1>6, <2>1 DEF WaitInv, NewCardOk
    <2>3. x.set.kind = "plan" => NewPlanCardOk(x)'
      <3> SUFFICES ASSUME x.set.kind = "plan" PROVE NewPlanCardOk(x)'
        OBVIOUS
      <3>1. NewPlanCardOk(x)
        BY <2>1 DEF WaitInv
      <3>2. \A c \in PendingCards' : cards'[c].approval = x.set.approval => Decides(c)'
        BY <1>6, <1>7, <3>1 DEF NewPlanCardOk, PendingCards
      <3>3. QED
        BY <1>2, <1>6, <1>7, <2>1, <3>1, <3>2 DEF NewPlanCardOk
    <2>4. QED
      BY <2>2, <2>3
  <1>10. SavedInv'
    BY <1>2, <1>7 DEF SInv, TableInv, SavedInv
  <1>11. HandlingInv' /\ PendingCardOwnsItsApproval'
    <2>1. handling # NoId => approvals'[handling].status # "absent"
      BY <1>2 DEF SInv, TableInv, HandlingInv
    <2>2. handling # NoId /\ handling \notin cut =>
           /\ \A c \in PendingCards' : cards'[c].approval = handling => Decides(c)'
           /\ \A x \in Waiting' : NewCard(x) => Decides(x.row)'
      BY <1>2, <1>3, <1>6, <1>7, OneKind DEF SInv, TableInv, HandlingInv, PendingCards
    <2>3. \A c \in PendingCards : c \in Ids /\ (cards[c].kind = "plan" => cards[c].approval \in Ids)
      BY DEF SInv, TableInv, CardInv, PendingCards
    <2>4. \A c \in PendingCards' :
           cards'[c].kind = "plan" =>
             /\ cards'[c].approval \in Ids
             /\ cards'[c].approval \notin cut \cup {handling} =>
                  approvals'[cards'[c].approval].status = "pending"
             /\ \A d \in PendingCards' : cards'[d].approval = cards'[c].approval => d = c
      BY <1>2, <1>6, <2>3 DEF SInv, TableInv, PendingCardOwnsItsApproval
    <2>5. QED
      BY <1>1, <2>1, <2>2, <2>4, HandlingEnds
  <1>12. QED
    BY <1>8, <1>9, <1>10, <1>11 DEF TableInv

LEMMA InsertApproval ==
  ASSUME SInv, WriteApproval, NewApproval(Head(todo))
  PROVE  TableInv'
  <1> DEFINE h == Head(todo)
             n == h.row
  <1>1. Issue("approvals")
    BY DEF WriteApproval
  <1>2. /\ h \in Statements /\ NewApproval(h) /\ n \in Ids /\ h.set \in ApprovalRecords /\ h \in Waiting
        /\ Waiting = Waiting' \cup {h}
        /\ \A y \in Waiting' : y \in Waiting /\ y \in Statements
        /\ Waiting' # {} => handling' = handling
        /\ UNCHANGED <<cards, course, effects, cut>>
    <2>1. UNCHANGED <<cards, course, effects>>
      BY DEF WriteApproval
    <2>2. QED
      BY <1>1, <2>1, Issues, StatementFacts
  <1>3. \A y \in Waiting' : Plain(y) \/ NewCard(y) \/ Completion(y)
    BY <1>1, <1>2, Issues, Behind
  <1>4. approvals' = [approvals EXCEPT ![n] = h.set]
    <2>1. approvals \in [Ids -> ApprovalRows]
      BY DEF SInv, TypeOK, ApprovalRows
    <2>2. QED
      BY <1>2, <2>1, MergeApproval DEF WriteApproval
  <1>5. h.set.status = "pending" /\ h.set.key \in Keys /\ h.set.key # NoKey
    BY <1>2, NoKeyAssumption DEF ApprovalRecords
  <1>6. /\ approvals'[n] = h.set
        /\ \A a \in Ids : a # n => approvals'[a] = approvals[a]
    <2>1. approvals \in [Ids -> ApprovalRows]
      BY DEF SInv, TypeOK, ApprovalRows
    <2>2. QED
      BY <1>2, <1>4, <2>1
  <1>7. cards[n].kind = "absent" /\ approvals[n].status = "absent"
    <2>1. n = NextId /\ UsedIds = 1..Cardinality(UsedIds) /\ IsFiniteSet(UsedIds)
      <3>1. IsFiniteSet(UsedIds)
        BY Bounds, FS_Subset DEF UsedIds
      <3>2. QED
        BY <1>2, <3>1 DEF SInv, IdInv
    <2>2. n \notin UsedIds
      BY <2>1, FS_CardinalityType DEF NextId
    <2>3. QED
      BY <1>2, <2>2 DEF UsedIds
  <1>8. \A c \in Ids : cards[c].approval # n
    <2>1. \A c \in Ids : cards[c].kind = "plan" => approvals[cards[c].approval].status # "absent"
      BY DEF SInv, TableInv, CardInv
    <2>2. \A c \in Ids : cards[c].kind # "plan" => cards[c].approval = NoId
      BY DEF SInv, TableInv, CardInv
    <2>3. QED
      BY <1>2, <1>7, <2>1, <2>2, Bounds
  <1>9. NewApprovalOk(h)
    BY <1>2 DEF SInv, TableInv, WaitInv
  <1> HIDE DEF h
  <1>10. effects[h.set.key].status = "reserved" /\ \A a \in Ids : approvals[a].key # h.set.key
    <2>1. ~\E y \in Waiting : Reservation(y)
      BY <1>2, <1>3, OneKind
    <2>2. effects \in [Keys -> EffectRows]
      BY DEF SInv, TypeOK, EffectRows
    <2>3. effects[h.set.key].status \in {"absent", "reserved", "completed"}
      BY <1>5, <2>2 DEF EffectRows
    <2>4. QED
      BY <1>9, <2>1, <2>3 DEF NewApprovalOk
  <1>11. PendingCards' = PendingCards /\ \A c : HasCardSoon(c) => HasCardSoon(c)'
    BY <1>2, OneKind DEF PendingCards, HasCardSoon
  <1>12. \A c : Decides(c) => Decides(c)'
    BY <1>2, StillWaiting, OneKind
  <1>13. CardInv' /\ ApprovalInv'
    <2>1. CardInv'
      BY <1>2, <1>5, <1>6, <1>7, <1>8 DEF SInv, TableInv, CardInv
    <2>2. n \notin cut /\ course[n].saved = 0
      BY <1>2, <1>7 DEF SInv, TableInv, ApprovalInv
    <2>3. ApprovalInv'
      BY <1>2, <1>5, <1>6, <1>8, <1>10, <2>2 DEF SInv, TableInv, ApprovalInv
    <2>4. QED
      BY <2>1, <2>3
  <1>14. WaitInv'
    <2> SUFFICES ASSUME NEW x \in Waiting'
                 PROVE  /\ NewCard(x) => NewCardOk(x)'
                        /\ NewCard(x) /\ x.set.kind = "plan" => NewPlanCardOk(x)'
                        /\ Completion(x) => CompletionOk(x)'
      BY <1>2, <1>3, OneKind DEF WaitInv
    <2>1. WaitInv /\ x \in Waiting /\ x \in Statements /\ handling' = handling
      BY <1>2 DEF SInv, TableInv
    <2>2. ~NewApproval(x) /\ \A y \in Waiting' : ~NewApproval(y)
      BY <1>2, <1>3, OneKind
    <2>3. ASSUME NewCard(x) PROVE x.set.kind = "plan" /\ x.row = n /\ x.set.approval = n /\ NewCardOk(x)
      BY <1>2, <2>1, <2>3 DEF WaitInv, NewCardOk
    <2>4. NewCard(x) => NewCardOk(x)'
      BY <1>2, <2>2, <2>3 DEF NewCardOk
    <2>5. NewCard(x) => NewPlanCardOk(x)'
      <3>1. ASSUME NewCard(x) PROVE \A c \in PendingCards' : cards'[c].approval # n
        BY <1>2, <1>8 DEF PendingCards
      <3>2. QED
        BY <1>2, <1>5, <1>6, <2>1, <2>3, <3>1 DEF NewPlanCardOk
    <2>6. Completion(x) => CompletionOk(x)'
      <3> SUFFICES ASSUME Completion(x) PROVE CompletionOk(x)'
        OBVIOUS
      <3>1. CompletionOk(x) /\ x.set.approval \in Ids /\ x.row \in Keys
        BY <2>1, StatementFacts DEF WaitInv
      <3>2. approvals'[x.set.approval].key = x.row
        <4>1. CASE approvals[x.set.approval].key = x.row
          <5>1. x.set.approval # n
            BY <1>2, <1>7, <3>1, <4>1, NoKeyAssumption DEF SInv, TableInv, ApprovalInv
          <5>2. QED
            BY <1>6, <3>1, <4>1, <5>1
        <4>2. CASE \E y \in Waiting : NewApproval(y) /\ y.row = x.set.approval /\ y.set.key = x.row
          BY <1>2, <1>6, <2>2, <4>2
        <4>3. QED
          BY <3>1, <4>1, <4>2 DEF CompletionOk
      <3>3. cards'[x.set.approval].kind = "plan"
              \/ \E y \in Waiting' : NewCard(y) /\ y.row = x.set.approval /\ y.set.kind = "plan"
        BY <1>2, <3>1, OneKind DEF CompletionOk
      <3>4. QED
        BY <3>2, <3>3 DEF CompletionOk
    <2>7. QED
      BY <2>4, <2>5, <2>6
  <1>15. SavedInv'
    <2>1. course[n].saved = 0
      BY <1>2, <1>7 DEF SInv, TableInv, ApprovalInv
    <2>2. \A a : Approves(a) => Approves(a)'
      BY <1>2, StillWaiting, OneKind
    <2>3. QED
      BY <1>2, <1>5, <1>6, <2>1, <2>2 DEF SInv, TableInv, SavedInv
  <1>16. OneCardPerProposal'
    <2>1. ASSUME NEW k \in Keys, effects'[k].status = "completed"
          PROVE  LET b == effects'[k].approval IN
                   b \in Ids /\ approvals'[b].key = k /\ cards'[b].kind = "plan"
      <3>1. LET b == effects[k].approval IN
              b \in Ids /\ approvals[b].key = k /\ cards[b].kind = "plan"
        BY <1>2, <2>1 DEF SInv, TableInv, OneCardPerProposal
      <3>2. QED
        BY <1>2, <1>6, <1>7, <3>1
    <2>2. \A a, b \in Ids : approvals'[a].key # NoKey /\ approvals'[a].key = approvals'[b].key => a = b
      BY <1>6, <1>10 DEF SInv, TableInv, OneCardPerProposal
    <2>3. QED
      BY <2>1, <2>2 DEF OneCardPerProposal
  <1>17. HandlingInv' /\ PendingCardOwnsItsApproval'
    <2>1. handling # NoId => approvals'[handling].status # "absent"
      <3>1. handling # NoId => handling \in Ids
        BY DEF SInv, TypeOK
      <3>2. QED
        BY <1>5, <1>6, <3>1 DEF SInv, TableInv, HandlingInv
    <2>2. handling # NoId /\ handling \notin cut =>
           /\ \A c \in PendingCards' : cards'[c].approval = handling => Decides(c)'
           /\ \A x \in Waiting' : NewCard(x) => Decides(x.row)'
      BY <1>2, <1>11, <1>12 DEF SInv, TableInv, HandlingInv
    <2>3. \A c \in PendingCards :
            c \in Ids /\ (cards[c].kind = "plan" => cards[c].approval \in Ids /\ cards[c].approval # n)
      BY <1>8 DEF SInv, TableInv, CardInv, PendingCards
    <2>4. \A c \in PendingCards' :
           cards'[c].kind = "plan" =>
             /\ cards'[c].approval \in Ids
             /\ cards'[c].approval \notin cut \cup {handling} =>
                  approvals'[cards'[c].approval].status = "pending"
             /\ \A d \in PendingCards' : cards'[d].approval = cards'[c].approval => d = c
      BY <1>2, <1>6, <1>11, <2>3 DEF SInv, TableInv, PendingCardOwnsItsApproval
    <2>5. QED
      BY <1>1, <2>1, <2>2, <2>4, HandlingEnds
  <1>18. QED
    BY <1>13, <1>14, <1>15, <1>16, <1>17 DEF TableInv

LEMMA DecideVerdict ==
  ASSUME SInv, WriteApproval, Verdict(Head(todo))
  PROVE  TableInv'
  <1> DEFINE h == Head(todo)
             n == h.row
  <1>1. Issue("approvals")
    BY DEF WriteApproval
  <1>2. /\ h \in Statements /\ Verdict(h) /\ n \in Ids /\ h \in Waiting
        /\ h.set \in [status : {"approved", "rejected"}]
        /\ Waiting = Waiting' \cup {h}
        /\ \A y \in Waiting' : y \in Waiting /\ y \in Statements
        /\ Waiting' # {} => handling' = handling
        /\ UNCHANGED <<cards, course, effects, cut>>
    <2>1. UNCHANGED <<cards, course, effects>>
      BY DEF WriteApproval
    <2>2. QED
      BY <1>1, <2>1, Issues, StatementFacts
  <1>3. \A y \in Waiting' : Plain(y) \/ CardDecision(y)
    BY <1>1, <1>2, Issues, Behind
  <1>4. approvals \in [Ids -> ApprovalRows] /\ approvals' = [approvals EXCEPT ![n].status = h.set.status]
    <2>1. approvals \in [Ids -> ApprovalRows]
      BY DEF SInv, TypeOK, ApprovalRows
    <2>2. QED
      BY <1>2, <2>1, MergeApproval DEF WriteApproval
  <1>5. VerdictOk(h)
    BY <1>2 DEF SInv, TableInv, WaitInv
  <1> HIDE DEF h
  <1>6. /\ approvals'[n].status = h.set.status /\ h.set.status \in {"approved", "rejected"}
        /\ \A a \in Ids : approvals'[a].key = approvals[a].key /\ (a # n => approvals'[a] = approvals[a])
    BY <1>2, <1>4 DEF ApprovalRows
  <1>7. n = handling /\ approvals[n].status = "pending" /\ cards[n].kind # "absent"
    <2>1. ~\E y \in Waiting : NewCard(y)
      BY <1>2, <1>3, OneKind
    <2>2. QED
      BY <1>5, <2>1 DEF VerdictOk, HasCardSoon
  <1>8. PendingCards' = PendingCards /\ \A c : HasCardSoon(c) => HasCardSoon(c)'
    BY <1>2, OneKind DEF PendingCards, HasCardSoon
  <1>9. /\ \A c : Decides(c) => Decides(c)'
        /\ \A a : Approves(a) => a = n
    <2>1. \A a : Approves(a) => a = n
      BY <1>2, <1>3, OneKind DEF Approves
    <2>2. QED
      BY <1>2, <2>1, StillWaiting, OneKind
  <1>10. CardInv' /\ ApprovalInv' /\ OneCardPerProposal'
    <2>1. CardInv'
      BY <1>2, <1>6, <1>7 DEF SInv, TableInv, CardInv
    <2>2. ApprovalInv'
      BY <1>2, <1>6, <1>7 DEF SInv, TableInv, ApprovalInv
    <2>3. OneCardPerProposal'
      BY <1>2, <1>6 DEF SInv, TableInv, OneCardPerProposal
    <2>4. QED
      BY <2>1, <2>2, <2>3
  <1>11. WaitInv'
    <2> SUFFICES ASSUME NEW x \in Waiting', CardDecision(x) PROVE DecisionOk(x)'
      BY <1>2, <1>3, OneKind DEF WaitInv
    <2>1. DecisionOk(x)
      BY <1>2 DEF SInv, TableInv, WaitInv
    <2>2. QED
      BY <1>2, <1>8, <2>1 DEF DecisionOk
  <1>12. SavedInv'
    <2>1. h.set.status = "rejected" => n \in cut \/ course[n].saved = 0
      BY <1>5 DEF VerdictOk
    <2>2. ASSUME NEW a \in Ids \ cut
          PROVE  /\ course'[a].saved <= 1
                 /\ approvals'[a].status = "rejected" => course'[a].saved = 0
                 /\ course'[a].saved = 1 => approvals'[a].status = "approved"
      BY <1>2, <1>6, <1>9, <2>1 DEF SInv, TableInv, SavedInv
    <2>3. QED
      BY <1>2, <2>2 DEF SavedInv
  <1>13. HandlingInv' /\ PendingCardOwnsItsApproval'
    <2>1. handling # NoId => approvals'[handling].status # "absent"
      BY <1>6, <1>7
    <2>2. handling # NoId /\ handling \notin cut =>
           /\ \A c \in PendingCards' : cards'[c].approval = handling => Decides(c)'
           /\ \A x \in Waiting' : NewCard(x) => Decides(x.row)'
      BY <1>2, <1>8, <1>9 DEF SInv, TableInv, HandlingInv
    <2>3. \A c \in PendingCards : c \in Ids /\ (cards[c].kind = "plan" => cards[c].approval \in Ids)
      BY DEF SInv, TableInv, CardInv, PendingCards
    <2>4. \A c \in PendingCards' :
           cards'[c].kind = "plan" =>
             /\ cards'[c].approval \in Ids
             /\ cards'[c].approval \notin cut \cup {handling} =>
                  approvals'[cards'[c].approval].status = "pending"
             /\ \A d \in PendingCards' : cards'[d].approval = cards'[c].approval => d = c
      BY <1>2, <1>6, <1>7, <1>8, <2>3 DEF SInv, TableInv, PendingCardOwnsItsApproval
    <2>5. QED
      BY <1>1, <2>1, <2>2, <2>4, HandlingEnds
  <1>14. QED
    BY <1>10, <1>11, <1>12, <1>13 DEF TableInv

LEMMA SaveCourse ==
  ASSUME SInv, WriteCourse
  PROVE  TableInv'
  <1> DEFINE h == Head(todo)
             n == h.row
  <1>1. Issue("course")
    BY DEF WriteCourse
  <1>2. /\ h \in Statements /\ CourseSave(h) /\ n \in Ids /\ h.set \in [saved : 0..MaxSaves]
        /\ h \in Waiting
        /\ Waiting = Waiting' \cup {h}
        /\ \A y \in Waiting' : y \in Waiting /\ y \in Statements
        /\ Waiting' # {} => handling' = handling
        /\ UNCHANGED <<cards, approvals, effects, cut>>
    <2>1. UNCHANGED <<cards, approvals, effects>>
      BY DEF WriteCourse
    <2>2. QED
      BY <1>1, <2>1, Issues, StatementFacts DEF CourseSave
  <1>3. \A y \in Waiting' : Plain(y) \/ Verdict(y) \/ CardDecision(y)
    BY <1>1, <1>2, Issues, Behind
  <1>4. course \in [Ids -> [saved : 0..MaxSaves]] /\ course' = [course EXCEPT ![n] = h.set]
    <2>1. course \in [Ids -> [saved : 0..MaxSaves]]
      BY DEF SInv, TypeOK
    <2>2. QED
      BY <1>2, <2>1, MergeCourse DEF WriteCourse
  <1>5. SaveOk(h)
    BY <1>2 DEF SInv, TableInv, WaitInv
  <1> HIDE DEF h
  <1>6. /\ course'[n].saved = course[n].saved + 1
        /\ \A a \in Ids : a # n => course'[a] = course[a]
    BY <1>2, <1>4, <1>5 DEF SaveOk
  <1>7. n = handling /\ approvals[n].status # "absent" /\ cards[n].kind # "absent"
    <2>1. ~\E y \in Waiting : NewCard(y)
      BY <1>2, <1>3, OneKind
    <2>2. QED
      BY <1>5, <2>1 DEF SaveOk, HasCardSoon
  <1>8. PendingCards' = PendingCards /\ \A c : HasCardSoon(c) => HasCardSoon(c)'
    BY <1>2, OneKind DEF PendingCards, HasCardSoon
  <1>9. /\ \A c : Decides(c) => Decides(c)'
        /\ \A c : Approves(c) => Approves(c)'
    BY <1>2, StillWaiting, OneKind
  <1>10. CardInv' /\ ApprovalInv' /\ OneCardPerProposal'
    <2>1. CardInv' /\ OneCardPerProposal'
      BY <1>2 DEF SInv, TableInv, CardInv, OneCardPerProposal
    <2>2. ApprovalInv'
      BY <1>2, <1>6, <1>7 DEF SInv, TableInv, ApprovalInv
    <2>3. QED
      BY <2>1, <2>2
  <1>11. WaitInv'
    <2> SUFFICES ASSUME NEW x \in Waiting'
                 PROVE  /\ CardDecision(x) => DecisionOk(x)'
                        /\ Verdict(x) => VerdictOk(x)'
      BY <1>2, <1>3, OneKind DEF WaitInv
    <2>1. WaitInv /\ x \in Waiting /\ handling' = handling
      BY <1>2 DEF SInv, TableInv
    <2>2. CardDecision(x) => DecisionOk(x)'
      BY <1>2, <1>8, <2>1 DEF WaitInv, DecisionOk
    <2>3. Verdict(x) => VerdictOk(x)'
      BY <1>2, <1>8, <2>1 DEF WaitInv, VerdictOk
    <2>4. QED
      BY <2>2, <2>3
  <1>12. SavedInv'
    <2>1. n \notin cut => course[n].saved = 0 /\ Approves(n)
      BY <1>5 DEF SaveOk
    <2>2. \A a \in Ids \ cut : approvals[a].status = "rejected" => a # n
      <3>1. n \notin cut => approvals[n].status = "pending"
        BY <1>7, <2>1 DEF Approves, SInv, TableInv, WaitInv, VerdictOk
      <3>2. QED
        BY <3>1
    <2>3. QED
      BY <1>2, <1>6, <1>9, <2>1, <2>2 DEF SInv, TableInv, SavedInv
  <1>13. HandlingInv' /\ PendingCardOwnsItsApproval'
    <2>1. handling # NoId => approvals'[handling].status # "absent"
      BY <1>2, <1>7
    <2>2. handling # NoId /\ handling \notin cut =>
           /\ \A c \in PendingCards' : cards'[c].approval = handling => Decides(c)'
           /\ \A x \in Waiting' : NewCard(x) => Decides(x.row)'
      BY <1>2, <1>8, <1>9 DEF SInv, TableInv, HandlingInv
    <2>3. \A c \in PendingCards : c \in Ids /\ (cards[c].kind = "plan" => cards[c].approval \in Ids)
      BY DEF SInv, TableInv, CardInv, PendingCards
    <2>4. \A c \in PendingCards' :
           cards'[c].kind = "plan" =>
             /\ cards'[c].approval \in Ids
             /\ cards'[c].approval \notin cut \cup {handling} =>
                  approvals'[cards'[c].approval].status = "pending"
             /\ \A d \in PendingCards' : cards'[d].approval = cards'[c].approval => d = c
      BY <1>2, <1>8, <2>3 DEF SInv, TableInv, PendingCardOwnsItsApproval
    <2>5. QED
      BY <1>1, <2>1, <2>2, <2>4, HandlingEnds
  <1>14. QED
    BY <1>10, <1>11, <1>12, <1>13 DEF TableInv

LEMMA WriteLedger ==
  ASSUME SInv, WriteEffect
  PROVE  TableInv'
  <1> DEFINE h == Head(todo)
             k == h.row
  <1>1. Issue("effects")
    BY DEF WriteEffect
  <1>2. /\ h \in Statements /\ h \in Waiting /\ (Reservation(h) \/ Completion(h)) /\ k \in Keys
        /\ Waiting = Waiting' \cup {h}
        /\ \A y \in Waiting' : y \in Waiting /\ y \in Statements
        /\ Waiting' # {} => handling' = handling
        /\ UNCHANGED <<cards, approvals, course, cut>>
    <2>1. UNCHANGED <<cards, approvals, course>>
      BY DEF WriteEffect
    <2>2. QED
      BY <1>1, <2>1, Issues, StatementFacts, HeadFacts
  <1>3. \A y \in Waiting' : /\ Plain(y) \/ NewApproval(y) \/ NewCard(y) \/ Completion(y)
                            /\ Completion(h) => Plain(y)
    BY <1>1, <1>2, Issues, Behind
  <1>4. /\ Reservation(h) => effects' = [effects EXCEPT ![k].status = "reserved"]
        /\ Completion(h) => effects' = [effects EXCEPT ![k] = h.set] /\ h.set.approval \in Ids
                            /\ h.set.status = "completed"
        /\ effects \in [Keys -> EffectRows]
    <2>1. effects \in [Keys -> EffectRows]
      BY DEF SInv, TypeOK, EffectRows
    <2>2. QED
      BY <1>2, <2>1, MergeEffect, StatementFacts DEF WriteEffect
  <1>5. /\ Reservation(h) => effects[k].status = "absent"
        /\ Completion(h) => CompletionOk(h)
    BY <1>2 DEF SInv, TableInv, WaitInv
  <1> HIDE DEF h
  <1>6. /\ effects'[k].status # "absent"
        /\ \A j \in Keys : j # k => effects'[j] = effects[j]
        /\ Reservation(h) => effects'[k].status = "reserved"
    BY <1>2, <1>4 DEF EffectRows
  <1>7. PendingCards' = PendingCards /\ \A c : HasCardSoon(c) => HasCardSoon(c)'
    BY <1>2, OneKind DEF PendingCards, HasCardSoon
  <1>8. /\ \A c : Decides(c) => Decides(c)'
        /\ \A c : Approves(c) => Approves(c)'
        /\ \A c : Gets(c) => Gets(c)'
    BY <1>2, StillWaiting, OneKind
  <1>9. CardInv' /\ SavedInv'
    BY <1>2, <1>8 DEF SInv, TableInv, CardInv, SavedInv
  <1>10. ApprovalInv'
    <2>1. \A a \in Ids : approvals[a].key # NoKey => approvals[a].key \in Keys
      BY DEF SInv, TypeOK
    <2>2. \A a \in Ids : approvals[a].key # NoKey => effects'[approvals[a].key].status # "absent"
      BY <1>2, <1>6, <2>1 DEF SInv, TableInv, ApprovalInv
    <2>3. QED
      BY <1>2, <2>2 DEF SInv, TableInv, ApprovalInv
  <1>11. OneCardPerProposal'
    <2>1. ASSUME NEW j \in Keys, effects'[j].status = "completed"
          PROVE  LET b == effects'[j].approval IN
                   b \in Ids /\ approvals'[b].key = j /\ cards'[b].kind = "plan"
      <3>1. CASE j # k
        BY <1>2, <1>6, <2>1, <3>1 DEF SInv, TableInv, OneCardPerProposal
      <3>2. CASE j = k
        <4>1. Completion(h) /\ CompletionOk(h) /\ effects'[j].approval = h.set.approval
          BY <1>2, <1>4, <1>5, <1>6, <2>1, <3>2
        <4>2. ~\E y \in Waiting : NewApproval(y) \/ NewCard(y)
          BY <1>2, <1>3, <4>1, OneKind
        <4>3. QED
          BY <1>2, <1>4, <3>2, <4>1, <4>2 DEF CompletionOk
      <3>3. QED
        BY <3>1, <3>2
    <2>2. QED
      BY <1>2, <2>1 DEF SInv, TableInv, OneCardPerProposal
  <1>12. WaitInv'
    <2> SUFFICES ASSUME NEW x \in Waiting'
                 PROVE  /\ NewCard(x) => NewCardOk(x)'
                        /\ NewCard(x) /\ x.set.kind = "plan" => NewPlanCardOk(x)'
                        /\ NewApproval(x) => NewApprovalOk(x)'
                        /\ Completion(x) => CompletionOk(x)'
      BY <1>2, <1>3, OneKind DEF WaitInv
    <2>1. WaitInv /\ x \in Waiting /\ x \in Statements /\ handling' = handling
      BY <1>2 DEF SInv, TableInv
    <2>2. NewCard(x) => NewCardOk(x)'
      BY <1>2, <2>1 DEF WaitInv, NewCardOk
    <2>3. NewCard(x) /\ x.set.kind = "plan" => NewPlanCardOk(x)'
      BY <1>2, <1>7, <1>8, <2>1 DEF WaitInv, NewPlanCardOk
    <2>4. NewApproval(x) => NewApprovalOk(x)'
      <3> SUFFICES ASSUME NewApproval(x) PROVE NewApprovalOk(x)'
        OBVIOUS
      <3>1. NewApprovalOk(x) /\ x.set.key \in Keys /\ Reservation(h)
        BY <1>2, <1>3, <2>1, StatementFacts, OneKind DEF WaitInv, ApprovalRecords
      <3>2. effects'[x.set.key].status # "completed"
        BY <1>6, <3>1 DEF NewApprovalOk
      <3>3. effects'[x.set.key].status # "absent"
        <4>1. ASSUME effects[x.set.key].status = "absent" PROVE x.set.key = k
          <5>1. PICK y \in Waiting : Reservation(y) /\ y.row = x.set.key
            BY <3>1, <4>1 DEF NewApprovalOk
          <5>2. y \notin Waiting'
            BY <1>2, <1>3, <5>1, OneKind
          <5>3. QED
            BY <1>2, <5>1, <5>2
        <4>2. QED
          BY <1>6, <3>1, <4>1
      <3>4. QED
        BY <1>2, <3>1, <3>2, <3>3 DEF NewApprovalOk
    <2>5. Completion(x) => CompletionOk(x)'
      BY <1>2, <2>1, OneKind DEF WaitInv, CompletionOk
    <2>6. QED
      BY <2>2, <2>3, <2>4, <2>5
  <1>13. HandlingInv' /\ PendingCardOwnsItsApproval'
    <2>1. handling # NoId => approvals'[handling].status # "absent"
      BY <1>2 DEF SInv, TableInv, HandlingInv
    <2>2. handling # NoId /\ handling \notin cut =>
           /\ \A c \in PendingCards' : cards'[c].approval = handling => Decides(c)'
           /\ \A x \in Waiting' : NewCard(x) => Decides(x.row)'
      BY <1>2, <1>7, <1>8 DEF SInv, TableInv, HandlingInv
    <2>3. \A c \in PendingCards : c \in Ids /\ (cards[c].kind = "plan" => cards[c].approval \in Ids)
      BY DEF SInv, TableInv, CardInv, PendingCards
    <2>4. \A c \in PendingCards' :
           cards'[c].kind = "plan" =>
             /\ cards'[c].approval \in Ids
             /\ cards'[c].approval \notin cut \cup {handling} =>
                  approvals'[cards'[c].approval].status = "pending"
             /\ \A d \in PendingCards' : cards'[d].approval = cards'[c].approval => d = c
      BY <1>2, <1>7, <2>3 DEF SInv, TableInv, PendingCardOwnsItsApproval
    <2>5. QED
      BY <1>1, <2>1, <2>2, <2>4, HandlingEnds
  <1>14. QED
    BY <1>9, <1>10, <1>11, <1>12, <1>13 DEF TableInv

LEMMA WriteTables ==
  ASSUME SInv, Write
  PROVE  TableInv'
  <1>1. ASSUME WriteCard PROVE TableInv'
    <2>1. NewCard(Head(todo)) \/ CardDecision(Head(todo))
      BY <1>1, Issues, HeadFacts DEF WriteCard
    <2>2. QED
      BY <1>1, <2>1, InsertCard, DecideCard
  <1>2. ASSUME WriteApproval PROVE TableInv'
    <2>1. NewApproval(Head(todo)) \/ Verdict(Head(todo))
      BY <1>2, Issues, HeadFacts DEF WriteApproval
    <2>2. QED
      BY <1>2, <2>1, InsertApproval, DecideVerdict
  <1>3. QED
    BY <1>1, <1>2, PlainWrite, SaveCourse, WriteLedger DEF Write

-----------------------------------------------------------------------------
(* Issuing gives out ids and runs in order.                                *)
LEMMA IdFacts ==
  ASSUME SInv
  PROVE  /\ IsFiniteSet(UsedIds) /\ Cardinality(UsedIds) \in Nat
         /\ Cardinality(deciding) \in Nat
         /\ NextId \notin UsedIds
         /\ \A m \in Nat : Cardinality(1..m) = m
         /\ UsedIds \cup {NextId} = 1..(Cardinality(UsedIds) + 1)
         /\ IsFiniteSet(UsedRuns) /\ Cardinality(UsedRuns) \in Nat
  <1>1. IsFiniteSet(UsedIds) /\ IsFiniteSet(UsedRuns)
    BY Bounds, FS_Subset DEF UsedIds, UsedRuns
  <1>2. Cardinality(UsedIds) \in Nat /\ Cardinality(UsedRuns) \in Nat
    BY <1>1, FS_CardinalityType
  <1>3. IsFiniteSet(deciding) /\ UsedIds = 1..Cardinality(UsedIds)
    BY DEF SInv, IdInv
  <1>4. Cardinality(deciding) \in Nat
    BY <1>3, FS_CardinalityType
  <1>5. \A m \in Nat : Cardinality(1..m) = m
    BY FS_Interval
  <1>6. \A m \in Nat : m + 1 \notin 1..m /\ (1..m) \cup {m + 1} = 1..(m + 1)
    OBVIOUS
  <1>7. QED
    BY <1>1, <1>2, <1>3, <1>4, <1>5, <1>6 DEF NextId

LEMMA WriteIds ==
  ASSUME SInv, Write
  PROVE  IdInv'
  <1> DEFINE h == Head(todo)
  <1>1. PICK t : Issue(t)
    BY DEF Write, WriteSession, WriteRun, WriteCard, WriteApproval, WriteCourse, WriteEffect
  <1>2. /\ h \in Statements /\ h \in Waiting
        /\ Waiting = Waiting' \cup {h}
        /\ \A y \in Waiting' : y \in Waiting /\ y \in Statements /\ Before(h, y)
        /\ UNCHANGED <<turn, deciding>>
    BY <1>1, Issues
  <1>3. /\ cards \in [Ids -> CardRows] /\ approvals \in [Ids -> ApprovalRows]
    BY DEF SInv, TypeOK, CardRows, ApprovalRows
  <1>4. Expected' = Expected /\ IsFiniteSet(deciding')
    BY <1>2 DEF Expected, SInv, IdInv
  <1>5. CASE ~NewCard(h) /\ ~NewApproval(h)
    <2>1. UsedIds' = UsedIds /\ \A a \in Ids : approvals[a].status # "absent" => approvals'[a].status # "absent"
      <3>1. CASE WriteCard
        <4>1. CardDecision(h) /\ h.row \in Ids /\ h.set \in [status : CardStatus]
          <5>1. CardDecision(h)
            BY <1>5, <3>1, Issues, HeadFacts DEF WriteCard
          <5>2. QED
            BY <1>2, <5>1, StatementFacts
        <4>2. cards' = [cards EXCEPT ![h.row].status = h.set.status] /\ UNCHANGED approvals
          BY <1>3, <3>1, <4>1, MergeCard DEF WriteCard
        <4>3. \A c \in Ids : cards'[c].kind = cards[c].kind
          BY <1>3, <4>1, <4>2 DEF CardRows
        <4>4. QED
          BY <4>2, <4>3 DEF UsedIds
      <3>2. CASE WriteApproval
        <4>1. Verdict(h) /\ h.row \in Ids /\ h.set \in [status : {"approved", "rejected"}]
          <5>1. Verdict(h)
            BY <1>5, <3>2, Issues, HeadFacts DEF WriteApproval
          <5>2. QED
            BY <1>2, <5>1, StatementFacts
        <4>2. approvals' = [approvals EXCEPT ![h.row].status = h.set.status] /\ UNCHANGED cards
          BY <1>3, <3>2, <4>1, MergeApproval DEF WriteApproval
        <4>3. approvals[h.row].status = "pending"
          BY <1>2, <4>1 DEF SInv, TableInv, WaitInv, VerdictOk
        <4>4. \A c \in Ids : approvals'[c].status = "absent" <=> approvals[c].status = "absent"
          BY <1>3, <4>1, <4>2, <4>3 DEF ApprovalRows
        <4>5. QED
          BY <4>2, <4>4 DEF UsedIds
      <3>3. CASE UNCHANGED <<cards, approvals>>
        BY <3>3 DEF UsedIds
      <3>4. QED
        BY <3>1, <3>2, <3>3 DEF Write, WriteSession, WriteRun, WriteCourse, WriteEffect
    <2> HIDE DEF h
    <2>2. NextId' = NextId
      BY <2>1 DEF NextId
    <2>3. Inserting' => Inserting
      BY <1>2, <2>2 DEF Inserting
    <2>4. \A x \in Waiting' : /\ NewApproval(x) => x.row = NextId'
                              /\ NewCard(x) => x.row = NextId' \/ approvals'[x.row].status # "absent"
      <3>1. \A x \in Waiting' : NewCard(x) => x.row \in Ids
        BY <1>2, StatementFacts
      <3>2. QED
        BY <1>2, <2>1, <2>2, <3>1 DEF SInv, IdInv
    <2>5. UsedIds' = 1..Cardinality(UsedIds') /\ Cardinality(deciding') = Cardinality(deciding)
      BY <1>2, <2>1 DEF SInv, IdInv
    <2>6. Cardinality(UsedIds') + Cardinality(deciding') + Expected'
            + (IF Inserting' THEN 1 ELSE 0) <= MaxCards
      <3>1. Cardinality(UsedIds) + Cardinality(deciding) + Expected
              + (IF Inserting THEN 1 ELSE 0) <= MaxCards
        BY DEF SInv, IdInv
      <3>2. Expected \in Nat /\ MaxCards \in Nat
        BY BoundsAssumption DEF Expected
      <3>3. QED
        BY <1>4, <2>1, <2>3, <2>5, <3>1, <3>2, IdFacts
    <2>7. QED
      BY <1>4, <2>4, <2>5, <2>6 DEF IdInv
  <1>6. CASE NewCard(h)
    <2>1. WriteCard
      BY <1>6, Issues DEF Write, WriteSession, WriteRun, WriteApproval, WriteCourse, WriteEffect,
                          NewCard
    <2>2. h.row \in Ids /\ h.set \in CardRecords
      BY <1>2, <1>6, StatementFacts
    <2>3. cards' = [cards EXCEPT ![h.row] = h.set] /\ UNCHANGED approvals
      BY <1>3, <2>1, <2>2, MergeCard DEF WriteCard
    <2>4. h.row = NextId \/ h.row \in UsedIds
      BY <1>2, <1>6, <2>2 DEF SInv, IdInv, UsedIds
    <2>5. h.row = NextId => Inserting
      BY <1>2, <1>6 DEF Inserting
    <2> HIDE DEF h
    <2>6. UsedIds' = UsedIds \cup {h.row}
      BY <1>3, <2>2, <2>3 DEF UsedIds, CardRecords
    <2>7. \A x \in Waiting' : ~NewCard(x) /\ ~NewApproval(x)
      BY <1>2, <1>6, Behind
    <2>8. ~Inserting'
      BY <2>7 DEF Inserting
    <2>9. /\ UsedIds' = 1..Cardinality(UsedIds')
          /\ Cardinality(UsedIds') <= Cardinality(UsedIds) + (IF Inserting THEN 1 ELSE 0)
          /\ Cardinality(UsedIds') \in Nat
      <3>1. CASE h.row = NextId
        <4>1. UsedIds' = 1..(Cardinality(UsedIds) + 1)
          BY <2>6, <3>1, IdFacts
        <4>2. QED
          BY <2>5, <3>1, <4>1, IdFacts
      <3>2. CASE h.row \in UsedIds
        <4>1. UsedIds' = UsedIds
          BY <2>6, <3>2
        <4>2. QED
          BY <4>1, IdFacts DEF SInv, IdInv
      <3>3. QED
        BY <2>4, <3>1, <3>2
    <2>10. Cardinality(UsedIds') + Cardinality(deciding') + Expected' <= MaxCards
      BY <1>2, <1>4, <2>9, IdFacts, BoundsAssumption DEF SInv, IdInv, Expected
    <2>11. QED
      BY <1>2, <1>4, <2>7, <2>8, <2>9, <2>10, IdFacts DEF IdInv, Expected
  <1>7. CASE NewApproval(h)
    <2>1. WriteApproval
      BY <1>7, Issues DEF Write, WriteSession, WriteRun, WriteCard, WriteCourse, WriteEffect,
                          NewApproval
    <2>2. h.row \in Ids /\ h.set \in ApprovalRecords
      BY <1>2, <1>7, StatementFacts
    <2>3. approvals' = [approvals EXCEPT ![h.row] = h.set] /\ UNCHANGED cards
      BY <1>3, <2>1, <2>2, MergeApproval DEF WriteApproval
    <2>4. h.row = NextId
      BY <1>2, <1>7 DEF SInv, IdInv
    <2>5. Inserting
      BY <1>2, <1>7, <2>4 DEF Inserting
    <2>6. \A x \in Waiting' : NewCard(x) => x.row = h.row
      BY <1>2, <1>7 DEF SInv, TableInv, WaitInv, NewCardOk
    <2> HIDE DEF h
    <2>7. UsedIds' = UsedIds \cup {h.row} /\ approvals'[h.row].status # "absent"
      BY <1>3, <2>2, <2>3 DEF UsedIds, ApprovalRecords
    <2>8. \A x \in Waiting' : ~NewApproval(x)
      BY <1>2, <1>7, Behind, OneKind
    <2>9. UsedIds' = 1..(Cardinality(UsedIds) + 1) /\ Cardinality(UsedIds') = Cardinality(UsedIds) + 1
      <3>1. UsedIds' = 1..(Cardinality(UsedIds) + 1)
        BY <2>4, <2>7, IdFacts
      <3>2. Cardinality(UsedIds) + 1 \in Nat
        BY IdFacts
      <3>3. Cardinality(1..(Cardinality(UsedIds) + 1)) = Cardinality(UsedIds) + 1
        BY <3>2, IdFacts
      <3>4. QED
        BY <3>1, <3>3
    <2>10. NextId' # h.row
      BY <2>4, <2>9, IdFacts DEF NextId
    <2>11. ~Inserting'
      BY <2>6, <2>8, <2>10 DEF Inserting
    <2>12. Cardinality(UsedIds') + Cardinality(deciding') + Expected' <= MaxCards
      BY <1>2, <1>4, <2>5, <2>9, IdFacts, BoundsAssumption DEF SInv, IdInv, Expected
    <2>13. QED
      BY <1>2, <1>4, <2>6, <2>7, <2>8, <2>9, <2>11, <2>12, IdFacts DEF IdInv, Expected
  <1>8. QED
    BY <1>5, <1>6, <1>7

LEMMA WriteRuns ==
  ASSUME SInv, Write
  PROVE  RunInv'
  <1> DEFINE h == Head(todo)
  <1>1. PICK t : Issue(t)
    BY DEF Write, WriteSession, WriteRun, WriteCard, WriteApproval, WriteCourse, WriteEffect
  <1>2. /\ h \in Statements /\ h \in Waiting /\ todo # <<>>
        /\ \A y \in Waiting' : y \in Waiting /\ y \in Statements
        /\ UNCHANGED <<turn, cli, marking>>
    BY <1>1, Issues DEF Issue
  <1>3. /\ UsedRuns \subseteq UsedRuns'
        /\ \A r \in UsedRuns' \ UsedRuns : h.table = "runs" /\ h.row = r
        /\ h.table = "runs" /\ "status" \in DOMAIN h.set => h.row \in UsedRuns'
    <2>1. runs \in [RunIds -> RunRows]
      BY DEF SInv, TypeOK, RunRows
    <2>2. CASE WriteRun
      <3>1. h.table = "runs" /\ runs' = [runs EXCEPT ![h.row] = Merge(runs[h.row], h.set)]
        BY <2>2 DEF WriteRun, Issue
      <3>2. h.row \in RunIds /\ h.set \in RunSets
        BY <1>2, <3>1, HeadFacts
      <3>3. runs'[h.row] = Merge(runs[h.row], h.set) /\ \A r \in RunIds : r # h.row => runs'[r] = runs[r]
        BY <2>1, <3>1, <3>2
      <3>4. /\ runs[h.row].status # "absent" => runs'[h.row].status # "absent"
            /\ "status" \in DOMAIN h.set => runs'[h.row].status # "absent"
        BY <2>1, <3>2, <3>3, MergeRun
      <3>5. QED
        BY <3>1, <3>2, <3>3, <3>4 DEF UsedRuns
    <2>3. CASE ~WriteRun
      <3>1. UNCHANGED runs
        BY <2>3 DEF Write, WriteSession, WriteCard, WriteApproval, WriteCourse, WriteEffect
      <3>2. h.table # "runs"
        BY <2>3 DEF Write, WriteSession, WriteCard, WriteApproval, WriteCourse, WriteEffect, Issue
      <3>3. QED
        BY <3>1, <3>2 DEF UsedRuns
    <2>4. QED
      BY <2>2, <2>3
  <1>4. turn'.pc = "queued" => UsedRuns' = UsedRuns
    BY <1>2, <1>3 DEF SInv, RunInv
  <1>5. turn.pc = "queued" => session'.latest = session.latest
    <2>1. CASE WriteSession /\ turn.pc = "queued"
      <3>1. h.table = "session" /\ session' = Merge(session, h.set)
        BY <2>1 DEF WriteSession, Issue
      <3>2. "latest" \notin DOMAIN h.set
        BY <1>2, <2>1, <3>1 DEF SInv, RunInv
      <3>3. h.set \in [status : SessionStatus]
        BY <1>2, <3>1, <3>2, HeadFacts
      <3>4. session \in SessionRows
        BY DEF SInv, TypeOK, SessionRows
      <3>5. QED
        BY <3>1, <3>3, <3>4, MergeSession
    <2>2. QED
      BY <2>1 DEF Write, WriteRun, WriteCard, WriteApproval, WriteCourse, WriteEffect
  <1>6. \A c \in Ids : /\ cards'[c].run \in UsedRuns \cup {NoRun}
                       /\ approvals'[c].run \in UsedRuns \cup {NoRun}
    <2>1. /\ cards \in [Ids -> CardRows] /\ approvals \in [Ids -> ApprovalRows]
      BY DEF SInv, TypeOK, CardRows, ApprovalRows
    <2>2. \A c \in Ids : /\ cards[c].run \in UsedRuns \cup {NoRun}
                         /\ approvals[c].run \in UsedRuns \cup {NoRun}
      BY DEF SInv, RunInv
    <2>3. NewCard(h) \/ NewApproval(h) => h.set.run \in UsedRuns \cup {NoRun}
      BY <1>2 DEF SInv, RunInv
    <2>4. CASE WriteCard
      <3>1. /\ cards' = [cards EXCEPT ![h.row] = Merge(cards[h.row], h.set)] /\ UNCHANGED approvals
            /\ NewCard(h) \/ CardDecision(h)
        BY <1>2, <2>4, HeadFacts DEF WriteCard, Issue
      <3>2. h.row \in Ids /\ (NewCard(h) => h.set \in CardRecords)
            /\ (CardDecision(h) => h.set \in [status : CardStatus])
        <4>1. h.set \in [status : CardStatus \ {"pending"}] => h.set \in [status : CardStatus]
          OBVIOUS
        <4>2. QED
          BY <1>2, <3>1, <4>1, StatementFacts
      <3>3. (cards'[h.row].run = h.set.run /\ NewCard(h)) \/ cards'[h.row].run = cards[h.row].run
        <4>1. cards'[h.row] = Merge(cards[h.row], h.set)
          BY <2>1, <3>1, <3>2
        <4>2. CASE NewCard(h)
          BY <2>1, <3>2, <4>1, <4>2, MergeCard
        <4>3. CASE CardDecision(h)
          <5>1. Merge(cards[h.row], h.set) = [cards[h.row] EXCEPT !.status = h.set.status]
            BY <2>1, <3>2, <4>3, MergeCard
          <5>2. QED
            BY <2>1, <3>2, <4>1, <5>1 DEF CardRows
        <4>4. QED
          BY <3>1, <4>2, <4>3
      <3>4. \A c \in Ids : c # h.row => cards'[c] = cards[c]
        BY <2>1, <3>1
      <3> HIDE DEF h
      <3>5. QED
        BY <2>2, <2>3, <3>1, <3>3, <3>4
    <2>5. CASE WriteApproval
      <3>1. /\ approvals' = [approvals EXCEPT ![h.row] = Merge(approvals[h.row], h.set)] /\ UNCHANGED cards
            /\ NewApproval(h) \/ Verdict(h)
        BY <1>2, <2>5, HeadFacts DEF WriteApproval, Issue
      <3>2. h.row \in Ids /\ (NewApproval(h) => h.set \in ApprovalRecords)
            /\ (Verdict(h) => h.set \in [status : {"approved", "rejected"}])
        BY <1>2, <3>1, StatementFacts
      <3>3. (approvals'[h.row].run = h.set.run /\ NewApproval(h)) \/ approvals'[h.row].run = approvals[h.row].run
        <4>1. approvals'[h.row] = Merge(approvals[h.row], h.set)
          BY <2>1, <3>1, <3>2
        <4>2. CASE NewApproval(h)
          BY <2>1, <3>2, <4>1, <4>2, MergeApproval
        <4>3. CASE Verdict(h)
          <5>1. Merge(approvals[h.row], h.set) = [approvals[h.row] EXCEPT !.status = h.set.status]
            BY <2>1, <3>2, <4>3, MergeApproval
          <5>2. QED
            BY <2>1, <3>2, <4>1, <5>1 DEF ApprovalRows
        <4>4. QED
          BY <3>1, <4>2, <4>3
      <3>4. \A c \in Ids : c # h.row => approvals'[c] = approvals[c]
        BY <2>1, <3>1
      <3> HIDE DEF h
      <3>5. QED
        BY <2>2, <2>3, <3>1, <3>3, <3>4
    <2>6. QED
      BY <2>2, <2>4, <2>5 DEF Write, WriteSession, WriteRun, WriteCourse, WriteEffect
  <1>7. turn'.pc \in {"agent", "compact", "finish"} =>
          turn'.run \in RunIds /\ (turn'.run \in UsedRuns' \/ CreatesRun')
    BY <1>2, <1>3 DEF SInv, RunInv, CreatesRun
  <1> HIDE DEF h
  <1>8. QED
    BY <1>2, <1>3, <1>4, <1>5, <1>6, <1>7 DEF SInv, RunInv

LEMMA WriteKeeps ==
  ASSUME SInv, Write
  PROVE  SInv'
  BY WriteTypes, WriteTables, WriteIds, WriteRuns DEF SInv

-----------------------------------------------------------------------------
(* Handlers.  They change no table; what they have to do waits.            *)
TurnRecords ==
  [pc : {"none", "queued", "agent", "compact", "finish"}, run : RunIds \cup {NoRun},
   text : Texts \cup {"none"}, persist : BOOLEAN, skill : Skills \cup {"none"}]

Upkeep == SessionStatements \cup RunStatements(UsedRuns)

LEMMA UpkeepFit ==
  ASSUME NEW s \in Seq(Upkeep)
  PROVE  /\ Fit(s)
         /\ \A x \in Elems(s) : /\ Plain(x) /\ x \in Statements
                                /\ x.table = "runs" => x.row \in UsedRuns
                                /\ x.table = "session" => "latest" \notin DOMAIN x.set
  <1>1. Upkeep \subseteq PlainStatements
    BY DEF Upkeep, PlainStatements, RunStatements, UsedRuns
  <1>2. s \in Seq(PlainStatements)
    BY <1>1
  <1>3. \A x \in Upkeep : /\ x.table = "runs" => x.row \in UsedRuns
                          /\ x.table = "session" => "latest" \notin DOMAIN x.set
    BY DEF Upkeep, SessionStatements, RunStatements
  <1>4. Elems(s) \subseteq Upkeep
    BY DEF Elems
  <1>5. QED
    BY <1>2, <1>3, <1>4, PlainFit DEF Statements

LEMMA UpkeepRows ==
  ASSUME NEW r \in UsedRuns \cup {NoRun}
  PROVE  /\ \A status \in SessionStatus : SessionIs(status) \in Seq(Upkeep)
         /\ \A set \in RunSets : RunRow(r, set) \in Seq(Upkeep)
         /\ \A stage \in Stages : Checkpoint(r, stage) \in Seq(Upkeep)
  <1>1. \A status \in SessionStatus : SessionIs(status) \in Seq(Upkeep)
    <2>1. \A status \in SessionStatus :
            [table |-> "session", row |-> NoId, set |-> [status |-> status]] \in Upkeep
      BY DEF Upkeep, SessionStatements
    <2>2. QED
      BY <2>1 DEF SessionIs, SessionRow
  <1>2. \A set \in RunSets : RunRow(r, set) \in Seq(Upkeep)
    <2>1. \A set \in RunSets : r # NoRun => [table |-> "runs", row |-> r, set |-> set] \in Upkeep
      BY DEF Upkeep, RunStatements
    <2>2. QED
      BY <2>1 DEF RunRow
  <1>3. \A stage \in Stages : [stage |-> stage] \in RunSets /\ [checkpoint |-> stage] \in RunSets
    BY DEF RunSets
  <1>4. QED
    BY <1>1, <1>2, <1>3 DEF Checkpoint

LEMMA ThenUpkeep ==
  ASSUME NEW s, NEW t, Fit(s), t \in Seq(Upkeep)
  PROVE  Fit(s \o t) /\ Elems(s \o t) = Elems(s) \cup Elems(t)
  BY UpkeepFit, ConcatFit DEF Before

LEMMA Idle ==
  ASSUME SInv, todo = <<>>
  PROVE  /\ Waiting = {} /\ handling = NoId /\ ~Inserting
         /\ turn.pc \in {"agent", "compact", "finish"} => turn.run \in UsedRuns
         /\ \A a \in Ids \ cut : course[a].saved = 1 => approvals[a].status = "approved"
         /\ Cardinality(UsedIds) + Cardinality(deciding) + Expected <= MaxCards
  <1>1. Waiting = {} /\ handling = NoId
    BY EmptyFit DEF Waiting, SInv, TableInv, HandlingInv
  <1>2. ~Inserting /\ ~CreatesRun
    BY <1>1 DEF Inserting, CreatesRun
  <1>3. Cardinality(UsedIds) + Cardinality(deciding) + Expected <= MaxCards
    BY <1>2, IdFacts, BoundsAssumption DEF SInv, IdInv, Expected
  <1>4. QED
    BY <1>1, <1>2, <1>3 DEF SInv, RunInv, TableInv, SavedInv, Approves

(* What has to be shown of a handler.                                      *)
LEMMA Handled ==
  ASSUME SInv, todo = <<>>, UNCHANGED <<session, runs, cards, approvals, course, effects, cli>>,
         ready' \in BOOLEAN, up' \in BOOLEAN, marking' \subseteq UsedRuns, turn' \in TurnRecords,
         deciding' \in SUBSET [card : Ids, reason : Reasons], IsFiniteSet(deciding'),
         handling' \in Ids \cup {NoId}, cut' \in SUBSET Ids, cut \subseteq cut',
         \A a \in cut' : approvals[a].status # "absent",
         crashes' \in 0..MaxCrashes, clis' \in 0..MaxCli,
         Fit(todo'), WaitInv', HandlingInv',
         \A x \in Waiting' :
           /\ NewApproval(x) => x.row = NextId
           /\ NewCard(x) => x.row = NextId \/ approvals[x.row].status # "absent"
           /\ NewCard(x) \/ NewApproval(x) => x.set.run \in UsedRuns \cup {NoRun},
         NEW room \in {0, 1},
         \A x \in Waiting' : (NewApproval(x) \/ NewCard(x)) /\ x.row = NextId => room = 1,
         Cardinality(UsedIds) + Cardinality(deciding') + Expected' + room <= MaxCards,
         turn'.pc \in {"agent", "compact", "finish"} =>
           turn'.run \in RunIds /\ (turn'.run \in UsedRuns \/ CreatesRun'),
         turn'.pc = "queued" =>
           /\ Cardinality(UsedRuns) < MaxRuns
           /\ turn'.persist => session.latest < MaxMessages
           /\ \A x \in Waiting' : x.table = "runs" => x.row \in UsedRuns,
         \A x \in Waiting' : x.table = "session" /\ "latest" \in DOMAIN x.set => turn'.pc = "agent"
  PROVE  SInv'
  <1>1. TypeOK'
    <2>1. \A i \in 1..Len(todo') :
            todo'[i].table \in {"session", "runs", "cards", "approvals", "course", "effects"}
      BY TodoTables
    <2>2. marking' \in SUBSET RunIds
      BY DEF UsedRuns
    <2>3. QED
      BY <2>1, <2>2 DEF SInv, TypeOK, TurnRecords
  <1>2. StatementInv'
    BY DEF StatementInv
  <1>3. UsedIds' = UsedIds /\ UsedRuns' = UsedRuns /\ NextId' = NextId /\ PendingCards' = PendingCards
    BY DEF UsedIds, UsedRuns, NextId, PendingCards
  <1>4. TableInv'
    <2>1. CardInv' /\ ApprovalInv' /\ OneCardPerProposal'
      BY DEF SInv, TableInv, CardInv, ApprovalInv, OneCardPerProposal
    <2>2. SavedInv'
      BY Idle DEF SInv, TableInv, SavedInv
    <2>3. PendingCardOwnsItsApproval'
      <3>1. \A c \in PendingCards : c \in Ids /\ (cards[c].kind = "plan" => cards[c].approval \in Ids)
        BY DEF SInv, TableInv, CardInv, PendingCards
      <3>2. ASSUME NEW c \in PendingCards, cards[c].kind = "plan"
            PROVE  /\ cards[c].approval \notin cut' \cup {handling'} =>
                        approvals[cards[c].approval].status = "pending"
                   /\ \A d \in PendingCards : cards[d].approval = cards[c].approval => d = c
        <4>1. cards[c].approval \in Ids /\ cards[c].approval # NoId /\ handling = NoId
          BY <3>1, <3>2, Idle, Bounds
        <4>2. QED
          BY <3>2, <4>1 DEF SInv, TableInv, PendingCardOwnsItsApproval
      <3>3. QED
        BY <1>3, <3>2 DEF PendingCardOwnsItsApproval
    <2>4. QED
      BY <2>1, <2>2, <2>3 DEF TableInv
  <1>5. IdInv'
    <2>1. Inserting' => room = 1
      BY <1>3 DEF Inserting
    <2>2. Cardinality(deciding') \in Nat /\ Expected' \in Nat /\ MaxCards \in Nat
      BY FS_CardinalityType, BoundsAssumption DEF Expected
    <2>3. Cardinality(UsedIds') + Cardinality(deciding') + Expected'
            + (IF Inserting' THEN 1 ELSE 0) <= MaxCards
      BY <1>3, <2>1, <2>2, IdFacts
    <2>4. UsedIds' = 1..Cardinality(UsedIds')
      BY <1>3 DEF SInv, IdInv
    <2>5. QED
      BY <1>3, <2>3, <2>4 DEF IdInv
  <1>6. RunInv'
    <2>1. \A c \in Ids : /\ cards'[c].run \in UsedRuns' \cup {NoRun}
                         /\ approvals'[c].run \in UsedRuns' \cup {NoRun}
      BY <1>3 DEF SInv, RunInv
    <2>2. cli' \subseteq UsedRuns'
      BY <1>3 DEF SInv, RunInv
    <2>3. QED
      BY <1>3, <2>1, <2>2 DEF RunInv
  <1>7. QED
    BY <1>1, <1>2, <1>4, <1>5, <1>6 DEF SInv

(* A handler that only keeps runs and sessions up to date.                 *)
LEMMA QuietlyHandled ==
  ASSUME SInv, todo = <<>>, NEW s \in Seq(Upkeep), todo' = s,
         UNCHANGED <<session, runs, cards, approvals, course, effects, up, cli, handling, cut, crashes, clis>>,
         ready' \in BOOLEAN, marking' \subseteq UsedRuns, turn' \in TurnRecords,
         deciding' \in SUBSET [card : Ids, reason : Reasons], IsFiniteSet(deciding'),
         Cardinality(UsedIds) + Cardinality(deciding') + Expected' <= MaxCards,
         turn'.pc \in {"agent", "compact", "finish"} => turn'.run \in UsedRuns,
         turn'.pc = "queued" =>
           /\ Cardinality(UsedRuns) < MaxRuns
           /\ turn'.persist => session.latest < MaxMessages
  PROVE  SInv'
  <1>1. /\ Fit(todo')
        /\ \A x \in Waiting' : /\ Plain(x) /\ x \in Statements
                               /\ x.table = "runs" => x.row \in UsedRuns
                               /\ x.table = "session" => "latest" \notin DOMAIN x.set
    BY UpkeepFit DEF Waiting
  <1>2. WaitInv'
    BY <1>1, OneKind DEF WaitInv
  <1>3. handling' = NoId /\ HandlingInv'
    BY Idle DEF HandlingInv
  <1>4. \A a \in cut' : approvals[a].status # "absent"
    BY DEF SInv, TypeOK, TableInv, ApprovalInv
  <1>5. \A x \in Waiting' : ~NewCard(x) /\ ~NewApproval(x)
    BY <1>1, OneKind
  <1>6. UsedRuns \subseteq RunIds
    BY DEF UsedRuns
  <1>7. cut' \in SUBSET Ids /\ up' \in BOOLEAN /\ crashes' \in 0..MaxCrashes /\ clis' \in 0..MaxCli
    BY DEF SInv, TypeOK
  <1>8. Cardinality(UsedIds) + Cardinality(deciding') + Expected' + 0 <= MaxCards
    BY IdFacts, FS_CardinalityType, BoundsAssumption DEF Expected
  <1>9. QED
    BY <1>1, <1>2, <1>3, <1>4, <1>5, <1>6, <1>7, <1>8, Handled

(* What a handler finds.                                                   *)
LEMMA Found ==
  ASSUME SInv
  PROVE  /\ turn \in TurnRecords /\ session \in SessionRows /\ ready \in BOOLEAN
         /\ cards \in [Ids -> CardRows] /\ approvals \in [Ids -> ApprovalRows]
         /\ course \in [Ids -> [saved : 0..MaxSaves]] /\ effects \in [Keys -> EffectRows]
         /\ runs \in [RunIds -> RunRows]
         /\ deciding \in SUBSET [card : Ids, reason : Reasons] /\ IsFiniteSet(deciding)
         /\ marking \subseteq UsedRuns
         /\ \A c \in Ids : /\ cards[c].run \in UsedRuns \cup {NoRun}
                           /\ approvals[c].run \in UsedRuns \cup {NoRun}
         /\ turn.pc = "queued" => Cardinality(UsedRuns) < MaxRuns
                                  /\ (turn.persist => session.latest < MaxMessages)
  BY DEF SInv, TypeOK, RunInv, IdInv, TurnRecords, SessionRows, CardRows, ApprovalRows, EffectRows,
         RunRows

LEMMA Submitted ==
  ASSUME SInv, (\E text \in Texts : Submit(text)) \/ Retry
  PROVE  SInv'
  <1>1. /\ todo = <<>> /\ todo' = <<>> /\ turn.pc = "none" /\ turn'.pc = "queued"
        /\ turn' \in TurnRecords
        /\ turn'.persist => session.latest < MaxMessages
        /\ NextRun \in RunIds /\ RoomForCard
        /\ UNCHANGED <<tables, up, marking, deciding, cli, handling, cut, crashes, clis>>
    <2>1. \A text \in Texts \cup {"none"} :
            /\ [NoTurn EXCEPT !.pc = "queued", !.text = text, !.persist = TRUE] \in TurnRecords
            /\ [NoTurn EXCEPT !.pc = "queued", !.text = text] \in TurnRecords
      BY DEF NoTurn, TurnRecords
    <2>2. session.text \in Texts \cup {"none"}
      BY Found DEF SessionRows
    <2>3. [NoTurn EXCEPT !.pc = "queued", !.text = session.text].persist = FALSE
      BY DEF NoTurn
    <2>4. ASSUME NEW text \in Texts, Submit(text)
          PROVE  turn' \in TurnRecords /\ turn'.pc = "queued" /\ session.latest < MaxMessages
      BY <2>1, <2>4 DEF Submit, NoTurn
    <2>5. ASSUME Retry PROVE turn' \in TurnRecords /\ turn'.pc = "queued" /\ turn'.persist = FALSE
      BY <2>1, <2>2, <2>3, <2>5 DEF Retry, NoTurn
    <2>6. QED
      BY <2>4, <2>5 DEF Submit, Retry, LoopFree, bounds
  <1>2. Cardinality(UsedRuns) < MaxRuns
    BY <1>1, IdFacts, BoundsAssumption DEF NextRun, RunIds
  <1>3. Cardinality(UsedIds) + Cardinality(deciding) + 1 <= MaxCards
    BY <1>1, IdFacts, BoundsAssumption DEF RoomForCard
  <1>4. Expected' = 1
    BY <1>1 DEF Expected
  <1>5. <<>> \in Seq(Upkeep)
    OBVIOUS
  <1>6. QED
    BY <1>1, <1>2, <1>3, <1>4, <1>5, Found, QuietlyHandled DEF tables

LEMMA GoalFilled ==
  ASSUME SInv, FillGoal
  PROVE  SInv'
  <1>1. todo = <<>> /\ todo' = <<>> /\ ready' \in BOOLEAN
        /\ UNCHANGED <<session, runs, cards, approvals, course, effects, up, marking, turn, deciding,
                       cli, handling, cut, crashes, clis>>
    BY DEF FillGoal, LoopFree, bounds
  <1>2. <<>> \in Seq(Upkeep) /\ Expected' = Expected
    BY <1>1 DEF Expected
  <1>3. QED
    BY <1>1, <1>2, Found, Idle, QuietlyHandled

LEMMA TurnEnds ==
  ASSUME SInv, TurnFails \/ Compacted \/ FinishTurn
  PROVE  SInv'
  <1>1. /\ todo = <<>> /\ todo' \in Seq(Upkeep)
        /\ turn' \in TurnRecords
        /\ turn'.pc \in {"none", "finish"}
        /\ turn'.pc = "finish" => turn'.run \in UsedRuns
        /\ UNCHANGED <<tables, up, marking, deciding, cli, handling, cut, crashes, clis>>
    <2>1. NoTurn \in TurnRecords /\ NoTurn.pc = "none"
      BY DEF NoTurn, TurnRecords
    <2>2. {"failed", "awaiting_action", "completed"} \subseteq Stages
          /\ {"failed", "completed"} \subseteq SessionStatus
          /\ {"failed", "awaiting_action", "completed"} \subseteq RunStatus \ {"absent"}
      BY DEF Stages, SessionStatus, RunStatus
    <2>3. \A v \in {"failed", "awaiting_action", "completed"} : [stage |-> v, status |-> v] \in RunSets
      BY <2>2 DEF RunSets
    <2>4. CASE TurnFails
      <3>1. turn.run \in UsedRuns /\ todo = <<>>
        BY <2>4, Idle DEF TurnFails, LoopFree
      <3>2. todo' \in Seq(Upkeep)
        BY <2>2, <2>3, <2>4, <3>1, UpkeepRows DEF TurnFails
      <3>3. QED
        BY <2>1, <2>4, <3>1, <3>2 DEF TurnFails, bounds
    <2>5. CASE FinishTurn
      <3>1. turn.run \in UsedRuns /\ todo = <<>>
        BY <2>5, Idle DEF FinishTurn
      <3>2. todo' \in Seq(Upkeep)
        BY <2>2, <2>3, <2>5, <3>1, UpkeepRows DEF FinishTurn
      <3>3. QED
        BY <2>1, <2>5, <3>1, <3>2 DEF FinishTurn, bounds
    <2>6. CASE Compacted
      <3>1. turn.run \in UsedRuns /\ todo = <<>> /\ todo' = <<>> /\ turn' = [turn EXCEPT !.pc = "finish"]
        BY <2>6, Idle DEF Compacted, LoopFree
      <3>2. turn' \in TurnRecords /\ turn'.pc = "finish" /\ turn'.run = turn.run
        BY <3>1, Found DEF TurnRecords
      <3>3. <<>> \in Seq(Upkeep)
        OBVIOUS
      <3>4. QED
        BY <2>6, <3>1, <3>2, <3>3 DEF Compacted, bounds
    <2>7. QED
      BY <2>4, <2>5, <2>6
  <1>2. Expected' = 0
    BY <1>1 DEF Expected
  <1>3. Cardinality(UsedIds) + Cardinality(deciding) + 0 <= MaxCards
    BY <1>1, Idle, IdFacts, BoundsAssumption DEF Expected
  <1>4. QED
    BY <1>1, <1>2, <1>3, Found, QuietlyHandled DEF tables

LEMMA Marked ==
  ASSUME SInv, NEW r \in RunIds, Mark(r)
  PROVE  SInv'
  <1>1. /\ todo = <<>> /\ r \in UsedRuns /\ marking' \subseteq UsedRuns
        /\ UNCHANGED <<tables, up, turn, deciding, cli, handling, cut, crashes, clis>>
    BY Found DEF Mark, IsOldest, bounds
  <1>2. MarkedRun(r) \in RunSets /\ MarkedSession(r) \in SessionStatus
    BY DEF MarkedRun, MarkedSession, RunSets, Stages, RunStatus, SessionStatus
  <1>3. todo' \in Seq(Upkeep)
    BY <1>1, <1>2, UpkeepRows DEF Mark
  <1>4. Expected' = Expected
    BY <1>1 DEF Expected
  <1>5. QED
    BY <1>1, <1>3, <1>4, Found, Idle, QuietlyHandled DEF tables

-----------------------------------------------------------------------------
(* The statements handlers make, and their kinds.                          *)
Reserve(k) == [table |-> "effects", row |-> k, set |-> [status |-> "reserved"]]
Complete(k, a) == [table |-> "effects", row |-> k, set |-> [status |-> "completed", approval |-> a]]
AddApproval(a, r, k) ==
  [table |-> "approvals", row |-> a, set |-> [status |-> "pending", run |-> r, key |-> k]]
AddCard(c, set) == [table |-> "cards", row |-> c, set |-> set]
SetCard(c, status) == [table |-> "cards", row |-> c, set |-> [status |-> status]]
SetApproval(a, status) == [table |-> "approvals", row |-> a, set |-> [status |-> status]]
SetCourse(a, n) == [table |-> "course", row |-> a, set |-> [saved |-> n]]

LEMMA Made ==
  /\ \A k \in Keys : Reserve(k) \in Statements /\ Reservation(Reserve(k))
  /\ \A k \in Keys, a \in Ids : Complete(k, a) \in Statements /\ Completion(Complete(k, a))
  /\ \A a \in Ids, r \in RunIds \cup {NoRun}, k \in Keys :
       AddApproval(a, r, k) \in Statements /\ NewApproval(AddApproval(a, r, k))
  /\ \A c \in Ids, set \in CardRecords : AddCard(c, set) \in Statements /\ NewCard(AddCard(c, set))
  /\ \A c \in Ids, status \in CardStatus \ {"pending"} :
       SetCard(c, status) \in Statements /\ CardDecision(SetCard(c, status))
  /\ \A a \in Ids, status \in {"approved", "rejected"} :
       SetApproval(a, status) \in Statements /\ Verdict(SetApproval(a, status))
  /\ \A a \in Ids, n \in 0..MaxSaves :
       SetCourse(a, n) \in Statements /\ CourseSave(SetCourse(a, n))
  <1>1. \A k \in Keys : Reserve(k) \in Statements /\ Reservation(Reserve(k))
    BY DEF Reserve, Statements, EffectStatements, Reservation
  <1>2. \A k \in Keys, a \in Ids : Complete(k, a) \in Statements /\ Completion(Complete(k, a))
    BY DEF Complete, Statements, EffectStatements, Completion
  <1>3. \A a \in Ids, r \in RunIds \cup {NoRun}, k \in Keys :
       AddApproval(a, r, k) \in Statements /\ NewApproval(AddApproval(a, r, k))
    BY DEF AddApproval, Statements, ApprovalStatements, ApprovalRecords, NewApproval
  <1>4. \A c \in Ids, set \in CardRecords : AddCard(c, set) \in Statements /\ NewCard(AddCard(c, set))
    BY DEF AddCard, Statements, CardStatements, CardRecords, NewCard
  <1>5. \A c \in Ids, status \in CardStatus \ {"pending"} :
       SetCard(c, status) \in Statements /\ CardDecision(SetCard(c, status))
    BY DEF SetCard, Statements, CardStatements, CardDecision
  <1>6. \A a \in Ids, status \in {"approved", "rejected"} :
       SetApproval(a, status) \in Statements /\ Verdict(SetApproval(a, status))
    BY DEF SetApproval, Statements, ApprovalStatements, Verdict
  <1>7. \A a \in Ids, n \in 0..MaxSaves :
       SetCourse(a, n) \in Statements /\ CourseSave(SetCourse(a, n))
    BY DEF SetCourse, Statements, CourseStatements, CourseSave
  <1>8. QED
    BY <1>1, <1>2, <1>3, <1>4, <1>5, <1>6, <1>7

LEMMA PlanCards ==
  \A r \in RunIds \cup {NoRun}, a \in Ids, next \in BOOLEAN :
    /\ PlanCard(r, a, next) \in CardRecords
    /\ PlanCard(r, a, next).kind = "plan" /\ PlanCard(r, a, next).approval = a
    /\ PlanCard(r, a, next).run = r
  BY DEF PlanCard, CardRecords

(* The next id is fresh.                                                   *)
LEMMA FreshId ==
  ASSUME SInv, NextId \in Ids
  PROVE  /\ cards[NextId].kind = "absent" /\ cards[NextId].status = "pending"
         /\ approvals[NextId].status = "absent"
         /\ \A c \in Ids : cards[c].approval # NextId
  <1>1. cards[NextId].kind = "absent" /\ approvals[NextId].status = "absent"
    BY IdFacts DEF UsedIds
  <1>2. \A c \in Ids : cards[c].approval # NextId
    <2>1. \A c \in Ids : cards[c].kind = "plan" => approvals[cards[c].approval].status # "absent"
      BY DEF SInv, TableInv, CardInv
    <2>2. \A c \in Ids : cards[c].kind # "plan" => cards[c].approval = NoId
      BY DEF SInv, TableInv, CardInv
    <2>3. QED
      BY <1>1, <2>1, <2>2, Bounds
  <1>3. QED
    BY <1>1, <1>2 DEF SInv, TableInv, CardInv

(* One statement more.                                                     *)
LEMMA AppendFit ==
  ASSUME NEW s, NEW x \in Statements, NEW t, t = s \o <<x>>, Fit(s), \A y \in Elems(s) : Before(y, x)
  PROVE  Fit(t) /\ Elems(t) = Elems(s) \cup {x}
  <1>1. PICK u : u = <<x>>
    OBVIOUS
  <1>2. Fit(u) /\ Elems(u) = {x}
    BY <1>1, SingleFit
  <1>3. t = s \o u
    BY <1>1
  <1>4. \A y \in Elems(s), z \in Elems(u) : Before(y, z)
    BY <1>2
  <1>5. Fit(s \o u) /\ Elems(s \o u) = Elems(s) \cup Elems(u)
    BY <1>2, <1>4, ConcatFit
  <1>6. QED
    BY <1>2, <1>3, <1>5

LEMMA ProposalFit ==
  ASSUME NEW k \in Keys, NEW r \in RunIds \cup {NoRun}, NEW n \in Ids, n = NextId
  PROVE  /\ Fit(ProposalRows(k, r))
         /\ Elems(ProposalRows(k, r)) =
              {Reserve(k), AddApproval(n, r, k), AddCard(n, PlanCard(r, n, TRUE)),
               Complete(k, n), [table |-> "session", row |-> NoId, set |-> [status |-> "awaiting_approval"]]}
  <1>1. PICK e1 : e1 = Reserve(k)
    OBVIOUS
  <1>2. PICK a1 : a1 = AddApproval(n, r, k)
    OBVIOUS
  <1>3. PICK c1 : c1 = AddCard(n, PlanCard(r, n, TRUE))
    OBVIOUS
  <1>4. PICK s1 : s1 = [table |-> "session", row |-> NoId, set |-> [status |-> "awaiting_approval"]]
    OBVIOUS
  <1>5. PICK e2 : e2 = Complete(k, n)
    OBVIOUS
  <1>6. /\ e1 \in Statements /\ Reservation(e1)
        /\ a1 \in Statements /\ NewApproval(a1)
        /\ c1 \in Statements /\ NewCard(c1)
        /\ e2 \in Statements /\ Completion(e2)
    BY <1>1, <1>2, <1>3, <1>5, Made, PlanCards
  <1>7. s1 \in Statements /\ Plain(s1)
    BY <1>4 DEF Statements, PlainStatements, SessionStatements, SessionStatus, Plain
  <1>8. PICK p1 : p1 = <<e1>>
    OBVIOUS
  <1>9. PICK p2 : p2 = p1 \o <<a1>>
    OBVIOUS
  <1>10. PICK p3 : p3 = p2 \o <<c1>>
    OBVIOUS
  <1>11. PICK p4 : p4 = p3 \o <<s1>>
    OBVIOUS
  <1>12. PICK p5 : p5 = p4 \o <<e2>>
    OBVIOUS
  <1>13. ProposalRows(k, r) = p5
    BY <1>1, <1>2, <1>3, <1>4, <1>5, <1>8, <1>9, <1>10, <1>11, <1>12
       DEF ProposalRows, EffectRow, ApprovalRow, CardRow, SessionIs, SessionRow, Reserve,
           AddApproval, AddCard, Complete
  <1>14. Fit(p1) /\ Elems(p1) = {e1}
    BY <1>6, <1>8, SingleFit
  <1>15. Fit(p2) /\ Elems(p2) = {e1} \cup {a1}
    <2>1. \A y \in Elems(p1) : Before(y, a1)
      BY <1>6, <1>14 DEF Before
    <2>2. QED
      BY <1>6, <1>9, <1>14, <2>1, AppendFit
  <1>16. Fit(p3) /\ Elems(p3) = {e1, a1} \cup {c1}
    <2>1. \A y \in Elems(p2) : Before(y, c1)
      BY <1>6, <1>15 DEF Before
    <2>2. Elems(p2) = {e1, a1}
      BY <1>15
    <2>3. Fit(p3) /\ Elems(p3) = Elems(p2) \cup {c1}
      BY <1>6, <1>10, <1>15, <2>1, AppendFit
    <2>4. QED
      BY <2>2, <2>3
  <1>17. Fit(p4) /\ Elems(p4) = {e1, a1, c1} \cup {s1}
    <2>1. \A y \in Elems(p3) : Before(y, s1)
      BY <1>7 DEF Before
    <2>2. Elems(p3) = {e1, a1, c1}
      BY <1>16
    <2>3. Fit(p4) /\ Elems(p4) = Elems(p3) \cup {s1}
      BY <1>7, <1>11, <1>16, <2>1, AppendFit
    <2>4. QED
      BY <2>2, <2>3
  <1>18. Fit(p5) /\ Elems(p5) = {e1, a1, c1, s1} \cup {e2}
    <2>1. \A y \in Elems(p4) : Before(y, e2)
      BY <1>6, <1>7, <1>17 DEF Before
    <2>2. Elems(p4) = {e1, a1, c1, s1}
      BY <1>17
    <2>3. Fit(p5) /\ Elems(p5) = Elems(p4) \cup {e2}
      BY <1>6, <1>12, <1>17, <2>1, AppendFit
    <2>4. QED
      BY <2>2, <2>3
  <1>19. QED
    BY <1>1, <1>2, <1>3, <1>4, <1>5, <1>13, <1>18

(* A handler that proposes a plan.                                         *)
LEMMA Proposed ==
  ASSUME SInv, todo = <<>>, NEW k \in Keys, NEW r \in UsedRuns \cup {NoRun}, NEW s \in Seq(Upkeep),
         IsNewProposal(k), todo' = ProposalRows(k, r) \o s,
         UNCHANGED <<session, runs, cards, approvals, course, effects, ready, up, marking, cli,
                     handling, cut, crashes, clis>>,
         turn' \in TurnRecords,
         deciding' \in SUBSET [card : Ids, reason : Reasons], IsFiniteSet(deciding'),
         Cardinality(UsedIds) + Cardinality(deciding') + Expected' + 1 <= MaxCards,
         turn'.pc \in {"agent", "compact", "finish"} => turn'.run \in UsedRuns,
         turn'.pc = "queued" =>
           /\ Cardinality(UsedRuns) < MaxRuns
           /\ turn'.persist => session.latest < MaxMessages
  PROVE  SInv'
  <1>1. r \in RunIds \cup {NoRun}
    BY DEF UsedRuns
  <1>2. PICK n : n = NextId
    OBVIOUS
  <1>3. n \in Ids
    <2>1. Cardinality(deciding') \in Nat /\ Expected' \in Nat
      BY FS_CardinalityType DEF Expected
    <2>2. QED
      BY <1>2, <2>1, IdFacts, BoundsAssumption DEF NextId, Ids
  <1>4. PICK e1 : e1 = Reserve(k)
    OBVIOUS
  <1>5. PICK a1 : a1 = AddApproval(n, r, k)
    OBVIOUS
  <1>6. PICK c1 : c1 = AddCard(n, PlanCard(r, n, TRUE))
    OBVIOUS
  <1>7. PICK e2 : e2 = Complete(k, n)
    OBVIOUS
  <1>8. PICK s1 : s1 = [table |-> "session", row |-> NoId, set |-> [status |-> "awaiting_approval"]]
    OBVIOUS
  <1>9. /\ Fit(todo')
        /\ \A x \in Waiting' : \/ x \in {e1, a1, c1, e2}
                               \/ /\ Plain(x) /\ x \in Statements
                                  /\ x.table = "runs" => x.row \in UsedRuns
                                  /\ x.table = "session" => "latest" \notin DOMAIN x.set
        /\ {e1, a1, c1, e2} \subseteq Waiting'
    <2>1. Fit(ProposalRows(k, r)) /\ Elems(ProposalRows(k, r)) = {e1, a1, c1, e2, s1}
      BY <1>1, <1>2, <1>3, <1>4, <1>5, <1>6, <1>7, <1>8, ProposalFit
    <2>2. Plain(s1) /\ s1 \in Statements /\ s1.table = "session" /\ "latest" \notin DOMAIN s1.set
      BY <1>8 DEF Plain, Statements, PlainStatements, SessionStatements, SessionStatus
    <2>3. Fit(todo') /\ Waiting' = {e1, a1, c1, e2, s1} \cup Elems(s)
      BY <2>1, ThenUpkeep DEF Waiting
    <2>4. QED
      BY <2>2, <2>3, UpkeepFit
  <1>10. /\ e1 \in Statements /\ Reservation(e1) /\ e1.row = k
         /\ a1 \in Statements /\ NewApproval(a1) /\ a1.row = n /\ a1.set.key = k /\ a1.set.run = r
         /\ c1 \in Statements /\ NewCard(c1) /\ c1.row = n /\ c1.set.kind = "plan"
         /\ c1.set.approval = n /\ c1.set.run = r
         /\ e2 \in Statements /\ Completion(e2) /\ e2.row = k /\ e2.set.approval = n
    <2>1. /\ PlanCard(r, n, TRUE) \in CardRecords /\ PlanCard(r, n, TRUE).kind = "plan"
          /\ PlanCard(r, n, TRUE).approval = n /\ PlanCard(r, n, TRUE).run = r
      BY <1>1, <1>3, PlanCards
    <2>2. /\ e1 \in Statements /\ Reservation(e1) /\ a1 \in Statements /\ NewApproval(a1)
          /\ c1 \in Statements /\ NewCard(c1) /\ e2 \in Statements /\ Completion(e2)
      BY <1>1, <1>3, <1>4, <1>5, <1>6, <1>7, <2>1, Made
    <2>3. e1.row = k /\ a1.row = n /\ a1.set.key = k /\ a1.set.run = r
      BY <1>4, <1>5 DEF Reserve, AddApproval
    <2>4. c1.row = n /\ c1.set = PlanCard(r, n, TRUE)
      BY <1>6 DEF AddCard
    <2>5. e2.row = k /\ e2.set.approval = n
      BY <1>7 DEF Complete
    <2>6. QED
      BY <2>1, <2>2, <2>3, <2>4, <2>5
  <1>11. /\ cards[n].kind = "absent" /\ approvals[n].status = "absent"
         /\ \A c \in Ids : cards[c].approval # n
    BY <1>2, <1>3, FreshId
  <1>12. \A x \in Waiting' : /\ NewApproval(x) => x = a1
                             /\ NewCard(x) => x = c1
                             /\ Reservation(x) => x = e1
                             /\ Completion(x) => x = e2
                             /\ ~CardDecision(x) /\ ~Verdict(x) /\ ~CourseSave(x)
    BY <1>9, <1>10, OneKind
  <1>13. WaitInv'
    <2>1. NewCardOk(c1)'
      BY <1>9, <1>10, <1>11, <1>12 DEF NewCardOk
    <2>2. NewPlanCardOk(c1)'
      <3>1. Gets(n)'
        BY <1>9, <1>10 DEF Gets
      <3>2. \A c \in PendingCards' : cards'[c].approval # n
        BY <1>11 DEF PendingCards
      <3>3. QED
        BY <1>3, <1>10, <1>11, <3>1, <3>2 DEF NewPlanCardOk
    <2>3. NewApprovalOk(a1)'
      <3>1. effects[k].status = "absent"
        BY DEF IsNewProposal
      <3>2. \A a \in Ids : approvals[a].key # k
        BY <3>1, NoKeyAssumption DEF SInv, TableInv, ApprovalInv
      <3>3. QED
        BY <1>9, <1>10, <3>1, <3>2 DEF NewApprovalOk
    <2>4. CompletionOk(e2)'
      BY <1>9, <1>10 DEF CompletionOk
    <2>5. effects'[e1.row].status = "absent"
      BY <1>10 DEF IsNewProposal
    <2>6. QED
      BY <1>12, <2>1, <2>2, <2>3, <2>4, <2>5 DEF WaitInv
  <1>14. handling' = NoId /\ HandlingInv'
    BY Idle DEF HandlingInv
  <1>15. \A a \in cut' : approvals[a].status # "absent"
    BY DEF SInv, TypeOK, TableInv, ApprovalInv
  <1>16. cut' \in SUBSET Ids /\ up' \in BOOLEAN /\ ready' \in BOOLEAN
         /\ crashes' \in 0..MaxCrashes /\ clis' \in 0..MaxCli /\ marking' \subseteq UsedRuns
    BY Found DEF SInv, TypeOK
  <1>17. UsedRuns \subseteq RunIds
    BY DEF UsedRuns
  <1>18. \A x \in Waiting' :
           /\ NewApproval(x) => x.row = NextId
           /\ NewCard(x) => x.row = NextId
           /\ NewCard(x) \/ NewApproval(x) => x.set.run \in UsedRuns \cup {NoRun}
    BY <1>2, <1>10, <1>12
  <1>19. \A x \in Waiting' : /\ x.table = "runs" => x.row \in UsedRuns
                             /\ x.table = "session" => "latest" \notin DOMAIN x.set
    BY <1>9, <1>10 DEF Reservation, Completion, NewApproval, NewCard
  <1>20. QED
    BY <1>9, <1>14, <1>13, <1>15, <1>16, <1>17, <1>18, <1>19, Handled

(* Run_turn's first statements.                                            *)
LEMMA HeadStays ==
  ASSUME NEW S, NEW s \in Seq(S), NEW t \in Seq(S), NEW u, u = s \o t, s # <<>>
  PROVE  u \in Seq(S) /\ u # <<>> /\ Head(u) = Head(s)
  <1>1. u \in Seq(S) /\ Len(u) = Len(s) + Len(t) /\ Len(s) \in Nat /\ Len(t) \in Nat /\ Len(s) # 0
    OBVIOUS
  <1>2. u[1] = s[1]
    BY <1>1
  <1>3. QED
    BY <1>1, <1>2

LEMMA TurnStarts ==
  ASSUME SInv, NEW due \in BOOLEAN, StartTurn(due)
  PROVE  SInv'
  <1>1. PICK r : r = NextRun
    OBVIOUS
  <1>2. todo = <<>> /\ turn.pc = "queued"
        /\ UNCHANGED <<session, runs, cards, approvals, course, effects, ready, up, marking, deciding,
                       cli, handling, cut, crashes, clis>>
    BY DEF StartTurn, LoopFree, tables, bounds
  <1>3. r \in RunIds /\ r # NoRun
    BY <1>1, <1>2, Found, IdFacts, BoundsAssumption, Bounds DEF NextRun, RunIds
  <1>4. /\ turn' \in TurnRecords /\ turn'.pc = "agent" /\ turn'.run = r
        /\ Expected = 1 /\ Expected' = 1
    <2>1. SkillFor(turn.text, due) \in Skills
      BY DEF SkillFor, Skills
    <2>2. turn' = [NoTurn EXCEPT !.pc = "agent", !.run = r, !.skill = SkillFor(turn.text, due)]
      BY <1>1 DEF StartTurn
    <2>3. NoTurn \in TurnRecords
      BY DEF NoTurn, TurnRecords
    <2>4. turn' \in TurnRecords /\ turn'.pc = "agent" /\ turn'.run = r
      BY <1>3, <2>1, <2>2, <2>3 DEF TurnRecords
    <2>5. QED
      BY <1>2, <2>4 DEF Expected
  <1>5. PICK u1 : u1 = RunRow(r, [status |-> "running", stage |-> "received"])
    OBVIOUS
  <1>6. PICK u2 : u2 = SessionIs("running")
    OBVIOUS
  <1>7. PICK u3 : u3 = IF turn.persist THEN SessionRow([latest |-> session.latest + 1, text |-> turn.text])
                                       ELSE <<>>
    OBVIOUS
  <1>8. PICK u4 : u4 = Checkpoint(r, "received")
    OBVIOUS
  <1>9. PICK u5 : u5 = Checkpoint(r, "context_ready")
    OBVIOUS
  <1>10. /\ u1 \in Seq(PlainStatements) /\ u1 # <<>>
         /\ Head(u1).table = "runs" /\ Head(u1).row = r /\ "status" \in DOMAIN Head(u1).set
    <2>1. PICK x : x = [table |-> "runs", row |-> r, set |-> [status |-> "running", stage |-> "received"]]
      OBVIOUS
    <2>2. x \in PlainStatements /\ x.table = "runs" /\ x.row = r /\ "status" \in DOMAIN x.set
      BY <1>3, <2>1 DEF PlainStatements, RunStatements, RunSets, RunStatus, Stages
    <2>3. u1 = <<x>>
      BY <1>3, <1>5, <2>1 DEF RunRow
    <2>4. QED
      BY <2>2, <2>3
  <1>11. u2 \in Seq(PlainStatements)
    <2>1. [table |-> "session", row |-> NoId, set |-> [status |-> "running"]] \in PlainStatements
      BY DEF PlainStatements, SessionStatements, SessionStatus
    <2>2. QED
      BY <1>6, <2>1 DEF SessionIs, SessionRow
  <1>12. u3 \in Seq(PlainStatements)
    <2>1. CASE turn.persist
      <3>1. session.latest + 1 \in 0..MaxMessages
        BY <1>2, <2>1, Found, BoundsAssumption DEF SessionRows
      <3>2. turn.text \in Texts \cup {"none"}
        BY Found DEF TurnRecords
      <3>3. [table |-> "session", row |-> NoId,
             set |-> [latest |-> session.latest + 1, text |-> turn.text]] \in PlainStatements
        BY <3>1, <3>2 DEF PlainStatements, MessageStatements
      <3>4. QED
        BY <1>7, <2>1, <3>3 DEF SessionRow
    <2>2. CASE ~turn.persist
      BY <1>7, <2>2
    <2>3. QED
      BY <2>1, <2>2
  <1>13. u4 \in Seq(PlainStatements) /\ u5 \in Seq(PlainStatements)
    <2>1. \A stage \in Stages :
            /\ [table |-> "runs", row |-> r, set |-> [stage |-> stage]] \in PlainStatements
            /\ [table |-> "runs", row |-> r, set |-> [checkpoint |-> stage]] \in PlainStatements
      BY <1>3 DEF PlainStatements, RunStatements, RunSets
    <2>2. \A stage \in Stages : Checkpoint(r, stage) \in Seq(PlainStatements)
      BY <1>3, <2>1 DEF Checkpoint, RunRow
    <2>3. QED
      BY <1>8, <1>9, <2>2 DEF Stages
  <1>14. PICK v2 : v2 = u1 \o u2
    OBVIOUS
  <1>15. PICK v3 : v3 = v2 \o u3
    OBVIOUS
  <1>16. PICK v4 : v4 = v3 \o u4
    OBVIOUS
  <1>17. todo' = v4 \o u5
    BY <1>1, <1>5, <1>6, <1>7, <1>8, <1>9, <1>14, <1>15, <1>16 DEF StartTurn
  <1>18. todo' \in Seq(PlainStatements) /\ todo' # <<>> /\ Head(todo') = Head(u1)
    <2>1. v2 \in Seq(PlainStatements) /\ v2 # <<>> /\ Head(v2) = Head(u1)
      BY <1>10, <1>11, <1>14, HeadStays
    <2>2. v3 \in Seq(PlainStatements) /\ v3 # <<>> /\ Head(v3) = Head(v2)
      BY <2>1, <1>12, <1>15, HeadStays
    <2>3. v4 \in Seq(PlainStatements) /\ v4 # <<>> /\ Head(v4) = Head(v3)
      BY <2>2, <1>13, <1>16, HeadStays
    <2>4. todo' \in Seq(PlainStatements) /\ todo' # <<>> /\ Head(todo') = Head(v4)
      BY <2>3, <1>13, <1>17, HeadStays
    <2>5. QED
      BY <2>1, <2>2, <2>3, <2>4
  <1>19. CreatesRun'
    BY <1>4, <1>10, <1>18 DEF CreatesRun
  <1>20. Fit(todo') /\ \A x \in Waiting' : Plain(x) /\ x \in Statements
    BY <1>18, PlainFit DEF Waiting, Statements
  <1>21. \A x \in Waiting' : ~NewCard(x) /\ ~NewApproval(x)
    BY <1>20, OneKind
  <1>22. WaitInv'
    BY <1>20, OneKind DEF WaitInv
  <1>23. handling' = NoId /\ HandlingInv'
    BY <1>2, Idle DEF HandlingInv
  <1>24. \A a \in cut' : approvals[a].status # "absent"
    BY <1>2 DEF SInv, TypeOK, TableInv, ApprovalInv
  <1>25. cut' \in SUBSET Ids /\ up' \in BOOLEAN /\ ready' \in BOOLEAN /\ marking' \subseteq UsedRuns
         /\ crashes' \in 0..MaxCrashes /\ clis' \in 0..MaxCli
    BY <1>2, Found DEF SInv, TypeOK
  <1>26. Cardinality(UsedIds) + Cardinality(deciding') + Expected' + 0 <= MaxCards
    BY <1>2, <1>4, Idle, IdFacts, BoundsAssumption
  <1>27. QED
    BY <1>2, <1>3, <1>4, <1>19, <1>20, <1>21, <1>22, <1>23, <1>24, <1>25, <1>26, Found, Handled

(* Statements a handler adds to those that make or decide a card.          *)
Ordinary(x) ==
  /\ Plain(x) /\ x \in Statements
  /\ x.table = "runs" => x.row \in UsedRuns
  /\ x.table = "session" => "latest" \notin DOMAIN x.set

LEMMA OrdinaryRows ==
  ASSUME NEW s \in Seq(Upkeep)
  PROVE  Fit(s) /\ \A x \in Elems(s) : Ordinary(x)
  BY UpkeepFit DEF Ordinary

LEMMA Regroup ==
  ASSUME NEW S, NEW s \in Seq(S), NEW t \in Seq(S), NEW u \in Seq(S),
         NEW st, st = s \o t, NEW tu, tu = t \o u
  PROVE  st \o u = s \o tu
  OBVIOUS

LEMMA ProposalKeys ==
  ASSUME SInv, NEW p \in Plans, NEW reason \in Reasons
  PROVE  ProposalKey(p, reason) \in Keys
  BY Found DEF ProposalKey, Keys, SessionRows

(* The agent answered: the checkpoint card of a goal may be made.          *)
LEMMA GoalCheckpointMade ==
  ASSUME SInv, NEW compacts \in BOOLEAN, AgentAnswers(compacts), GoalCheckpoint # <<>>
  PROVE  SInv'
  <1>1. PICK n : n = NextId
    OBVIOUS
  <1>2. /\ todo = <<>> /\ turn.pc = "agent" /\ turn.run \in UsedRuns
        /\ UNCHANGED <<session, runs, cards, approvals, course, effects, ready, up, marking, deciding,
                       cli, handling, cut, crashes, clis>>
    BY Idle DEF AgentAnswers, LoopFree, tables, bounds
  <1>3. /\ turn' \in TurnRecords /\ turn'.pc \in {"compact", "finish"} /\ turn'.run = turn.run
        /\ Expected = 1 /\ Expected' = 0
    <2>1. turn' = [turn EXCEPT !.pc = IF compacts THEN "compact" ELSE "finish", !.skill = "none"]
      BY DEF AgentAnswers, Answered
    <2>2. turn' \in TurnRecords /\ turn'.pc \in {"compact", "finish"} /\ turn'.run = turn.run
      BY <2>1, Found DEF TurnRecords
    <2>3. QED
      BY <1>2, <2>2 DEF Expected
  <1>4. Cardinality(UsedIds) + Cardinality(deciding') + Expected' + 1 <= MaxCards
    BY <1>2, <1>3, Idle, IdFacts, BoundsAssumption
  <1>5. n \in Ids
    BY <1>1, <1>2, <1>3, <1>4, IdFacts, BoundsAssumption DEF NextId, Ids
  <1>6. PICK set : set = [kind |-> "checkpoint", status |-> "pending", run |-> turn.run,
                          approval |-> NoId, next |-> TRUE]
    OBVIOUS
  <1>7. PICK c1 : c1 = AddCard(n, set)
    OBVIOUS
  <1>8. /\ c1 \in Statements /\ NewCard(c1) /\ c1.row = n /\ c1.set = set
        /\ set.kind = "checkpoint" /\ set.approval = NoId /\ set.run \in UsedRuns
    <2>1. set \in CardRecords
      BY <1>2, <1>6 DEF CardRecords, UsedRuns
    <2>2. c1 \in Statements /\ NewCard(c1)
      BY <1>5, <1>7, <2>1, Made
    <2>3. c1.row = n /\ c1.set = set
      BY <1>7 DEF AddCard
    <2>4. QED
      BY <1>2, <1>6, <2>2, <2>3
  <1>9. PICK u : u = Checkpoint(turn.run, "model_completed")
    OBVIOUS
  <1>10. PICK w : w = SessionIs("awaiting_approval")
    OBVIOUS
  <1>11. u \in Seq(Upkeep) /\ w \in Seq(Upkeep)
    BY <1>2, <1>9, <1>10, UpkeepRows DEF Stages, SessionStatus
  <1>12. PICK p : p = <<c1>>
    OBVIOUS
  <1>13. todo' = u \o (p \o w)
    <2>1. GoalCheckpoint = p \o w
      BY <1>1, <1>6, <1>7, <1>10, <1>12 DEF GoalCheckpoint, CardRow, AddCard
    <2>2. todo' = <<>> \o u \o GoalCheckpoint
      BY <1>9 DEF AgentAnswers, Answered
    <2>3. <<>> \o u = u
      BY <1>11
    <2>4. QED
      BY <2>1, <2>2, <2>3
  <1>14. Fit(todo') /\ c1 \in Waiting' /\ \A x \in Waiting' : x = c1 \/ Ordinary(x)
    <2>1. Fit(p) /\ Elems(p) = {c1}
      BY <1>8, <1>12, SingleFit
    <2>2. PICK v : v = p \o w
      OBVIOUS
    <2>3. Fit(v) /\ Elems(v) = {c1} \cup Elems(w)
      BY <1>11, <2>1, <2>2, ThenUpkeep
    <2>4. Fit(u) /\ (\A x \in Elems(u) : Ordinary(x)) /\ (\A x \in Elems(w) : Ordinary(x))
      BY <1>11, OrdinaryRows
    <2>5. Fit(u \o v) /\ Elems(u \o v) = Elems(u) \cup Elems(v)
      <3>1. \A x \in Elems(u), y \in Elems(v) : Before(x, y)
        BY <2>4 DEF Before, Ordinary
      <3>2. QED
        BY <2>3, <2>4, <3>1, ConcatFit
    <2>6. todo' = u \o v
      BY <1>13, <2>2
    <2>7. QED
      BY <2>3, <2>4, <2>5, <2>6 DEF Waiting
  <1>15. \A x \in Waiting' : /\ NewCard(x) => x = c1
                             /\ ~NewApproval(x) /\ ~Reservation(x) /\ ~Completion(x)
                             /\ ~CardDecision(x) /\ ~Verdict(x) /\ ~CourseSave(x)
    BY <1>8, <1>14, OneKind DEF Ordinary
  <1>16. WaitInv'
    <2>1. cards[n].kind = "absent" /\ approvals[n].status = "absent"
      BY <1>1, <1>5, FreshId
    <2>2. NewCardOk(c1)'
      BY <1>2, <1>8, <1>15, <2>1 DEF NewCardOk
    <2>3. QED
      BY <1>8, <1>15, <2>2 DEF WaitInv
  <1>17. handling' = NoId /\ HandlingInv'
    BY <1>2, Idle DEF HandlingInv
  <1>18. \A a \in cut' : approvals[a].status # "absent"
    BY <1>2 DEF SInv, TypeOK, TableInv, ApprovalInv
  <1>19. cut' \in SUBSET Ids /\ up' \in BOOLEAN /\ ready' \in BOOLEAN /\ marking' \subseteq UsedRuns
         /\ crashes' \in 0..MaxCrashes /\ clis' \in 0..MaxCli
    BY <1>2, Found DEF SInv, TypeOK
  <1>20. UsedRuns \subseteq RunIds
    BY DEF UsedRuns
  <1>21. \A x \in Waiting' : x.table = "session" => "latest" \notin DOMAIN x.set
    BY <1>8, <1>14 DEF Ordinary, NewCard
  <1>22. \A x \in Waiting' :
           /\ NewApproval(x) => x.row = NextId
           /\ NewCard(x) => x.row = NextId
           /\ NewCard(x) \/ NewApproval(x) => x.set.run \in UsedRuns \cup {NoRun}
    BY <1>1, <1>8, <1>15
  <1>23. QED
    BY <1>2, <1>3, <1>4, <1>14, <1>16, <1>17, <1>18, <1>19, <1>20, <1>21, <1>22, Found, Handled

LEMMA AgentReturned ==
  ASSUME SInv, AgentReturns
  PROVE  SInv'
  <1>1. CASE TurnFails
    BY <1>1, TurnEnds
  <1>2. ASSUME NEW compacts \in BOOLEAN, NEW rows,
               LoopFree, turn.pc = "agent", Answered(rows, compacts),
               UNCHANGED <<tables, up, marking, deciding, cli, handling, cut, bounds>>
        PROVE  /\ todo = <<>> /\ turn' \in TurnRecords /\ turn'.pc \in {"compact", "finish"}
               /\ turn'.run \in UsedRuns /\ Expected = 1 /\ Expected' = 0
               /\ Checkpoint(turn.run, "model_completed") \in Seq(Upkeep)
               /\ Cardinality(UsedIds) + Cardinality(deciding') + Expected' + 1 <= MaxCards
    <2>1. todo = <<>> /\ turn.run \in UsedRuns
      BY <1>2, Idle DEF LoopFree
    <2>2. turn' = [turn EXCEPT !.pc = IF compacts THEN "compact" ELSE "finish", !.skill = "none"]
      BY <1>2 DEF Answered
    <2>3. turn' \in TurnRecords /\ turn'.pc \in {"compact", "finish"} /\ turn'.run = turn.run
      BY <2>2, Found DEF TurnRecords
    <2>4. Expected = 1 /\ Expected' = 0
      BY <1>2, <2>3 DEF Expected
    <2>5. Checkpoint(turn.run, "model_completed") \in Seq(Upkeep)
      BY <2>1, UpkeepRows DEF Stages
    <2>6. Cardinality(UsedIds) + Cardinality(deciding') + Expected' + 1 <= MaxCards
      BY <1>2, <2>1, <2>4, Idle, IdFacts, BoundsAssumption
    <2>7. QED
      BY <2>1, <2>3, <2>4, <2>5, <2>6
  <1>3. ASSUME NEW compacts \in BOOLEAN, LoopFree, turn.pc = "agent", Answered(<<>>, compacts),
               UNCHANGED <<tables, up, marking, deciding, cli, handling, cut, bounds>>,
               GoalCheckpoint = <<>>
        PROVE  SInv'
    <2>1. PICK s : s = Checkpoint(turn.run, "model_completed")
      OBVIOUS
    <2>2. s \in Seq(Upkeep)
      BY <1>2, <1>3, <2>1
    <2>3. todo' = s
      <3>1. todo' = <<>> \o s \o <<>>
        BY <1>3, <2>1 DEF Answered
      <3>2. QED
        BY <2>2, <3>1
    <2>4. UNCHANGED <<session, runs, cards, approvals, course, effects, ready, up, marking, deciding,
                      cli, handling, cut, crashes, clis>>
      BY <1>3 DEF tables, bounds
    <2>5. /\ todo = <<>> /\ turn' \in TurnRecords /\ turn'.pc \in {"compact", "finish"}
          /\ turn'.run \in UsedRuns /\ Expected' = 0
          /\ Cardinality(UsedIds) + Cardinality(deciding') + Expected' + 1 <= MaxCards
      BY <1>2, <1>3
    <2>6. Cardinality(UsedIds) + Cardinality(deciding') + Expected' <= MaxCards
      BY <2>4, <2>5, IdFacts, BoundsAssumption
    <2>7. QED
      BY <2>2, <2>3, <2>4, <2>5, <2>6, Found, QuietlyHandled
  <1>4. ASSUME NEW compacts \in BOOLEAN, AgentAnswers(compacts) PROVE SInv'
    <2>1. CASE GoalCheckpoint = <<>>
      BY <1>3, <1>4, <2>1 DEF AgentAnswers
    <2>2. QED
      BY <1>4, <2>1, GoalCheckpointMade
  <1>5. ASSUME NEW compacts \in BOOLEAN, NEW p \in Plans, TurnProposes(p, compacts) PROVE SInv'
    <2>1. PICK k : k = ProposalKey(p, "planned")
      OBVIOUS
    <2>2. k \in Keys
      BY <2>1, ProposalKeys DEF Reasons
    <2>3. GoalCheckpoint = <<>>
      BY <1>5 DEF TurnProposes, GoalCheckpoint
    <2>4. CASE Answered(<<>>, compacts)
      BY <1>3, <1>5, <2>3, <2>4 DEF TurnProposes
    <2>5. CASE IsNewProposal(k) /\ Answered(ProposalRows(k, turn.run), compacts)
      <3>1. PICK s : s = Checkpoint(turn.run, "model_completed")
        OBVIOUS
      <3>2. UNCHANGED <<session, runs, cards, approvals, course, effects, ready, up, marking, deciding,
                        cli, handling, cut, crashes, clis>>
        BY <1>5 DEF TurnProposes, tables, bounds
      <3>3. /\ todo = <<>> /\ turn' \in TurnRecords /\ turn'.pc \in {"compact", "finish"}
            /\ turn'.run \in UsedRuns /\ s \in Seq(Upkeep)
            /\ Cardinality(UsedIds) + Cardinality(deciding') + Expected' + 1 <= MaxCards
        BY <1>2, <1>5, <2>5, <3>1 DEF TurnProposes
      <3>4. turn.run \in UsedRuns
        BY <1>5, Idle DEF TurnProposes, LoopFree
      <3>5. PICK n : n = NextId
        OBVIOUS
      <3>6. n \in Ids
        <4>1. Expected' \in Nat /\ Cardinality(deciding') \in Nat
          BY <3>2, IdFacts DEF Expected
        <4>2. QED
          BY <3>3, <3>5, <4>1, IdFacts, BoundsAssumption DEF NextId, Ids
      <3>7. ProposalRows(k, turn.run) \in Seq(Statements)
        <4>1. turn.run \in RunIds \cup {NoRun}
          BY <3>4 DEF UsedRuns
        <4>2. QED
          BY <2>2, <3>5, <3>6, <4>1, ProposalFit DEF Fit
      <3>8. s \in Seq(Statements)
        BY <3>3, UpkeepFit DEF Fit
      <3>9. todo' = ProposalRows(k, turn.run) \o s
        <4>1. todo' = ProposalRows(k, turn.run) \o s \o <<>>
          BY <2>3, <2>5, <3>1 DEF Answered
        <4>2. QED
          BY <3>7, <3>8, <4>1
      <3>10. QED
        BY <2>2, <2>5, <3>2, <3>3, <3>4, <3>9, Found, Proposed
    <2>6. QED
      BY <1>5, <2>1, <2>4, <2>5 DEF TurnProposes
  <1>6. QED
    BY <1>1, <1>4, <1>5 DEF AgentReturns

-----------------------------------------------------------------------------
(* Decisions that only complete or cancel a card.                          *)
LEMMA CardDecided ==
  ASSUME SInv, todo = <<>>, NEW c \in Ids, cards[c].kind # "absent", cards[c].status = "pending",
         NEW status \in CardStatus \ {"pending"}, NEW s \in Seq(Upkeep),
         todo' = <<SetCard(c, status)>> \o s,
         UNCHANGED <<session, runs, cards, approvals, course, effects, ready, up, marking, turn, cli,
                     handling, cut, crashes, clis>>,
         deciding' \in SUBSET [card : Ids, reason : Reasons], IsFiniteSet(deciding'),
         Cardinality(UsedIds) + Cardinality(deciding') + Expected <= MaxCards
  PROVE  SInv'
  <1>1. PICK e1 : e1 = SetCard(c, status)
    OBVIOUS
  <1>2. e1 \in Statements /\ CardDecision(e1) /\ e1.row = c
    BY <1>1, Made DEF SetCard
  <1>3. Fit(todo') /\ e1 \in Waiting' /\ \A x \in Waiting' : x = e1 \/ Ordinary(x)
    <2>1. PICK p : p = <<e1>>
      OBVIOUS
    <2>2. Fit(p) /\ Elems(p) = {e1}
      BY <1>2, <2>1, SingleFit
    <2>3. todo' = p \o s
      BY <1>1, <2>1
    <2>4. Fit(p \o s) /\ Elems(p \o s) = Elems(p) \cup Elems(s)
      BY <2>2, ThenUpkeep
    <2>5. QED
      BY <2>2, <2>3, <2>4, OrdinaryRows DEF Waiting
  <1>4. \A x \in Waiting' : /\ CardDecision(x) => x = e1
                            /\ ~NewCard(x) /\ ~NewApproval(x) /\ ~Reservation(x) /\ ~Completion(x)
                            /\ ~Verdict(x) /\ ~CourseSave(x)
    BY <1>2, <1>3, OneKind DEF Ordinary
  <1>5. WaitInv'
    <2>1. DecisionOk(e1)'
      BY <1>2 DEF DecisionOk, HasCardSoon
    <2>2. QED
      BY <1>4, <2>1 DEF WaitInv
  <1>6. handling' = NoId /\ HandlingInv'
    BY Idle DEF HandlingInv
  <1>7. \A a \in cut' : approvals[a].status # "absent"
    BY DEF SInv, TypeOK, TableInv, ApprovalInv
  <1>8. cut' \in SUBSET Ids /\ up' \in BOOLEAN /\ ready' \in BOOLEAN /\ marking' \subseteq UsedRuns
        /\ crashes' \in 0..MaxCrashes /\ clis' \in 0..MaxCli
    BY Found DEF SInv, TypeOK
  <1>9. UsedRuns \subseteq RunIds
    BY DEF UsedRuns
  <1>10. \A x \in Waiting' : /\ x.table = "runs" => x.row \in UsedRuns
                             /\ x.table = "session" => "latest" \notin DOMAIN x.set
    BY <1>2, <1>3 DEF Ordinary, CardDecision
  <1>11. Expected' = Expected /\ Expected \in Nat /\ Cardinality(deciding') \in Nat
    BY FS_CardinalityType DEF Expected
  <1>12. Cardinality(UsedIds) + Cardinality(deciding') + Expected' + 0 <= MaxCards
    BY <1>11, IdFacts, BoundsAssumption
  <1>13. turn'.pc \in {"agent", "compact", "finish"} => turn'.run \in UsedRuns
    BY Idle
  <1>14. QED
    BY <1>3, <1>4, <1>5, <1>6, <1>7, <1>8, <1>9, <1>10, <1>12, <1>13, Found, Handled

LEMMA OneMoreDecides ==
  ASSUME SInv, NEW d \in [card : Ids, reason : Reasons], RoomForCard
  PROVE  /\ deciding \cup {d} \in SUBSET [card : Ids, reason : Reasons]
         /\ IsFiniteSet(deciding \cup {d})
         /\ Cardinality(UsedIds) + Cardinality(deciding \cup {d}) + Expected <= MaxCards
  <1>1. deciding \in SUBSET [card : Ids, reason : Reasons] /\ IsFiniteSet(deciding)
    BY Found
  <1>2. /\ IsFiniteSet(deciding \cup {d})
        /\ Cardinality(deciding \cup {d}) = Cardinality(deciding)
           \/ Cardinality(deciding \cup {d}) = Cardinality(deciding) + 1
    BY <1>1, FS_AddElement
  <1>3. Cardinality(UsedIds) + Cardinality(deciding) + Expected < MaxCards
    BY DEF RoomForCard, Expected
  <1>4. Expected \in Nat
    BY DEF Expected
  <1>5. QED
    BY <1>1, <1>2, <1>3, <1>4, IdFacts, BoundsAssumption

LEMMA CardSettled ==
  ASSUME SInv, NEW c \in Ids,
         \/ CancelCheckpoint(c) \/ PlanFromCheckpoint(c)
         \/ \E text \in Suggestions : SuggestChange(c, text)
  PROVE  SInv'
  <1>1. {"completed", "cancelled"} \subseteq CardStatus \ {"pending"}
    BY DEF CardStatus
  <1>2. CASE CancelCheckpoint(c)
    <2>1. /\ todo = <<>> /\ cards[c].kind # "absent" /\ cards[c].status = "pending"
          /\ UNCHANGED <<session, runs, cards, approvals, course, effects, ready, up, marking, turn, cli,
                         deciding, handling, cut, crashes, clis>>
      BY <1>2 DEF CancelCheckpoint, OpenCheckpoint, LoopFree, tables, bounds
    <2>2. PICK p : p = <<SetCard(c, "cancelled")>>
      OBVIOUS
    <2>3. PICK u : u = RunRow(cards[c].run, [stage |-> "cancelled", status |-> "completed"])
      OBVIOUS
    <2>4. PICK v : v = SessionIs("completed")
      OBVIOUS
    <2>5. u \in Seq(Upkeep) /\ v \in Seq(Upkeep)
      <3>1. [stage |-> "cancelled", status |-> "completed"] \in RunSets
        BY DEF RunSets, Stages, RunStatus
      <3>2. QED
        BY <2>3, <2>4, <3>1, Found, UpkeepRows DEF SessionStatus
    <2>6. u \in Seq(Statements) /\ v \in Seq(Statements) /\ p \in Seq(Statements)
      BY <1>1, <2>2, <2>5, UpkeepFit, Made DEF Fit
    <2>7. todo' = p \o u \o v
      BY <1>2, <2>2, <2>3, <2>4 DEF CancelCheckpoint, CardRow, SetCard
    <2>8. todo' = p \o (u \o v)
      BY <2>6, <2>7, Regroup
    <2>9. u \o v \in Seq(Upkeep)
      BY <2>5
    <2>10. Cardinality(UsedIds) + Cardinality(deciding') + Expected <= MaxCards
      BY <2>1, Idle
    <2>11. QED
      BY <1>1, <2>1, <2>2, <2>8, <2>9, <2>10, Found, CardDecided
  <1>3. ASSUME NEW reason \in Reasons, OpenCheckpoint(c) \/ (OpenPlanCard(c) /\ HasCard(c)),
               RoomForCard, todo' = CardRow(c, [status |-> "completed"]),
               deciding' = deciding \cup {[card |-> c, reason |-> reason]},
               UNCHANGED <<tables, up, marking, turn, cli, handling, cut, bounds>>
        PROVE  SInv'
    <2>1. /\ todo = <<>> /\ cards[c].kind # "absent" /\ cards[c].status = "pending"
          /\ UNCHANGED <<session, runs, cards, approvals, course, effects, ready, up, marking, turn, cli,
                         handling, cut, crashes, clis>>
      BY <1>3 DEF OpenCheckpoint, OpenPlanCard, HasCard, CardOf, LoopFree, tables, bounds
    <2>2. todo' = <<SetCard(c, "completed")>> \o <<>>
      BY <1>3 DEF CardRow, SetCard
    <2>3. PICK d : d = [card |-> c, reason |-> reason]
      OBVIOUS
    <2>4. d \in [card : Ids, reason : Reasons]
      BY <2>3
    <2>5. /\ deciding' \in SUBSET [card : Ids, reason : Reasons] /\ IsFiniteSet(deciding')
          /\ Cardinality(UsedIds) + Cardinality(deciding') + Expected <= MaxCards
      BY <1>3, <2>3, <2>4, OneMoreDecides
    <2>6. <<>> \in Seq(Upkeep)
      OBVIOUS
    <2>7. QED
      BY <1>1, <2>1, <2>2, <2>5, <2>6, CardDecided
  <1>4. CASE PlanFromCheckpoint(c)
    BY <1>3, <1>4 DEF PlanFromCheckpoint, Reasons
  <1>5. CASE \E text \in Suggestions : SuggestChange(c, text)
    BY <1>3, <1>5 DEF SuggestChange, Reasons
  <1>6. QED
    BY <1>2, <1>4, <1>5

(* An open plan card, and the approval it stands for.                      *)
LEMMA OpenPlans ==
  ASSUME SInv, NEW c \in Ids, OpenPlanCard(c), NEW a, a = CardOf(c).approval
  PROVE  /\ todo = <<>> /\ a \in Ids /\ approvals[a].status # "absent" /\ cards[c].status = "pending"
         /\ c \in UsedIds
         /\ HasCard(c) => /\ c \in PendingCards /\ cards[c].kind = "plan" /\ cards[c].approval = a
                          /\ cards[a].kind # "absent"
                          /\ \A d \in PendingCards : cards[d].approval = a => d = c
         /\ ~HasCard(c) => /\ a = c /\ cards[c].kind = "absent"
                           /\ \A d \in Ids : cards[d].approval # a
         /\ a \notin cut => approvals[a].status = "pending" /\ course[a].saved = 0
         /\ CardOf(c).run \in UsedRuns \cup {NoRun}
  <1>1. todo = <<>> /\ c \in UsedIds /\ CardOf(c).kind = "plan" /\ CardOf(c).status = "pending"
    BY DEF OpenPlanCard, LoopFree
  <1>2. CASE HasCard(c)
    <2>1. /\ cards[c].kind = "plan" /\ cards[c].status = "pending" /\ cards[c].approval = a
          /\ CardOf(c).run = cards[c].run
      BY <1>1, <1>2 DEF CardOf
    <2>2. c \in PendingCards /\ a \in Ids /\ approvals[a].status # "absent"
      BY <2>1 DEF PendingCards, SInv, TableInv, CardInv
    <2>3. cards[a].kind # "absent"
      BY <2>1, <2>2 DEF SInv, TableInv, ApprovalInv
    <2>4. /\ a \notin cut \cup {handling} => approvals[a].status = "pending"
          /\ \A d \in PendingCards : cards[d].approval = a => d = c
      BY <2>1, <2>2 DEF SInv, TableInv, PendingCardOwnsItsApproval
    <2>5. a \notin cut => approvals[a].status = "pending"
      BY <1>1, <2>2, <2>4, Idle, Bounds
    <2>6. a \notin cut => course[a].saved = 0
      <3>1. course[a].saved \in Nat
        BY <2>2, Found
      <3>2. a \notin cut => course[a].saved <= 1
        BY <2>2 DEF SInv, TableInv, SavedInv
      <3>3. a \notin cut => course[a].saved # 1
        BY <1>1, <2>2, <2>5, Idle
      <3>4. QED
        BY <3>1, <3>2, <3>3
    <2>7. QED
      BY <1>1, <1>2, <2>1, <2>2, <2>3, <2>4, <2>5, <2>6, Found
  <1>3. CASE ~HasCard(c)
    <2>1. a = c /\ cards[c].kind = "absent" /\ CardOf(c).run = approvals[c].run
      BY <1>3 DEF CardOf, HasCard, PlanCard
    <2>2. approvals[c].status # "absent"
      BY <1>1, <2>1 DEF UsedIds
    <2>3. cards[c].status = "pending" /\ approvals[a].status = "pending" /\ course[a].saved = 0
          /\ \A d \in Ids : cards[d].approval # a
      BY <2>1, <2>2 DEF SInv, TableInv, CardInv, ApprovalInv
    <2>4. QED
      BY <1>1, <1>3, <2>1, <2>2, <2>3, Found
  <1>4. QED
    BY <1>2, <1>3

LEMMA NextStepTaken ==
  ASSUME SInv, NEW c \in Ids, NextStep(c)
  PROVE  SInv'
  <1>1. PICK n : n = NextId
    OBVIOUS
  <1>2. PICK a : a = cards[c].approval
    OBVIOUS
  <1>3. PICK r : r = cards[c].run
    OBVIOUS
  <1>4. /\ OpenPlanCard(c) /\ HasCard(c) /\ cards[c].next /\ RoomForCard
        /\ UNCHANGED <<session, runs, cards, approvals, course, effects, ready, up, marking, turn, cli,
                       deciding, handling, cut, crashes, clis>>
    BY DEF NextStep, tables, bounds
  <1>5. /\ todo = <<>> /\ a \in Ids /\ approvals[a].status # "absent" /\ cards[a].kind # "absent"
        /\ cards[c].status = "pending" /\ cards[c].kind # "absent"
        /\ \A d \in PendingCards : cards[d].approval = a => d = c
        /\ a \notin cut => approvals[a].status = "pending"
        /\ r \in UsedRuns \cup {NoRun} /\ r \in RunIds \cup {NoRun}
    <2>1. CardOf(c) = cards[c]
      BY <1>4 DEF CardOf
    <2>2. r \in UsedRuns \cup {NoRun} /\ UsedRuns \subseteq RunIds
      BY <1>3, Found DEF UsedRuns
    <2>3. QED
      BY <1>2, <1>4, <2>1, <2>2, OpenPlans DEF HasCard
  <1>6. Expected \in Nat /\ Cardinality(UsedIds) + Cardinality(deciding) + Expected + 1 <= MaxCards
    <2>1. Cardinality(UsedIds) + Cardinality(deciding) + Expected < MaxCards /\ Expected \in Nat
      BY <1>4 DEF RoomForCard, Expected
    <2>2. QED
      BY <2>1, IdFacts, BoundsAssumption
  <1>7. n \in Ids
    BY <1>1, <1>6, IdFacts, BoundsAssumption DEF NextId, Ids
  <1>8. cards[n].kind = "absent" /\ approvals[n].status = "absent" /\ n # c
    BY <1>1, <1>5, <1>7, FreshId
  <1>9. PICK e1 : e1 = SetCard(c, "completed")
    OBVIOUS
  <1>10. PICK c1 : c1 = AddCard(n, PlanCard(r, a, FALSE))
    OBVIOUS
  <1>11. /\ e1 \in Statements /\ CardDecision(e1) /\ e1.row = c
         /\ c1 \in Statements /\ NewCard(c1) /\ c1.row = n
         /\ c1.set.kind = "plan" /\ c1.set.approval = a /\ c1.set.run = r
    <2>1. e1 \in Statements /\ CardDecision(e1) /\ e1.row = c
      BY <1>9, Made DEF SetCard, CardStatus
    <2>2. /\ PlanCard(r, a, FALSE) \in CardRecords /\ PlanCard(r, a, FALSE).kind = "plan"
          /\ PlanCard(r, a, FALSE).approval = a /\ PlanCard(r, a, FALSE).run = r
      BY <1>5, PlanCards
    <2>3. c1 \in Statements /\ NewCard(c1) /\ c1.row = n /\ c1.set = PlanCard(r, a, FALSE)
      BY <1>7, <1>10, <2>2, Made DEF AddCard
    <2>4. QED
      BY <2>1, <2>2, <2>3
  <1>12. /\ Fit(todo') /\ e1 \in Waiting' /\ c1 \in Waiting'
         /\ \A x \in Waiting' : x \in {e1, c1} \/ Ordinary(x)
    <2>1. PICK p : p = <<e1>>
      OBVIOUS
    <2>2. PICK q : q = p \o <<c1>>
      OBVIOUS
    <2>3. PICK u : u = RunRow(r, [stage |-> "awaiting_action", status |-> "running"])
      OBVIOUS
    <2>4. u \in Seq(Upkeep)
      <3>1. [stage |-> "awaiting_action", status |-> "running"] \in RunSets
        BY DEF RunSets, Stages, RunStatus
      <3>2. QED
        BY <1>5, <2>3, <3>1, UpkeepRows
    <2>5. todo' = q \o u
      BY <1>1, <1>2, <1>3, <1>9, <1>10, <2>1, <2>2, <2>3 DEF NextStep, CardRow, SetCard, AddCard
    <2>6. Fit(p) /\ Elems(p) = {e1}
      BY <1>11, <2>1, SingleFit
    <2>7. \A y \in Elems(p) : Before(y, c1)
      BY <1>8, <1>11, <2>6 DEF Before
    <2>8. Fit(q) /\ Elems(q) = Elems(p) \cup {c1}
      BY <1>11, <2>2, <2>6, <2>7, AppendFit
    <2>9. Fit(q \o u) /\ Elems(q \o u) = Elems(q) \cup Elems(u)
      BY <2>4, <2>8, ThenUpkeep
    <2>10. QED
      BY <2>4, <2>5, <2>6, <2>8, <2>9, OrdinaryRows DEF Waiting
  <1>13. \A x \in Waiting' : /\ CardDecision(x) => x = e1
                             /\ NewCard(x) => x = c1
                             /\ ~NewApproval(x) /\ ~Reservation(x) /\ ~Completion(x)
                             /\ ~Verdict(x) /\ ~CourseSave(x)
    BY <1>11, <1>12, OneKind DEF Ordinary
  <1>14. handling = NoId
    BY <1>5, Idle
  <1>15. WaitInv'
    <2>1. DecisionOk(e1)'
      BY <1>4, <1>5, <1>11 DEF DecisionOk, HasCardSoon
    <2>2. NewCardOk(c1)'
      BY <1>4, <1>8, <1>11, <1>13 DEF NewCardOk
    <2>3. NewPlanCardOk(c1)'
      <3>1. Decides(c)'
        BY <1>11, <1>12 DEF Decides
      <3>2. \A d \in PendingCards' : cards'[d].approval = a => Decides(d)'
        BY <1>4, <1>5, <3>1 DEF PendingCards
      <3>3. QED
        BY <1>4, <1>5, <1>8, <1>11, <3>2 DEF NewPlanCardOk
    <2>4. QED
      BY <1>13, <2>1, <2>2, <2>3 DEF WaitInv
  <1>16. handling' = NoId /\ HandlingInv'
    BY <1>4, <1>14 DEF HandlingInv
  <1>17. \A b \in cut' : approvals[b].status # "absent"
    BY <1>4 DEF SInv, TypeOK, TableInv, ApprovalInv
  <1>18. cut' \in SUBSET Ids /\ up' \in BOOLEAN /\ ready' \in BOOLEAN /\ marking' \subseteq UsedRuns
         /\ crashes' \in 0..MaxCrashes /\ clis' \in 0..MaxCli
    BY <1>4, Found DEF SInv, TypeOK
  <1>19. UsedRuns \subseteq RunIds
    BY DEF UsedRuns
  <1>20. \A x \in Waiting' : /\ x.table = "runs" => x.row \in UsedRuns
                             /\ x.table = "session" => "latest" \notin DOMAIN x.set
    BY <1>11, <1>12 DEF Ordinary, CardDecision, NewCard
  <1>21. Expected' = Expected /\ Cardinality(UsedIds) + Cardinality(deciding') + Expected' + 1 <= MaxCards
    BY <1>4, <1>6 DEF Expected
  <1>22. turn'.pc \in {"agent", "compact", "finish"} => turn'.run \in UsedRuns
    BY <1>4, <1>5, Idle
  <1>23. \A x \in Waiting' :
           /\ NewApproval(x) => x.row = NextId
           /\ NewCard(x) => x.row = NextId
           /\ NewCard(x) \/ NewApproval(x) => x.set.run \in UsedRuns \cup {NoRun}
    BY <1>1, <1>5, <1>11, <1>13
  <1>24. QED
    BY <1>4, <1>5, <1>12, <1>15, <1>16, <1>17, <1>18, <1>19, <1>20, <1>21, <1>22, <1>23, Found, Handled

(* EXECUTE and REJECT: the card may have to be made first; the plan may be *)
(* saved; the approval is decided if it is pending; the card is decided    *)
(* unless an error came before.                                            *)
LEMMA PlanDecided ==
  ASSUME SInv, NEW c \in Ids, OpenPlanCard(c), NEW a, a = CardOf(c).approval,
         NEW verdict \in {"approved", "rejected"}, NEW status \in CardStatus \ {"pending"},
         NEW m, m = AddCard(c, CardOf(c)),
         NEW sv, sv = SetCourse(a, course[a].saved + 1),
         NEW vd, vd = SetApproval(a, verdict),
         NEW dc, dc = SetCard(c, status),
         Fit(todo'), todo' # <<>>,
         \A x \in Waiting' : x \in {m, sv, vd, dc} \/ Ordinary(x),
         m \in Waiting' <=> ~HasCard(c),
         vd \in Waiting' <=> approvals[a].status = "pending",
         sv \in Waiting' => verdict = "approved",
         a \notin cut' => dc \in Waiting',
         handling' = a, cut \subseteq cut', cut' \subseteq cut \cup {a},
         UNCHANGED <<session, runs, cards, approvals, course, effects, ready, up, marking, turn, cli,
                     deciding, crashes, clis>>
  PROVE  SInv'
  <1>1. /\ todo = <<>> /\ a \in Ids /\ approvals[a].status # "absent" /\ cards[c].status = "pending"
        /\ c \in UsedIds
        /\ HasCard(c) => /\ c \in PendingCards /\ cards[a].kind # "absent"
                         /\ \A d \in PendingCards : cards[d].approval = a => d = c
        /\ ~HasCard(c) => /\ a = c /\ cards[c].kind = "absent"
                          /\ \A d \in Ids : cards[d].approval # a
        /\ a \notin cut => approvals[a].status = "pending" /\ course[a].saved = 0
        /\ CardOf(c).run \in UsedRuns \cup {NoRun}
    BY OpenPlans
  <1>2. ~HasCard(c) => /\ CardOf(c).kind = "plan" /\ CardOf(c).approval = c
                       /\ CardOf(c) \in CardRecords
    <2>1. approvals[c].run \in UsedRuns \cup {NoRun} /\ UsedRuns \subseteq RunIds
      BY Found DEF UsedRuns
    <2>2. PICK r : r = approvals[c].run
      OBVIOUS
    <2>3. r \in RunIds \cup {NoRun}
      BY <2>1, <2>2
    <2>4. /\ PlanCard(r, c, TRUE) \in CardRecords /\ PlanCard(r, c, TRUE).kind = "plan"
          /\ PlanCard(r, c, TRUE).approval = c
      BY <2>3, PlanCards
    <2>5. ~HasCard(c) => CardOf(c) = PlanCard(r, c, TRUE)
      BY <2>2 DEF CardOf
    <2>6. QED
      BY <2>4, <2>5
  <1>3. /\ m.row = c /\ m.set = CardOf(c) /\ (~HasCard(c) => NewCard(m))
        /\ sv.row = a /\ sv.set.saved = course[a].saved + 1 /\ CourseSave(sv)
        /\ vd.row = a /\ vd.set.status = verdict /\ Verdict(vd)
        /\ dc.row = c /\ CardDecision(dc)
    <2>1. m.row = c /\ m.set = CardOf(c) /\ (~HasCard(c) => NewCard(m))
      BY <1>2, Made DEF AddCard
    <2>2. sv.row = a /\ sv.set.saved = course[a].saved + 1 /\ CourseSave(sv)
      BY DEF SetCourse, CourseSave
    <2>3. vd.row = a /\ vd.set.status = verdict /\ Verdict(vd)
      BY <1>1, Made DEF SetApproval
    <2>4. dc.row = c /\ CardDecision(dc)
      BY Made DEF SetCard
    <2>5. QED
      BY <2>1, <2>2, <2>3, <2>4
  <1>4. \A x \in Waiting' : x \in Statements
    BY DEF Fit, Waiting, Elems
  <1>5. \A x \in Waiting' : /\ NewCard(x) => x = m /\ ~HasCard(c)
                            /\ CourseSave(x) => x = sv
                            /\ Verdict(x) => x = vd
                            /\ CardDecision(x) => x = dc
                            /\ ~NewApproval(x) /\ ~Reservation(x) /\ ~Completion(x)
    BY <1>3, <1>4, OneKind DEF Ordinary
  <1>6. HasCardSoon(a)' /\ HasCardSoon(c)'
    <2>1. CASE HasCard(c)
      BY <1>1, <2>1 DEF HasCardSoon, HasCard
    <2>2. CASE ~HasCard(c)
      BY <1>1, <1>3, <2>2 DEF HasCardSoon
    <2>3. QED
      BY <2>1, <2>2
  <1>7. a \notin cut' => a \notin cut
    OBVIOUS
  <1>8. course[a].saved \in Nat
    BY <1>1, Found
  <1>9. WaitInv'
    <2>1. ~HasCard(c) => NewCardOk(m)' /\ NewPlanCardOk(m)'
      <3>1. SUFFICES ASSUME ~HasCard(c) PROVE NewCardOk(m)' /\ NewPlanCardOk(m)'
        OBVIOUS
      <3>2. NewCardOk(m)'
        BY <1>1, <1>2, <1>3, <1>5, <3>1 DEF NewCardOk
      <3>3. approvals[a].status = "pending"
        BY <1>1, <3>1 DEF SInv, TableInv, ApprovalInv
      <3>4. \A d \in PendingCards' : cards'[d].approval # a
        BY <1>1, <3>1 DEF PendingCards
      <3>5. NewPlanCardOk(m)'
        BY <1>1, <1>2, <1>3, <3>1, <3>3, <3>4 DEF NewPlanCardOk
      <3>6. QED
        BY <3>2, <3>5
    <2>2. DecisionOk(dc)'
      BY <1>1, <1>3, <1>6 DEF DecisionOk
    <2>3. vd \in Waiting' => VerdictOk(vd)'
      <3>1. verdict = "rejected" => \A y \in Waiting' : ~CourseSave(y)
        BY <1>5
      <3>2. QED
        BY <1>1, <1>3, <1>6, <1>7, <3>1 DEF VerdictOk
    <2>4. sv \in Waiting' => SaveOk(sv)'
      <3>1. sv \in Waiting' /\ approvals[a].status = "pending" => Approves(a)'
        BY <1>3 DEF Approves
      <3>2. QED
        BY <1>1, <1>3, <1>6, <1>7, <3>1 DEF SaveOk
    <2>5. QED
      BY <1>5, <2>1, <2>2, <2>3, <2>4 DEF WaitInv
  <1>10. HandlingInv'
    <2>1. ASSUME a \notin cut'
          PROVE  /\ \A d \in PendingCards' : cards'[d].approval = a => Decides(d)'
                 /\ \A x \in Waiting' : NewCard(x) => Decides(x.row)'
      <3>1. Decides(c)'
        BY <1>3, <2>1 DEF Decides
      <3>2. \A d \in PendingCards' : cards'[d].approval = a => d = c
        BY <1>1 DEF PendingCards
      <3>3. \A x \in Waiting' : NewCard(x) => x.row = c
        BY <1>3, <1>5
      <3>4. QED
        BY <3>1, <3>2, <3>3
    <2>2. \A x \in Waiting' : NewCard(x) => x.row \in Ids
      BY <1>3, <1>5
    <2>3. QED
      BY <1>1, <2>1, <2>2 DEF HandlingInv
  <1>11. \A b \in cut' : approvals[b].status # "absent"
    BY <1>1 DEF SInv, TypeOK, TableInv, ApprovalInv
  <1>12. cut' \in SUBSET Ids /\ up' \in BOOLEAN /\ ready' \in BOOLEAN /\ marking' \subseteq UsedRuns
         /\ crashes' \in 0..MaxCrashes /\ clis' \in 0..MaxCli /\ handling' \in Ids \cup {NoId}
    BY <1>1, Found DEF SInv, TypeOK
  <1>13. UsedRuns \subseteq RunIds
    BY DEF UsedRuns
  <1>14. \A x \in Waiting' : /\ x.table = "runs" => x.row \in UsedRuns
                             /\ x.table = "session" => "latest" \notin DOMAIN x.set
    <2>1. \A x \in {sv, vd, dc} : x.table \notin {"runs", "session"}
      BY <1>3 DEF CourseSave, Verdict, CardDecision
    <2>2. m.table \notin {"runs", "session"}
      BY DEF AddCard
    <2>3. QED
      BY <2>1, <2>2 DEF Ordinary
  <1>15. Cardinality(UsedIds) + Cardinality(deciding') + Expected' + 0 <= MaxCards
    <2>1. Expected' = Expected /\ Expected \in Nat
      BY DEF Expected
    <2>2. QED
      BY <1>1, <2>1, Idle, IdFacts, BoundsAssumption
  <1>16. turn'.pc \in {"agent", "compact", "finish"} => turn'.run \in UsedRuns
    BY <1>1, Idle
  <1>17. \A x \in Waiting' :
           /\ ~NewApproval(x)
           /\ NewCard(x) => x.row # NextId /\ approvals[x.row].status # "absent"
           /\ NewCard(x) => x.set.run \in UsedRuns \cup {NoRun}
    <2>1. c # NextId
      BY <1>1, IdFacts
    <2>2. QED
      BY <1>1, <1>3, <1>5, <2>1
  <1>18. \A x \in Waiting' : ~((NewApproval(x) \/ NewCard(x)) /\ x.row = NextId)
    BY <1>17
  <1>19. QED
    BY <1>1, <1>9, <1>10, <1>11, <1>12, <1>13, <1>14, <1>15, <1>16, <1>17, <1>18, Found, Handled

(* A statement that may be left out.                                       *)
LEMMA AppendMaybe ==
  ASSUME NEW s, NEW x \in Statements, NEW needed \in BOOLEAN, NEW t,
         t = s \o (IF needed THEN <<x>> ELSE <<>>), Fit(s), \A y \in Elems(s) : Before(y, x)
  PROVE  Fit(t) /\ Elems(t) = Elems(s) \cup (IF needed THEN {x} ELSE {})
  <1>1. CASE needed
    <2>1. t = s \o <<x>>
      BY <1>1
    <2>2. Fit(t) /\ Elems(t) = Elems(s) \cup {x}
      BY <2>1, AppendFit
    <2>3. QED
      BY <1>1, <2>2
  <1>2. CASE ~needed
    <2>1. t = s
      BY <1>2 DEF Fit
    <2>2. QED
      BY <1>2, <2>1
  <1>3. QED
    BY <1>1, <1>2

LEMMA DecidedFit ==
  ASSUME SInv, NEW c \in Ids, NEW status \in CardStatus \ {"pending"},
         NEW stage \in {"completed", "cancelled"}, NEW s, Fit(s),
         CardOf(c).run \in UsedRuns \cup {NoRun},
         \A y \in Elems(s) : Before(y, SetCard(c, status))
  PROVE  /\ Fit(s \o DecidedRows(c, status, stage))
         /\ SetCard(c, status) \in Elems(s \o DecidedRows(c, status, stage))
         /\ \A x \in Elems(s \o DecidedRows(c, status, stage)) :
              x \in Elems(s) \/ x = SetCard(c, status) \/ Ordinary(x)
         /\ \A x \in Elems(s) : x \in Elems(s \o DecidedRows(c, status, stage))
  <1>1. PICK t : t = s \o DecidedRows(c, status, stage)
    OBVIOUS
  <1>2. PICK dc : dc = SetCard(c, status)
    OBVIOUS
  <1>3. PICK p : p = <<dc>>
    OBVIOUS
  <1>4. PICK u : u = RunRow(CardOf(c).run, [stage |-> stage, status |-> "completed"])
    OBVIOUS
  <1>5. PICK v : v = SessionIs("completed")
    OBVIOUS
  <1>6. dc \in Statements /\ \A y \in Elems(s) : Before(y, dc)
    BY <1>2, Made
  <1>7. u \in Seq(Upkeep) /\ v \in Seq(Upkeep)
    <2>1. [stage |-> stage, status |-> "completed"] \in RunSets
      BY DEF RunSets, Stages, RunStatus
    <2>2. QED
      BY <1>4, <1>5, <2>1, UpkeepRows DEF SessionStatus
  <1>8. u \in Seq(Statements) /\ v \in Seq(Statements) /\ p \in Seq(Statements) /\ s \in Seq(Statements)
    BY <1>3, <1>6, <1>7, UpkeepFit DEF Fit
  <1>9. t = s \o ((p \o u) \o v)
    BY <1>1, <1>2, <1>3, <1>4, <1>5 DEF DecidedRows, CardRow, SetCard
  <1>10. PICK q : q = s \o p
    OBVIOUS
  <1>11. PICK w : w = u \o v
    OBVIOUS
  <1>12. t = q \o w
    <2>1. PICK pu : pu = p \o u
      OBVIOUS
    <2>2. PICK pw : pw = p \o w
      OBVIOUS
    <2>3. pu \o v = pw
      BY <1>8, <1>11, <2>1, <2>2, Regroup
    <2>4. w \in Seq(Statements)
      BY <1>8, <1>11
    <2>5. q \o w = s \o pw
      BY <1>8, <1>10, <2>2, <2>4, Regroup
    <2>6. t = s \o (pu \o v)
      BY <1>9, <2>1
    <2>7. QED
      BY <2>3, <2>5, <2>6
  <1>13. Fit(q) /\ Elems(q) = Elems(s) \cup {dc}
    <2>1. q = s \o <<dc>>
      BY <1>3, <1>10
    <2>2. QED
      BY <1>6, <2>1, AppendFit
  <1>14. w \in Seq(Upkeep)
    BY <1>7, <1>11
  <1>15. Fit(q \o w) /\ Elems(q \o w) = Elems(q) \cup Elems(w)
    BY <1>13, <1>14, ThenUpkeep
  <1>16. QED
    BY <1>1, <1>2, <1>12, <1>13, <1>14, <1>15, OrdinaryRows

LEMMA MissingCardFit ==
  ASSUME SInv, NEW c \in Ids, OpenPlanCard(c), NEW m, m = AddCard(c, CardOf(c))
  PROVE  /\ Fit(MissingCard(c)) /\ Elems(MissingCard(c)) = (IF HasCard(c) THEN {} ELSE {m})
         /\ ~HasCard(c) => m \in Statements /\ NewCard(m) /\ m.row = c
  <1>1. CASE HasCard(c)
    BY <1>1, EmptyFit DEF MissingCard
  <1>2. CASE ~HasCard(c)
    <2>1. PICK r : r = approvals[c].run
      OBVIOUS
    <2>2. r \in RunIds \cup {NoRun}
      BY <2>1, Found DEF UsedRuns
    <2>3. CardOf(c) = PlanCard(r, c, TRUE)
      BY <1>2, <2>1 DEF CardOf
    <2>4. m \in Statements /\ NewCard(m)
      BY <2>2, <2>3, PlanCards, Made
    <2>5. MissingCard(c) = <<m>> /\ m.row = c
      BY <1>2 DEF MissingCard, CardRow, AddCard
    <2>6. QED
      BY <1>2, <2>4, <2>5, SingleFit
  <1>3. QED
    BY <1>1, <1>2

LEMMA Rejected ==
  ASSUME SInv, NEW c \in Ids, Reject(c)
  PROVE  SInv'
  <1>1. PICK a : a = CardOf(c).approval
    OBVIOUS
  <1>2. PICK m : m = AddCard(c, CardOf(c))
    OBVIOUS
  <1>3. PICK sv : sv = SetCourse(a, course[a].saved + 1)
    OBVIOUS
  <1>4. PICK vd : vd = SetApproval(a, "rejected")
    OBVIOUS
  <1>5. PICK dc : dc = SetCard(c, "rejected")
    OBVIOUS
  <1>6. OpenPlanCard(c) /\ handling' = a /\ cut' = cut
        /\ UNCHANGED <<session, runs, cards, approvals, course, effects, ready, up, marking, turn, cli,
                       deciding, crashes, clis>>
    BY <1>1 DEF Reject, tables, bounds
  <1>7. a \in Ids /\ CardOf(c).run \in UsedRuns \cup {NoRun}
    BY <1>1, <1>6, OpenPlans
  <1>8. PICK s1 : s1 = MissingCard(c)
    OBVIOUS
  <1>9. /\ Fit(s1) /\ Elems(s1) = (IF HasCard(c) THEN {} ELSE {m})
        /\ ~HasCard(c) => m \in Statements /\ NewCard(m) /\ m.row = c
    BY <1>2, <1>6, <1>8, MissingCardFit
  <1>10. /\ vd \in Statements /\ Verdict(vd) /\ dc \in Statements /\ CardDecision(dc) /\ dc.row = c
    BY <1>4, <1>5, <1>7, Made DEF CardStatus, SetCard
  <1>11. PICK needed \in BOOLEAN : needed <=> approvals[a].status = "pending"
    OBVIOUS
  <1>12. PICK s2 : s2 = s1 \o (IF needed THEN <<vd>> ELSE <<>>)
    OBVIOUS
  <1>13. Fit(s2) /\ Elems(s2) = Elems(s1) \cup (IF needed THEN {vd} ELSE {})
    <2>1. \A y \in Elems(s1) : Before(y, vd)
      BY <1>9, <1>10 DEF Before
    <2>2. QED
      BY <1>9, <1>10, <1>12, <2>1, AppendMaybe
  <1>14. todo' = s2 \o DecidedRows(c, "rejected", "cancelled")
    BY <1>1, <1>4, <1>8, <1>11, <1>12 DEF Reject, DecideApproval, ApprovalRow, SetApproval
  <1>15. \A y \in Elems(s2) : Before(y, dc)
    BY <1>9, <1>10, <1>13 DEF Before
  <1>16. /\ Fit(todo') /\ dc \in Waiting'
         /\ \A x \in Waiting' : x \in Elems(s2) \/ x = dc \/ Ordinary(x)
         /\ \A x \in Elems(s2) : x \in Waiting'
    <2>1. PICK t : t = todo'
      OBVIOUS
    <2>2. PICK status \in CardStatus \ {"pending"} : status = "rejected"
      BY DEF CardStatus
    <2>3. PICK stage \in {"completed", "cancelled"} : stage = "cancelled"
      OBVIOUS
    <2>4. t = s2 \o DecidedRows(c, status, stage) /\ dc = SetCard(c, status)
      BY <1>5, <1>14, <2>1, <2>2, <2>3
    <2>5. Fit(s2) /\ (\A y \in Elems(s2) : Before(y, dc)) /\ CardOf(c).run \in UsedRuns \cup {NoRun}
      BY <1>7, <1>13, <1>15
    <2>6. /\ Fit(t) /\ dc \in Elems(t)
          /\ \A x \in Elems(t) : x \in Elems(s2) \/ x = dc \/ Ordinary(x)
          /\ \A x \in Elems(s2) : x \in Elems(t)
      BY <1>7, <1>13, <1>15, <2>4, <2>5, DecidedFit
    <2>7. QED
      BY <2>1, <2>6 DEF Waiting
  <1>17. todo' # <<>>
    BY <1>16, EmptyFit DEF Waiting
  <1>18. \A x \in Waiting' : x \in {m, sv, vd, dc} \/ Ordinary(x)
    BY <1>9, <1>13, <1>16
  <1>19. ~Ordinary(vd) /\ ~Ordinary(dc) /\ ~Ordinary(sv) /\ ~Ordinary(m)
    BY <1>2, <1>3, <1>4, <1>5 DEF Ordinary, Plain, SetApproval, SetCard, SetCourse, AddCard
  <1>20. /\ m.table = "cards" /\ sv.table = "course" /\ vd.table = "approvals"
         /\ m # dc
    <2>1. m.table = "cards" /\ sv.table = "course" /\ vd.table = "approvals"
      BY <1>2, <1>3, <1>4 DEF SetApproval, SetCourse, AddCard
    <2>2. "next" \in DOMAIN CardOf(c)
      BY <1>6, Found DEF CardOf, PlanCard, CardRows
    <2>3. m.set = CardOf(c) /\ "next" \notin DOMAIN dc.set
      BY <1>2, <1>5 DEF AddCard, SetCard
    <2>4. QED
      BY <2>1, <2>2, <2>3
  <1>21. dc.table = "cards"
    BY <1>5 DEF SetCard
  <1>22. /\ m \in Waiting' <=> ~HasCard(c)
         /\ vd \in Waiting' <=> approvals[a].status = "pending"
         /\ sv \notin Waiting'
    BY <1>9, <1>11, <1>13, <1>16, <1>19, <1>20, <1>21
  <1>23. QED
    BY <1>1, <1>2, <1>3, <1>4, <1>5, <1>6, <1>16, <1>17, <1>18, <1>22, PlanDecided DEF CardStatus

LEMMA Executed ==
  ASSUME SInv, NEW c \in Ids, NEW planned \in BOOLEAN, Execute(c, planned)
  PROVE  SInv'
  <1>1. PICK a : a = CardOf(c).approval
    OBVIOUS
  <1>2. PICK m : m = AddCard(c, CardOf(c))
    OBVIOUS
  <1>3. PICK sv : sv = SetCourse(a, course[a].saved + 1)
    OBVIOUS
  <1>4. PICK vd : vd = SetApproval(a, "approved")
    OBVIOUS
  <1>5. PICK status \in CardStatus \ {"pending"} : status = "completed"
    BY DEF CardStatus
  <1>6. PICK stage \in {"completed", "cancelled"} : stage = "completed"
    OBVIOUS
  <1>7. PICK dc : dc = SetCard(c, status)
    OBVIOUS
  <1>8. OpenPlanCard(c) /\ course[a].saved < MaxSaves
        /\ handling' = a /\ cut' = (IF planned THEN cut ELSE cut \cup {a})
        /\ UNCHANGED <<session, runs, cards, approvals, course, effects, ready, up, marking, turn, cli,
                       deciding, crashes, clis>>
    BY <1>1 DEF Execute, tables, bounds
  <1>9. a \in Ids /\ CardOf(c).run \in UsedRuns \cup {NoRun}
    BY <1>1, <1>8, OpenPlans
  <1>10. PICK s1 : s1 = MissingCard(c)
    OBVIOUS
  <1>11. /\ Fit(s1) /\ Elems(s1) = (IF HasCard(c) THEN {} ELSE {m})
         /\ ~HasCard(c) => m \in Statements /\ NewCard(m) /\ m.row = c
    BY <1>2, <1>8, <1>10, MissingCardFit
  <1>12. /\ sv \in Statements /\ CourseSave(sv)
         /\ vd \in Statements /\ Verdict(vd) /\ dc \in Statements /\ CardDecision(dc) /\ dc.row = c
    <2>1. course[a].saved + 1 \in 0..MaxSaves
      <3>1. course[a].saved \in 0..MaxSaves
        BY <1>9, Found
      <3>2. QED
        BY <1>8, <3>1, BoundsAssumption
    <2>2. sv \in Statements /\ CourseSave(sv)
      BY <1>3, <1>9, <2>1, Made
    <2>3. vd \in Statements /\ Verdict(vd)
      BY <1>4, <1>9, Made
    <2>4. dc \in Statements /\ CardDecision(dc) /\ dc.row = c
      BY <1>7, Made DEF SetCard
    <2>5. QED
      BY <2>2, <2>3, <2>4
  <1>13. PICK needed \in BOOLEAN : needed <=> approvals[a].status = "pending"
    OBVIOUS
  <1>14. PICK s2 : s2 = s1 \o <<sv>>
    OBVIOUS
  <1>15. PICK s3 : s3 = s2 \o (IF needed THEN <<vd>> ELSE <<>>)
    OBVIOUS
  <1>16. Fit(s2) /\ Elems(s2) = Elems(s1) \cup {sv}
    <2>1. \A y \in Elems(s1) : Before(y, sv)
      BY <1>11, <1>12 DEF Before
    <2>2. QED
      BY <1>11, <1>12, <1>14, <2>1, AppendFit
  <1>17. Fit(s3) /\ Elems(s3) = Elems(s2) \cup (IF needed THEN {vd} ELSE {})
    <2>1. \A y \in Elems(s2) : Before(y, vd)
      BY <1>11, <1>12, <1>16 DEF Before
    <2>2. QED
      BY <1>12, <1>15, <1>16, <2>1, AppendMaybe
  <1>18. s3 = MissingCard(c) \o ApplyRows(a)
    <2>1. PICK p : p = <<sv>>
      OBVIOUS
    <2>2. PICK v : v = IF needed THEN <<vd>> ELSE <<>>
      OBVIOUS
    <2>3. PICK pv : pv = p \o v
      OBVIOUS
    <2>4. p \in Seq(Statements) /\ v \in Seq(Statements) /\ s1 \in Seq(Statements)
      <3>1. p \in Seq(Statements)
        BY <1>12, <2>1
      <3>2. v \in Seq(Statements)
        BY <1>12, <2>2
      <3>3. s1 \in Seq(Statements)
        BY <1>11 DEF Fit
      <3>4. QED
        BY <3>1, <3>2, <3>3
    <2>5. s2 = s1 \o p /\ s3 = s2 \o v
      BY <1>14, <1>15, <2>1, <2>2
    <2>6. s3 = s1 \o pv
      BY <2>3, <2>4, <2>5, Regroup
    <2>7. ApplyRows(a) = pv
      BY <1>3, <1>4, <1>13, <2>1, <2>2, <2>3
         DEF ApplyRows, CourseRow, SetCourse, DecideApproval, ApprovalRow, SetApproval
    <2>8. QED
      BY <1>10, <2>6, <2>7
  <1>19. todo' = s3 \o (IF planned THEN DecidedRows(c, status, stage) ELSE <<>>)
    BY <1>1, <1>5, <1>6, <1>18 DEF Execute
  <1>20. \A y \in Elems(s3) : Before(y, dc)
    BY <1>11, <1>12, <1>16, <1>17 DEF Before
  <1>21. /\ Fit(todo')
         /\ planned => dc \in Waiting'
         /\ \A x \in Waiting' : x \in Elems(s3) \/ x = dc \/ Ordinary(x)
         /\ \A x \in Elems(s3) : x \in Waiting'
    <2>1. CASE planned
      <3>1. PICK t : t = todo'
        OBVIOUS
      <3>2. t = s3 \o DecidedRows(c, status, stage)
        BY <1>19, <2>1, <3>1
      <3>3. /\ Fit(t) /\ dc \in Elems(t)
            /\ \A x \in Elems(t) : x \in Elems(s3) \/ x = dc \/ Ordinary(x)
            /\ \A x \in Elems(s3) : x \in Elems(t)
        BY <1>7, <1>9, <1>17, <1>20, <3>2, DecidedFit
      <3>4. QED
        BY <3>1, <3>3 DEF Waiting
    <2>2. CASE ~planned
      <3>1. todo' = s3
        BY <1>17, <1>19, <2>2 DEF Fit
      <3>2. QED
        BY <1>17, <2>2, <3>1 DEF Waiting
    <2>3. QED
      BY <2>1, <2>2
  <1>22. sv \in Waiting' /\ todo' # <<>>
    <2>1. sv \in Waiting'
      BY <1>16, <1>17, <1>21
    <2>2. QED
      BY <2>1, EmptyFit DEF Waiting
  <1>23. \A x \in Waiting' : x \in {m, sv, vd, dc} \/ Ordinary(x)
    BY <1>11, <1>16, <1>17, <1>21
  <1>24. ~Ordinary(vd) /\ ~Ordinary(m)
    BY <1>2, <1>4 DEF Ordinary, Plain, SetApproval, AddCard
  <1>25. m.table = "cards" /\ sv.table = "course" /\ vd.table = "approvals" /\ dc.table = "cards" /\ m # dc
    <2>1. m.table = "cards" /\ sv.table = "course" /\ vd.table = "approvals" /\ dc.table = "cards"
      BY <1>2, <1>3, <1>4, <1>7 DEF SetApproval, SetCourse, AddCard, SetCard
    <2>2. "next" \in DOMAIN CardOf(c)
      BY <1>8, Found DEF CardOf, PlanCard, CardRows
    <2>3. m.set = CardOf(c) /\ "next" \notin DOMAIN dc.set
      BY <1>2, <1>7 DEF AddCard, SetCard
    <2>4. QED
      BY <2>1, <2>2, <2>3
  <1>26. /\ m \in Waiting' <=> ~HasCard(c)
         /\ vd \in Waiting' <=> approvals[a].status = "pending"
    BY <1>11, <1>13, <1>16, <1>17, <1>21, <1>24, <1>25
  <1>27. /\ a \notin cut' => dc \in Waiting'
         /\ cut \subseteq cut' /\ cut' \subseteq cut \cup {a}
    BY <1>8, <1>21
  <1>28. QED
    BY <1>1, <1>2, <1>3, <1>4, <1>7, <1>8, <1>21, <1>22, <1>23, <1>26, <1>27, PlanDecided

LEMMA Decided ==
  ASSUME SInv, Decide
  PROVE  SInv'
  BY CardSettled, NextStepTaken, Executed, Rejected DEF Decide

-----------------------------------------------------------------------------
(* A planner that a decision awaits returns.                               *)
LEMMA OneLessDecides ==
  ASSUME SInv, NEW d \in deciding
  PROVE  /\ deciding \ {d} \in SUBSET [card : Ids, reason : Reasons]
         /\ IsFiniteSet(deciding \ {d})
         /\ Cardinality(deciding \ {d}) = Cardinality(deciding) - 1
         /\ d.card \in Ids /\ d.reason \in Reasons
  BY Found, FS_RemoveElement

LEMMA PlannerReturned ==
  ASSUME SInv, PlannerReturns
  PROVE  SInv'
  <1>1. PICK d \in deciding : \/ \E p \in Plans : CheckpointProposes(d, p) \/ RevisionProposes(d, p)
                              \/ DecisionFails(d)
    BY DEF PlannerReturns
  <1>2. /\ todo = <<>> /\ deciding' = deciding \ {d}
        /\ UNCHANGED <<session, runs, cards, approvals, course, effects, ready, up, marking, turn, cli,
                       handling, cut, crashes, clis>>
    BY <1>1 DEF CheckpointProposes, RevisionProposes, DecisionFails, LoopFree, tables, bounds
  <1>3. /\ deciding' \in SUBSET [card : Ids, reason : Reasons] /\ IsFiniteSet(deciding')
        /\ Expected' = Expected /\ Expected \in Nat
        /\ Cardinality(UsedIds) + Cardinality(deciding') + Expected' + 1 <= MaxCards
        /\ Cardinality(UsedIds) + Cardinality(deciding') + Expected' <= MaxCards
        /\ turn'.pc \in {"agent", "compact", "finish"} => turn'.run \in UsedRuns
        /\ d.card \in Ids /\ d.reason \in Reasons
    <2>1. /\ deciding' \in SUBSET [card : Ids, reason : Reasons] /\ IsFiniteSet(deciding')
          /\ Cardinality(deciding') = Cardinality(deciding) - 1
          /\ d.card \in Ids /\ d.reason \in Reasons
      BY <1>2, OneLessDecides
    <2>2. Expected' = Expected /\ Expected \in Nat
      BY <1>2 DEF Expected
    <2>3. /\ Cardinality(UsedIds) + Cardinality(deciding') + Expected' + 1 <= MaxCards
          /\ Cardinality(UsedIds) + Cardinality(deciding') + Expected' <= MaxCards
      BY <1>2, <2>1, <2>2, Idle, IdFacts, BoundsAssumption
    <2>4. turn'.pc \in {"agent", "compact", "finish"} => turn'.run \in UsedRuns
      BY <1>2, Idle
    <2>5. QED
      BY <2>1, <2>2, <2>3, <2>4
  <1>4. ASSUME NEW s \in Seq(Upkeep), todo' = s PROVE SInv'
    BY <1>2, <1>3, <1>4, Found, QuietlyHandled
  <1>5. ASSUME NEW k \in Keys, IsNewProposal(k), NEW s \in Seq(Upkeep), todo' = ProposalRows(k, NoRun) \o s
        PROVE  SInv'
    <2>1. PICK r \in UsedRuns \cup {NoRun} : r = NoRun
      OBVIOUS
    <2>2. todo' = ProposalRows(k, r) \o s
      BY <1>5, <2>1
    <2>3. QED
      BY <1>2, <1>3, <1>5, <2>2, Found, Proposed
  <1>6. <<>> \in Seq(Upkeep)
    OBVIOUS
  <1>7. CASE DecisionFails(d)
    BY <1>2, <1>4, <1>6, <1>7 DEF DecisionFails
  <1>8. ASSUME NEW p \in Plans, CheckpointProposes(d, p) PROVE SInv'
    <2>1. PICK k : k = ProposalKey(p, d.reason)
      OBVIOUS
    <2>2. k \in Keys
      BY <1>3, <2>1, ProposalKeys
    <2>3. todo' = IF IsNewProposal(k) THEN ProposalRows(k, NoRun) ELSE <<>>
      BY <1>8, <2>1 DEF CheckpointProposes
    <2>4. CASE IsNewProposal(k)
      <3>1. PICK n : n = NextId
        OBVIOUS
      <3>2. n \in Ids
        BY <1>2, <1>3, <3>1, IdFacts, FS_CardinalityType, BoundsAssumption DEF NextId, Ids
      <3>3. ProposalRows(k, NoRun) \in Seq(Statements)
        BY <2>2, <3>1, <3>2, ProposalFit DEF Fit
      <3>4. todo' = ProposalRows(k, NoRun) \o <<>>
        BY <2>3, <2>4, <3>3
      <3>5. QED
        BY <1>5, <1>6, <2>2, <2>4, <3>4
    <2>5. CASE ~IsNewProposal(k)
      BY <1>4, <1>6, <2>3, <2>5
    <2>6. QED
      BY <2>4, <2>5
  <1>9. ASSUME NEW p \in Plans, RevisionProposes(d, p) PROVE SInv'
    <2>1. PICK k : k = ProposalKey(p, d.reason)
      OBVIOUS
    <2>2. k \in Keys
      BY <1>3, <2>1, ProposalKeys
    <2>3. PICK s : s = RunRow(cards[d.card].run, [stage |-> "awaiting_action", status |-> "running"])
      OBVIOUS
    <2>4. s \in Seq(Upkeep)
      <3>1. [stage |-> "awaiting_action", status |-> "running"] \in RunSets
        BY DEF RunSets, Stages, RunStatus
      <3>2. cards[d.card].run \in UsedRuns \cup {NoRun}
        BY <1>3, Found
      <3>3. QED
        BY <2>3, <3>1, <3>2, UpkeepRows
    <2>5. todo' = (IF IsNewProposal(k) THEN ProposalRows(k, NoRun) ELSE <<>>) \o s
      BY <1>9, <2>1, <2>3 DEF RevisionProposes
    <2>6. CASE IsNewProposal(k)
      BY <1>5, <2>2, <2>4, <2>5, <2>6
    <2>7. CASE ~IsNewProposal(k)
      <3>1. todo' = s
        BY <2>4, <2>5, <2>7
      <3>2. QED
        BY <1>4, <2>4, <3>1
    <2>8. QED
      BY <2>6, <2>7
  <1>10. QED
    BY <1>1, <1>7, <1>8, <1>9

-----------------------------------------------------------------------------
(* Death, restart and the other process.                                   *)
LEMMA Crashed ==
  ASSUME SInv, Crash
  PROVE  SInv'
  <1>1. /\ crashes < MaxCrashes /\ crashes' = crashes + 1 /\ up' = FALSE
        /\ cut' = cut \cup ({handling} \ {NoId})
        /\ todo' = <<>> /\ marking' = {} /\ turn' = NoTurn /\ deciding' = {} /\ handling' = NoId
        /\ UNCHANGED <<session, runs, cards, approvals, course, effects, ready, cli, clis>>
    BY DEF Crash, tables
  <1>2. Waiting' = {} /\ Fit(todo')
    BY <1>1, EmptyFit DEF Waiting
  <1>3. UsedIds' = UsedIds /\ UsedRuns' = UsedRuns /\ NextId' = NextId /\ PendingCards' = PendingCards
    BY <1>1 DEF UsedIds, UsedRuns, NextId, PendingCards
  <1>4. handling \in Ids \cup {NoId} /\ (handling # NoId => approvals[handling].status # "absent")
    BY DEF SInv, TypeOK, TableInv, HandlingInv
  <1>5. TypeOK'
    <2>1. NoTurn \in TurnRecords
      BY DEF NoTurn, TurnRecords
    <2>2. crashes' \in 0..MaxCrashes
      BY <1>1, BoundsAssumption DEF SInv, TypeOK
    <2>3. cut' \in SUBSET Ids
      BY <1>1, <1>4 DEF SInv, TypeOK
    <2>4. \A i \in 1..Len(todo') :
            todo'[i].table \in {"session", "runs", "cards", "approvals", "course", "effects"}
      BY <1>2, TodoTables
    <2>5. QED
      BY <1>1, <2>1, <2>2, <2>3, <2>4 DEF SInv, TypeOK, TurnRecords
  <1>6. TableInv'
    <2>1. CardInv' /\ OneCardPerProposal'
      BY <1>1 DEF SInv, TableInv, CardInv, OneCardPerProposal
    <2>2. ApprovalInv'
      BY <1>1, <1>4 DEF SInv, TableInv, ApprovalInv
    <2>3. WaitInv' /\ HandlingInv'
      BY <1>1, <1>2 DEF WaitInv, HandlingInv
    <2>4. SavedInv'
      <3>1. ASSUME NEW a \in Ids \ cut' PROVE a \in Ids \ cut /\ ~Approves(a)
        <4>1. a \in Ids \ cut /\ a # handling
          BY <1>1, <1>4, Bounds
        <4>2. \A z \in Waiting : Verdict(z) => z.row = handling
          BY DEF SInv, TableInv, WaitInv, VerdictOk
        <4>3. QED
          BY <4>1, <4>2 DEF Approves
      <3>2. QED
        BY <1>1, <3>1 DEF SInv, TableInv, SavedInv
    <2>5. PendingCardOwnsItsApproval'
      <3>1. \A c \in PendingCards : cards[c].kind = "plan" => cards[c].approval \in Ids
        BY DEF SInv, TableInv, CardInv, PendingCards
      <3>2. \A a \in Ids : a \notin cut' => a \notin cut \cup {handling}
        BY <1>1, Bounds
      <3>3. QED
        BY <1>1, <1>3, <3>1, <3>2 DEF SInv, TableInv, PendingCardOwnsItsApproval
    <2>6. QED
      BY <2>1, <2>2, <2>3, <2>4, <2>5 DEF TableInv
  <1>7. IdInv'
    <2>1. ~Inserting' /\ Expected' = 0
      BY <1>1, <1>2 DEF Inserting, Expected, NoTurn
    <2>2. IsFiniteSet(deciding') /\ Cardinality(deciding') = 0
      BY <1>1, FS_EmptySet
    <2>3. Cardinality(UsedIds) <= MaxCards
      <3>1. UsedIds \subseteq Ids /\ Cardinality(Ids) = MaxCards
        BY FS_Interval, BoundsAssumption DEF UsedIds, Ids
      <3>2. QED
        BY <3>1, Bounds, FS_Subset
    <2>4. UsedIds' = 1..Cardinality(UsedIds')
      BY <1>3 DEF SInv, IdInv
    <2>5. Cardinality(UsedIds') + Cardinality(deciding') + Expected'
            + (IF Inserting' THEN 1 ELSE 0) <= MaxCards
      BY <1>3, <2>1, <2>2, <2>3, IdFacts, BoundsAssumption
    <2>6. QED
      BY <1>2, <2>2, <2>4, <2>5 DEF IdInv
  <1>8. RunInv'
    <2>1. \A c \in Ids : /\ cards'[c].run \in UsedRuns' \cup {NoRun}
                         /\ approvals'[c].run \in UsedRuns' \cup {NoRun}
      BY <1>1, <1>3 DEF SInv, RunInv
    <2>2. cli' \subseteq UsedRuns' /\ marking' \subseteq UsedRuns'
      BY <1>1, <1>3 DEF SInv, RunInv
    <2>3. turn'.pc = "none"
      BY <1>1 DEF NoTurn
    <2>4. QED
      BY <1>2, <2>1, <2>2, <2>3 DEF RunInv
  <1>9. QED
    BY <1>2, <1>5, <1>6, <1>7, <1>8 DEF SInv, StatementInv

(* What does not touch this process, its statements or any card.           *)
LEMMA Apart ==
  ASSUME SInv,
         UNCHANGED <<cards, approvals, course, effects, ready, todo, turn, deciding, handling, cut, crashes>>,
         session' \in SessionRows, session'.latest = session.latest,
         runs' \in [RunIds -> RunRows], UsedRuns' = UsedRuns,
         up' \in BOOLEAN, marking' \subseteq UsedRuns, cli' \subseteq UsedRuns, clis' \in 0..MaxCli
  PROVE  SInv'
  <1>1. UsedIds' = UsedIds /\ NextId' = NextId /\ PendingCards' = PendingCards /\ Waiting' = Waiting
    BY DEF UsedIds, NextId, PendingCards, Waiting
  <1>2. TypeOK'
    <2>1. marking' \in SUBSET RunIds /\ cli' \in SUBSET RunIds
      BY DEF UsedRuns
    <2>2. QED
      BY <2>1 DEF SInv, TypeOK, SessionRows, RunRows
  <1>3. StatementInv'
    BY DEF SInv, StatementInv
  <1>4. TableInv'
    <2>1. CardInv' /\ ApprovalInv' /\ OneCardPerProposal' /\ PendingCardOwnsItsApproval'
      BY <1>1 DEF SInv, TableInv, CardInv, ApprovalInv, OneCardPerProposal, PendingCardOwnsItsApproval
    <2>2. /\ \A c : Decides(c)' = Decides(c)
          /\ \A a : Approves(a)' = Approves(a)
          /\ \A a : Gets(a)' = Gets(a)
          /\ \A a : HasCardSoon(a)' = HasCardSoon(a)
      BY <1>1 DEF Decides, Approves, Gets, HasCardSoon
    <2>3. SavedInv' /\ HandlingInv'
      BY <1>1, <2>2 DEF SInv, TableInv, SavedInv, HandlingInv
    <2>4. /\ \A x : NewCardOk(x)' = NewCardOk(x)
          /\ \A x : NewPlanCardOk(x)' = NewPlanCardOk(x)
          /\ \A x : DecisionOk(x)' = DecisionOk(x)
          /\ \A x : NewApprovalOk(x)' = NewApprovalOk(x)
          /\ \A x : VerdictOk(x)' = VerdictOk(x)
          /\ \A x : SaveOk(x)' = SaveOk(x)
          /\ \A x : CompletionOk(x)' = CompletionOk(x)
      BY <1>1, <2>2 DEF NewCardOk, NewPlanCardOk, DecisionOk, NewApprovalOk, VerdictOk, SaveOk, CompletionOk
    <2>5. WaitInv'
      BY <1>1, <2>4 DEF SInv, TableInv, WaitInv
    <2>6. QED
      BY <2>1, <2>3, <2>5 DEF TableInv
  <1>5. IdInv'
    <2>1. Inserting' = Inserting /\ Expected' = Expected
      BY <1>1 DEF Inserting, Expected
    <2>2. QED
      BY <1>1, <2>1 DEF SInv, IdInv
  <1>6. RunInv'
    <2>1. CreatesRun' = CreatesRun
      BY DEF CreatesRun
    <2>2. QED
      BY <1>1, <2>1 DEF SInv, RunInv
  <1>7. QED
    BY <1>2, <1>3, <1>4, <1>5, <1>6 DEF SInv

LEMMA OthersKeep ==
  ASSUME SInv, Restart \/ StartCli \/ (\E r \in RunIds : CliMarks(r)) \/ UNCHANGED vars
  PROVE  SInv'
  <1>1. Interrupted \subseteq UsedRuns
    BY DEF Interrupted, UsedRuns
  <1>2. cli \subseteq UsedRuns /\ marking \subseteq UsedRuns /\ up \in BOOLEAN /\ clis \in 0..MaxCli
        /\ session \in SessionRows /\ runs \in [RunIds -> RunRows]
    BY Found DEF SInv, RunInv, TypeOK
  <1>3. UNCHANGED runs => UsedRuns' = UsedRuns
    BY DEF UsedRuns
  <1>4. CASE Restart
    BY <1>1, <1>2, <1>3, <1>4, Apart DEF Restart, tables, bounds
  <1>5. CASE StartCli
    <2>1. clis' \in 0..MaxCli
      BY <1>2, <1>5, BoundsAssumption DEF StartCli
    <2>2. QED
      BY <1>1, <1>2, <1>3, <1>5, <2>1, Apart DEF StartCli, tables
  <1>6. ASSUME NEW r \in RunIds, CliMarks(r) PROVE SInv'
    <2>1. r \in UsedRuns /\ cli' \subseteq UsedRuns
      BY <1>2, <1>6 DEF CliMarks, IsOldest
    <2>2. /\ MarkedRun(r) \in RunSets /\ MarkedSession(r) \in SessionStatus
      BY DEF MarkedRun, MarkedSession, RunSets, Stages, RunStatus, SessionStatus
    <2>3. PICK row : row = Merge(runs[r], MarkedRun(r))
      OBVIOUS
    <2>4. row \in RunRows /\ row.status # "absent"
      <3>1. runs[r] \in RunRows /\ runs[r].status # "absent"
        BY <1>2, <2>1 DEF UsedRuns
      <3>2. QED
        BY <2>2, <2>3, <3>1, MergeRun
    <2>5. runs' = [runs EXCEPT ![r] = row]
      BY <1>6, <2>3 DEF CliMarks
    <2>6. runs' \in [RunIds -> RunRows] /\ UsedRuns' = UsedRuns
      BY <1>2, <2>1, <2>4, <2>5 DEF UsedRuns
    <2>7. session' \in SessionRows /\ session'.latest = session.latest
      BY <1>2, <1>6, <2>2 DEF CliMarks, SessionRows
    <2>8. QED
      BY <1>2, <1>6, <2>1, <2>6, <2>7, Apart DEF CliMarks, bounds
  <1>7. CASE UNCHANGED vars
    BY <1>2, <1>3, <1>7, Apart DEF vars, tables, bounds
  <1>8. QED
    BY <1>4, <1>5, <1>6, <1>7

-----------------------------------------------------------------------------
LEMMA NextKeeps ==
  ASSUME SInv, [Next]_vars
  PROVE  SInv'
  <1>1. CASE Write
    BY <1>1, WriteKeeps
  <1>2. CASE (\E text \in Texts : Submit(text)) \/ Retry
    BY <1>2, Submitted
  <1>3. CASE StartTurns
    BY <1>3, TurnStarts DEF StartTurns
  <1>4. CASE FillGoal
    BY <1>4, GoalFilled
  <1>5. CASE AgentReturns
    BY <1>5, AgentReturned
  <1>6. CASE Compacted \/ FinishTurn
    BY <1>6, TurnEnds
  <1>7. CASE Decide
    BY <1>7, Decided
  <1>8. CASE PlannerReturns
    BY <1>8, PlannerReturned
  <1>9. CASE Crash
    BY <1>9, Crashed
  <1>10. CASE Marks
    BY <1>10, Marked DEF Marks
  <1>11. CASE Restart \/ StartCli \/ (\E r \in RunIds : CliMarks(r)) \/ UNCHANGED vars
    BY <1>11, OthersKeep
  <1>12. QED
    BY <1>1, <1>2, <1>3, <1>4, <1>5, <1>6, <1>7, <1>8, <1>9, <1>10, <1>11 DEF Next

(* In every state of every run the tables and the waiting statements fit   *)
(* together as the inductive invariant says.                               *)
THEOREM Invariance == Spec => []SInv
  BY InitSInv, NextKeeps, PTL DEF Spec

(* Every variable keeps its type, the bounded counters their bounds.       *)
THEOREM TypeCorrect == Spec => []TypeOK
  <1>1. SInv => TypeOK
    BY DEF SInv
  <1>2. QED
    BY <1>1, Invariance, PTL

(* Unless its decision was cut short, a plan is saved to course.json at    *)
(* most once, never when it was rejected, and is approved when the         *)
(* decision is over (decide_action).                                       *)
THEOREM PlansAppliedOnce == Spec => []UncutPlansAppliedOnce
  <1>1. SInv => UncutPlansAppliedOnce
    <2>1. ASSUME SInv, NEW a \in Ids, a # handling PROVE ~Approves(a)
      BY <2>1 DEF SInv, TableInv, WaitInv, VerdictOk, Approves
    <2>2. QED
      BY <2>1 DEF SInv, TableInv, SavedInv, UncutPlansAppliedOnce
  <1>2. QED
    BY <1>1, Invariance, PTL

(* A proposal makes at most one approval, and a completed ledger row names *)
(* an approval of that proposal whose card exists (ProposeCoursePlan).     *)
THEOREM ProposalsMakeOneCard == Spec => []OneCardPerProposal
  <1>1. SInv => OneCardPerProposal
    BY DEF SInv, TableInv
  <1>2. QED
    BY <1>1, Invariance, PTL

(* A pending plan card's approval is pending, too, and no other pending    *)
(* card stands for it (decide_action, NEXT).                               *)
THEOREM PendingCardsOwnTheirApprovals == Spec => []PendingCardOwnsItsApproval
  <1>1. SInv => PendingCardOwnsItsApproval
    BY DEF SInv, TableInv
  <1>2. QED
    BY <1>1, Invariance, PTL

(* No step opens a decided card or approval again.                         *)
LEMMA StepsKeepDecisions ==
  ASSUME SInv, [Next]_vars, NEW c \in Ids
  PROVE  /\ HasCard(c) /\ cards[c].status # "pending" => cards'[c] = cards[c]
         /\ approvals[c].status \in {"approved", "rejected"} => approvals'[c] = approvals[c]
  <1>1. CASE WriteCard
    <2>1. Issue("cards") /\ approvals' = approvals
          /\ cards' = [cards EXCEPT ![Head(todo).row] = Merge(@, Head(todo).set)]
      BY <1>1 DEF WriteCard
    <2>2. PICK h : h = Head(todo)
      OBVIOUS
    <2>3. h \in Waiting /\ h \in Statements /\ h.table = "cards"
      BY <2>1, <2>2, Issues
    <2>4. NewCard(h) \/ CardDecision(h)
      BY <2>3, HeadFacts
    <2>5. NewCard(h) => cards[h.row].kind = "absent"
      BY <2>3 DEF SInv, TableInv, WaitInv, NewCardOk
    <2>6. CardDecision(h) => cards[h.row].status = "pending"
      BY <2>3 DEF SInv, TableInv, WaitInv, DecisionOk
    <2>7. QED
      BY <2>1, <2>2, <2>4, <2>5, <2>6, Found DEF HasCard
  <1>2. CASE WriteApproval
    <2>1. Issue("approvals") /\ cards' = cards
          /\ approvals' = [approvals EXCEPT ![Head(todo).row] = Merge(@, Head(todo).set)]
      BY <1>2 DEF WriteApproval
    <2>2. PICK h : h = Head(todo)
      OBVIOUS
    <2>3. h \in Waiting /\ h \in Statements /\ h.table = "approvals"
      BY <2>1, <2>2, Issues
    <2>4. NewApproval(h) \/ Verdict(h)
      BY <2>3, HeadFacts
    <2>5. NewApproval(h) => approvals[h.row].status = "absent"
      <3>1. NewApproval(h) => h.row = NextId /\ h.row \in Ids
        BY <2>3, StatementFacts DEF SInv, IdInv
      <3>2. QED
        BY <3>1, FreshId
    <2>6. Verdict(h) => approvals[h.row].status = "pending"
      BY <2>3 DEF SInv, TableInv, WaitInv, VerdictOk
    <2>7. QED
      BY <2>1, <2>2, <2>4, <2>5, <2>6, Found
  <1>3. CASE ~WriteCard /\ ~WriteApproval
    <2>1. UNCHANGED <<cards, approvals>>
      BY <1>3 DEF Next, vars, tables, Write, WriteSession, WriteRun, WriteCourse, WriteEffect, Submit,
             Retry, StartTurns, StartTurn, FillGoal, AgentReturns, AgentAnswers, TurnProposes, TurnFails,
             Compacted, FinishTurn, Decide, CancelCheckpoint, PlanFromCheckpoint, SuggestChange,
             NextStep, Execute, Reject, PlannerReturns, CheckpointProposes, RevisionProposes,
             DecisionFails, Crash, Restart, Marks, Mark, StartCli, CliMarks
    <2>2. QED
      BY <2>1
  <1>4. QED
    BY <1>1, <1>2, <1>3

(* What was decided stays decided, whatever comes late or starts again.    *)
THEOREM DecisionsStay == Spec => DecidedStaysDecided
  <1>1. ASSUME SInv, [Next]_vars
        PROVE  [\A c \in Ids :
                 /\ HasCard(c) /\ cards[c].status # "pending" => cards'[c] = cards[c]
                 /\ approvals[c].status \in {"approved", "rejected"} =>
                      approvals'[c] = approvals[c]]_vars
    BY <1>1, StepsKeepDecisions
  <1>2. QED
    BY <1>1, Invariance, PTL DEF Spec, DecidedStaysDecided
=============================================================================
