-------------------------- MODULE EveningReview_proofs --------------------------
(***************************************************************************)
(* Proofs about EveningReview for every set of tasks and every bound.  The *)
(* inductive invariant says what a process holds while it awaits the model *)
(* or a mail: only the server holds a run, whoever polls was allowed to by *)
(* a test mail that arrived, and whoever mails holds a review that was     *)
(* stored - the one on the page, as long as nothing was stored since.      *)
(***************************************************************************)
EXTENDS EveningReview, TLAPS

(* The stored review is the last of the history.                           *)
StoreInv ==
  /\ review = NoReview => saves = 0 /\ saved = {}
  /\ review # NoReview => saves > 0 /\ review \in saved

(* The mails are enabled by a verification, and that by a test mail.       *)
ConsentInv ==
  /\ settings.enabled => settings.verified
  /\ settings.verified => tested

(* What the processes hold.                                                *)
WorkInv ==
  /\ \A p \in Workers :
       /\ work[p].pc = "model" => work[p].result \in Reviews
       /\ work[p].pc = "mailing" =>
            /\ work[p].result \in saved
            /\ saves = 1 => work[p].result = review
       /\ p # "page" /\ work[p].pc # "idle" => tested
       /\ p # "server" => work[p].run = NoRun
  /\ work["page"].pc # "mailing"
  /\ ~up => work["server"].pc = "idle"

IInv == TypeOK /\ StoreInv /\ ConsentInv /\ WorkInv /\ MailedAsShown /\ AutonomousRunsSettle

-----------------------------------------------------------------------------
LEMMA InitIInv == Init => IInv
  <1> SUFFICES ASSUME Init PROVE IInv
    OBVIOUS
  <1>1. TypeOK
    <2>1. runs \in [RunIds -> [status : {"absent", "running", "completed", "failed", "recovering"},
                               artifact : Reviews \cup {NoReview}]]
      BY DEF Init
    <2>2. work \in [Workers -> [pc : {"idle", "model", "mailing"}, run : RunIds \cup {NoRun},
                                result : Reviews \cup {NoReview}]]
      BY DEF Init, Idle
    <2>3. settings \in [exists : BOOLEAN, enabled : BOOLEAN, verified : BOOLEAN]
      BY DEF Init
    <2>4. saves \in 0..2 /\ stops \in 0..MaxStops
      BY EveningAssumption DEF Init
    <2>5. QED
      BY <2>1, <2>2, <2>3, <2>4 DEF Init, TypeOK
  <1>2. StoreInv /\ ConsentInv
    BY DEF Init, StoreInv, ConsentInv
  <1>3. WorkInv
    <2>1. \A p \in Workers : work[p].pc = "idle" /\ work[p].run = NoRun
      BY DEF Init, Idle
    <2>2. QED
      BY <2>1 DEF WorkInv, Workers
  <1>4. MailedAsShown /\ AutonomousRunsSettle
    BY DEF Init, MailedAsShown, AutonomousRunsSettle
  <1>5. QED
    BY <1>1, <1>2, <1>3, <1>4 DEF IInv

(* Putting a record into work, and what a generation may store.            *)
LEMMA SetsType ==
  ASSUME TypeOK, NEW p \in Workers, Sets(p, Idle)
  PROVE  work' \in [Workers -> [pc : {"idle", "model", "mailing"}, run : RunIds \cup {NoRun},
                                result : Reviews \cup {NoReview}]]
  BY DEF TypeOK, Sets, Idle

LEMMA BaseType == TypeOK => Base \in Reviews
  BY DEF TypeOK, Base, Reviews

LEMMA AnswersType ==
  ASSUME TypeOK, WorkInv, NEW p \in Workers, work[p].pc = "model"
  PROVE  Answers(p) \subseteq Reviews
  BY DEF WorkInv, Answers, Reviews

LEMMA MarkedType ==
  ASSUME TypeOK
  PROVE  Marked \in [RunIds -> [status : {"absent", "running", "completed", "failed", "recovering"},
                                artifact : Reviews \cup {NoReview}]]
  BY DEF TypeOK, Marked, Interrupted

(* Type correctness, one step per action.                                  *)
LEMMA TypeStep ==
  ASSUME IInv, [Next]_vars
  PROVE  TypeOK'
  <1> USE DEF IInv, TypeOK
  <1>1. ASSUME NEW t \in Tasks, CompleteTask(t) PROVE TypeOK'
    BY <1>1 DEF CompleteTask, history
  <1>2. CASE TurnEnds
    BY <1>2 DEF TurnEnds, history
  <1>3. ASSUME NEW wish \in BOOLEAN, SaveSettings(wish) PROVE TypeOK'
    BY <1>3 DEF SaveSettings, MayEnable, history
  <1>4. CASE SendTest
    BY <1>4 DEF SendTest, tables, history
  <1>5. CASE TestArrives
    BY <1>5 DEF TestArrives
  <1>6. CASE TestFails
    BY <1>6 DEF TestFails, tables, history
  <1>7. ASSUME NEW force \in BOOLEAN, AskReview(force) PROVE TypeOK'
    BY <1>7, BaseType DEF AskReview, Sets, Idle, tables, history, Workers
  <1>8. ASSUME NEW p \in Polls, NEW r \in RunIds \cup {NoRun}, Poll(p, r) PROVE TypeOK'
    <2>1. p \in Workers /\ Base \in Reviews
      BY BaseType DEF Polls, Workers
    <2>2. work' \in [Workers -> [pc : {"idle", "model", "mailing"}, run : RunIds \cup {NoRun},
                                 result : Reviews \cup {NoReview}]]
      BY <1>8, <2>1 DEF Poll, Sets
    <2>3. runs' \in [RunIds -> [status : {"absent", "running", "completed", "failed", "recovering"},
                                artifact : Reviews \cup {NoReview}]]
      BY <1>8 DEF Poll, Opens
    <2>4. QED
      BY <1>8, <2>2, <2>3 DEF Poll, history
  <1>9. CASE CliStarts
    BY <1>9, MarkedType DEF CliStarts
  <1>10. ASSUME NEW p \in Workers, NEW what \in Answers(p), Generated(p, what) PROVE TypeOK'
    <2>1. what \in Reviews
      BY <1>10, AnswersType DEF Generated
    <2>2. saves' \in 0..2 /\ saved' \in SUBSET Reviews /\ review' \in Reviews
      BY <1>10, <2>1 DEF Generated, Store
    <2>3. work' \in [Workers -> [pc : {"idle", "model", "mailing"}, run : RunIds \cup {NoRun},
                                 result : Reviews \cup {NoReview}]]
      BY <1>10, <2>1 DEF Generated, GoesOn, Sets, Idle
    <2>4. runs' \in [RunIds -> [status : {"absent", "running", "completed", "failed", "recovering"},
                                artifact : Reviews \cup {NoReview}]]
      BY <1>10, <2>1 DEF Generated
    <2>5. QED
      BY <1>10, <2>2, <2>3, <2>4 DEF Generated
  <1>11. ASSUME NEW p \in Workers, GenerationFails(p) PROVE TypeOK'
    <2>1. runs' \in [RunIds -> [status : {"absent", "running", "completed", "failed", "recovering"},
                                artifact : Reviews \cup {NoReview}]]
      BY <1>11 DEF GenerationFails, RunsFailed
    <2>2. QED
      BY <1>11, <2>1, SetsType DEF GenerationFails, history
  <1>12. ASSUME NEW p \in Polls, MailSent(p) \/ MailFails(p) PROVE TypeOK'
    <2>1. p \in Workers
      BY DEF Polls, Workers
    <2>2. CASE MailSent(p)
      <3>1. work[p].result \in Reviews
        BY <2>1, <2>2 DEF MailSent, WorkInv
      <3>2. QED
        BY <2>1, <2>2, <3>1, SetsType DEF MailSent, Leaves
    <2>3. CASE MailFails(p)
      BY <2>1, <2>3, SetsType DEF MailFails, tables, history
    <2>4. QED
      BY <1>12, <2>2, <2>3
  <1>13. ASSUME NEW left \in BOOLEAN, StopServer(left) PROVE TypeOK'
    <2>1. mails' \in SUBSET Reviews
      BY <1>13 DEF StopServer, Leaves, WorkInv, Workers
    <2>2. work' \in [Workers -> [pc : {"idle", "model", "mailing"}, run : RunIds \cup {NoRun},
                                 result : Reviews \cup {NoReview}]]
      BY <1>13 DEF StopServer, Idle
    <2>3. cut' \in SUBSET RunIds /\ stops' \in 0..MaxStops
      BY <1>13, EveningAssumption DEF StopServer
    <2>4. QED
      BY <1>13, <2>1, <2>2, <2>3 DEF StopServer, tables
  <1>14. ASSUME NEW left \in BOOLEAN, StopCli(left) PROVE TypeOK'
    <2>1. mails' \in SUBSET Reviews
      BY <1>14 DEF StopCli, Leaves, WorkInv, Workers
    <2>2. stops' \in 0..MaxStops
      BY <1>14, EveningAssumption DEF StopCli
    <2>3. QED
      BY <1>14, <2>1, <2>2, SetsType DEF StopCli, tables, Workers
  <1>15. CASE StartServer
    BY <1>15, MarkedType DEF StartServer, history
  <1>16. CASE UNCHANGED vars
    BY <1>16 DEF vars, tables, history
  <1>17. QED
    BY <1>1, <1>2, <1>3, <1>4, <1>5, <1>6, <1>7, <1>8, <1>9, <1>10, <1>11, <1>12, <1>13, <1>14,
       <1>15, <1>16 DEF Next

-----------------------------------------------------------------------------
(* The history of the stored reviews and of the consent.                   *)
LEMMA StoreStep ==
  ASSUME IInv, [Next]_vars
  PROVE  StoreInv' /\ ConsentInv'
  <1> USE DEF IInv, TypeOK, StoreInv, ConsentInv
  <1>1. ASSUME UNCHANGED <<review, saved, saves, settings, tested>>
        PROVE  StoreInv' /\ ConsentInv'
    BY <1>1
  <1>2. ASSUME NEW t \in Tasks, CompleteTask(t) PROVE StoreInv' /\ ConsentInv'
    BY <1>2, <1>1 DEF CompleteTask, history
  <1>3. CASE TurnEnds
    BY <1>3, <1>1 DEF TurnEnds, history
  <1>4. ASSUME NEW wish \in BOOLEAN, SaveSettings(wish) PROVE StoreInv' /\ ConsentInv'
    BY <1>4 DEF SaveSettings, MayEnable, history
  <1>5. CASE SendTest
    BY <1>5, <1>1 DEF SendTest, tables, history
  <1>6. CASE TestArrives
    BY <1>6 DEF TestArrives
  <1>7. CASE TestFails
    BY <1>7, <1>1 DEF TestFails, tables, history
  <1>8. ASSUME NEW force \in BOOLEAN, AskReview(force) PROVE StoreInv' /\ ConsentInv'
    BY <1>8, <1>1 DEF AskReview, tables, history
  <1>9. ASSUME NEW p \in Polls, NEW r \in RunIds \cup {NoRun}, Poll(p, r)
        PROVE  StoreInv' /\ ConsentInv'
    BY <1>9, <1>1 DEF Poll, history
  <1>10. CASE CliStarts
    BY <1>10, <1>1 DEF CliStarts
  <1>11. ASSUME NEW p \in Workers, NEW what \in Answers(p), Generated(p, what)
         PROVE  StoreInv' /\ ConsentInv'
    <2>1. what # NoReview
      BY <1>11, AnswersType, NoReviewAssumption DEF Generated
    <2>2. QED
      BY <1>11, <2>1 DEF Generated, Store
  <1>12. ASSUME NEW p \in Workers, GenerationFails(p) PROVE StoreInv' /\ ConsentInv'
    BY <1>12, <1>1 DEF GenerationFails, history
  <1>13. ASSUME NEW p \in Polls, MailSent(p) \/ MailFails(p) PROVE StoreInv' /\ ConsentInv'
    BY <1>13, <1>1 DEF MailSent, MailFails, tables, history
  <1>14. ASSUME NEW left \in BOOLEAN, StopServer(left) \/ StopCli(left)
         PROVE  StoreInv' /\ ConsentInv'
    BY <1>14, <1>1 DEF StopServer, StopCli, tables
  <1>15. CASE StartServer
    BY <1>15, <1>1 DEF StartServer, history
  <1>16. CASE UNCHANGED vars
    BY <1>16, <1>1 DEF vars, tables, history
  <1>17. QED
    BY <1>2, <1>3, <1>4, <1>5, <1>6, <1>7, <1>8, <1>9, <1>10, <1>11, <1>12, <1>13, <1>14, <1>15,
       <1>16 DEF Next

(* What each process holds, and what was mailed.  A process that goes idle *)
(* holds nothing any more; a store makes saves = 1 only when nothing was   *)
(* mailed and nobody mails.                                                *)
LEMMA WorkStep ==
  ASSUME IInv, [Next]_vars
  PROVE  WorkInv' /\ MailedAsShown'
  <1> DEFINE Goal == WorkInv' /\ MailedAsShown'
  <1> USE DEF IInv, WorkInv, MailedAsShown
  <1>1. ASSUME UNCHANGED <<work, saved, saves, review, mails>>, tested => tested', up => up'
        PROVE  Goal
    BY <1>1
  <1>2. ASSUME NEW p \in Workers, Sets(p, Idle), UNCHANGED <<saved, saves, review, tested, up, mails>>
        PROVE  Goal
    BY <1>2 DEF Sets, Idle, TypeOK, Workers
  <1>3. ASSUME NEW t \in Tasks, CompleteTask(t) PROVE Goal
    BY <1>3, <1>1 DEF CompleteTask, history
  <1>4. CASE TurnEnds
    BY <1>4, <1>1 DEF TurnEnds, history
  <1>5. ASSUME NEW wish \in BOOLEAN, SaveSettings(wish) PROVE Goal
    BY <1>5, <1>1 DEF SaveSettings, history
  <1>6. CASE SendTest \/ TestFails
    BY <1>6, <1>1 DEF SendTest, TestFails, tables, history
  <1>7. CASE TestArrives
    BY <1>7, <1>1 DEF TestArrives
  <1>8. ASSUME NEW force \in BOOLEAN, AskReview(force) PROVE Goal
    <2>1. Base \in Reviews
      BY BaseType
    <2>2. QED
      BY <1>8, <2>1 DEF AskReview, Sets, Idle, tables, history, TypeOK, Workers
  <1>9. ASSUME NEW p \in Polls, NEW r \in RunIds \cup {NoRun}, Poll(p, r) PROVE Goal
    <2>1. Base \in Reviews /\ p \in Workers /\ p # "page"
      BY BaseType DEF Polls, Workers
    <2>2. tested /\ (~up => p # "server") /\ (p # "server" => r = NoRun)
      BY <1>9, <2>1 DEF Poll, ConsentInv, Alive, Polls, TypeOK
    <2>3. CASE review = NoReview
      BY <1>9, <2>1, <2>2, <2>3 DEF Poll, Sets, TypeOK, history
    <2>4. CASE review # NoReview
      BY <1>9, <2>1, <2>2, <2>4 DEF Poll, Sets, TypeOK, history, StoreInv
    <2>5. QED
      BY <2>3, <2>4
  <1>10. CASE CliStarts
    BY <1>10, <1>1 DEF CliStarts
  <1>11. ASSUME NEW p \in Workers, NEW what \in Answers(p), Generated(p, what) PROVE Goal
    <2>1. what \in Reviews
      BY <1>11, AnswersType DEF Generated
    <2>2. saves' \in {1, 2} /\ (saves' = 1 => saved = {})
      BY <1>11 DEF Generated, Store, StoreInv, TypeOK
    <2>3. what \in saved' /\ saved \subseteq saved' /\ review' = what
      BY <1>11 DEF Generated, Store
    <2>4. MailedAsShown'
      BY <1>11, <2>2, <2>3 DEF Generated
    <2>5. \A q \in Workers : q # p => work'[q] = work[q]
      BY <1>11 DEF Generated, GoesOn, Sets, TypeOK
    <2>6. CASE p = "page"
      <3>1. work'[p] = Idle
        BY <1>11, <2>6 DEF Generated, GoesOn, Sets, TypeOK
      <3>2. QED
        BY <1>11, <2>2, <2>3, <2>4, <2>5, <2>6, <3>1 DEF Generated, Idle, Workers
    <2>7. CASE p # "page"
      <3>1. work'[p].pc = "mailing" /\ work'[p].result = what /\ work'[p].run = work[p].run
        BY <1>11, <2>7 DEF Generated, GoesOn, Sets, TypeOK
      <3>2. p = "server" => up
        BY <1>11 DEF Generated, Alive
      <3>3. QED
        BY <1>11, <2>2, <2>3, <2>4, <2>5, <2>7, <3>1, <3>2 DEF Generated, Workers
    <2>8. QED
      BY <2>6, <2>7
  <1>12. ASSUME NEW p \in Workers, GenerationFails(p) PROVE Goal
    BY <1>12, <1>2 DEF GenerationFails, history
  <1>13. ASSUME NEW p \in Polls, MailSent(p) PROVE Goal
    <2>1. p \in Workers /\ p # "page"
      BY DEF Polls, Workers
    <2>2. WorkInv'
      BY <1>13, <2>1 DEF MailSent, Sets, Idle, TypeOK, Workers
    <2>3. QED
      BY <1>13, <2>1, <2>2 DEF MailSent, Leaves
  <1>14. ASSUME NEW p \in Polls, MailFails(p) PROVE Goal
    <2>1. p \in Workers
      BY DEF Polls, Workers
    <2>2. QED
      BY <1>14, <2>1, <1>2 DEF MailFails, tables, history
  <1>15. ASSUME NEW left \in BOOLEAN, StopServer(left) PROVE Goal
    <2>1. work'["server"] = Idle /\ work'["page"] = Idle /\ work'["cli"] = work["cli"]
      BY <1>15 DEF StopServer, TypeOK, Workers
    <2>2. WorkInv'
      BY <1>15, <2>1 DEF StopServer, tables, Idle, Workers
    <2>3. QED
      BY <1>15, <2>2 DEF StopServer, tables, Leaves, Workers
  <1>16. ASSUME NEW left \in BOOLEAN, StopCli(left) PROVE Goal
    <2>1. work'["cli"] = Idle /\ \A q \in {"server", "page"} : work'[q] = work[q]
      BY <1>16 DEF StopCli, Sets, TypeOK, Workers
    <2>2. WorkInv'
      BY <1>16, <2>1 DEF StopCli, tables, Idle, Workers
    <2>3. QED
      BY <1>16, <2>2 DEF StopCli, tables, Leaves, Workers
  <1>17. CASE StartServer
    BY <1>17, <1>1 DEF StartServer, history
  <1>18. CASE UNCHANGED vars
    BY <1>18, <1>1 DEF vars, tables, history
  <1>19. QED
    BY <1>3, <1>4, <1>5, <1>6, <1>7, <1>8, <1>9, <1>10, <1>11, <1>12, <1>13, <1>14, <1>15, <1>16,
       <1>17, <1>18 DEF Next

(* The runs and the status.  Every run a start marks is still awaited or   *)
(* was cut, so the status it leaves has its reason.                        *)
LEMMA RunsStep ==
  ASSUME IInv, [Next]_vars
  PROVE  AutonomousRunsSettle'
  <1> USE DEF IInv, AutonomousRunsSettle
  <1>1. ASSUME UNCHANGED <<runs, work, status>>, cut \subseteq cut', saved \subseteq saved',
               doubted => doubted'
        PROVE  AutonomousRunsSettle'
    BY <1>1 DEF Live
  <1>2. ASSUME UNCHANGED <<runs, status, saved, cut, doubted>>, work'["server"] = work["server"]
        PROVE  AutonomousRunsSettle'
    BY <1>2 DEF Live
  <1>3. ASSUME NEW t \in Tasks, CompleteTask(t) PROVE AutonomousRunsSettle'
    BY <1>3, <1>1 DEF CompleteTask, history
  <1>4. CASE TurnEnds
    BY <1>4 DEF TurnEnds, history, Live
  <1>5. ASSUME NEW wish \in BOOLEAN, SaveSettings(wish) PROVE AutonomousRunsSettle'
    BY <1>5, <1>1 DEF SaveSettings, history
  <1>6. CASE SendTest \/ TestArrives \/ TestFails
    BY <1>6, <1>1 DEF SendTest, TestArrives, TestFails, tables, history
  <1>7. ASSUME NEW force \in BOOLEAN, AskReview(force) PROVE AutonomousRunsSettle'
    BY <1>7, <1>2 DEF AskReview, Sets, tables, history, TypeOK, Workers
  <1>8. ASSUME NEW p \in Polls, NEW r \in RunIds \cup {NoRun}, Poll(p, r)
        PROVE  AutonomousRunsSettle'
    <2>1. CASE p # "server"
      <3>1. work'["server"] = work["server"]
        BY <1>8, <2>1 DEF Poll, Sets, TypeOK, Workers, Polls
      <3>2. QED
        BY <1>8, <2>1, <3>1, <1>2 DEF Poll, history
    <2>2. CASE p = "server"
      <3>1. r \in RunIds /\ runs[r].status = "absent" /\ \A q \in RunIds : ~Live(q)
        BY <1>8, <2>2 DEF Poll, NextRun, Live
      <3>2. \A q \in RunIds : q # r => runs'[q] = runs[q]
        BY <1>8, <2>2, <3>1 DEF Poll, Opens, TypeOK
      <3>3. CASE review = NoReview
        <4>1. Live(r)'
          BY <1>8, <2>2, <3>3 DEF Poll, Sets, Live, TypeOK, Workers
        <4>2. runs'[r].status = "running"
          BY <1>8, <2>2, <3>1, <3>3 DEF Poll, Opens, TypeOK
        <4>3. QED
          BY <1>8, <2>2, <3>1, <3>2, <4>1, <4>2 DEF Poll, history
      <3>4. CASE review # NoReview
        <4>1. runs'[r].status = "completed" /\ runs'[r].artifact \in saved
          BY <1>8, <2>2, <3>1, <3>4 DEF Poll, Opens, TypeOK, StoreInv
        <4>2. QED
          BY <1>8, <2>2, <3>1, <3>2, <4>1 DEF Poll, history
      <3>5. QED
        BY <3>3, <3>4
    <2>3. QED
      BY <2>1, <2>2
  <1>9. ASSUME runs' = Marked, UNCHANGED <<work, saved, cut>>,
               status' = "recovering" => cut # {} \/ doubted'
        PROVE  AutonomousRunsSettle'
    <2>1. \A r \in RunIds :
            /\ runs'[r].status \in {"running", "recovering"} => r \in Interrupted
            /\ runs'[r].status = "completed" => runs'[r] = runs[r]
      BY <1>9 DEF Marked, Interrupted, TypeOK
    <2>2. QED
      BY <1>9, <2>1 DEF Interrupted, Live
  <1>10. \A r \in Interrupted : Live(r) \/ r \in cut
    BY DEF Interrupted
  <1>11. CASE CliStarts
    <2>1. status' = "recovering" => cut # {} \/ doubted'
      BY <1>11, <1>10 DEF CliStarts
    <2>2. QED
      BY <1>11, <2>1, <1>9 DEF CliStarts
  <1>12. CASE StartServer
    <2>1. \A r \in RunIds : ~Live(r)
      BY <1>12 DEF StartServer, WorkInv, Live
    <2>2. Interrupted # {} => cut # {}
      BY <2>1, <1>10 DEF Interrupted
    <2>3. status' = "recovering" => cut # {} \/ doubted'
      BY <1>12, <2>2 DEF StartServer, history
    <2>4. QED
      BY <1>12, <2>3, <1>9 DEF StartServer, history
  <1>13. ASSUME NEW p \in Workers, NEW what \in Answers(p), Generated(p, what)
         PROVE  AutonomousRunsSettle'
    <2>1. saved \subseteq saved' /\ what \in saved'
      BY <1>13 DEF Generated, Store
    <2>2. CASE p # "server"
      <3>1. work'["server"] = work["server"] /\ runs' = runs
        BY <1>13, <2>2 DEF Generated, GoesOn, Sets, WorkInv, TypeOK, Workers
      <3>2. QED
        BY <1>13, <2>1, <3>1 DEF Generated, Live
    <2>3. CASE p = "server"
      <3>1. \A r \in RunIds : work["server"].run = r =>
              runs'[r].status = "completed" /\ runs'[r].artifact = what
        BY <1>13, <2>3 DEF Generated, TypeOK, NoRun, RunIds
      <3>2. \A r \in RunIds : work["server"].run # r => runs'[r] = runs[r] /\ ~Live(r)
        BY <1>13, <2>3 DEF Generated, TypeOK, Live
      <3>3. QED
        BY <1>13, <2>1, <3>1, <3>2 DEF Generated
    <2>4. QED
      BY <2>2, <2>3
  <1>14. ASSUME NEW p \in Workers, GenerationFails(p) PROVE AutonomousRunsSettle'
    <2>1. CASE p # "server"
      <3>1. work'["server"] = work["server"] /\ runs' = runs
        BY <1>14, <2>1 DEF GenerationFails, RunsFailed, Sets, WorkInv, TypeOK, Workers
      <3>2. QED
        BY <1>14, <3>1, <1>2 DEF GenerationFails, history
    <2>2. CASE p = "server"
      <3>1. \A r \in RunIds : work["server"].run = r => runs'[r].status = "failed"
        BY <1>14, <2>2 DEF GenerationFails, RunsFailed, TypeOK, NoRun, RunIds
      <3>2. \A r \in RunIds : work["server"].run # r => runs'[r] = runs[r] /\ ~Live(r)
        BY <1>14, <2>2 DEF GenerationFails, RunsFailed, TypeOK, Live
      <3>3. QED
        BY <1>14, <3>1, <3>2 DEF GenerationFails, history
    <2>3. QED
      BY <2>1, <2>2
  <1>15. ASSUME NEW p \in Polls, MailSent(p) \/ MailFails(p) PROVE AutonomousRunsSettle'
    <2>1. \A q \in RunIds : ~(p = "server" /\ Live(q))
      BY <1>15 DEF MailSent, MailFails, Live
    <2>2. \A q \in RunIds : Live(q) => Live(q)'
      BY <1>15, <2>1 DEF MailSent, MailFails, Sets, Live, TypeOK, Workers
    <2>3. QED
      BY <1>15, <2>2 DEF MailSent, MailFails, tables, history
  <1>16. ASSUME NEW left \in BOOLEAN, StopServer(left) PROVE AutonomousRunsSettle'
    BY <1>16 DEF StopServer, tables
  <1>17. ASSUME NEW left \in BOOLEAN, StopCli(left) PROVE AutonomousRunsSettle'
    BY <1>17, <1>2 DEF StopCli, Sets, tables, TypeOK, Workers
  <1>18. CASE UNCHANGED vars
    BY <1>18, <1>1 DEF vars, tables, history
  <1>19. QED
    BY <1>3, <1>4, <1>5, <1>6, <1>7, <1>8, <1>11, <1>12, <1>13, <1>14, <1>15, <1>16, <1>17, <1>18
       DEF Next

(* In every state reviews, mails, runs and settings fit together.          *)
THEOREM Invariance == Spec => []IInv
  <1>1. IInv /\ [Next]_vars => IInv'
    BY TypeStep, StoreStep, WorkStep, RunsStep DEF IInv
  <1>2. QED
    BY InitIInv, <1>1, PTL DEF Spec

-----------------------------------------------------------------------------
(* Every variable keeps its type: no process stores, mails or puts into a  *)
(* run what is not a review (learning/daily.py, agent/service.py).         *)
THEOREM TypeCorrect == Spec => []TypeOK
  BY Invariance, PTL DEF IInv

(* Whoever mails, with however many failed attempts and stops before: the  *)
(* mail is a review that was stored, it goes out only after a test mail    *)
(* arrived, and as long as one process alone stored a review it is the one *)
(* the page shows (notifications.py, learning/daily.py generate_review).   *)
THEOREM ReviewsMailedAsShown == Spec => []MailedAsShown
  BY Invariance, PTL DEF IInv

(* For any number of runs and stops: an open run is awaited by the server  *)
(* or was cut by a stop, a completed one keeps a stored review, and the    *)
(* session recovers only for a reason (agent/service.py                    *)
(* _run_autonomous_daily, mark_interrupted_runs).                          *)
THEOREM RunsSettle == Spec => []AutonomousRunsSettle
  BY Invariance, PTL DEF IInv
=============================================================================
