CONSTANTS
  Tasks = {t1}
  NoReview = NoReview
  MaxRuns = 2
  MaxStops = 1
SPECIFICATION Spec
INVARIANTS
  TypeOK
  MailedAsShown
  AutonomousRunsSettle
