CONSTANTS
  Answers <- MCAnswers
  Minutes <- MCMinutes
  NoPlan = NoPlan
  Malformed = Malformed
  MaxVersions = 1
SPECIFICATION Spec
INVARIANTS
  ContentKeptAndCompleted
  ProposalTellsSource
  DayFits
