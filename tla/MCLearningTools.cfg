CONSTANTS
  loops = loops
  badId = badId
  topic = topic
  minutes = minutes
  NoKey = NoKey
  Concepts <- MCConcepts
  SlugConcepts <- MCSlugs
  Fields <- MCFields
  RecordArgs <- MCRecordArgs
  ProfileArgs <- MCProfileArgs
  MaxMessages = 2
  EvidenceLimit = 1
  ErrorLimit = 2
SPECIFICATION Spec
CONSTRAINT FewEffects
INVARIANTS
  TypeOK
  AppliedAtMostOnce
  LedgerExplainsFiles
  ErrorsHaveEvidence
  ProfileIsGated
  ReplyIsDurable
PROPERTIES
  AbandonedStaysAbandoned
  ImplementsPromise
