SPECIFICATION FairSpec
CONSTANTS
  r1 = r1
  r2 = r2
  t = t
  Docs <- MCDocs
  MaxOperations = 2
  Words <- MCWords
  Limit <- MCPartialLimit
  NoSection = NoSection
  DefaultLimit = 3
  Closed = Closed
  Live = Live
  None = None
  Language <- MCLanguage
  ActivationLanguages <- MCActivationLanguages
  SelectorLanguages <- MCSelectorLanguages
  Faults <- AnyFault
  LastFault = 1
INVARIANTS
  TypeOK
  NoLastingStaleSettings
  EveryAwaitIsAnswered
PROPERTIES
  DiagnosticsMoveForward
  ConfigurationChangeRecovers
CHECK_DEADLOCK FALSE
