SPECIFICATION FairSpec
CONSTANTS
  r1 = r1
  r2 = r2
  t = t
  Docs <- MCPair
  MaxOperations = 5
  Words <- MCWords
  Limit <- MCLimit
  NoSection = NoSection
  DefaultLimit = 3
  Closed = Closed
  Live = Live
  None = None
  Language <- MCLanguage
  ActivationLanguages <- MCActivationLanguages
  SelectorLanguages <- MCSelectorLanguages
  Faults <- NoFaults
  LastFault = 0
INVARIANTS
  OnlySettingsOfOpenDocuments
  NoLastingStaleSettings
  EveryAwaitIsAnswered
PROPERTY RegeneratesDiagnostics
CHECK_DEADLOCK FALSE
