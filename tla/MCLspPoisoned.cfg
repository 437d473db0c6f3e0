SPECIFICATION FairSpec
CONSTANTS
  r1 = r1
  r2 = r2
  t = t
  Docs <- MCPair
  MaxOperations = 2
  Words <- MCWords
  Limit <- MCLimit
  NoSection = NoSection
  DefaultLimit = 3
  Closed = Closed
  Live = Live
  None = None
  Language <- MCLanguage
  ActivationLanguages <- MCActivationLanguages
  SelectorLanguages <- MCSelectorLanguages
  Faults <- AnyFault
  LastFault = 1
PROPERTY EditsAreDiagnosed
CHECK_DEADLOCK FALSE
