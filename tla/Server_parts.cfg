SPECIFICATION ServerSpec
CONSTANTS
  EndLabels <- EndLabelsDef
  Timeouts = {0, 3, 9}
  Intervals = {1, 2, 70}
  WaitMax = 3
  MaxRequeues = 1
  writer = writer
  actor = actor
  Calls = {writer, actor}
  OpsOf <- OpsOfDef
  ExpectationsOf <- ExpectationsOfDef
  Slices = {1, 2}
  Size = 2
  MaxClock = 1
  MaxDepth = 3
  MaxWidth = 3
  PageSizes = {1, 2, 3}
  Caps = {0, 2, 9}
  Chunk = 2
  MaxPrinted = 4
  SftpCap = 3
  HardCap = 8
  Units <- UnitsDef
  Limits <- LimitsDef
  Requests <- RequestsDef
  Directives <- DirectivesDef
  MaxLines = 2
  Machines <- MachinesDef
  MaxActive = 2
  InCli <- InCliDef
  InEnv <- InEnvDef
  InSection <- InSectionDef
  InTop <- InTopDef
  InHyphen <- InHyphenDef
INVARIANTS
  TypeOK EndIsReal GiveUpIsInformed
  AcceptedWriteKnowsFile NothingTorn ReportedSizes SlicesAssemble
  MissingIsAnnounced ShortResultsAreComplete
  GrantFitsLimits AskedIsGranted RecommendationFits HighestLayerWins
PROPERTIES
  WaitReturns CallEnds
CHECK_DEADLOCK FALSE
