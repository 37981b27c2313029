\* Every sample log alone, for each converter that may read it, and mixed runs.
SPECIFICATION Spec
CONSTANTS
  None = None
  Numerals <- MCNumerals
  IsoTimes <- MCIsoTimes
  LowerCase <- MCLowerCase
  UpperCase <- MCUpperCase
  PhrasesIn <- MCPhrasesIn
  IsoForm <- MCIsoForm
  ColonParts <- MCColonParts
  Undotted <- MCUndotted
  EventIdOf <- MCEventIdOf
  Logs <- MCLogs
  Jobs <- MCJobs
CHECK_DEADLOCK FALSE
INVARIANTS
  TypeOK
  EveryLineOnce
  CapturedStays
  WantedIsNoFailure
  PeersAreNoEndpoints
  OneRecordLosesTheRun
  DetectionAgrees
