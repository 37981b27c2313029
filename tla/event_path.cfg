\* Times are in units of a million seconds.  Raw logs through packs, and parser and Tier-0 events, to OCSF.
SPECIFICATION Spec
CONSTANTS
  None = None
  Numerals <- MCNumerals
  IsoTimes <- MCIsoTimes
  LowerCase <- MCLowerCase
  UpperCase <- MCUpperCase
  Packs <- MCPacks
  Logs <- MCLogs
  Ids <- MCIds
  ParserEvents <- MCParserEvents
  ParserBindings <- MCParserBindings
  Detections <- MCDetections
  Structures <- MCStructures
  DroppedSets <- MCDroppedSets
  SourceCounts <- MCSourceCounts
INVARIANTS
  TypeOK
  ClassificationStands
  NothingLost
  MappedIsRepresented
  EveryItemOnce
  StatusSound
  BoundEventsValidate
