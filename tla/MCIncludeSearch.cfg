SPECIFICATION HistorySpec
CONSTANTS
  Components <- MCComponents
  Disks <- MCDisks
  MainFile <- MCMain
  WgtccHeader <- MCWgtccHeader
  HeaderNames <- MCHeaderNames
  PathLists <- MCPathLists
  OpenMax = 8
  MaxNest = 9
PROPERTIES
  ImplementsSearchPath
  ReadingEnds
