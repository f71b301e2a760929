\* Two queries of at most one row each, on eleven bases.
SPECIFICATION Spec
CONSTANTS
  NoValue = "none"
  MaxNesting = 5
  MaxHeight = 14
  Bases <- MCBases
  Values <- MCValues
  Options <- MCOptions
  Keys <- MCKeys
  Lines <- MCLines
  TimeText <- MCTimeText
  DayLength = 2
  MaxRows = 1
  MaxQueries = 2
INVARIANTS
  FilterMeansRows
  KeyTellsApart
\* The run ends after the last query.
CHECK_DEADLOCK FALSE
