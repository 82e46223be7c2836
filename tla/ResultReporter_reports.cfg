SPECIFICATION Spec
CONSTANTS
  a = a
  b = b
  c = c
  Reports <- MCReports
  MaxAttempts = 2
INVARIANTS
  TypeOK
  SavedAtOnceIsOneRow
PROPERTIES
  DeliversReports
  ReportsSettle
CHECK_DEADLOCK FALSE
