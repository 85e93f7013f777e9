CONSTANTS
  r1 = r1
  ResultItem <- MCResultItem
  ExitCodes = {1, 2}
  NumFns = 3
  MaxItems = 1
  DeclSet <- MCDeclSet
  Runner = "cmdrender"

SPECIFICATION Spec

INVARIANT LedgerExitCodeRecorded

\* A render ends: the pipeline stops once the caller has reported.
CHECK_DEADLOCK FALSE
