CONSTANTS
  Words <- MCWords
  FnExecErrorTruncateLines = 2
  MaxStderr = 6
  MaxResults = 3

SPECIFICATION Spec


INVARIANT StderrShownLineForLine

\* Each print happens once per failed function; the model stops after both.
CHECK_DEADLOCK FALSE
