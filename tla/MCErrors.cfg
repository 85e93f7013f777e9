CONSTANTS
  Ops <- MCOps
  Paths <- MCPaths
  FnNames <- MCFnNames
  Classes <- MCClasses
  Msgs <- MCMsgs
  WrapMsgs = {}
  MaxFrames = 4

SPECIFICATION Spec

 
INVARIANT WrappingPreservesWrapped
INVARIANT RenderKeepsEveryFragment

\* E is only called a bounded number of times here: the heap fills.
CHECK_DEADLOCK FALSE
