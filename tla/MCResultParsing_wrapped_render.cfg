CONSTANTS
  r1 = r1
  r2 = r2
  ResultItem <- MCResultItem

SPECIFICATION Spec

INVARIANT WrappedShapeAcceptedByRender
