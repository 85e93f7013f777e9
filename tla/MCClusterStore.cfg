CONSTANTS
  l1 = l1
  l2 = l2
  invalid = invalid
  Clusters = {1, 2, 3}
  Labels = {l1, l2}
  Invalid = invalid
  SelectorSeqs <- MCSelectorSeqs
  MaxChanges = 3
  ClusterConfig <- MCClusterConfig

SYMMETRY MCSymmetry

SPECIFICATION Spec

INVARIANT TypeOK
INVARIANT ListedClustersMatchedEverySelector
INVARIANT StableMatchingClustersListed

\* A call ends: it returns the clusters or an error.
CHECK_DEADLOCK FALSE
