CONSTANTS
  Dirs <- MCDirs
  PkgNames <- MCPkgNames
  Inputs <- MCInputs

SPECIFICATION Spec

INVARIANT TypeOK
INVARIANT ContextPerPackage
INVARIANT Idempotent

\* The generator runs once per render; the model stops after two renders.
CHECK_DEADLOCK FALSE
