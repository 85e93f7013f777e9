------------------------------- MODULE MCRender ------------------------------
(* Model-checking instance of Render: three functions, one result item,  *)
(* two failing exit codes.                                                 *)
EXTENDS Render

CONSTANTS r1

MCResultItem == {r1}

(* A declaration with a non-empty configMap, and one whose configPath     *)
(* names a file missing from the package.                                  *)
ConfigMapDecl     == [configPath |-> FALSE, file |-> "ok", inline |-> FALSE, configMap |-> TRUE]
MissingConfigDecl == [configPath |-> TRUE, file |-> "missing", inline |-> FALSE, configMap |-> FALSE]

MCDeclSet == {ConfigMapDecl, MissingConfigDecl}
=============================================================================
