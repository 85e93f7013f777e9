------------------------------- MODULE MCErrors ------------------------------
(* Model-checking instance of Errors: one operation, two paths (so that  *)
(* equal and different paths meet), one function, one non-Other class.   *)
EXTENDS Errors

MCOps     == {"", "fn.render"}
MCPaths   == {"", "a", "b"}
MCFnNames == {"", "set-labels"}
MCClasses == {0, 2}
MCMsgs    == {"exit status 1"}
=============================================================================
