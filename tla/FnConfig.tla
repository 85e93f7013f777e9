------------------------------ MODULE FnConfig ------------------------------
(***************************************************************************)
(* Function config resolution: newFnConfig, which exists twice with the   *)
(* same body, in internal/fnruntime/runner.go and in                       *)
(* internal/cmdrender/pipeline_function.go.  A declaration                 *)
(* (kptfile Function) is abstracted to which config sources are set and, *)
(* for a config file, what reading it from the package directory gives.   *)
(***************************************************************************)

(* What os.Open / ioutil.ReadAll / yaml.Parse do with f.ConfigPath.        *)
FileStates == {"ok", "missing", "unreadable", "malformed"}

Declarations ==
  [configPath : BOOLEAN,     \* f.ConfigPath != ""
   file       : FileStates,  \* the file at pkgPath/ConfigPath
   inline     : BOOLEAN,     \* !IsNodeZero(&f.Config)
   configMap  : BOOLEAN]     \* len(f.ConfigMap) != 0

(* The resolved functionConfig, or the error errors.E(op, fn, ...).       *)
Resolved(c)    == [ok |-> TRUE,  config |-> c,      err |-> "none"]
ResolveErr(e)  == [ok |-> FALSE, config |-> "none", err |-> e]

(* The switch of newFnConfig: the first set source wins, in the order     *)
(* config file, inline config, config map; with none set there is no      *)
(* functionConfig (nil), not an empty ConfigMap.  The error of           *)
(* configNode.PipeE(SetField(...)) cannot occur on a freshly parsed       *)
(* ConfigMap and is left out.                                             *)
NewFnConfig(f) ==
  CASE f.configPath /\ f.file = "missing"    -> ResolveErr("missing")
    [] f.configPath /\ f.file = "unreadable" -> ResolveErr("read")
    [] f.configPath /\ f.file = "malformed"  -> ResolveErr("invalid")
    [] f.configPath                          -> Resolved("file")
    [] f.inline                              -> Resolved("inline")
    [] f.configMap                           -> Resolved("configmap")
    [] OTHER                                 -> Resolved("none")

(* cmdrender's newFnConfig: a copy of the same switch.                     *)
RenderNewFnConfig(f) == NewFnConfig(f)
=============================================================================
