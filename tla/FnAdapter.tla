------------------------------ MODULE FnAdapter -----------------------------
(***************************************************************************)
(* The contract of the function execution adapter                          *)
(* (runtimeutil.FunctionFilter.Filter running ContainerFn.Run), which is   *)
(* not part of this repository's sources, and the values the runners      *)
(* exchange with their callers: the ledger entry (fnresult.Result), the   *)
(* errors a runner returns, and what it prints.                            *)
(***************************************************************************)
EXTENDS Naturals

CONSTANT ExitCodes       \* exit codes of a function process that failed

ASSUME ExitCodes \subseteq Nat \ {0}

(* What one call of filter.Filter(input) returns: success, an ExecError  *)
(* carrying the process exit code and whether it wrote to stderr, or any  *)
(* other error (I/O on the function's streams, a malformed ResourceList). *)
AdapterOk          == [kind |-> "ok",    code |-> 0, stderr |-> FALSE]
ExecFailure(c, s)  == [kind |-> "exec",  code |-> c, stderr |-> s]
OtherFailure       == [kind |-> "other", code |-> 0, stderr |-> FALSE]

AdapterOutcomes ==
  {AdapterOk, OtherFailure} \cup {ExecFailure(c, s) : c \in ExitCodes, s \in BOOLEAN}

(* The error a runner (or the pipeline) returns.  kind is one of          *)
(*   "none"    no error;                                                   *)
(*   "handled" errors.ErrAlreadyHandled, the sentinel for "already shown";*)
(*   "config"  newFnConfig failed;  "result"  result parsing failed;       *)
(*   "exec"    the adapter's ExecError;  "other"  any other adapter error. *)
Err(kind, fn, code) == [kind |-> kind, fn |-> fn, code |-> code]
NoError             == Err("none", 0, 0)
AlreadyHandled      == Err("handled", 0, 0)
AdapterErr(i, out)  == Err(out.kind, i, out.code)

(* One line group written by the printer: ev is "running", "pass",       *)
(* "fail", "results", "stderr", "exitcode" or, at the top level, "error". *)
Ev(ev, fn, code) == [ev |-> ev, fn |-> fn, code |-> code]

(* A ledger entry: fnresult.Result {Image, Results, ExitCode, Stderr}.    *)
FnResult(image, results, exitCode, stderr) ==
  [image |-> image, results |-> results, exitCode |-> exitCode, stderr |-> stderr]

(* What Filter returns to the pipeline and does to the shared ResultList. *)
Step(outputOk, err, entries, exitCode, prints) ==
  [outputOk |-> outputOk, err |-> err, entries |-> entries,
   exitCode |-> exitCode, prints |-> prints]
=============================================================================
