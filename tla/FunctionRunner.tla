---------------------------- MODULE FunctionRunner --------------------------
(***************************************************************************)
(* fnruntime.FunctionRunner (internal/fnruntime/runner.go): one call of    *)
(* Filter, with the do it calls, as a function of the adapter's outcome,   *)
(* the raw result document, the disableOutput flag and the ResultList's    *)
(* exit code before the call.  The result is a Step (FnAdapter): whether  *)
(* the output is returned, the error, the entries appended to              *)
(* fnResults.Items, the new fnResults.ExitCode and the printed lines.      *)
(***************************************************************************)
EXTENDS Sequences, FnAdapter, ResultParsing

(* Mutation: the ExecError's Stderr is not copied into fnResult.        *)
DoFnResultNoStderr(i, out, parsed) ==
  FnResult(i, parsed.items, IF out.kind = "exec" THEN out.code ELSE 0, FALSE)

(* The fnResult that do fills in: Results from parsing; ExitCode and      *)
(* Stderr from an ExecError; ExitCode stays 0 for any other error.        *)
DoFnResult(i, out, parsed) ==
  FnResult(i, parsed.items,
           IF out.kind = "exec" THEN out.code ELSE 0,
           out.kind = "exec" /\ out.stderr)

(* The error do returns: a result-parsing error is returned first, even  *)
(* when the function failed ("This may mask the original function exec   *)
(* error").                                                                *)
DoErr(i, out, doc) ==
  CASE ~ParseStructuredResult(doc).ok -> Err("result", i, 0)
    [] out.kind = "ok"                -> NoError
    [] OTHER                          -> AdapterErr(i, out)

(* The entries do appends: none when parsing failed, since do returns    *)
(* before `fr.fnResults.Items = append(...)`, one otherwise.              *)
DoEntries(i, out, doc) ==
  LET parsed == ParseStructuredResult(doc)
  IN  IF parsed.ok THEN <<DoFnResult(i, out, parsed)>> ELSE <<>>

(* Mutations: the assignment fnResults.ExitCode = 1 is dropped; or the   *)
(* function's own exit code is propagated as the ResultList's.            *)
DoExitCodeUnset(agg, out, doc) == agg
DoExitCodeFromFn(agg, out, doc) ==
  IF ParseStructuredResult(doc).ok /\ out.kind = "exec" THEN out.code ELSE agg

(* fnResults.ExitCode = 1 only on the ExecError branch.                    *)
DoExitCode(agg, out, doc) ==
  IF ParseStructuredResult(doc).ok /\ out.kind = "exec" THEN 1 ELSE agg

(* Mutation: Filter returns fnErr itself after printing it.             *)
FilterErrPassThrough(e, disableOutput) == e

(* Filter turns an ExecError into ErrAlreadyHandled after printing it;   *)
(* with disableOutput it returns do's error unchanged.                    *)
FilterErr(e, disableOutput) ==
  IF ~disableOutput /\ e.kind = "exec" THEN AlreadyHandled ELSE e

(* printFnResult: "Results:" and the items, when there are any.           *)
PrintFnResult(i, items) == IF items # <<>> THEN <<Ev("results", i, 0)>> ELSE <<>>

(* printFnExecErr: the stderr lines when non-empty, then the exit code.   *)
PrintFnExecErr(i, out) ==
  (IF out.stderr THEN <<Ev("stderr", i, 0)>> ELSE <<>>) \o <<Ev("exitcode", i, out.code)>>

(* What Filter prints around do.                                           *)
FilterPrints(i, out, doc, disableOutput) ==
  LET e     == DoErr(i, out, doc)
      items == ParseStructuredResult(doc).items
  IN  IF disableOutput THEN <<>>
      ELSE <<Ev("running", i, 0)>>
           \o IF e = NoError
              THEN <<Ev("pass", i, 0)>> \o PrintFnResult(i, items)
              ELSE <<Ev("fail", i, 0)>> \o PrintFnResult(i, items)
                   \o (IF e.kind = "exec" THEN PrintFnExecErr(i, out) ELSE <<>>)

(* FunctionRunner.Filter(input) for the function at pipeline position i. *)
(* On error it returns a nil output.                                       *)
FunctionRunnerFilter(i, out, doc, disableOutput, agg) ==
  LET e == DoErr(i, out, doc)
  IN  Step(e = NoError,
           FilterErr(e, disableOutput),
           DoEntries(i, out, doc),
           DoExitCode(agg, out, doc),
           FilterPrints(i, out, doc, disableOutput))
=============================================================================
