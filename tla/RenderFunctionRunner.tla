------------------------- MODULE RenderFunctionRunner ------------------------
(***************************************************************************)
(* cmdrender.functionRunner (internal/cmdrender/pipeline_function.go),   *)
(* the runner the render pipeline builds for each function: one call of   *)
(* Filter, with the do it calls, as a Step (FnAdapter).                    *)
(***************************************************************************)
EXTENDS Sequences, FnAdapter, ResultParsing

(* Mutation: do returns on error before appending fnResult.              *)
RenderDoEntriesOnSuccess(i, out, doc) ==
  IF out.kind = "ok" THEN <<FnResult(i, ToResultItems(doc).items, 0, FALSE)>> ELSE <<>>

(* do appends `fnResult` to fnResults.Items right after building it, as a *)
(* value: the later assignments of ExitCode and Stderr change the local   *)
(* copy only, so the entry keeps ExitCode 0 and an empty Stderr whatever  *)
(* the adapter returned.  The toResultItems error is discarded.           *)
RenderDoEntries(i, out, doc) ==
  <<FnResult(i, ToResultItems(doc).items, 0, FALSE)>>

(* do returns the adapter's error unchanged; there is no result-parse    *)
(* error to return.                                                        *)
RenderDoErr(i, out) ==
  IF out.kind = "ok" THEN NoError ELSE AdapterErr(i, out)

(* Mutation: Filter also prints the exit code of an ExecError, as        *)
(* printFnExecErr does, and still returns the error.                      *)
RenderFilterPrintsExecErr(i, out) ==
  <<Ev("running", i, 0), Ev(IF out.kind = "ok" THEN "pass" ELSE "fail", i, 0)>>
  \o (IF out.kind = "exec" THEN <<Ev("exitcode", i, out.code)>> ELSE <<>>)

(* Filter prints "[RUNNING]" and then "[FAIL]" or "[PASS]"; it prints    *)
(* neither results nor stderr, and returns do's error unchanged.          *)
RenderFilterPrints(i, out) ==
  <<Ev("running", i, 0), Ev(IF out.kind = "ok" THEN "pass" ELSE "fail", i, 0)>>

(* functionRunner.Filter(input) for the function at pipeline position i. *)
(* fnResults.ExitCode is never written.                                    *)
RenderRunnerFilter(i, out, doc, agg) ==
  Step(out.kind = "ok",
       RenderDoErr(i, out),
       RenderDoEntries(i, out, doc),
       agg,
       RenderFilterPrints(i, out))
=============================================================================
