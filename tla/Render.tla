-------------------------------- MODULE Render -------------------------------
(***************************************************************************)
(* The render pipeline of one package: the function runners are built up  *)
(* front from the Kptfile's declarations (config resolution included),    *)
(* then run strictly in declaration order, the output of one being the    *)
(* input of the next, stopping at the first error; the caller then prints *)
(* the returned error unless it is errors.ErrAlreadyHandled.  The         *)
(* orchestration (hydrate, the kio pipeline and the top-level error       *)
(* printing) is not among this repository's sources and is modelled from *)
(* the spec (sections 4.4 and 7); each function step is the runner's      *)
(* Filter, of the fnruntime runner or of the render runner (Runner).       *)
(***************************************************************************)
EXTENDS Naturals, Sequences, FiniteSets, FnConfig, FunctionRunner, RenderFunctionRunner

CONSTANTS
  NumFns,        \* number of functions in the Kptfile pipeline
  DeclSet,       \* the function declarations a Kptfile may hold
  MaxItems,      \* bound on the result items one function emits
  Runner         \* "fnruntime" or "cmdrender": which Filter runs a function

ASSUME NumFns \in Nat \ {0}
ASSUME DeclSet \subseteq Declarations
ASSUME Runner \in {"fnruntime", "cmdrender"}

Fns == 1..NumFns

NotRun == [kind |-> "notrun", code |-> 0, stderr |-> FALSE]

VARIABLES
  decls,          \* the declaration of each function, fixed
  disableOutput,  \* the fnruntime runners' disableOutput flag, fixed
  pc,             \* "init", "run", "halted", "done" or "reported"
  next,           \* position of the next function to run
  resources,      \* the resource list: the functions applied to it, in order
  fnResults,      \* the package's ResultList: [items, exitCode]
  printed,        \* everything printed so far, in order
  err,            \* the error the pipeline returns
  adapterOut,     \* history: what the adapter returned to each function
  inputs          \* history: the resources each function was given

vars == <<decls, disableOutput, pc, next, resources, fnResults, printed, err, adapterOut, inputs>>

Init ==
  /\ decls \in [Fns -> DeclSet]
  /\ disableOutput \in (IF Runner = "fnruntime" THEN BOOLEAN ELSE {FALSE})
  /\ pc = "init"
  /\ next = 1
  /\ resources = <<>>
  /\ fnResults = [items |-> <<>>, exitCode |-> 0]
  /\ printed = <<>>
  /\ err = NoError
  /\ adapterOut = [i \in Fns |-> NotRun]
  /\ inputs = [i \in Fns |-> <<>>]

(* Build a runner per declaration (NewContainerRunner / newFunctionRunner),*)
(* each resolving its config with its own package's newFnConfig; the     *)
(* first config error aborts the render before any function runs.       *)
BuildRunners ==
  LET config(d) == IF Runner = "fnruntime" THEN NewFnConfig(d) ELSE RenderNewFnConfig(d)
      bad == {i \in Fns : ~config(decls[i]).ok}
      first == CHOOSE i \in bad : \A j \in bad : i <= j
  IN  /\ pc = "init"
      /\ IF bad = {}
         THEN pc' = "run" /\ UNCHANGED err
         ELSE pc' = "halted" /\ err' = Err("config", first, 0)
      /\ UNCHANGED <<decls, disableOutput, next, resources, fnResults, printed, adapterOut, inputs>>

(* The runner's Filter for the function at position i.                    *)
RunnerFilter(i, out, doc) ==
  IF Runner = "fnruntime"
  THEN FunctionRunnerFilter(i, out, doc, disableOutput, fnResults.exitCode)
  ELSE RenderRunnerFilter(i, out, doc, fnResults.exitCode)

(* Mutation: the caller treats ErrAlreadyHandled as "nothing to do" and *)
(* goes on with the next function.                                         *)
StopsPipelineUnlessHandled(e) == e \notin {NoError, AlreadyHandled}

(* A runner's error stops the pipeline.                                     *)
StopsPipeline(e) == e # NoError

(* Run the next function on the current resources: the adapter returns   *)
(* out and the raw result document doc; the output replaces the resources *)
(* on success, and the first error stops the pipeline.                     *)
RunFunction(out, doc) ==
  LET s == RunnerFilter(next, out, doc)
  IN  /\ pc = "run"
      /\ next <= NumFns
      /\ fnResults' = [items |-> fnResults.items \o s.entries, exitCode |-> s.exitCode]
      /\ printed' = printed \o s.prints
      /\ adapterOut' = [adapterOut EXCEPT ![next] = out]
      /\ inputs' = [inputs EXCEPT ![next] = resources]
      /\ IF ~StopsPipeline(s.err)
         THEN /\ resources' = IF s.outputOk THEN Append(resources, next) ELSE <<>>
              /\ next' = next + 1
              /\ UNCHANGED <<pc, err>>
         ELSE /\ pc' = "halted"
              /\ err' = s.err
              /\ UNCHANGED <<resources, next>>
      /\ UNCHANGED <<decls, disableOutput>>

(* The position n is past the last function.                               *)
AllRan(n) == n > NumFns

(* Every function ran.                                                     *)
PipelineDone ==
  /\ pc = "run"
  /\ AllRan(next)
  /\ pc' = "done"
  /\ UNCHANGED <<decls, disableOutput, next, resources, fnResults, printed, err, adapterOut, inputs>>

(* The caller reports the outcome: it prints the error unless there is    *)
(* none or it is the sentinel ErrAlreadyHandled.                           *)
ReportResult ==
  /\ pc \in {"halted", "done"}
  /\ pc' = "reported"
  /\ printed' = IF err \in {NoError, AlreadyHandled} THEN printed
                ELSE Append(printed, Ev("error", err.fn, err.code))
  /\ UNCHANGED <<decls, disableOutput, next, resources, fnResults, err, adapterOut, inputs>>

Next ==
  \/ BuildRunners
  \/ \E out \in AdapterOutcomes, doc \in ResultDocs(MaxItems) : RunFunction(out, doc)
  \/ PipelineDone
  \/ ReportResult

Spec == Init /\ [][Next]_vars

(* The pipeline is a sequential loop that waits on nothing but the       *)
(* adapter.  Every outcome of RunFunction is a return of the adapter: the *)
(* engine sets no timeout (spec 5), so a function process that never      *)
(* exits is outside the model.  Under that assumption the loop always     *)
(* takes its next step: weak fairness on Next.                             *)
FairSpec == Spec /\ WF_vars(Next)

-----------------------------------------------------------------------------
(* Invariants and properties.                                              *)

Entry == [image : Fns, results : Seq(ResultItem), exitCode : ExitCodes \cup {0}, stderr : BOOLEAN]

TypeOK ==
  /\ decls \in [Fns -> DeclSet]
  /\ disableOutput \in BOOLEAN
  /\ pc \in {"init", "run", "halted", "done", "reported"}
  /\ next \in 1..NumFns + 1
  /\ resources \in Seq(Fns)
  /\ fnResults \in [items : Seq(Entry), exitCode : {0, 1}]
  /\ Len(fnResults.items) <= NumFns
  /\ err \in {NoError, AlreadyHandled}
             \cup {Err(k, i, 0) : k \in {"config", "result", "other"}, i \in Fns}
             \cup {Err("exec", i, c) : i \in Fns, c \in ExitCodes}
  /\ adapterOut \in [Fns -> AdapterOutcomes \cup {NotRun}]
  /\ inputs \in [Fns -> Seq(Fns)]

Invoked == {i \in Fns : adapterOut[i] # NotRun}
Ledger  == fnResults.items

(* The ledger entry of a function whose process failed carries that       *)
(* process's exit code and stderr: do copies them from the ExecError into *)
(* the fnResult it appends.                                                *)
LedgerExitCodeRecorded ==
  \A k \in DOMAIN Ledger :
    adapterOut[k].kind = "exec" =>
      /\ Ledger[k].exitCode = adapterOut[k].code
      /\ Ledger[k].stderr = adapterOut[k].stderr

(* The ResultList's exit code is non-zero exactly when some entry records *)
(* a failed process (spec 8, exit-code aggregation): do sets              *)
(* fnResults.ExitCode = 1 on the same path that records the exit code.    *)
AggregateExitCodeMatchesLedger ==
  fnResults.exitCode # 0 <=> \E k \in DOMAIN Ledger : Ledger[k].exitCode # 0

(* Once the render is over, its failure has been shown to the user        *)
(* exactly once and a success not at all: either the runner printed the   *)
(* exit code and returned ErrAlreadyHandled, or the caller printed the    *)
(* returned error (spec 7: "printed exactly once").                       *)
FailureReportedOnce ==
  pc = "reported" =>
    Cardinality({k \in DOMAIN printed : printed[k].ev \in {"exitcode", "error"}})
      = IF err = NoError THEN 0 ELSE 1

(* Every function that ran was given the output of all the functions     *)
(* before it, applied in declaration order: none runs after a failure or  *)
(* sees an earlier function skipped (spec 4.4 and 8, ordering; no retry).*)
FunctionsSeeEarlierOutputs ==
  \A i \in Invoked : inputs[i] = [k \in 1..(i - 1) |-> k]

(* The pipeline state seen through the abstract specification Pipeline.   *)
AbsStatus ==
  CASE pc = "init"     -> "building"
    [] pc = "run"      -> "running"
    [] pc = "halted"   -> "failed"
    [] pc = "done"     -> "succeeded"
    [] pc = "reported" -> IF err = NoError THEN "succeeded" ELSE "failed"

Abs == INSTANCE Pipeline WITH
         ledger  <- [k \in DOMAIN Ledger |-> Ledger[k].image],
         applied <- resources,
         status  <- AbsStatus

(* The render pipeline implements Pipeline (spec 4.4): each invocation   *)
(* adds exactly one ledger entry, in order, the resources hold exactly   *)
(* the outputs of the functions that succeeded, and the first failure    *)
(* ends the run with the partial ledger.                                  *)
PipelineImplemented == Abs!Spec
=============================================================================
