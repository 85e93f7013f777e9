# kpt function pipeline: TLA+ models

This directory holds TLA+ models of the function pipeline engine in this
repository (kpt): the runners that run one function and fold its outcome into
the package's result ledger, the parsing of a function's structured results,
the resolution of a function's config, the built-in package context
generator, and the render pipeline that chains the runners. The models are
checked with TLC. Every definition is translated from the Go sources under
`src/`. The orchestration code (`hydrate`, the kio pipeline and the command's
error printing) is not under `src/`, so it is modelled from `spec.md` and
marked `spec_modelled` in `PROJECT.json`.

## 1. Inventory

### Components, their state and operations

| Component | Source | State it keeps | Operations |
|---|---|---|---|
| Function runner (fnruntime) | `internal/fnruntime/runner.go` | `fnResult` (one per runner: Image, Results, ExitCode, Stderr); the shared `fnResults` ResultList (Items, ExitCode); the printer | `NewContainerRunner`, `NewFunctionRunner`, `Filter`, `do`, `parseStructuredResult`, `printFnResult`, `printFnExecErr`, `multiLineFormatter.String`, `resultToString` |
| Render function runner (cmdrender) | `internal/cmdrender/pipeline_function.go` | the shared `hctx.fnResults`; the printer | `newFunctionRunner`, `Filter`, `do`, `toResultItems` |
| Function config resolver | `newFnConfig`, in both files above (same body) | none (reads the config file) | `newFnConfig` |
| Function execution adapter | outside `src/` (`runtimeutil.FunctionFilter`, `ContainerFn`) | `FunctionFilter.Results` | `Filter`: run the process, return output, an `ExecError` or another error |
| Pipeline orchestrator | outside `src/` (`hydrate`) | the resource list threaded between functions; the ledger | build all runners, run them in order, stop at the first error; the caller prints the error unless it is `ErrAlreadyHandled` |
| Package context generator | `internal/builtins/pkg_context.go` | none (a pure pass over a ResourceList) | `Run`, `Process`, `pkgContextResource`, `DummyPkgContext` |
| Error model | `internal/errors/errors.go` | error values: a chain of frames {Op, Path, Fn, Class, Err} | `E` (build, deduplicating fields shared with the wrapped frame, on a copy), `Error` (render), `Zero`, `Class.String` |
| Cluster store (rollouts) | `rollouts/pkg/clusterstore/clusterstore.go` | a controller-runtime client | `ListClusters` (intersect selector results, sort by name), `GetCluster`, `GetClusterClient`, `getRESTConfig`, token source |
| ResourceGroup inventory | `pkg/live/inventoryrg.go` | the wrapped ResourceGroup `inv`, the pending `objMetas` | `Load`, `Store`, `GetObject`, `ID`, `IsResourceGroupInventory` |
| Porch init mutation | `porch/engine/pkg/engine/init.go` | none | `Apply` |
| Rollout API types, CLI wiring, generated docs | `rollouts/api/...`, `commands/...`, `rollouts/cli/main.go`, `internal/docs/...` | none | none that change state |

### How they interact

The render pipeline builds one runner per function declared in the Kptfile.
Building a runner resolves its config (`newFnConfig`); a config error aborts
the render before any function runs. The runners then run in declaration
order: each `Filter` call hands the current resources to the adapter, parses
the raw result document the adapter left in `FunctionFilter.Results`, appends
a `fnresult.Result` to the ResultList shared by all runners of the package,
and prints progress. The output of one runner is the input of the next. The
first error stops the pipeline. The fnruntime runner prints an `ExecError`
itself and returns the sentinel `errors.ErrAlreadyHandled`, which tells the
caller not to print it again. The package context generator runs ahead of the
user's functions: it replaces every package-context ConfigMap with a fresh one
per Kptfile. Errors crossing these layers are wrapped with `errors.E`.

### What is hard

Nothing in the engine runs concurrently: a package's pipeline is sequential
and its ledger is not shared. The rollouts cluster store does run
concurrently with others, who change the clusters it lists. The hard part is
the sequencing within one `Filter` call and across the runner/caller
boundary:

- Several outcomes arrive at once: an execution error and a result document
  that may fail to parse. The order in which `do` examines them decides what
  is recorded and what is shown.
- The ledger is shared by the runners through a pointer, and entries are Go
  values. An entry appended before it is filled in stays incomplete.
- The print-once contract is split across two layers through a sentinel
  error.
- The context generator's input may contain the output of an earlier render:
  stale contexts, renamed packages and Kptfiles it cannot read.
- `ListClusters` makes one List call per selector. Other controllers and
  users create, delete and relabel clusters between those calls, and the
  cached client returns items in no order.
- The inventory wrapper keeps two versions apart: `Load` reads the wrapped
  object, while `Store` and `GetObject` build the next one on a copy.
- `E` rewrites the frame it wraps. Only the copy it takes keeps errors that
  other callers hold intact.

### What makes each component correct

- Runners and pipeline: one ledger entry per invocation, in order, failed or
  not. A failed process's exit code and stderr are in its entry. The aggregate
  exit code is non-zero exactly when a function failed. Every failure is shown
  to the user exactly once, with its exit code. Nothing runs after the first
  failure.
- Printing a failure: each result and each stderr line on one output line.
  With truncation on, only the first lines up to the cap are printed,
  followed by the exact number of lines left out.
- Result parsing: the bare list and the wrapped mapping give the same items.
- Config resolution: the file path takes precedence over inline config, and
  inline config over the config map. An empty config map gives no config.
- Package context: exactly one context per package, in its directory, naming
  the package. Running the generator twice equals running it once.
- Error model: wrapping never alters the wrapped error. A field equal to the
  wrapped frame's is shown once. Rendering keeps every fragment of the chain.
- Cluster store: only clusters every selector matched are returned, in name
  order. No cluster that matched throughout the call is missed.
- Inventory: what is stored and written loads back unchanged. The wrapper's
  `Load` is the previous inventory until the new one is wrapped. An apply
  keeps the inventory's identity (its inventory-id label and kind), so the
  next apply finds it.

## 2. Plan

Modules, in the order they are built (the most important behaviour first):

1. `ResultParsing`, `FnConfig`, `FnAdapter`: the values the runners
   exchange. These are pure operators: the result parsers, config resolution,
   the adapter's outcomes, ledger entries and errors. *(done)*
2. `FunctionRunner`, `RenderFunctionRunner`: one `Filter` call of each
   runner, as a pure function from the adapter's outcome to a `Step`.
   *(done)*
3. `Render`: the pipeline composing the runners (constant `Runner`), with
   `MCRender` and one cfg per question. *(done)*
4. `PkgContext`: `Process` and a two-render state machine, with
   `MCPkgContext`. *(done)*
5. `Errors`: `E` and `Error()` over a heap of frames, so that the copy
   `E` makes of a wrapped `*Error`, and what other callers still hold, are
   both visible. *(done)*
6. An abstract `Pipeline` specification (spec 4.4). `Render` with the render
   runner refines it (`INSTANCE ... WITH`, checked as a PROPERTY, the
   abstract fairness included). The fnruntime runner does not
   refine it. *(done)*
7. `ClusterStore`: `ListClusters` with clusters changing between its List
   calls. `Inventory`: the `Store`, `GetObject`, `Load` round trip. *(done)*
8. Compose `PkgContext` into `Render` as the first stage (the resource list
   becomes records). Deferred: hydrate, which chains them, is not under
   `src/`. The first function would see exactly what `pkg_context` already
   checks, and later functions may rewrite contexts as they like. The
   composed property would hold by the model's shape.
9. `LineFormatter`: `multiLineFormatter`, `resultToString` and the stderr
   split, checked against the truncation policy (spec 4.3). *(done)*
10. The rest of the cluster store and the inventory: `GetCluster`,
    `GetClusterClient` and `getRESTConfig` after `ListClusters`;
    `ID` and `IsResourceGroupInventory` on objects with a label and a kind.
    *(done)*

The project is held to at most twelve runs. Step 9 took the place of two
violation runs, whose observations are kept under "Known divergences"
below.

## 3. Modules

| Module | Models | Notes |
|---|---|---|
| `ResultParsing` | `parseStructuredResult`, `toResultItems` | A document is its YAML shape (`none`, `bare`, `wrapped`, `malformed`) plus the items it holds. |
| `FnConfig` | `newFnConfig` | A declaration records which sources are set, and what reading the config file gives. |
| `FnAdapter` | the adapter's contract; ledger entry, error, print event, `Step` | The adapter is external: `spec_modelled`. |
| `FunctionRunner` | fnruntime `FunctionRunner.Filter` and `do`, `printFnResult`, `printFnExecErr` | `FunctionRunnerFilter(i, out, doc, disableOutput, agg)` is the whole `Filter` call. |
| `RenderFunctionRunner` | cmdrender `functionRunner.Filter` and `do` | The by-value append is modelled as it is: the entry keeps exit code 0. |
| `Render` | the pipeline (hydrate), composing the runners | Variables: `decls`, `disableOutput`, `pc`, `next`, `resources`, `fnResults`, `printed`, `err`, `adapterOut` (a history of the adapter's answers) and `inputs` (a history of the resources each function was given). Actions: `BuildRunners`, `RunFunction(out, doc)`, `PipelineDone`, `ReportResult`. `FairSpec` adds weak fairness. `Abs` is the refinement mapping to `Pipeline`. |
| `Pipeline` | spec 4.4: what a render promises | Variables: `ledger`, `applied`, `status`. Actions: `Build`, `Invoke` (record, then continue or fail), `Finish`. |
| `PkgContext` | `PackageContextGenerator.Process`, `pkgContextResource` | Variables: `input`, `resourceList`, `runs`, `status`, `firstOut`. Actions: `Generate` (first render), `Regenerate` (render of the rendered output). |
| `Errors` | `errors.E`, `(*Error).Error`, `Zero` | `heap` holds the frames by address. `made` records each error `E` returned, its arguments and its text when built. One action, `MakeError(a)`: a call of `E` whose cause is any error returned before. `Render(h, id)` is `Error()`, as the sequence of fragments it writes. |
| `ClusterStore` | `ClusterStore.ListClusters`, `listClusters` | `store` is config-control's ContainerClusters. `ListSelector` is one List plus the intersection (and the sort after the last List). `Change(c, v)` is someone else creating, deleting or relabelling a cluster between two Lists. `DeleteListed(c)` is a returned cluster deleted after the call. `GetClusterClient(c)` is `GetCluster` followed by `GetClusterClient`, with `GetRESTConfig` and `TokenSource` checking the cluster's configuration in the code's order. |
| `Inventory` | `InventoryResourceGroup`: `WrapInventoryObj`, `Load`, `Store`, `GetObject`, `ID`; `IsResourceGroupInventory` | `inv` is the wrapped object, `objMetas` the stored metadata, `live` the cluster's ResourceGroup. `ApplyInventory` is `GetObject` followed by the applier writing its result to the cluster. |
| `LineFormatter` | `printFnResult` and `printFnExecErr`'s lines, `multiLineFormatter.String`, `resultToString` | Variables: `stderr`, `results`, `truncateOutput`, `stderrOut`, `resultsOut`. Actions: `PrintFnExecErr`, `PrintFnResult`. `Split` is `strings.Split(s, "\n")`, `TruncLoop` the loop with its `break`, `Format` the whole `String`. |
| `MCRender`, `MCResultParsing`, `MCPkgContext`, `MCErrors`, `MCClusterStore`, `MCLineFormatter` | model-checking instances | constants and input sets |

How state and actions correspond to the code:

- `RunFunction(out, doc)` is one whole `Filter` call. It prints
  `[RUNNING]`, calls `do` (adapter, result parsing, ledger append, exit
  code), prints `[PASS]` or `[FAIL]`, the results and the exec error, and
  returns. The pipeline then takes the output or stops. `out` ranges over
  the adapter's outcomes and `doc` over the raw result documents.
- `fnResults` is the `ResultList` (`Items`, `ExitCode`). `printed` is the
  sequence of printer calls, abstracted to their kind, function and exit
  code. Wording and layout are left out.
- The resource list is the sequence of functions applied to it, in order.
  When a runner returns an error its output is nil, modelled as the empty
  list.
- In `Errors`, an argument list of `E` is folded to the last value of each
  type it holds, since that is what the loop keeps. A wrapped `*Error`
  becomes a new frame, the copy, and the new frame points to it. The copy
  shares the original's own cause, as `cp := *a` does. `ClassString` is
  `Class.String`, the text of the class fragment.
- In `ClusterStore`, cluster names are numbers whose order stands for
  `strings.Compare`. A selector is its `matchLabels` (`{}` is the nil
  selector). `Invalid` is a selector that `LabelSelectorAsSelector`
  rejects. What `getRESTConfig` reads of a cluster (CA, endpoint, the
  namespace's ConfigConnectorContext, the token source) is a record, fixed
  per cluster by the constant `ClusterConfig`. The list `ListClusters`
  builds is reset when it returns, since it is a local of the call.
- In `LineFormatter`, text is a sequence of tokens: words, `NL` and `SP`.
  A printed line keeps its tokens, with `NL` replaced by `SP` as
  `strings.ReplaceAll` does. Indentation, `%q` quoting and the hint's
  wording are left out. `String` sets `MaxLines` to
  `FnExecErrorTruncateLines` whatever the caller gave. No caller sets it, so
  the cap is the constant.
- In `Inventory`, an item's string fields are abstracted to their trimmed
  value and whether they carry spaces. `strings` is FALSE when a field is
  not a string, which makes `NestedString` fail. An object carries its
  inventory-id label (`""` when it has none) and its group/kind.
  `GetObject`'s deep copy is `[inv EXCEPT ...]`, so everything but
  `spec.resources` is kept.

## 4. Runs

| Run | cfg | Expect | What it shows |
|---|---|---|---|
| `render_fnruntime` | `MCRender_fnruntime.cfg` | pass | fnruntime runner: the failed exit code and stderr are in the ledger (`LedgerExitCodeRecorded`). The aggregate exit code is non-zero exactly when an entry records a failure (`AggregateExitCodeMatchesLedger`). Every failure is shown exactly once: the runner prints the exit code and returns `ErrAlreadyHandled`, or the caller prints (`FailureReportedOnce`). Every function that ran was given the outputs of all earlier functions, in order, so nothing runs after a failure (`FunctionsSeeEarlierOutputs`). |
| `render_cmdrender` | `MCRender_cmdrender.cfg` | pass | Render runner: `Render` implements `Pipeline` (`PipelineImplemented`): one ledger entry per invocation, in order, the resources hold exactly the successful outputs, and the run halts at the first failure. `FailureReportedOnce` holds. |
| `fnruntime_ledger_gap` | `MCRender_fnruntime_ledger.cfg` | violation | With the fnruntime runner, `Render` does not implement `Pipeline`. When the result document cannot be parsed, the function that ran gets no ledger entry. |
| `cmdrender_exit_code_lost` | `MCRender_cmdrender_exitcode.cfg` | violation | The render runner records every failed function with exit code 0. |
| `wrapped_results_render` | `MCResultParsing_wrapped_render.cfg` | violation | `toResultItems` drops the items of the wrapped shape. |
| `pkg_context` | `MCPkgContext.cfg` | pass | After the generator there is exactly one context per package, naming it (`ContextPerPackage`). A second run changes nothing (`Idempotent`). That other resources are kept in order is not stated: it holds by the same filter the model's `Kept` is, whatever the code does. |
| `errors` | `MCErrors.cfg` | pass | An error keeps its text after it is wrapped (`WrappingPreservesWrapped`): the copy in `E` protects it. The text of a wrapping error shows every field given to `E` and every fragment of its cause (`RenderKeepsEveryFragment`). `TypeOK` also states that every cause is an earlier frame, so `Error()` ends. |
| `errors_plain_wrapper` | `MCErrors_wrap.cfg` | violation | An `*Error` wrapped by `fmt.Errorf("...: %w")` and passed to `E` renders without the plain error's message: `Error()` uses `As`, which skips to the `*Error`. |
| `clusterstore` | `MCClusterStore.cfg` | pass | `ListClusters` returns clusters sorted by name, each once, and only clusters that every selector's List returned (`ListedClustersMatchedEverySelector`). Every cluster that matched all selectors throughout the call is returned, whatever order the Lists give and whatever others change in between (`StableMatchingClustersListed`). |
| `inventory` | `MCInventory.cfg` | pass | What `GetObject` writes loads back as the stored metadata, in order, including the empty inventory (`InventoryRoundTrip`). A wrapper's `Load` returns what it returned when wrapped, even after `Store` and `GetObject` (`LoadUnchangedUntilRewrapped`), because `GetObject` works on a deep copy. An apply never changes the live inventory's inventory-id label or kind, so the next apply finds it again by ID (`InventoryIdentityKept`, an action property). |
| `line_formatter` | `MCLineFormatter.cfg` | pass | `multiLineFormatter.String` prints exactly what the truncation policy asks for the lines it is given: the first `FnExecErrorTruncateLines` lines, then the exact count of those left out, for result lines and stderr lines alike, below, at and above the cap (`FormatterFollowsTruncationPolicy`). No printed line holds a newline (`TypeOK`). |
| `stderr_trailing_newline` | `MCLineFormatter_stderr.cfg` | violation | `printFnExecErr` splits stderr at every `"\n"`. Stderr that ends in a newline, as process output does, gains an empty last line. That line is printed as `""`, and when the real lines are exactly the cap, it is reported as one line truncated although none was left out. |

Every property of a passing run has a mutant in `PROJECT.json`: an operator
defined just before the one it replaces, marked as a mutation or a slip in
the module. Each is a plausible bug in that code:

- a dropped assignment;
- a missing copy (in `E` or in `GetObject`);
- the sentinel passed through;
- a missing `path.Dir`;
- a misplaced `break` in the intersection loop;
- the loop's end test off by one;
- a field written from the wrong source.

TLC finds each one.

Observed, and not a property: `E(pkg a, E(pkg b, E(pkg a)))` renders
`pkg a` twice. The overlap rule compares a frame with its immediate cause
only, and spec 8's test covers only that adjacent case.

### Bounds

- `MCRender`: 3 functions, so that a failure can happen before, at and after
  the middle of the pipeline, and a function can run after an earlier
  success. 1 result item, with documents of at most 1 item: the empty and
  the non-empty cases of both shapes. 2 exit codes, with and without stderr:
  a code other than 1 tells the function's exit code apart from the
  aggregate's. 2 declarations: a config map, and a config file that is
  missing, so that a config error can hit any function. For the fnruntime
  runner, both values of `disableOutput`. All outcomes of every call are
  explored.
- `MCPkgContext`: every list of at most 3 resources drawn from Kptfiles
  (root or subpackage, two names, readable or not), contexts (either
  directory, either name) and a user ConfigMap, with at most one Kptfile per
  directory. This covers stale contexts, renamed packages, contexts without
  a package, duplicate contexts and unreadable Kptfiles.
- `MCResultParsing`: every document of at most 2 items over 2 items.
- `MCErrors`: heaps of at most 4 frames, which allows three calls of `E` on
  non-`*Error` causes, or one `E` wrapping an `*Error` (two frames, the copy
  and the new one) and one more call. A wrap of a wrapped error needs five
  frames and is not reached at this bound. Two paths make both equal and different paths
  meet. One operation, one function name, class Other and one other class,
  and one plain message. Every field of the overlap rule is exercised.
  Bound 5 (three nested errors) gives 13.6M states and was used once, to
  find the non-adjacent repetition above.
- `MCClusterStore`: 3 clusters, 2 labels (symmetric), every selector list of
  length 1 to 3 over the four label sets and an invalid selector, any
  initial store, and up to 3 changes by others during the call. Each List
  returns its items in every order. Three changes let a cluster be changed
  twice between two Lists, or once in each gap of a three-selector call.
  After the call a returned cluster may be deleted before it is fetched.
  The three clusters' configurations are complete, without an endpoint,
  and with an empty service account. So a fetch can fail on the API, on a
  deleted cluster, on the configuration or on client construction, or
  succeed (4.8M states, about a minute).
- `MCLineFormatter`: a cap of 2 lines (kpt's constant is defined outside
  the excerpt; the algorithm does not depend on its value). Every stderr of
  at most 6 tokens over one word and the newline: 0 to 7 lines, with and
  without a trailing newline, and empty lines. Every list of at most 3
  results, with and without severity, kind, name and file, and messages
  with and without a newline. Both values of `TruncateOutput`. This covers
  fewer lines than the cap, exactly the cap and more.
- `MCInventory`: objects of at most 2 items, from 2 namespaces, with and
  without padded group and kind, and with and without a non-string field.
  The nil object and the object without `spec.resources` are included.
  Each object has or lacks the inventory-id label and is a ResourceGroup or
  a ConfigMap (583k states).

### Fairness

`Render`'s `FairSpec` assumes weak fairness of `Next`. The pipeline is a
single-threaded loop (spec 5) that waits only on the adapter, and every
adapter outcome in the model is a return. The engine sets no timeout of its
own, so a function process that never exits is outside the model. That is
why no termination property is stated: in a finite, loop-free pipeline it
would follow from the fairness assumed, and the one real threat, a hung
function, is assumed away. `FairSpec` is kept only because
`PipelineImplemented` includes the abstract specification's own fairness. The other models are acyclic and
end. Their cfgs say `CHECK_DEADLOCK FALSE` where the modelled operation
simply ends: a render reports, an `E` heap fills, a `ListClusters` call
returns. The inventory model never stops, since wrap, store and apply can
always repeat.

### Known divergences without a run

- A result document that cannot be parsed masks an `ExecError`. `do`
  returns the parse error, so the exit code and stderr are never shown
  (`runner.go:125`). Spec section 9 records this as an open question, and
  the source comment flags it.
- The aggregate exit code is set to 1 only on the `ExecError` path
  (`runner.go:137`). A parse error or another adapter error ends the render
  with `ExitCode` 0. Spec 4.3 step 5 describes exactly this, while spec 3
  says the aggregate is non-zero if any invocation failed.

## 5. Not modelled

- The wording of messages and the layout of printed text.
- Container execution, cancellation, mounts and network policy. These
  belong to the external adapter; only its outcomes are modelled.
- `DummyPkgContext`: a constant template string.
- Rollout types, CLI wiring and generated docs: they hold no state.
- Porch init: an in-memory filesystem and an external initializer.
- The cluster store's `PrintClusterInfos`: logging only. The text of the
  errors `getRESTConfig` returns: the empty-service-account error at
  `clusterstore.go:196` formats a nil `err` with `%w`. So its message ends
  in `%!w(<nil>)`, and it unwraps to nothing. No property concerns the
  wording.
- The inventory's `Name`, `Namespace` and `InvToUnstructuredFunc`: reads of
  one field of the wrapped object.
- `errors.Is` and `Unwrap`: the standard library's chain walk. `As` is
  `AsError`, used by `Render`.
