------------------------------ MODULE PkgContext -----------------------------
(***************************************************************************)
(* The built-in package context generator                                  *)
(* (internal/builtins/pkg_context.go, PackageContextGenerator.Process):   *)
(* it drops every package-context ConfigMap from the resource list and    *)
(* appends a fresh one per Kptfile, next to that Kptfile, carrying the    *)
(* package name.  The state machine runs Process on an input resource     *)
(* list and then again on its own output, as a second render of the       *)
(* rendered package does.                                                  *)
(***************************************************************************)
EXTENDS Naturals, Sequences, FiniteSets

LOCAL INSTANCE SequencesExt

CONSTANTS
  Dirs,          \* directories of the package tree, "." being the root
  PkgNames,      \* package names a Kptfile may declare (metadata.name)
  Inputs         \* the resource lists the generator may be given

(* A resource is abstracted to its kind, metadata.name, the directory of *)
(* its config.kubernetes.io/path annotation, whether its metadata can be  *)
(* read (GetMeta) and, for a package context, its data.name.              *)
Resource(kind, name, dir, metaOk, data) ==
  [kind |-> kind, name |-> name, dir |-> dir, metaOk |-> metaOk, data |-> data]

PkgContextName == "kptfile.kpt.dev"
NoData         == "none"

Kptfile(d, n, ok)  == Resource("Kptfile", n, d, ok, NoData)
PkgContextCM(d, n) == Resource("ConfigMap", PkgContextName, d, TRUE, n)

(* gvk.Equals(configMapGVK) && resource.GetName() == pkgContextName       *)
IsPkgContext(r) == r.kind = "ConfigMap" /\ r.name = PkgContextName
(* gvk.Equals(kptfileGVK)                                                  *)
IsKptfile(r)    == r.kind = "Kptfile"

(* Mutations: the context is put at the root, path.Dir being left out;   *)
(* its data.name is taken from the Kptfile's directory.                    *)
PkgContextResourceAtRoot(kf) == [ok |-> kf.metaOk, res |-> PkgContextCM(".", kf.name)]
PkgContextResourceNamedByDir(kf) ==
  [ok |-> kf.metaOk, res |-> Resource("ConfigMap", PkgContextName, kf.dir, TRUE, kf.dir)]

(* pkgContextResource: the ConfigMap at path.Join(path.Dir(kptfilePath),  *)
(* PkgContextFile) with data {name: kf.GetName()}; reading the Kptfile's *)
(* file annotations fails when its metadata cannot be read.               *)
PkgContextResource(kf) ==
  [ok |-> kf.metaOk, res |-> PkgContextCM(kf.dir, kf.name)]

(* The Results the generator reports.                                      *)
InfoResult(d) == [severity |-> "info", dir |-> d]
ErrorResult   == [severity |-> "error", dir |-> NoData]

(* Process: one pass over the items keeps every non-context resource in  *)
(* order and collects a context per Kptfile; the contexts are appended    *)
(* after all kept items, each with an info result naming its path.  The   *)
(* first Kptfile whose context cannot be built makes Process return an    *)
(* error with a single error result and the items left as they were.     *)
(* Mutation: existing package contexts are not dropped.                  *)
KeptAll(items) == items

(* The items the loop keeps: all but the package contexts, in order.      *)
Kept(items) == SelectSeq(items, LAMBDA r : ~IsPkgContext(r))

Process(items) ==
  LET kept  == Kept(items)
      kfs   == SelectSeq(kept, IsKptfile)
      gen   == [k \in DOMAIN kfs |-> PkgContextResource(kfs[k])]
  IN  IF \E k \in DOMAIN gen : ~gen[k].ok
      THEN [ok |-> FALSE, items |-> items, results |-> <<ErrorResult>>]
      ELSE [ok |-> TRUE,
            items |-> kept \o [k \in DOMAIN gen |-> gen[k].res],
            results |-> [k \in DOMAIN gen |-> InfoResult(gen[k].res.dir)]]

VARIABLES
  input,         \* the resource list given to the first run
  resourceList,  \* [items, results] after the latest run
  runs,          \* number of runs of Process so far
  status,        \* "ok" or "failed": what the latest run returned
  firstOut       \* history: the resource list the first run produced

vars == <<input, resourceList, runs, status, firstOut>>

Init ==
  /\ input \in Inputs
  /\ resourceList = [items |-> input, results |-> <<>>]
  /\ runs = 0
  /\ status = "ok"
  /\ firstOut = resourceList

(* The first render runs the generator on the package's resources.        *)
Generate ==
  LET out == Process(input)
  IN  /\ runs = 0
      /\ resourceList' = [items |-> out.items, results |-> out.results]
      /\ status' = IF out.ok THEN "ok" ELSE "failed"
      /\ runs' = 1
      /\ firstOut' = resourceList'
      /\ UNCHANGED input

(* A second render runs it on the written output; the ResourceList the    *)
(* generator reads carries items only.                                     *)
Regenerate ==
  LET out == Process(resourceList.items)
  IN  /\ runs = 1
      /\ status = "ok"
      /\ resourceList' = [items |-> out.items, results |-> out.results]
      /\ status' = IF out.ok THEN "ok" ELSE "failed"
      /\ runs' = 2
      /\ UNCHANGED <<input, firstOut>>

Next == Generate \/ Regenerate

Spec == Init /\ [][Next]_vars

-----------------------------------------------------------------------------
(* Invariants.                                                             *)

ResultRecs == {InfoResult(d) : d \in Dirs} \cup {ErrorResult}

TypeOK ==
  /\ input \in Inputs
  /\ resourceList.items \in Seq({PkgContextCM(d, n) : d \in Dirs, n \in PkgNames} \cup ToSet(input))
  /\ resourceList.results \in Seq(ResultRecs)
  /\ runs \in 0..2
  /\ status \in {"ok", "failed"}

(* After a successful run every package has exactly one context, in its  *)
(* own directory and naming the package its Kptfile declares, and no     *)
(* context is left without a Kptfile: stale contexts of earlier renders   *)
(* (a renamed or removed package) are gone (spec 3, package context       *)
(* resource).  Concerns Process dropping contexts before appending.       *)
ContextPerPackage ==
  LET items == resourceList.items
      ctxIn(d) == {j \in DOMAIN items : IsPkgContext(items[j]) /\ items[j].dir = d}
  IN  (runs > 0 /\ status = "ok") =>
        /\ \A k \in DOMAIN items :
              IsKptfile(items[k]) =>
                /\ \E j \in ctxIn(items[k].dir) : ctxIn(items[k].dir) = {j}
                /\ \A j \in ctxIn(items[k].dir) : items[j].data = items[k].name
        /\ \A j \in DOMAIN items :
              IsPkgContext(items[j]) => \E k \in DOMAIN items : IsKptfile(items[k]) /\ items[k].dir = items[j].dir

(* Running the generator on its own output changes nothing: the second   *)
(* render produces the same items and results as the first (spec 8,      *)
(* idempotence).                                                           *)
Idempotent ==
  runs = 2 => resourceList = firstOut
=============================================================================
