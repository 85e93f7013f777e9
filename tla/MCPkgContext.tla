----------------------------- MODULE MCPkgContext ----------------------------
(* Model-checking instance of PkgContext: a root package and a           *)
(* subpackage, two package names, resource lists of up to three items.   *)
EXTENDS PkgContext, SequencesExt

MCDirs     == {".", "sub"}
MCPkgNames == {"a", "b"}

(* A ConfigMap of the user's own, which the generator must keep.          *)
UserConfigMap == Resource("ConfigMap", "user", ".", TRUE, NoData)

Universe ==
  {Kptfile(d, n, ok) : d \in MCDirs, n \in MCPkgNames, ok \in BOOLEAN}
  \cup {PkgContextCM(d, n) : d \in MCDirs, n \in MCPkgNames}
  \cup {UserConfigMap}

(* Resource lists read from a package: at most one Kptfile per directory.*)
MCInputs ==
  {s \in BoundedSeq(Universe, 3) :
     \A i, j \in DOMAIN s : IsKptfile(s[i]) /\ IsKptfile(s[j]) /\ s[i].dir = s[j].dir => i = j}
=============================================================================
