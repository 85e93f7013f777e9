----------------------------- MODULE ClusterStore ----------------------------
(***************************************************************************)
(* ClusterStore.ListClusters of the rollouts controller: one List of the  *)
(* ContainerClusters in config-control per label selector, the first      *)
(* list intersected by name with each later one, then sorted by name.     *)
(* Between two Lists the clusters may be created, deleted or relabelled  *)
(* by others; each List returns its items in any order (the client's     *)
(* cache keeps no order).  A cluster's name is a number whose order       *)
(* stands for strings.Compare; a selector is its matchLabels, {} being   *)
(* the nil selector that matches every cluster.                           *)
(***************************************************************************)
EXTENDS Naturals, Sequences, FiniteSets, TLC
LOCAL INSTANCE SequencesExt

CONSTANTS
  Clusters,      \* cluster names, a finite set of naturals
  Labels,        \* labels a cluster may carry
  Invalid,       \* a selector LabelSelectorAsSelector rejects
  SelectorSeqs,  \* the selector lists ListClusters may be called with
  MaxChanges,    \* bound on the changes others make
  ClusterConfig  \* each cluster's client configuration (see ClientConfigs)

Selectors == SUBSET Labels \cup {Invalid}

ASSUME Clusters \subseteq Nat /\ MaxChanges \in Nat
ASSUME SelectorSeqs \subseteq Seq(Selectors) /\ \A s \in SelectorSeqs : Len(s) > 0

Absent == [exists |-> FALSE, labels |-> {}]

(* What getRESTConfig reads of a cluster and of its namespace: the       *)
(* masterAuth CA certificate (nil, "", not base64, or good), whether      *)
(* status.endpoint is set, the ConfigConnectorContext (absent, a         *)
(* googleServiceAccount that is not a string, an empty one, or set), and *)
(* what the workload identity token source then does.                     *)
ClientConfigs ==
  [ca : {"nil", "empty", "bad", "ok"}, endpoint : BOOLEAN,
   ccc : {"missing", "notString", "empty", "ok"},
   token : {"sourceErr", "tokenErr", "ok"}]

ASSUME ClusterConfig \in [Clusters -> ClientConfigs]

Fail(e) == [ok |-> FALSE, err |-> e]
Done    == [ok |-> TRUE, err |-> "none"]

VARIABLES
  store,     \* the ContainerClusters of config-control, by name
  sels,      \* the selectors of the call
  pc,        \* "listing", "done" or "failed"
  k,         \* index of the selector listed next
  acc,       \* gkeClusters.Items: the names kept so far, in list order
  result,    \* the returned list of names
  changes,   \* changes made by others so far
  seen,      \* history: the names each List returned
  clients,   \* what GetCluster and GetClusterClient gave for each listed
             \* cluster the caller asked for
  stable     \* history: clusters present and matching every selector in
             \* every state since the call began

vars == <<store, sels, pc, k, acc, result, changes, seen, clients, stable>>

Matches(c, sel, st) == st[c].exists /\ sel # Invalid /\ sel \subseteq st[c].labels

MatchingAll(st, ss) ==
  {c \in Clusters : \A i \in 1..Len(ss) : Matches(c, ss[i], st)}

Init ==
  /\ store \in [Clusters -> {Absent} \cup [exists : {TRUE}, labels : SUBSET Labels]]
  /\ sels \in SelectorSeqs
  /\ pc = "listing"
  /\ k = 1
  /\ acc = <<>>
  /\ result = <<>>
  /\ changes = 0
  /\ seen = <<>>
  /\ clients = <<>>
  /\ stable = MatchingAll(store, sels)

(* listClusters(selector): the matching clusters, in any order.           *)
ListOrders(sel) == SetToSeqs({c \in Clusters : Matches(c, sel, store)})

(* The intersection with the first item of each list only: the inner     *)
(* loop's break taken whether or not the names are equal.                 *)
IntersectFirstOnly(items, listed) ==
  SelectSeq(items, LAMBDA c : Len(listed) > 0 /\ c = listed[1])

(* The intersection computed but never assigned back to gkeClusters.     *)
IntersectNone(items, listed) == items

(* The names of items also in listed, in the order of items.             *)
Intersect(items, listed) ==
  SelectSeq(items, LAMBDA c : \E i \in 1..Len(listed) : listed[i] = c)

(* An off-by-one on the selector loop: one List past the last selector.  *)
LastSelectorPastEnd(ss) == Len(ss) + 1

(* The index of the last selector listed: selectors[0], then selectors[1:]. *)
LastSelector(ss) == Len(ss)

(* One List of ListClusters: the first fills gkeClusters, each later one  *)
(* is intersected with it; after the last one the names are sorted and   *)
(* returned.  LabelSelectorAsSelector or List failing returns nil, err.  *)
ListSelector ==
  /\ pc = "listing"
  /\ \/ /\ sels[k] = Invalid
        /\ pc' = "failed"
        /\ UNCHANGED <<k, acc, result, seen>>
     \/ /\ sels[k] # Invalid
        /\ pc' = "failed"
        /\ UNCHANGED <<k, acc, result, seen>>
     \/ /\ sels[k] # Invalid
        /\ \E listed \in ListOrders(sels[k]) :
             LET items == IF k = 1 THEN listed ELSE Intersect(acc, listed)
             IN  /\ seen' = Append(seen, ToSet(listed))
                 /\ IF k = LastSelector(sels)
                    THEN /\ result' = SortSeq(items, <)
                         /\ pc' = "done"
                         /\ k' = k
                         /\ acc' = <<>>   \* the call's local list is gone
                    ELSE /\ k' = k + 1
                         /\ acc' = items
                         /\ UNCHANGED <<pc, result>>
  /\ UNCHANGED <<store, sels, changes, clients, stable>>

(* Others create, delete or relabel a cluster while the call runs.       *)
Change(c, v) ==
  /\ pc = "listing"
  /\ changes < MaxChanges
  /\ store[c] # v
  /\ store' = [store EXCEPT ![c] = v]
  /\ changes' = changes + 1
  /\ stable' = stable \cap MatchingAll(store', sels)
  /\ UNCHANGED <<sels, pc, k, acc, result, seen, clients>>

(* After the call, others may still delete a cluster it returned before  *)
(* the caller gets it.                                                     *)
DeleteListed(c) ==
  /\ pc = "done"
  /\ changes < MaxChanges
  /\ c \in ToSet(result) /\ store[c].exists
  /\ store' = [store EXCEPT ![c] = Absent]
  /\ changes' = changes + 1
  /\ UNCHANGED <<sels, pc, k, acc, result, seen, clients, stable>>

(* getConfigConnectorContextTokenSource: the ConfigConnectorContext of   *)
(* the namespace must exist and name a googleServiceAccount; the token    *)
(* source of that account's workload identity is then asked for.  The    *)
(* empty-account error formats the nil err with %w.                       *)
TokenSource(conf) ==
  CASE conf.ccc = "missing"   -> Fail("cccGet")
    [] conf.ccc = "notString" -> Fail("gsaRead")
    [] conf.ccc = "empty"     -> Fail("gsaMissing")
    [] conf.token = "sourceErr" -> Fail("tokenSource")
    [] OTHER                  -> Done

(* getRESTConfig: the CA must be set and decode, the endpoint be set and *)
(* a token be obtained, checked in this order.                            *)
GetRESTConfig(conf) ==
  CASE conf.ca \in {"nil", "empty"} -> Fail("caMissing")
    [] conf.ca = "bad"             -> Fail("caDecode")
    [] ~conf.endpoint              -> Fail("endpointEmpty")
    [] ~TokenSource(conf).ok        -> TokenSource(conf)
    [] conf.token = "tokenErr"     -> Fail("token")
    [] OTHER                       -> Done

(* GetCluster then GetClusterClient on a cluster ListClusters returned:  *)
(* the Get of config-control/name fails on an API error or when the      *)
(* cluster is gone; then the REST config; then client.New and            *)
(* dynamic.NewForConfig, either of which may fail.                        *)
GetClusterClient(c) ==
  /\ pc = "done"
  /\ c \in ToSet(result) \ DOMAIN clients
  /\ \E getOk, newOk \in BOOLEAN :
       LET out == CASE ~getOk              -> Fail("get")
                    [] ~store[c].exists    -> Fail("notFound")
                    [] ~GetRESTConfig(ClusterConfig[c]).ok -> GetRESTConfig(ClusterConfig[c])
                    [] ~newOk              -> Fail("newClient")
                    [] OTHER               -> Done
       IN  clients' = clients @@ (c :> out)
  /\ UNCHANGED <<store, sels, pc, k, acc, result, changes, seen, stable>>

Next ==
  \/ ListSelector
  \/ \E c \in Clusters, v \in {Absent} \cup [exists : {TRUE}, labels : SUBSET Labels] :
       Change(c, v)
  \/ \E c \in Clusters : DeleteListed(c)
  \/ \E c \in Clusters : GetClusterClient(c)

Spec == Init /\ [][Next]_vars

-----------------------------------------------------------------------------
TypeOK ==
  /\ pc \in {"listing", "done", "failed"}
  /\ k \in 1..Len(sels)
  /\ acc \in Seq(Clusters) /\ result \in Seq(Clusters)
  /\ changes \in 0..MaxChanges
  /\ seen \in Seq(SUBSET Clusters) /\ stable \subseteq Clusters
  /\ DOMAIN clients \subseteq ToSet(result)

(* What ListClusters returns is sorted by name, holds each cluster once, *)
(* and holds only clusters that the List of every selector returned: a   *)
(* cluster that stopped matching (or was deleted) before some selector's *)
(* List is not returned.                                                  *)
ListedClustersMatchedEverySelector ==
  pc = "done" =>
    /\ IsSorted(result, <)
    /\ Len(seen) = Len(sels)
    /\ \A c \in ToSet(result) : \A i \in 1..Len(sels) : c \in seen[i]

(* Every cluster that existed and matched every selector during the     *)
(* whole call is returned, whatever the order of the Lists' items and    *)
(* whatever others changed meanwhile.                                    *)
StableMatchingClustersListed ==
  pc = "done" => stable \subseteq ToSet(result)
=============================================================================
