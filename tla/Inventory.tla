------------------------------ MODULE Inventory ------------------------------
(***************************************************************************)
(* The ResourceGroup inventory of pkg/live (InventoryResourceGroup): a    *)
(* wrapper around the inventory object inv and the ObjMetadata given to   *)
(* Store.  Store only keeps them; GetObject writes them into a deep copy  *)
(* of inv, which the applier applies to the cluster; Load reads          *)
(* spec.resources of inv.  The cluster's live ResourceGroup is wrapped   *)
(* again by the next apply.  A string field of an item is abstracted to  *)
(* its trimmed value and whether it carries surrounding spaces.           *)
(***************************************************************************)
EXTENDS Naturals, Sequences, FiniteSets

CONSTANTS
  Namespaces,    \* object namespaces, "" included
  Names,         \* object names
  Groups,        \* API groups, "" included (the core group)
  Kinds,         \* kinds
  InventoryIDs,  \* values of the inventory-id label, "" for no label
  InvKinds,      \* group/kind of an inventory object
  MaxObjs        \* bound on the objects an inventory lists

(* ResourceGroupGVK, the kind an inventory of this package is stored as.  *)
ResourceGroupGK == "kpt.dev/ResourceGroup"

(* An inventory object: nil, or its inventory-id label and group/kind,   *)
(* whether spec.resources is set and its items.                           *)
Obj(id, gk, has, res) == [nil |-> FALSE, id |-> id, gk |-> gk, has |-> has, resources |-> res]
Nil                   == [nil |-> TRUE, id |-> "", gk |-> "", has |-> FALSE, resources |-> <<>>]

(* ID: the inventory-id label's value, "" when it has none.               *)
ID(o) == o.id

(* IsResourceGroupInventory: nil is an error; an object is a ResourceGroup *)
(* inventory when it carries the inventory label and is a ResourceGroup.  *)
IsResourceGroupInventory(o) ==
  IF o = Nil THEN [ok |-> FALSE, is |-> FALSE]
  ELSE [ok |-> TRUE, is |-> o.id # "" /\ o.gk = ResourceGroupGK]

(* An ObjMetadata, and the item GetObject writes for it.                  *)
Meta == [ns : Namespaces, name : Names, group : Groups, kind : Kinds]
Str(v, padded) == [v |-> v, padded |-> padded]

(* A copy-paste slip: the item's kind written from the group.            *)
ItemKindFromGroup(m) == [ns |-> m.ns, name |-> m.name, group |-> Str(m.group, FALSE),
                         kind |-> Str(m.group, FALSE), strings |-> TRUE]

Item(m) == [ns |-> m.ns, name |-> m.name, group |-> Str(m.group, FALSE),
            kind |-> Str(m.kind, FALSE), strings |-> TRUE]

(* An item as found in a ResourceGroup; strings is FALSE when one of its *)
(* fields is not a string; a missing field reads as "".                   *)
RawItems ==
  [ns : Namespaces, name : Names \cup {""}, group : {Str(g, p) : g \in Groups, p \in BOOLEAN},
   kind : {Str(k, p) : k \in Kinds \cup {""}, p \in BOOLEAN}, strings : BOOLEAN]

BoundedSeqs(S) == UNION {[1..n -> S] : n \in 0..MaxObjs}

Objects == {Nil} \cup {Obj(id, gk, FALSE, <<>>) : id \in InventoryIDs, gk \in InvKinds}
           \cup {Obj(id, gk, TRUE, r) : id \in InventoryIDs, gk \in InvKinds,
                                         r \in BoundedSeqs(RawItems)}

(* Load: nil inv is an error; no spec.resources is an empty inventory;    *)
(* group and kind are trimmed (strings.TrimSpace); an item whose fields   *)
(* cannot be read as strings, or that CreateObjMetadata rejects (no name  *)
(* or no kind), makes the whole Load an error.                            *)
BadItem(it) == ~it.strings \/ it.name = "" \/ it.kind.v = ""

Load(inv) ==
  IF inv = Nil THEN [ok |-> FALSE, objs |-> <<>>]
  ELSE IF ~inv.has THEN [ok |-> TRUE, objs |-> <<>>]
  ELSE IF \E i \in DOMAIN inv.resources : BadItem(inv.resources[i])
       THEN [ok |-> FALSE, objs |-> <<>>]
  ELSE [ok |-> TRUE,
        objs |-> [i \in DOMAIN inv.resources |->
                    LET it == inv.resources[i]
                    IN  [ns |-> it.ns, name |-> it.name,
                         group |-> it.group.v, kind |-> it.kind.v]]]

(* A slip: the wrapped object returned as it is, the stored metadata     *)
(* never written.                                                          *)
GetObjectResultIgnoresStore(inv, metas) ==
  IF inv = Nil THEN [ok |-> FALSE, obj |-> Nil] ELSE [ok |-> TRUE, obj |-> inv]

(* A slip: a new ResourceGroup built for the stored metadata in place of *)
(* the copy of inv, its labels (the inventory id) not carried over.       *)
GetObjectResultFresh(inv, metas) ==
  IF inv = Nil THEN [ok |-> FALSE, obj |-> Nil]
  ELSE [ok |-> TRUE,
        obj |-> IF metas = <<>> THEN Obj("", ResourceGroupGK, FALSE, <<>>)
                ELSE Obj("", ResourceGroupGK, TRUE, [i \in DOMAIN metas |-> Item(metas[i])])]

(* GetObject: a deep copy of inv with spec.resources set to the stored   *)
(* metadata, or removed when there is none; nil inv is an error.          *)
GetObjectResult(inv, metas) ==
  IF inv = Nil THEN [ok |-> FALSE, obj |-> Nil]
  ELSE [ok |-> TRUE,
        obj |-> IF metas = <<>> THEN [inv EXCEPT !.has = FALSE, !.resources = <<>>]
                ELSE [inv EXCEPT !.has = TRUE,
                                 !.resources = [i \in DOMAIN metas |-> Item(metas[i])]]]

VARIABLES
  inv,        \* the wrapped ResourceGroup
  objMetas,   \* what Store was last given
  live,       \* the ResourceGroup on the cluster
  written,    \* history: [some, metas]: the metadata GetObject last wrote
  loaded      \* history: what Load returned when inv was wrapped

vars == <<inv, objMetas, live, written, loaded>>

Init ==
  /\ live \in Objects
  /\ inv = live
  /\ objMetas = <<>>
  /\ written = [some |-> FALSE, metas |-> <<>>]
  /\ loaded = Load(inv)

(* WrapInventoryObj on the live object (or on nil): a fresh wrapper.      *)
WrapInventoryObj(obj) ==
  /\ inv' = obj
  /\ objMetas' = <<>>
  /\ loaded' = Load(obj)
  /\ UNCHANGED <<live, written>>

(* Store keeps the metadata; nothing is written yet.                      *)
Store(metas) ==
  /\ objMetas' = metas
  /\ UNCHANGED <<inv, live, written, loaded>>

(* A slip: spec.resources set on inv itself instead of on a deep copy.   *)
GetObjectInPlace(metas) ==
  /\ inv # Nil
  /\ inv' = GetObjectResult(inv, metas).obj
  /\ live' = inv'

(* GetObject, its result applied to the cluster; an error applies nothing.*)
GetObjectOnInv(metas) ==
  /\ inv # Nil
  /\ live' = GetObjectResult(inv, metas).obj
  /\ UNCHANGED inv

ApplyInventory ==
  /\ GetObjectOnInv(objMetas)
  /\ written' = [some |-> TRUE, metas |-> objMetas]
  /\ UNCHANGED <<objMetas, loaded>>

(* The metadata the applier may store: valid ObjMetadata, each once.      *)
StoredSeqs == {s \in BoundedSeqs(Meta) : \A i, j \in DOMAIN s : i # j => s[i] # s[j]}

Next ==
  \/ WrapInventoryObj(live)
  \/ WrapInventoryObj(Nil)
  \/ \E metas \in StoredSeqs : Store(metas)
  \/ ApplyInventory

Spec == Init /\ [][Next]_vars

-----------------------------------------------------------------------------
TypeOK ==
  /\ inv \in Objects /\ live \in Objects
  /\ objMetas \in StoredSeqs
  /\ written \in [some : BOOLEAN, metas : StoredSeqs]

(* What GetObject wrote comes back unchanged: Load of the live object    *)
(* written for metadata M returns M, in order, the empty inventory       *)
(* included (spec.resources removed).                                      *)
InventoryRoundTrip ==
  written.some => Load(live) = [ok |-> TRUE, objs |-> written.metas]

(* The wrapper keeps loading the inventory it wrapped: GetObject copies  *)
(* inv, so Load after Store and GetObject still returns the previous     *)
(* inventory, the one the applier prunes against.                         *)
LoadUnchangedUntilRewrapped ==
  Load(inv) = loaded

(* Applying the inventory never changes which inventory the cluster      *)
(* holds: the object GetObject returns keeps inv's inventory-id label and *)
(* kind, so the next apply, which wraps the live object, finds it by ID   *)
(* and recognises it as a ResourceGroup inventory; a lost label would    *)
(* orphan every object the inventory lists.                               *)
InventoryIdentityKept ==
  [][live # Nil /\ live' # live =>
        /\ ID(live') = ID(live)
        /\ IsResourceGroupInventory(live') = IsResourceGroupInventory(live)]_live
=============================================================================
