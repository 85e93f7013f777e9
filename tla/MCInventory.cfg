CONSTANTS
  Namespaces = {"", "prod"}
  Names = {"web"}
  Groups = {"apps"}
  Kinds = {"Deployment"}
  InventoryIDs = {"", "inv-1"}
  InvKinds = {"kpt.dev/ResourceGroup", "v1/ConfigMap"}
  MaxObjs = 2

SPECIFICATION Spec

INVARIANT TypeOK
INVARIANT InventoryRoundTrip
INVARIANT LoadUnchangedUntilRewrapped

PROPERTY InventoryIdentityKept
