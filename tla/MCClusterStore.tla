---------------------------- MODULE MCClusterStore ---------------------------
(* Model-checking instance of ClusterStore: three clusters, two labels,   *)
(* calls with one, two or three selectors.                                 *)
EXTENDS ClusterStore

CONSTANTS l1, l2, invalid

MCSelectors == SUBSET {l1, l2} \cup {invalid}

MCSelectorSeqs ==
  {<<s>> : s \in MCSelectors} \cup {<<s, t>> : s, t \in MCSelectors}
  \cup {<<s, t, u>> : s, t, u \in MCSelectors}

(* Three clients' configurations: complete, without endpoint, and in a    *)
(* namespace whose ConfigConnectorContext names no service account.       *)
MCClusterConfig ==
  LET good == [ca |-> "ok", endpoint |-> TRUE, ccc |-> "ok", token |-> "ok"]
  IN  (1 :> good) @@ (2 :> [good EXCEPT !.endpoint = FALSE])
      @@ (3 :> [good EXCEPT !.ccc = "empty"])

MCSymmetry == Permutations({l1, l2})
=============================================================================
