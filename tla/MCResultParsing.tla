---------------------------- MODULE MCResultParsing --------------------------
(* Checks the result parsers of ResultParsing over every result document *)
(* with at most two items drawn from two result items.                    *)
EXTENDS ResultParsing

CONSTANTS r1, r2

MCResultItem == {r1, r2}

VARIABLE doc     \* the raw result document a function emitted

Init == doc \in ResultDocs(2)
Next == UNCHANGED doc
Spec == Init /\ [][Next]_doc

(* toResultItems, the render runner's parser, whose error is discarded, *)
(* accepts the legacy wrapped shape like the bare list: the items recorded*)
(* for a wrapped document are the items it wraps (spec 6: "A consuming    *)
(* implementation must accept both without configuration").               *)
WrappedShapeAcceptedByRender ==
  doc.shape = "wrapped" =>
    ToResultItems(doc).items = ToResultItems(ResultDoc("bare", doc.items)).items
=============================================================================
