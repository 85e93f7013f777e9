--------------------------- MODULE ResultParsing ---------------------------
(***************************************************************************)
(* How a function's raw structured-result document becomes the list of    *)
(* result items stored in its ledger entry.  Two parsers exist in the      *)
(* code:                                                                   *)
(*   - parseStructuredResult (internal/fnruntime/runner.go), used by the   *)
(*     fnruntime FunctionRunner, which accepts the bare list and the       *)
(*     legacy mapping that wraps the list under an `items` field;          *)
(*   - toResultItems (internal/cmdrender/pipeline_function.go), used by    *)
(*     the render functionRunner, which unmarshals the document directly   *)
(*     and whose error is discarded by its caller.                         *)
(* A document is abstracted to its YAML shape and the items it carries.   *)
(***************************************************************************)
EXTENDS Naturals, Sequences

CONSTANT ResultItem      \* the result items a function may emit (model values)

(* Shapes of the RNode held in FunctionFilter.Results:                     *)
(*   "none"      nil node: the function emitted no results;               *)
(*   "bare"      a sequence node holding the items;                        *)
(*   "wrapped"   a non-empty mapping node (the Go SDK's Result); its       *)
(*               `items` field holds the items, absent or [] when empty;   *)
(*   "malformed" any other node, e.g. a scalar.                            *)
Shapes == {"none", "bare", "wrapped", "malformed"}

ResultDoc(shape, items) == [shape |-> shape, items |-> items]

(* The documents a function can emit, with at most MaxItems items.        *)
ResultDocs(MaxItems) ==
  LET ItemSeqs == UNION {[1..n -> ResultItem] : n \in 0..MaxItems}
  IN  {ResultDoc("none", <<>>), ResultDoc("malformed", <<>>)}
      \cup {ResultDoc(s, is) : s \in {"bare", "wrapped"}, is \in ItemSeqs}

(* Outcome of a parse: ok with the unmarshalled items, or an error.        *)
Parsed(items) == [ok |-> TRUE, items |-> items]
ParseError    == [ok |-> FALSE, items |-> <<>>]

(* yml.IsNilOrEmpty(): a nil node, or an empty sequence.                   *)
IsNilOrEmpty(doc) == doc.shape = "none" \/ (doc.shape = "bare" /\ doc.items = <<>>)

(* parseStructuredResult: an empty document leaves fnResult.Results empty; *)
(* a mapping whose `items` is non-empty is uplifted to that list; then the *)
(* node is unmarshalled into []ResultItem, which fails for any node that  *)
(* is not a sequence, the mapping with no items included.                 *)
ParseStructuredResult(doc) ==
  CASE IsNilOrEmpty(doc)                           -> Parsed(<<>>)
    [] doc.shape = "wrapped" /\ doc.items # <<>>   -> Parsed(doc.items)
    [] doc.shape = "bare"                          -> Parsed(doc.items)
    [] OTHER                                       -> ParseError

(* toResultItems: yaml.Unmarshal of the node's text into []ResultItem.    *)
(* Only a sequence unmarshals; the caller ignores the error, so every     *)
(* other shape yields no items.                                           *)
ToResultItems(doc) ==
  IF doc.shape = "bare" THEN Parsed(doc.items) ELSE ParseError
=============================================================================
