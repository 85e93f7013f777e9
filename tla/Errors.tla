-------------------------------- MODULE Errors -------------------------------
(***************************************************************************)
(* The structured error of internal/errors: a frame {Op, Path, Fn, Class, *)
(* Err} whose Err may be another *Error, a plain error, or a plain error  *)
(* wrapping an *Error (fmt.Errorf with %w).  Frames live on a heap so     *)
(* that the copy E makes of a wrapped *Error, and what callers still hold *)
(* of the original, are both visible.  The rendered text is abstracted to *)
(* the sequence of fragments Error() writes, separators left out.          *)
(***************************************************************************)
EXTENDS Naturals, Sequences, FiniteSets
LOCAL INSTANCE SequencesExt

CONSTANTS
  Ops,           \* operation names, "" included (Op)
  Paths,         \* package paths, "" included (types.UniquePath)
  FnNames,       \* function names, "" included (Fn)
  Classes,       \* error classes, 0 (Other) included (Class)
  Msgs,          \* messages of plain errors (fmt.Errorf(string))
  WrapMsgs,      \* messages of plain errors that wrap an *Error with %w
  MaxFrames      \* bound on the frames allocated

ASSUME {"" } \subseteq Ops \cap Paths \cap FnNames /\ 0 \in Classes
ASSUME WrapMsgs \subseteq Msgs /\ MaxFrames \in Nat

(* The Err of a frame: nil, a plain error, an *Error on the heap, or a    *)
(* plain error whose chain holds an *Error.                               *)
NoCause       == [k |-> "none"]
Plain(m)      == [k |-> "plain", msg |-> m]
Ref(id)       == [k |-> "ref", id |-> id]
Wrapping(m, id) == [k |-> "wrap", msg |-> m, id |-> id]

(* The Error struct.                                                       *)
Frame(op, path, fn, class, err) ==
  [op |-> op, path |-> path, fn |-> fn, class |-> class, err |-> err]

Args(held) ==
  LET causes == {NoCause} \cup {Plain(m) : m \in Msgs}
                 \cup {Ref(id) : id \in held}
                 \cup {Wrapping(m, id) : m \in WrapMsgs, id \in held}
  IN  {Frame(o, p, f, c, x) : o \in Ops, p \in Paths, f \in FnNames,
                              c \in Classes, x \in causes}

Zero(f) ==
  f.op = "" /\ f.path = "" /\ f.fn = "" /\ f.class = 0 /\ f.err = NoCause

(* Class.String: the text of each class; any other value is "unknown kind". *)
ClassString(c) ==
  CASE c = 0 -> "other error"
    [] c = 1 -> "item already exist"
    [] c = 2 -> "internal error"
    [] c = 3 -> "invalid parameter value"
    [] c = 4 -> "missing parameter value"
    [] c = 5 -> "git error"
    [] OTHER -> "unknown kind"

(* The fragments a frame writes for its own fields, in Error()'s order;  *)
(* an empty field, and class Other, are not written.                     *)
OwnFragments(f) ==
     (IF f.op # "" THEN << <<"op", f.op>> >> ELSE <<>>)
  \o (IF f.path # "" THEN << <<"path", f.path>> >> ELSE <<>>)
  \o (IF f.fn # "" THEN << <<"fn", f.fn>> >> ELSE <<>>)
  \o (IF f.class # 0 THEN << <<"class", ClassString(f.class)>> >> ELSE <<>>)

NoErrorText == <<"text", "no error">>

(* As(err, &e) with e an *Error: the first *Error in err's chain, found  *)
(* through Unwrap of a plain error that wraps one with %w; 0 for none.    *)
AsError(err) == IF err.k \in {"ref", "wrap"} THEN err.id ELSE 0

(* Error(): the own fragments, then the cause.  As() finds the first      *)
(* *Error in Err's chain, so a plain error wrapping an *Error is rendered *)
(* as that *Error, skipped when Zero; a plain error writes its message.  *)
RECURSIVE Render(_, _)
Render(h, id) ==
  LET f     == h[id]
      cause == CASE f.err.k = "none"  -> <<>>
                 [] f.err.k = "plain" -> << <<"msg", f.err.msg>> >>
                 [] OTHER -> IF Zero(h[AsError(f.err)]) THEN <<>>
                             ELSE Render(h, AsError(f.err))
      body  == OwnFragments(f) \o cause
  IN  IF body = <<>> THEN <<NoErrorText>> ELSE body

(* A plausible slip in the field-overlap rule: clear the wrapped path    *)
(* whenever the new frame has one, equal or not.                           *)
DedupPathAlways(w, e) ==
  [w EXCEPT !.path = IF e.path # "" THEN "" ELSE @,
            !.op = IF e.op = @ THEN "" ELSE @,
            !.fn = IF e.fn = @ THEN "" ELSE @,
            !.class = IF e.class = @ THEN 0 ELSE @]

(* E's overlap rule: clear on the wrapped frame every field equal to the *)
(* new frame's.                                                            *)
Dedup(w, e) ==
  [w EXCEPT !.path = IF e.path = @ THEN "" ELSE @,
            !.op = IF e.op = @ THEN "" ELSE @,
            !.fn = IF e.fn = @ THEN "" ELSE @,
            !.class = IF e.class = @ THEN 0 ELSE @]

(* E without the copy: the overlap rule applied to the caller's *Error.  *)
BuildInPlace(h, a) ==
  IF a.err.k = "ref"
  THEN Append([h EXCEPT ![a.err.id] = Dedup(@, a)], a)
  ELSE Append(h, a)

(* E(args...): a wrapped *Error is copied (cp := *a, sharing a's own Err) *)
(* and the copy deduplicated; any other Err is kept as given.  The new   *)
(* frame is the last of the heap.                                          *)
Build(h, a) ==
  IF a.err.k = "ref"
  THEN Append(Append(h, Dedup(h[a.err.id], a)),
              [a EXCEPT !.err = Ref(Len(h) + 1)])
  ELSE Append(h, a)

VARIABLES
  heap,    \* the frames allocated, by address
  made     \* history: each error E returned, its arguments and its text

vars == <<heap, made>>

Held == {m.id : m \in made}

Init ==
  /\ heap = <<>>
  /\ made = {}

(* A call of E by some caller, with any error already returned as cause. *)
MakeError(a) ==
  /\ Len(heap) + 2 <= MaxFrames
  /\ heap' = Build(heap, a)
  /\ made' = made \cup {[id |-> Len(heap'), args |-> a,
                         shown |-> Render(heap', Len(heap'))]}

Next == \E a \in Args(Held) : MakeError(a)

Spec == Init /\ [][Next]_vars

-----------------------------------------------------------------------------
Cause == {NoCause} \cup [k : {"plain"}, msg : Msgs]
         \cup [k : {"ref"}, id : 1..MaxFrames]
         \cup [k : {"wrap"}, msg : WrapMsgs, id : 1..MaxFrames]

(* Types, and every cause is an earlier frame: the chain Error() walks ends. *)
TypeOK ==
  /\ heap \in Seq([op : Ops, path : Paths, fn : FnNames, class : Classes,
                   err : Cause])
  /\ Len(heap) <= MaxFrames
  /\ \A i \in 1..Len(heap) : heap[i].err.k \in {"ref", "wrap"} => heap[i].err.id < i
  /\ Held \subseteq 1..Len(heap)

ShownOf(id) == ToSet((CHOOSE m \in made : m.id = id).shown) \ {NoErrorText}

(* What an error built by E states: its own fields and everything its    *)
(* cause stated (a plain cause's message, an *Error cause's text).        *)
Stated(a) ==
  ToSet(OwnFragments(a))
  \cup (CASE a.err.k = "none"  -> {}
          [] a.err.k = "plain" -> {<<"msg", a.err.msg>>}
          [] a.err.k = "ref"   -> ShownOf(a.err.id)
          [] a.err.k = "wrap"  -> {<<"msg", a.err.msg>>} \cup ShownOf(a.err.id))

(* Wrapping never alters an error a caller already holds: E copies the   *)
(* wrapped *Error before clearing its overlapping fields, so every error *)
(* E returned renders, for as long as it lives, as it did when built.    *)
WrappingPreservesWrapped ==
  \A m \in made : Render(heap, m.id) = m.shown

(* Error() loses nothing: the text of an error built by E shows every    *)
(* field given to E and every fragment of its cause's text; the overlap  *)
(* rule only drops a fragment the new frame already shows (spec 4.6).    *)
RenderKeepsEveryFragment ==
  \A m \in made : ToSet(Render(heap, m.id)) \ {NoErrorText} = Stated(m.args)
=============================================================================
