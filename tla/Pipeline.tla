------------------------------- MODULE Pipeline ------------------------------
(***************************************************************************)
(* What the render pipeline promises (spec 4.4 and 3): functions run in   *)
(* declaration order, each invocation adds one entry to the ledger, the   *)
(* output of a function is the input of the next, and the first failure   *)
(* stops the pipeline with the ledger accumulated so far.  A declaration *)
(* error stops it before any function runs.                                *)
(***************************************************************************)
EXTENDS Naturals, Sequences

CONSTANT NumFns

VARIABLES
  ledger,     \* the functions invoked, in order
  applied,    \* the functions whose output the resources now hold
  status      \* "building", "running", "failed" or "succeeded"

avars == <<ledger, applied, status>>

Init ==
  /\ ledger = <<>>
  /\ applied = <<>>
  /\ status = "building"

(* The runners are built, or a declaration is rejected.                   *)
Build ==
  /\ status = "building"
  /\ status' \in {"running", "failed"}
  /\ UNCHANGED <<ledger, applied>>

(* The next function runs on the resources: it is recorded, and either   *)
(* its output becomes the resources or the pipeline stops.                *)
Invoke ==
  /\ status = "running"
  /\ Len(ledger) < NumFns
  /\ ledger' = Append(ledger, Len(ledger) + 1)
  /\ \/ /\ applied' = Append(applied, Len(ledger) + 1)
        /\ UNCHANGED status
     \/ /\ status' = "failed"
        /\ UNCHANGED applied

Finish ==
  /\ status = "running"
  /\ Len(ledger) = NumFns
  /\ status' = "succeeded"
  /\ UNCHANGED <<ledger, applied>>

Next == Build \/ Invoke \/ Finish

Spec == Init /\ [][Next]_avars /\ WF_avars(Next)
=============================================================================
