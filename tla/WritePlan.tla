------------------------------ MODULE WritePlan -----------------------------
(***************************************************************************)
(* What the approval pipeline promises about each write plan, without      *)
(* threads, tables, locks or messages: one decision per plan, the writes   *)
(* of an approved plan applied in order and at most once while it          *)
(* executes, and a final status that says how it ended (the status flow    *)
(* documented at batchqueue/batch.py:9-16).                                *)
(***************************************************************************)
EXTENDS Naturals

CONSTANTS
    Batches,
    Writes      \* Writes[b]: positions of b's operations that reach Salesforce

VARIABLES
    status,     \* the status of each batch
    applied     \* the positions that took effect

Init ==
    /\ status = [b \in Batches |-> "absent"]
    /\ applied = [b \in Batches |-> {}]

Move(b, from, to) ==
    /\ status[b] = from
    /\ status' = [status EXCEPT ![b] = to]
    /\ UNCHANGED applied

Submit(b) == Move(b, "absent", "PENDING_APPROVAL")

Approve(b) == Move(b, "PENDING_APPROVAL", "APPROVED")

Deny(b) == Move(b, "PENDING_APPROVAL", "DENIED")

Begin(b) == Move(b, "APPROVED", "EXECUTING")

\* The next write of the plan, and only while it executes.
Apply(b, i) ==
    /\ status[b] = "EXECUTING"
    /\ i \in Writes[b] \ applied[b]
    /\ \A j \in Writes[b] : j < i => j \in applied[b]
    /\ applied' = [applied EXCEPT ![b] = @ \cup {i}]
    /\ UNCHANGED status

\* A plan with nothing to write completes without executing.
Complete(b) ==
    /\ applied[b] = Writes[b]
    /\ \/ Move(b, "EXECUTING", "COMPLETED")
       \/ Writes[b] = {} /\ Move(b, "APPROVED", "COMPLETED")

Fail(b) == Move(b, "EXECUTING", "FAILED")

Next == \E b \in Batches :
    \/ Submit(b) \/ Approve(b) \/ Deny(b) \/ Begin(b)
    \/ \E i \in Writes[b] : Apply(b, i)
    \/ Complete(b) \/ Fail(b)

Spec == Init /\ [][Next]_<<status, applied>>
=============================================================================
