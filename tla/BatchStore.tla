----------------------------- MODULE BatchStore -----------------------------
(***************************************************************************)
(* The SQLite tables behind a write plan: batches, operations and locks    *)
(* (batchqueue/batch.py, operations.py, locks.py), and the statements the  *)
(* handlers run on them.  Each operator below is one statement followed by *)
(* its commit, or one query: the granularity at which two handler threads  *)
(* interleave on the connection they share (db/connection.py).             *)
(***************************************************************************)
EXTENDS Integers, Sequences, FiniteSets

CONSTANTS
    Batches,    \* the batch ids create_batch may hand out
    Plan,       \* Plan[b]: the operations of batch b, in sequence_order
    Targets,    \* pairs (object, record id) as an operation row spells them
    NoTarget    \* a record id that is NULL or empty

OpTypes == {"UPDATE", "CREATE", "OTHER"}

(***************************************************************************)
(* An operation row: its type, its target, and, when the record id is the  *)
(* literal "{{op_n.result.id}}", the n it refers to (0 otherwise).  OTHER  *)
(* is any method name the planner let through that is neither of the two.  *)
(***************************************************************************)
Operation == [type : OpTypes, target : Targets \cup {NoTarget}, ref : Nat]

ASSUME PlanAssumption == /\ Plan \in [Batches -> Seq(Operation)]
                         /\ NoTarget \notin Targets

Ops == UNION {{b} \X DOMAIN Plan[b] : b \in Batches}

OpAt(b, i) == Plan[b][i]

BatchStatus == {"absent", "PENDING_APPROVAL", "APPROVED", "EXECUTING",
                "COMPLETED", "DENIED", "FAILED"}

RowStatus == {"absent", "PENDING", "COMPLETED", "SKIPPED"}

\* The statuses under which a lock row counts as held.
ActiveStatuses == {"PENDING_APPROVAL", "APPROVED", "EXECUTING"}

VARIABLES
    status,     \* batches.status of each batch ("absent": no such row)
    approved,   \* the batches whose approved_by / approved_at are set
    rows,       \* operations.status of each operation row
    locks       \* the locks table: pairs <<batch, target>>

store == <<status, approved, rows, locks>>

StoreTypeOK ==
    /\ status \in [Batches -> BatchStatus]
    /\ approved \subseteq Batches
    /\ rows \in [Ops -> RowStatus]
    /\ locks \subseteq Batches \X Targets

StoreInit ==
    /\ status = [b \in Batches |-> "absent"]
    /\ approved = {}
    /\ rows = [o \in Ops |-> "absent"]
    /\ locks = {}

-----------------------------------------------------------------------------
(* batch.py: the status UPDATE is unconditional, and COALESCE keeps the    *)
(* approval columns once they are set.  (An operator marked "Mutant" is    *)
(* part of no specification: it is the next definition with a bug in it,   *)
(* kept to show that some property notices.)                               *)

\* Mutant: the UPDATE forgets the COALESCE.
UpdateBatchStatus_NoCoalesce(b, s) ==
    /\ status' = [status EXCEPT ![b] = s]
    /\ approved' = IF s = "APPROVED" THEN approved \cup {b} ELSE approved \ {b}

UpdateBatchStatus(b, s) ==
    /\ status' = [status EXCEPT ![b] = s]
    /\ approved' = IF s = "APPROVED" THEN approved \cup {b} ELSE approved

-----------------------------------------------------------------------------
(* operations.py: all rows of a batch are inserted as PENDING; an update   *)
(* overwrites whatever the row held.                                       *)

CreateOperationRows(b) ==
    rows' = [o \in Ops |-> IF o[1] = b THEN "PENDING" ELSE rows[o]]

UpdateOperationStatus(b, i, s) == rows' = [rows EXCEPT ![<<b, i>>] = s]

\* The positions get_operations returns, and those it returns as PENDING.
RowsOf(b) == {i \in DOMAIN Plan[b] : rows[<<b, i>>] # "absent"}

PendingRows(b) == {i \in DOMAIN Plan[b] : rows[<<b, i>>] = "PENDING"}

-----------------------------------------------------------------------------
(* locks.py                                                                *)

\* Mutant: neither the method nor the record id is looked at.
LockTargets_Unfiltered(b) == {OpAt(b, i).target : i \in DOMAIN Plan[b]}

\* What acquire_locks locks: the target of every UPDATE that has a record id,
\* an unresolved template literal included.
LockTargets(b) ==
    {OpAt(b, i).target :
        i \in {j \in DOMAIN Plan[b] : /\ OpAt(b, j).type = "UPDATE"
                                      /\ OpAt(b, j).target # NoTarget}}

\* Mutant: only batches that are executing hold their locks.
Conflicts_ExecutingOnly(b) ==
    {l \in locks : /\ l[1] # b
                   /\ l[2] \in LockTargets(b)
                   /\ status[l[1]] = "EXECUTING"}

\* _find_conflicts: lock rows of other batches that are still active.
Conflicts(b) ==
    {l \in locks : /\ l[1] # b
                   /\ l[2] \in LockTargets(b)
                   /\ status[l[1]] \in ActiveStatuses}

InsertLockRows(b) == locks' = locks \cup ({b} \X LockTargets(b))

DeleteLockRows(b) == locks' = {l \in locks : l[1] # b}
=============================================================================
