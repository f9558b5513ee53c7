---------------------------- MODULE BatchExecutor ---------------------------
(***************************************************************************)
(* batchqueue/executor.py: execute_batch, one action per statement that    *)
(* reads or writes shared state.  It runs inside the thread that handles   *)
(* the coworker's Approve click; the approval handler (ApprovalFlow) calls *)
(* it at "execute" and is resumed at "dmSuccess" or "dmFailure".           *)
(***************************************************************************)
EXTENDS BatchStore

CONSTANTS
    Threads,    \* the threads of the Bolt listener pool
    NoBatch     \* the job of an idle thread

ASSUME NoBatchAssumption == NoBatch \notin Batches

VARIABLES
    pc,         \* what each thread does next
    job,        \* the batch it handles
    text,       \* the status its handler will report on the approval card
    idx,        \* the loop variable over the operations
    snapshot,   \* positions that were PENDING when get_operations ran
    results,    \* positions whose Salesforce result is at hand
    writes      \* how many times each operation took effect in Salesforce

local == <<job, text, idx, snapshot, results>>

ExecutorPC == {"execute", "load", "lock", "insertLocks", "mark", "run",
               "record", "skipRows", "release", "dmSuccess", "dmFailure"}

Goto(t, p) == pc' = [pc EXCEPT ![t] = p]

At(t, p) == pc[t] = p

Current(t) == OpAt(job[t], idx[t])

SetIdx(t, i) == idx' = [idx EXCEPT ![t] = i]

Report(t, s) == text' = [text EXCEPT ![t] = s]

-----------------------------------------------------------------------------
(* Before the first operation.  A batch that is no longer APPROVED, or a   *)
(* conflicting lock, raises: the handler hears a failure, no row changes.  *)

CheckApproved(t) ==
    /\ At(t, "execute")
    /\ IF status[job[t]] = "APPROVED"
         THEN Goto(t, "load") /\ UNCHANGED text
         ELSE Goto(t, "dmFailure") /\ Report(t, "FAILED")
    /\ UNCHANGED <<store, job, idx, snapshot, results, writes>>

\* The fetched rows carry their status as of now: the loops below use it.
LoadOperations(t) ==
    /\ At(t, "load")
    /\ IF RowsOf(job[t]) = {}
         THEN /\ UpdateBatchStatus(job[t], "COMPLETED")
              /\ Report(t, "COMPLETED")
              /\ Goto(t, "dmSuccess")
              /\ UNCHANGED snapshot
         ELSE /\ snapshot' = [snapshot EXCEPT ![t] = PendingRows(job[t])]
              /\ Goto(t, "lock")
              /\ UNCHANGED <<status, approved, text>>
    /\ UNCHANGED <<rows, locks, job, idx, results, writes>>

\* Mutant: check_conflicts in the place of acquire_locks.
CheckConflicts_OnlyChecks(t) ==
    /\ At(t, "lock")
    /\ IF Conflicts(job[t]) = {}
         THEN Goto(t, "mark") /\ UNCHANGED text
         ELSE Goto(t, "dmFailure") /\ Report(t, "FAILED")
    /\ UNCHANGED <<store, job, idx, snapshot, results, writes>>

CheckConflicts(t) ==
    /\ At(t, "lock")
    /\ \/ /\ LockTargets(job[t]) = {}
          /\ Goto(t, "mark")
          /\ UNCHANGED text
       \/ /\ LockTargets(job[t]) # {}
          /\ Conflicts(job[t]) = {}
          /\ Goto(t, "insertLocks")
          /\ UNCHANGED text
       \/ /\ Conflicts(job[t]) # {}
          /\ Goto(t, "dmFailure")
          /\ Report(t, "FAILED")
    /\ UNCHANGED <<store, job, idx, snapshot, results, writes>>

InsertLocks(t) ==
    /\ At(t, "insertLocks")
    /\ InsertLockRows(job[t])
    /\ Goto(t, "mark")
    /\ UNCHANGED <<status, approved, rows, local, writes>>

MarkExecuting(t) ==
    /\ At(t, "mark")
    /\ UpdateBatchStatus(job[t], "EXECUTING")
    /\ Goto(t, "run")
    /\ SetIdx(t, 1)
    /\ UNCHANGED <<rows, locks, job, text, snapshot, results, writes>>

-----------------------------------------------------------------------------
(* The loop over the operations.  Salesforce accepts a call, rejects it,   *)
(* or applies it and loses the answer; only the first returns normally.    *)

InLoop(t) == At(t, "run") /\ idx[t] \in DOMAIN Plan[job[t]]

\* Mutant: the loop stops one operation early.
LoopDone_OffByOne(t) == idx[t] + 1 \notin DOMAIN Plan[job[t]]

LoopDone(t) == idx[t] \notin DOMAIN Plan[job[t]]

Raise(t) == Goto(t, "skipRows") /\ SetIdx(t, 1)

SkipUnknown(t) ==
    /\ InLoop(t)
    /\ Current(t).type = "OTHER"
    /\ UpdateOperationStatus(job[t], idx[t], "SKIPPED")
    /\ SetIdx(t, idx[t] + 1)
    /\ UNCHANGED <<status, approved, locks, pc, job, text, snapshot, results,
                   writes>>

\* An UPDATE without a record id raises before Salesforce is called.
Callable(op) == op.type = "CREATE" \/ (op.type = "UPDATE" /\ op.target # NoTarget)

\* A template nothing resolved is sent as it is, and Salesforce rejects it.
Resolved(t) == \/ Current(t).type = "CREATE"
               \/ Current(t).ref \in results[t] \cup {0}

Applied(t) == writes' = [writes EXCEPT ![<<job[t], idx[t]>>] = @ + 1]

\* Mutant: the row is marked before the call rather than after it.
CallSalesforce_RowFirst(t) ==
    /\ InLoop(t)
    /\ Callable(Current(t))
    /\ Resolved(t)
    /\ \/ Applied(t) /\ Goto(t, "record") /\ UNCHANGED <<rows, idx>>
       \/ /\ UpdateOperationStatus(job[t], idx[t], "COMPLETED")
          /\ Raise(t)
          /\ UNCHANGED writes
    /\ UNCHANGED <<status, approved, locks, job, text, snapshot, results>>

CallSalesforce(t) ==
    /\ InLoop(t)
    /\ Callable(Current(t))
    /\ Resolved(t)
    /\ Applied(t)
    /\ Goto(t, "record")
    /\ UNCHANGED <<store, local>>

\* Mutant: an operation that raised is passed over like an unknown one.
OperationRaises_Continues(t) ==
    /\ InLoop(t)
    /\ Current(t).type # "OTHER"
    /\ SetIdx(t, idx[t] + 1)
    /\ UNCHANGED <<store, pc, job, text, snapshot, results, writes>>

\* Mutant: a call that raised is made again.
OperationRaises_Retries(t) ==
    /\ InLoop(t)
    /\ Current(t).type # "OTHER"
    /\ Callable(Current(t)) /\ Resolved(t) /\ Applied(t)
    /\ UNCHANGED <<store, pc, local>>

\* Raised by the code before the call, or by the call itself.
OperationRaises(t) ==
    /\ InLoop(t)
    /\ Current(t).type # "OTHER"
    /\ \/ UNCHANGED writes
       \/ Callable(Current(t)) /\ Resolved(t) /\ Applied(t)
    /\ Raise(t)
    /\ UNCHANGED <<store, job, text, snapshot, results>>

RecordResult(t) ==
    /\ At(t, "record")
    /\ UpdateOperationStatus(job[t], idx[t], "COMPLETED")
    /\ results' = [results EXCEPT ![t] = @ \cup {idx[t]}]
    /\ SetIdx(t, idx[t] + 1)
    /\ Goto(t, "run")
    /\ UNCHANGED <<status, approved, locks, job, text, snapshot, writes>>

CompleteBatch(t) ==
    /\ At(t, "run")
    /\ LoopDone(t)
    /\ UpdateBatchStatus(job[t], "COMPLETED")
    /\ Report(t, "COMPLETED")
    /\ Goto(t, "release")
    /\ UNCHANGED <<rows, locks, job, idx, snapshot, results, writes>>

-----------------------------------------------------------------------------
(* The except block, which consults the snapshot, and the finally block.   *)

\* Mutant: the loop only moves on past a row it skips.
SkipRow_Stuck(t) ==
    /\ At(t, "skipRows")
    /\ ~ LoopDone(t)
    /\ idx[t] \in PendingRows(job[t])
    /\ UpdateOperationStatus(job[t], idx[t], "SKIPPED")
    /\ SetIdx(t, idx[t] + 1)
    /\ UNCHANGED <<status, approved, locks, pc, job, text, snapshot, results,
                   writes>>

SkipRow(t) ==
    /\ At(t, "skipRows")
    /\ ~ LoopDone(t)
    /\ IF idx[t] \in snapshot[t]
         THEN UpdateOperationStatus(job[t], idx[t], "SKIPPED")
         ELSE UNCHANGED rows
    /\ SetIdx(t, idx[t] + 1)
    /\ UNCHANGED <<status, approved, locks, pc, job, text, snapshot, results,
                   writes>>

FailBatch(t) ==
    /\ At(t, "skipRows")
    /\ LoopDone(t)
    /\ UpdateBatchStatus(job[t], "FAILED")
    /\ Report(t, "FAILED")
    /\ Goto(t, "release")
    /\ UNCHANGED <<rows, locks, job, idx, snapshot, results, writes>>

\* Mutant: a release that only the normal path reaches.
ReleaseLocks_NoFinally(t) ==
    /\ At(t, "release")
    /\ IF text[t] = "COMPLETED" THEN DeleteLockRows(job[t]) ELSE UNCHANGED locks
    /\ Goto(t, IF text[t] = "COMPLETED" THEN "dmSuccess" ELSE "dmFailure")
    /\ UNCHANGED <<status, approved, rows, local, writes>>

\* Mutant: the exception is swallowed rather than raised again.
ReleaseLocks_Swallows(t) ==
    /\ At(t, "release")
    /\ DeleteLockRows(job[t])
    /\ Goto(t, "dmSuccess")
    /\ UNCHANGED <<status, approved, rows, local, writes>>

ReleaseLocks(t) ==
    /\ At(t, "release")
    /\ DeleteLockRows(job[t])
    /\ Goto(t, IF text[t] = "COMPLETED" THEN "dmSuccess" ELSE "dmFailure")
    /\ UNCHANGED <<status, approved, rows, local, writes>>

ExecuteBatch(t) ==
    \/ CheckApproved(t) \/ LoadOperations(t) \/ CheckConflicts(t)
    \/ InsertLocks(t) \/ MarkExecuting(t) \/ SkipUnknown(t)
    \/ CallSalesforce(t) \/ OperationRaises(t) \/ RecordResult(t)
    \/ CompleteBatch(t) \/ SkipRow(t) \/ FailBatch(t) \/ ReleaseLocks(t)
=============================================================================
