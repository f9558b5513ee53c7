--------------------------- MODULE ApprovalProofs ---------------------------
(***************************************************************************)
(* Theorems about ApprovalFlow, for every set of batches, plans, threads   *)
(* and bounds.                                                             *)
(***************************************************************************)
EXTENDS ApprovalFlow, TLAPS

(* The set Ops of operation rows, as its two projections.                  *)

LEMMA OpsIntro ==
  ASSUME NEW b \in Batches, NEW i \in DOMAIN Plan[b]
  PROVE  <<b, i>> \in Ops
  BY DEF Ops

LEMMA OpsElim ==
  ASSUME NEW o \in Ops
  PROVE  o[1] \in Batches /\ o[2] \in DOMAIN Plan[o[1]] /\ o = <<o[1], o[2]>>
  BY DEF Ops

LEMMA PlanDomain ==
  ASSUME NEW b \in Batches
  PROVE  /\ DOMAIN Plan[b] = 1 .. Len(Plan[b])
         /\ Len(Plan[b]) \in Nat
         /\ \A i \in DOMAIN Plan[b] : Plan[b][i] \in Operation
  BY PlanAssumption

-----------------------------------------------------------------------------
(* Type correctness.  A handler at work has a batch to work on, which the  *)
(* type of the rows it writes depends on.                                  *)

JobsAreBatches == \A t \in Threads : ~ Idle(t) => job[t] \in Batches

TypeInv == TypeOK /\ JobsAreBatches

LEMMA LockTargetsType ==
  ASSUME NEW b \in Batches
  PROVE  LockTargets(b) \subseteq Targets
  <1> SUFFICES ASSUME NEW i \in DOMAIN Plan[b], OpAt(b, i).target # NoTarget
               PROVE  OpAt(b, i).target \in Targets
      BY DEF LockTargets
  <1> QED BY PlanDomain DEF OpAt, Operation

LEMMA PendingRowsType ==
  ASSUME NEW b \in Batches
  PROVE  PendingRows(b) \in SUBSET Nat
  BY PlanDomain DEF PendingRows

LEMMA TypeInit == Init => TypeInv
  BY DEF Init, StoreInit, TypeInv, TypeOK, StoreTypeOK, JobsAreBatches, PC,
         CardText, BatchStatus, RowStatus, Idle, At

LEMMA TypeStep == TypeInv /\ [Next]_vars => TypeInv'
  <1> SUFFICES ASSUME TypeInv, [Next]_vars PROVE TypeInv'
      OBVIOUS
  <1> USE DEF TypeInv, TypeOK, StoreTypeOK, JobsAreBatches, PC, ExecutorPC,
              CardText, BatchStatus, RowStatus, Notice, Idle, At, Goto, store,
              local, outside, budget
  <1>1. ASSUME NEW t \in Threads, NEW b \in Batches, InsertBatch(t, b)
        PROVE  TypeInv'
    BY <1>1 DEF InsertBatch, Start, UpdateBatchStatus
  <1>2. ASSUME NEW t \in Threads, NEW b \in Batches, NEW p \in {"approve", "deny"},
               Click(t, b, p)
        PROVE  TypeInv'
    BY <1>2 DEF Click, Start, Report
  <1>3. ASSUME NEW t \in Threads, InsertOperations(t)
        PROVE  TypeInv'
    BY <1>3 DEF InsertOperations, CreateOperationRows
  <1>4. ASSUME NEW t \in Threads, SendCard(t)
        PROVE  TypeInv'
    <2>1. CASE Finish(t)
      BY <1>4, <2>1 DEF SendCard, Show, Finish
    <2>2. CASE UNCHANGED local
      BY <1>4, <2>2 DEF SendCard, Show, Finish
    <2> QED BY <1>4, <2>1, <2>2 DEF SendCard
  <1>5. ASSUME NEW t \in Threads, TellNotSent(t)
        PROVE  TypeInv'
    BY <1>5 DEF TellNotSent, Tell, Finish
  <1>6. ASSUME NEW t \in Threads, Approve(t) \/ Deny(t)
        PROVE  TypeInv'
    BY <1>6 DEF Approve, Deny, UpdateBatchStatus
  <1>7. ASSUME NEW t \in Threads, Execute(t)
        PROVE  TypeInv'
    <2>1. CASE CheckApproved(t)
      BY <1>7, <2>1 DEF Execute, CheckApproved, Report
    <2>2. CASE LoadOperations(t)
      <3>1. PendingRows(job[t]) \in SUBSET Nat
        BY <2>2, PendingRowsType DEF LoadOperations
      <3>2. CASE RowsOf(job[t]) = {}
        <4>1. /\ status' = [status EXCEPT ![job[t]] = "COMPLETED"]
              /\ approved' = approved
              /\ Report(t, "COMPLETED")
              /\ Goto(t, "dmSuccess")
              /\ UNCHANGED <<rows, locks, job, idx, snapshot, results, writes>>
          BY <2>2, <3>2 DEF LoadOperations, UpdateBatchStatus
        <4> QED BY <1>7, <2>2, <4>1 DEF Execute, LoadOperations, Report
      <3>3. CASE RowsOf(job[t]) # {}
        BY <1>7, <2>2, <3>1, <3>3 DEF Execute, LoadOperations
      <3> QED BY <3>2, <3>3
    <2>3. CASE CheckConflicts(t)
      BY <1>7, <2>3 DEF Execute, CheckConflicts, Report
    <2>4. CASE InsertLocks(t)
      BY <1>7, <2>4, LockTargetsType DEF Execute, InsertLocks, InsertLockRows
    <2>5. CASE MarkExecuting(t)
      BY <1>7, <2>5 DEF Execute, MarkExecuting, UpdateBatchStatus, SetIdx
    <2>6. CASE SkipUnknown(t)
      BY <1>7, <2>6, OpsIntro
         DEF Execute, SkipUnknown, InLoop, UpdateOperationStatus, SetIdx
    <2>7. CASE CallSalesforce(t)
      BY <1>7, <2>7, OpsIntro DEF Execute, CallSalesforce, InLoop, Applied
    <2>8. CASE OperationRaises(t)
      <3>1. CASE UNCHANGED writes
        <4>1. At(t, "run") /\ Goto(t, "skipRows") /\ idx' = [idx EXCEPT ![t] = 1]
          BY <2>8 DEF OperationRaises, Raise, InLoop, SetIdx
        <4>2. UNCHANGED <<store, job, text, snapshot, results, outside, budget>>
          BY <1>7, <2>8 DEF Execute, OperationRaises
        <4> QED BY <3>1, <4>1, <4>2
      <3>2. CASE Applied(t)
        <4>1. At(t, "run") /\ Goto(t, "skipRows") /\ idx' = [idx EXCEPT ![t] = 1]
          BY <2>8 DEF OperationRaises, Raise, InLoop, SetIdx
        <4>2. UNCHANGED <<store, job, text, snapshot, results, outside, budget>>
          BY <1>7, <2>8 DEF Execute, OperationRaises
        <4>3. writes' \in [Ops -> Nat]
          BY <2>8, <3>2, OpsIntro DEF OperationRaises, InLoop, Applied
        <4>4. JobsAreBatches'
          BY <4>1, <4>2
        <4>5. TypeOK'
          BY <4>1, <4>2, <4>3
        <4> QED BY <4>4, <4>5
      <3> QED BY <2>8, <3>1, <3>2 DEF OperationRaises
    <2>9. CASE RecordResult(t)
      <3>1. rows' \in [Ops -> RowStatus]
        BY <2>9 DEF RecordResult, UpdateOperationStatus
      <3>2. results' \in [Threads -> SUBSET Nat]
        BY <2>9 DEF RecordResult
      <3> QED BY <1>7, <2>9, <3>1, <3>2 DEF Execute, RecordResult, SetIdx
    <2>10. CASE CompleteBatch(t)
      BY <1>7, <2>10 DEF Execute, CompleteBatch, UpdateBatchStatus, Report
    <2>11. CASE SkipRow(t)
      BY <1>7, <2>11, OpsIntro
         DEF Execute, SkipRow, LoopDone, UpdateOperationStatus, SetIdx
    <2>12. CASE FailBatch(t)
      BY <1>7, <2>12 DEF Execute, FailBatch, UpdateBatchStatus, Report
    <2>13. CASE ReleaseLocks(t)
      BY <1>7, <2>13 DEF Execute, ReleaseLocks, DeleteLockRows
    <2> QED BY <1>7, <2>1, <2>2, <2>3, <2>4, <2>5, <2>6, <2>7, <2>8, <2>9,
               <2>10, <2>11, <2>12, <2>13 DEF Execute, ExecuteBatch
  <1>8. ASSUME NEW t \in Threads, TellSuccess(t)
        PROVE  TypeInv'
    BY <1>8 DEF TellSuccess, Tell, Report
  <1>9. ASSUME NEW t \in Threads, TellFailure(t)
        PROVE  TypeInv'
    BY <1>9 DEF TellFailure, Tell, Finish
  <1>10. ASSUME NEW t \in Threads, DenyRelease(t)
         PROVE  TypeInv'
    BY <1>10 DEF DenyRelease, DeleteLockRows
  <1>11. ASSUME NEW t \in Threads, TellDenied(t)
         PROVE  TypeInv'
    BY <1>11 DEF TellDenied, Tell, Report, Finish
  <1>12. ASSUME NEW t \in Threads, ShowCard(t)
         PROVE  TypeInv'
    BY <1>12 DEF ShowCard, Show, Finish
  <1>13. CASE Crash
    BY <1>13 DEF Crash
  <1>14. CASE UNCHANGED vars
    BY <1>14 DEF vars
  <1> QED BY <1>1, <1>2, <1>3, <1>4, <1>5, <1>6, <1>7, <1>8, <1>9, <1>10,
             <1>11, <1>12, <1>13, <1>14
          DEF Next, Event, Handler, ClickApprove, ClickDeny

\* Every reachable state has the types TypeOK gives its variables.
THEOREM TypeCorrect == Spec => []TypeOK
  <1>1. Spec => []TypeInv
    BY TypeInit, TypeStep, PTL DEF Spec
  <1> QED BY <1>1, PTL DEF TypeInv

-----------------------------------------------------------------------------
(* Every write belongs to an approved batch.  A thread only enters         *)
(* execute_batch behind its own UPDATE to APPROVED, and the approval       *)
(* columns never empty again.                                              *)

Executing == {"execute", "load", "lock", "insertLocks", "mark", "run",
              "record", "skipRows", "release"}

ExecutorsAreApproved ==
    \A t \in Threads : pc[t] \in Executing => job[t] \in approved

ApprovalInv == TypeInv /\ ExecutorsAreApproved /\ WritesWereApproved

LEMMA ApprovalInit == Init => ApprovalInv
  BY TypeInit, OpsElim
     DEF Init, StoreInit, ApprovalInv, ExecutorsAreApproved, WritesWereApproved,
         Executing

LEMMA ApprovedGrows ==
  ASSUME TypeInv, [Next]_vars
  PROVE  approved \subseteq approved'
  BY DEF Next, Event, Handler, vars, store, InsertBatch, ClickApprove, ClickDeny,
         Click, InsertOperations, SendCard, TellNotSent, Approve, Deny,
         DenyRelease, TellDenied, ShowCard, TellSuccess, TellFailure, Crash,
         UpdateBatchStatus, Execute, ExecuteBatch, CheckApproved, LoadOperations,
         CheckConflicts, InsertLocks, MarkExecuting, SkipUnknown, CallSalesforce,
         OperationRaises, RecordResult, CompleteBatch, SkipRow, FailBatch,
         ReleaseLocks

\* A step that writes is a step of an executor on its current operation.
LEMMA WriteSteps ==
  ASSUME TypeInv, [Next]_vars, ~ UNCHANGED writes
  PROVE  \E t \in Threads :
            /\ InLoop(t) /\ Current(t).type # "OTHER" /\ Callable(Current(t))
            /\ Applied(t)
            /\ UNCHANGED <<store, job>>
            /\ \/ UNCHANGED local /\ Goto(t, "record")
               \/ Goto(t, "skipRows")
  <1>1. PICK t \in Threads : Execute(t)
    BY DEF Next, Event, Handler, vars, InsertBatch, ClickApprove, ClickDeny,
         Click, InsertOperations, SendCard, TellNotSent, Approve, Deny,
         DenyRelease, TellDenied, ShowCard, TellSuccess, TellFailure, Crash
  <1>2. CallSalesforce(t) \/ OperationRaises(t)
    BY <1>1 DEF Execute, ExecuteBatch, CheckApproved, LoadOperations,
         CheckConflicts, InsertLocks, MarkExecuting, SkipUnknown, RecordResult,
         CompleteBatch, SkipRow, FailBatch, ReleaseLocks
  <1>3. CASE CallSalesforce(t)
    BY <1>3 DEF CallSalesforce, Callable, local
  <1>4. CASE OperationRaises(t)
    BY <1>4 DEF OperationRaises, Raise
  <1> QED BY <1>2, <1>3, <1>4

LEMMA ApprovalStep == ApprovalInv /\ [Next]_vars => ApprovalInv'
  <1> SUFFICES ASSUME ApprovalInv, [Next]_vars PROVE ApprovalInv'
      OBVIOUS
  <1>1. TypeInv' /\ approved \subseteq approved'
    BY TypeStep, ApprovedGrows DEF ApprovalInv
  <1>2. ExecutorsAreApproved'
    <2> SUFFICES ASSUME NEW u \in Threads, pc'[u] \in Executing
                 PROVE  job'[u] \in approved'
        BY DEF ExecutorsAreApproved
    <2>1. CASE pc[u] \in Executing /\ job'[u] = job[u]
      BY <1>1, <2>1 DEF ApprovalInv, ExecutorsAreApproved
    <2>2. CASE Approve(u)
      BY <2>2 DEF Approve, UpdateBatchStatus, local, ApprovalInv, TypeInv,
                  TypeOK, At, Idle, JobsAreBatches
    <2>3. (pc[u] \in Executing /\ job'[u] = job[u]) \/ Approve(u)
      BY DEF Next, Event, Handler, vars, local, InsertBatch, ClickApprove,
         ClickDeny, Click, Start, Goto, At, InsertOperations, SendCard, Finish,
         TellNotSent, Approve, Deny, DenyRelease, TellDenied, ShowCard,
         TellSuccess, TellFailure, Crash, Execute, ExecuteBatch, CheckApproved,
         LoadOperations, CheckConflicts, InsertLocks, MarkExecuting, SkipUnknown,
         CallSalesforce, OperationRaises, Raise, RecordResult, CompleteBatch,
         SkipRow, FailBatch, ReleaseLocks, InLoop, Idle, ApprovalInv, TypeInv,
         TypeOK, Executing
    <2> QED BY <2>1, <2>2, <2>3
  <1>3. WritesWereApproved'
    <2> SUFFICES ASSUME NEW o \in Ops, writes'[o] > 0
                 PROVE  o[1] \in approved'
        BY DEF WritesWereApproved
    <2>1. CASE writes[o] > 0
      BY <1>1, <2>1 DEF ApprovalInv, WritesWereApproved
    <2>2. CASE ~ (writes[o] > 0)
      <3>1. PICK t \in Threads : InLoop(t) /\ Applied(t)
        BY <2>2, WriteSteps DEF ApprovalInv
      <3>2. o = <<job[t], idx[t]>>
        BY <2>2, <3>1 DEF Applied, ApprovalInv, TypeInv, TypeOK
      <3> QED BY <1>1, <3>1, <3>2
              DEF InLoop, At, ApprovalInv, ExecutorsAreApproved, Executing
    <2> QED BY <2>1, <2>2
  <1> QED BY <1>1, <1>2, <1>3 DEF ApprovalInv

\* No write reaches Salesforce for a batch whose approval is not on record.
THEOREM WritesAreApproved == Spec => []WritesWereApproved
  <1>1. Spec => []ApprovalInv
    BY ApprovalInit, ApprovalStep, PTL DEF Spec
  <1> QED BY <1>1, PTL DEF ApprovalInv

-----------------------------------------------------------------------------
(* A plan is applied in order, and a row that says COMPLETED was applied.  *)
(* The loop of execute_batch carries the argument: behind its index every  *)
(* write of the plan has taken effect.                                     *)

LoopInv ==
    \A t \in Threads :
        /\ pc[t] = "run" =>
              /\ idx[t] >= 1
              /\ \A i \in WritesOf(job[t]) :
                    i < idx[t] => writes[<<job[t], i>>] > 0
        /\ pc[t] = "record" =>
              /\ idx[t] \in WritesOf(job[t])
              /\ \A i \in WritesOf(job[t]) :
                    i <= idx[t] => writes[<<job[t], i>>] > 0

OrderInv ==
    TypeInv /\ LoopInv /\ AppliedInOrder /\ CompletedRowsWereApplied

LEMMA OrderInit == Init => OrderInv
  BY TypeInit, OpsIntro
     DEF Init, StoreInit, OrderInv, LoopInv, AppliedInOrder, WritesOf,
         CompletedRowsWereApplied

LEMMA WritesGrow ==
  ASSUME TypeInv, [Next]_vars, NEW o \in Ops, writes[o] > 0
  PROVE  writes'[o] > 0
  <1>1. CASE UNCHANGED writes
    BY <1>1
  <1>2. CASE ~ UNCHANGED writes
    <2>1. PICK t \in Threads : Applied(t)
      BY <1>2, WriteSteps
    <2> QED BY <2>1 DEF Applied, TypeInv, TypeOK
  <1> QED BY <1>1, <1>2

\* How a thread comes to the head of the loop, and to its recording step.
LEMMA LoopEntry ==
  ASSUME TypeInv, [Next]_vars, NEW u \in Threads, pc'[u] \in {"run", "record"}
  PROVE  /\ job'[u] = job[u]
         /\ job[u] \in Batches
         /\ \/ pc[u] = pc'[u] /\ idx'[u] = idx[u]
            \/ MarkExecuting(u) \/ SkipUnknown(u) \/ RecordResult(u)
            \/ CallSalesforce(u)
  <1> USE DEF Goto, At, Idle, local, TypeInv, TypeOK, JobsAreBatches
  <1>1. CASE \E t \in Threads : Execute(t)
    <2>1. PICK t \in Threads : Execute(t)
      BY <1>1
    <2>2. CASE t # u
      BY <2>1, <2>2 DEF Execute, ExecuteBatch, CheckApproved, LoadOperations,
         CheckConflicts, InsertLocks, MarkExecuting, SkipUnknown, CallSalesforce,
         OperationRaises, Raise, SetIdx, RecordResult, CompleteBatch, SkipRow,
         FailBatch, ReleaseLocks
    <2>3. CASE t = u
      BY <2>1, <2>3 DEF Execute, ExecuteBatch, CheckApproved, LoadOperations,
         CheckConflicts, InsertLocks, MarkExecuting, SkipUnknown, CallSalesforce,
         OperationRaises, Raise, RecordResult, CompleteBatch, SkipRow, FailBatch,
         ReleaseLocks, InLoop
    <2> QED BY <2>2, <2>3
  <1>2. CASE ~ \E t \in Threads : Execute(t)
    BY <1>2 DEF Next, Event, Handler, vars, InsertBatch, ClickApprove, ClickDeny,
       Click, Start, InsertOperations, SendCard, Finish, TellNotSent, Approve,
       Deny, DenyRelease, TellDenied, ShowCard, TellSuccess, TellFailure, Crash
  <1> QED BY <1>1, <1>2

LEMMA LoopStep == OrderInv /\ [Next]_vars => LoopInv'
  <1> SUFFICES ASSUME OrderInv, [Next]_vars, NEW u \in Threads,
                      pc'[u] \in {"run", "record"}
               PROVE  /\ pc'[u] = "run" =>
                           /\ idx'[u] >= 1
                           /\ \A i \in WritesOf(job'[u]) :
                                 i < idx'[u] => writes'[<<job'[u], i>>] > 0
                      /\ pc'[u] = "record" =>
                           /\ idx'[u] \in WritesOf(job'[u])
                           /\ \A i \in WritesOf(job'[u]) :
                                 i <= idx'[u] => writes'[<<job'[u], i>>] > 0
      BY DEF LoopInv, WritesOf
  <1>1. /\ job'[u] = job[u]
        /\ job[u] \in Batches
        /\ \A i \in WritesOf(job[u]) :
              /\ i \in Nat /\ i >= 1
              /\ writes[<<job[u], i>>] > 0 => writes'[<<job[u], i>>] > 0
    <2>1. job'[u] = job[u] /\ job[u] \in Batches
      BY LoopEntry DEF OrderInv
    <2>2. ASSUME NEW i \in WritesOf(job[u])
          PROVE  /\ i \in Nat /\ i >= 1
                 /\ writes[<<job[u], i>>] > 0 => writes'[<<job[u], i>>] > 0
      BY <2>1, PlanDomain, OpsIntro, WritesGrow DEF WritesOf, OrderInv
    <2> QED BY <2>1, <2>2
  <1>2. CASE pc[u] = pc'[u] /\ idx'[u] = idx[u]
    BY <1>1, <1>2 DEF OrderInv, LoopInv
  <1>3. CASE MarkExecuting(u)
    BY <1>1, <1>3 DEF MarkExecuting, Goto, SetIdx, OrderInv, TypeInv, TypeOK
  <1>4. CASE SkipUnknown(u)
    <2>1. /\ pc[u] = "run" /\ pc'[u] = "run"
          /\ idx'[u] = idx[u] + 1 /\ idx[u] \in Nat
          /\ idx[u] \notin WritesOf(job[u])
      BY <1>4 DEF SkipUnknown, InLoop, At, SetIdx, Current, WritesOf, OrderInv,
                  TypeInv, TypeOK
    <2> QED BY <1>1, <2>1 DEF OrderInv, LoopInv
  <1>5. CASE RecordResult(u)
    <2>1. /\ pc[u] = "record" /\ pc'[u] = "run"
          /\ idx'[u] = idx[u] + 1 /\ idx[u] \in Nat
      BY <1>5 DEF RecordResult, Goto, At, SetIdx, OrderInv, TypeInv, TypeOK
    <2> QED BY <1>1, <2>1 DEF OrderInv, LoopInv
  <1>6. CASE CallSalesforce(u)
    <2>1. /\ pc[u] = "run" /\ pc'[u] = "record"
          /\ idx'[u] = idx[u] /\ idx[u] \in WritesOf(job[u])
          /\ idx[u] \in Nat /\ Applied(u)
      BY <1>6 DEF CallSalesforce, InLoop, Goto, At, local, Callable, Current,
                  WritesOf, OrderInv, TypeInv, TypeOK
    <2>2. writes'[<<job[u], idx[u]>>] > 0
      BY <1>1, <2>1, OpsIntro DEF Applied, WritesOf, OrderInv, TypeInv, TypeOK
    <2> QED BY <1>1, <2>1, <2>2 DEF OrderInv, LoopInv
  <1> QED BY <1>2, <1>3, <1>4, <1>5, <1>6, LoopEntry DEF OrderInv

LEMMA OrderStep == OrderInv /\ [Next]_vars => OrderInv'
  <1> SUFFICES ASSUME OrderInv, [Next]_vars PROVE OrderInv'
      OBVIOUS
  <1>1. TypeInv' /\ LoopInv'
    BY TypeStep, LoopStep DEF OrderInv
  <1>2. AppliedInOrder'
    <2> SUFFICES ASSUME NEW b \in Batches, NEW i \in WritesOf(b),
                        NEW j \in WritesOf(b), j < i, writes'[<<b, i>>] > 0
                 PROVE  writes'[<<b, j>>] > 0
        BY DEF AppliedInOrder, WritesOf
    <2>1. <<b, i>> \in Ops /\ <<b, j>> \in Ops
      BY OpsIntro DEF WritesOf
    <2>2. CASE writes[<<b, i>>] > 0
      <3>1. writes[<<b, j>>] > 0
        BY <2>2 DEF OrderInv, AppliedInOrder
      <3> QED BY <2>1, <3>1, WritesGrow DEF OrderInv
    <2>3. CASE ~ (writes[<<b, i>>] > 0)
      <3>1. PICK t \in Threads : InLoop(t) /\ Applied(t)
        BY <2>1, <2>3, WriteSteps DEF OrderInv
      <3>2. b = job[t] /\ i = idx[t]
        BY <2>1, <2>3, <3>1 DEF Applied, OrderInv, TypeInv, TypeOK
      <3>3. writes[<<b, j>>] > 0
        BY <3>1, <3>2 DEF InLoop, At, OrderInv, LoopInv
      <3> QED BY <2>1, <3>3, WritesGrow DEF OrderInv
    <2> QED BY <2>2, <2>3
  <1>3. CompletedRowsWereApplied'
    <2> SUFFICES ASSUME NEW o \in Ops, rows'[o] = "COMPLETED"
                 PROVE  writes'[o] > 0
        BY DEF CompletedRowsWereApplied
    <2>1. CASE rows[o] = "COMPLETED"
      BY <2>1, WritesGrow DEF OrderInv, CompletedRowsWereApplied
    <2>2. CASE rows[o] # "COMPLETED"
      <3>1. PICK t \in Threads : RecordResult(t)
        BY <2>2 DEF Next, Event, Handler, vars, store, InsertBatch, ClickApprove,
           ClickDeny, Click, InsertOperations, CreateOperationRows, SendCard,
           TellNotSent, Approve, Deny, DenyRelease, TellDenied, ShowCard,
           TellSuccess, TellFailure, Crash, Execute, ExecuteBatch, CheckApproved,
           LoadOperations, CheckConflicts, InsertLocks, MarkExecuting,
           SkipUnknown, CallSalesforce, OperationRaises, CompleteBatch, SkipRow,
           FailBatch, ReleaseLocks, UpdateOperationStatus, OrderInv, TypeInv,
           TypeOK, StoreTypeOK
      <3>2. o = <<job[t], idx[t]>> /\ idx[t] \in WritesOf(job[t])
            /\ idx[t] \in Nat /\ writes[o] > 0
        BY <2>2, <3>1 DEF RecordResult, UpdateOperationStatus, At, OrderInv,
           TypeInv, TypeOK, StoreTypeOK, LoopInv
      <3> QED BY <3>2, WritesGrow DEF OrderInv
    <2> QED BY <2>1, <2>2
  <1> QED BY <1>1, <1>2, <1>3 DEF OrderInv

\* An operation took effect only after every write before it in its plan.
THEOREM OrderIsKept == Spec => []AppliedInOrder
  <1>1. Spec => []OrderInv
    BY OrderInit, OrderStep, PTL DEF Spec
  <1> QED BY <1>1, PTL DEF OrderInv

\* An operation row that says COMPLETED stands for a write that took effect.
THEOREM CompletedRowsAreTrue == Spec => []CompletedRowsWereApplied
  <1>1. Spec => []OrderInv
    BY OrderInit, OrderStep, PTL DEF Spec
  <1> QED BY <1>1, PTL DEF OrderInv

-----------------------------------------------------------------------------
(* A batch that says COMPLETED had every write applied.  execute_batch     *)
(* also completes a batch without operation rows, so the argument needs    *)
(* that rows are there before anyone can click: create_batch inserts them  *)
(* before the card is sent.                                                *)

Stored(b) ==
    \/ card[b] # "none"
    \/ \E t \in Threads : job[t] = b /\ pc[t] \notin {"idle", "insertOps"}

RowsPresent ==
    \A b \in Batches : Stored(b) =>
        \A i \in DOMAIN Plan[b] : rows[<<b, i>>] # "absent"

CompletionInv == OrderInv /\ RowsPresent /\ CompletedBatchesWereApplied

LEMMA CompletionInit == Init => CompletionInv
  BY OrderInit
     DEF Init, StoreInit, CompletionInv, RowsPresent, Stored,
         CompletedBatchesWereApplied

LEMMA RowsStay ==
  ASSUME TypeInv, [Next]_vars, NEW o \in Ops, rows[o] # "absent"
  PROVE  rows'[o] # "absent"
  BY DEF Next, Event, Handler, vars, store, InsertBatch, ClickApprove,
     ClickDeny, Click, InsertOperations, CreateOperationRows, SendCard,
     TellNotSent, Approve, Deny, DenyRelease, TellDenied, ShowCard,
     TellSuccess, TellFailure, Crash, Execute, ExecuteBatch, CheckApproved,
     LoadOperations, CheckConflicts, InsertLocks, MarkExecuting, SkipUnknown,
     CallSalesforce, OperationRaises, RecordResult, CompleteBatch, SkipRow,
     FailBatch, ReleaseLocks, UpdateOperationStatus, TypeInv, TypeOK, StoreTypeOK

LEMMA StoredEntry ==
  ASSUME TypeInv, [Next]_vars, NEW b \in Batches, Stored(b)'
  PROVE  Stored(b) \/ \E t \in Threads : InsertOperations(t) /\ job[t] = b
  <1> USE DEF Goto, At, Idle, local, outside, TypeInv, TypeOK, JobsAreBatches
  <1>1. CASE card'[b] # "none"
    BY <1>1 DEF Next, Event, Handler, vars, Stored, InsertBatch, ClickApprove,
       ClickDeny, Click, InsertOperations, SendCard, Show, TellNotSent, Approve,
       Deny, DenyRelease, TellDenied, ShowCard, TellSuccess, TellFailure, Crash,
       Execute
  <1>2. CASE \E u \in Threads : job'[u] = b /\ pc'[u] \notin {"idle", "insertOps"}
    <2>1. PICK u \in Threads : job'[u] = b /\ pc'[u] \notin {"idle", "insertOps"}
      BY <1>2
    <2>2. CASE \E t \in Threads : Execute(t)
      BY <2>1, <2>2 DEF Stored, Execute, ExecuteBatch, CheckApproved,
         LoadOperations, CheckConflicts, InsertLocks, MarkExecuting, SkipUnknown,
         CallSalesforce, OperationRaises, Raise, RecordResult, CompleteBatch,
         SkipRow, FailBatch, ReleaseLocks, InLoop
    <2>3. CASE ~ \E t \in Threads : Execute(t)
      BY <2>1, <2>3 DEF Next, Event, Handler, vars, Stored, InsertBatch,
         ClickApprove, ClickDeny, Click, Start, InsertOperations, SendCard,
         Finish, TellNotSent, Approve, Deny, DenyRelease, TellDenied, ShowCard,
         TellSuccess, TellFailure, Crash
    <2> QED BY <2>2, <2>3
  <1> QED BY <1>1, <1>2 DEF Stored

LEMMA CompletionStep == CompletionInv /\ [Next]_vars => CompletionInv'
  <1> SUFFICES ASSUME CompletionInv, [Next]_vars PROVE CompletionInv'
      OBVIOUS
  <1>1. OrderInv' /\ TypeInv
    BY OrderStep DEF CompletionInv, OrderInv
  <1>2. RowsPresent'
    <2> SUFFICES ASSUME NEW b \in Batches, Stored(b)', NEW i \in DOMAIN Plan[b]
                 PROVE  rows'[<<b, i>>] # "absent"
        BY DEF RowsPresent
    <2>1. CASE Stored(b)
      BY <1>1, <2>1, RowsStay, OpsIntro DEF CompletionInv, RowsPresent
    <2>2. CASE \E t \in Threads : InsertOperations(t) /\ job[t] = b
      BY <2>2, OpsIntro DEF InsertOperations, CreateOperationRows
    <2> QED BY <1>1, <2>1, <2>2, StoredEntry
  <1>3. CompletedBatchesWereApplied'
    <2> SUFFICES ASSUME NEW b \in Batches, status'[b] = "COMPLETED",
                        NEW i \in WritesOf(b)
                 PROVE  writes'[<<b, i>>] > 0
        BY DEF CompletedBatchesWereApplied, WritesOf
    <2>1. i \in DOMAIN Plan[b] /\ <<b, i>> \in Ops /\ i \in Nat /\ i >= 1
      BY OpsIntro, PlanDomain DEF WritesOf
    <2>2. CASE status[b] = "COMPLETED"
      BY <1>1, <2>1, <2>2, WritesGrow
         DEF CompletionInv, CompletedBatchesWereApplied
    <2>3. CASE \E t \in Threads : CompleteBatch(t) /\ job[t] = b
      <3>1. PICK t \in Threads : CompleteBatch(t) /\ job[t] = b
        BY <2>3
      <3>2. i < idx[t]
        BY <1>1, <2>1, <3>1, PlanDomain
           DEF CompleteBatch, At, LoopDone, CompletionInv, OrderInv, LoopInv,
               TypeOK, TypeInv
      <3>3. writes[<<b, i>>] > 0
        BY <3>1, <3>2 DEF CompleteBatch, At, CompletionInv, OrderInv, LoopInv
      <3> QED BY <1>1, <2>1, <3>3, WritesGrow
    <2>4. CASE \E t \in Threads :
                  LoadOperations(t) /\ RowsOf(job[t]) = {} /\ job[t] = b
      BY <2>1, <2>4 DEF LoadOperations, At, RowsOf, CompletionInv, RowsPresent,
                        Stored
    <2>5. \/ status[b] = "COMPLETED"
          \/ \E t \in Threads : CompleteBatch(t) /\ job[t] = b
          \/ \E t \in Threads :
                LoadOperations(t) /\ RowsOf(job[t]) = {} /\ job[t] = b
      BY <1>1 DEF Next, Event, Handler, vars, store, InsertBatch, ClickApprove,
         ClickDeny, Click, InsertOperations, SendCard, TellNotSent, Approve, Deny,
         DenyRelease, TellDenied, ShowCard, TellSuccess, TellFailure, Crash,
         Execute, ExecuteBatch, CheckApproved, LoadOperations, CheckConflicts,
         InsertLocks, MarkExecuting, SkipUnknown, CallSalesforce,
         OperationRaises, RecordResult, CompleteBatch, SkipRow, FailBatch,
         ReleaseLocks, UpdateBatchStatus, TypeInv, TypeOK, StoreTypeOK
    <2> QED BY <2>2, <2>3, <2>4, <2>5
  <1> QED BY <1>1, <1>2, <1>3 DEF CompletionInv

\* A batch whose status is COMPLETED had each of its writes take effect.
THEOREM CompletedBatchesAreTrue == Spec => []CompletedBatchesWereApplied
  <1>1. Spec => []CompletionInv
    BY CompletionInit, CompletionStep, PTL DEF Spec
  <1> QED BY <1>1, PTL DEF CompletionInv

-----------------------------------------------------------------------------
(* Lock rows do not outlive the executor that inserted them, unless the    *)
(* process dies in between.                                                *)

OwnerInv == TypeInv /\ LocksHaveAnOwner

LEMMA OwnerInit == Init => OwnerInv
  BY TypeInit DEF Init, StoreInit, OwnerInv, LocksHaveAnOwner

\* A lock holder keeps its job and goes on holding, until it releases.
LEMMA HoldersStay ==
  ASSUME TypeInv, [Next]_vars, NEW u \in Threads, pc[u] \in HoldsLocks
  PROVE  \/ job'[u] = job[u] /\ pc'[u] \in HoldsLocks
         \/ ReleaseLocks(u)
         \/ Crash
  <1> USE DEF Goto, At, Idle, local, TypeInv, TypeOK, HoldsLocks
  <1>1. CASE \E t \in Threads : Execute(t)
    BY <1>1 DEF Execute, ExecuteBatch, CheckApproved, LoadOperations,
       CheckConflicts, InsertLocks, MarkExecuting, SkipUnknown, CallSalesforce,
       OperationRaises, Raise, RecordResult, CompleteBatch, SkipRow, FailBatch,
       ReleaseLocks, InLoop
  <1>2. CASE ~ \E t \in Threads : Execute(t)
    BY <1>2 DEF Next, Event, Handler, vars, InsertBatch, ClickApprove, ClickDeny,
       Click, Start, InsertOperations, SendCard, Finish, TellNotSent, Approve,
       Deny, DenyRelease, TellDenied, ShowCard, TellSuccess, TellFailure
  <1> QED BY <1>1, <1>2

LEMMA LockEntry ==
  ASSUME [Next]_vars, NEW l \in locks', l \notin locks
  PROVE  \E t \in Threads : InsertLocks(t) /\ l[1] = job[t]
  BY DEF Next, Event, Handler, vars, store, InsertBatch, ClickApprove,
     ClickDeny, Click, InsertOperations, SendCard, TellNotSent, Approve, Deny,
     DenyRelease, TellDenied, ShowCard, TellSuccess, TellFailure, Crash, Execute,
     ExecuteBatch, CheckApproved, LoadOperations, CheckConflicts, InsertLocks,
     MarkExecuting, SkipUnknown, CallSalesforce, OperationRaises, RecordResult,
     CompleteBatch, SkipRow, FailBatch, ReleaseLocks, InsertLockRows,
     DeleteLockRows

LEMMA OwnerStep == OwnerInv /\ [Next]_vars => OwnerInv'
  <1> SUFFICES ASSUME OwnerInv, [Next]_vars PROVE OwnerInv'
      OBVIOUS
  <1>1. TypeInv /\ TypeInv'
    BY TypeStep DEF OwnerInv
  <1>2. LocksHaveAnOwner'
    <2> SUFFICES ASSUME crashes' = 0, NEW l \in locks'
                 PROVE  \E t \in Threads : job'[t] = l[1] /\ pc'[t] \in HoldsLocks
        BY DEF LocksHaveAnOwner, HoldsLocks
    <2>1. crashes = 0 /\ ~ Crash
      BY <1>1 DEF Next, Event, Handler, vars, budget, InsertBatch, ClickApprove,
         ClickDeny, Click, InsertOperations, SendCard, TellNotSent, Approve, Deny,
         DenyRelease, TellDenied, ShowCard, TellSuccess, TellFailure, Crash,
         Execute, TypeInv, TypeOK
    <2>2. CASE l \in locks
      <3>1. PICK t \in Threads : job[t] = l[1] /\ pc[t] \in HoldsLocks
        BY <2>1, <2>2 DEF OwnerInv, LocksHaveAnOwner
      <3>2. ~ ReleaseLocks(t)
        BY <3>1 DEF ReleaseLocks, DeleteLockRows
      <3> QED BY <1>1, <2>1, <3>1, <3>2, HoldersStay
    <2>3. CASE l \notin locks
      <3>1. PICK t \in Threads : InsertLocks(t) /\ l[1] = job[t]
        BY <2>3, LockEntry
      <3> QED BY <1>1, <3>1
              DEF InsertLocks, Goto, local, HoldsLocks, TypeInv, TypeOK
    <2> QED BY <2>2, <2>3
  <1> QED BY <1>1, <1>2 DEF OwnerInv

\* As long as the process lives, every lock row has a thread on its way to
\* release it.
THEOREM LocksAreOwned == Spec => []LocksHaveAnOwner
  <1>1. Spec => []OwnerInv
    BY OwnerInit, OwnerStep, PTL DEF Spec
  <1> QED BY <1>1, PTL DEF OwnerInv
=============================================================================
