--------------------------- MODULE DecisionProofs ---------------------------
(***************************************************************************)
(* Theorems about ApprovalFlow when no two handlers decide one batch at    *)
(* the same time.  handle_approve and handle_deny read the status in one   *)
(* step and write it in a later one (handler.py:59, :135); the hypotheses  *)
(* below say exactly which two handlers must not be between these steps    *)
(* together, and hold of one click per card and of a single thread.        *)
(***************************************************************************)
EXTENDS ApprovalProofs

Undecided == {"approve", "deny"}

\* Of two handlers that saw a batch waiting for approval, one is done with its
\* UPDATE before the other reads.
DecidedAlone ==
    \A t, u \in Threads :
        {pc[t], pc[u]} \subseteq Undecided /\ job[t] = job[u] => t = u

\* Two executors that want one record are not both between the two halves of
\* acquire_locks.
LockedAlone ==
    \A t, u \in Threads :
        /\ At(t, "insertLocks") /\ At(u, "insertLocks")
        /\ LockTargets(job[t]) \cap LockTargets(job[u]) # {}
        => t = u

-----------------------------------------------------------------------------
(* The status of a batch tells how far its decision has come, so that it   *)
(* keeps every other handler out.                                          *)

Approved == {"execute", "load", "lock", "insertLocks", "mark"}
Working == {"run", "record", "skipRows"}
Refused == {"denyRelease", "dmDenied"}

StatusFits ==
    \A t \in Threads :
        /\ pc[t] \in Undecided => status[job[t]] = "PENDING_APPROVAL"
        /\ pc[t] \in Approved => status[job[t]] = "APPROVED"
        /\ pc[t] \in Working => status[job[t]] = "EXECUTING"
        /\ pc[t] = "release" => status[job[t]] \in {"COMPLETED", "FAILED"}
        /\ pc[t] \in Refused => status[job[t]] = "DENIED"

OneExecutor ==
    \A t, u \in Threads :
        {pc[t], pc[u]} \subseteq Approved \cup Working /\ job[t] = job[u] => t = u

StageInv == StatusFits /\ OneExecutor

\* What a step does to one handler.
LEMMA ThreadSteps ==
  ASSUME TypeInv, [Next]_vars, NEW u \in Threads
  PROVE  \/ /\ pc'[u] = pc[u] /\ job'[u] = job[u]
            /\ idx'[u] = idx[u] /\ text'[u] = text[u]
         \/ pc'[u] \notin Undecided \cup Approved \cup Working \cup Refused \cup {"release"}
         \/ /\ pc[u] = "idle" /\ pc'[u] \in Undecided
            /\ status[job'[u]] = "PENDING_APPROVAL"
            /\ job'[u] \in Batches /\ UNCHANGED status
         \/ /\ job'[u] = job[u] /\ job[u] \in Batches
            /\ \/ /\ pc[u] = "approve" /\ pc'[u] = "execute"
                  /\ status'[job[u]] = "APPROVED"
               \/ pc[u] \in Approved /\ pc'[u] \in Approved /\ UNCHANGED status
               \/ /\ pc[u] = "mark" /\ pc'[u] = "run"
                  /\ status'[job[u]] = "EXECUTING"
               \/ pc[u] \in Working /\ pc'[u] \in Working /\ UNCHANGED status
               \/ /\ pc[u] \in Working /\ pc'[u] = "release"
                  /\ status'[job[u]] \in {"COMPLETED", "FAILED"}
               \/ /\ pc[u] = "deny" /\ pc'[u] = "denyRelease"
                  /\ status'[job[u]] = "DENIED"
               \/ pc[u] \in Refused /\ pc'[u] \in Refused /\ UNCHANGED status
  <1> USE DEF Goto, At, Idle, local, store, TypeInv, TypeOK, StoreTypeOK,
              JobsAreBatches, UpdateBatchStatus, Undecided, Approved, Working,
              Refused
  <1>1. ASSUME NEW t \in Threads, t # u, Event(t) \/ Handler(t)
        PROVE  /\ pc'[u] = pc[u] /\ job'[u] = job[u]
               /\ idx'[u] = idx[u] /\ text'[u] = text[u]
    BY <1>1 DEF Event, Handler, InsertBatch, ClickApprove, ClickDeny, Click, Start,
       InsertOperations, SendCard, Finish, TellNotSent, Approve, Deny, DenyRelease,
       TellDenied, ShowCard, TellSuccess, TellFailure, Report, SetIdx, Execute,
       ExecuteBatch, CheckApproved, LoadOperations, CheckConflicts, InsertLocks,
       MarkExecuting, SkipUnknown, CallSalesforce, OperationRaises, Raise,
       RecordResult, CompleteBatch, SkipRow, FailBatch, ReleaseLocks
  <1>2. CASE Event(u)
    BY <1>2 DEF Event, InsertBatch, ClickApprove, ClickDeny, Click, Start
  <1>3. CASE Execute(u)
    BY <1>3 DEF Execute, ExecuteBatch, CheckApproved, LoadOperations,
       CheckConflicts, InsertLocks, MarkExecuting, SkipUnknown, InLoop,
       CallSalesforce, OperationRaises, Raise, RecordResult, CompleteBatch,
       SkipRow, FailBatch, ReleaseLocks
  <1>4. CASE Handler(u) /\ ~ Execute(u)
    BY <1>4 DEF Handler, InsertOperations, SendCard, Finish, TellNotSent, Approve,
       Deny, DenyRelease, TellDenied, ShowCard, TellSuccess, TellFailure
  <1>5. CASE Crash
    BY <1>5 DEF Crash
  <1>6. CASE UNCHANGED vars
    BY <1>6 DEF vars
  <1> QED BY <1>1, <1>2, <1>3, <1>4, <1>5, <1>6 DEF Next

\* What a step does to the status of one batch.
LEMMA StatusSteps ==
  ASSUME TypeInv, [Next]_vars, NEW b \in Batches
  PROVE  \/ status'[b] = status[b]
         \/ status[b] = "absent" /\ status'[b] = "PENDING_APPROVAL"
         \/ \E t \in Threads :
               /\ job[t] = b
               /\ pc'[t] # pc[t]
               /\ \/ pc[t] = "approve" /\ status'[b] = "APPROVED"
                  \/ pc[t] = "deny" /\ status'[b] = "DENIED"
                  \/ pc[t] = "mark" /\ status'[b] = "EXECUTING"
                  \/ pc[t] = "load" /\ RowsOf(b) = {} /\ status'[b] = "COMPLETED"
                  \/ pc[t] = "run" /\ LoopDone(t) /\ status'[b] = "COMPLETED"
                  \/ pc[t] = "skipRows" /\ status'[b] = "FAILED"
  <1> USE DEF Goto, At, Idle, store, TypeInv, TypeOK, StoreTypeOK,
              JobsAreBatches, UpdateBatchStatus
  <1>1. ASSUME NEW t \in Threads, Event(t)
        PROVE  \/ status'[b] = status[b]
               \/ status[b] = "absent" /\ status'[b] = "PENDING_APPROVAL"
    BY <1>1 DEF Event, InsertBatch, ClickApprove, ClickDeny, Click
  <1>2. ASSUME NEW t \in Threads, Handler(t)
        PROVE  \/ status'[b] = status[b]
               \/ /\ job[t] = b
                  /\ pc'[t] # pc[t]
                  /\ \/ pc[t] = "approve" /\ status'[b] = "APPROVED"
                     \/ pc[t] = "deny" /\ status'[b] = "DENIED"
                     \/ pc[t] = "mark" /\ status'[b] = "EXECUTING"
                     \/ pc[t] = "load" /\ RowsOf(b) = {} /\ status'[b] = "COMPLETED"
                     \/ pc[t] = "run" /\ LoopDone(t) /\ status'[b] = "COMPLETED"
                     \/ pc[t] = "skipRows" /\ status'[b] = "FAILED"
    BY <1>2 DEF Handler, InsertOperations, SendCard, TellNotSent, Approve,
       Deny, DenyRelease, TellDenied, ShowCard, TellSuccess, TellFailure, Execute,
       ExecuteBatch, CheckApproved, LoadOperations, CheckConflicts, InsertLocks,
       MarkExecuting, SkipUnknown, CallSalesforce, OperationRaises, RecordResult,
       CompleteBatch, SkipRow, FailBatch, ReleaseLocks
  <1>3. CASE Crash \/ UNCHANGED vars
    BY <1>3 DEF Crash, vars
  <1> QED BY <1>1, <1>2, <1>3 DEF Next

LEMMA StageStep ==
  ASSUME TypeInv, StageInv, DecidedAlone, [Next]_vars
  PROVE  StageInv'
  <1> USE DEF StageInv, StatusFits, OneExecutor, DecidedAlone, Undecided, Approved,
              Working, Refused
  <1>1. ASSUME NEW u \in Threads,
               pc'[u] = pc[u], job'[u] = job[u],
               pc[u] \in Undecided \cup Approved \cup Working \cup Refused \cup {"release"}
        PROVE  status'[job[u]] = status[job[u]]
    <2>1. job[u] \in Batches
      BY <1>1 DEF TypeInv, JobsAreBatches, Idle, At
    <2> QED BY <1>1, <2>1, StatusSteps
  <1>2. StatusFits'
    <2> SUFFICES ASSUME NEW u \in Threads
                 PROVE  /\ pc'[u] \in Undecided => status'[job'[u]] = "PENDING_APPROVAL"
                        /\ pc'[u] \in Approved => status'[job'[u]] = "APPROVED"
                        /\ pc'[u] \in Working => status'[job'[u]] = "EXECUTING"
                        /\ pc'[u] = "release" => status'[job'[u]] \in {"COMPLETED", "FAILED"}
                        /\ pc'[u] \in Refused => status'[job'[u]] = "DENIED"
        OBVIOUS
    <2> QED BY <1>1, ThreadSteps
  <1>3. OneExecutor'
    <2> SUFFICES ASSUME NEW t \in Threads, NEW u \in Threads, t # u,
                        pc'[t] \in Approved \cup Working,
                        pc'[u] \in Approved \cup Working, job'[t] = job'[u]
                 PROVE  FALSE
        OBVIOUS
    <2>1. ASSUME NEW x \in Threads, pc'[x] \in Approved \cup Working
          PROVE  /\ job'[x] = job[x]
                 /\ pc[x] \in Approved \cup Working \cup {"approve"}
      BY <2>1, ThreadSteps
    <2> QED BY <2>1
  <1> QED BY <1>2, <1>3

\* What is still to be written was not written yet.
Unwritten ==
    \A o \in Ops :
        /\ status[o[1]] \in {"absent", "PENDING_APPROVAL", "APPROVED", "DENIED"} =>
              writes[o] = 0
        /\ \A t \in Threads : job[t] = o[1] =>
              /\ pc[t] = "run" /\ o[2] >= idx[t] => writes[o] = 0
              /\ pc[t] = "record" /\ o[2] > idx[t] => writes[o] = 0

ToldDenied ==
    \A b \in Batches : "DENIED" \in told[b] => status[b] = "DENIED"

OnceInv == StageInv /\ Unwritten /\ AppliedAtMostOnce /\ ToldDenied

LEMMA UnwrittenStep ==
  ASSUME TypeInv, OnceInv, [Next]_vars
  PROVE  Unwritten' /\ AppliedAtMostOnce'
  <1> USE DEF OnceInv, StageInv
  <1>1. ASSUME NEW o \in Ops, writes'[o] # writes[o]
        PROVE  \E t \in Threads :
                  /\ pc[t] = "run" /\ pc'[t] \in {"record", "skipRows"}
                  /\ job[t] = o[1] /\ idx[t] = o[2]
                  /\ UNCHANGED <<status, job>> /\ status[o[1]] = "EXECUTING"
                  /\ pc'[t] = "record" => idx'[t] = idx[t]
                  /\ writes[o] = 0 /\ writes'[o] = 1
    <2>1. PICK t \in Threads :
             /\ InLoop(t) /\ Applied(t) /\ UNCHANGED <<store, job>>
             /\ (UNCHANGED local /\ Goto(t, "record")) \/ Goto(t, "skipRows")
      BY <1>1, WriteSteps
    <2>2. o = <<job[t], idx[t]>> /\ pc[t] = "run" /\ writes'[o] = writes[o] + 1
      BY <1>1, <2>1 DEF Applied, InLoop, At, TypeInv, TypeOK
    <2>3. o[1] \in Batches /\ o[2] = idx[t] /\ idx[t] \in Nat
      BY <2>2, OpsElim DEF TypeInv, TypeOK
    <2>4. writes[o] = 0
      BY <2>2, <2>3 DEF Unwritten
    <2> QED BY <2>1, <2>2, <2>3, <2>4
            DEF Goto, store, local, StatusFits, Working, TypeInv, TypeOK
  <1>2. AppliedAtMostOnce'
    BY <1>1 DEF AppliedAtMostOnce
  <1>3. ASSUME NEW o \in Ops,
               status'[o[1]] \in {"absent", "PENDING_APPROVAL", "APPROVED", "DENIED"}
        PROVE  writes'[o] = 0
    <2>1. writes'[o] = writes[o]
      BY <1>1, <1>3
    <2>2. status[o[1]] \in {"absent", "PENDING_APPROVAL", "APPROVED", "DENIED"}
      BY <1>3, StatusSteps, OpsElim DEF StatusFits, Undecided
    <2> QED BY <2>1, <2>2 DEF Unwritten
  <1>4. ASSUME NEW o \in Ops, NEW t \in Threads, job'[t] = o[1],
               \/ pc'[t] = "run" /\ o[2] >= idx'[t]
               \/ pc'[t] = "record" /\ o[2] > idx'[t]
        PROVE  writes'[o] = 0
    <2>1. /\ job[t] = o[1] /\ o[1] \in Batches /\ o[2] \in Nat
          /\ idx[t] \in Nat /\ idx'[t] \in Nat
      <3>1. job[t] = o[1]
        BY <1>4, LoopEntry
      <3>2. o[1] \in Batches /\ o[2] \in Nat
        BY OpsElim, PlanDomain
      <3>3. TypeInv'
        BY TypeStep
      <3> QED BY <3>1, <3>2, <3>3 DEF TypeInv, TypeOK
    <2>2. writes[o] = 0
      <3>1. CASE pc[t] = pc'[t] /\ idx'[t] = idx[t]
        BY <1>4, <2>1, <3>1 DEF Unwritten
      <3>2. CASE MarkExecuting(t)
        BY <2>1, <3>2 DEF MarkExecuting, At, Unwritten, StatusFits, Approved
      <3>3. CASE SkipUnknown(t)
        <4>1. pc[t] = "run" /\ pc'[t] = "run" /\ idx'[t] = idx[t] + 1
          BY <3>3 DEF SkipUnknown, InLoop, At, SetIdx, TypeInv, TypeOK
        <4>2. o[2] >= idx[t]
          BY <1>4, <2>1, <4>1
        <4> QED BY <2>1, <4>1, <4>2 DEF Unwritten
      <3>4. CASE RecordResult(t)
        <4>1. pc[t] = "record" /\ pc'[t] = "run" /\ idx'[t] = idx[t] + 1
          BY <3>4 DEF RecordResult, At, SetIdx, Goto, TypeInv, TypeOK
        <4>2. o[2] > idx[t]
          BY <1>4, <2>1, <4>1
        <4> QED BY <2>1, <4>1, <4>2 DEF Unwritten
      <3>5. CASE CallSalesforce(t)
        <4>1. pc[t] = "run" /\ pc'[t] = "record" /\ idx'[t] = idx[t]
          BY <3>5 DEF CallSalesforce, InLoop, At, Goto, local, TypeInv, TypeOK
        <4>2. o[2] >= idx[t]
          BY <1>4, <2>1, <4>1
        <4> QED BY <2>1, <4>1, <4>2 DEF Unwritten
      <3> QED BY <1>4, <3>1, <3>2, <3>3, <3>4, <3>5, LoopEntry
    <2>3. ASSUME writes'[o] # writes[o] PROVE FALSE
      <3>1. PICK w \in Threads :
               /\ pc[w] = "run" /\ pc'[w] \in {"record", "skipRows"}
               /\ job[w] = o[1] /\ idx[w] = o[2]
               /\ UNCHANGED <<status, job>>
               /\ pc'[w] = "record" => idx'[w] = idx[w]
        BY <1>1, <2>3
      <3>2. w # t
        BY <1>4, <2>1, <3>1
      <3>3. pc[t] \in Approved \cup Working
        BY <1>4, ThreadSteps DEF Approved, Working, Undecided, Refused
      <3> QED BY <2>1, <3>1, <3>2, <3>3 DEF OneExecutor, Working
    <2> QED BY <2>2, <2>3
  <1> QED BY <1>2, <1>3, <1>4 DEF Unwritten

LEMMA DenialEntry ==
  ASSUME TypeInv, [Next]_vars, NEW b \in Batches, "DENIED" \in told'[b]
  PROVE  \/ "DENIED" \in told[b]
         \/ UNCHANGED status /\ \E t \in Threads : pc[t] = "dmDenied" /\ job[t] = b
  BY DEF Next, Event, Handler, vars, store, outside, InsertBatch, ClickApprove,
     ClickDeny, Click, InsertOperations, SendCard, TellNotSent, Approve, Deny,
     DenyRelease, TellDenied, ShowCard, TellSuccess, TellFailure, Tell, Crash,
     Execute, TypeInv, TypeOK, At

LEMMA DeniedStays ==
  ASSUME TypeInv, StageInv, [Next]_vars, NEW b \in Batches, status[b] = "DENIED"
  PROVE  status'[b] = "DENIED"
  BY StatusSteps DEF StageInv, StatusFits, Undecided, Approved, Working

LEMMA ToldDeniedStep ==
  ASSUME TypeInv, OnceInv, [Next]_vars
  PROVE  ToldDenied'
  <1> SUFFICES ASSUME NEW b \in Batches, "DENIED" \in told'[b]
               PROVE  status'[b] = "DENIED"
      BY DEF ToldDenied
  <1> QED BY DenialEntry, DeniedStays
          DEF OnceInv, StageInv, ToldDenied, StatusFits, Refused

LEMMA OnceInit == Init => OnceInv
  BY OpsElim
     DEF Init, StoreInit, OnceInv, StageInv, StatusFits, OneExecutor, Unwritten,
         AppliedAtMostOnce, ToldDenied, Undecided, Approved, Working, Refused

LEMMA OnceStep == TypeInv /\ OnceInv /\ DecidedAlone /\ [Next]_vars => OnceInv'
  BY StageStep, UnwrittenStep, ToldDeniedStep DEF OnceInv

LEMMA OnceHolds == Spec /\ []DecidedAlone => [](CompletionInv /\ OnceInv)
  <1>1. CompletionInv => TypeInv
    BY DEF CompletionInv, OrderInv
  <1> QED BY <1>1, CompletionInit, CompletionStep, OnceInit, OnceStep, PTL DEF Spec

\* No write reaches Salesforce twice, whatever is retried, raised or cut short.
THEOREM WritesHappenOnce == Spec /\ []DecidedAlone => []AppliedAtMostOnce
  <1>1. OnceInv => AppliedAtMostOnce
    BY DEF OnceInv
  <1> QED BY <1>1, OnceHolds, PTL

\* A batch that was denied, or whose requester was told so, stays denied and
\* never writes.
THEOREM DenialsStand == Spec /\ []DecidedAlone => []DenialIsFinal
  <1>1. OnceInv => DenialIsFinal
    BY OpsIntro DEF OnceInv, ToldDenied, Unwritten, DenialIsFinal
  <1> QED BY <1>1, OnceHolds, PTL

-----------------------------------------------------------------------------
(* Every step is one of WritePlan's, or changes nothing it can see.        *)

TakenEffect == [b \in Batches |-> {i \in WritesOf(b) : writes[<<b, i>>] > 0}]

\* A step that writes applies the next write of a plan that executes.
LEMMA WriteIsApply ==
  ASSUME CompletionInv, OnceInv, [Next]_vars, ~ UNCHANGED writes
  PROVE  \E b \in Batches : \E i \in WritesOf(b) : Promise!Apply(b, i)
  <1>1. PICK t \in Threads :
           /\ InLoop(t) /\ Current(t).type # "OTHER"
           /\ Applied(t) /\ UNCHANGED store
    BY WriteSteps DEF CompletionInv, OrderInv
  <1>2. PICK b \in Batches : \E i \in WritesOf(b) :
           job[t] = b /\ idx[t] = i /\ i \in Nat /\ <<b, i>> \in Ops
    <2>1. job[t] \in Batches /\ idx[t] \in WritesOf(job[t])
      BY <1>1 DEF InLoop, At, Idle, Current, WritesOf, CompletionInv, OrderInv,
         TypeInv, JobsAreBatches
    <2>2. idx[t] \in Nat /\ <<job[t], idx[t]>> \in Ops
      BY <2>1, OpsIntro DEF WritesOf, CompletionInv, OrderInv, TypeInv, TypeOK
    <2> QED BY <2>1, <2>2
  <1>3. PICK i \in WritesOf(b) :
           job[t] = b /\ idx[t] = i /\ i \in Nat /\ <<b, i>> \in Ops
    BY <1>2
  <1>4. status[b] = "EXECUTING" /\ UNCHANGED status
    BY <1>1, <1>3 DEF InLoop, At, OnceInv, StageInv, StatusFits, Working, store
  <1>5. writes[<<b, i>>] = 0
    BY <1>1, <1>3 DEF InLoop, At, OnceInv, Unwritten
  <1>6. \A j \in WritesOf(b) : j < i => writes[<<b, j>>] > 0
    BY <1>1, <1>3 DEF InLoop, At, CompletionInv, OrderInv, LoopInv
  <1>7. /\ writes'[<<b, i>>] = 1
        /\ \A o \in Ops \ {<<b, i>>} : writes'[o] = writes[o]
    BY <1>1, <1>3, <1>5 DEF Applied, CompletionInv, OrderInv, TypeInv, TypeOK
  <1>8. TakenEffect' = [TakenEffect EXCEPT ![b] = @ \cup {i}]
    <2>1. ASSUME NEW c \in Batches, NEW j \in WritesOf(c), <<c, j>> # <<b, i>>
          PROVE  writes'[<<c, j>>] = writes[<<c, j>>]
      BY <1>7, <2>1, OpsIntro DEF WritesOf
    <2>2. TakenEffect'[b] = TakenEffect[b] \cup {i}
      <3>1. \A j \in WritesOf(b) : writes'[<<b, j>>] > 0 <=> writes[<<b, j>>] > 0 \/ j = i
        BY <1>7, <2>1
      <3> QED BY <1>3, <3>1 DEF TakenEffect, WritesOf
    <2>3. ASSUME NEW c \in Batches, c # b
          PROVE  TakenEffect'[c] = TakenEffect[c]
      <3>1. \A j \in WritesOf(c) : writes'[<<c, j>>] = writes[<<c, j>>]
        BY <2>1, <2>3
      <3> QED BY <3>1 DEF TakenEffect, WritesOf
    <2>4. DOMAIN TakenEffect = Batches /\ DOMAIN TakenEffect' = Batches
      BY DEF TakenEffect
    <2>5. TakenEffect' = [c \in Batches |-> TakenEffect'[c]]
      BY DEF TakenEffect
    <2>6. [TakenEffect EXCEPT ![b] = @ \cup {i}]
             = [c \in Batches |-> IF c = b THEN TakenEffect[c] \cup {i} ELSE TakenEffect[c]]
      BY <2>4
    <2> HIDE DEF TakenEffect
    <2> QED BY <2>2, <2>3, <2>5, <2>6
  <1>9. i \in WritesOf(b) \ TakenEffect[b] /\ \A j \in WritesOf(b) : j < i => j \in TakenEffect[b]
    BY <1>3, <1>5, <1>6 DEF TakenEffect
  <1>10. Promise!Apply(b, i)
    <2>1. Promise!Apply(b, i)
             <=> /\ status[b] = "EXECUTING"
                 /\ i \in WritesOf(b) \ TakenEffect[b]
                 /\ \A j \in WritesOf(b) : j < i => j \in TakenEffect[b]
                 /\ TakenEffect' = [TakenEffect EXCEPT ![b] = @ \cup {i}]
                 /\ UNCHANGED status
      BY DEF Promise!Apply, TakenEffect
    <2> QED BY <1>4, <1>8, <1>9, <2>1
  <1> QED BY <1>3, <1>10

LEMMA EffectStands ==
  ASSUME UNCHANGED writes
  PROVE  UNCHANGED TakenEffect
  BY DEF TakenEffect, WritesOf

\* A batch is completed when its last write is in effect.
LEMMA CompletedMeansAll ==
  ASSUME CompletionInv, NEW b \in Batches, NEW t \in Threads, job[t] = b,
         \/ pc[t] = "load" /\ RowsOf(b) = {}
         \/ pc[t] = "run" /\ LoopDone(t)
  PROVE  /\ TakenEffect[b] = WritesOf(b)
         /\ pc[t] = "load" => WritesOf(b) = {}
  <1>1. CASE pc[t] = "load" /\ RowsOf(b) = {}
    <2>1. DOMAIN Plan[b] = {}
      BY <1>1 DEF CompletionInv, RowsPresent, Stored, RowsOf
    <2> QED BY <2>1 DEF WritesOf, TakenEffect
  <1>2. CASE pc[t] = "run" /\ LoopDone(t)
    <2>1. ASSUME NEW i \in WritesOf(b)
          PROVE  writes[<<b, i>>] > 0
      <3>1. i < idx[t]
        BY <1>2, PlanDomain
           DEF LoopDone, CompletionInv, OrderInv, LoopInv, WritesOf, TypeOK, TypeInv
      <3> QED BY <1>2, <3>1 DEF CompletionInv, OrderInv, LoopInv
    <2> QED BY <1>2, <2>1 DEF TakenEffect
  <1> QED BY <1>1, <1>2

LEMMA StatusIsMove ==
  ASSUME CompletionInv, OnceInv, [Next]_vars, ~ UNCHANGED status
  PROVE  Promise!Next
  <1>1. TypeInv /\ TypeInv'
    BY TypeStep DEF CompletionInv, OrderInv
  <1>2. UNCHANGED writes
    BY <1>1, WriteSteps DEF store
  <1>3. PICK b \in Batches : status' = [status EXCEPT ![b] = status'[b]]
                             /\ status'[b] # status[b]
    <2>1. PICK c \in Batches, s \in BatchStatus : status' = [status EXCEPT ![c] = s]
      BY <1>1 DEF Next, Event, Handler, vars, store, InsertBatch, ClickApprove,
         ClickDeny, Click, InsertOperations, SendCard, TellNotSent, Approve, Deny,
         DenyRelease, TellDenied, ShowCard, TellSuccess, TellFailure, Crash,
         UpdateBatchStatus, Execute, ExecuteBatch, CheckApproved, LoadOperations,
         CheckConflicts, InsertLocks, MarkExecuting, SkipUnknown, CallSalesforce,
         OperationRaises, RecordResult, CompleteBatch, SkipRow, FailBatch,
         ReleaseLocks, BatchStatus, At, Idle, TypeInv, JobsAreBatches
    <2> QED BY <1>1, <2>1 DEF TypeInv, TypeOK, StoreTypeOK
  <1>4. UNCHANGED TakenEffect
    BY <1>2, EffectStands
  <1>5. CASE status[b] = "absent" /\ status'[b] = "PENDING_APPROVAL"
    <2>1. Promise!Submit(b)
      BY <1>3, <1>4, <1>5 DEF Promise!Submit, Promise!Move, TakenEffect
    <2> QED BY <2>1 DEF Promise!Next
  <1>6. CASE ~ (status[b] = "absent" /\ status'[b] = "PENDING_APPROVAL")
    <2>1. PICK t \in Threads :
             /\ job[t] = b
             /\ \/ pc[t] = "approve" /\ status'[b] = "APPROVED"
                \/ pc[t] = "deny" /\ status'[b] = "DENIED"
                \/ pc[t] = "mark" /\ status'[b] = "EXECUTING"
                \/ pc[t] = "load" /\ RowsOf(b) = {} /\ status'[b] = "COMPLETED"
                \/ pc[t] = "run" /\ LoopDone(t) /\ status'[b] = "COMPLETED"
                \/ pc[t] = "skipRows" /\ status'[b] = "FAILED"
      BY <1>1, <1>3, <1>6, StatusSteps
    <2>2. CASE pc[t] \notin {"load", "run"}
      <3>1. \/ Promise!Approve(b) \/ Promise!Deny(b)
            \/ Promise!Begin(b) \/ Promise!Fail(b)
        BY <1>3, <1>4, <2>1, <2>2
           DEF Promise!Approve, Promise!Deny, Promise!Begin, Promise!Fail,
               Promise!Move, TakenEffect, OnceInv, StageInv, StatusFits, Undecided,
               Approved, Working
      <3> QED BY <3>1 DEF Promise!Next
    <2>3. CASE pc[t] \in {"load", "run"}
      <3>1. /\ status'[b] = "COMPLETED"
            /\ \/ pc[t] = "load" /\ RowsOf(b) = {}
               \/ pc[t] = "run" /\ LoopDone(t)
        BY <2>1, <2>3
      <3>2. /\ TakenEffect[b] = WritesOf(b)
            /\ pc[t] = "load" => WritesOf(b) = {}
        BY <2>1, <3>1, CompletedMeansAll
      <3>3. Promise!Complete(b)
        BY <1>3, <1>4, <2>1, <3>1, <3>2
           DEF Promise!Complete, Promise!Move, TakenEffect, OnceInv, StageInv,
               StatusFits, Approved, Working
      <3> QED BY <3>3 DEF Promise!Next
    <2> QED BY <2>2, <2>3
  <1> QED BY <1>5, <1>6

LEMMA PromiseInit == Init => Promise!Init
  BY OpsIntro DEF Init, StoreInit, Promise!Init, WritesOf

LEMMA PromiseStep ==
  CompletionInv /\ OnceInv /\ [Next]_vars =>
    [Promise!Next]_<<status, [b \in Batches |-> {i \in WritesOf(b) : writes[<<b, i>>] > 0}]>>
  <1> SUFFICES ASSUME CompletionInv, OnceInv, [Next]_vars
               PROVE  Promise!Next \/ UNCHANGED <<status, TakenEffect>>
      BY DEF TakenEffect
  <1>1. CASE ~ UNCHANGED writes
    BY <1>1, WriteIsApply DEF Promise!Next
  <1>2. CASE ~ UNCHANGED status
    BY <1>2, StatusIsMove
  <1>3. CASE UNCHANGED <<status, writes>>
    BY <1>3, EffectStands
  <1> QED BY <1>1, <1>2, <1>3

\* The handlers, tables and threads keep the promise of WritePlan: one decision
\* per plan, its writes once and in order while it executes, and a final status
\* that is true.
THEOREM PlansAreImplemented == Spec /\ []DecidedAlone => PromiseKept
  <1> QED BY PromiseInit, PromiseStep, OnceHolds, PTL
          DEF Spec, PromiseKept, Promise!Spec

-----------------------------------------------------------------------------
(* Locks.  A batch keeps its lock rows for as long as it may write: only    *)
(* the end of its own execution and a denial delete them, and the status   *)
(* excludes both.                                                          *)

MayWrite == {"mark", "run", "record"}

HasItsLocks ==
    \A t \in Threads : pc[t] \in MayWrite =>
        {job[t]} \X LockTargets(job[t]) \subseteq locks

LocksAreLate ==
    \A l \in locks : status[l[1]] \in {"APPROVED", "EXECUTING", "COMPLETED", "FAILED"}

HoldInv == HasItsLocks /\ LocksAreLate

LEMMA LocksLeave ==
  ASSUME [Next]_vars, NEW l \in locks, l \notin locks'
  PROVE  \E t \in Threads : l[1] = job[t] /\ pc[t] \in {"release", "denyRelease"}
  BY DEF Next, Event, Handler, vars, store, InsertBatch, ClickApprove,
     ClickDeny, Click, InsertOperations, SendCard, TellNotSent, Approve, Deny,
     DenyRelease, TellDenied, ShowCard, TellSuccess, TellFailure, Crash, Execute,
     ExecuteBatch, CheckApproved, LoadOperations, CheckConflicts, InsertLocks,
     MarkExecuting, SkipUnknown, CallSalesforce, OperationRaises, RecordResult,
     CompleteBatch, SkipRow, FailBatch, ReleaseLocks, InsertLockRows,
     DeleteLockRows, At

LEMMA MayWriteEntry ==
  ASSUME TypeInv, [Next]_vars, NEW u \in Threads, pc'[u] \in MayWrite
  PROVE  /\ job'[u] = job[u]
         /\ job[u] \in Batches
         /\ \/ pc[u] \in MayWrite
            \/ InsertLocks(u)
            \/ LockTargets(job[u]) = {}
  <1> USE DEF Goto, At, Idle, local, TypeInv, TypeOK, JobsAreBatches, MayWrite
  <1>1. CASE Execute(u)
    BY <1>1 DEF Execute, ExecuteBatch, CheckApproved, LoadOperations, CheckConflicts,
       InsertLocks, MarkExecuting, SkipUnknown, CallSalesforce, OperationRaises,
       Raise, RecordResult, CompleteBatch, SkipRow, FailBatch, ReleaseLocks, InLoop
  <1>2. CASE ~ Execute(u)
    <2>1. pc'[u] = pc[u] /\ job'[u] = job[u]
      <3>1. CASE \E t \in Threads : Execute(t)
        <4>1. PICK t \in Threads : Execute(t) /\ t # u
          BY <1>2, <3>1
        <4> QED BY <4>1 DEF Execute, ExecuteBatch, CheckApproved, LoadOperations,
           CheckConflicts, InsertLocks, MarkExecuting, SkipUnknown, CallSalesforce,
           OperationRaises, Raise, RecordResult, CompleteBatch, SkipRow, FailBatch,
           ReleaseLocks
      <3>2. CASE ~ \E t \in Threads : Execute(t)
        BY <3>2 DEF Next, Event, Handler, vars, InsertBatch, ClickApprove, ClickDeny,
           Click, Start, InsertOperations, SendCard, Finish, TellNotSent, Approve,
           Deny, DenyRelease, TellDenied, ShowCard, TellSuccess, TellFailure, Crash
      <3> QED BY <3>1, <3>2
    <2> QED BY <2>1
  <1> QED BY <1>1, <1>2

LEMMA HoldStep ==
  ASSUME TypeInv, StageInv, HoldInv, [Next]_vars
  PROVE  HoldInv'
  <1>1. HasItsLocks'
    <2> SUFFICES ASSUME NEW u \in Threads, pc'[u] \in MayWrite,
                        NEW r \in LockTargets(job[u])
                 PROVE  <<job[u], r>> \in locks'
      <3>1. \A u \in Threads : pc'[u] \in MayWrite => job'[u] = job[u]
        BY MayWriteEntry
      <3> QED BY <3>1 DEF HasItsLocks, LockTargets
    <2>1. job[u] \in Batches /\ (pc[u] \in MayWrite \/ InsertLocks(u))
      BY MayWriteEntry
    <2>2. CASE InsertLocks(u)
      BY <2>2 DEF InsertLocks, InsertLockRows
    <2>3. CASE pc[u] \in MayWrite
      <3>1. <<job[u], r>> \in locks
        BY <2>3 DEF HoldInv, HasItsLocks
      <3>2. status[job[u]] \in {"APPROVED", "EXECUTING"}
        BY <2>3 DEF MayWrite, StageInv, StatusFits, Approved, Working
      <3>3. ASSUME <<job[u], r>> \notin locks' PROVE FALSE
        <4>1. PICK t \in Threads :
                 job[u] = job[t] /\ pc[t] \in {"release", "denyRelease"}
          BY <3>1, <3>3, LocksLeave
        <4> QED BY <3>2, <4>1 DEF StageInv, StatusFits, Refused
      <3> QED BY <3>3
    <2> QED BY <2>1, <2>2, <2>3
  <1>2. LocksAreLate'
    <2> SUFFICES ASSUME NEW l \in locks'
                 PROVE  status'[l[1]] \in {"APPROVED", "EXECUTING", "COMPLETED", "FAILED"}
        BY DEF LocksAreLate
    <2>1. CASE l \in locks
      <3>1. l[1] \in Batches
        BY <2>1 DEF TypeInv, TypeOK, StoreTypeOK
      <3> QED BY <2>1, <3>1, StatusSteps
              DEF HoldInv, LocksAreLate, StageInv, StatusFits, Undecided
    <2>2. CASE l \notin locks
      <3>1. PICK t \in Threads : InsertLocks(t) /\ l[1] = job[t]
        BY <2>2, LockEntry
      <3> QED BY <3>1 DEF InsertLocks, At, StageInv, StatusFits, Approved
    <2> QED BY <2>1, <2>2
  <1> QED BY <1>1, <1>2 DEF HoldInv

LEMMA HoldInit == Init => HoldInv
  BY DEF Init, StoreInit, HoldInv, HasItsLocks, LocksAreLate, MayWrite

LEMMA HoldHolds == Spec /\ []DecidedAlone => [](TypeInv /\ StageInv /\ HoldInv)
  <1>1. Init => StageInv
    BY OnceInit DEF OnceInv
  <1>2. TypeInv /\ StageInv /\ HoldInv /\ DecidedAlone /\ [Next]_vars
           => (TypeInv /\ StageInv /\ HoldInv)'
    BY TypeStep, StageStep, HoldStep
  <1> QED BY <1>1, <1>2, TypeInit, HoldInit, PTL DEF Spec

LEMMA WritesAreLocked ==
  TypeInv /\ HoldInv /\ [Next]_vars =>
    [\A o \in Ops :
        /\ writes'[o] # writes[o]
        /\ OpAt(o[1], o[2]).type = "UPDATE"
        => <<o[1], OpAt(o[1], o[2]).target>> \in locks]_vars
  <1> SUFFICES ASSUME TypeInv, HoldInv, [Next]_vars,
                      NEW o \in Ops, writes'[o] # writes[o],
                      OpAt(o[1], o[2]).type = "UPDATE"
               PROVE  <<o[1], OpAt(o[1], o[2]).target>> \in locks
      OBVIOUS
  <1>1. PICK t \in Threads : InLoop(t) /\ Callable(Current(t)) /\ Applied(t)
    BY WriteSteps
  <1>2. o[1] = job[t] /\ o[2] = idx[t]
    BY <1>1 DEF Applied, TypeInv, TypeOK
  <1>3. OpAt(o[1], o[2]).target \in LockTargets(job[t])
    BY <1>1, <1>2 DEF InLoop, Callable, Current, LockTargets
  <1> QED BY <1>1, <1>2, <1>3 DEF InLoop, At, HoldInv, HasItsLocks, MayWrite

\* An UPDATE takes effect only while its batch has a lock row on its record.
THEOREM UpdatesHoldTheirLocks == Spec /\ []DecidedAlone => UpdatesAreLocked
  <1> QED BY WritesAreLocked, HoldHolds, PTL DEF Spec, UpdatesAreLocked

\* What acquire_locks saw is still so when it inserts.
FreeToLock ==
    \A t \in Threads : At(t, "insertLocks") => Conflicts(job[t]) = {}

LockInv == FreeToLock /\ LocksAreUnique

\* A lock row that is held now was held before, or has just been inserted.
LEMMA ActiveLocks ==
  ASSUME TypeInv, StageInv, HoldInv, [Next]_vars,
         NEW l \in locks', status'[l[1]] \in ActiveStatuses
  PROVE  \/ l \in locks /\ status[l[1]] \in ActiveStatuses
         \/ \E t \in Threads : InsertLocks(t) /\ l[1] = job[t] /\ l[2] \in LockTargets(job[t])
  <1>1. CASE l \in locks
    <2>1. l[1] \in Batches
      BY <1>1 DEF TypeInv, TypeOK, StoreTypeOK
    <2> QED BY <1>1, <2>1, StatusSteps DEF HoldInv, LocksAreLate, ActiveStatuses,
            StageInv, StatusFits, Undecided, Approved
  <1>2. CASE l \notin locks
    <2>1. PICK t \in Threads : InsertLocks(t) /\ l[1] = job[t]
      BY <1>2, LockEntry
    <2> QED BY <1>2, <2>1 DEF InsertLocks, InsertLockRows
  <1> QED BY <1>1, <1>2

LEMMA InsertEntry ==
  ASSUME TypeInv, [Next]_vars, NEW u \in Threads, pc'[u] = "insertLocks"
  PROVE  /\ job'[u] = job[u]
         /\ \/ pc[u] = "insertLocks"
            \/ Conflicts(job[u]) = {} /\ UNCHANGED store
  <1> USE DEF Goto, At, Idle, local, TypeInv, TypeOK, JobsAreBatches
  <1>1. CASE \E t \in Threads : Execute(t)
    BY <1>1 DEF Execute, ExecuteBatch, CheckApproved, LoadOperations, CheckConflicts,
       InsertLocks, MarkExecuting, SkipUnknown, CallSalesforce, OperationRaises,
       Raise, RecordResult, CompleteBatch, SkipRow, FailBatch, ReleaseLocks, InLoop
  <1>2. CASE ~ \E t \in Threads : Execute(t)
    BY <1>2 DEF Next, Event, Handler, vars, InsertBatch, ClickApprove, ClickDeny,
       Click, Start, InsertOperations, SendCard, Finish, TellNotSent, Approve,
       Deny, DenyRelease, TellDenied, ShowCard, TellSuccess, TellFailure, Crash
  <1> QED BY <1>1, <1>2

LEMMA LockStep ==
  ASSUME TypeInv, StageInv, HoldInv, LockInv, LockedAlone, [Next]_vars
  PROVE  LockInv'
  <1>1. FreeToLock'
    <2> SUFFICES ASSUME NEW u \in Threads, pc'[u] = "insertLocks",
                        NEW l \in locks', l[1] # job'[u], l[2] \in LockTargets(job'[u]),
                        status'[l[1]] \in ActiveStatuses
                 PROVE  FALSE
        BY DEF FreeToLock, At, Conflicts, LockTargets
    <2>1. job'[u] = job[u]
      BY InsertEntry
    <2>2. CASE pc[u] = "insertLocks"
      <3>1. CASE l \in locks /\ status[l[1]] \in ActiveStatuses
        BY <2>1, <2>2, <3>1 DEF LockInv, FreeToLock, At, Conflicts
      <3>2. CASE \E t \in Threads : InsertLocks(t) /\ l[1] = job[t]
                                    /\ l[2] \in LockTargets(job[t])
        BY <2>1, <2>2, <3>2 DEF LockedAlone, InsertLocks, At
      <3> QED BY <3>1, <3>2, ActiveLocks
    <2>3. CASE Conflicts(job[u]) = {} /\ UNCHANGED store
      BY <2>1, <2>3 DEF store, Conflicts
    <2> QED BY <2>2, <2>3, InsertEntry
  <1>2. LocksAreUnique'
    <2> SUFFICES ASSUME NEW l \in locks', NEW m \in locks', l[2] = m[2],
                        status'[l[1]] \in ActiveStatuses,
                        status'[m[1]] \in ActiveStatuses, l[1] # m[1]
                 PROVE  FALSE
        BY DEF LocksAreUnique
    <2>1. ASSUME NEW x \in locks', NEW y \in locks', x[2] = y[2], x[1] # y[1],
                 y \in locks, status[y[1]] \in ActiveStatuses
          PROVE  ~ \E t \in Threads : InsertLocks(t) /\ x[1] = job[t]
                                      /\ x[2] \in LockTargets(job[t])
      BY <2>1 DEF LockInv, FreeToLock, InsertLocks, Conflicts
    <2>2. CASE l \in locks /\ status[l[1]] \in ActiveStatuses
      <3>1. m \in locks /\ status[m[1]] \in ActiveStatuses
        BY <2>1, <2>2, ActiveLocks
      <3> QED BY <2>2, <3>1 DEF LockInv, LocksAreUnique
    <2>3. CASE m \in locks /\ status[m[1]] \in ActiveStatuses
      <3>1. l \in locks /\ status[l[1]] \in ActiveStatuses
        BY <2>1, <2>3, ActiveLocks
      <3> QED BY <2>3, <3>1 DEF LockInv, LocksAreUnique
    <2>4. CASE /\ \E t \in Threads : InsertLocks(t) /\ l[1] = job[t]
               /\ \E t \in Threads : InsertLocks(t) /\ m[1] = job[t]
      BY <2>4 DEF InsertLocks, Goto, At, TypeInv, TypeOK
    <2> QED BY <2>2, <2>3, <2>4, ActiveLocks
  <1> QED BY <1>1, <1>2 DEF LockInv

LEMMA LockInit == Init => LockInv
  BY DEF Init, StoreInit, LockInv, FreeToLock, LocksAreUnique, At

\* Two batches under way never hold a lock on one record.
THEOREM LocksExclude == Spec /\ []DecidedAlone /\ []LockedAlone => []LocksAreUnique
  <1>1. TypeInv /\ StageInv /\ HoldInv /\ LockInv /\ LockedAlone /\ [Next]_vars => LockInv'
    BY LockStep
  <1>2. LockInv => LocksAreUnique
    BY DEF LockInv
  <1> QED BY <1>1, <1>2, HoldHolds, LockInit, PTL DEF Spec

-----------------------------------------------------------------------------
(* Where the hypotheses hold.                                              *)

ClickedOnce == \A b \in Batches : MaxClicks[b] <= 1

OneThread == \A t, u \in Threads : t = u

\* A handler that decides was started by a click.
ClickedInv ==
    /\ \A t \in Threads : pc[t] \in Undecided => clicks[job[t]] >= 1
    /\ DecidedAlone

LEMMA ClickSteps ==
  ASSUME TypeInv, [Next]_vars
  PROVE  /\ \A b \in Batches : clicks'[b] >= clicks[b]
         /\ \A u \in Threads : pc'[u] \in Undecided =>
               /\ job'[u] \in Batches
               /\ \/ pc[u] = pc'[u] /\ job'[u] = job[u]
                  \/ /\ clicks[job'[u]] < MaxClicks[job'[u]]
                     /\ clicks'[job'[u]] = clicks[job'[u]] + 1
                     /\ \A v \in Threads \ {u} : pc'[v] = pc[v] /\ job'[v] = job[v]
  <1> USE DEF Goto, At, Idle, local, budget, TypeInv, TypeOK, JobsAreBatches,
              Undecided
  <1>1. CASE \E t \in Threads, b \in Batches, p \in Undecided : Click(t, b, p)
    BY <1>1, BoundsAssumption DEF Click, Start
  <1>2. CASE \E t \in Threads : Execute(t)
    BY <1>2 DEF Execute, ExecuteBatch, CheckApproved, LoadOperations, CheckConflicts,
       InsertLocks, MarkExecuting, SkipUnknown, CallSalesforce, OperationRaises,
       Raise, RecordResult, CompleteBatch, SkipRow, FailBatch, ReleaseLocks
  <1>3. CASE /\ ~ \E t \in Threads, b \in Batches, p \in Undecided : Click(t, b, p)
             /\ ~ \E t \in Threads : Execute(t)
    BY <1>3 DEF Next, Event, Handler, vars, InsertBatch, ClickApprove, ClickDeny,
       Start, InsertOperations, SendCard, Finish, TellNotSent, Approve,
       Deny, DenyRelease, TellDenied, ShowCard, TellSuccess, TellFailure, Crash
  <1> QED BY <1>1, <1>2, <1>3

LEMMA ClickedStep ==
  ASSUME ClickedOnce, TypeInv, ClickedInv, [Next]_vars
  PROVE  ClickedInv'
  <1>1. /\ \A b \in Batches : /\ clicks'[b] >= clicks[b]
                              /\ clicks[b] \in Nat /\ clicks'[b] \in Nat
                              /\ MaxClicks[b] \in Nat
    BY ClickSteps, TypeStep, BoundsAssumption DEF TypeInv, TypeOK
  <1>2. ASSUME NEW u \in Threads, pc'[u] \in Undecided
        PROVE  clicks'[job'[u]] >= 1
    <2>1. job'[u] \in Batches
      BY <1>2, ClickSteps
    <2> QED BY <1>1, <1>2, <2>1, ClickSteps DEF ClickedInv
  <1>3. ASSUME NEW t \in Threads, NEW u \in Threads, t # u,
               pc'[t] \in Undecided, pc'[u] \in Undecided, job'[t] = job'[u]
        PROVE  FALSE
    <2>1. ASSUME NEW x \in Threads, NEW y \in Threads, x # y,
                 pc'[x] \in Undecided, pc'[y] \in Undecided, job'[x] = job'[y]
          PROVE  pc[x] = pc'[x] /\ job'[x] = job[x]
      <3>1. job'[x] \in Batches
        BY <2>1, ClickSteps
      <3>2. ASSUME /\ clicks[job'[x]] < MaxClicks[job'[x]]
                   /\ \A v \in Threads \ {x} : pc'[v] = pc[v] /\ job'[v] = job[v]
            PROVE  FALSE
        <4>1. clicks[job'[x]] >= 1
          BY <2>1, <3>2 DEF ClickedInv
        <4> QED BY <1>1, <3>1, <3>2, <4>1 DEF ClickedOnce
      <3> QED BY <2>1, <3>2, ClickSteps
    <2> QED BY <1>3, <2>1 DEF ClickedInv, DecidedAlone
  <1> QED BY <1>2, <1>3 DEF ClickedInv, DecidedAlone

LEMMA OneClickDecidesAlone ==
  ASSUME ClickedOnce
  PROVE  Spec => []DecidedAlone
  <1>1. Init => ClickedInv
    BY DEF Init, ClickedInv, DecidedAlone, Undecided
  <1>2. TypeInv /\ ClickedInv /\ [Next]_vars => ClickedInv'
    BY ClickedStep
  <1>3. ClickedInv => DecidedAlone
    BY DEF ClickedInv
  <1> QED BY <1>1, <1>2, <1>3, TypeInit, TypeStep, PTL DEF Spec

LEMMA OneThreadIsAlone ==
  ASSUME OneThread
  PROVE  Spec => [](DecidedAlone /\ LockedAlone)
  <1>1. DecidedAlone /\ LockedAlone
    BY DEF OneThread, DecidedAlone, LockedAlone
  <1> QED BY <1>1, PTL

\* One click on each card is enough: handlers of different batches may
\* interleave, calls may raise and the process may die, and every plan keeps
\* its promise.
THEOREM OneClickIsSafe ==
  ASSUME ClickedOnce
  PROVE  Spec => /\ PromiseKept
                 /\ []AppliedAtMostOnce
                 /\ []DenialIsFinal
                 /\ UpdatesAreLocked
  <1> QED BY OneClickDecidesAlone, PlansAreImplemented, WritesHappenOnce,
             DenialsStand, UpdatesHoldTheirLocks

\* So is a single handler thread, however often the buttons are pressed; only
\* then do locks exclude each other.
THEOREM OneThreadIsSafe ==
  ASSUME OneThread
  PROVE  Spec => /\ PromiseKept
                 /\ []AppliedAtMostOnce
                 /\ []DenialIsFinal
                 /\ UpdatesAreLocked
                 /\ []LocksAreUnique
  <1>1. Spec => []DecidedAlone /\ []LockedAlone
    BY OneThreadIsAlone, PTL
  <1> QED BY <1>1, PlansAreImplemented, WritesHappenOnce, DenialsStand,
             UpdatesHoldTheirLocks, LocksExclude

-----------------------------------------------------------------------------
(* What is reported, when nothing is lost: each card is clicked once, no   *)
(* Slack call raises and the process lives.  From its storing to its last  *)
(* message a batch then has one handler at a time, and what the handler    *)
(* still has to say can be read off its pc.                                *)

NothingIsLost == ClickedOnce /\ MaxCrashes = 0 /\ ~ SlackFails

OneHandler ==
    \A t, u \in Threads : ~ Idle(t) /\ ~ Idle(u) /\ job[t] = job[u] => t = u

\* The handler of b, at p with c as its text, on its way to the report.
ReportFits(b, p, c) ==
    /\ p # "dmNotSent"
    /\ IF p \in {"insertOps", "sendCard"}
         THEN status[b] = "PENDING_APPROVAL" /\ card[b] = "none"
         ELSE clicks[b] > 0 /\ card[b] # "none"
    /\ p \in Undecided => status[b] = "PENDING_APPROVAL"
    /\ p \in Approved => status[b] = "APPROVED"
    /\ p \in Working => status[b] = "EXECUTING"
    /\ p \in {"release", "dmSuccess"} => status[b] = c /\ c \in {"COMPLETED", "FAILED"}
    /\ p = "dmSuccess" => c = "COMPLETED"
    /\ p = "dmFailure" => c = "FAILED" /\ status[b] \in {"APPROVED", "FAILED"}
    /\ p \in Refused => status[b] = "DENIED"
    /\ IF p = "showCard"
         THEN /\ status[b] \in {"APPROVED", "COMPLETED", "FAILED", "DENIED"}
              /\ c = Outcome(status[b]) /\ told[b] = {c}
         ELSE told[b] = {}

\* A batch nobody works on.
RestFits(b) ==
    IF status[b] \in {"absent", "PENDING_APPROVAL"}
      THEN told[b] = {}
      ELSE /\ card[b] = Outcome(status[b]) /\ told[b] = {Outcome(status[b])}
           /\ clicks[b] > 0

BatchFits(b) ==
    /\ status[b] = "absent" => card[b] = "none"
    /\ clicks[b] = 0 => status[b] \in {"absent", "PENDING_APPROVAL"} /\ told[b] = {}
    /\ \/ \E t \in Threads : ~ Idle(t) /\ job[t] = b
       \/ RestFits(b)

ReportInv ==
    /\ OneHandler
    /\ \A t \in Threads : ~ Idle(t) => ReportFits(job[t], pc[t], text[t])
    /\ \A b \in Batches : BatchFits(b)

LEMMA ReportInit == Init => ReportInv
  BY DEF Init, StoreInit, ReportInv, OneHandler, BatchFits, RestFits, Idle, At

\* A step of t that concerns b alone.
Concerns(t, b) ==
    /\ Idle(t) \/ job[t] = b
    /\ pc'[t] = "idle" \/ job'[t] = b
    /\ \A u \in Threads \ {t} :
          /\ Idle(u) \/ job[u] # b
          /\ pc'[u] = pc[u] /\ job'[u] = job[u] /\ text'[u] = text[u]
    /\ \A c \in Batches \ {b} :
          /\ status'[c] = status[c] /\ card'[c] = card[c]
          /\ told'[c] = told[c] /\ clicks'[c] = clicks[c]

LEMMA ReportFrame ==
  ASSUME TypeInv, ReportInv, NEW t \in Threads, NEW b \in Batches, Concerns(t, b),
         pc'[t] # "idle" => ReportFits(b, pc[t], text[t])', BatchFits(b)'
  PROVE  ReportInv'
  <1>1. OneHandler'
    BY DEF ReportInv, OneHandler, Concerns, Idle, At
  <1>2. ASSUME NEW u \in Threads, pc'[u] # "idle"
        PROVE  ReportFits(job[u], pc[u], text[u])'
    <2>1. CASE u = t
      BY <1>2, <2>1 DEF Concerns, ReportFits
    <2>2. CASE u # t
      BY <1>2, <2>2 DEF ReportInv, Concerns, ReportFits, TypeInv, JobsAreBatches,
                        Idle, At
    <2> QED BY <2>1, <2>2
  <1>3. ASSUME NEW c \in Batches
        PROVE  BatchFits(c)'
    <2>1. CASE c = b
      BY <2>1
    <2>2. CASE c # b
      BY <2>2 DEF ReportInv, Concerns, BatchFits, RestFits, Idle, At
    <2> QED BY <2>1, <2>2
  <1> QED BY <1>1, <1>2, <1>3 DEF ReportInv, Idle, At

\* A handler whose batch stays its own.
LEMMA ReportAtWork ==
  ASSUME TypeInv, TypeInv', ReportInv, NEW t \in Threads, NEW b \in Batches,
         Concerns(t, b), pc'[t] # "idle", ReportFits(b, pc[t], text[t])'
  PROVE  ReportInv'
  <1>1. BatchFits(b)'
    BY DEF Concerns, BatchFits, ReportFits, Idle, At, TypeInv, TypeOK, Undecided,
           Approved, Working, Refused, PC, ExecutorPC
  <1> QED BY <1>1, ReportFrame

LEMMA ReportStep ==
  ASSUME NothingIsLost, TypeInv, ReportInv, [Next]_vars
  PROVE  ReportInv'
  <1> USE DEF Goto, At, Idle, local, store, outside, budget, TypeInv, TypeOK,
              StoreTypeOK, JobsAreBatches, Undecided, Approved, Working, Refused
  <1>1. TypeInv'
    BY TypeStep
  <1>2. ASSUME NEW t \in Threads, ~ Idle(t)
        PROVE  /\ job[t] \in Batches
               /\ ReportFits(job[t], pc[t], text[t])
               /\ \A u \in Threads \ {t} : Idle(u) \/ job[u] # job[t]
    BY <1>2 DEF ReportInv, OneHandler
  <1>3. ASSUME NEW t \in Threads, NEW b \in Batches, InsertBatch(t, b)
        PROVE  ReportInv'
    <2>1. /\ card[b] = "none" /\ told[b] = {}
          /\ \A u \in Threads : Idle(u) \/ job[u] # b
      BY <1>3 DEF InsertBatch, ReportInv, BatchFits, RestFits, ReportFits, PC, ExecutorPC
    <2>2. Concerns(t, b)
      BY <1>3, <2>1 DEF InsertBatch, Start, Concerns, UpdateBatchStatus
    <2>3. pc'[t] = "insertOps" /\ ReportFits(b, pc[t], text[t])'
      BY <1>3, <2>1 DEF InsertBatch, Start, ReportFits, UpdateBatchStatus
    <2> QED BY <1>1, <2>2, <2>3, ReportAtWork
  <1>4. ASSUME NEW t \in Threads, NEW b \in Batches, NEW p \in {"approve", "deny"},
               Click(t, b, p)
        PROVE  ReportInv'
    <2>1. clicks[b] = 0 /\ card[b] # "none"
      <3>1. MaxClicks[b] \in Nat /\ MaxClicks[b] <= 1
        BY BoundsAssumption DEF NothingIsLost, ClickedOnce
      <3>2. clicks[b] \in Nat /\ clicks[b] < MaxClicks[b] /\ card[b] # "none"
        BY <1>4 DEF Click
      <3> QED BY <3>1, <3>2
    <2>2. /\ status[b] = "PENDING_APPROVAL" /\ told[b] = {}
          /\ \A u \in Threads : Idle(u) \/ job[u] # b
      BY <2>1 DEF ReportInv, BatchFits, RestFits, ReportFits
    <2>3. Concerns(t, b)
      BY <1>4, <2>2 DEF Click, Start, Concerns
    <2>4. pc'[t] = p /\ ReportFits(b, pc[t], text[t])'
      BY <1>4, <2>1, <2>2 DEF Click, Start, ReportFits
    <2> QED BY <1>1, <2>3, <2>4, ReportAtWork
  <1>5. ASSUME NEW t \in Threads, ~ Idle(t), Handler(t)
        PROVE  Concerns(t, job[t])
    <2>1. CASE Execute(t)
      BY <1>2, <1>5, <2>1 DEF Execute, ExecuteBatch, Concerns, CheckApproved,
         LoadOperations, CheckConflicts, InsertLocks, MarkExecuting, SkipUnknown,
         InLoop, CallSalesforce, OperationRaises, Raise, RecordResult, CompleteBatch,
         SkipRow, FailBatch, ReleaseLocks, UpdateBatchStatus, Report
    <2>2. CASE ~ Execute(t)
      BY <1>2, <1>5, <2>2 DEF Handler, Concerns, InsertOperations, SendCard, Finish,
         TellNotSent, Approve, Deny, DenyRelease, TellDenied, ShowCard, Show, Tell,
         TellSuccess, TellFailure, UpdateBatchStatus, Report
    <2> QED BY <2>1, <2>2
  <1>6. ASSUME NEW t \in Threads, Execute(t)
        PROVE  ReportInv'
    <2>1. ~ Idle(t) /\ pc'[t] # "idle" /\ job'[t] = job[t]
      BY <1>6 DEF Execute, ExecuteBatch, CheckApproved, LoadOperations,
         CheckConflicts, InsertLocks, MarkExecuting, SkipUnknown, InLoop,
         CallSalesforce, OperationRaises, Raise, RecordResult, CompleteBatch,
         SkipRow, FailBatch, ReleaseLocks
    <2>2. /\ ReportFits(job[t], pc[t], text[t]) /\ job[t] \in Batches
          /\ UNCHANGED <<card, told, clicks>>
      BY <1>2, <1>6, <2>1 DEF Execute
    <2>3. Concerns(t, job[t])
      BY <1>5, <1>6, <2>1 DEF Handler
    <2>4. CASE CheckApproved(t)
      BY <1>1, <2>1, <2>2, <2>3, <2>4, ReportAtWork DEF ReportFits, CheckApproved, Report
    <2>5. CASE LoadOperations(t)
      <3>1. \/ pc'[t] = "lock" /\ UNCHANGED <<status, text>>
            \/ /\ pc'[t] = "dmSuccess" /\ text'[t] = "COMPLETED"
               /\ status'[job[t]] = "COMPLETED"
        BY <2>2, <2>5 DEF LoadOperations, UpdateBatchStatus, Report
      <3> QED BY <1>1, <2>1, <2>2, <2>3, <2>5, <3>1, ReportAtWork
              DEF ReportFits, LoadOperations
    <2>6. CASE CheckConflicts(t)
      BY <1>1, <2>1, <2>2, <2>3, <2>6, ReportAtWork DEF ReportFits, CheckConflicts, Report
    <2>7. CASE InsertLocks(t) \/ RecordResult(t)
      BY <1>1, <2>1, <2>2, <2>3, <2>7, ReportAtWork
         DEF ReportFits, InsertLocks, RecordResult
    <2>8. CASE MarkExecuting(t)
      BY <1>1, <2>1, <2>2, <2>3, <2>8, ReportAtWork
         DEF ReportFits, MarkExecuting, UpdateBatchStatus
    <2>9. CASE SkipUnknown(t) \/ CallSalesforce(t)
      BY <1>1, <2>1, <2>2, <2>3, <2>9, ReportAtWork
         DEF ReportFits, SkipUnknown, CallSalesforce, InLoop
    <2>10. CASE OperationRaises(t)
      BY <1>1, <2>1, <2>2, <2>3, <2>10, ReportAtWork
         DEF ReportFits, OperationRaises, Raise, InLoop
    <2>11. CASE CompleteBatch(t)
      BY <1>1, <2>1, <2>2, <2>3, <2>11, ReportAtWork
         DEF ReportFits, CompleteBatch, UpdateBatchStatus, Report
    <2>12. CASE FailBatch(t)
      BY <1>1, <2>1, <2>2, <2>3, <2>12, ReportAtWork
         DEF ReportFits, FailBatch, UpdateBatchStatus, Report
    <2>13. CASE SkipRow(t)
      BY <1>1, <2>1, <2>2, <2>3, <2>13, ReportAtWork DEF ReportFits, SkipRow
    <2>14. CASE ReleaseLocks(t)
      BY <1>1, <2>1, <2>2, <2>3, <2>14, ReportAtWork DEF ReportFits, ReleaseLocks
    <2> QED BY <1>6, <2>4, <2>5, <2>6, <2>7, <2>8, <2>9, <2>10, <2>11, <2>12, <2>13,
               <2>14 DEF Execute, ExecuteBatch
  <1>7. ASSUME NEW t \in Threads,
               \/ InsertOperations(t) \/ Approve(t) \/ Deny(t) \/ DenyRelease(t)
        PROVE  ReportInv'
    <2>1. ~ Idle(t) /\ pc'[t] # "idle" /\ job'[t] = job[t] /\ Concerns(t, job[t])
      BY <1>5, <1>7 DEF Handler, InsertOperations, Approve, Deny, DenyRelease
    <2>2. ReportFits(job[t], pc[t], text[t]) /\ job[t] \in Batches
      BY <1>2, <2>1
    <2>3. CASE InsertOperations(t) \/ DenyRelease(t)
      BY <1>1, <2>1, <2>2, <2>3, ReportAtWork
         DEF ReportFits, InsertOperations, DenyRelease
    <2>4. CASE Approve(t)
      BY <1>1, <2>1, <2>2, <2>4, ReportAtWork DEF ReportFits, Approve, UpdateBatchStatus
    <2>5. CASE Deny(t)
      BY <1>1, <2>1, <2>2, <2>5, ReportAtWork DEF ReportFits, Deny, UpdateBatchStatus
    <2> QED BY <1>7, <2>3, <2>4, <2>5
  <1>8. ASSUME NEW t \in Threads,
               TellSuccess(t) \/ TellFailure(t) \/ TellDenied(t)
        PROVE  ReportInv'
    <2>1. /\ ~ Idle(t) /\ pc'[t] # "idle" /\ job'[t] = job[t] /\ Concerns(t, job[t])
          /\ ~ SlackFails
      BY <1>5, <1>8 DEF Handler, TellSuccess, TellFailure, TellDenied, NothingIsLost
    <2>2. ReportFits(job[t], pc[t], text[t]) /\ job[t] \in Batches
      BY <1>2, <2>1
    <2>3. /\ pc'[t] = "showCard" /\ UNCHANGED <<status, card, clicks>>
          /\ told'[job[t]] = {text'[t]} /\ text'[t] = Outcome(status[job[t]])
          /\ status[job[t]] \in {"APPROVED", "COMPLETED", "FAILED", "DENIED"}
      BY <1>8, <2>1, <2>2
         DEF ReportFits, TellSuccess, TellFailure, TellDenied, Tell, Report, Outcome
    <2> QED BY <1>1, <1>8, <2>1, <2>2, <2>3, ReportAtWork
            DEF ReportFits, TellSuccess, TellFailure, TellDenied
  <1>9. ASSUME NEW t \in Threads, SendCard(t) \/ ShowCard(t)
        PROVE  ReportInv'
    <2>1. PICK b \in Batches : b = job[t]
      BY <1>2, <1>9 DEF SendCard, ShowCard
    <2>2. ~ Idle(t) /\ pc'[t] = "idle" /\ Concerns(t, b) /\ ~ SlackFails
      BY <1>5, <1>9, <2>1 DEF Handler, SendCard, ShowCard, Finish, NothingIsLost
    <2>3. ReportFits(b, pc[t], text[t])
      BY <1>2, <2>1, <2>2
    <2>4. CASE SendCard(t)
      <3>1. /\ status'[b] = "PENDING_APPROVAL" /\ told'[b] = {}
        BY <2>1, <2>2, <2>3, <2>4 DEF SendCard, ReportFits
      <3>2. BatchFits(b)'
        BY <3>1 DEF BatchFits, RestFits
      <3> QED BY <2>2, <3>2, ReportFrame
    <2>5. CASE ShowCard(t)
      <3>1. /\ status'[b] = status[b] /\ clicks'[b] > 0 /\ clicks'[b] \in Nat
            /\ status[b] \in {"APPROVED", "COMPLETED", "FAILED", "DENIED"}
            /\ card'[b] = Outcome(status[b]) /\ told'[b] = {Outcome(status[b])}
        BY <2>1, <2>2, <2>3, <2>5 DEF ShowCard, Show, ReportFits
      <3>2. BatchFits(b)'
        BY <3>1 DEF BatchFits, RestFits, Outcome
      <3> QED BY <2>2, <3>2, ReportFrame
    <2> QED BY <1>9, <2>4, <2>5
  <1>10. ASSUME NEW t \in Threads, TellNotSent(t)
         PROVE  FALSE
    BY <1>2, <1>10 DEF TellNotSent, ReportFits
  <1>11. CASE Crash
    BY <1>11 DEF Crash, NothingIsLost
  <1>12. CASE UNCHANGED vars
    BY <1>12 DEF vars, ReportInv, OneHandler, BatchFits, RestFits, ReportFits
  <1> QED BY <1>3, <1>4, <1>6, <1>7, <1>8, <1>9, <1>10, <1>11, <1>12
          DEF Next, Event, Handler, ClickApprove, ClickDeny

\* The card and the requester learn how every decided batch ended, and nothing
\* else, if each card is clicked once, no Slack call raises and the process lives.
THEOREM OutcomesAreReported ==
  ASSUME NothingIsLost
  PROVE  Spec => []OutcomeIsReported
  <1>1. TypeInv /\ ReportInv /\ [Next]_vars => ReportInv'
    BY ReportStep
  <1>2. ReportInv => OutcomeIsReported
    BY DEF ReportInv, BatchFits, RestFits, OutcomeIsReported
  <1> QED BY <1>1, <1>2, TypeInit, TypeStep, ReportInit, PTL DEF Spec

=============================================================================
