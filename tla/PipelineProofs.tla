--------------------------- MODULE PipelineProofs ---------------------------
(***************************************************************************)
(* Theorems about WritePipeline, for every set of threads, every answer of *)
(* Claude and every bound.  They carry what ApprovalProofs shows of the    *)
(* approval flow over to the whole process, and join it to the             *)
(* conversation.                                                           *)
(***************************************************************************)
EXTENDS WritePipeline, DecisionProofs, FiniteSetTheorems

(* What a step of the pipeline is to either half.                          *)

LEMMA TalkStep == [PipelineNext]_allVars => [Talk!Next]_(Talk!vars)
  <1> SUFFICES ASSUME [PipelineNext]_allVars PROVE [Talk!Next]_(Talk!vars)
      OBVIOUS
  <1>1. talk' = talk => UNCHANGED Talk!vars
    BY DEF talk, Talk!vars, Talk!flow, Talk!memory, Talk!locals, Talk!seen,
           Talk!ghosts
  <1>2. ASSUME NEW t \in Threads, Hear(t) \/ Converse(t) \/ SubmitPlan(t)
        PROVE  Talk!Next
    BY <1>2 DEF Hear, Converse, SubmitPlan, Talk!Next, Talk!Handler
  <1>3. ASSUME NEW t \in Threads, Decide(t) \/ Carry(t)
        PROVE  UNCHANGED Talk!vars
    BY <1>1, <1>3 DEF Decide, Carry
  <1>4. CASE Stop \/ StopIdle
    BY <1>4 DEF Stop, StopIdle, Talk!Next
  <1>5. CASE UNCHANGED allVars
    BY <1>1, <1>5 DEF allVars
  <1> QED BY <1>2, <1>3, <1>4, <1>5 DEF PipelineNext

\* In the pipeline the user talks to the same state machine as without it: what
\* holds of every behaviour of Session holds of the pipeline's conversation.
THEOREM ConversationIsKept == PipelineSpec => Talk!Spec
  <1>1. PipelineInit => Talk!Init
    BY DEF PipelineInit
  <1> QED BY <1>1, TalkStep, PTL DEF PipelineSpec, Talk!Spec

-----------------------------------------------------------------------------
(* What SessionProofs and TurnProofs show of a conversation, shown of this *)
(* one.  Talk and Turns are two instances of the same definitions; an      *)
(* action of the one is the action of the other.                           *)

Turns == INSTANCE TurnProofs WITH pc <- tpc

LEMMA TalkAssumption == Turns!SessionAssumption
  BY PipelineAssumption, BoundsAssumption DEF Turns!SessionAssumption

LEMMA SameSteps == [Talk!Next]_(Talk!vars) => [Turns!Next]_(Turns!vars)
  <1> SUFFICES ASSUME [Talk!Next]_(Talk!vars)
               PROVE  [Turns!Next]_(Turns!vars)
      OBVIOUS
  <1> USE DEF Talk!None, Talk!flow, Talk!memory, Talk!locals, Talk!seen,
          Talk!ghosts, Talk!At, Talk!Idle, Talk!Goto, Talk!Answer, Talk!Busy,
          Talk!Finish, Talk!Fail, Talk!Unlocked, Talk!Hold, Talk!SetState,
          Talk!ResetToIdle, Talk!ReplaceSession, Talk!Learn, Turns!None,
          Turns!flow, Turns!memory, Turns!locals, Turns!seen, Turns!ghosts,
          Turns!At, Turns!Idle, Turns!Goto, Turns!Answer, Turns!Busy,
          Turns!Finish, Turns!Fail, Turns!Unlocked, Turns!Hold,
          Turns!SetState, Turns!ResetToIdle, Turns!ReplaceSession, Turns!Learn
  <1>1. ASSUME NEW t \in Threads, Talk!Event(t)
        PROVE  Turns!Event(t)
    <2>1. ASSUME NEW k, Talk!Receive(t, k)
          PROVE  Turns!Receive(t, k)
      BY <2>1 DEF Talk!Receive, Turns!Receive
    <2>2. Talk!StartReset(t) => Turns!StartReset(t)
      <3>1. Talk!Cardinality(Talk!Resetting) = Turns!Cardinality(Turns!Resetting)
        BY DEF Talk!Resetting, Turns!Resetting, Talk!Cardinality,
               Turns!Cardinality
      <3> QED BY <3>1 DEF Talk!StartReset, Turns!StartReset
    <2> QED BY <1>1, <2>1, <2>2 DEF Talk!Event, Turns!Event
  <1>2. ASSUME NEW t \in Threads, Talk!Converse(t)
        PROVE  Turns!Converse(t)
    <2>1. Talk!CheckProposing(t) => Turns!CheckProposing(t)
      BY DEF Talk!CheckProposing, Turns!CheckProposing
    <2>2. Talk!CheckPlanShown(t) => Turns!CheckPlanShown(t)
      BY DEF Talk!CheckPlanShown, Turns!CheckPlanShown
    <2>3. Talk!CheckIdle(t) => Turns!CheckIdle(t)
      BY DEF Talk!CheckIdle, Turns!CheckIdle
    <2>4. Talk!Correct(t) => Turns!Correct(t)
      BY DEF Talk!Correct, Turns!Correct
    <2>5. Talk!Classify(t) => Turns!Classify(t)
      BY DEF Talk!Classify, Turns!Classify
    <2>6. Talk!Classified(t) => Turns!Classified(t)
      BY DEF Talk!Classified, Turns!Classified
    <2>7. Talk!Propose(t) => Turns!Propose(t)
      BY DEF Talk!Propose, Turns!Propose
    <2>8. Talk!SetIntent(t) => Turns!SetIntent(t)
      BY DEF Talk!SetIntent, Turns!SetIntent
    <2>9. Talk!ReadIntent(t) => Turns!ReadIntent(t)
      BY DEF Talk!ReadIntent, Turns!ReadIntent
    <2>10. Talk!Work(t) => Turns!Work(t)
      BY DEF Talk!Work, Turns!Work
    <2>11. Talk!ReadReset(t) => Turns!ReadReset(t)
      BY DEF Talk!ReadReset, Turns!ReadReset
    <2>12. Talk!ShowPlan(t) => Turns!ShowPlan(t)
      BY DEF Talk!ShowPlan, Turns!ShowPlan
    <2>13. Talk!SetPlan(t) => Turns!SetPlan(t)
      BY DEF Talk!SetPlan, Turns!SetPlan
    <2>14. Talk!LearnRisks(t) => Turns!LearnRisks(t)
      BY DEF Talk!LearnRisks, Turns!LearnRisks
    <2>15. Talk!TakePlan(t) => Turns!TakePlan(t)
      BY DEF Talk!TakePlan, Turns!TakePlan
    <2>16. Talk!ForwardReset(t) => Turns!ForwardReset(t)
      BY DEF Talk!ForwardReset, Turns!ForwardReset
    <2>17. Talk!Say(t) => Turns!Say(t)
      BY DEF Talk!Say, Turns!Say
    <2>18. Talk!Synthesize(t) => Turns!Synthesize(t)
      BY DEF Talk!Synthesize, Turns!Synthesize
    <2>19. Talk!Clear(t) => Turns!Clear(t)
      BY DEF Talk!Clear, Turns!Clear
    <2> HIDE DEF Talk!None, Talk!flow, Talk!memory, Talk!locals, Talk!seen,
             Talk!ghosts, Talk!At, Talk!Idle, Talk!Goto, Talk!Answer,
             Talk!Busy, Talk!Finish, Talk!Fail, Talk!Unlocked, Talk!Hold,
             Talk!SetState, Talk!ResetToIdle, Talk!ReplaceSession, Talk!Learn,
             Turns!None, Turns!flow, Turns!memory, Turns!locals, Turns!seen,
             Turns!ghosts, Turns!At, Turns!Idle, Turns!Goto, Turns!Answer,
             Turns!Busy, Turns!Finish, Turns!Fail, Turns!Unlocked, Turns!Hold,
             Turns!SetState, Turns!ResetToIdle, Turns!ReplaceSession,
             Turns!Learn
    <2> QED BY <1>2, <2>1, <2>2, <2>3, <2>4, <2>5, <2>6, <2>7, <2>8,
       <2>9, <2>10, <2>11, <2>12, <2>13, <2>14, <2>15, <2>16, <2>17,
       <2>18, <2>19
       DEF Talk!Converse, Turns!Converse
  <1>3. ASSUME NEW t \in Threads, Talk!Submit(t)
        PROVE  Turns!Submit(t)
    BY <1>3 DEF Talk!Submit, Turns!Submit
  <1>4. Talk!Restart => Turns!Restart
    BY DEF Talk!Restart, Turns!Restart
  <1>5. UNCHANGED Talk!vars => UNCHANGED Turns!vars
    BY DEF Talk!vars, Turns!vars
  <1> QED
    BY <1>1, <1>2, <1>3, <1>4, <1>5
       DEF Talk!Next, Talk!Handler, Turns!Next, Turns!Handler

LEMMA ConversationTakesTurns == PipelineSpec => Turns!Spec
  <1>1. Talk!Init => Turns!Init
    BY DEF Talk!Init, Turns!Init, Talk!Messages, Turns!Messages, Talk!Sessions,
           Turns!Sessions, Talk!None, Turns!None
  <1> QED
    BY <1>1, ConversationIsKept, SameSteps, PTL DEF Talk!Spec, Turns!Spec

\* Only plans for a WRITE are forwarded, ...
LEMMA WritesAreForwarded == PipelineSpec => []Talk!OnlyWritesAreForwarded
  <1>1. Turns!Spec => []Turns!OnlyWritesAreForwarded
    BY TalkAssumption, Turns!OnlyWrites
  <1>2. Turns!OnlyWritesAreForwarded => Talk!OnlyWritesAreForwarded
    BY DEF Turns!OnlyWritesAreForwarded, Talk!OnlyWritesAreForwarded,
           Turns!Messages, Talk!Messages
  <1> QED BY <1>1, <1>2, ConversationTakesTurns, PTL

\* ... and for a user who waits for each answer only what was agreed to and
\* sent as a preview, once.
ForwardedOnYes ==
  ~ overlapped => \A m \in Messages : forwarded[m] > 0 =>
     forwarded[m] <= 1 /\ m \in agreed /\ m \in previewed

LEMMA YesComesFirst == PipelineSpec => []ForwardedOnYes
  <1>1. Turns!Spec => []Turns!OneYesOneBatch
    BY TalkAssumption, Turns!OneYesSendsOneBatch
  <1>2. Turns!Spec => [](~ overlapped => Turns!ForwardedWasAgreed)
    BY TalkAssumption, Turns!AgreementComesFirst
  <1>3. Turns!OneYesOneBatch /\ (~ overlapped => Turns!ForwardedWasAgreed)
          => ForwardedOnYes
    BY DEF Turns!OneYesOneBatch, Turns!ForwardedAtMostOnce,
           Turns!ForwardedWasPreviewed, Turns!ForwardedWasAgreed,
           ForwardedOnYes, Turns!Messages, Messages
  <1> QED BY <1>1, <1>2, <1>3, ConversationTakesTurns, PTL

-----------------------------------------------------------------------------
\* A restart while no batch is worked on; all the approval flow notices is the
\* count of restarts.
RestartIdle == /\ crashes' = crashes + 1
               /\ UNCHANGED <<store, pc, local, writes, outside, clicks>>

LEMMA FlowStep == [PipelineNext]_allVars => [Next]_vars \/ RestartIdle
  <1> SUFFICES ASSUME [PipelineNext]_allVars PROVE [Next]_vars \/ RestartIdle
      OBVIOUS
  <1>1. ASSUME NEW t \in Threads, Hear(t) \/ Converse(t)
        PROVE  UNCHANGED vars
    BY <1>1 DEF Hear, Converse
  <1>2. ASSUME NEW t \in Threads, SubmitPlan(t) \/ Decide(t) \/ Carry(t)
        PROVE  Next
    BY <1>2 DEF SubmitPlan, Decide, Carry, Next, Event
  <1>3. CASE Stop
    BY <1>3 DEF Stop, Next
  <1>4. CASE StopIdle
    BY <1>4 DEF StopIdle, RestartIdle
  <1>5. CASE UNCHANGED allVars
    BY <1>5 DEF allVars
  <1> QED BY <1>1, <1>2, <1>3, <1>4, <1>5 DEF PipelineNext

LEMMA QuietRestart ==
  /\ ApprovalInv /\ RestartIdle => ApprovalInv'
  /\ OrderInv /\ RestartIdle => OrderInv'
  BY DEF RestartIdle, ApprovalInv, OrderInv, TypeInv, TypeOK, StoreTypeOK, Idle,
         At, JobsAreBatches, ExecutorsAreApproved, WritesWereApproved, LoopInv,
         AppliedInOrder, CompletedRowsWereApplied, store, local, outside

FlowInv == ApprovalInv /\ OrderInv

LEMMA FlowInit == PipelineInit => FlowInv
  BY ApprovalInit, OrderInit DEF PipelineInit, FlowInv

LEMMA FlowInvStep == FlowInv /\ [PipelineNext]_allVars => FlowInv'
  BY FlowStep, QuietRestart, ApprovalStep, OrderStep DEF FlowInv

-----------------------------------------------------------------------------
(* Every batch comes from a plan that the conversation forwarded.          *)

Known(b) == status[b] # "absent"

\* What the flow works on is a stored batch.
WorkIsKnown ==
  /\ \A b \in Batches : (card[b] # "none" \/ b \in approved) => Known(b)
  /\ \A t \in Threads : ~ Idle(t) => Known(job[t])

\* ... the first, second, ... of as many as its plan was forwarded for.
BatchesAreForwarded ==
  \A b \in Batches : Known(b) => b[2] \in 1 .. forwarded[b[1]]

JoinInv == WorkIsKnown /\ BatchesAreForwarded /\ forwarded \in [Messages -> Nat]

LEMMA KnownStays ==
  ASSUME TypeInv, [Next]_vars, NEW b \in Batches, Known(b)
  PROVE  Known(b)'
  BY DEF Known, Next, Event, Handler, vars, store, InsertBatch, ClickApprove,
     ClickDeny, Click, InsertOperations, SendCard, TellNotSent, Approve, Deny,
     DenyRelease, TellDenied, ShowCard, TellSuccess, TellFailure, Crash,
     UpdateBatchStatus, Execute, ExecuteBatch, CheckApproved, LoadOperations,
     CheckConflicts, InsertLocks, MarkExecuting, SkipUnknown, CallSalesforce,
     OperationRaises, RecordResult, CompleteBatch, SkipRow, FailBatch,
     ReleaseLocks, TypeInv, TypeOK, StoreTypeOK

\* A handler under way changes the batch it works on, and no other.
LEMMA HandlersAtWork ==
  ASSUME TypeInv, NEW t \in Threads, Handler(t), NEW b \in Batches
  PROVE  Known(b)' => Known(b) \/ (~ Idle(t) /\ job[t] = b)
  BY DEF Known, Handler, store, InsertOperations, SendCard, TellNotSent,
     Approve, Deny, DenyRelease, TellDenied, ShowCard, TellSuccess, TellFailure,
     UpdateBatchStatus, Execute, ExecuteBatch, CheckApproved, LoadOperations,
     CheckConflicts, InsertLocks, MarkExecuting, SkipUnknown, CallSalesforce,
     OperationRaises, RecordResult, CompleteBatch, SkipRow, FailBatch,
     ReleaseLocks, InLoop, Idle, At, TypeInv, TypeOK, StoreTypeOK

\* A card is posted, and an approval recorded, by a handler that works on the
\* batch.
LEMMA KnownEntry ==
  ASSUME TypeInv, [Next]_vars, NEW b \in Batches
  PROVE  (card[b] # "none" \/ b \in approved)' =>
            \/ card[b] # "none" \/ b \in approved
            \/ \E t \in Threads : ~ Idle(t) /\ job[t] = b
  BY DEF Known, Next, Event, Handler, vars, store, outside, InsertBatch,
     ClickApprove, ClickDeny, Click, InsertOperations, SendCard, Show,
     TellNotSent, Approve, Deny, DenyRelease, TellDenied, ShowCard, TellSuccess,
     TellFailure, Crash, UpdateBatchStatus, Execute, ExecuteBatch, CheckApproved,
     LoadOperations, CheckConflicts, InsertLocks, MarkExecuting, SkipUnknown,
     CallSalesforce, OperationRaises, RecordResult, CompleteBatch, SkipRow,
     FailBatch, ReleaseLocks, InLoop, Idle, At, TypeInv, TypeOK, StoreTypeOK

LEMMA WorkEntry ==
  ASSUME TypeInv, [Next]_vars, NEW u \in Threads, ~ Idle(u)'
  PROVE  \/ ~ Idle(u) /\ job'[u] = job[u]
         \/ \E b \in Batches : /\ job'[u] = b
                               /\ InsertBatch(u, b) \/ card[b] # "none"
  <1> USE DEF Idle, At, Goto, TypeInv, TypeOK
  <1>1. CASE \E t \in Threads : Execute(t)
    BY <1>1 DEF Execute, ExecuteBatch, CheckApproved, LoadOperations,
       CheckConflicts, InsertLocks, MarkExecuting, SkipUnknown, CallSalesforce,
       OperationRaises, Raise, RecordResult, CompleteBatch, SkipRow, FailBatch,
       ReleaseLocks, InLoop, local
  <1>2. CASE ~ \E t \in Threads : Execute(t)
    BY <1>2 DEF Next, Event, Handler, vars, local, InsertBatch, ClickApprove,
       ClickDeny, Click, Start, InsertOperations, SendCard, Finish, TellNotSent,
       Approve, Deny, DenyRelease, TellDenied, ShowCard, TellSuccess,
       TellFailure, Crash
  <1> QED BY <1>1, <1>2

LEMMA WorkStep == FlowInv /\ WorkIsKnown /\ [Next]_vars => WorkIsKnown'
  <1> SUFFICES ASSUME FlowInv, WorkIsKnown, [Next]_vars PROVE WorkIsKnown'
      OBVIOUS
  <1>0. TypeInv
    BY DEF FlowInv, OrderInv
  <1>1. ASSUME NEW b \in Batches, (card[b] # "none" \/ b \in approved)'
        PROVE  Known(b)'
    BY <1>0, <1>1, KnownEntry, KnownStays DEF WorkIsKnown
  <1>2. ASSUME NEW u \in Threads, ~ Idle(u)'
        PROVE  Known(job[u])'
    <2>1. CASE ~ Idle(u) /\ job'[u] = job[u]
      BY <1>0, <2>1, KnownStays DEF WorkIsKnown, Known, TypeInv, JobsAreBatches
    <2>2. ASSUME NEW b \in Batches, job'[u] = b, InsertBatch(u, b)
          PROVE  Known(job[u])'
      BY <1>0, <2>2 DEF InsertBatch, UpdateBatchStatus, Known, TypeInv, TypeOK,
                        StoreTypeOK
    <2>3. ASSUME NEW b \in Batches, job'[u] = b, card[b] # "none"
          PROVE  Known(job[u])'
      BY <1>0, <2>3, KnownStays DEF WorkIsKnown, Known
    <2> QED BY <1>0, <1>2, <2>1, <2>2, <2>3, WorkEntry
  <1> QED BY <1>1, <1>2 DEF WorkIsKnown

\* Nothing the conversation does by itself creates a batch.
LEMMA ConverseForwards ==
  ASSUME NEW t \in Threads, Hear(t) \/ Converse(t)
  PROVE  UNCHANGED forwarded
  BY DEF Hear, Converse, Talk!Event, Talk!Receive, Talk!StartReset,
     Talk!Converse, Talk!CheckProposing, Talk!CheckPlanShown, Talk!CheckIdle,
     Talk!Correct, Talk!Classify, Talk!Classified, Talk!Propose, Talk!SetIntent,
     Talk!ReadIntent, Talk!Work, Talk!ReadReset, Talk!ShowPlan, Talk!SetPlan,
     Talk!LearnRisks, Talk!TakePlan, Talk!ForwardReset, Talk!Say,
     Talk!Synthesize, Talk!Clear, Talk!ghosts

LEMMA JoinStep == FlowInv /\ JoinInv /\ [PipelineNext]_allVars => JoinInv'
  <1> SUFFICES ASSUME FlowInv, JoinInv, [PipelineNext]_allVars PROVE JoinInv'
      OBVIOUS
  <1>0. TypeInv
    BY DEF FlowInv, OrderInv
  <1>1. WorkIsKnown'
    <2>1. RestartIdle => WorkIsKnown'
      BY DEF RestartIdle, JoinInv, WorkIsKnown, Known, Idle, At, store, local,
             outside
    <2> QED BY <2>1, FlowStep, WorkStep DEF JoinInv
  <1>2. CASE UNCHANGED forwarded /\ \A b \in Batches : Known(b)' => Known(b)
    BY <1>1, <1>2 DEF JoinInv, BatchesAreForwarded
  <1>3. ASSUME NEW t \in Threads, SubmitPlan(t)
        PROVE  JoinInv'
    <2>1. PICK c \in Batches : /\ c = <<lplan[t], forwarded[lplan[t]] + 1>>
                               /\ InsertBatch(t, c)
      BY <1>3 DEF SubmitPlan
    <2>2. c[1] = lplan[t] /\ c[1] \in Messages /\ c[2] = forwarded[c[1]] + 1
      BY <2>1, PipelineAssumption
    <2>3. forwarded' = [forwarded EXCEPT ![c[1]] = @ + 1]
      BY <1>3, <2>2 DEF SubmitPlan, Talk!Submit
    <2>4. /\ forwarded' \in [Messages -> Nat]
          /\ c[2] \in 1 .. forwarded'[c[1]]
          /\ \A m \in Messages : /\ forwarded[m] <= forwarded'[m]
                                 /\ forwarded[m] \in Nat /\ forwarded'[m] \in Nat
      BY <2>2, <2>3 DEF JoinInv
    <2>5. \A b \in Batches : Known(b)' => Known(b) \/ b = c
      BY <1>0, <2>1 DEF InsertBatch, UpdateBatchStatus, Known, TypeInv, TypeOK,
                        StoreTypeOK
    <2>6. BatchesAreForwarded'
      BY <2>4, <2>5, PipelineAssumption DEF JoinInv, BatchesAreForwarded
    <2> QED BY <1>1, <2>4, <2>6 DEF JoinInv
  <1>4. ASSUME NEW t \in Threads, Carry(t)
        PROVE  UNCHANGED forwarded /\ \A b \in Batches : Known(b)' => Known(b)
    BY <1>0, <1>4, HandlersAtWork DEF Carry, talk, JoinInv, WorkIsKnown
  <1>5. ASSUME NEW t \in Threads, Hear(t) \/ Converse(t)
        PROVE  UNCHANGED forwarded /\ \A b \in Batches : Known(b)' => Known(b)
    BY <1>5, ConverseForwards DEF Hear, Converse, vars, store, Known
  <1>6. ASSUME NEW t \in Threads, Decide(t)
        PROVE  UNCHANGED forwarded /\ \A b \in Batches : Known(b)' => Known(b)
    BY <1>6 DEF Decide, ClickApprove, ClickDeny, Click, talk, store, Known
  <1>7. CASE Stop \/ StopIdle
    <2>1. UNCHANGED forwarded /\ \A b \in Batches : Known(b)' => Known(b)
      BY <1>7 DEF Stop, StopIdle, Crash, Talk!Restart, store, Known
    <2> QED BY <1>2, <2>1
  <1>8. CASE UNCHANGED allVars
    <2>1. UNCHANGED forwarded /\ \A b \in Batches : Known(b)' => Known(b)
      BY <1>8 DEF allVars, talk, vars, store, Known
    <2> QED BY <1>2, <2>1
  <1> QED BY <1>2, <1>3, <1>4, <1>5, <1>6, <1>7, <1>8 DEF PipelineNext

LEMMA JoinInit == PipelineInit => JoinInv
  BY DEF PipelineInit, Init, StoreInit, Idle, At, JoinInv, WorkIsKnown, Known,
         BatchesAreForwarded, Talk!Init, Messages, Talk!Messages

\* A write in Salesforce goes back to a coworker's approval and to a plan that
\* the conversation handed over.
WritesWereHandedOver ==
  \A b \in Batches : Written(b) # {} =>
     b \in approved /\ b[2] \in 1 .. forwarded[b[1]]

LEMMA HandedOver == FlowInv /\ JoinInv => WritesWereHandedOver
  BY OpsIntro DEF FlowInv, ApprovalInv, WritesWereApproved, JoinInv, WorkIsKnown,
     BatchesAreForwarded, WritesWereHandedOver, Written

\* No write reaches Salesforce but for a batch that is approved and was made of
\* a plan its requester had sent for approval, however conversations, clicks,
\* executions and restarts interleave.
THEOREM WritesAreHandedOver == PipelineSpec => []WritesWereHandedOver
  <1>1. FlowInv /\ JoinInv /\ [PipelineNext]_allVars => (FlowInv /\ JoinInv)'
    BY FlowInvStep, JoinStep
  <1> QED BY <1>1, FlowInit, JoinInit, HandedOver, PTL DEF PipelineSpec

LEMMA Joined == PipelineSpec => [](forwarded \in [Messages -> Nat])
  <1>1. FlowInv /\ JoinInv /\ [PipelineNext]_allVars => (FlowInv /\ JoinInv)'
    BY FlowInvStep, JoinStep
  <1>2. JoinInv => forwarded \in [Messages -> Nat]
    BY DEF JoinInv
  <1> QED BY <1>1, <1>2, FlowInit, JoinInit, PTL DEF PipelineSpec

\* A write in Salesforce goes back to a request that Claude took for a WRITE,
\* and to a coworker's approval.
THEOREM WritesWereAskedFor == PipelineSpec => []WritesAreRequested
  <1>1. forwarded \in [Messages -> Nat] /\ WritesWereHandedOver
          /\ Talk!OnlyWritesAreForwarded => WritesAreRequested
    <2> SUFFICES ASSUME forwarded \in [Messages -> Nat], WritesWereHandedOver,
                        Talk!OnlyWritesAreForwarded,
                        NEW b \in Batches, Written(b) # {}
                 PROVE  type[b[1]] = "WRITE" /\ b \in approved
      BY DEF WritesAreRequested
    <2>1. b[1] \in Messages
      BY PipelineAssumption
    <2>2. b \in approved /\ forwarded[b[1]] > 0
      BY <2>1 DEF WritesWereHandedOver
    <2> QED
      BY <2>1, <2>2 DEF Talk!OnlyWritesAreForwarded, Messages, Talk!Messages
  <1> QED BY <1>1, Joined, WritesAreHandedOver, WritesAreForwarded, PTL

\* If the user waited for each answer, they agreed to the proposal, the preview of
\* the plan was given to say(), and it was written from one batch only.
THEOREM WritesWereAgreedTo == PipelineSpec => []WritesAreConfirmed
  <1>1. forwarded \in [Messages -> Nat] /\ WritesWereHandedOver
          /\ ForwardedOnYes => WritesAreConfirmed
    BY PipelineAssumption
       DEF WritesWereHandedOver, WritesAreConfirmed, ForwardedOnYes
  <1> QED BY <1>1, Joined, WritesAreHandedOver, YesComesFirst, PTL

-----------------------------------------------------------------------------
(* A chained UPDATE takes effect behind the operation it refers to.        *)

Fresh == {"idle", "approve", "execute", "load", "lock", "insertLocks", "mark"}

\* The results at hand are those of writes before the loop variable.
ResultsAreWrites ==
  \A t \in Threads :
    /\ pc[t] \in Fresh => results[t] = {}
    /\ pc[t] \in {"run", "record"} =>
          \A r \in results[t] : /\ r \in WritesOf(job[t])
                                /\ r < idx[t]
                                /\ writes[<<job[t], r>>] > 0

\* Only UPDATEs and CREATEs write, and an UPDATE with a reference only behind
\* the write it refers to.
ChainsAreKept ==
  \A o \in Ops : writes[o] > 0 =>
    /\ o[2] \in WritesOf(o[1])
    /\ OpAt(o[1], o[2]).type = "UPDATE" /\ OpAt(o[1], o[2]).ref # 0 =>
          /\ OpAt(o[1], o[2]).ref \in WritesOf(o[1])
          /\ OpAt(o[1], o[2]).ref < o[2]
          /\ writes[<<o[1], OpAt(o[1], o[2]).ref>>] > 0

LEMMA ResultsEntry ==
  ASSUME TypeInv, [Next]_vars, NEW u \in Threads
  PROVE  /\ pc'[u] \in Fresh =>
              \/ pc[u] \in Fresh /\ results'[u] = results[u]
              \/ results'[u] = {}
         /\ pc'[u] \in {"run", "record"} =>
              \/ /\ pc[u] \in {"run", "record"}
                 /\ idx'[u] >= idx[u]
                 /\ results'[u] = results[u]
              \/ pc[u] = "mark" /\ results'[u] = results[u]
              \/ RecordResult(u)
  <1> USE DEF Goto, At, Idle, local, TypeInv, TypeOK, Fresh
  <1>1. CASE \E t \in Threads : Execute(t)
    <2>1. PICK t \in Threads : Execute(t)
      BY <1>1
    <2>2. CASE t # u
      BY <2>1, <2>2 DEF Execute, ExecuteBatch, CheckApproved, LoadOperations,
         CheckConflicts, InsertLocks, MarkExecuting, SkipUnknown, CallSalesforce,
         OperationRaises, Raise, SetIdx, RecordResult, CompleteBatch, SkipRow,
         FailBatch, ReleaseLocks
    <2>3. CASE t = u
      BY <2>1, <2>3 DEF Execute, ExecuteBatch, CheckApproved, LoadOperations,
         CheckConflicts, InsertLocks, MarkExecuting, SkipUnknown, CallSalesforce,
         OperationRaises, Raise, SetIdx, RecordResult, CompleteBatch, SkipRow,
         FailBatch, ReleaseLocks, InLoop
    <2> QED BY <2>2, <2>3
  <1>2. CASE ~ \E t \in Threads : Execute(t)
    BY <1>2 DEF Next, Event, Handler, vars, InsertBatch, ClickApprove, ClickDeny,
       Click, Start, InsertOperations, SendCard, Finish, TellNotSent, Approve,
       Deny, DenyRelease, TellDenied, ShowCard, TellSuccess, TellFailure, Crash
  <1> QED BY <1>1, <1>2

ChainInv == ResultsAreWrites /\ ChainsAreKept

LEMMA ResultsStep ==
  OrderInv /\ ResultsAreWrites /\ [Next]_vars => ResultsAreWrites'
  <1> SUFFICES ASSUME OrderInv, ResultsAreWrites, [Next]_vars, NEW u \in Threads
               PROVE  /\ pc'[u] \in Fresh => results'[u] = {}
                      /\ pc'[u] \in {"run", "record"} =>
                            \A r \in results'[u] :
                               /\ r \in WritesOf(job'[u])
                               /\ r < idx'[u]
                               /\ writes'[<<job'[u], r>>] > 0
      BY DEF ResultsAreWrites, WritesOf
  <1>0. TypeInv /\ LoopInv
    BY DEF OrderInv
  <1>1. pc'[u] \in Fresh => results'[u] = {}
    BY <1>0, ResultsEntry DEF ResultsAreWrites
  <1>2. ASSUME pc'[u] \in {"run", "record"}, NEW r \in results'[u]
        PROVE  /\ r \in WritesOf(job'[u])
               /\ r < idx'[u]
               /\ writes'[<<job'[u], r>>] > 0
    <2>1. job'[u] = job[u] /\ job[u] \in Batches
      BY <1>0, <1>2, LoopEntry
    <2>2. \A i \in WritesOf(job[u]) :
             /\ i \in Nat
             /\ writes[<<job[u], i>>] > 0 => writes'[<<job[u], i>>] > 0
      BY <1>0, <2>1, WritesGrow, OpsIntro, PlanDomain DEF WritesOf
    <2>3. idx[u] \in Nat /\ idx'[u] \in Nat
      BY <1>0, TypeStep DEF TypeInv, TypeOK
    <2>4. CASE /\ pc[u] \in {"run", "record"} /\ idx'[u] >= idx[u]
               /\ results'[u] = results[u]
      BY <1>2, <2>1, <2>2, <2>3, <2>4 DEF ResultsAreWrites
    <2>5. CASE pc[u] = "mark" /\ results'[u] = results[u]
      BY <1>2, <2>5 DEF ResultsAreWrites, Fresh
    <2>6. CASE RecordResult(u)
      <3>1. /\ pc[u] = "record" /\ idx'[u] = idx[u] + 1
            /\ results'[u] = results[u] \cup {idx[u]}
        BY <1>0, <2>6 DEF RecordResult, At, SetIdx, TypeInv, TypeOK
      <3>2. idx[u] \in WritesOf(job[u]) /\ writes[<<job[u], idx[u]>>] > 0
        BY <1>0, <2>3, <3>1 DEF LoopInv
      <3> QED BY <1>2, <2>1, <2>2, <2>3, <3>1, <3>2 DEF ResultsAreWrites
    <2> QED BY <1>0, <1>2, <2>4, <2>5, <2>6, ResultsEntry
  <1> QED BY <1>1, <1>2

LEMMA ResolvedWrites ==
  ASSUME TypeInv, [Next]_vars, ~ UNCHANGED writes
  PROVE  \E t \in Threads : /\ InLoop(t) /\ Current(t).type # "OTHER"
                             /\ Resolved(t) /\ Applied(t)
  <1>1. PICK t \in Threads : Execute(t)
    BY DEF Next, Event, Handler, vars, InsertBatch, ClickApprove, ClickDeny,
         Click, InsertOperations, SendCard, TellNotSent, Approve, Deny,
         DenyRelease, TellDenied, ShowCard, TellSuccess, TellFailure, Crash
  <1>2. CallSalesforce(t) \/ OperationRaises(t)
    BY <1>1 DEF Execute, ExecuteBatch, CheckApproved, LoadOperations,
         CheckConflicts, InsertLocks, MarkExecuting, SkipUnknown, RecordResult,
         CompleteBatch, SkipRow, FailBatch, ReleaseLocks
  <1> QED BY <1>2 DEF CallSalesforce, Callable, OperationRaises

LEMMA ChainStep == OrderInv /\ ChainInv /\ [Next]_vars => ChainInv'
  <1> SUFFICES ASSUME OrderInv, ChainInv, [Next]_vars PROVE ChainInv'
      OBVIOUS
  <1>0. TypeInv
    BY DEF OrderInv
  <1>1. ResultsAreWrites'
    BY ResultsStep DEF ChainInv
  <1>2. ASSUME NEW b \in Batches, NEW p \in DOMAIN Plan[b], writes'[<<b, p>>] > 0
        PROVE  /\ p \in WritesOf(b)
               /\ OpAt(b, p).type = "UPDATE" /\ OpAt(b, p).ref # 0 =>
                     /\ OpAt(b, p).ref \in WritesOf(b)
                     /\ OpAt(b, p).ref < p
                     /\ writes'[<<b, OpAt(b, p).ref>>] > 0
    <2>1. <<b, p>> \in Ops
      BY OpsIntro
    <2>2. \A r \in WritesOf(b) : writes[<<b, r>>] > 0 => writes'[<<b, r>>] > 0
      BY <1>0, WritesGrow, OpsIntro DEF WritesOf
    <2>3. CASE writes[<<b, p>>] > 0
      BY <2>1, <2>2, <2>3 DEF ChainInv, ChainsAreKept
    <2>4. CASE ~ (writes[<<b, p>>] > 0)
      <3>1. PICK t \in Threads : /\ InLoop(t) /\ Current(t).type # "OTHER"
                                 /\ Resolved(t) /\ Applied(t)
        BY <1>0, <1>2, <2>4, ResolvedWrites
      <3>2. b = job[t] /\ p = idx[t]
        BY <1>0, <1>2, <2>1, <2>4, <3>1 DEF Applied, TypeInv, TypeOK
      <3>3. p \in WritesOf(b)
        BY <3>1, <3>2 DEF Current, WritesOf
      <3>4. ASSUME OpAt(b, p).type = "UPDATE", OpAt(b, p).ref # 0
            PROVE  OpAt(b, p).ref \in results[t]
        BY <3>1, <3>2, <3>4 DEF Resolved, Current
      <3> QED BY <2>2, <3>1, <3>2, <3>3, <3>4
              DEF InLoop, At, ChainInv, ResultsAreWrites
    <2> QED BY <2>3, <2>4
  <1>3. ChainsAreKept'
    BY <1>2, OpsElim DEF ChainsAreKept, WritesOf, OpAt
  <1> QED BY <1>1, <1>3 DEF ChainInv

LEMMA ChainInit == PipelineInit => ChainInv
  BY OpsElim DEF PipelineInit, Init, ChainInv, ResultsAreWrites, ChainsAreKept

LEMMA ChainsInPipeline == PipelineSpec => [](FlowInv /\ ChainInv)
  <1>1. ChainInv /\ RestartIdle => ChainInv'
    BY DEF RestartIdle, ChainInv, ResultsAreWrites, ChainsAreKept, WritesOf,
           local
  <1>2. FlowInv /\ ChainInv /\ [PipelineNext]_allVars => (FlowInv /\ ChainInv)'
    BY <1>1, FlowInvStep, FlowStep, ChainStep DEF FlowInv
  <1> QED BY <1>2, FlowInit, ChainInit, PTL DEF PipelineSpec

-----------------------------------------------------------------------------
(* The positions _parse_plan gives to what Claude lists: a permutation.    *)

Before(raw, i) ==
  {j \in DOMAIN raw : \/ OrderOf(raw[j]) < OrderOf(raw[i])
                      \/ OrderOf(raw[j]) = OrderOf(raw[i]) /\ j <= i}

LEMMA OrdersAreNumbers ==
  ASSUME NEW raw \in Seq(RawOperation)
  PROVE  /\ Len(raw) \in Nat /\ DOMAIN raw = 1 .. Len(raw)
         /\ \A i \in DOMAIN raw : OrderOf(raw[i]) \in Nat
         /\ IsFiniteSet(DOMAIN raw) /\ Cardinality(DOMAIN raw) = Len(raw)
  <1>1. Len(raw) \in Nat /\ DOMAIN raw = 1 .. Len(raw)
    OBVIOUS
  <1>2. \A i \in DOMAIN raw : raw[i] \in RawOperation
    OBVIOUS
  <1>3. \A i \in DOMAIN raw : OrderOf(raw[i]) \in Nat
    BY <1>2 DEF OrderOf, RawOperation
  <1>4. IsFiniteSet(1 .. Len(raw)) /\ Cardinality(1 .. Len(raw)) = Len(raw)
    BY <1>1, FS_Interval
  <1> QED BY <1>1, <1>3, <1>4

LEMMA PositionsDiffer ==
  ASSUME NEW raw \in Seq(RawOperation),
         NEW i \in DOMAIN raw, NEW j \in DOMAIN raw, i # j, i \in Before(raw, j)
  PROVE  Position(raw, i) < Position(raw, j)
  <1>1. IsFiniteSet(Before(raw, i)) /\ IsFiniteSet(Before(raw, j))
    BY OrdersAreNumbers, FS_Subset DEF Before
  <1>2. Before(raw, i) \subseteq Before(raw, j) /\ j \notin Before(raw, i)
    BY OrdersAreNumbers DEF Before
  <1>3. j \in Before(raw, j)
    BY OrdersAreNumbers DEF Before
  <1>4. /\ Cardinality(Before(raw, i)) <= Cardinality(Before(raw, j))
        /\ Cardinality(Before(raw, i)) # Cardinality(Before(raw, j))
        /\ Cardinality(Before(raw, i)) \in Nat
        /\ Cardinality(Before(raw, j)) \in Nat
    BY <1>1, <1>2, <1>3, FS_Subset, FS_CardinalityType
  <1> QED BY <1>4 DEF Position, Before

LEMMA PositionRange ==
  ASSUME NEW raw \in Seq(RawOperation), NEW i \in DOMAIN raw
  PROVE  Position(raw, i) \in DOMAIN raw
  <1>1. IsFiniteSet(Before(raw, i)) /\ Cardinality(Before(raw, i)) <= Len(raw)
    BY OrdersAreNumbers, FS_Subset DEF Before
  <1>2. i \in Before(raw, i)
    BY OrdersAreNumbers DEF Before
  <1>3. Cardinality(Before(raw, i)) \in Nat /\ Cardinality(Before(raw, i)) # 0
    BY <1>1, <1>2, FS_CardinalityType, FS_EmptySet
  <1> QED BY <1>1, <1>3, OrdersAreNumbers DEF Position, Before

LEMMA PositionsAreAPermutation ==
  ASSUME NEW raw \in Seq(RawOperation)
  PROVE  /\ \A i, j \in DOMAIN raw : Position(raw, i) = Position(raw, j) => i = j
         /\ \A p \in DOMAIN raw : \E i \in DOMAIN raw : Position(raw, i) = p
  <1> DEFINE D == DOMAIN raw
             f == [i \in D |-> Position(raw, i)]
  <1>1. ASSUME NEW i \in D, NEW j \in D, i # j
        PROVE  Position(raw, i) # Position(raw, j)
    <2>1. /\ Position(raw, i) \in D /\ Position(raw, j) \in D
          /\ D \subseteq Nat
      BY PositionRange, OrdersAreNumbers
    <2>2. i \in Before(raw, j) \/ j \in Before(raw, i)
      BY OrdersAreNumbers DEF Before
    <2>3. \/ Position(raw, i) < Position(raw, j)
          \/ Position(raw, j) < Position(raw, i)
      BY <1>1, <2>2, PositionsDiffer
    <2> QED BY <2>1, <2>3
  <1>2. f \in Injection(D, D)
    BY <1>1, PositionRange DEF Injection, IsInjective
  <1>3. f \in Surjection(D, D)
    BY <1>2, OrdersAreNumbers, FS_Injection
  <1>4. ASSUME NEW p \in D
        PROVE  \E i \in D : Position(raw, i) = p
    BY <1>3, <1>4 DEF Surjection
  <1> QED BY <1>1, <1>4

LEMMA SortedAt ==
  ASSUME NEW raw \in Seq(RawOperation), NEW i \in DOMAIN raw
  PROVE  /\ Position(raw, i) \in DOMAIN raw
         /\ Sorted(raw)[Position(raw, i)] = raw[i]
  <1>1. Position(raw, i) \in DOMAIN raw
    BY PositionRange
  <1>2. (CHOOSE k \in DOMAIN raw : Position(raw, k) = Position(raw, i)) = i
    BY PositionsAreAPermutation
  <1> QED BY <1>1, <1>2 DEF Sorted

LEMMA LastOf ==
  ASSUME NEW n \in Nat, NEW S \in SUBSET (0 .. n), S # {}
  PROVE  \E q \in S : \A r \in S : r <= q
  <1> DEFINE T == {n - q : q \in S}
  <1>3. T \subseteq Nat /\ T # {}
    <2>1. PICK q \in S : TRUE
      OBVIOUS
    <2>2. n - q \in T
      BY <2>1
    <2>3. \A r \in S : r \in 0 .. n /\ n - r \in Nat
      OBVIOUS
    <2> QED BY <2>2, <2>3
  <1> DEFINE Less == OpToRel(<, Nat)
  <1>1. IsWellFoundedOn(Less, Nat)
    BY NatLessThanWellFounded
  <1>2. \A x, y \in Nat : <<x, y>> \in Less <=> x < y
    BY DEF OpToRel
  <1> HIDE DEF Less
  <1>4. PICK d \in T : \A e \in T : ~ (<<e, d>> \in Less)
    <2> HIDE DEF T
    <2> QED BY <1>1, <1>3, WFMin, Zenon
  <1>5. PICK q \in S : d = n - q
    BY <1>4
  <1>6. ASSUME NEW r \in S
        PROVE  r <= q
    <2>1. /\ n - r \in T /\ n - r \in Nat /\ d \in Nat
          /\ r \in Nat /\ q \in Nat
      BY <1>5
    <2>2. ~ (n - r < d)
      BY <1>2, <1>4, <2>1
    <2> QED BY <1>5, <2>1, <2>2
  <1> QED BY <1>5, <1>6

\* What a template refers to, if not to its own operation, is an earlier one of
\* the number it names.
LEMMA ReferentOf ==
  ASSUME NEW s, NEW p \in Nat \ {0}
  PROVE  \/ s[p].ref = 0 /\ Referent(s, p) = 0
         \/ s[p].ref # 0 /\ Referent(s, p) = p
         \/ /\ s[p].ref # 0
            /\ Referent(s, p) \in 1 .. p - 1
            /\ OrderOf(s[Referent(s, p)]) = s[p].ref
  <1> DEFINE known == {q \in 1 .. p - 1 : /\ OrderOf(s[q]) = s[p].ref
                                         /\ s[q].type # "OTHER"}
             last == CHOOSE q \in known : \A r \in known : r <= q
  <1>1. ASSUME known # {}
        PROVE  last \in known
    <2>1. p - 1 \in Nat /\ known \in SUBSET (0 .. p - 1)
      OBVIOUS
    <2>2. \E q \in known : \A r \in known : r <= q
      <3> HIDE DEF known
      <3> QED BY <1>1, <2>1, LastOf
    <2> HIDE DEF known
    <2> QED BY <2>2
  <1> QED BY <1>1 DEF Referent

\* The rows of a batch, as its requester's plan describes them.
LEMMA RowOf ==
  ASSUME NEW b \in Batches, NEW i \in DOMAIN Draft[b[1]]
  PROVE  LET raw == Draft[b[1]]
             p == Position(raw, i)
         IN  /\ raw \in Seq(RawOperation)
             /\ p \in DOMAIN Plan[b]
             /\ OpAt(b, p).type = raw[i].type
             /\ OpAt(b, p).ref = Referent(Sorted(raw), p)
             /\ Sorted(raw)[p] = raw[i]
  <1> DEFINE raw == Draft[b[1]]
             p == Position(raw, i)
  <1>1. raw \in Seq(RawOperation) /\ Plan[b] = ParsePlan(raw)
    BY PipelineAssumption
  <1>2. p \in DOMAIN raw /\ Sorted(raw)[p] = raw[i]
    BY <1>1, SortedAt
  <1>3. DOMAIN Sorted(raw) = DOMAIN raw
    BY DEF Sorted
  <1> QED BY <1>1, <1>2, <1>3 DEF ParsePlan, OpAt

LEMMA NumbersAreFollowed ==
  FlowInv /\ ChainInv => WritesFollowTheNumbers
  <1> SUFFICES ASSUME FlowInv, ChainInv, NEW b \in Batches
               PROVE  WritesFollowTheNumbers!(b)
      BY DEF WritesFollowTheNumbers
  <1> DEFINE raw == Draft[b[1]]
             done == {i \in DOMAIN raw : Position(raw, i) \in Written(b)}
  <1>1. raw \in Seq(RawOperation) /\ Plan[b] = ParsePlan(raw)
    BY PipelineAssumption
  <1>2. ASSUME NEW i \in done
        PROVE  /\ Position(raw, i) \in WritesOf(b)
               /\ writes[<<b, Position(raw, i)>>] > 0
               /\ Position(raw, i) \in Nat \ {0}
    <2>1. /\ Position(raw, i) \in DOMAIN Plan[b]
          /\ writes[<<b, Position(raw, i)>>] > 0
      BY DEF Written
    <2>2. <<b, Position(raw, i)>> \in Ops
      BY <2>1, OpsIntro
    <2>3. Position(raw, i) \in WritesOf(b)
      <3> HIDE DEF done, raw
      <3> QED BY <2>1, <2>2 DEF ChainInv, ChainsAreKept
    <2>4. Position(raw, i) \in Nat \ {0}
      BY <2>1, PlanDomain
    <2> QED BY <2>1, <2>3, <2>4
  <1>3. ASSUME NEW i \in done, NEW j \in DOMAIN raw,
               OrderOf(raw[j]) < OrderOf(raw[i]), raw[j].type # "OTHER"
        PROVE  j \in done
    <2>1. i # j /\ j \in Before(raw, i)
      BY <1>1, <1>3, OrdersAreNumbers DEF Before
    <2>2. Position(raw, j) < Position(raw, i)
      BY <1>1, <2>1, PositionsDiffer
    <2>3. Position(raw, j) \in WritesOf(b)
      BY <1>3, RowOf DEF WritesOf
    <2>4. writes[<<b, Position(raw, j)>>] > 0
      BY <1>2, <2>2, <2>3 DEF FlowInv, OrderInv, AppliedInOrder
    <2> QED BY <2>3, <2>4 DEF Written, WritesOf
  <1>4. ASSUME NEW i \in done, raw[i].type = "UPDATE", raw[i].ref # 0
        PROVE  \E j \in done : OrderOf(raw[j]) = raw[i].ref
    <2> DEFINE p == Position(raw, i)
               q == Referent(Sorted(raw), p)
    <2>1. p \in WritesOf(b) /\ writes[<<b, p>>] > 0 /\ p \in Nat \ {0}
      BY <1>2
    <2>2. /\ OpAt(b, p).type = "UPDATE" /\ OpAt(b, p).ref = q
          /\ Sorted(raw)[p] = raw[i]
      BY <1>4, RowOf
    <2>3. q # 0
      BY <1>4, <2>1, <2>2, ReferentOf
    <2>4. q \in WritesOf(b) /\ q < p /\ writes[<<b, q>>] > 0
      BY <2>1, <2>2, <2>3, OpsIntro DEF ChainInv, ChainsAreKept, WritesOf
    <2>5. OrderOf(Sorted(raw)[q]) = raw[i].ref
      BY <2>1, <2>2, <2>3, <2>4, ReferentOf
    <2>6. PICK j \in DOMAIN raw : Position(raw, j) = q
      <3>1. q \in DOMAIN raw
        BY <1>1, <2>4 DEF WritesOf, ParsePlan, Sorted
      <3> QED BY <1>1, <3>1, PositionsAreAPermutation
    <2>7. j \in done /\ Sorted(raw)[q] = raw[j]
      BY <2>4, <2>6, RowOf DEF Written, WritesOf
    <2> QED BY <2>5, <2>7
  <1> QED BY <1>3, <1>4

\* Operations take effect by the numbers Claude gave them, in whatever order it
\* listed them, and a chained one only behind an operation of the number it
\* names.
THEOREM NumbersHold == PipelineSpec => []WritesFollowTheNumbers
  BY ChainsInPipeline, NumbersAreFollowed, PTL

\* What is written in Salesforce is what was asked for, agreed to, shown, sent
\* once, approved, and done in the order of its numbers.
THEOREM OnlyWhatWasMeant == PipelineSpec => []WritesAreMeant
  <1>1. WritesAreRequested /\ WritesAreConfirmed /\ WritesFollowTheNumbers
          => WritesAreMeant
    BY DEF WritesAreMeant
  <1> QED BY <1>1, WritesWereAskedFor, WritesWereAgreedTo, NumbersHold, PTL

-----------------------------------------------------------------------------
(* The promise of WritePlan, kept by the whole process.                    *)

OncePerCard == CompletionInv /\ OnceInv /\ ClickedInv

LEMMA OncePerCardInit == PipelineInit => OncePerCard
  BY CompletionInit, OnceInit
     DEF PipelineInit, OncePerCard, Init, ClickedInv, DecidedAlone, Undecided

LEMMA OncePerCardStep ==
  ASSUME ClickedOnce, OncePerCard, [PipelineNext]_allVars
  PROVE  OncePerCard'
  <1>1. TypeInv
    BY DEF OncePerCard, CompletionInv, OrderInv
  <1>2. CASE [Next]_vars
    BY <1>1, <1>2, CompletionStep, OnceStep, ClickedStep
       DEF OncePerCard, ClickedInv
  <1>3. CASE RestartIdle
    <2>1. CompletionInv'
      BY <1>3, QuietRestart
         DEF OncePerCard, CompletionInv, RestartIdle, RowsPresent, Stored, At,
             CompletedBatchesWereApplied, store, local, outside
    <2>2. OnceInv'
      BY <1>3
         DEF OncePerCard, OnceInv, RestartIdle, StageInv, StatusFits, OneExecutor,
             Unwritten, AppliedAtMostOnce, ToldDenied, store, local, outside
    <2>3. ClickedInv'
      BY <1>3 DEF OncePerCard, ClickedInv, DecidedAlone, RestartIdle, local
    <2> QED BY <2>1, <2>2, <2>3 DEF OncePerCard
  <1> QED BY <1>2, <1>3, FlowStep

LEMMA RestartIsStutter ==
  RestartIdle =>
    UNCHANGED <<status, [b \in Batches |-> {i \in WritesOf(b) : writes[<<b, i>>] > 0}]>>
  BY DEF RestartIdle, store, WritesOf

\* A batch of the whole process (its requester's conversation, coworkers clicking
\* once on each card, executions, restarts, all on one pool of threads) is decided
\* once, its writes take effect once and in order, a denial is final, and the
\* status tells what was done.
THEOREM ProcessKeepsItsPromise ==
  ASSUME ClickedOnce
  PROVE  PipelineSpec => PromiseKept /\ []AppliedAtMostOnce /\ []DenialIsFinal
  <1>1. PipelineInit => Promise!Init
    BY PromiseInit DEF PipelineInit
  <1>2. OncePerCard /\ [PipelineNext]_allVars => OncePerCard'
    BY OncePerCardStep
  <1>3. OncePerCard /\ [PipelineNext]_allVars =>
          [Promise!Next]_<<status, [b \in Batches |-> {i \in WritesOf(b) : writes[<<b, i>>] > 0}]>>
    BY FlowStep, PromiseStep, RestartIsStutter DEF OncePerCard
  <1>4. OncePerCard => AppliedAtMostOnce /\ DenialIsFinal
    BY OpsIntro DEF OncePerCard, OnceInv, ToldDenied, Unwritten, DenialIsFinal
  <1> QED
    BY <1>1, <1>2, <1>3, <1>4, OncePerCardInit, PTL
       DEF PipelineSpec, PromiseKept, Promise!Spec
=============================================================================
