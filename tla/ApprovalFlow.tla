---------------------------- MODULE ApprovalFlow ----------------------------
(***************************************************************************)
(* The life of a write plan once its requester has confirmed it: the       *)
(* listener stores the batch and posts the approval card (slack/listener), *)
(* the coworker clicks Approve or Deny, and the handler threads decide,    *)
(* execute and report (approval/handler, batchqueue/executor).             *)
(*                                                                         *)
(* Bolt hands every event to a pool of threads, so any number of handlers  *)
(* run at once, each at the granularity of its statements.  A click may be *)
(* handled long after it was made, so the buttons of a posted card may     *)
(* fire at any time.                                                       *)
(***************************************************************************)
EXTENDS BatchExecutor

CONSTANTS
    MaxClicks,  \* bound: how many clicks on the card of each batch are handled
    MaxCrashes, \* bound: restarts of the process
    SlackFails  \* whether a Slack call may raise

ASSUME BoundsAssumption == /\ MaxClicks \in [Batches -> Nat]
                           /\ MaxCrashes \in Nat
                           /\ SlackFails \in BOOLEAN

VARIABLES
    card,       \* what the approval card of each batch shows
    told,       \* the outcomes the requester was sent
    clicks,     \* clicks handled so far
    crashes     \* restarts so far

outside == <<card, told>>
budget == <<clicks, crashes>>
vars == <<store, pc, local, writes, outside, budget>>

PC == ExecutorPC \cup {"idle", "insertOps", "sendCard", "dmNotSent", "approve",
                       "deny", "denyRelease", "dmDenied", "showCard"}

CardText == BatchStatus \cup {"none", "buttons"}

Notice == {"COMPLETED", "FAILED", "DENIED", "NOT_SENT"}

TypeOK ==
    /\ StoreTypeOK
    /\ pc \in [Threads -> PC]
    /\ job \in [Threads -> Batches \cup {NoBatch}]
    /\ text \in [Threads -> CardText]
    /\ idx \in [Threads -> Nat]
    /\ snapshot \in [Threads -> SUBSET Nat]
    /\ results \in [Threads -> SUBSET Nat]
    /\ writes \in [Ops -> Nat]
    /\ card \in [Batches -> CardText]
    /\ told \in [Batches -> SUBSET Notice]
    /\ clicks \in [Batches -> Nat]
    /\ crashes \in Nat

Init ==
    /\ StoreInit
    /\ pc = [t \in Threads |-> "idle"]
    /\ job = [t \in Threads |-> NoBatch]
    /\ text = [t \in Threads |-> "none"]
    /\ idx = [t \in Threads |-> 0]
    /\ snapshot = [t \in Threads |-> {}]
    /\ results = [t \in Threads |-> {}]
    /\ writes = [o \in Ops |-> 0]
    /\ card = [b \in Batches |-> "none"]
    /\ told = [b \in Batches |-> {}]
    /\ clicks = [b \in Batches |-> 0]
    /\ crashes = 0

-----------------------------------------------------------------------------
(* A thread takes an event, and gives up its locals when the handler ends. *)

Idle(t) == At(t, "idle")

Start(t, b, p) ==
    /\ Idle(t)
    /\ Goto(t, p)
    /\ job' = [job EXCEPT ![t] = b]

Finish(t) ==
    /\ Goto(t, "idle")
    /\ job' = [job EXCEPT ![t] = NoBatch]
    /\ text' = [text EXCEPT ![t] = "none"]
    /\ idx' = [idx EXCEPT ![t] = 0]
    /\ snapshot' = [snapshot EXCEPT ![t] = {}]
    /\ results' = [results EXCEPT ![t] = {}]

Tell(b, n) == told' = [told EXCEPT ![b] = @ \cup {n}]

Show(b, s) == card' = [card EXCEPT ![b] = s]

-----------------------------------------------------------------------------
(* on_message, once the orchestrator returned a confirmed plan: the batch  *)
(* row, then its operation rows, then the card.                            *)

InsertBatch(t, b) ==
    /\ status[b] = "absent"
    /\ Start(t, b, "insertOps")
    /\ UpdateBatchStatus(b, "PENDING_APPROVAL")
    /\ UNCHANGED <<rows, locks, text, idx, snapshot, results, writes, outside,
                   budget>>

\* Mutant: the rows are stored, and no card is posted.
InsertOperations_NoCard(t) ==
    /\ At(t, "insertOps")
    /\ CreateOperationRows(job[t])
    /\ Finish(t)
    /\ UNCHANGED <<status, approved, locks, writes, outside, budget>>

InsertOperations(t) ==
    /\ At(t, "insertOps")
    /\ CreateOperationRows(job[t])
    /\ Goto(t, "sendCard")
    /\ UNCHANGED <<status, approved, locks, local, writes, outside, budget>>

\* A post that raises may have reached the coworker all the same.
SendCard(t) ==
    /\ At(t, "sendCard")
    /\ \/ Show(job[t], "buttons") /\ Finish(t)
       \/ /\ SlackFails
          /\ Show(job[t], "buttons") \/ UNCHANGED card
          /\ Goto(t, "dmNotSent")
          /\ UNCHANGED local
    /\ UNCHANGED <<store, writes, told, budget>>

\* "failed to send it for approval, try again"; a DM that raises ends the
\* handler too.
TellNotSent(t) ==
    /\ At(t, "dmNotSent")
    /\ Tell(job[t], "NOT_SENT") \/ UNCHANGED told
    /\ Finish(t)
    /\ UNCHANGED <<store, writes, card, budget>>

-----------------------------------------------------------------------------
(* handle_approve and handle_deny.  The status is read in one step and     *)
(* acted upon in a later one.                                              *)

\* Mutant: the guard on the status is dropped.
Click_Unguarded(t, b, decision) ==
    /\ card[b] # "none"
    /\ clicks[b] < MaxClicks[b]
    /\ clicks' = [clicks EXCEPT ![b] = @ + 1]
    /\ Start(t, b, decision)
    /\ UNCHANGED <<store, text, idx, snapshot, results, writes, outside, crashes>>

Click(t, b, decision) ==
    /\ card[b] # "none"
    /\ clicks[b] < MaxClicks[b]
    /\ clicks' = [clicks EXCEPT ![b] = @ + 1]
    /\ IF status[b] = "PENDING_APPROVAL"
         THEN Start(t, b, decision) /\ UNCHANGED text
         ELSE Start(t, b, "showCard") /\ Report(t, status[b])
    /\ UNCHANGED <<store, idx, snapshot, results, writes, outside, crashes>>

ClickApprove(t, b) == Click(t, b, "approve")

ClickDeny(t, b) == Click(t, b, "deny")

Approve(t) ==
    /\ At(t, "approve")
    /\ UpdateBatchStatus(job[t], "APPROVED")
    /\ Goto(t, "execute")
    /\ UNCHANGED <<rows, locks, local, writes, outside, budget>>

Execute(t) == ExecuteBatch(t) /\ UNCHANGED <<outside, budget>>

\* The success DM is sent inside the try block: if it raises, whether it arrived
\* or not, the handler goes on as if the execution had failed.
TellSuccess(t) ==
    /\ At(t, "dmSuccess")
    /\ \/ Tell(job[t], "COMPLETED") /\ Goto(t, "showCard") /\ UNCHANGED text
       \/ /\ SlackFails
          /\ Tell(job[t], "COMPLETED") \/ UNCHANGED told
          /\ Goto(t, "dmFailure")
          /\ Report(t, "FAILED")
    /\ UNCHANGED <<store, job, idx, snapshot, results, writes, card, budget>>

\* A failure DM that raises leaves handle_approve, and the card as it is.
TellFailure(t) ==
    /\ At(t, "dmFailure")
    /\ \/ Tell(job[t], "FAILED") /\ Goto(t, "showCard") /\ UNCHANGED local
       \/ SlackFails /\ Finish(t) /\ (Tell(job[t], "FAILED") \/ UNCHANGED told)
    /\ UNCHANGED <<store, writes, card, budget>>

Deny(t) ==
    /\ At(t, "deny")
    /\ UpdateBatchStatus(job[t], "DENIED")
    /\ Goto(t, "denyRelease")
    /\ UNCHANGED <<rows, locks, local, writes, outside, budget>>

DenyRelease(t) ==
    /\ At(t, "denyRelease")
    /\ DeleteLockRows(job[t])
    /\ Goto(t, "dmDenied")
    /\ UNCHANGED <<status, approved, rows, local, writes, outside, budget>>

TellDenied(t) ==
    /\ At(t, "dmDenied")
    /\ \/ /\ Tell(job[t], "DENIED")
          /\ Goto(t, "showCard")
          /\ Report(t, "DENIED")
          /\ UNCHANGED <<job, idx, snapshot, results>>
       \/ SlackFails /\ Finish(t) /\ (Tell(job[t], "DENIED") \/ UNCHANGED told)
    /\ UNCHANGED <<store, writes, card, budget>>

\* update_message: the last thing either button handler does.
ShowCard(t) ==
    /\ At(t, "showCard")
    /\ Show(job[t], text[t]) \/ (SlackFails /\ UNCHANGED card)
    /\ Finish(t)
    /\ UNCHANGED <<store, writes, told, budget>>

-----------------------------------------------------------------------------
(* The process dies: the handlers are gone, the tables and Slack are not.  *)
(* main.py repairs nothing when it starts again.                           *)

Crash ==
    /\ crashes < MaxCrashes
    /\ \E t \in Threads : ~ Idle(t)
    /\ crashes' = crashes + 1
    /\ pc' = [t \in Threads |-> "idle"]
    /\ job' = [t \in Threads |-> NoBatch]
    /\ text' = [t \in Threads |-> "none"]
    /\ idx' = [t \in Threads |-> 0]
    /\ snapshot' = [t \in Threads |-> {}]
    /\ results' = [t \in Threads |-> {}]
    /\ UNCHANGED <<store, writes, outside, clicks>>

-----------------------------------------------------------------------------

Event(t) == \E b \in Batches :
                InsertBatch(t, b) \/ ClickApprove(t, b) \/ ClickDeny(t, b)

\* The steps of a handler that is under way.
Handler(t) ==
    \/ InsertOperations(t) \/ SendCard(t) \/ TellNotSent(t)
    \/ Approve(t) \/ Execute(t) \/ TellSuccess(t) \/ TellFailure(t)
    \/ Deny(t) \/ DenyRelease(t) \/ TellDenied(t) \/ ShowCard(t)

Next == (\E t \in Threads : Event(t) \/ Handler(t)) \/ Crash

Spec == Init /\ [][Next]_vars

\* A running handler keeps running: every call it makes returns or raises.
Fairness == \A t \in Threads : WF_vars(Handler(t))

FairSpec == Spec /\ Fairness

-----------------------------------------------------------------------------
(* Properties that hold however the handlers interleave, double clicks and *)
(* restarts included.                                                      *)

WritesOf(b) == {i \in DOMAIN Plan[b] : OpAt(b, i).type # "OTHER"}

\* Every write that reached Salesforce belongs to a batch whose approval is on
\* record: the COALESCE of update_batch_status never loses it, and no path leads
\* to execute_batch around handle_approve's UPDATE.
WritesWereApproved == \A o \in Ops : writes[o] > 0 => o[1] \in approved

\* A plan is applied in sequence_order: an operation that took effect has all
\* the writes before it in effect too, whatever was rejected, repeated or cut
\* short by a restart (the loop of execute_batch).
AppliedInOrder ==
    \A b \in Batches : \A i \in WritesOf(b) : writes[<<b, i>>] > 0 =>
        \A j \in WritesOf(b) : j < i => writes[<<b, j>>] > 0

\* A row that says COMPLETED is backed by a write: update_operation_status runs
\* after the Salesforce call, never ahead of it.
CompletedRowsWereApplied ==
    \A o \in Ops : rows[o] = "COMPLETED" => writes[o] > 0

\* A batch that says COMPLETED had each of its writes applied, also when two
\* executions of it overlap and one of them fails.
CompletedBatchesWereApplied ==
    \A b \in Batches : status[b] = "COMPLETED" =>
        \A i \in WritesOf(b) : writes[<<b, i>>] > 0

HoldsLocks == {"mark", "run", "record", "skipRows", "release"}

\* A lock row belongs to an executor that is still going to release it, unless
\* the process died: the early returns and raises of execute_batch leave none
\* behind (its finally block).
LocksHaveAnOwner ==
    crashes = 0 =>
        \A l \in locks : \E t \in Threads : job[t] = l[1] /\ pc[t] \in HoldsLocks

(* Properties that need one decision per batch, or one thread.             *)

\* No Salesforce write is applied twice.
AppliedAtMostOnce == \A o \in Ops : writes[o] <= 1

\* A batch its requester saw denied wrote nothing, and stays denied.
DenialIsFinal ==
    \A b \in Batches : (status[b] = "DENIED" \/ "DENIED" \in told[b]) =>
        /\ status[b] = "DENIED"
        /\ \A i \in DOMAIN Plan[b] : writes[<<b, i>>] = 0

\* Two active batches never hold a lock on the same target.
LocksAreUnique ==
    \A l, m \in locks :
        /\ l[2] = m[2]
        /\ {status[l[1]], status[m[1]]} \subseteq ActiveStatuses
        => l[1] = m[1]

\* An UPDATE takes effect only while its batch holds the lock on its target.
UpdatesAreLocked ==
    [][\A o \in Ops :
          /\ writes'[o] # writes[o]
          /\ OpAt(o[1], o[2]).type = "UPDATE"
          => <<o[1], OpAt(o[1], o[2]).target>> \in locks]_vars

\* What the card and the requester should say of a batch nobody works on: a
\* batch still APPROVED was refused its locks, which is reported as a failure.
Outcome(s) == IF s = "APPROVED" THEN "FAILED" ELSE s

\* With every handler done and no Slack call lost, the card and the requester
\* know how each decided batch ended, and were told nothing else.
OutcomeIsReported ==
    (\A t \in Threads : Idle(t)) =>
        \A b \in Batches : status[b] \notin {"absent", "PENDING_APPROVAL"} =>
            card[b] = Outcome(status[b]) /\ told[b] = {Outcome(status[b])}

\* The pipeline implements the promise of WritePlan.
Promise == INSTANCE WritePlan WITH
    Writes <- [b \in Batches |-> WritesOf(b)],
    applied <- [b \in Batches |-> {i \in WritesOf(b) : writes[<<b, i>>] > 0}]

PromiseKept == Promise!Spec

(* Liveness.                                                               *)

\* Every handler ends, whatever Salesforce and Slack raise on its way.
HandlersFinish == \A t \in Threads : ~ Idle(t) ~> Idle(t)

Locked(b) == \E l \in locks : l[1] = b

\* Locks that were taken are given back.
LocksAreReleased == \A b \in Batches : Locked(b) ~> ~ Locked(b)

(* What a comment of the code says, and the code does not do.              *)

\* executor.py:131 "Mark all still-PENDING operations as SKIPPED".
SkipsOnlyPending ==
    [][\A o \in Ops : rows'[o] = "SKIPPED" => rows[o] \in {"PENDING", "SKIPPED"}]_vars
=============================================================================
