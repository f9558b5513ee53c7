--------------------------- MODULE WritePipeline ----------------------------
(***************************************************************************)
(* From a user's words to Salesforce: the conversation of Session and the  *)
(* approval flow of ApprovalFlow in one process, on one pool of threads.   *)
(* They meet where on_message, told to send a plan for approval, creates a *)
(* batch from it (slack/listener.py:84), and in the threads, each of which *)
(* handles one event of either kind at a time.                             *)
(*                                                                         *)
(* The operations of a batch are those Claude answered the planner with,   *)
(* as _parse_plan and create_operation_rows put them in order.             *)
(***************************************************************************)
EXTENDS ApprovalFlow

CONSTANTS
    MaxTurns, MaxMessages, MaxSessions, CallsFail,  \* as in Session
    Draft      \* Draft[m]: the operations Claude would plan for message m

Messages == 1 .. MaxTurns

\* An operation as Claude writes it: "order" may be missing or repeated, and a
\* template names the order of the operation whose result it wants.
NoOrder == 0
RawOperation == [order : Nat, type : OpTypes, target : Targets \cup {NoTarget},
                 ref : Nat]

OrderOf(op) == IF op.order = NoOrder THEN 1 ELSE op.order

-----------------------------------------------------------------------------
(* _parse_plan, then the rows in the order get_operations returns them.    *)

\* list.sort is stable, and rows with the same sequence_order come back in the
\* order of their insertion.
Position(raw, i) ==
    Cardinality({j \in DOMAIN raw :
        \/ OrderOf(raw[j]) < OrderOf(raw[i])
        \/ OrderOf(raw[j]) = OrderOf(raw[i]) /\ j <= i})

Sorted(raw) == [p \in DOMAIN raw |-> raw[CHOOSE i \in DOMAIN raw : Position(raw, i) = p]]

\* results is keyed by sequence_order: a template finds the last operation of
\* that order before its own; where there is none it stays unresolved, like a
\* reference to the operation itself.
Referent(s, p) ==
    LET known == {q \in 1 .. p - 1 : OrderOf(s[q]) = s[p].ref /\ s[q].type # "OTHER"}
    IN  CASE s[p].ref = 0 -> 0
          [] s[p].ref # 0 /\ known # {} -> CHOOSE q \in known : \A r \in known : r <= q
          [] OTHER -> p

ParsePlan(raw) ==
    LET s == Sorted(raw) IN
    [p \in DOMAIN s |-> [type |-> s[p].type, target |-> s[p].target,
                         ref |-> Referent(s, p)]]

\* A batch is known by the plan it was created from and how many there were.
ASSUME PipelineAssumption ==
    /\ MaxTurns \in Nat
    /\ MaxMessages \in 0 .. MaxTurns
    /\ MaxSessions \in Nat \ {0}
    /\ CallsFail \in BOOLEAN
    /\ Draft \in [Messages -> Seq(RawOperation)]
    /\ \A b \in Batches : /\ b[1] \in Messages
                          /\ Plan[b] = ParsePlan(Draft[b[1]])

-----------------------------------------------------------------------------

VARIABLES gen, state, intent, plan, talked, learned, org, type, tpc, msg, held,
          lintent, lplan, reply, count, born, lastAsk, agreed, previewed,
          forwarded, unsaved, overlapped

Talk == INSTANCE Session WITH pc <- tpc

talk == <<gen, state, intent, plan, talked, learned, org, type, tpc, msg, held,
          lintent, lplan, reply, count, born, lastAsk, agreed, previewed,
          forwarded, unsaved, overlapped>>

allVars == <<vars, talk>>

PipelineInit == Init /\ Talk!Init

\* A message or a /reset, on a thread that handles nothing else.
Hear(t) == Idle(t) /\ Talk!Event(t) /\ UNCHANGED vars

Converse(t) == Talk!Converse(t) /\ UNCHANGED vars

\* The confirmed plan becomes a batch.
SubmitPlan(t) ==
    /\ Talk!Submit(t)
    /\ \E b \in Batches : /\ b = <<lplan[t], forwarded[lplan[t]] + 1>>
                          /\ InsertBatch(t, b)

\* The coworker clicks, and a thread that handles nothing else takes it.
Decide(t) ==
    /\ Talk!Idle(t)
    /\ \E b \in Batches : ClickApprove(t, b) \/ ClickDeny(t, b)
    /\ UNCHANGED talk

Carry(t) == Handler(t) /\ UNCHANGED talk

\* A restart ends what both halves were doing.
Stop == Talk!Restart /\ Crash

StopIdle ==
    /\ Talk!Restart
    /\ crashes < MaxCrashes
    /\ \A t \in Threads : Idle(t)
    /\ crashes' = crashes + 1
    /\ UNCHANGED <<store, pc, local, writes, outside, clicks>>

PipelineNext ==
    \/ \E t \in Threads : Hear(t) \/ Converse(t) \/ SubmitPlan(t) \/ Decide(t) \/ Carry(t)
    \/ Stop
    \/ StopIdle

PipelineSpec ==
    /\ PipelineInit
    /\ [][PipelineNext]_allVars
    /\ \A t \in Threads : WF_allVars(Converse(t) \/ SubmitPlan(t) \/ Carry(t))

-----------------------------------------------------------------------------
(* Properties.                                                             *)

Written(b) == {p \in DOMAIN Plan[b] : writes[<<b, p>>] > 0}

\* Whatever interleaves or dies: a write in Salesforce goes back to a request
\* that Claude took for a WRITE, and to a coworker's approval.
WritesAreRequested ==
    \A b \in Batches : Written(b) # {} => type[b[1]] = "WRITE" /\ b \in approved

\* If the user waited for each answer, they also agreed to the proposal, saw the
\* plan (if say() did not raise, core.py:294), and there is no second batch of it.
WritesAreConfirmed ==
    ~ overlapped => \A b \in Batches : Written(b) # {} =>
        /\ b[1] \in agreed
        /\ b[1] \in previewed
        /\ b[2] = 1

\* Operations take effect by Claude's numbers, whatever order Claude listed them
\* in, and a chained one only after an operation of the number it names.
WritesFollowTheNumbers ==
    \A b \in Batches :
        LET raw == Draft[b[1]]
            done == {i \in DOMAIN raw : Position(raw, i) \in Written(b)}
        IN  \A i \in done :
                /\ \A j \in DOMAIN raw :
                      OrderOf(raw[j]) < OrderOf(raw[i]) => j \in done \/ raw[j].type = "OTHER"
                /\ raw[i].type = "UPDATE" /\ raw[i].ref # 0 =>
                      \E j \in done : OrderOf(raw[j]) = raw[i].ref

\* What was written is what was asked for.
WritesAreMeant == WritesAreRequested /\ WritesAreConfirmed /\ WritesFollowTheNumbers

\* The user was told that the plan of m is on its way.
Promised(m) == \E t \in Threads : tpc[t] = "submit" /\ lplan[t] = m

\* A plan that is on its way to the coworker reaches them, unless the process dies
\* on that way (a restart before it is no excuse), or Slack fails.
PlansArrive ==
    \A m \in {b[1] : b \in Batches} : \A n \in 0 .. MaxCrashes :
        Promised(m) /\ crashes = n ~>
            \/ \E b \in Batches : b[1] = m /\ card[b] # "none"
            \/ crashes > n \/ SlackFails
=============================================================================
