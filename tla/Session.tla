------------------------------- MODULE Session ------------------------------
(***************************************************************************)
(* The conversation of one user: the session store (orchestrator/session), *)
(* the state machine that walks a request from proposal to plan to         *)
(* approval (orchestrator/core) and the two listeners that drive it,       *)
(* on_message and on_reset (slack/listener).                               *)
(*                                                                         *)
(* Sessions of different users share nothing, so one user is modelled.     *)
(* Bolt runs each event on a thread of its own: a handler that waits for   *)
(* Claude or Salesforce overlaps with the user's next message.  Handlers   *)
(* interleave at every access to the session.  Readers take no lock:       *)
(* get_session hands out the session object itself, so a reader sees what  *)
(* a writer has done so far, and clear_session replaces the object, so     *)
(* objects are numbered and a handler may hold an old one.                 *)
(***************************************************************************)
EXTENDS Naturals, FiniteSets

CONSTANTS
    Threads,        \* the threads of the Bolt listener pool
    MaxTurns,       \* bound: messages of a user who waits for each answer
    MaxMessages,    \* bound: messages once two handlers have overlapped
    MaxSessions,    \* bound: session objects, one more per /reset or restart
    CallsFail,      \* whether Claude and Salesforce calls may raise
    SlackFails      \* whether say() may raise

ASSUME SessionAssumption == /\ MaxTurns \in Nat
                            /\ MaxMessages \in 0 .. MaxTurns
                            /\ MaxSessions \in Nat \ {0}
                            /\ CallsFail \in BOOLEAN
                            /\ SlackFails \in BOOLEAN

Messages == 1 .. MaxTurns

Sessions == 1 .. MaxSessions

\* No intent and no plan: an intent is known by the message it was classified
\* from, and a plan by the intent it was generated for.
None == 0

VARIABLES
    gen,        \* the session object get_session returns
    state,      \* its state, and that of every object before it
    intent,
    plan,
    talked,     \* whether its history has a turn
    learned,    \* the intents that added to its SessionKnowledge
    org,        \* the intents whose knowledge a synthesis took in
    type        \* the intent type Claude gave a message

VARIABLES
    pc,         \* what each thread does next
    msg,        \* the message it handles
    held,       \* the session object it holds
    lintent,    \* its local variable intent
    lplan,      \* its local variable plan, then HandleResult.plan
    reply       \* HandleResult.intent_type, as far as the listener cares

(* History variables, which no step reads.                                 *)
VARIABLES
    count,      \* messages received so far
    born,       \* that number, when each session object was created
    lastAsk,    \* the last message that was taken for a request
    agreed,     \* intents the user confirmed while they were proposed
    previewed,  \* plans whose preview say() was given, arrived or not
    forwarded,  \* how many batches were created from each plan
    unsaved,    \* session objects whose knowledge was given up
    overlapped  \* whether two handlers ever ran at the same time

flow == <<state, intent, plan>>
memory == <<talked, learned, org, type>>
locals == <<msg, held, lintent, lplan, reply>>
seen == <<count, lastAsk, overlapped>>
ghosts == <<born, agreed, previewed, forwarded, unsaved>>
vars == <<gen, flow, memory, pc, locals, seen, ghosts>>

FlowState == {"idle", "proposing", "plan_shown"}

PC == {"idle", "checkProposing", "checkPlanShown", "checkIdle", "correct",
       "classify", "claude", "propose", "setIntent", "readIntent", "work",
       "readReset", "showPlan", "setPlan", "learn", "takePlan", "forwardReset",
       "say", "submit", "synthesize", "clear"}

Reply == {"none", "TEXT", "PLAN_PREVIEW", "SEND_FOR_APPROVAL"}

\* The local variables a program point relies on.
Needs(t) ==
    /\ pc[t] \notin {"idle", "synthesize", "clear"} => msg[t] # None
    /\ pc[t] # "idle" => held[t] # None
    /\ pc[t] \in {"work", "readReset", "showPlan", "setPlan", "learn"} =>
          lintent[t] # None
    /\ pc[t] \in {"showPlan", "setPlan", "submit"} => lplan[t] # None

TypeOK ==
    /\ gen \in Sessions
    /\ state \in [Sessions -> FlowState]
    /\ intent \in [Sessions -> Messages \cup {None}]
    /\ plan \in [Sessions -> Messages \cup {None}]
    /\ talked \in [Sessions -> BOOLEAN]
    /\ learned \in [Sessions -> SUBSET Messages]
    /\ org \subseteq Messages
    /\ type \in [Messages -> {"none", "READ", "WRITE"}]
    /\ pc \in [Threads -> PC]
    /\ \A t \in Threads : Needs(t)
    /\ msg \in [Threads -> Messages \cup {None}]
    /\ held \in [Threads -> Sessions \cup {None}]
    /\ lintent \in [Threads -> Messages \cup {None}]
    /\ lplan \in [Threads -> Messages \cup {None}]
    /\ reply \in [Threads -> Reply]
    /\ count \in 0 .. MaxTurns
    /\ born \in [Sessions -> 0 .. MaxTurns]
    /\ lastAsk \in Messages \cup {None}
    /\ agreed \subseteq Messages \cup {None}
    /\ previewed \subseteq Messages \cup {None}
    /\ forwarded \in [Messages -> Nat]
    /\ unsaved \subseteq Sessions
    /\ overlapped \in BOOLEAN

Init ==
    /\ gen = 1
    /\ state = [s \in Sessions |-> "idle"]
    /\ intent = [s \in Sessions |-> None]
    /\ plan = [s \in Sessions |-> None]
    /\ talked = [s \in Sessions |-> FALSE]
    /\ learned = [s \in Sessions |-> {}]
    /\ org = {}
    /\ type = [m \in Messages |-> "none"]
    /\ pc = [t \in Threads |-> "idle"]
    /\ msg = [t \in Threads |-> None]
    /\ held = [t \in Threads |-> None]
    /\ lintent = [t \in Threads |-> None]
    /\ lplan = [t \in Threads |-> None]
    /\ reply = [t \in Threads |-> "none"]
    /\ count = 0
    /\ born = [s \in Sessions |-> 0]
    /\ lastAsk = None
    /\ agreed = {}
    /\ previewed = {}
    /\ forwarded = [m \in Messages |-> 0]
    /\ unsaved = {}
    /\ overlapped = FALSE

-----------------------------------------------------------------------------
(* Threads.                                                                *)

At(t, p) == pc[t] = p

Idle(t) == At(t, "idle")

Goto(t, p) == pc' = [pc EXCEPT ![t] = p]

Answer(t, r) == Goto(t, "say") /\ reply' = [reply EXCEPT ![t] = r]

Busy == \E t \in Threads : ~ Idle(t)

Resetting == {t \in Threads : At(t, "synthesize") \/ At(t, "clear")}

Finish(t) ==
    /\ Goto(t, "idle")
    /\ msg' = [msg EXCEPT ![t] = None]
    /\ held' = [held EXCEPT ![t] = None]
    /\ lintent' = [lintent EXCEPT ![t] = None]
    /\ lplan' = [lplan EXCEPT ![t] = None]
    /\ reply' = [reply EXCEPT ![t] = "none"]

\* An exception inside handle(): on_message answers "Something went wrong".
Fail(t) == CallsFail /\ Answer(t, "TEXT")

-----------------------------------------------------------------------------
(* The session store.  Every function takes the lock, and acts on the      *)
(* current object, whichever one the caller holds.  update_session assigns *)
(* the state before the intent or the plan, and readers see it in between; *)
(* the other functions look atomic, even to readers: reset_to_idle assigns *)
(* the state first, and who read the state before may as well read the     *)
(* intent or the plan before.                                              *)

Unlocked == \A t \in Threads : ~ At(t, "setIntent") /\ ~ At(t, "setPlan")

\* get_session
Hold(t) == Unlocked /\ held' = [held EXCEPT ![t] = gen]

\* update_session(state=...), up to its first assignment.
SetState(st) == Unlocked /\ state' = [state EXCEPT ![gen] = st]

\* Mutant: the state is left as it was.
ResetToIdle_KeepsState ==
    /\ Unlocked
    /\ intent' = [intent EXCEPT ![gen] = None]
    /\ plan' = [plan EXCEPT ![gen] = None]
    /\ UNCHANGED state

ResetToIdle ==
    /\ Unlocked
    /\ state' = [state EXCEPT ![gen] = "idle"]
    /\ intent' = [intent EXCEPT ![gen] = None]
    /\ plan' = [plan EXCEPT ![gen] = None]

\* clear_session: the next object, untouched so far, takes the place of gen.
ReplaceSession ==
    /\ gen' = gen + 1
    /\ born' = [born EXCEPT ![gen + 1] = count]

-----------------------------------------------------------------------------
(* on_message and handle(): which way a message goes.  A message is either *)
(* one of the confirmation words ("yes") or a request ("ask").             *)

Receive(t, kind) ==
    /\ Idle(t)
    /\ count < IF overlapped \/ Busy THEN MaxMessages ELSE MaxTurns
    /\ count' = count + 1
    /\ overlapped' = (overlapped \/ Busy)
    /\ msg' = [msg EXCEPT ![t] = count + 1]
    /\ Hold(t)
    /\ Goto(t, IF kind = "ask" THEN "checkIdle" ELSE "checkProposing")
    /\ UNCHANGED <<gen, flow, memory, lintent, lplan, reply, lastAsk, ghosts>>

CheckProposing(t) ==
    /\ At(t, "checkProposing")
    /\ \/ /\ state[held[t]] = "proposing"
          /\ agreed' = agreed \cup {intent[held[t]]}
          /\ Goto(t, "readIntent")
       \/ /\ state[held[t]] # "proposing"
          /\ Goto(t, "checkPlanShown")
          /\ UNCHANGED agreed
    /\ UNCHANGED <<gen, flow, memory, locals, seen, born, previewed, forwarded,
                   unsaved>>

CheckPlanShown(t) ==
    /\ At(t, "checkPlanShown")
    /\ Goto(t, IF state[held[t]] = "plan_shown" THEN "takePlan" ELSE "checkIdle")
    /\ UNCHANGED <<gen, flow, memory, locals, seen, ghosts>>

\* Mutant: a correction is classified without dropping what was proposed.
CheckIdle_KeepsFlow(t) ==
    /\ At(t, "checkIdle")
    /\ lastAsk' = msg[t]
    /\ Goto(t, "classify")
    /\ UNCHANGED <<gen, flow, memory, locals, count, overlapped, ghosts>>

CheckIdle(t) ==
    /\ At(t, "checkIdle")
    /\ lastAsk' = msg[t]
    /\ Goto(t, IF state[held[t]] = "idle" THEN "classify" ELSE "correct")
    /\ UNCHANGED <<gen, flow, memory, locals, count, overlapped, ghosts>>

Correct(t) ==
    /\ At(t, "correct")
    /\ ResetToIdle
    /\ Goto(t, "classify")
    /\ UNCHANGED <<gen, memory, locals, seen, ghosts>>

-----------------------------------------------------------------------------
(* _classify_and_propose: Claude says what the request is.                 *)

Classify(t) ==
    /\ At(t, "classify")
    /\ Hold(t)
    /\ Goto(t, "claude")
    /\ UNCHANGED <<gen, flow, memory, msg, lintent, lplan, reply, seen, ghosts>>

\* READ and WRITE are proposed; MIXED and UNKNOWN are answered at once.
Classified(t) ==
    /\ At(t, "claude")
    /\ \/ Fail(t) /\ UNCHANGED <<talked, type>>
       \/ Answer(t, "TEXT") /\ UNCHANGED <<talked, type>>
       \/ /\ \E k \in {"READ", "WRITE"} : type' = [type EXCEPT ![msg[t]] = k]
          /\ talked' = [talked EXCEPT ![held[t]] = TRUE]
          /\ Goto(t, "propose")
          /\ UNCHANGED reply
    /\ UNCHANGED <<gen, flow, learned, org, msg, held, lintent, lplan, seen,
                   ghosts>>

Propose(t) ==
    /\ At(t, "propose")
    /\ SetState("proposing")
    /\ Goto(t, "setIntent")
    /\ UNCHANGED <<gen, intent, plan, memory, locals, seen, ghosts>>

SetIntent(t) ==
    /\ At(t, "setIntent")
    /\ intent' = [intent EXCEPT ![gen] = msg[t]]
    /\ Answer(t, "TEXT")
    /\ UNCHANGED <<gen, state, plan, memory, msg, held, lintent, lplan, seen,
                   ghosts>>

-----------------------------------------------------------------------------
(* _execute_confirmed: the request is carried out.  The intent is read     *)
(* again, so it may be gone, or another one, by now.                       *)

ReadIntent(t) ==
    /\ At(t, "readIntent")
    /\ lintent' = [lintent EXCEPT ![t] = intent[held[t]]]
    /\ IF intent[held[t]] = None
         THEN Answer(t, "TEXT")
         ELSE Goto(t, "work") /\ UNCHANGED reply
    /\ UNCHANGED <<gen, flow, memory, msg, held, lplan, seen, ghosts>>

Learn(t) == learned' = [learned EXCEPT ![held[t]] = @ \cup {lintent[t]}]

\* Mutant: a READ that is answered falls through to the WRITE path.
Work_FallsThrough(t) ==
    /\ At(t, "work")
    /\ lplan' = [lplan EXCEPT ![t] = lintent[t]]
    /\ Goto(t, "showPlan")
    /\ UNCHANGED <<gen, flow, memory, msg, held, lintent, reply, seen, ghosts>>

\* handle_read, or generate_plan.  A read may leave knowledge behind.
Work(t) ==
    /\ At(t, "work")
    /\ \/ Fail(t) /\ UNCHANGED <<talked, learned, lplan>>
       \/ /\ type[lintent[t]] = "READ"
          /\ talked' = [talked EXCEPT ![held[t]] = TRUE]
          /\ Learn(t) \/ UNCHANGED learned
          /\ Goto(t, "readReset")
          /\ UNCHANGED <<lplan, reply>>
       \/ /\ type[lintent[t]] = "WRITE"
          /\ lplan' = [lplan EXCEPT ![t] = lintent[t]]
          /\ Goto(t, "showPlan")
          /\ UNCHANGED <<talked, learned, reply>>
    /\ UNCHANGED <<gen, flow, org, type, msg, held, lintent, seen, ghosts>>

\* A READ answer ends the flow.
ReadReset(t) ==
    /\ At(t, "readReset")
    /\ ResetToIdle
    /\ Answer(t, "TEXT")
    /\ UNCHANGED <<gen, memory, msg, held, lintent, lplan, seen, ghosts>>

\* Mutant: the state is set on the object in hand.
ShowPlan_OnHeld(t) ==
    /\ At(t, "showPlan")
    /\ Unlocked
    /\ state' = [state EXCEPT ![held[t]] = "plan_shown"]
    /\ Goto(t, "setPlan")
    /\ UNCHANGED <<gen, intent, plan, memory, locals, seen, ghosts>>

ShowPlan(t) ==
    /\ At(t, "showPlan")
    /\ SetState("plan_shown")
    /\ Goto(t, "setPlan")
    /\ UNCHANGED <<gen, intent, plan, memory, locals, seen, ghosts>>

\* Mutant: update_session calls get_session, whose lock it already holds.
SetPlan_TakesLock(t) ==
    /\ At(t, "setPlan")
    /\ Unlocked
    /\ plan' = [plan EXCEPT ![gen] = lplan[t]]
    /\ Goto(t, "learn")
    /\ UNCHANGED <<gen, state, intent, memory, locals, seen, ghosts>>

SetPlan(t) ==
    /\ At(t, "setPlan")
    /\ plan' = [plan EXCEPT ![gen] = lplan[t]]
    /\ Goto(t, "learn")
    /\ UNCHANGED <<gen, state, intent, memory, locals, seen, ghosts>>

\* The plan's risks and pre-flight issues, if any, become knowledge.
LearnRisks(t) ==
    /\ At(t, "learn")
    /\ Learn(t) \/ UNCHANGED learned
    /\ Answer(t, "PLAN_PREVIEW")
    /\ UNCHANGED <<gen, flow, talked, org, type, msg, held, lintent, lplan, seen,
                   ghosts>>

-----------------------------------------------------------------------------
(* The plan is confirmed: take it, reset the session, tell the user, and   *)
(* only then create the batch.                                             *)

TakePlan(t) ==
    /\ At(t, "takePlan")
    /\ lplan' = [lplan EXCEPT ![t] = plan[held[t]]]
    /\ talked' = [talked EXCEPT ![held[t]] = TRUE]
    /\ Goto(t, "forwardReset")
    /\ UNCHANGED <<gen, flow, learned, org, type, msg, held, lintent, reply, seen,
                   ghosts>>

\* Mutant: the session keeps the plan it has forwarded.
ForwardReset_KeepsPlan(t) ==
    /\ At(t, "forwardReset")
    /\ Answer(t, "SEND_FOR_APPROVAL")
    /\ UNCHANGED <<gen, flow, memory, msg, held, lintent, lplan, seen, ghosts>>

ForwardReset(t) ==
    /\ At(t, "forwardReset")
    /\ ResetToIdle
    /\ Answer(t, "SEND_FOR_APPROVAL")
    /\ UNCHANGED <<gen, memory, msg, held, lintent, lplan, seen, ghosts>>

\* Mutant: a batch is created from whatever plan there is.
Say_AnyPlan(t) ==
    /\ At(t, "say")
    /\ IF reply[t] = "SEND_FOR_APPROVAL"
         THEN Goto(t, "submit") /\ UNCHANGED locals
         ELSE Finish(t)
    /\ UNCHANGED <<gen, flow, memory, seen, ghosts>>

\* A say() that raises ends on_message: nothing is forwarded.
Say(t) ==
    /\ At(t, "say")
    /\ previewed' = IF reply[t] = "PLAN_PREVIEW"
                      THEN previewed \cup {lplan[t]} ELSE previewed
    /\ \/ /\ reply[t] = "SEND_FOR_APPROVAL"
          /\ lplan[t] # None
          /\ Goto(t, "submit")
          /\ UNCHANGED locals
       \/ /\ ~ (reply[t] = "SEND_FOR_APPROVAL" /\ lplan[t] # None)
          /\ Finish(t)
       \/ SlackFails /\ Finish(t)
    /\ UNCHANGED <<gen, flow, memory, seen, born, agreed, forwarded, unsaved>>

\* create_batch: where ApprovalFlow takes over.
Submit(t) ==
    /\ At(t, "submit")
    /\ forwarded' = [forwarded EXCEPT ![lplan[t]] = @ + 1]
    /\ Finish(t)
    /\ UNCHANGED <<gen, flow, memory, seen, born, agreed, previewed, unsaved>>

-----------------------------------------------------------------------------
(* on_reset and end_session; and a restart, which persists nothing.        *)

StartReset(t) ==
    /\ Idle(t)
    /\ gen + Cardinality(Resetting) < MaxSessions
    /\ Hold(t)
    /\ overlapped' = (overlapped \/ Busy)
    /\ Goto(t, "synthesize")
    /\ UNCHANGED <<gen, flow, memory, msg, lintent, lplan, reply, count, lastAsk,
                   ghosts>>

\* Mutant: an empty history is taken for an empty session.
Synthesize_HistoryOnly(t) ==
    /\ At(t, "synthesize")
    /\ org' = org
    /\ Goto(t, "clear")
    /\ UNCHANGED <<gen, flow, talked, learned, type, locals, seen, ghosts>>

\* Best effort: a failed synthesis does not keep the session alive.
Synthesize(t) ==
    /\ At(t, "synthesize")
    /\ LET s == held[t] IN
       \/ /\ talked[s] \/ learned[s] # {}
          /\ org' = org \cup learned[s]
          /\ UNCHANGED unsaved
       \/ /\ talked[s] \/ learned[s] # {}
          /\ CallsFail
          /\ unsaved' = unsaved \cup {s}
          /\ UNCHANGED org
       \/ /\ ~ talked[s] /\ learned[s] = {}
          /\ UNCHANGED <<org, unsaved>>
    /\ Goto(t, "clear")
    /\ UNCHANGED <<gen, flow, talked, learned, type, locals, seen, born, agreed,
                   previewed, forwarded>>

Clear(t) ==
    /\ At(t, "clear")
    /\ Unlocked
    /\ gen < MaxSessions       \* as StartReset has seen to
    /\ ReplaceSession
    /\ Finish(t)
    /\ UNCHANGED <<flow, memory, seen, agreed, previewed, forwarded, unsaved>>

Restart ==
    /\ gen < MaxSessions
    /\ ReplaceSession
    /\ unsaved' = unsaved \cup {gen}
    /\ pc' = [t \in Threads |-> "idle"]
    /\ msg' = [t \in Threads |-> None]
    /\ held' = [t \in Threads |-> None]
    /\ lintent' = [t \in Threads |-> None]
    /\ lplan' = [t \in Threads |-> None]
    /\ reply' = [t \in Threads |-> "none"]
    /\ UNCHANGED <<flow, memory, seen, agreed, previewed, forwarded>>

-----------------------------------------------------------------------------

Event(t) == Receive(t, "yes") \/ Receive(t, "ask") \/ StartReset(t)

\* All that a handler does by itself; Submit hands over to ApprovalFlow.
Converse(t) ==
    \/ CheckProposing(t) \/ CheckPlanShown(t) \/ CheckIdle(t) \/ Correct(t)
    \/ Classify(t) \/ Classified(t) \/ Propose(t) \/ SetIntent(t)
    \/ ReadIntent(t) \/ Work(t) \/ ReadReset(t)
    \/ ShowPlan(t) \/ SetPlan(t) \/ LearnRisks(t)
    \/ TakePlan(t) \/ ForwardReset(t) \/ Say(t)
    \/ Synthesize(t) \/ Clear(t)

Handler(t) == Converse(t) \/ Submit(t)

Next == (\E t \in Threads : Event(t) \/ Handler(t)) \/ Restart

Spec == Init /\ [][Next]_vars

\* Every call a handler makes returns or raises, and the lock is held for
\* moments.
FairSpec == Spec /\ \A t \in Threads : WF_vars(Handler(t))

-----------------------------------------------------------------------------
(* Properties of every interleaving.                                       *)

\* A session that waits for a yes has what the yes is about: the state and its
\* intent or plan agree whenever the lock is free.
WaitsForSomething ==
    Unlocked => /\ state[gen] = "proposing" => intent[gen] # None
                /\ state[gen] = "plan_shown" => plan[gen] # None

\* Only a request classified as a WRITE ever becomes a batch.
OnlyWritesAreForwarded ==
    \A m \in Messages : forwarded[m] > 0 => type[m] = "WRITE"

\* A session object that was replaced never changes its flow again: late steps
\* of the handlers that hold it go to the current object.
ReplacedSessionsAreFrozen ==
    [][\A s \in Sessions : s < gen =>
          <<state'[s], intent'[s], plan'[s]>> = <<state[s], intent[s], plan[s]>>]_vars

(* What a user who waits for each answer can rely on, part by part.        *)

\* No plan becomes two batches.
ForwardedAtMostOnce == \A m \in Messages : forwarded[m] <= 1

\* What is forwarded was given to say() before, as a preview for the user.
ForwardedWasPreviewed == \A m \in Messages : forwarded[m] > 0 => m \in previewed

\* A plan is only made for a proposal the user agreed to.
PlannedWasAgreed == \A s \in Sessions : plan[s] # None => plan[s] \in agreed

\* The plan on its way to the coworker is the user's last request: a correction
\* leaves nothing of what it corrects to be confirmed.
ForwardedIsLatest == \A t \in Threads : At(t, "submit") => lplan[t] = lastAsk

\* A session object knows no request from before its creation: clear_session is
\* the "full wipe" its documentation promises (session.py:426).
ResetForgets ==
    \A s \in Sessions :
        /\ intent[s] # None => intent[s] > born[s]
        /\ plan[s] # None => plan[s] > born[s]

\* What a session learned went into a synthesis before it is replaced,
\* unless the synthesis failed or the process died.
KnowledgeIsSaved ==
    \A s \in Sessions : s < gen /\ s \notin unsaved => learned[s] \subseteq org

\* A user who waits for each answer has a plan sent to the coworker once, after
\* its preview was sent, and after agreeing to the proposal it was made for.
OneYesOneBatch ==
    ~ overlapped => ForwardedAtMostOnce /\ ForwardedWasPreviewed /\ PlannedWasAgreed

\* ... and has a correction taken for one (core.py:174).
CorrectionsWin == ~ overlapped => ForwardedIsLatest

\* ... and starts afresh after a /reset, what was learned kept (core.py:97).
ResetIsClean == ~ overlapped => ResetForgets /\ KnowledgeIsSaved

(* Liveness.                                                               *)

\* Every message and every /reset is dealt with, whatever raises on the way.
EventsAreHandled == \A t \in Threads : ~ Idle(t) ~> Idle(t)
=============================================================================
