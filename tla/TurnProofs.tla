----------------------------- MODULE TurnProofs -----------------------------
(***************************************************************************)
(* Theorems about Session for a user who waits for each answer: as long as *)
(* no two handlers have run at the same time, the one that runs holds the  *)
(* current session object, finds there what the handler before it left,    *)
(* and the properties of OneYesOneBatch, CorrectionsWin and ResetIsClean   *)
(* follow, whatever raises and wherever the process restarts.              *)
(***************************************************************************)
EXTENDS SessionProofs

\* One handler at a time, which holds the current session object, and objects
\* that have not been handed out are as they were made.
SoloInv ==
    /\ \A t, u \in Threads : ~ Idle(t) /\ ~ Idle(u) => t = u
    /\ \A t \in Threads : IF Idle(t) THEN lintent[t] = None /\ lplan[t] = None
                                     ELSE held[t] = gen
    /\ \A s \in Sessions : s > gen =>
          intent[s] = None /\ plan[s] = None /\ learned[s] = {}

\* The points of a handler before its request is proposed.
Asking == Unclassified \cup {"propose", "setIntent"}

Accepted == {"classify", "claude", "propose", "setIntent"}

\* What the session keeps is the user's last request, except while a
\* correction is on its way to drop it.
Latest(m) == m \in {None, lastAsk}

FlowInv ==
    /\ state[gen] = "idle" => intent[gen] = None /\ plan[gen] = None
    /\ state[gen] = "proposing" => plan[gen] = None
    /\ \/ \E t \in Threads : At(t, "correct")
       \/ Latest(intent[gen]) /\ Latest(plan[gen])
    /\ \A t \in Threads :
          /\ Latest(lintent[t]) /\ Latest(lplan[t])
          /\ pc[t] \in Asking => lintent[t] = None /\ lplan[t] = None
          /\ pc[t] \in Accepted \cup {"correct"} => msg[t] = lastAsk
          /\ pc[t] \in Accepted => intent[gen] = None /\ plan[gen] = None

Forwarding(t) ==
    At(t, "submit") \/ (At(t, "say") /\ reply[t] = "SEND_FOR_APPROVAL")

\* What the session, or the handler, holds has not been forwarded, and came
\* after the session began.
Open(m) == m # None => forwarded[m] = 0 /\ born[gen] < m /\ m <= count

OpenInv ==
    /\ Open(intent[gen]) /\ Open(plan[gen])
    /\ \A t \in Threads :
          /\ Open(lintent[t]) /\ Open(lplan[t])
          /\ pc[t] \in Asking => Open(msg[t])
          /\ Forwarding(t) => intent[gen] = None /\ plan[gen] = None
    /\ \A m \in Messages : forwarded[m] > 0 => m <= count
    /\ \A s \in Sessions : born[s] <= count
    /\ ForwardedAtMostOnce
    /\ ResetForgets

ForwardedWasAgreed == \A m \in Messages : forwarded[m] > 0 => m \in agreed

AgreedInv ==
    /\ \A t \in Threads :
          /\ At(t, "readIntent") => intent[gen] \in agreed
          /\ lintent[t] # None => lintent[t] \in agreed
          /\ lplan[t] # None => lplan[t] \in agreed
    /\ PlannedWasAgreed
    /\ ForwardedWasAgreed

Previewing(t) == At(t, "learn") \/ (At(t, "say") /\ reply[t] = "PLAN_PREVIEW")

PreviewInv ==
    /\ \/ plan[gen] \in previewed \cup {None}
       \/ \E t \in Threads : Previewing(t) /\ lplan[t] = plan[gen]
    /\ \A t \in Threads : Forwarding(t) \/ At(t, "forwardReset") =>
          lplan[t] \in previewed \cup {None}
    /\ ForwardedWasPreviewed

SavedInv ==
    /\ \A t \in Threads : At(t, "clear") => gen \in unsaved \/ learned[gen] \subseteq org
    /\ KnowledgeIsSaved

TurnInv ==
    ~ overlapped => /\ SoloInv /\ FlowInv /\ OpenInv
                    /\ AgreedInv /\ PreviewInv /\ SavedInv

-----------------------------------------------------------------------------
(* One handler at a time.                                                  *)

LEMMA OverlapStays ==
  ASSUME [Next]_vars, overlapped
  PROVE  overlapped'
  BY DEF Next, Event, Handler, Converse, vars, seen, Receive, StartReset,
     CheckProposing, CheckPlanShown, CheckIdle, Correct, Classify, Classified,
     Propose, SetIntent, ReadIntent, Work, ReadReset, ShowPlan, SetPlan, LearnRisks,
     TakePlan, ForwardReset, Say, Submit, Synthesize, Clear, Restart

\* A step of one thread leaves the locals of the others alone.
LEMMA OthersStay ==
  ASSUME TypeOK, NEW t \in Threads, Event(t) \/ Handler(t), NEW u \in Threads, u # t
  PROVE  /\ pc'[u] = pc[u] /\ msg'[u] = msg[u] /\ held'[u] = held[u]
         /\ lintent'[u] = lintent[u] /\ lplan'[u] = lplan[u] /\ reply'[u] = reply[u]
  BY DEF TypeOK, Event, Handler, Converse, locals, Receive, StartReset,
     CheckProposing, CheckPlanShown, CheckIdle, Correct, Classify, Classified,
     Propose, SetIntent, ReadIntent, Work, ReadReset, ShowPlan, SetPlan, LearnRisks,
     TakePlan, ForwardReset, Say, Submit, Synthesize, Clear, Goto, Answer, Fail,
     Finish, Hold

\* A handler at work is the only one, and holds the current object; an event is
\* only taken when there is none.
LEMMA Alone ==
  ASSUME TypeOK, SoloInv, ~ overlapped', NEW t \in Threads, Event(t) \/ Handler(t)
  PROVE  /\ \A u \in Threads \ {t} : Idle(u)
         /\ Event(t) => Idle(t)
         /\ Handler(t) => ~ Idle(t) /\ held[t] = gen
  <1>1. CASE Event(t)
    BY <1>1 DEF Event, Receive, StartReset, Busy, At, Idle, Handler, Converse,
       CheckProposing, CheckPlanShown, CheckIdle, Correct, Classify, Classified,
       Propose, SetIntent, ReadIntent, Work, ReadReset, ShowPlan, SetPlan,
       LearnRisks, TakePlan, ForwardReset, Say, Submit, Synthesize, Clear
  <1>2. CASE Handler(t)
    <2>1. ~ Idle(t)
      BY <1>2 DEF At, Idle, Handler, Converse,
         CheckProposing, CheckPlanShown, CheckIdle, Correct, Classify, Classified,
         Propose, SetIntent, ReadIntent, Work, ReadReset, ShowPlan, SetPlan,
         LearnRisks, TakePlan, ForwardReset, Say, Submit, Synthesize, Clear
    <2>2. held[t] = gen /\ \A u \in Threads \ {t} : Idle(u)
      BY <2>1 DEF SoloInv
    <2>3. ~ Event(t)
      BY <2>1 DEF Event, Receive, StartReset
    <2> QED BY <2>1, <2>2, <2>3
  <1> QED BY <1>1, <1>2

LEMMA SoloStep ==
  ASSUME TypeOK, SoloInv, ~ overlapped', [Next]_vars
  PROVE  SoloInv'
  <1> USE Numbers DEF At, Idle, Goto
  <1>1. ASSUME NEW t \in Threads, Event(t) \/ Handler(t)
        PROVE  SoloInv'
    <2>1. \A u \in Threads \ {t} :
             /\ Idle(u) /\ pc'[u] = "idle"
             /\ lintent'[u] = None /\ lplan'[u] = None
      <3>1. \A u \in Threads \ {t} : Idle(u)
        BY <1>1, Alone
      <3>2. \A u \in Threads \ {t} :
               pc'[u] = pc[u] /\ lintent'[u] = lintent[u] /\ lplan'[u] = lplan[u]
        BY <1>1, OthersStay
      <3> QED BY <3>1, <3>2 DEF SoloInv
    <2>2. IF pc'[t] = "idle" THEN lintent'[t] = None /\ lplan'[t] = None
                             ELSE held'[t] = gen'
      <3>1. CASE Event(t)
        BY <3>1 DEF Event, Receive, StartReset, Hold, TypeOK
      <3>2. CASE Handler(t)
        <4>1. held[t] = gen /\ ~ Idle(t)
          BY <1>1, <3>2, Alone
        <4> QED BY <3>2, <4>1 DEF Handler, Converse, locals, Hold, CheckProposing,
           CheckPlanShown, CheckIdle, Correct, Classify, Classified, Propose,
           SetIntent, ReadIntent, Work, ReadReset, ShowPlan, SetPlan, LearnRisks,
           TakePlan, ForwardReset, Say, Submit, Synthesize, Clear, Finish, Answer,
           Fail, TypeOK
      <3> QED BY <1>1, <3>1, <3>2
    <2>3. ASSUME NEW s \in Sessions, s > gen'
          PROVE  intent'[s] = None /\ plan'[s] = None /\ learned'[s] = {}
      <3>1. s > gen /\ s # gen /\ gen \in Sessions
        BY <1>1, <2>3 DEF Event, Handler, Converse, Receive, StartReset,
           CheckProposing, CheckPlanShown, CheckIdle, Correct, Classify, Classified,
           Propose, SetIntent, ReadIntent, Work, ReadReset, ShowPlan, SetPlan,
           LearnRisks, TakePlan, ForwardReset, Say, Submit, Synthesize, Clear,
           ReplaceSession, TypeOK
      <3>2. intent[s] = None /\ plan[s] = None /\ learned[s] = {}
        BY <3>1 DEF SoloInv
      <3>3. CASE Event(t)
        BY <3>2, <3>3 DEF Event, Receive, StartReset, flow, memory
      <3>4. CASE Handler(t)
        <4>1. held[t] # s
          BY <1>1, <3>1, <3>4, Alone
        <4> QED BY <3>1, <3>2, <3>4, <4>1 DEF Handler, Converse, flow, memory,
           CheckProposing, CheckPlanShown, CheckIdle, Correct, Classify, Classified,
           Propose, SetIntent, ReadIntent, Work, ReadReset, ShowPlan, SetPlan,
           LearnRisks, TakePlan, ForwardReset, Say, Submit, Synthesize, Clear,
           ResetToIdle, Learn, TypeOK
      <3> QED BY <1>1, <3>3, <3>4
    <2> QED BY <2>1, <2>2, <2>3 DEF SoloInv
  <1>2. CASE Restart
    <2>1. \A s \in Sessions : s > gen' => s > gen
      BY <1>2 DEF Restart, ReplaceSession, TypeOK
    <2> QED BY <1>2, <2>1 DEF SoloInv, Restart, flow, memory
  <1>3. CASE UNCHANGED vars
    BY <1>3 DEF vars, SoloInv, flow, memory, locals
  <1> QED BY <1>1, <1>2, <1>3 DEF Next

-----------------------------------------------------------------------------
(* The request the session is about.  With one handler at work, FlowInv is *)
(* about that handler and the current object.                              *)

FlowAt(t) ==
    /\ state[gen] = "idle" => intent[gen] = None /\ plan[gen] = None
    /\ state[gen] = "proposing" => plan[gen] = None
    /\ At(t, "correct") \/ (Latest(intent[gen]) /\ Latest(plan[gen]))
    /\ Latest(lintent[t]) /\ Latest(lplan[t])
    /\ pc[t] \in Asking => lintent[t] = None /\ lplan[t] = None
    /\ pc[t] \in Accepted \cup {"correct"} => msg[t] = lastAsk
    /\ pc[t] \in Accepted => intent[gen] = None /\ plan[gen] = None

LEMMA FlowFocus ==
  ASSUME SoloInv, NEW t \in Threads, \A u \in Threads \ {t} : Idle(u)
  PROVE  FlowInv <=> FlowAt(t)
  BY DEF SoloInv, FlowInv, FlowAt, Idle, At, Asking, Accepted, Unclassified, Latest

LEMMA FlowStep ==
  ASSUME TypeOK, WaitInv, SoloInv, FlowInv, ~ overlapped', [Next]_vars
  PROVE  FlowInv'
  <1> USE Numbers
      DEF At, Idle, Goto, Latest, Asking, Accepted, Unclassified, TypeOK, FlowState,
          flow, memory, locals, seen, ghosts
  <1>1. ASSUME NEW t \in Threads, Handler(t)
        PROVE  FlowAt(t)'
    <2>0. FlowAt(t) /\ held[t] = gen
      BY <1>1, Alone, FlowFocus
    <2>lock. /\ pc[t] = "setIntent" => state[gen] = "proposing"
             /\ pc[t] = "setPlan" => state[gen] = "plan_shown"
      BY DEF WaitInv, LockInv
    <2>1. CASE CheckProposing(t)
      BY <2>0, <2>1 DEF FlowAt, CheckProposing
    <2>2. CASE CheckPlanShown(t)
      BY <2>0, <2>2 DEF FlowAt, CheckPlanShown
    <2>3. CASE CheckIdle(t)
      BY <2>0, <2>3 DEF FlowAt, CheckIdle
    <2>4. CASE Correct(t)
      BY <2>0, <2>4 DEF FlowAt, Correct, ResetToIdle
    <2>5. CASE Classify(t)
      BY <2>0, <2>5 DEF FlowAt, Classify, Hold
    <2>6. CASE Classified(t)
      BY <2>0, <2>6 DEF FlowAt, Classified, Fail, Answer
    <2>7. CASE Propose(t)
      BY <2>0, <2>7 DEF FlowAt, Propose, SetState
    <2>8. CASE SetIntent(t)
      BY <2>0, <2>lock, <2>8 DEF FlowAt, SetIntent, Answer
    <2>9. CASE ReadIntent(t)
      BY <2>0, <2>9 DEF FlowAt, ReadIntent, Answer
    <2>10. CASE Work(t)
      BY <2>0, <2>10 DEF FlowAt, Work, Fail, Answer, Learn
    <2>11. CASE ReadReset(t)
      BY <2>0, <2>11 DEF FlowAt, ReadReset, ResetToIdle, Answer
    <2>12. CASE ShowPlan(t)
      BY <2>0, <2>12 DEF FlowAt, ShowPlan, SetState
    <2>13. CASE SetPlan(t)
      BY <2>0, <2>lock, <2>13 DEF FlowAt, SetPlan
    <2>14. CASE LearnRisks(t)
      BY <2>0, <2>14 DEF FlowAt, LearnRisks, Answer, Learn
    <2>15. CASE TakePlan(t)
      BY <2>0, <2>15 DEF FlowAt, TakePlan
    <2>16. CASE ForwardReset(t)
      BY <2>0, <2>16 DEF FlowAt, ForwardReset, ResetToIdle, Answer
    <2>17. CASE Say(t)
      BY <2>0, <2>17 DEF FlowAt, Say, Finish
    <2>18. CASE Submit(t)
      BY <2>0, <2>18 DEF FlowAt, Submit, Finish
    <2>19. CASE Synthesize(t)
      BY <2>0, <2>19 DEF FlowAt, Synthesize
    <2>20. CASE Clear(t)
      BY <2>0, <2>20 DEF FlowAt, Clear, ReplaceSession, Finish, SoloInv
    <2> QED
      BY <1>1, <2>1, <2>2, <2>3, <2>4, <2>5, <2>6, <2>7, <2>8, <2>9, <2>10,
         <2>11, <2>12, <2>13, <2>14, <2>15, <2>16, <2>17, <2>18, <2>19, <2>20
         DEF Handler, Converse
  <1>2. ASSUME NEW t \in Threads, Event(t)
        PROVE  FlowAt(t)'
    BY <1>2, Alone DEF FlowInv, FlowAt, Event, Receive, StartReset, SoloInv
  <1>3. ASSUME NEW t \in Threads, Event(t) \/ Handler(t)
        PROVE  FlowInv'
    <2>1. \A u \in Threads \ {t} : Idle(u)'
      BY <1>3, Alone, OthersStay
    <2>2. SoloInv'
      BY SoloStep
    <2>3. FlowAt(t)'
      BY <1>1, <1>2, <1>3
    <2> QED BY <2>1, <2>2, <2>3 DEF FlowInv, FlowAt, SoloInv
  <1>4. CASE Restart
    BY <1>4 DEF Restart, ReplaceSession, SoloInv, FlowInv
  <1>5. CASE UNCHANGED vars
    BY <1>5 DEF vars, FlowInv
  <1> QED BY <1>3, <1>4, <1>5 DEF Next

-----------------------------------------------------------------------------
(* What is still open.                                                     *)

OpenAt(t) ==
    /\ Open(intent[gen]) /\ Open(plan[gen])
    /\ Open(lintent[t]) /\ Open(lplan[t])
    /\ pc[t] \in Asking => Open(msg[t])
    /\ Forwarding(t) => intent[gen] = None /\ plan[gen] = None
    /\ \A m \in Messages : forwarded[m] > 0 => m <= count
    /\ \A s \in Sessions : born[s] <= count
    /\ ForwardedAtMostOnce
    /\ ResetForgets

LEMMA OpenStep ==
  ASSUME TypeOK, SoloInv, OpenInv, ~ overlapped', [Next]_vars
  PROVE  OpenInv'
  <1> USE Numbers
      DEF At, Idle, Goto, Open, Forwarding, Asking, Unclassified, TypeOK, Needs,
          ForwardedAtMostOnce, ResetForgets, flow, memory, locals, seen, ghosts
  <1>1. ASSUME NEW t \in Threads, Handler(t)
        PROVE  OpenAt(t)'
    <2>0. OpenAt(t) /\ held[t] = gen
      BY <1>1, Alone DEF OpenInv, OpenAt
    <2>1. CASE CheckProposing(t)
      BY <2>0, <2>1 DEF OpenAt, CheckProposing
    <2>2. CASE CheckPlanShown(t)
      BY <2>0, <2>2 DEF OpenAt, CheckPlanShown
    <2>3. CASE CheckIdle(t)
      BY <2>0, <2>3 DEF OpenAt, CheckIdle
    <2>4. CASE Correct(t)
      BY <2>0, <2>4 DEF OpenAt, Correct, ResetToIdle
    <2>5. CASE Classify(t)
      BY <2>0, <2>5 DEF OpenAt, Classify, Hold
    <2>6. CASE Classified(t)
      BY <2>0, <2>6 DEF OpenAt, Classified, Fail, Answer
    <2>7. CASE Propose(t)
      BY <2>0, <2>7 DEF OpenAt, Propose, SetState
    <2>8. CASE SetIntent(t)
      BY <2>0, <2>8 DEF OpenAt, SetIntent, Answer
    <2>9. CASE ReadIntent(t)
      BY <2>0, <2>9 DEF OpenAt, ReadIntent, Answer
    <2>10. CASE Work(t)
      BY <2>0, <2>10 DEF OpenAt, Work, Fail, Answer, Learn
    <2>11. CASE ReadReset(t)
      BY <2>0, <2>11 DEF OpenAt, ReadReset, ResetToIdle, Answer
    <2>12. CASE ShowPlan(t)
      BY <2>0, <2>12 DEF OpenAt, ShowPlan, SetState
    <2>13. CASE SetPlan(t)
      BY <2>0, <2>13 DEF OpenAt, SetPlan
    <2>14. CASE LearnRisks(t)
      BY <2>0, <2>14 DEF OpenAt, LearnRisks, Answer, Learn
    <2>15. CASE TakePlan(t)
      BY <2>0, <2>15 DEF OpenAt, TakePlan
    <2>16. CASE ForwardReset(t)
      BY <2>0, <2>16 DEF OpenAt, ForwardReset, ResetToIdle, Answer
    <2>17. CASE Say(t)
      BY <2>0, <2>17 DEF OpenAt, Say, Finish
    <2>18. CASE Submit(t)
      BY <2>0, <2>18 DEF OpenAt, Submit, Finish
    <2>19. CASE Synthesize(t)
      BY <2>0, <2>19 DEF OpenAt, Synthesize
    <2>20. CASE Clear(t)
      <3>1. /\ gen' = gen + 1 /\ gen + 1 \in Sessions /\ gen + 1 > gen
            /\ born' = [born EXCEPT ![gen + 1] = count]
            /\ UNCHANGED <<intent, plan, forwarded, count>>
        BY <2>20 DEF Clear, ReplaceSession
      <3>2. intent[gen + 1] = None /\ plan[gen + 1] = None
        BY <3>1 DEF SoloInv
      <3>3. pc'[t] = "idle" /\ lintent'[t] = None /\ lplan'[t] = None
        BY <2>20 DEF Clear, Finish
      <3>4. (\A s \in Sessions : born[s] <= count)' /\ ResetForgets'
        BY <2>0, <3>1, <3>2 DEF OpenAt
      <3> QED BY <2>0, <3>1, <3>2, <3>3, <3>4 DEF OpenAt
    <2> QED
      BY <1>1, <2>1, <2>2, <2>3, <2>4, <2>5, <2>6, <2>7, <2>8, <2>9, <2>10,
         <2>11, <2>12, <2>13, <2>14, <2>15, <2>16, <2>17, <2>18, <2>19, <2>20
         DEF Handler, Converse
  <1>2. ASSUME NEW t \in Threads, Event(t)
        PROVE  OpenAt(t)'
    <2>0. OpenAt(t)
      BY DEF OpenInv, OpenAt
    <2>1. CASE StartReset(t)
      BY <2>0, <2>1 DEF OpenAt, StartReset, Hold
    <2>2. CASE \E kind \in {"yes", "ask"} : Receive(t, kind)
      <3>1. /\ msg'[t] = count + 1 /\ count' = count + 1 /\ count < MaxTurns
            /\ UNCHANGED <<gen, intent, plan, lintent, lplan, forwarded, born>>
            /\ pc'[t] \in {"checkIdle", "checkProposing"}
        BY <2>2, SessionAssumption DEF Receive
      <3>2. count \in Nat /\ count + 1 \in Messages
        BY <3>1, SessionAssumption
      <3>3. \A n \in Nat : n <= count => n <= count'
        BY <3>1, <3>2
      <3>4. forwarded[count + 1] = 0
        BY <2>0, <3>2 DEF OpenAt
      <3>5. born[gen] <= count /\ born[gen] \in Nat
        BY <2>0 DEF OpenAt
      <3>6. Open(msg[t])'
        BY <3>1, <3>2, <3>4, <3>5
      <3>7. /\ Open(intent[gen])' /\ Open(plan[gen])'
            /\ Open(lintent[t])' /\ Open(lplan[t])'
        <4>1. ASSUME NEW m \in Messages \cup {None}, Open(m), m # None
              PROVE  forwarded'[m] = 0 /\ born'[gen'] < m /\ m <= count'
          BY <3>1, <3>3, <4>1
        <4> QED BY <2>0, <3>1, <4>1 DEF OpenAt
      <3>8. /\ (\A m \in Messages : forwarded[m] > 0 => m <= count)'
            /\ (\A s \in Sessions : born[s] <= count)'
        BY <2>0, <3>1, <3>3 DEF OpenAt
      <3>9. ForwardedAtMostOnce' /\ ResetForgets'
        BY <2>0, <3>1 DEF OpenAt
      <3>10. Forwarding(t)' => intent'[gen'] = None /\ plan'[gen'] = None
        BY <3>1
      <3> QED BY <3>6, <3>7, <3>8, <3>9, <3>10 DEF OpenAt
    <2> QED BY <1>2, <2>1, <2>2 DEF Event
  <1>3. ASSUME NEW t \in Threads, Event(t) \/ Handler(t)
        PROVE  OpenInv'
    <2>1. \A u \in Threads \ {t} : Idle(u)'
      BY <1>3, Alone, OthersStay
    <2>2. SoloInv'
      BY SoloStep
    <2>3. OpenAt(t)'
      BY <1>1, <1>2, <1>3
    <2> QED BY <2>1, <2>2, <2>3 DEF OpenInv, OpenAt, SoloInv
  <1>4. CASE Restart
    BY <1>4 DEF Restart, ReplaceSession, SoloInv, OpenInv
  <1>5. CASE UNCHANGED vars
    BY <1>5 DEF vars, OpenInv
  <1> QED BY <1>3, <1>4, <1>5 DEF Next

-----------------------------------------------------------------------------
(* What the user agreed to.                                                *)

AgreedAt(t) ==
    /\ At(t, "readIntent") => intent[gen] \in agreed
    /\ lintent[t] # None => lintent[t] \in agreed
    /\ lplan[t] # None => lplan[t] \in agreed
    /\ PlannedWasAgreed
    /\ ForwardedWasAgreed

LEMMA AgreedStep ==
  ASSUME TypeOK, SoloInv, AgreedInv, ~ overlapped', [Next]_vars
  PROVE  AgreedInv'
  <1> USE Numbers
      DEF At, Idle, Goto, PlannedWasAgreed, ForwardedWasAgreed, TypeOK, Needs,
          flow, memory, locals, seen, ghosts
  <1>1. ASSUME NEW t \in Threads, Handler(t)
        PROVE  AgreedAt(t)'
    <2>0. AgreedAt(t) /\ held[t] = gen
      BY <1>1, Alone DEF AgreedInv, AgreedAt
    <2>1. CASE CheckProposing(t)
      BY <2>0, <2>1 DEF AgreedAt, CheckProposing
    <2>2. CASE CheckPlanShown(t)
      BY <2>0, <2>2 DEF AgreedAt, CheckPlanShown
    <2>3. CASE CheckIdle(t)
      BY <2>0, <2>3 DEF AgreedAt, CheckIdle
    <2>4. CASE Correct(t)
      BY <2>0, <2>4 DEF AgreedAt, Correct, ResetToIdle
    <2>5. CASE Classify(t)
      BY <2>0, <2>5 DEF AgreedAt, Classify, Hold
    <2>6. CASE Classified(t)
      BY <2>0, <2>6 DEF AgreedAt, Classified, Fail, Answer
    <2>7. CASE Propose(t)
      BY <2>0, <2>7 DEF AgreedAt, Propose, SetState
    <2>8. CASE SetIntent(t)
      BY <2>0, <2>8 DEF AgreedAt, SetIntent, Answer
    <2>9. CASE ReadIntent(t)
      BY <2>0, <2>9 DEF AgreedAt, ReadIntent, Answer
    <2>10. CASE Work(t)
      BY <2>0, <2>10 DEF AgreedAt, Work, Fail, Answer, Learn
    <2>11. CASE ReadReset(t)
      BY <2>0, <2>11 DEF AgreedAt, ReadReset, ResetToIdle, Answer
    <2>12. CASE ShowPlan(t)
      BY <2>0, <2>12 DEF AgreedAt, ShowPlan, SetState
    <2>13. CASE SetPlan(t)
      BY <2>0, <2>13 DEF AgreedAt, SetPlan
    <2>14. CASE LearnRisks(t)
      BY <2>0, <2>14 DEF AgreedAt, LearnRisks, Answer, Learn
    <2>15. CASE TakePlan(t)
      BY <2>0, <2>15 DEF AgreedAt, TakePlan
    <2>16. CASE ForwardReset(t)
      BY <2>0, <2>16 DEF AgreedAt, ForwardReset, ResetToIdle, Answer
    <2>17. CASE Say(t)
      BY <2>0, <2>17 DEF AgreedAt, Say, Finish
    <2>18. CASE Submit(t)
      BY <2>0, <2>18 DEF AgreedAt, Submit, Finish
    <2>19. CASE Synthesize(t)
      BY <2>0, <2>19 DEF AgreedAt, Synthesize
    <2>20. CASE Clear(t)
      BY <2>0, <2>20 DEF AgreedAt, Clear, ReplaceSession, Finish
    <2> QED
      BY <1>1, <2>1, <2>2, <2>3, <2>4, <2>5, <2>6, <2>7, <2>8, <2>9, <2>10,
         <2>11, <2>12, <2>13, <2>14, <2>15, <2>16, <2>17, <2>18, <2>19, <2>20
         DEF Handler, Converse
  <1>2. ASSUME NEW t \in Threads, Event(t)
        PROVE  AgreedAt(t)'
    BY <1>2, Alone DEF AgreedInv, AgreedAt, Event, Receive, StartReset, SoloInv
  <1>3. ASSUME NEW t \in Threads, Event(t) \/ Handler(t)
        PROVE  AgreedInv'
    <2>1. \A u \in Threads \ {t} : Idle(u)'
      BY <1>3, Alone, OthersStay
    <2>2. SoloInv'
      BY SoloStep
    <2>3. AgreedAt(t)'
      BY <1>1, <1>2, <1>3
    <2> QED
      BY <2>1, <2>2, <2>3 DEF AgreedInv, AgreedAt, SoloInv
  <1>4. CASE Restart
    BY <1>4 DEF Restart, ReplaceSession, SoloInv, AgreedInv
  <1>5. CASE UNCHANGED vars
    BY <1>5 DEF vars, AgreedInv
  <1> QED
    BY <1>3, <1>4, <1>5 DEF Next

-----------------------------------------------------------------------------
(* What the user has seen.                                                 *)

PreviewAt(t) ==
    /\ \/ plan[gen] \in previewed \cup {None}
       \/ Previewing(t) /\ lplan[t] = plan[gen]
    /\ Forwarding(t) \/ At(t, "forwardReset") =>
          lplan[t] \in previewed \cup {None}
    /\ ForwardedWasPreviewed

LEMMA PreviewStep ==
  ASSUME TypeOK, SoloInv, PreviewInv, ~ overlapped', [Next]_vars
  PROVE  PreviewInv'
  <1> USE Numbers
      DEF At, Idle, Goto, Previewing, Forwarding, ForwardedWasPreviewed, TypeOK,
          Needs, flow, memory, locals, seen, ghosts
  <1>1. ASSUME NEW t \in Threads, Handler(t)
        PROVE  PreviewAt(t)'
    <2>0. PreviewAt(t) /\ held[t] = gen
      BY <1>1, Alone DEF PreviewInv, PreviewAt
    <2>1. CASE CheckProposing(t)
      BY <2>0, <2>1 DEF PreviewAt, CheckProposing
    <2>2. CASE CheckPlanShown(t)
      BY <2>0, <2>2 DEF PreviewAt, CheckPlanShown
    <2>3. CASE CheckIdle(t)
      BY <2>0, <2>3 DEF PreviewAt, CheckIdle
    <2>4. CASE Correct(t)
      BY <2>0, <2>4 DEF PreviewAt, Correct, ResetToIdle
    <2>5. CASE Classify(t)
      BY <2>0, <2>5 DEF PreviewAt, Classify, Hold
    <2>6. CASE Classified(t)
      BY <2>0, <2>6 DEF PreviewAt, Classified, Fail, Answer
    <2>7. CASE Propose(t)
      BY <2>0, <2>7 DEF PreviewAt, Propose, SetState
    <2>8. CASE SetIntent(t)
      BY <2>0, <2>8 DEF PreviewAt, SetIntent, Answer
    <2>9. CASE ReadIntent(t)
      BY <2>0, <2>9 DEF PreviewAt, ReadIntent, Answer
    <2>10. CASE Work(t)
      BY <2>0, <2>10 DEF PreviewAt, Work, Fail, Answer, Learn
    <2>11. CASE ReadReset(t)
      BY <2>0, <2>11 DEF PreviewAt, ReadReset, ResetToIdle, Answer
    <2>12. CASE ShowPlan(t)
      BY <2>0, <2>12 DEF PreviewAt, ShowPlan, SetState
    <2>13. CASE SetPlan(t)
      BY <2>0, <2>13 DEF PreviewAt, SetPlan
    <2>14. CASE LearnRisks(t)
      BY <2>0, <2>14 DEF PreviewAt, LearnRisks, Answer, Learn
    <2>15. CASE TakePlan(t)
      BY <2>0, <2>15 DEF PreviewAt, TakePlan
    <2>16. CASE ForwardReset(t)
      BY <2>0, <2>16 DEF PreviewAt, ForwardReset, ResetToIdle, Answer
    <2>17. CASE Say(t)
      BY <2>0, <2>17 DEF PreviewAt, Say, Finish
    <2>18. CASE Submit(t)
      BY <2>0, <2>18 DEF PreviewAt, Submit, Finish
    <2>19. CASE Synthesize(t)
      BY <2>0, <2>19 DEF PreviewAt, Synthesize
    <2>20. CASE Clear(t)
      <3>1. plan'[gen'] = None
        BY <2>20 DEF Clear, ReplaceSession, SoloInv
      <3> QED
        BY <2>0, <2>20, <3>1 DEF PreviewAt, Clear, Finish
    <2> QED
      BY <1>1, <2>1, <2>2, <2>3, <2>4, <2>5, <2>6, <2>7, <2>8, <2>9, <2>10,
         <2>11, <2>12, <2>13, <2>14, <2>15, <2>16, <2>17, <2>18, <2>19, <2>20
         DEF Handler, Converse
  <1>2. ASSUME NEW t \in Threads, Event(t)
        PROVE  PreviewAt(t)'
    BY <1>2, Alone DEF PreviewInv, PreviewAt, Event, Receive, StartReset, SoloInv
  <1>3. ASSUME NEW t \in Threads, Event(t) \/ Handler(t)
        PROVE  PreviewInv'
    <2>1. \A u \in Threads \ {t} : Idle(u)'
      BY <1>3, Alone, OthersStay
    <2>2. SoloInv'
      BY SoloStep
    <2>3. PreviewAt(t)'
      BY <1>1, <1>2, <1>3
    <2> QED
      BY <2>1, <2>2, <2>3 DEF PreviewInv, PreviewAt, SoloInv
  <1>4. CASE Restart
    BY <1>4 DEF Restart, ReplaceSession, SoloInv, PreviewInv
  <1>5. CASE UNCHANGED vars
    BY <1>5 DEF vars, PreviewInv
  <1> QED
    BY <1>3, <1>4, <1>5 DEF Next

-----------------------------------------------------------------------------
(* What the session learned.                                               *)

SavedAt(t) ==
    /\ At(t, "clear") => gen \in unsaved \/ learned[gen] \subseteq org
    /\ KnowledgeIsSaved

LEMMA SavedStep ==
  ASSUME TypeOK, SoloInv, SavedInv, ~ overlapped', [Next]_vars
  PROVE  SavedInv'
  <1> USE Numbers
      DEF At, Idle, Goto, KnowledgeIsSaved, TypeOK, Needs, flow, memory, locals,
          seen, ghosts
  <1>1. ASSUME NEW t \in Threads, Handler(t)
        PROVE  SavedAt(t)'
    <2>0. SavedAt(t) /\ held[t] = gen
      BY <1>1, Alone DEF SavedInv, SavedAt
    <2>1. CASE CheckProposing(t)
      BY <2>0, <2>1 DEF SavedAt, CheckProposing
    <2>2. CASE CheckPlanShown(t)
      BY <2>0, <2>2 DEF SavedAt, CheckPlanShown
    <2>3. CASE CheckIdle(t)
      BY <2>0, <2>3 DEF SavedAt, CheckIdle
    <2>4. CASE Correct(t)
      BY <2>0, <2>4 DEF SavedAt, Correct, ResetToIdle
    <2>5. CASE Classify(t)
      BY <2>0, <2>5 DEF SavedAt, Classify, Hold
    <2>6. CASE Classified(t)
      BY <2>0, <2>6 DEF SavedAt, Classified, Fail, Answer
    <2>7. CASE Propose(t)
      BY <2>0, <2>7 DEF SavedAt, Propose, SetState
    <2>8. CASE SetIntent(t)
      BY <2>0, <2>8 DEF SavedAt, SetIntent, Answer
    <2>9. CASE ReadIntent(t)
      BY <2>0, <2>9 DEF SavedAt, ReadIntent, Answer
    <2>10. CASE Work(t)
      BY <2>0, <2>10 DEF SavedAt, Work, Fail, Answer, Learn
    <2>11. CASE ReadReset(t)
      BY <2>0, <2>11 DEF SavedAt, ReadReset, ResetToIdle, Answer
    <2>12. CASE ShowPlan(t)
      BY <2>0, <2>12 DEF SavedAt, ShowPlan, SetState
    <2>13. CASE SetPlan(t)
      BY <2>0, <2>13 DEF SavedAt, SetPlan
    <2>14. CASE LearnRisks(t)
      BY <2>0, <2>14 DEF SavedAt, LearnRisks, Answer, Learn
    <2>15. CASE TakePlan(t)
      BY <2>0, <2>15 DEF SavedAt, TakePlan
    <2>16. CASE ForwardReset(t)
      BY <2>0, <2>16 DEF SavedAt, ForwardReset, ResetToIdle, Answer
    <2>17. CASE Say(t)
      BY <2>0, <2>17 DEF SavedAt, Say, Finish
    <2>18. CASE Submit(t)
      BY <2>0, <2>18 DEF SavedAt, Submit, Finish
    <2>19. CASE Synthesize(t)
      BY <2>0, <2>19 DEF SavedAt, Synthesize
    <2>20. CASE Clear(t)
      BY <2>0, <2>20 DEF SavedAt, Clear, ReplaceSession, Finish
    <2> QED
      BY <1>1, <2>1, <2>2, <2>3, <2>4, <2>5, <2>6, <2>7, <2>8, <2>9, <2>10,
         <2>11, <2>12, <2>13, <2>14, <2>15, <2>16, <2>17, <2>18, <2>19, <2>20
         DEF Handler, Converse
  <1>2. ASSUME NEW t \in Threads, Event(t)
        PROVE  SavedAt(t)'
    BY <1>2, Alone DEF SavedInv, SavedAt, Event, Receive, StartReset, SoloInv
  <1>3. ASSUME NEW t \in Threads, Event(t) \/ Handler(t)
        PROVE  SavedInv'
    <2>1. \A u \in Threads \ {t} : Idle(u)'
      BY <1>3, Alone, OthersStay
    <2>2. SoloInv'
      BY SoloStep
    <2>3. SavedAt(t)'
      BY <1>1, <1>2, <1>3
    <2> QED
      BY <2>1, <2>2, <2>3 DEF SavedInv, SavedAt, SoloInv
  <1>4. CASE Restart
    BY <1>4 DEF Restart, ReplaceSession, SoloInv, SavedInv
  <1>5. CASE UNCHANGED vars
    BY <1>5 DEF vars, SavedInv
  <1> QED
    BY <1>3, <1>4, <1>5 DEF Next

-----------------------------------------------------------------------------
(* All of it.                                                              *)

LEMMA TurnInit == Init => TurnInv
  <1> SUFFICES ASSUME Init PROVE TurnInv
      OBVIOUS
  <1> USE Numbers DEF Init, At, Idle
  <1>1. SoloInv /\ FlowInv
    BY DEF SoloInv, FlowInv, Latest, Asking, Accepted, Unclassified
  <1>2. OpenInv
    BY SessionAssumption
    DEF OpenInv, Open, Forwarding, Asking, Unclassified, ForwardedAtMostOnce,
        ResetForgets, None
  <1>3. AgreedInv /\ PreviewInv /\ SavedInv
    BY DEF AgreedInv, PlannedWasAgreed, ForwardedWasAgreed, PreviewInv,
       Previewing, Forwarding, ForwardedWasPreviewed, SavedInv, KnowledgeIsSaved
  <1> QED
    BY <1>1, <1>2, <1>3 DEF TurnInv

LEMMA TurnStep == TypeOK /\ WaitInv /\ TurnInv /\ [Next]_vars => TurnInv'
  <1> SUFFICES ASSUME TypeOK, WaitInv, TurnInv, [Next]_vars, ~ overlapped'
               PROVE  /\ SoloInv' /\ FlowInv' /\ OpenInv'
                      /\ AgreedInv' /\ PreviewInv' /\ SavedInv'
    BY DEF TurnInv
  <1>1. SoloInv /\ FlowInv /\ OpenInv /\ AgreedInv /\ PreviewInv /\ SavedInv
    BY OverlapStays DEF TurnInv
  <1> QED
    BY <1>1, SoloStep, FlowStep, OpenStep, AgreedStep, PreviewStep, SavedStep

LEMMA Turns == Spec => []TurnInv
  <1> QED BY TurnInit, TurnStep, TypeCorrect, Waiting, PTL DEF Spec

\* A user who waits for each answer has a plan forwarded once, after its preview
\* was sent, and after agreeing to the proposal it was made for,
\* whatever Claude and Salesforce raise and wherever the process restarts.
THEOREM OneYesSendsOneBatch == Spec => []OneYesOneBatch
  <1>1. TurnInv => OneYesOneBatch
    BY DEF TurnInv, OpenInv, AgreedInv, PreviewInv, OneYesOneBatch,
           ForwardedWasPreviewed
  <1> QED BY <1>1, Turns, PTL

\* What such a user has forwarded was agreed to as a proposal.
LEMMA AgreementComesFirst == Spec => [](~ overlapped => ForwardedWasAgreed)
  <1>1. TurnInv => (~ overlapped => ForwardedWasAgreed)
    BY DEF TurnInv, AgreedInv
  <1> QED BY <1>1, Turns, PTL

\* What such a user has forwarded is the last request made: a correction drops
\* the plan it corrects before the next yes can find it (core.py:174).
THEOREM CorrectionsReplacePlans == Spec => []CorrectionsWin
  <1>1. TypeOK /\ TurnInv => CorrectionsWin
    BY DEF TypeOK, Needs, At, TurnInv, FlowInv, Latest, CorrectionsWin,
           ForwardedIsLatest
  <1> QED BY <1>1, Turns, TypeCorrect, PTL

\* After a /reset, or a restart, the new session knows no request from before,
\* and what the old one learned went into a synthesis unless that failed or the
\* process died (core.py:97, session.py:426).
THEOREM ResetStartsAfresh == Spec => []ResetIsClean
  <1>1. TurnInv => ResetIsClean
    BY DEF TurnInv, OpenInv, SavedInv, ResetIsClean
  <1> QED BY <1>1, Turns, PTL
=============================================================================
