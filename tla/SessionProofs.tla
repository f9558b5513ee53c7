---------------------------- MODULE SessionProofs ---------------------------
(***************************************************************************)
(* Theorems about Session, for every set of threads and every bound.       *)
(***************************************************************************)
EXTENDS Session, TLAPS

-----------------------------------------------------------------------------
(* Type correctness, with what each program point relies on.               *)

LEMMA Numbers ==
  /\ None \notin Messages /\ None \notin Sessions
  /\ 1 \in Sessions
  /\ Messages \subseteq Nat /\ Sessions \subseteq Nat
  /\ \A n \in 0 .. MaxTurns : n < MaxTurns => n + 1 \in Messages
  /\ \A n \in Messages : n \in 0 .. MaxTurns
  /\ \A s \in Sessions : s < MaxSessions => s + 1 \in Sessions
  BY SessionAssumption DEF Messages, Sessions, None

LEMMA Increment ==
  ASSUME NEW S, NEW f \in [S -> Nat], NEW x \in S
  PROVE  [f EXCEPT ![x] = @ + 1] \in [S -> Nat]
  OBVIOUS

LEMMA TypeInit == Init => TypeOK
  <1> SUFFICES ASSUME Init PROVE TypeOK
      OBVIOUS
  <1>1. \A t \in Threads : Needs(t)
    BY DEF Init, Needs
  <1>2. 0 \in 0 .. MaxTurns
    BY SessionAssumption
  <1> QED
    BY <1>1, <1>2, Numbers DEF Init, TypeOK, FlowState, PC, Reply

LEMMA TypeStep == TypeOK /\ [Next]_vars => TypeOK'
  <1> SUFFICES ASSUME TypeOK, [Next]_vars PROVE TypeOK'
      OBVIOUS
  <1> USE Numbers
      DEF TypeOK, Needs, FlowState, PC, Reply, At, Idle, Goto, flow, memory,
          locals, seen, ghosts
  <1>1. ASSUME NEW t \in Threads, NEW kind \in {"yes", "ask"}, Receive(t, kind)
        PROVE  TypeOK'
    <2>1. count < MaxTurns
      BY <1>1, SessionAssumption DEF Receive
    <2>2. count + 1 \in Messages /\ count' \in 0 .. MaxTurns
      BY <1>1, <2>1 DEF Receive
    <2>3. overlapped' \in BOOLEAN
      BY <1>1 DEF Receive
    <2>4. PICK p \in {"checkIdle", "checkProposing"} : Goto(t, p)
      BY <1>1 DEF Receive
    <2>5. gen # None
      OBVIOUS
    <2>6. \A u \in Threads : Needs(u)'
      BY <1>1, <2>2, <2>4, <2>5 DEF Receive, Hold
    <2> QED
      BY <1>1, <2>2, <2>3, <2>4, <2>6 DEF Receive, Hold
  <1>2. ASSUME NEW t \in Threads, StartReset(t)
        PROVE  TypeOK'
    BY <1>2 DEF StartReset, Busy, Hold
  <1>3. ASSUME NEW t \in Threads, CheckProposing(t)
        PROVE  TypeOK'
    <2>1. held[t] \in Sessions
      BY <1>3 DEF CheckProposing
    <2>2. agreed' \subseteq Messages \cup {None}
      <3>1. intent[held[t]] \in Messages \cup {None}
        BY <2>1
      <3>2. agreed' \in {agreed, agreed \cup {intent[held[t]]}}
        BY <1>3 DEF CheckProposing
      <3> QED
        BY <3>1, <3>2
    <2>3. PICK p \in {"readIntent", "checkPlanShown"} : Goto(t, p)
      BY <1>3 DEF CheckProposing
    <2> QED
      BY <1>3, <2>2, <2>3 DEF CheckProposing
  <1>4. ASSUME NEW t \in Threads, CheckPlanShown(t)
        PROVE  TypeOK'
    BY <1>4 DEF CheckPlanShown
  <1>5. ASSUME NEW t \in Threads, CheckIdle(t)
        PROVE  TypeOK'
    BY <1>5 DEF CheckIdle
  <1>6. ASSUME NEW t \in Threads, Correct(t)
        PROVE  TypeOK'
    BY <1>6 DEF Correct, ResetToIdle
  <1>7. ASSUME NEW t \in Threads, Classify(t)
        PROVE  TypeOK'
    BY <1>7 DEF Classify, Hold
  <1>8. ASSUME NEW t \in Threads, Classified(t)
        PROVE  TypeOK'
    <2>1. msg[t] \in Messages /\ held[t] \in Sessions
      BY <1>8 DEF Classified
    <2>2. CASE Goto(t, "say") /\ reply' = [reply EXCEPT ![t] = "TEXT"]
               /\ UNCHANGED <<talked, type>>
      BY <1>8, <2>2 DEF Classified
    <2>3. CASE /\ \E k \in {"READ", "WRITE"} : type' = [type EXCEPT ![msg[t]] = k]
               /\ talked' = [talked EXCEPT ![held[t]] = TRUE]
               /\ Goto(t, "propose")
               /\ UNCHANGED reply
      BY <1>8, <2>1, <2>3 DEF Classified
    <2> QED
      BY <1>8, <2>2, <2>3 DEF Classified, Fail, Answer
  <1>9. ASSUME NEW t \in Threads, Propose(t)
        PROVE  TypeOK'
    BY <1>9 DEF Propose, SetState
  <1>10. ASSUME NEW t \in Threads, SetIntent(t)
        PROVE  TypeOK'
    BY <1>10 DEF SetIntent, Answer
  <1>11. ASSUME NEW t \in Threads, ReadIntent(t)
        PROVE  TypeOK'
    <2>1. held[t] \in Sessions
      BY <1>11 DEF ReadIntent
    <2>2. CASE intent[held[t]] = None
      BY <1>11, <2>1, <2>2 DEF ReadIntent, Answer
    <2>3. CASE intent[held[t]] # None
      <3>1. intent[held[t]] \in Messages
        <4>1. intent[held[t]] \in Messages \cup {None}
          BY <2>1
        <4> QED
          BY <2>3, <4>1
      <3>2. /\ lintent' = [lintent EXCEPT ![t] = intent[held[t]]]
            /\ Goto(t, "work")
            /\ UNCHANGED <<gen, flow, memory, msg, held, lplan, reply, seen, ghosts>>
        BY <1>11, <2>3 DEF ReadIntent
      <3>3. \A u \in Threads : Needs(u)'
        BY <1>11, <3>1, <3>2 DEF ReadIntent
      <3> QED
        BY <3>1, <3>2, <3>3
    <2> QED
      BY <2>2, <2>3
  <1>12. ASSUME NEW t \in Threads, Work(t)
        PROVE  TypeOK'
    <2>1. lintent[t] \in Messages /\ held[t] \in Sessions
      BY <1>12 DEF Work
    <2>2. CASE /\ Goto(t, "say") /\ reply' = [reply EXCEPT ![t] = "TEXT"]
               /\ UNCHANGED <<talked, learned, lplan>>
      BY <1>12, <2>2 DEF Work
    <2>3. CASE /\ talked' = [talked EXCEPT ![held[t]] = TRUE]
               /\ Learn(t) \/ UNCHANGED learned
               /\ Goto(t, "readReset")
               /\ UNCHANGED <<lplan, reply>>
      BY <1>12, <2>1, <2>3 DEF Work, Learn
    <2>4. CASE /\ lplan' = [lplan EXCEPT ![t] = lintent[t]]
               /\ Goto(t, "showPlan")
               /\ UNCHANGED <<talked, learned, reply>>
      BY <1>12, <2>1, <2>4 DEF Work
    <2> QED
      BY <1>12, <2>2, <2>3, <2>4 DEF Work, Fail, Answer
  <1>13. ASSUME NEW t \in Threads, ReadReset(t)
        PROVE  TypeOK'
    BY <1>13 DEF ReadReset, ResetToIdle, Answer
  <1>14. ASSUME NEW t \in Threads, ShowPlan(t)
        PROVE  TypeOK'
    BY <1>14 DEF ShowPlan, SetState
  <1>15. ASSUME NEW t \in Threads, SetPlan(t)
        PROVE  TypeOK'
    BY <1>15 DEF SetPlan
  <1>16. ASSUME NEW t \in Threads, LearnRisks(t)
        PROVE  TypeOK'
    BY <1>16 DEF LearnRisks, Learn, Answer
  <1>17. ASSUME NEW t \in Threads, TakePlan(t)
        PROVE  TypeOK'
    BY <1>17 DEF TakePlan
  <1>18. ASSUME NEW t \in Threads, ForwardReset(t)
        PROVE  TypeOK'
    BY <1>18 DEF ForwardReset, ResetToIdle, Answer
  <1>19. ASSUME NEW t \in Threads, Say(t)
        PROVE  TypeOK'
    <2>0. previewed' \subseteq Messages \cup {None}
      <3>1. previewed' \in {previewed, previewed \cup {lplan[t]}}
        BY <1>19 DEF Say
      <3> QED
        BY <3>1
    <2>1. CASE lplan[t] # None /\ Goto(t, "submit") /\ UNCHANGED locals
      BY <1>19, <2>0, <2>1 DEF Say
    <2>2. CASE Finish(t)
      <3>1. previewed' \subseteq Messages \cup {None}
        BY <2>0
      <3>2. UNCHANGED <<gen, flow, memory, seen, born, agreed, forwarded, unsaved>>
        BY <1>19 DEF Say
      <3>3. \A u \in Threads : Needs(u)'
        BY <2>2 DEF Finish
      <3> QED
        BY <2>2, <3>1, <3>2, <3>3 DEF Finish
    <2> QED
      BY <1>19, <2>1, <2>2 DEF Say
  <1>20. ASSUME NEW t \in Threads, Submit(t)
        PROVE  TypeOK'
    <2>1. forwarded' \in [Messages -> Nat]
      <3>1. lplan[t] \in Messages
        BY <1>20 DEF Submit
      <3>2. forwarded' = [forwarded EXCEPT ![lplan[t]] = @ + 1]
        BY <1>20 DEF Submit
      <3> QED
        BY <3>1, <3>2, Increment
    <2>2. \A u \in Threads : Needs(u)'
      BY <1>20 DEF Submit, Finish
    <2> QED
      BY <1>20, <2>1, <2>2 DEF Submit, Finish
  <1>21. ASSUME NEW t \in Threads, Synthesize(t)
        PROVE  TypeOK'
    BY <1>21 DEF Synthesize
  <1>22. ASSUME NEW t \in Threads, Clear(t)
        PROVE  TypeOK'
    BY <1>22 DEF Clear, ReplaceSession, Finish
  <1>23. ASSUME Restart
        PROVE  TypeOK'
    BY <1>23 DEF Restart, ReplaceSession
  <1>24. ASSUME UNCHANGED vars
        PROVE  TypeOK'
    BY <1>24 DEF vars
  <1> QED
    BY <1>1, <1>2, <1>3, <1>4, <1>5, <1>6, <1>7, <1>8, <1>9, <1>10, <1>11,
       <1>12, <1>13, <1>14, <1>15, <1>16, <1>17, <1>18, <1>19, <1>20,
       <1>21, <1>22, <1>23, <1>24
    DEF Next, Event, Handler, Converse

\* Every variable keeps its type, and no step of a handler finds a local
\* variable unset: no batch is created without a plan, no request executed
\* without an intent.
THEOREM TypeCorrect == Spec => []TypeOK
  <1> QED BY TypeInit, TypeStep, PTL DEF Spec

-----------------------------------------------------------------------------
(* The lock.  A thread inside update_session is alone there, and the state *)
(* it has set is not touched before it sets the rest.  An object not yet   *)
(* in the store has nothing to wait for.                                   *)

InLock(t) == At(t, "setIntent") \/ At(t, "setPlan")

LockInv ==
    /\ \A t, u \in Threads : InLock(t) /\ InLock(u) => t = u
    /\ \A t \in Threads : At(t, "setIntent") => state[gen] = "proposing"
    /\ \A t \in Threads : At(t, "setPlan") => state[gen] = "plan_shown"
    /\ \A s \in Sessions : s > gen => state[s] = "idle"

WaitInv == LockInv /\ WaitsForSomething

\* A step outside the store, of a thread that stays outside the lock.
LEMMA QuietStep ==
  ASSUME TypeOK, WaitInv, NEW t \in Threads, ~ InLock(t),
         NEW p \in PC \ {"setIntent", "setPlan"}, Goto(t, p),
         UNCHANGED <<gen, flow>>
  PROVE  WaitInv'
  BY DEF TypeOK, WaitInv, LockInv, WaitsForSomething, InLock, Unlocked, At, Goto,
         flow

LEMMA WaitStep == TypeOK /\ WaitInv /\ [Next]_vars => WaitInv'
  <1> SUFFICES ASSUME TypeOK, WaitInv, [Next]_vars PROVE WaitInv'
      OBVIOUS
  <1> USE Numbers
      DEF TypeOK, Needs, WaitInv, LockInv, WaitsForSomething, InLock, Unlocked,
          FlowState, PC, At, Idle, Goto, flow
  <1>1. ASSUME NEW t \in Threads, NEW kind \in {"yes", "ask"}, Receive(t, kind)
        PROVE  WaitInv'
    <2>1. PICK p \in {"checkIdle", "checkProposing"} : Goto(t, p)
      BY <1>1 DEF Receive
    <2> QED
      BY <1>1, <2>1, QuietStep DEF Receive, flow
  <1>2. ASSUME NEW t \in Threads, StartReset(t)
        PROVE  WaitInv'
    BY <1>2 DEF StartReset, Busy, Hold
  <1>3. ASSUME NEW t \in Threads, CheckProposing(t)
        PROVE  WaitInv'
    <2>1. PICK p \in {"readIntent", "checkPlanShown"} : Goto(t, p)
      BY <1>3 DEF CheckProposing
    <2> QED
      BY <1>3, <2>1, QuietStep DEF CheckProposing, flow
  <1>4. ASSUME NEW t \in Threads, CheckPlanShown(t)
        PROVE  WaitInv'
    BY <1>4 DEF CheckPlanShown
  <1>5. ASSUME NEW t \in Threads, CheckIdle(t)
        PROVE  WaitInv'
    BY <1>5 DEF CheckIdle
  <1>6. ASSUME NEW t \in Threads, Correct(t)
        PROVE  WaitInv'
    BY <1>6 DEF Correct, ResetToIdle
  <1>7. ASSUME NEW t \in Threads, Classify(t)
        PROVE  WaitInv'
    BY <1>7 DEF Classify, Hold
  <1>8. ASSUME NEW t \in Threads, Classified(t)
        PROVE  WaitInv'
    <2>1. PICK p \in {"say", "propose"} : Goto(t, p)
      BY <1>8 DEF Classified, Fail, Answer
    <2> QED
      BY <1>8, <2>1, QuietStep DEF Classified, flow
  <1>9. ASSUME NEW t \in Threads, Propose(t)
        PROVE  WaitInv'
    BY <1>9 DEF Propose, SetState
  <1>10. ASSUME NEW t \in Threads, SetIntent(t)
        PROVE  WaitInv'
    BY <1>10 DEF SetIntent, Answer
  <1>11. ASSUME NEW t \in Threads, ReadIntent(t)
        PROVE  WaitInv'
    <2>1. PICK p \in {"say", "work"} : Goto(t, p)
      BY <1>11 DEF ReadIntent, Answer
    <2> QED
      BY <1>11, <2>1, QuietStep DEF ReadIntent, flow
  <1>12. ASSUME NEW t \in Threads, Work(t)
        PROVE  WaitInv'
    <2>1. PICK p \in {"say", "readReset", "showPlan"} : Goto(t, p)
      BY <1>12 DEF Work, Fail, Answer
    <2> QED
      BY <1>12, <2>1, QuietStep DEF Work, flow
  <1>13. ASSUME NEW t \in Threads, ReadReset(t)
        PROVE  WaitInv'
    BY <1>13 DEF ReadReset, ResetToIdle, Answer
  <1>14. ASSUME NEW t \in Threads, ShowPlan(t)
        PROVE  WaitInv'
    BY <1>14 DEF ShowPlan, SetState
  <1>15. ASSUME NEW t \in Threads, SetPlan(t)
        PROVE  WaitInv'
    BY <1>15 DEF SetPlan
  <1>16. ASSUME NEW t \in Threads, LearnRisks(t)
        PROVE  WaitInv'
    BY <1>16 DEF LearnRisks, Learn, Answer
  <1>17. ASSUME NEW t \in Threads, TakePlan(t)
        PROVE  WaitInv'
    BY <1>17 DEF TakePlan
  <1>18. ASSUME NEW t \in Threads, ForwardReset(t)
        PROVE  WaitInv'
    BY <1>18 DEF ForwardReset, ResetToIdle, Answer
  <1>19. ASSUME NEW t \in Threads, Say(t)
        PROVE  WaitInv'
    <2>1. PICK p \in {"submit", "idle"} : Goto(t, p)
      BY <1>19 DEF Say, Finish
    <2> QED
      BY <1>19, <2>1, QuietStep DEF Say, flow
  <1>20. ASSUME NEW t \in Threads, Submit(t)
        PROVE  WaitInv'
    BY <1>20 DEF Submit, Finish
  <1>21. ASSUME NEW t \in Threads, Synthesize(t)
        PROVE  WaitInv'
    BY <1>21 DEF Synthesize
  <1>22. ASSUME NEW t \in Threads, Clear(t)
        PROVE  WaitInv'
    BY <1>22 DEF Clear, ReplaceSession, Finish
  <1>23. ASSUME Restart
        PROVE  WaitInv'
    BY <1>23 DEF Restart, ReplaceSession
  <1>24. ASSUME UNCHANGED vars
        PROVE  WaitInv'
    BY <1>24 DEF vars
  <1> QED
    BY <1>1, <1>2, <1>3, <1>4, <1>5, <1>6, <1>7, <1>8, <1>9, <1>10, <1>11,
       <1>12, <1>13, <1>14, <1>15, <1>16, <1>17, <1>18, <1>19, <1>20,
       <1>21, <1>22, <1>23, <1>24
    DEF Next, Event, Handler, Converse

LEMMA WaitInit == Init => WaitInv
  BY Numbers DEF Init, WaitInv, LockInv, WaitsForSomething, InLock, At

LEMMA Waiting == Spec => []WaitInv
  <1> QED BY WaitInit, WaitStep, TypeCorrect, PTL DEF Spec

\* Whenever the lock is free, a session that waits for a yes has the intent or
\* the plan the yes is about.
THEOREM WaitingSessionsHaveASubject == Spec => []WaitsForSomething
  <1>1. WaitInv => WaitsForSomething
    BY DEF WaitInv
  <1> QED BY <1>1, Waiting, PTL

-----------------------------------------------------------------------------
(* Replaced session objects.                                               *)

LEMMA FrozenStep ==
  ASSUME TypeOK, [Next]_vars, NEW s \in Sessions, s < gen
  PROVE  <<state'[s], intent'[s], plan'[s]>> = <<state[s], intent[s], plan[s]>>
  <1> DEFINE Same == /\ state'[s] = state[s]
                     /\ intent'[s] = intent[s]
                     /\ plan'[s] = plan[s]
  <1>1. s # gen
    BY Numbers DEF TypeOK
  <1>2. ASSUME UNCHANGED flow PROVE Same
    BY <1>2 DEF flow
  <1>3. ASSUME ResetToIdle PROVE Same
    BY <1>1, <1>3 DEF ResetToIdle, TypeOK
  <1>4. ASSUME NEW st, SetState(st), UNCHANGED <<intent, plan>> PROVE Same
    BY <1>1, <1>4 DEF SetState, TypeOK
  <1>5. ASSUME NEW t \in Threads, SetIntent(t) PROVE Same
    BY <1>1, <1>5 DEF SetIntent, TypeOK
  <1>6. ASSUME NEW t \in Threads, SetPlan(t) PROVE Same
    BY <1>1, <1>6 DEF SetPlan, TypeOK
  <1>7. ASSUME NEW t \in Threads, Event(t) PROVE Same
    BY <1>2, <1>7 DEF Event, Receive, StartReset
  <1>8. ASSUME NEW t \in Threads, Handler(t) PROVE Same
    <2>1. CASE Correct(t) \/ ReadReset(t) \/ ForwardReset(t)
      BY <1>3, <2>1 DEF Correct, ReadReset, ForwardReset
    <2>2. CASE Propose(t) \/ ShowPlan(t)
      BY <1>4, <2>2 DEF Propose, ShowPlan
    <2>3. CASE SetIntent(t) \/ SetPlan(t)
      BY <1>5, <1>6, <2>3
    <2>4. CASE \/ CheckProposing(t) \/ CheckPlanShown(t) \/ CheckIdle(t)
               \/ Classify(t) \/ Classified(t) \/ ReadIntent(t) \/ Work(t)
               \/ LearnRisks(t) \/ TakePlan(t) \/ Say(t) \/ Submit(t)
               \/ Synthesize(t) \/ Clear(t)
      BY <1>2, <2>4
      DEF CheckProposing, CheckPlanShown, CheckIdle, Classify, Classified,
          ReadIntent, Work, LearnRisks, TakePlan, Say, Submit, Synthesize, Clear
    <2> QED
      BY <1>8, <2>1, <2>2, <2>3, <2>4 DEF Handler, Converse
  <1>9. ASSUME Restart \/ UNCHANGED vars PROVE Same
    BY <1>2, <1>9 DEF Restart, vars
  <1> QED
    BY <1>7, <1>8, <1>9 DEF Next

\* No step of any handler changes the flow of a session object that
\* clear_session has replaced.
THEOREM ReplacedSessionsStayAsTheyWere == Spec => ReplacedSessionsAreFrozen
  <1>1. TypeOK /\ [Next]_vars =>
          [\A s \in Sessions : s < gen =>
             <<state'[s], intent'[s], plan'[s]>> = <<state[s], intent[s], plan[s]>>]_vars
    BY FrozenStep
  <1> QED BY <1>1, TypeCorrect, PTL DEF Spec, ReplacedSessionsAreFrozen
-----------------------------------------------------------------------------
(* Plans.  Claude classifies a message once, before there is a plan of it: *)
(* messages are handled by one thread each, and those that have not come   *)
(* or not been classified yet have no type.                                *)

Unclassified == {"checkProposing", "checkPlanShown", "checkIdle", "correct",
                 "classify", "claude"}

FreshInv ==
    /\ \A m \in Messages : m > count => type[m] = "none"
    /\ \A t \in Threads : msg[t] <= count
    /\ \A t, u \in Threads : msg[t] = msg[u] => t = u \/ msg[t] = None
    /\ \A t \in Threads : pc[t] \in Unclassified => type[msg[t]] = "none"

LEMMA FreshGoto ==
  ASSUME TypeOK, FreshInv, NEW t \in Threads, NEW p, Goto(t, p),
         p \in Unclassified => pc[t] \in Unclassified,
         UNCHANGED <<msg, type, count>>
  PROVE  FreshInv'
  BY DEF TypeOK, FreshInv, Goto

LEMMA FreshFinish ==
  ASSUME TypeOK, FreshInv, NEW t \in Threads, Finish(t), UNCHANGED <<type, count>>
  PROVE  FreshInv'
  <1>1. \A u \in Threads : msg'[u] = msg[u] \/ msg'[u] = None
    BY DEF TypeOK, Finish
  <1>2. (\A u \in Threads : msg[u] <= count)'
    BY <1>1, SessionAssumption DEF TypeOK, FreshInv, None
  <1>3. (\A u, v \in Threads : msg[u] = msg[v] => u = v \/ msg[u] = None)'
    BY <1>1 DEF FreshInv
  <1>4. (\A u \in Threads : pc[u] \in Unclassified => type[msg[u]] = "none")'
    BY DEF TypeOK, FreshInv, Finish, Goto, Unclassified
  <1> QED
    BY <1>2, <1>3, <1>4 DEF FreshInv

LEMMA FreshStep == TypeOK /\ FreshInv /\ [Next]_vars => FreshInv'
  <1> SUFFICES ASSUME TypeOK, FreshInv, [Next]_vars PROVE FreshInv'
      OBVIOUS
  <1>1. ASSUME NEW t \in Threads, NEW kind \in {"yes", "ask"}, Receive(t, kind)
        PROVE  FreshInv'
    <2>1. /\ msg' = [msg EXCEPT ![t] = count + 1] /\ count' = count + 1
          /\ UNCHANGED type
      BY <1>1 DEF Receive, memory
    <2>2. PICK p : Goto(t, p)
      BY <1>1 DEF Receive
    <2>3. count \in Nat /\ count + 1 \in Messages
      <3>1. count < MaxTurns
        BY <1>1, SessionAssumption DEF Receive, TypeOK
      <3> QED
        BY <3>1, Numbers, SessionAssumption DEF TypeOK
    <2>4. ASSUME NEW u \in Threads PROVE msg[u] \in Nat /\ msg[u] <= count
      <3>1. msg[u] \in Messages \cup {None}
        BY DEF TypeOK
      <3>2. msg[u] \in Nat
        <4>1. Messages \subseteq Nat /\ None \in Nat
          BY Numbers DEF None
        <4> QED
          BY <3>1, <4>1
      <3>3. msg[u] <= count
        BY DEF FreshInv
      <3> QED
        BY <3>2, <3>3
    <2>5. (\A m \in Messages : m > count => type[m] = "none")'
      BY <2>1, <2>3, Numbers DEF FreshInv
    <2>6. (\A u \in Threads : msg[u] <= count)'
      BY <2>1, <2>3, <2>4 DEF TypeOK
    <2>7. (\A u, v \in Threads : msg[u] = msg[v] => u = v \/ msg[u] = None)'
      <3>1. \A u \in Threads \ {t} : msg'[u] = msg[u] /\ msg'[u] # count + 1
        BY <2>1, <2>3, <2>4 DEF TypeOK
      <3>2. msg'[t] = count + 1
        BY <2>1 DEF TypeOK
      <3> QED
        BY <3>1, <3>2 DEF FreshInv
    <2>8. (\A u \in Threads : pc[u] \in Unclassified => type[msg[u]] = "none")'
      <3>1. type[count + 1] = "none"
        BY <2>3 DEF FreshInv
      <3>2. \A u \in Threads \ {t} : msg'[u] = msg[u] /\ pc'[u] = pc[u]
        BY <2>1, <2>2 DEF Goto, TypeOK
      <3>3. msg'[t] = count + 1
        BY <2>1 DEF TypeOK
      <3> QED
        BY <2>1, <3>1, <3>2, <3>3 DEF FreshInv
    <2> QED
      BY <2>5, <2>6, <2>7, <2>8 DEF FreshInv
  <1>2. ASSUME NEW t \in Threads,
               \/ CheckProposing(t) \/ CheckPlanShown(t) \/ CheckIdle(t)
               \/ Correct(t) \/ Classify(t)
        PROVE  FreshInv'
    <2>1. PICK p : Goto(t, p)
      BY <1>2 DEF CheckProposing, CheckPlanShown, CheckIdle, Correct, Classify
    <2>2. pc[t] \in Unclassified
      BY <1>2 DEF CheckProposing, CheckPlanShown, CheckIdle, Correct, Classify, At,
                  Unclassified
    <2>3. UNCHANGED <<msg, type, count>>
      BY <1>2 DEF CheckProposing, CheckPlanShown, CheckIdle, Correct, Classify,
                  locals, memory, seen
    <2> QED
      BY <2>1, <2>2, <2>3, FreshGoto
  <1>3. ASSUME NEW t \in Threads, Classified(t)
        PROVE  FreshInv'
    <2>1. PICK p \in {"say", "propose"} : Goto(t, p)
      BY <1>3 DEF Classified, Fail, Answer
    <2>2. UNCHANGED <<msg, count>>
      BY <1>3 DEF Classified, seen
    <2>3. CASE UNCHANGED type
      BY <2>1, <2>2, <2>3, FreshGoto DEF Unclassified
    <2>4. CASE \E k \in {"READ", "WRITE"} : type' = [type EXCEPT ![msg[t]] = k]
      <3>1. msg[t] \in Messages /\ msg[t] <= count
        BY <1>3 DEF Classified, At, TypeOK, Needs, FreshInv
      <3>2. \A m \in Messages \ {msg[t]} : type'[m] = type[m]
        BY <2>4 DEF TypeOK
      <3>3. (\A m \in Messages : m > count => type[m] = "none")'
        BY <2>2, <3>1, <3>2, Numbers, SessionAssumption DEF FreshInv, TypeOK
      <3>4. ASSUME NEW u \in Threads, pc'[u] \in Unclassified
            PROVE  type'[msg'[u]] = "none"
        <4>1. u # t /\ pc[u] \in Unclassified
          BY <2>1, <3>4 DEF Goto, TypeOK, Unclassified
        <4>2. msg[u] \in Messages
          BY <4>1 DEF TypeOK, Needs, Unclassified
        <4>3. msg[u] # msg[t]
          BY <3>1, <4>1, Numbers DEF FreshInv
        <4> QED
          BY <2>2, <3>2, <4>1, <4>2, <4>3 DEF FreshInv
      <3>5. (\A u \in Threads : msg[u] <= count)'
        BY <2>2 DEF FreshInv
      <3>6. (\A u, v \in Threads : msg[u] = msg[v] => u = v \/ msg[u] = None)'
        BY <2>2 DEF FreshInv
      <3> QED
        BY <3>3, <3>4, <3>5, <3>6 DEF FreshInv
    <2> QED
      BY <1>3, <2>3, <2>4 DEF Classified
  <1>4. ASSUME NEW t \in Threads,
               \/ Propose(t) \/ SetIntent(t) \/ ReadIntent(t) \/ Work(t)
               \/ ReadReset(t) \/ ShowPlan(t) \/ SetPlan(t) \/ LearnRisks(t)
               \/ TakePlan(t) \/ ForwardReset(t) \/ Synthesize(t)
               \/ StartReset(t)
        PROVE  FreshInv'
    <2>1. PICK p \in PC \ Unclassified : Goto(t, p)
      BY <1>4 DEF Propose, SetIntent, ReadIntent, Work, ReadReset, ShowPlan, SetPlan,
                  LearnRisks, TakePlan, ForwardReset, Synthesize, StartReset, Fail,
                  Answer, PC, Unclassified
    <2>2. UNCHANGED <<msg, type, count>>
      BY <1>4 DEF Propose, SetIntent, ReadIntent, Work, ReadReset, ShowPlan, SetPlan,
                  LearnRisks, TakePlan, ForwardReset, Synthesize, StartReset, locals,
                  memory, seen
    <2> QED
      BY <2>1, <2>2, FreshGoto
  <1>5. ASSUME NEW t \in Threads, Say(t) \/ Submit(t) \/ Clear(t)
        PROVE  FreshInv'
    <2>1. UNCHANGED <<type, count>>
      BY <1>5 DEF Say, Submit, Clear, memory, seen
    <2>2. CASE Finish(t)
      BY <2>1, <2>2, FreshFinish
    <2>3. CASE Goto(t, "submit") /\ UNCHANGED locals
      BY <2>1, <2>3, FreshGoto DEF locals, Unclassified
    <2> QED
      BY <1>5, <2>2, <2>3 DEF Say, Submit, Clear
  <1>6. ASSUME Restart
        PROVE  FreshInv'
    <2>1. UNCHANGED <<type, count>> /\ \A t \in Threads : msg'[t] = None
      BY <1>6 DEF Restart, memory, seen
    <2>2. \A t \in Threads : pc'[t] \notin Unclassified
      BY <1>6 DEF Restart, Unclassified
    <2>3. None <= count
      BY SessionAssumption DEF TypeOK, None
    <2> QED
      BY <2>1, <2>2, <2>3 DEF FreshInv
  <1>7. CASE UNCHANGED vars
    BY <1>7 DEF vars, locals, memory, seen, FreshInv
  <1> QED
    BY <1>1, <1>2, <1>3, <1>4, <1>5, <1>6, <1>7 DEF Next, Event, Handler, Converse

\* A plan, wherever it is, was made for a WRITE.
PlanInv ==
    /\ \A s \in Sessions : plan[s] # None => type[plan[s]] = "WRITE"
    /\ \A t \in Threads : lplan[t] # None => type[lplan[t]] = "WRITE"
    /\ OnlyWritesAreForwarded

\* A step that moves plans about, but makes none.
LEMMA PlansMove ==
  ASSUME PlanInv, UNCHANGED <<type, forwarded>>,
         \A s \in Sessions : plan'[s] \in {None, plan[s]},
         \A t \in Threads : lplan'[t] \in {None, lplan[t]}
  PROVE  PlanInv'
  BY DEF PlanInv, OnlyWritesAreForwarded

LEMMA PlanStep == TypeOK /\ FreshInv /\ PlanInv /\ [Next]_vars => PlanInv'
  <1> SUFFICES ASSUME TypeOK, FreshInv, PlanInv, [Next]_vars PROVE PlanInv'
      OBVIOUS
  <1>1. ASSUME NEW t \in Threads, Classified(t)
        PROVE  PlanInv'
    <2>1. UNCHANGED <<plan, lplan, forwarded>>
      BY <1>1 DEF Classified, flow, ghosts
    <2>2. CASE UNCHANGED type
      BY <2>1, <2>2 DEF PlanInv, OnlyWritesAreForwarded
    <2>3. CASE \E k \in {"READ", "WRITE"} : type' = [type EXCEPT ![msg[t]] = k]
      <3>1. type[msg[t]] = "none"
        BY <1>1 DEF Classified, At, FreshInv, Unclassified
      <3>2. \A m \in Messages : type[m] = "WRITE" => type'[m] = "WRITE"
        BY <2>3, <3>1 DEF TypeOK
      <3>3. \A s \in Sessions : plan[s] \in Messages \cup {None}
        BY DEF TypeOK
      <3>4. \A u \in Threads : lplan[u] \in Messages \cup {None}
        BY DEF TypeOK
      <3> QED
        BY <2>1, <3>2, <3>3, <3>4 DEF PlanInv, OnlyWritesAreForwarded
    <2> QED
      BY <1>1, <2>2, <2>3 DEF Classified
  <1>2. ASSUME NEW t \in Threads, Work(t)
        PROVE  PlanInv'
    <2>1. UNCHANGED <<plan, type, forwarded>>
      BY <1>2 DEF Work, flow, ghosts
    <2>2. CASE UNCHANGED lplan
      BY <2>1, <2>2, PlansMove
    <2>3. CASE /\ type[lintent[t]] = "WRITE"
               /\ lplan' = [lplan EXCEPT ![t] = lintent[t]]
      BY <2>1, <2>3 DEF TypeOK, PlanInv, OnlyWritesAreForwarded
    <2> QED
      BY <1>2, <2>2, <2>3 DEF Work
  <1>3. ASSUME NEW t \in Threads, SetPlan(t)
        PROVE  PlanInv'
    <2>1. UNCHANGED <<lplan, type, forwarded>> /\ plan' = [plan EXCEPT ![gen] = lplan[t]]
      BY <1>3 DEF SetPlan, locals, memory, ghosts
    <2> QED
      BY <2>1 DEF TypeOK, PlanInv, OnlyWritesAreForwarded
  <1>4. ASSUME NEW t \in Threads, TakePlan(t)
        PROVE  PlanInv'
    <2>1. UNCHANGED <<plan, type, forwarded>> /\ lplan' = [lplan EXCEPT ![t] = plan[held[t]]]
      BY <1>4 DEF TakePlan, flow, ghosts
    <2>2. held[t] \in Sessions
      BY <1>4 DEF TakePlan, At, TypeOK, Needs
    <2> QED
      BY <2>1, <2>2 DEF TypeOK, PlanInv, OnlyWritesAreForwarded
  <1>5. ASSUME NEW t \in Threads, Submit(t)
        PROVE  PlanInv'
    <2>1. /\ UNCHANGED <<plan, type>>
          /\ lplan' = [lplan EXCEPT ![t] = None]
          /\ forwarded' = [forwarded EXCEPT ![lplan[t]] = @ + 1]
      BY <1>5 DEF Submit, Finish, flow, memory
    <2>2. type[lplan[t]] = "WRITE"
      BY <1>5 DEF Submit, At, TypeOK, Needs, PlanInv
    <2>3. OnlyWritesAreForwarded'
      BY <2>1, <2>2 DEF TypeOK, PlanInv, OnlyWritesAreForwarded
    <2> QED
      BY <2>1, <2>3 DEF TypeOK, PlanInv
  <1>6. ASSUME NEW t \in Threads, Correct(t) \/ ReadReset(t) \/ ForwardReset(t)
        PROVE  PlanInv'
    <2>1. UNCHANGED <<lplan, type, forwarded>> /\ plan' = [plan EXCEPT ![gen] = None]
      BY <1>6 DEF Correct, ReadReset, ForwardReset, ResetToIdle, locals, memory, ghosts
    <2> QED
      BY <2>1, PlansMove DEF TypeOK
  <1>7. ASSUME NEW t \in Threads, Say(t) \/ Clear(t)
        PROVE  PlanInv'
    <2>1. UNCHANGED <<plan, type, forwarded>>
      BY <1>7 DEF Say, Clear, flow, memory
    <2>2. UNCHANGED lplan \/ lplan' = [lplan EXCEPT ![t] = None]
      BY <1>7 DEF Say, Clear, Finish, locals
    <2> QED
      BY <2>1, <2>2, PlansMove DEF TypeOK
  <1>8. ASSUME NEW t \in Threads,
               \/ Event(t) \/ CheckProposing(t) \/ CheckPlanShown(t)
               \/ CheckIdle(t) \/ Classify(t) \/ Propose(t) \/ SetIntent(t)
               \/ ReadIntent(t) \/ ShowPlan(t) \/ LearnRisks(t)
               \/ Synthesize(t)
        PROVE  PlanInv'
    <2>1. UNCHANGED <<plan, lplan, type, forwarded>>
      BY <1>8 DEF Event, Receive, StartReset, CheckProposing, CheckPlanShown,
                  CheckIdle, Classify, Propose, SetIntent, ReadIntent, ShowPlan,
                  LearnRisks, Synthesize, flow, memory, locals, ghosts
    <2> QED
      BY <2>1, PlansMove
  <1>9. ASSUME Restart
        PROVE  PlanInv'
    BY <1>9, PlansMove DEF Restart, flow, memory
  <1>10. CASE UNCHANGED vars
    BY <1>10, PlansMove DEF vars, flow, memory, locals, ghosts
  <1> QED
    BY <1>1, <1>2, <1>3, <1>4, <1>5, <1>6, <1>7, <1>8, <1>9, <1>10
    DEF Next, Handler, Converse

\* Only a request classified as a WRITE ever becomes a batch, however many
\* messages are handled at once.
THEOREM OnlyWrites == Spec => []OnlyWritesAreForwarded
  <1>1. Init => FreshInv /\ PlanInv
    BY Numbers DEF Init, FreshInv, PlanInv, OnlyWritesAreForwarded, Unclassified, None
  <1>2. TypeOK /\ FreshInv /\ PlanInv /\ [Next]_vars => (FreshInv /\ PlanInv)'
    BY FreshStep, PlanStep
  <1>3. PlanInv => OnlyWritesAreForwarded
    BY DEF PlanInv
  <1> QED
    BY <1>1, <1>2, <1>3, TypeCorrect, PTL DEF Spec
=============================================================================
