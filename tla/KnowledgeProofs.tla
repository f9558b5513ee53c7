--------------------------- MODULE KnowledgeProofs --------------------------
(***************************************************************************)
(* Theorems about Knowledge, for any number of sessions that end, every    *)
(* content Claude may extract and every verdict.                           *)
(***************************************************************************)
EXTENDS Knowledge, FiniteSetTheorems, TLAPS

-----------------------------------------------------------------------------
(* Type correctness.                                                       *)

LEMMA FinitelyManyChunks ==
  ASSUME NEW S \in SUBSET Chunk
  PROVE  Cardinality(S) \in Nat
  <1>1. IsFiniteSet(Chunk)
    BY KnowledgeAssumption, FS_Product DEF Chunk
  <1> QED
    BY <1>1, FS_Subset, FS_CardinalityType

LEMMA TypeInit == Init => TypeOK
  BY DEF Init, TypeOK, PC

\* What the check of a chunk does, whatever came first and whatever failed.
LEMMA CheckOutcome ==
  ASSUME NEW e \in Ends, CheckChunk(e)
  PROVE  /\ UNCHANGED <<kept, pc, extracted, turn, failed, overlaps>>
         /\ pc[e] = "check"
         /\ \E c \in todo[e] :
               /\ todo' = [todo EXCEPT ![e] = @ \ {c}]
               /\ \/ /\ conflicts' = [conflicts EXCEPT ![e] = @ \cup {c}]
                     /\ UNCHANGED clean
                  \/ /\ clean' = [clean EXCEPT ![e] = @ \cup {c}]
                     /\ UNCHANGED conflicts
               /\ degraded' \in {degraded, degraded \cup {<<e, c>>}}
  <1>1. PICK c \in todo[e], rulesFail \in {FALSE, CallsFail},
             orgFails \in {FALSE, CallsFail}, verdictFails \in {FALSE, CallsFail} :
          LET existing == Existing(rulesFail, orgFails) IN
          /\ todo' = [todo EXCEPT ![e] = @ \ {c}]
          /\ \/ /\ ~ verdictFails
                /\ \E top \in Nearest(c, existing) : Conflicts(c, top)
                /\ conflicts' = [conflicts EXCEPT ![e] = @ \cup {c}]
                /\ UNCHANGED clean
             \/ /\ \/ verdictFails \/ existing = {}
                   \/ \E top \in Nearest(c, existing) : ~ Conflicts(c, top)
                /\ clean' = [clean EXCEPT ![e] = @ \cup {c}]
                /\ UNCHANGED conflicts
          /\ degraded' = IF rulesFail \/ orgFails \/ verdictFails
                           THEN degraded \cup {<<e, c>>} ELSE degraded
    BY DEF CheckChunk
  <1> QED
    BY <1>1 DEF CheckChunk, At

LEMMA TypeStep == TypeOK /\ [Next]_vars => TypeOK'
  <1> SUFFICES ASSUME TypeOK, [Next]_vars PROVE TypeOK'
      OBVIOUS
  <1> USE DEF TypeOK, PC, At, Goto, kept, locals, ghosts
  <1>1. ASSUME NEW e \in Ends, Start(e) PROVE TypeOK'
    <2>1. \A d \in Running : {e, d} \in SUBSET Ends
      BY DEF Running
    <2>2. overlaps' \subseteq SUBSET Ends
      BY <1>1, <2>1 DEF Start
    <2>3. pc' \in [Ends -> PC]
      BY <1>1 DEF Start
    <2> QED
      BY <1>1, <2>2, <2>3 DEF Start
  <1>2. ASSUME NEW e \in Ends, Extract(e) PROVE TypeOK'
    BY <1>2 DEF Extract, Raise
  <1>3. ASSUME NEW e \in Ends, CheckChunk(e) PROVE TypeOK'
    <2>1. PICK c \in todo[e] :
             /\ todo' = [todo EXCEPT ![e] = @ \ {c}]
             /\ \/ /\ conflicts' = [conflicts EXCEPT ![e] = @ \cup {c}]
                   /\ UNCHANGED clean
                \/ /\ clean' = [clean EXCEPT ![e] = @ \cup {c}]
                   /\ UNCHANGED conflicts
             /\ degraded' \in {degraded, degraded \cup {<<e, c>>}}
      BY <1>3, CheckOutcome
    <2>2. c \in Contents /\ <<e, c>> \in Chunk
      BY DEF Chunk
    <2>3. degraded' \subseteq Chunk
      BY <2>1, <2>2
    <2>4. /\ todo' \in [Ends -> SUBSET Contents]
          /\ clean' \in [Ends -> SUBSET Contents]
          /\ conflicts' \in [Ends -> SUBSET Contents]
      BY <2>1, <2>2
    <2>5. UNCHANGED <<kept, pc, extracted, turn, failed, overlaps>>
      BY <1>3, CheckOutcome
    <2> QED
      BY <2>3, <2>4, <2>5
  <1>4. ASSUME NEW e \in Ends, Checked(e) PROVE TypeOK'
    BY <1>4 DEF Checked
  <1>5. ASSUME NEW e \in Ends, AddOrgKnowledge(e) PROVE TypeOK'
    <2>1. stored' \subseteq Chunk /\ turn' \in [stored' -> Nat]
      <3>1. CASE UNCHANGED <<stored, turn>>
        BY <3>1
      <3>2. CASE /\ stored' = stored \cup ({e} \X clean[e])
                 /\ turn' = [k \in stored' |-> IF k \in stored THEN turn[k]
                                                               ELSE Cardinality(stored)]
        BY <3>2, FinitelyManyChunks DEF Chunk
      <3> QED
        BY <1>5, <3>1, <3>2 DEF AddOrgKnowledge
    <2>2. pc' \in [Ends -> PC] /\ failed' \subseteq Ends
      BY <1>5 DEF AddOrgKnowledge, Raise
    <2>3. UNCHANGED <<held, locals, extracted, degraded, overlaps>>
      BY <1>5 DEF AddOrgKnowledge
    <2> QED
      BY <2>1, <2>2, <2>3
  <1>6. ASSUME NEW e \in Ends, WriteConflicts(e) PROVE TypeOK'
    <2>1. held' \subseteq Chunk
      BY <1>6 DEF WriteConflicts, Chunk
    <2>2. pc' \in [Ends -> PC] /\ failed' \subseteq Ends
      BY <1>6 DEF WriteConflicts, Raise
    <2> QED
      BY <1>6, <2>1, <2>2 DEF WriteConflicts
  <1>7. ASSUME NEW e \in Ends, ClearSession(e) PROVE TypeOK'
    BY <1>7 DEF ClearSession
  <1>8. CASE Crash
    BY <1>8 DEF Crash
  <1>9. CASE UNCHANGED vars
    BY <1>9 DEF vars
  <1> QED
    BY <1>1, <1>2, <1>3, <1>4, <1>5, <1>6, <1>7, <1>8, <1>9 DEF Next, EndSession

\* Every variable keeps its type.
THEOREM TypeCorrect == Spec => []TypeOK
  <1>1. Init => TypeOK
    BY TypeInit
  <1>2. TypeOK /\ [Next]_vars => TypeOK'
    BY TypeStep
  <1> QED
    BY <1>1, <1>2, PTL DEF Spec

-----------------------------------------------------------------------------
(* Where the chunks of one end are.  clean and conflicts split what was    *)
(* checked so far; the store takes from the former, the table from the     *)
(* latter, and both completely unless an exception stops them.             *)

Split(e) ==
  /\ clean[e] \cap conflicts[e] = {}
  /\ todo[e] \cap (clean[e] \cup conflicts[e]) = {}
  /\ extracted[e] = todo[e] \cup clean[e] \cup conflicts[e]

Placed(e) ==
  /\ Share(stored, e) \subseteq clean[e]
  /\ Share(held, e) \subseteq conflicts[e]
  /\ pc[e] \in {"idle", "ask"} => clean[e] = {} /\ conflicts[e] = {} /\ todo[e] = {}
  /\ pc[e] \in {"add", "hold"} => todo[e] = {}
  /\ pc[e] = "hold" => clean[e] \subseteq Share(stored, e)
  /\ pc[e] \in {"clear", "done"} /\ e \notin failed =>
        /\ todo[e] = {}
        /\ clean[e] \subseteq Share(stored, e)
        /\ conflicts[e] \subseteq Share(held, e)

SplitInv == \A e \in Ends : Split(e) /\ Placed(e)

Mine(e, S) == {e} \X S

LEMMA ShareOfNew ==
  ASSUME NEW T, NEW d \in Ends, NEW S
  PROVE  /\ Share(T \cup Mine(d, S), d) = Share(T, d) \cup S
         /\ \A e \in Ends \ {d} : Share(T \cup Mine(d, S), e) = Share(T, e)
  <1> DEFINE U == T \cup Mine(d, S)
  <1>1. \A k : k \in U <=> k \in T \/ \E c \in S : k = <<d, c>>
    BY DEF Mine
  <1>2. \A c : <<d, c>>[1] = d /\ <<d, c>>[2] = c
    OBVIOUS
  <1> HIDE DEF U
  <1>3. Share(U, d) = Share(T, d) \cup S
    <2>1. \A x : x \in Share(U, d) <=> \E k \in U : k[1] = d /\ x = k[2]
      BY DEF Share
    <2>2. \A x : x \in Share(T, d) <=> \E k \in T : k[1] = d /\ x = k[2]
      BY DEF Share
    <2>3. ASSUME NEW x \in Share(U, d) PROVE x \in Share(T, d) \cup S
      <3>1. PICK k \in U : k[1] = d /\ x = k[2]
        BY <2>1
      <3>2. CASE k \in T
        BY <2>2, <3>1, <3>2
      <3>3. ASSUME NEW c \in S, k = <<d, c>> PROVE x \in S
        BY <3>1, <3>3
      <3> QED
        BY <1>1, <3>2, <3>3
    <2>4. ASSUME NEW x \in S PROVE x \in Share(U, d)
      BY <1>1, <1>2, <2>1
    <2>5. Share(T, d) \subseteq Share(U, d)
      BY <1>1, <2>1, <2>2
    <2> QED
      BY <2>3, <2>4, <2>5
  <1>4. \A e \in Ends \ {d} : Share(U, e) = Share(T, e)
    BY <1>1, <1>2 DEF Share
  <1> QED
    BY <1>3, <1>4 DEF U

LEMMA ShareOfOther ==
  ASSUME NEW T, NEW d, NEW S, NEW e, d # e
  PROVE  Share(T \cup Mine(d, S), e) = Share(T, e)
  <1>1. \A k \in Mine(d, S) : k[1] = d
    BY DEF Mine
  <1> QED
    BY <1>1 DEF Share

LEMMA SplitInit == Init => SplitInv
  BY DEF Init, SplitInv, Split, Placed, Share

LEMMA SplitStep == TypeOK /\ SplitInv /\ [Next]_vars => SplitInv'
  <1> SUFFICES ASSUME TypeOK, SplitInv, [Next]_vars, NEW e \in Ends
               PROVE  (Split(e) /\ Placed(e))'
      BY DEF SplitInv
  <1>t. Split(e) /\ Placed(e)
    BY DEF SplitInv
  <1> DEFINE Same == /\ pc'[e] = pc[e] /\ todo'[e] = todo[e]
                     /\ clean'[e] = clean[e] /\ conflicts'[e] = conflicts[e]
                     /\ extracted'[e] = extracted[e]
                     /\ Share(stored, e)' = Share(stored, e)
                     /\ Share(held, e)' = Share(held, e)
                     /\ (e \in failed' <=> e \in failed)
  <1>s. Same => (Split(e) /\ Placed(e))'
    BY <1>t DEF Split, Placed
  <1> USE DEF TypeOK, At, Goto, kept, locals, ghosts
  <1>1. ASSUME NEW d \in Ends, Start(d) PROVE (Split(e) /\ Placed(e))'
    <2>1. CASE d = e
      BY <1>t, <1>1, <2>1 DEF Start, Split, Placed, Share
    <2>2. CASE d # e
      BY <1>s, <1>1, <2>2 DEF Start, Share
    <2> QED
      BY <2>1, <2>2
  <1>2. ASSUME NEW d \in Ends, Extract(d) PROVE (Split(e) /\ Placed(e))'
    <2>1. CASE d = e
      BY <1>t, <1>2, <2>1 DEF Extract, Raise, Split, Placed, Share
    <2>2. CASE d # e
      BY <1>s, <1>2, <2>2 DEF Extract, Raise, Share
    <2> QED
      BY <2>1, <2>2
  <1>3. ASSUME NEW d \in Ends, CheckChunk(d) PROVE (Split(e) /\ Placed(e))'
    <2>1. PICK c \in todo[d] :
             /\ todo' = [todo EXCEPT ![d] = @ \ {c}]
             /\ \/ /\ conflicts' = [conflicts EXCEPT ![d] = @ \cup {c}]
                   /\ UNCHANGED clean
                \/ /\ clean' = [clean EXCEPT ![d] = @ \cup {c}]
                   /\ UNCHANGED conflicts
      BY <1>3, CheckOutcome
    <2>2. UNCHANGED <<stored, held, pc, extracted, failed>> /\ pc[d] = "check"
      BY <1>3, CheckOutcome
    <2>3. CASE d = e
      BY <1>t, <2>1, <2>2, <2>3 DEF Split, Placed, Share
    <2>4. CASE d # e
      BY <1>s, <2>1, <2>2, <2>4 DEF Share
    <2> QED
      BY <2>3, <2>4
  <1>4. ASSUME NEW d \in Ends, Checked(d) PROVE (Split(e) /\ Placed(e))'
    BY <1>t, <1>4 DEF Checked, Split, Placed, Share
  <1>5. ASSUME NEW d \in Ends, AddOrgKnowledge(d) PROVE (Split(e) /\ Placed(e))'
    <2>1. CASE stored' = stored \cup Mine(d, clean[d]) /\ Goto(d, "hold") /\ UNCHANGED failed
      <3>1. CASE d = e
        BY <1>t, <1>5, <2>1, <3>1, ShareOfNew DEF AddOrgKnowledge, Split, Placed
      <3>2. CASE d # e
        BY <1>s, <1>5, <2>1, <3>2, ShareOfNew DEF AddOrgKnowledge, Share
      <3> QED
        BY <3>1, <3>2
    <2>2. CASE Raise(d) /\ UNCHANGED stored
      BY <1>t, <1>5, <2>2 DEF AddOrgKnowledge, Raise, Split, Placed, Share
    <2> QED
      BY <1>5, <2>1, <2>2 DEF AddOrgKnowledge, Mine
  <1>6. ASSUME NEW d \in Ends, WriteConflicts(d) PROVE (Split(e) /\ Placed(e))'
    <2>1. PICK cs \in SUBSET conflicts[d] :
             /\ held' = held \cup Mine(d, cs)
             /\ pc' = [pc EXCEPT ![d] = "clear"]
             /\ \/ cs = conflicts[d] /\ UNCHANGED failed
                \/ failed' = failed \cup {d}
      BY <1>6 DEF WriteConflicts, Raise, Mine
    <2>2. UNCHANGED <<stored, locals, extracted>> /\ pc[d] = "hold"
      BY <1>6 DEF WriteConflicts
    <2>3. CASE d = e
      <3>1. pc'[e] = "clear" /\ (e \in failed' \/ cs = conflicts[e])
        BY <2>1, <2>3
      <3>2. UNCHANGED <<todo[e], clean[e], conflicts[e], extracted[e]>>
        BY <2>2
      <3>3. Share(held, e)' = Share(held, e) \cup cs
        <4>1. Share(held \cup Mine(d, cs), d) = Share(held, d) \cup cs
          BY ShareOfNew
        <4> QED
          BY <2>1, <2>3, <4>1 DEF Share
      <3>4. Share(stored, e)' = Share(stored, e)
        BY <2>2 DEF Share
      <3>5. cs \subseteq conflicts[e]
        BY <2>1, <2>3
      <3>6. todo[e] = {} /\ clean[e] \subseteq Share(stored, e)
        BY <1>t, <2>2, <2>3 DEF Placed
      <3>7. Split(e)'
        BY <1>t, <3>2 DEF Split
      <3>8. Placed(e)'
        BY <1>t, <3>1, <3>2, <3>3, <3>4, <3>5, <3>6 DEF Placed
      <3> QED
        BY <3>7, <3>8
    <2>4. CASE d # e
      <3>1. Share(held \cup Mine(d, cs), e) = Share(held, e)
        BY <2>4, ShareOfOther
      <3>2. Share(held, e)' = Share(held, e)
        BY <2>1, <3>1 DEF Share
      <3>3. Share(stored, e)' = Share(stored, e)
        BY <2>2 DEF Share
      <3>4. pc'[e] = pc[e] /\ (e \in failed' <=> e \in failed)
        BY <2>1, <2>4
      <3>5. /\ todo'[e] = todo[e] /\ clean'[e] = clean[e]
            /\ conflicts'[e] = conflicts[e] /\ extracted'[e] = extracted[e]
        BY <2>2
      <3> QED
        BY <1>s, <3>2, <3>3, <3>4, <3>5
    <2> QED
      BY <2>3, <2>4
  <1>7. ASSUME NEW d \in Ends, ClearSession(d) PROVE (Split(e) /\ Placed(e))'
    BY <1>t, <1>7 DEF ClearSession, Split, Placed, Share
  <1>8. CASE Crash
    BY <1>t, <1>8 DEF Crash, Running, Split, Placed, Share
  <1>9. CASE UNCHANGED vars
    BY <1>s, <1>9 DEF vars, Share
  <1> QED
    BY <1>1, <1>2, <1>3, <1>4, <1>5, <1>6, <1>7, <1>8, <1>9 DEF Next, EndSession

\* No chunk of a session is both stored and held for review, and none is lost when
\* the session is cleared, unless an exception cut its end short.
THEOREM NothingIsLost == Spec => []ChunksAreAccountedFor
  <1>1. Init => TypeOK /\ SplitInv
    BY TypeInit, SplitInit
  <1>2. TypeOK /\ SplitInv /\ [Next]_vars => (TypeOK /\ SplitInv)'
    BY TypeStep, SplitStep
  <1>3. SplitInv => ChunksAreAccountedFor
    BY DEF SplitInv, Split, Placed, ChunksAreAccountedFor
  <1> QED
    BY <1>1, <1>2, <1>3, PTL DEF Spec

-----------------------------------------------------------------------------
(* Why a stored chunk may clash.  When a chunk is found clean, by a check   *)
(* that saw every text, none of them clashes with it but those the check   *)
(* does not get to.  What is stored after that comes from its own session, *)
(* or from one that ran at the same time, until the chunk is stored.       *)

Unwritten == {"idle", "ask", "check", "add"}

\* What was known when k was stored, or is known while it is not.
Known(k) == IF k \in stored THEN KnownBefore(k) ELSE Existing(FALSE, FALSE)

Original(k) ==
  /\ \A r \in Rulebook : Clashes(k[2], r) => Missed(k[2], r, Known(k))
  /\ \A m \in stored : Clashes(k[2], m[2]) =>
        \/ m[1] = k[1]
        \/ {k[1], m[1]} \in overlaps
        \/ Missed(k[2], m[2], Known(k))
        \/ k \in stored /\ turn[k] < turn[m]

Relevant(k) ==
  k[2] \in clean[k[1]] /\ (k \in stored \/ pc[k[1]] \in {"check", "add"})

CauseInv ==
  /\ \A d, e \in Running : d # e => {d, e} \in overlaps
  /\ \A k \in stored : pc[k[1]] \notin Unwritten /\ turn[k] < Cardinality(stored)
  /\ \A k \in Chunk : Relevant(k) => k \in degraded \/ Original(k)

LEMMA MissedGrows ==
  ASSUME NEW c, NEW d, NEW S, NEW T, S \subseteq T, Missed(c, d, S)
  PROVE  Missed(c, d, T)
  BY DEF Missed

\* The check of a chunk sees every text, and of those that clash with it misses only
\* what is too far away or no nearer than one that does not; or else the chunk is
\* degraded, or held.
LEMMA CheckFinds ==
  ASSUME TypeOK, NEW e \in Ends, CheckChunk(e)
  PROVE  \E c \in todo[e] :
            /\ \/ clean' = [clean EXCEPT ![e] = @ \cup {c}]
               \/ UNCHANGED clean
            /\ degraded \subseteq degraded'
            /\ clean' = clean \/ <<e, c>> \in degraded'
                  \/ \A d \in Existing(FALSE, FALSE) :
                        Clashes(c, d) => Missed(c, d, Existing(FALSE, FALSE))
  <1>1. PICK c \in todo[e], rulesFail \in {FALSE, CallsFail},
             orgFails \in {FALSE, CallsFail}, verdictFails \in {FALSE, CallsFail} :
          LET existing == Existing(rulesFail, orgFails) IN
          /\ todo' = [todo EXCEPT ![e] = @ \ {c}]
          /\ \/ /\ ~ verdictFails
                /\ \E top \in Nearest(c, existing) : Conflicts(c, top)
                /\ conflicts' = [conflicts EXCEPT ![e] = @ \cup {c}]
                /\ UNCHANGED clean
             \/ /\ \/ verdictFails \/ existing = {}
                   \/ \E top \in Nearest(c, existing) : ~ Conflicts(c, top)
                /\ clean' = [clean EXCEPT ![e] = @ \cup {c}]
                /\ UNCHANGED conflicts
          /\ degraded' = IF rulesFail \/ orgFails \/ verdictFails
                           THEN degraded \cup {<<e, c>>} ELSE degraded
    BY DEF CheckChunk
  <1>2. ASSUME <<e, c>> \notin degraded', clean' # clean,
               NEW d \in Existing(FALSE, FALSE), Clashes(c, d)
        PROVE  Missed(c, d, Existing(FALSE, FALSE))
    <2>1. rulesFail = FALSE /\ orgFails = FALSE /\ verdictFails = FALSE
      BY <1>1, <1>2, KnowledgeAssumption
    <2>2. PICK top \in Nearest(c, Existing(FALSE, FALSE)) : ~ Conflicts(c, top)
      BY <1>1, <1>2, <2>1
    <2>3. top \in Existing(FALSE, FALSE) /\ Distance[c, top] <= Distance[c, d]
      BY <1>2, <2>2 DEF Nearest
    <2>4. CASE ~ Clashes(c, top)
      BY <2>3, <2>4 DEF Missed
    <2>5. CASE Clashes(c, top)
      <3>1. Verdict(c, top) # "fine"
        BY <2>5 DEF Verdict, Clashes
      <3>2. ~ Distance[c, top] <= SkipDistance
        BY <2>2, <3>1 DEF Conflicts
      <3>3. c \in Texts /\ d \in Texts /\ top \in Texts
        <4>1. \A k \in stored : k[2] \in Contents
          BY DEF TypeOK, Chunk
        <4>2. Existing(FALSE, FALSE) \subseteq Texts
          BY <4>1 DEF Existing, Query, QueryOrgKnowledge, Texts
        <4> QED
          BY <1>2, <2>3, <4>2 DEF TypeOK, Texts
      <3>4. Distance[c, top] \in Nat /\ Distance[c, d] \in Nat /\ SkipDistance \in Nat
        BY <3>3, KnowledgeAssumption
      <3>5. Distance[c, d] > SkipDistance
        <4>1. \A a, b, s \in Nat : ~ a <= s /\ a <= b => b > s
          OBVIOUS
        <4> QED
          BY <2>3, <3>2, <3>4, <4>1
      <3> QED
        BY <3>5 DEF Missed
    <2> QED
      BY <2>4, <2>5
  <1>3. /\ \/ clean' = [clean EXCEPT ![e] = @ \cup {c}]
           \/ UNCHANGED clean
        /\ degraded \subseteq degraded'
    BY <1>1
  <1> QED
    BY <1>2, <1>3

\* A step that stores nothing: what a chunk relies on stays true.
LEMMA CauseStays ==
  ASSUME TypeOK, CauseInv, UNCHANGED <<stored, turn>>,
         overlaps \subseteq overlaps', degraded \subseteq degraded',
         \A d, e \in Running' : d # e => {d, e} \in overlaps',
         \A k \in stored : pc'[k[1]] \notin Unwritten,
         \A k \in Chunk : Relevant(k)' => Relevant(k) \/ k \in degraded' \/ Original(k)'
  PROVE  CauseInv'
  <1>1. \A k : Known(k)' = Known(k)
    BY DEF Known, KnownBefore, Existing, Query, QueryOrgKnowledge
  <1>2. \A k \in Chunk : Original(k) => Original(k)'
    BY <1>1 DEF Original, Missed
  <1>3. (\A k \in stored : turn[k] < Cardinality(stored))'
    BY DEF CauseInv
  <1> QED
    BY <1>2, <1>3 DEF CauseInv

LEMMA CauseStep == TypeOK /\ SplitInv /\ CauseInv /\ [Next]_vars => CauseInv'
  <1> SUFFICES ASSUME TypeOK, SplitInv, CauseInv, [Next]_vars PROVE CauseInv'
      OBVIOUS
  <1>a. /\ \A d, e \in Running : d # e => {d, e} \in overlaps
        /\ \A k \in stored : pc[k[1]] \notin Unwritten
        /\ \A k \in Chunk : k[1] \in Ends /\ k[2] \in Contents
        /\ stored \subseteq Chunk
    BY DEF CauseInv, Chunk, TypeOK
  <1>1. ASSUME NEW e \in Ends, Start(e) PROVE CauseInv'
    <2>1. /\ pc[e] = "idle" /\ UNCHANGED <<stored, turn, clean, degraded>>
          /\ overlaps' = overlaps \cup {{e, d} : d \in Running}
          /\ pc' = [pc EXCEPT ![e] = "ask"] \/ pc' = [pc EXCEPT ![e] = "clear"]
      BY <1>1 DEF Start, At, Goto, kept, locals
    <2>2. Running' = Running \cup {e}
      BY <2>1 DEF Running, TypeOK
    <2>3. \A d, f \in Running' : d # f => {d, f} \in overlaps'
      <3>1. \A d \in Running : {e, d} \in overlaps' /\ {d, e} \in overlaps'
        BY <2>1
      <3> QED
        BY <1>a, <2>1, <2>2, <3>1
    <2>4. \A k \in stored : pc'[k[1]] \notin Unwritten
      BY <1>a, <2>1 DEF TypeOK, Unwritten
    <2>5. \A k \in Chunk : Relevant(k)' => Relevant(k)
      BY <1>a, <2>1 DEF Relevant, TypeOK
    <2> QED
      BY <2>1, <2>3, <2>4, <2>5, CauseStays
  <1>2. ASSUME NEW e \in Ends, Extract(e) PROVE CauseInv'
    <2>1. /\ pc[e] = "ask" /\ UNCHANGED <<stored, turn, clean, overlaps, degraded>>
          /\ pc' = [pc EXCEPT ![e] = "check"] \/ pc' = [pc EXCEPT ![e] = "clear"]
      BY <1>2 DEF Extract, Raise, At, Goto, kept
    <2>2. clean[e] = {}
      BY <2>1 DEF SplitInv, Placed
    <2>3. Running' = Running
      BY <2>1 DEF Running, TypeOK
    <2>4. \A k \in stored : pc'[k[1]] \notin Unwritten
      BY <1>a, <2>1 DEF TypeOK, Unwritten
    <2>5. \A k \in Chunk : Relevant(k)' => Relevant(k)
      BY <1>a, <2>1, <2>2 DEF Relevant, TypeOK
    <2> QED
      BY <1>a, <2>1, <2>3, <2>4, <2>5, CauseStays
  <1>3. ASSUME NEW e \in Ends, CheckChunk(e) PROVE CauseInv'
    <2>1. UNCHANGED <<stored, pc, turn, overlaps>> /\ pc[e] = "check"
      BY <1>3 DEF CheckChunk, At, kept
    <2>2. PICK c \in todo[e] :
            /\ \/ clean' = [clean EXCEPT ![e] = @ \cup {c}]
               \/ UNCHANGED clean
            /\ degraded \subseteq degraded'
            /\ clean' = clean \/ <<e, c>> \in degraded'
                  \/ \A d \in Existing(FALSE, FALSE) :
                        Clashes(c, d) => Missed(c, d, Existing(FALSE, FALSE))
      BY <1>3, CheckFinds
    <2>3. ASSUME NEW k \in Chunk, Relevant(k)'
          PROVE  Relevant(k) \/ k \in degraded' \/ Original(k)'
      <3>1. CASE clean' = clean \/ k # <<e, c>>
        BY <1>a, <2>1, <2>2, <2>3, <3>1 DEF Relevant, TypeOK, Chunk
      <3>2. CASE clean' # clean /\ k = <<e, c>>
        <4>1. k \notin stored
          BY <1>a, <2>1, <3>2 DEF Unwritten
        <4>2. Known(k)' = Existing(FALSE, FALSE)
          BY <2>1, <4>1 DEF Known, Existing, Query, QueryOrgKnowledge
        <4>3. CASE \A d \in Known(k)' : Clashes(k[2], d) => Missed(k[2], d, Known(k)')
          <5>1. Rulebook \subseteq Known(k)' /\ \A m \in stored : m[2] \in Known(k)'
            BY <4>2 DEF Existing, Query, QueryOrgKnowledge
          <5> QED
            BY <2>1, <4>3, <5>1 DEF Original, Missed
        <4> QED
          BY <2>2, <3>2, <4>2, <4>3
      <3> QED
        BY <3>1, <3>2
    <2>4. Running' = Running
      BY <2>1 DEF Running
    <2> QED
      BY <1>a, <2>1, <2>2, <2>3, <2>4, CauseStays
  <1>4. ASSUME NEW e \in Ends, Checked(e) PROVE CauseInv'
    <2>1. /\ pc[e] = "check" /\ pc' = [pc EXCEPT ![e] = "add"]
          /\ UNCHANGED <<stored, turn, clean, overlaps, degraded>>
      BY <1>4 DEF Checked, At, Goto, kept, locals, ghosts
    <2>2. Running' = Running
      BY <2>1 DEF Running, TypeOK
    <2>3. \A k \in stored : pc'[k[1]] \notin Unwritten
      BY <1>a, <2>1 DEF TypeOK, Unwritten
    <2>4. \A k \in Chunk : Relevant(k)' => Relevant(k)
      BY <1>a, <2>1 DEF Relevant, TypeOK
    <2> QED
      BY <1>a, <2>1, <2>2, <2>3, <2>4, CauseStays
  <1>5. ASSUME NEW e \in Ends, AddOrgKnowledge(e) PROVE CauseInv'
    <2>1. pc[e] = "add" /\ UNCHANGED <<clean, overlaps, degraded>>
      BY <1>5 DEF AddOrgKnowledge, At, locals
    <2>2. CASE Raise(e) /\ UNCHANGED <<stored, turn>>
      <3>1. pc' = [pc EXCEPT ![e] = "clear"]
        BY <2>2 DEF Raise, Goto
      <3>2. Running' = Running
        BY <2>1, <3>1 DEF Running, TypeOK
      <3>3. \A k \in stored : pc'[k[1]] \notin Unwritten
        BY <1>a, <2>1, <3>1 DEF TypeOK, Unwritten
      <3>4. \A k \in Chunk : Relevant(k)' => Relevant(k)
        BY <1>a, <2>1, <2>2, <3>1 DEF Relevant, TypeOK
      <3> QED
        BY <1>a, <2>1, <2>2, <3>2, <3>3, <3>4, CauseStays
    <2>3. CASE /\ stored' = stored \cup Mine(e, clean[e])
               /\ turn' = [k \in stored' |-> IF k \in stored THEN turn[k]
                                                             ELSE Cardinality(stored)]
               /\ pc' = [pc EXCEPT ![e] = "hold"]
      <3>1. \A k \in stored : k[1] # e
        BY <1>a, <2>1 DEF Unwritten
      <3>2. \A k \in stored' : k \in Chunk /\ (k \in stored \/ (k[1] = e /\ k[2] \in clean[e]))
        BY <1>a, <2>3 DEF Mine, TypeOK, Chunk
      <3>3. /\ Cardinality(stored) \in Nat /\ Cardinality(stored') \in Nat
            /\ Cardinality(stored) <= Cardinality(stored')
            /\ stored' # stored => Cardinality(stored) < Cardinality(stored')
        <4>1. stored' \subseteq Chunk /\ stored \subseteq stored'
          BY <2>3, <3>2
        <4>2. IsFiniteSet(stored')
          BY <4>1, KnowledgeAssumption, FS_Product, FS_Subset DEF Chunk
        <4> QED
          BY <4>1, <4>2, FS_Subset, FS_CardinalityType
      <3>4. \A k \in stored : turn'[k] = turn[k] /\ turn[k] \in Nat
                               /\ turn[k] < Cardinality(stored)
        BY <2>3 DEF TypeOK, CauseInv
      <3>5. \A k \in stored' \ stored : turn'[k] = Cardinality(stored)
        BY <2>3
      <3>6. Running' = Running
        BY <2>1, <2>3 DEF Running, TypeOK
      <3>7. ASSUME NEW k \in stored'
            PROVE  pc'[k[1]] \notin Unwritten /\ turn'[k] < Cardinality(stored')
        <4>1. pc'[k[1]] \notin Unwritten
          BY <1>a, <2>3, <3>2 DEF Unwritten, TypeOK
        <4>2. turn'[k] < Cardinality(stored')
          BY <3>3, <3>4, <3>5
        <4> QED
          BY <4>1, <4>2
      <3>8. ASSUME NEW k \in Chunk PROVE Known(k) \subseteq Known(k)'
        <4>1. stored \subseteq stored'
          BY <2>3
        <4>2. CASE k \in stored
          BY <3>4, <4>1, <4>2 DEF Known, KnownBefore
        <4>3. CASE k \in stored' /\ k \notin stored
          <5>1. \A m \in stored : m \in stored' /\ turn'[m] < turn'[k]
            BY <3>4, <3>5, <4>1, <4>3
          <5>2. Known(k) = Rulebook \cup {m[2] : m \in stored}
            BY <4>3 DEF Known, Existing, Query, QueryOrgKnowledge
          <5>3. Known(k)' = Rulebook \cup {m[2] : m \in {m \in stored' : turn'[m] < turn'[k]}}
            BY <4>3 DEF Known, KnownBefore
          <5> QED
            BY <5>1, <5>2, <5>3
        <4>4. CASE k \notin stored'
          BY <4>1, <4>4 DEF Known, Existing, Query, QueryOrgKnowledge
        <4> QED
          BY <4>2, <4>3, <4>4
      <3>9. ASSUME NEW k \in Chunk, Relevant(k)', k \notin degraded'
            PROVE  Original(k)'
        <4>1. Relevant(k)
          BY <1>a, <2>1, <2>3, <3>2, <3>9 DEF Relevant, TypeOK
        <4>2. Original(k)
          BY <2>1, <3>9, <4>1 DEF CauseInv
        <4>3. \A d : Missed(k[2], d, Known(k)) => Missed(k[2], d, Known(k)')
          BY <3>8, MissedGrows
        <4>4. ASSUME NEW m \in stored', Clashes(k[2], m[2])
              PROVE  \/ m[1] = k[1]
                     \/ {k[1], m[1]} \in overlaps
                     \/ Missed(k[2], m[2], Known(k)')
                     \/ k \in stored' /\ turn'[k] < turn'[m]
          <5>1. CASE m \in stored
            BY <2>3, <3>4, <4>2, <4>3, <4>4, <5>1 DEF Original
          <5>2. CASE m \notin stored /\ k \in stored
            BY <2>3, <3>4, <3>5, <5>2
          <5>3. CASE m \notin stored /\ k \notin stored /\ k \in stored'
            BY <3>2, <5>3
          <5>4. CASE m \notin stored /\ k \notin stored'
            <6>1. m[1] = e
              BY <3>2, <5>4
            <6>2. pc'[k[1]] \in {"check", "add"}
              BY <3>9, <5>4 DEF Relevant
            <6>3. k[1] # e /\ pc[k[1]] \in {"check", "add"}
              BY <1>a, <2>3, <6>2 DEF TypeOK
            <6>4. k[1] \in Running /\ e \in Running
              BY <1>a, <2>1, <6>3 DEF Running
            <6> QED
              BY <1>a, <6>1, <6>3, <6>4
          <5> QED
            BY <5>1, <5>2, <5>3, <5>4
        <4>5. \A r \in Rulebook : Clashes(k[2], r) => Missed(k[2], r, Known(k)')
          BY <4>2, <4>3 DEF Original
        <4> QED
          BY <2>1, <4>4, <4>5 DEF Original, Missed
      <3> QED
        BY <1>a, <2>1, <3>6, <3>7, <3>9 DEF CauseInv
    <2> QED
      BY <1>5, <2>2, <2>3 DEF AddOrgKnowledge, Mine, Goto
  <1>6. ASSUME NEW e \in Ends, WriteConflicts(e) \/ ClearSession(e) PROVE CauseInv'
    <2>1. /\ pc[e] \in {"hold", "clear"}
          /\ UNCHANGED <<stored, turn, clean, overlaps, degraded>>
          /\ pc' = [pc EXCEPT ![e] = "clear"] \/ pc' = [pc EXCEPT ![e] = "done"]
      BY <1>6 DEF WriteConflicts, ClearSession, Raise, At, Goto, kept, locals, ghosts
    <2>2. Running' \subseteq Running
      BY <2>1 DEF Running, TypeOK
    <2>3. \A k \in stored : pc'[k[1]] \notin Unwritten
      BY <1>a, <2>1 DEF TypeOK, Unwritten
    <2>4. \A k \in Chunk : Relevant(k)' => Relevant(k)
      BY <1>a, <2>1 DEF Relevant, TypeOK
    <2> QED
      BY <1>a, <2>1, <2>2, <2>3, <2>4, CauseStays
  <1>7. CASE Crash
    <2>1. /\ pc' = [e \in Ends |-> IF e \in Running THEN "dead" ELSE pc[e]]
          /\ UNCHANGED <<stored, turn, clean, overlaps, degraded>>
      BY <1>7 DEF Crash, kept, locals, ghosts
    <2>2. Running' = {}
      BY <2>1 DEF Running
    <2>3. \A k \in stored : pc'[k[1]] \notin Unwritten
      BY <1>a, <2>1 DEF TypeOK, Unwritten
    <2>4. \A k \in Chunk : Relevant(k)' => Relevant(k)
      BY <1>a, <2>1 DEF Relevant, TypeOK
    <2> QED
      BY <2>1, <2>2, <2>3, <2>4, CauseStays
  <1>8. CASE UNCHANGED vars
    <2>1. UNCHANGED <<stored, turn, clean, overlaps, degraded, pc>>
      BY <1>8 DEF vars, kept, locals, ghosts
    <2> QED
      BY <1>a, <2>1, CauseStays DEF Running, Relevant
  <1> QED
    BY <1>1, <1>2, <1>3, <1>4, <1>5, <1>6, <1>7, <1>8 DEF Next, EndSession

\* A stored chunk contradicts or repeats a rule, or a chunk stored before it or with
\* it, for five causes only: a query or the verdict of its check failed; the two come
\* from sessions that ended at the same time, or from one session; a text that does
\* not clash was as near; or the text is beyond _CONFLICT_SKIP_DISTANCE.
THEOREM NoClashWithoutACause == Spec => []ClashesHaveACause
  <1>1. Init => TypeOK /\ SplitInv /\ CauseInv
    <2>1. Init => CauseInv
      BY DEF Init, CauseInv, Running, Relevant, Chunk
    <2> QED
      BY <2>1, TypeInit, SplitInit
  <1>2. TypeOK /\ SplitInv /\ CauseInv /\ [Next]_vars => (TypeOK /\ SplitInv /\ CauseInv)'
    BY TypeStep, SplitStep, CauseStep
  <1>3. TypeOK /\ SplitInv /\ CauseInv => ClashesHaveACause
    <2> SUFFICES ASSUME TypeOK, SplitInv, CauseInv, NEW k \in stored, k \notin degraded
                 PROVE  /\ \A r \in Rulebook :
                              Clashes(k[2], r) => Missed(k[2], r, KnownBefore(k))
                        /\ \A m \in stored :
                              turn[m] <= turn[k] /\ Clashes(k[2], m[2]) =>
                                 \/ m[1] = k[1]
                                 \/ {k[1], m[1]} \in overlaps
                                 \/ Missed(k[2], m[2], KnownBefore(k))
      BY DEF ClashesHaveACause
    <2>1. k \in Chunk /\ k[1] \in Ends
      BY DEF TypeOK, Chunk
    <2>2. k[2] \in clean[k[1]]
      BY <2>1 DEF SplitInv, Placed, Share
    <2>3. Original(k) /\ Known(k) = KnownBefore(k)
      BY <2>1, <2>2 DEF CauseInv, Relevant, Known
    <2>4. \A m \in stored : turn[m] \in Nat
      BY DEF TypeOK
    <2> QED
      BY <2>3, <2>4 DEF Original
  <1> QED
    BY <1>1, <1>2, <1>3, PTL DEF Spec
=============================================================================
