----------------------------- MODULE Knowledge ------------------------------
(***************************************************************************)
(* What outlives a session: end_session (orchestrator/core) lets Claude    *)
(* extract chunks of knowledge from it (knowledge/synthesizer), compares   *)
(* each with what is known already, and adds it to the collection          *)
(* org_knowledge (knowledge/loader) or holds it for a coworker in the      *)
(* table knowledge_conflicts (knowledge/conflicts).                        *)
(*                                                                         *)
(* Each /reset runs on a thread of its own, so that the ends of several    *)
(* sessions, or of one session twice, overlap; a step is a call of Claude, *)
(* of the vector store or of the database.                                 *)
(*                                                                         *)
(* The content of a chunk is the set of claims it makes, pairs of a topic  *)
(* and what is said about it.  Claude is taken at its word: when a verdict *)
(* comes, it is right about the two texts it was shown.  How far apart the *)
(* vector store sees two texts is given, and bound to nothing they say.    *)
(***************************************************************************)
EXTENDS Naturals, FiniteSets

CONSTANTS
    Ends,       \* the calls of end_session
    Contents,   \* what Claude may extract: sets of claims
    Rulebook,   \* the contents of asoka_knowledge, from rules.md
    Distance,   \* of a text that is searched for from a text that is found
    SkipDistance, \* _CONFLICT_SKIP_DISTANCE
    MaxChunks,  \* bound: chunks extracted from one session
    CallsFail   \* whether Claude, the vector store and the database may raise

Texts == Contents \cup Rulebook

\* A content says at most one thing about a topic.
Consistent(c) == \A p, q \in c : p[1] = q[1] => p = q

ASSUME KnowledgeAssumption == /\ \A c \in Texts : Consistent(c)
                              /\ {} \notin Contents
                              /\ IsFiniteSet(Contents) /\ IsFiniteSet(Ends)
                              /\ Distance \in [Texts \X Texts -> Nat]
                              /\ SkipDistance \in Nat /\ MaxChunks \in Nat
                              /\ CallsFail \in BOOLEAN

Chunk == Ends \X Contents

VARIABLES
    stored,     \* the collection org_knowledge: chunks
    held        \* the table knowledge_conflicts: chunks

VARIABLES
    pc,         \* where each end_session is; "dead" when the process died
    todo,       \* raw_chunks it has not checked yet
    clean,      \* chunks found safe to write
    conflicts   \* chunks found to conflict

(* History variables, which no step reads.                                 *)
VARIABLES
    extracted,  \* the chunks Claude extracted for each end
    turn,       \* turn[k]: how many chunks were stored before chunk k
    failed,     \* ends that met an exception
    degraded,   \* chunks for whose check a query or the verdict failed
    overlaps    \* pairs of ends that ran at the same time

kept == <<stored, held>>
locals == <<todo, clean, conflicts>>
ghosts == <<extracted, turn, failed, degraded, overlaps>>
vars == <<kept, pc, locals, ghosts>>

PC == {"idle", "ask", "check", "add", "hold", "clear", "done", "dead"}

TypeOK ==
    /\ stored \subseteq Chunk
    /\ held \subseteq Chunk
    /\ pc \in [Ends -> PC]
    /\ todo \in [Ends -> SUBSET Contents]
    /\ clean \in [Ends -> SUBSET Contents]
    /\ conflicts \in [Ends -> SUBSET Contents]
    /\ extracted \in [Ends -> SUBSET Contents]
    /\ turn \in [stored -> Nat]
    /\ failed \subseteq Ends
    /\ degraded \subseteq Chunk
    /\ overlaps \subseteq SUBSET Ends

Init ==
    /\ stored = {}
    /\ held = {}
    /\ pc = [e \in Ends |-> "idle"]
    /\ todo = [e \in Ends |-> {}]
    /\ clean = [e \in Ends |-> {}]
    /\ conflicts = [e \in Ends |-> {}]
    /\ extracted = [e \in Ends |-> {}]
    /\ turn = [k \in {} |-> 0]
    /\ failed = {}
    /\ degraded = {}
    /\ overlaps = {}

At(e, p) == pc[e] = p

Goto(e, p) == pc' = [pc EXCEPT ![e] = p]

Running == {e \in Ends : pc[e] \notin {"idle", "done", "dead"}}

\* Any exception is caught by end_session, which goes on to clear_session.
Raise(e) == CallsFail /\ Goto(e, "clear") /\ failed' = failed \cup {e}

-----------------------------------------------------------------------------
(* query_all_knowledge: both collections, the nearest text first.  A query *)
(* that raises counts as one without results.                              *)

Contradicts(c, d) == \E p \in c, q \in d : p[1] = q[1] /\ p # q

Query(fails) == IF fails THEN {} ELSE Rulebook

QueryOrgKnowledge(fails) == IF fails THEN {} ELSE {k[2] : k \in stored}

\* Mutant: only the rules are searched.
Existing_RulesOnly(rulesFail, orgFails) == Query(rulesFail)

Existing(rulesFail, orgFails) == Query(rulesFail) \cup QueryOrgKnowledge(orgFails)

\* The results are sorted by distance; of equally near texts any may come first.
Nearest(c, existing) ==
    {d \in existing : \A x \in existing : Distance[c, d] <= Distance[c, x]}

\* _claude_conflict_verdict
Verdict(c, d) ==
    CASE Contradicts(c, d) -> "contradiction"
      [] ~ Contradicts(c, d) /\ c \subseteq d -> "overlap"
      [] OTHER -> "fine"

Clashes(c, d) == Contradicts(c, d) \/ c \subseteq d

\* Claude is asked only about a text that is not too far away.
Conflicts(c, top) == Distance[c, top] <= SkipDistance /\ Verdict(c, top) # "fine"

-----------------------------------------------------------------------------
(* end_session.                                                            *)

\* A session without knowledge and history is cleared at once.
Start(e) ==
    /\ At(e, "idle")
    /\ Goto(e, "ask") \/ Goto(e, "clear")
    /\ overlaps' = overlaps \cup {{e, d} : d \in Running}
    /\ UNCHANGED <<kept, locals, extracted, turn, failed, degraded>>

\* An answer that cannot be parsed has no chunks.
Extract(e) ==
    /\ At(e, "ask")
    /\ \/ /\ \E cs \in SUBSET Contents :
                /\ Cardinality(cs) <= MaxChunks
                /\ todo' = [todo EXCEPT ![e] = cs]
                /\ extracted' = [extracted EXCEPT ![e] = cs]
          /\ Goto(e, "check")
          /\ UNCHANGED failed
       \/ Raise(e) /\ UNCHANGED <<todo, extracted>>
    /\ UNCHANGED <<kept, clean, conflicts, turn, degraded, overlaps>>

\* Mutant: the text it conflicts with is held in the place of the chunk.
CheckChunk_HoldsExisting(e) ==
    /\ At(e, "check")
    /\ \E c \in todo[e], rulesFail, orgFails, verdictFails \in {FALSE, CallsFail} :
          LET existing == Existing(rulesFail, orgFails) IN
          /\ todo' = [todo EXCEPT ![e] = @ \ {c}]
          /\ \/ /\ ~ verdictFails
                /\ \E top \in Nearest(c, existing) :
                      /\ Conflicts(c, top)
                      /\ conflicts' = [conflicts EXCEPT ![e] = @ \cup {top}]
                /\ UNCHANGED clean
             \/ /\ \/ verdictFails \/ existing = {}
                   \/ \E top \in Nearest(c, existing) : ~ Conflicts(c, top)
                /\ clean' = [clean EXCEPT ![e] = @ \cup {c}]
                /\ UNCHANGED conflicts
          /\ degraded' = IF rulesFail \/ orgFails \/ verdictFails
                           THEN degraded \cup {<<e, c>>} ELSE degraded
    /\ UNCHANGED <<kept, pc, extracted, turn, failed, overlaps>>

\* _check_conflict, for the next chunk.  Only the nearest text is looked at, and
\* that only if it is near enough; no verdict counts as none.
CheckChunk(e) ==
    /\ At(e, "check")
    /\ \E c \in todo[e], rulesFail, orgFails, verdictFails \in {FALSE, CallsFail} :
          LET existing == Existing(rulesFail, orgFails) IN
          /\ todo' = [todo EXCEPT ![e] = @ \ {c}]
          /\ \/ /\ ~ verdictFails
                /\ \E top \in Nearest(c, existing) : Conflicts(c, top)
                /\ conflicts' = [conflicts EXCEPT ![e] = @ \cup {c}]
                /\ UNCHANGED clean
             \/ /\ \/ verdictFails \/ existing = {}
                   \/ \E top \in Nearest(c, existing) : ~ Conflicts(c, top)
                /\ clean' = [clean EXCEPT ![e] = @ \cup {c}]
                /\ UNCHANGED conflicts
          /\ degraded' = IF rulesFail \/ orgFails \/ verdictFails
                           THEN degraded \cup {<<e, c>>} ELSE degraded
    /\ UNCHANGED <<kept, pc, extracted, turn, failed, overlaps>>

Checked(e) ==
    /\ At(e, "check")
    /\ todo[e] = {}
    /\ Goto(e, "add")
    /\ UNCHANGED <<kept, locals, ghosts>>

\* One add() call, if there is anything to add.
AddOrgKnowledge(e) ==
    /\ At(e, "add")
    /\ \/ /\ stored' = stored \cup ({e} \X clean[e])
          /\ turn' = [k \in stored' |-> IF k \in stored THEN turn[k]
                                                        ELSE Cardinality(stored)]
          /\ Goto(e, "hold")
          /\ UNCHANGED failed
       \/ clean[e] # {} /\ Raise(e) /\ UNCHANGED <<stored, turn>>
    /\ UNCHANGED <<held, locals, extracted, degraded, overlaps>>

\* Mutant: "elif conflicts" instead of "if".
WriteConflicts_Elif(e) ==
    /\ At(e, "hold")
    /\ held' = IF clean[e] = {} THEN held \cup ({e} \X conflicts[e]) ELSE held
    /\ Goto(e, "clear")
    /\ UNCHANGED <<stored, locals, extracted, turn, failed, degraded, overlaps>>

\* One INSERT for each conflict and one commit.  Nothing is rolled back: rows
\* inserted before an exception go with the next commit on the connection.
WriteConflicts(e) ==
    /\ At(e, "hold")
    /\ \/ /\ held' = held \cup ({e} \X conflicts[e])
          /\ Goto(e, "clear")
          /\ UNCHANGED failed
       \/ /\ conflicts[e] # {}
          /\ \E cs \in SUBSET conflicts[e] : held' = held \cup ({e} \X cs)
          /\ Raise(e)
    /\ UNCHANGED <<stored, locals, extracted, turn, degraded, overlaps>>

ClearSession(e) ==
    /\ At(e, "clear")
    /\ Goto(e, "done")
    /\ UNCHANGED <<kept, locals, ghosts>>

\* The process dies: what was not written is gone.
Crash ==
    /\ Running # {}
    /\ pc' = [e \in Ends |-> IF e \in Running THEN "dead" ELSE pc[e]]
    /\ UNCHANGED <<kept, locals, ghosts>>

-----------------------------------------------------------------------------

EndSession(e) ==
    \/ Extract(e) \/ CheckChunk(e) \/ Checked(e)
    \/ AddOrgKnowledge(e) \/ WriteConflicts(e) \/ ClearSession(e)

Next == (\E e \in Ends : Start(e) \/ EndSession(e)) \/ Crash

Spec == Init /\ [][Next]_vars

-----------------------------------------------------------------------------
(* Properties.                                                             *)

\* The texts that were there when chunk k was stored.
KnownBefore(k) == Rulebook \cup {m[2] : m \in {m \in stored : turn[m] < turn[k]}}

\* A check of c against the texts known does not get to d: it is too far away, or
\* a text that does not clash is as near.
Missed(c, d, known) ==
    \/ Distance[c, d] > SkipDistance
    \/ \E x \in known : ~ Clashes(c, x) /\ Distance[c, x] <= Distance[c, d]

\* A stored chunk contradicts or repeats no rule, and no chunk stored before it or
\* with it, but for five causes: a query or the verdict of its check failed; the two
\* come from sessions that ended at the same time; or from one session, whose chunks
\* are compared with the store only (synthesizer.py:173); another text, which does
\* not clash, was as near (:269); or the text is beyond _CONFLICT_SKIP_DISTANCE (:275).
ClashesHaveACause ==
    \A k \in stored \ degraded :
        /\ \A r \in Rulebook :
              Clashes(k[2], r) => Missed(k[2], r, KnownBefore(k))
        /\ \A m \in stored :
              turn[m] <= turn[k] /\ Clashes(k[2], m[2]) =>
                 \/ m[1] = k[1]
                 \/ {k[1], m[1]} \in overlaps
                 \/ Missed(k[2], m[2], KnownBefore(k))

Share(table, e) == {k[2] : k \in {m \in table : m[1] = e}}

\* What was extracted is stored or held, never both; once the session is cleared
\* it is one of the two, unless end_session met an exception on the way.
ChunksAreAccountedFor ==
    \A e \in Ends :
        /\ Share(stored, e) \cap Share(held, e) = {}
        /\ pc[e] = "done" /\ e \notin failed =>
              Share(stored, e) \cup Share(held, e) = extracted[e]
=============================================================================
