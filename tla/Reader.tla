-------------------------------- MODULE Reader ------------------------------
(***************************************************************************)
(* The READ path of a conversation: _execute_confirmed (orchestrator/core) *)
(* seeds handle_read (orchestrator/reader) with what the session knows,    *)
(* Claude asks for queries until it has enough, the queries run in         *)
(* parallel, and their records and errors go back to Claude.  What a read  *)
(* found stays in the history, what its errors taught in the knowledge of  *)
(* the session.                                                            *)
(*                                                                         *)
(* Everything passes through blocks of text that later code takes apart    *)
(* line by line, so a block is a sequence of lines, each known by its kind *)
(* and by what it is about.  Reads of one session do not overlap here;     *)
(* module Session has what happens to the session when they do.            *)
(***************************************************************************)
EXTENDS Naturals, Sequences, FiniteSets, SequencesExt

CONSTANTS
    Queries,              \* the query specs Claude may ask for
    Names,                \* fields, relations and objects
    Dotted,               \* the names the regular expression \w+ does not match
    Complaints,           \* the lines of a query's VALIDATION_ERROR, if any
    Relation,             \* the unknown relation it names and the one meant, or None
    FirstFrom,            \* the first name after a FROM in its label, if any
    Malformed,            \* queries whose handling raises: a limit of null
    Plans,                \* lists of queries Claude may ask for
    Intents,              \* for the objects of an intent, the forced queries
    None,
    MaxReadIterations,
    MaxParallelQueries,
    MaxKnowledgeErrors,   \* error records kept in a session's knowledge
    MaxReads              \* bound: reads of the session

\* "Field 'X' does not exist on Y." and, on the same line, the custom fields listed.
UnknownField == [wrong : Names, object : Names, listed : SUBSET Names]

\* "No such relation 'X'. Did you mean 'Y'?"
UnknownRelation == [wrong : Names, correct : Names]

Texts == [kind : {"field"}, of : UnknownField] \cup [kind : {"message"}, of : Queries]

\* Only an aggregate query lists the fields there are, and complains of one field.
ListsOnce(lines) ==
    \A i \in 1 .. Len(lines) - 1 :
       lines[i].kind = "field" /\ lines[i + 1].kind = "field" => lines[i + 1].of.listed = {}

ASSUME ReaderAssumption ==
    /\ Plans \subseteq Seq(Queries) /\ Intents \subseteq Seq(Queries)
    /\ Complaints \in [Queries -> Seq(Texts)]
    /\ \A q \in Queries : ListsOnce(Complaints[q])
    /\ Relation \in [Queries -> UnknownRelation \cup {None}]
    /\ None \notin UnknownRelation
    /\ FirstFrom \in [Queries -> Names \cup {None}]
    /\ Malformed \subseteq Queries /\ None \notin Queries \cup Names
    /\ MaxReadIterations \in Nat \ {0} /\ MaxParallelQueries \in Nat \ {0}
    /\ MaxKnowledgeErrors \in Nat /\ MaxReads \in Nat

VARIABLES
    pc,           \* what handle_read does next
    objects,      \* its intent, known by the queries that would be forced
    iteration,
    accumulated,  \* accumulated_records
    round,        \* the queries dispatched in this iteration
    open,         \* positions of those whose section is still to come
    sections,     \* result_sections, in the order of completion
    found,        \* its local SessionKnowledge
    history,      \* session.history.accumulated_data
    knowledge,    \* session.knowledge
    reads,        \* reads so far
    answers       \* history variable: the sections this read has received

session == <<history, knowledge, reads>>
vars == <<pc, objects, iteration, accumulated, round, open, sections, found,
          session, answers>>

-----------------------------------------------------------------------------
(* Blocks of text.                                                         *)

Line(kind, of) == [kind |-> kind, of |-> of]

Header == Line("header", None)
Blank == Line("blank", None)
Found == Line("lookup", None)

IsErrorLabel(l) == l.kind \in {"VALIDATION_ERROR", "EXECUTION_ERROR"}

IsErrorText(l) == l.kind \in {"field", "relation", "message"}

IsData(l) == l.kind \in {"lookup", "OK", "record"}

\* The slice s[:n].
Take(s, n) == IF Len(s) <= n THEN s ELSE SubSeq(s, 1, n)

\* One block after the other, with a blank line in between.
Join(a, b) == IF a = <<>> \/ b = <<>> THEN a \o b ELSE a \o <<Blank>> \o b

\* The results of an iteration, in the order they came in.
Block(ss) ==
    LET upto[n \in 0 .. Len(ss)] ==
            IF n = 0 THEN <<Header>> ELSE upto[n - 1] \o <<Blank>> \o ss[n]
    IN  upto[Len(ss)]

\* The elements of s whose positions are in I, in their order.
Pick(s, I) ==
    LET upto[n \in 0 .. Len(s)] ==
            IF n = 0 THEN <<>>
            ELSE IF n \in I THEN Append(upto[n - 1], s[n]) ELSE upto[n - 1]
    IN  upto[Len(s)]

Labels(block) == {j \in DOMAIN block : IsErrorLabel(block[j])}

\* Mutant: nothing ends the section of an error.
Skipped_ToTheEnd(block, i) == \E j \in Labels(block) : j <= i

\* Whether line i follows the label of an error, and no OK label since.
Skipped(block, i) ==
    \E j \in Labels(block) :
       j <= i /\ \A k \in j .. i : block[k].kind # "OK"

\* _filter_ok_records
Filter(block) == Pick(block, {i \in DOMAIN block : ~ Skipped(block, i)})

-----------------------------------------------------------------------------
(* SessionKnowledge: what was wrong with fields, relations and queries, in *)
(* the order it was noted; of two entries that are `of' the same, the first*)
(* stays.                                                                  *)

NoKnowledge == [fields |-> <<>>, relations |-> <<>>, errors |-> <<>>]

Noted(entries, key) == \E i \in DOMAIN entries : entries[i].of = key

Added(entries, more) ==
    LET es == entries \o more
    IN  Pick(es, {i \in DOMAIN es : \A j \in 1 .. i - 1 : es[j].of # es[i].of})

Capped(errors) == Take(errors, MaxKnowledgeErrors)

\* Mutant: the latest errors are kept rather than the first.
Merge_KeepsLatest(k, other) ==
    [fields    |-> Added(k.fields, other.fields),
     relations |-> Added(k.relations, other.relations),
     errors    |-> Reverse(Capped(Reverse(Added(k.errors, other.errors))))]

Merge(k, other) ==
    [fields    |-> Added(k.fields, other.fields),
     relations |-> Added(k.relations, other.relations),
     errors    |-> Capped(Added(k.errors, other.errors))]

\* Whether line i belongs to the message of the error at j: a blank line, the
\* next error and a relation that was corrected end it.
InMessage(block, j, i) ==
    /\ j < i
    /\ \A k \in j + 1 .. i - 1 :
          block[k].kind \notin {"blank", "relation"} /\ ~ IsErrorLabel(block[k])

\* The lines of some kind in the messages of the errors at J.
Told(block, J, kind) ==
    {i \in DOMAIN block : block[i].kind = kind
                          /\ \E j \in J : InMessage(block, j, i)}

Positions(block, J) == Pick([i \in DOMAIN block |-> i], J)

\* The lines that name a field the code can read.
FieldLines(block) ==
    {i \in Told(block, Labels(block), "field") : block[i].of.wrong \notin Dotted}

\* The fields listed are looked for on the line after the complaint.
Candidates(block, i) ==
    IF i + 1 \in DOMAIN block /\ block[i + 1].kind = "field"
      THEN block[i + 1].of.listed ELSE {}

FieldFix(block, i) ==
    [of      |-> <<block[i].of.wrong, block[i].of.object>>,
     correct |-> Candidates(block, i)]

\* The relation corrected in the message of the error at j, if any.
Suggested(block, j) == {block[i].of : i \in Told(block, {j}, "relation")}

Corrected(block) == {j \in Labels(block) : Suggested(block, j) # {}}

Suggestion(rs) == CHOOSE r \in rs : TRUE

\* The parent of a relation is read off the label of the query.
Filed(r, q) == [of |-> <<r.wrong, FirstFrom[q]>>, correct |-> r.correct]

RelationFix(block, j) == Filed(Suggestion(Suggested(block, j)), block[j].of)

Failure(label, rs) ==
    [of         |-> label.of,
     type       |-> label.kind,
     correction |-> IF rs = {} THEN None ELSE Suggestion(rs).correct]

ErrorAt(block, j) == Failure(block[j], Suggested(block, j))

FieldFixes(block) ==
    LET at == Positions(block, FieldLines(block))
    IN  [n \in DOMAIN at |-> FieldFix(block, at[n])]

RelationFixes(block) ==
    LET at == Positions(block, Corrected(block))
    IN  [n \in DOMAIN at |-> RelationFix(block, at[n])]

Errors(block, J) ==
    LET at == Positions(block, J) IN [n \in DOMAIN at |-> ErrorAt(block, at[n])]

\* Mutant: an error is noted when a blank line follows, so not the last one.
Extract_NoTrailing(block) ==
    LET ended == {j \in Labels(block) :
                     \E i \in Told(block, {j}, "blank") : TRUE}
    IN  [fields    |-> FieldFixes(block),
         relations |-> RelationFixes(block),
         errors    |-> Errors(block, ended)]

\* _extract_from_errors
Extract(block) ==
    [fields    |-> FieldFixes(block),
     relations |-> RelationFixes(block),
     errors    |-> Errors(block, Labels(block))]

-----------------------------------------------------------------------------
(* One read.                                                               *)

\* Without records, a block may still have headers and blank lines.
HasData(block) == \E i \in DOMAIN block : IsData(block[i])

Lines == [kind : {"OK", "record", "message", "VALIDATION_ERROR", "EXECUTION_ERROR"},
          of   : Queries]
         \cup [kind : {"field"}, of : UnknownField]
         \cup [kind : {"relation"}, of : UnknownRelation]
         \cup [kind : {"header", "blank", "lookup"}, of : {None}]

Knowledge ==
    [fields    : Seq([of : Names \X Names, correct : SUBSET Names]),
     relations : Seq([of : Names \X (Names \cup {None}), correct : Names]),
     errors    : Seq([of : Queries, correction : Names \cup {None},
                      type : {"VALIDATION_ERROR", "EXECUTION_ERROR"}])]

TypeOK ==
    /\ pc \in {"idle", "plan", "run", "synthesize"}
    /\ objects \in Intents \cup {<<>>}
    /\ iteration \in 0 .. MaxReadIterations
    /\ round \in Seq(Queries) /\ Len(round) <= MaxParallelQueries
    /\ open \subseteq DOMAIN round
    /\ sections \in Seq(Seq(Lines))
    /\ Len(sections) + Cardinality(open) = Len(round)
    /\ {accumulated, history} \cup answers \subseteq Seq(Lines)
    /\ {found, knowledge} \subseteq Knowledge
    /\ Len(found.errors) <= MaxKnowledgeErrors
    /\ Len(knowledge.errors) <= MaxKnowledgeErrors
    /\ reads \in 0 .. MaxReads

Init ==
    /\ pc = "idle"
    /\ objects = <<>>
    /\ iteration = 0
    /\ accumulated = <<>>
    /\ round = <<>>
    /\ open = {}
    /\ sections = <<>>
    /\ found = NoKnowledge
    /\ history = <<>>
    /\ knowledge = NoKnowledge
    /\ reads = 0
    /\ answers = {}

NoRound == round' = <<>> /\ open' = {} /\ sections' = <<>>

\* handle_read returns or raises: its locals are gone.
Return ==
    /\ pc' = "idle"
    /\ objects' = <<>>
    /\ iteration' = 0
    /\ accumulated' = <<>>
    /\ NoRound
    /\ found' = NoKnowledge
    /\ answers' = {}

\* A read begins with the history and, if hints found any, fresh records.
StartRead ==
    /\ pc = "idle"
    /\ reads < MaxReads
    /\ reads' = reads + 1
    /\ objects' \in Intents
    /\ \E fresh \in {<<>>, <<Found>>} : accumulated' = Join(history, fresh)
    /\ pc' = "plan"
    /\ UNCHANGED <<iteration, round, open, sections, found, history, knowledge,
                   answers>>

\* Mutant: as many queries as Claude asked for.
Dispatch_Uncapped(qs) ==
    /\ round' = qs
    /\ open' = DOMAIN round'
    /\ pc' = IF qs = <<>> THEN "synthesize" ELSE "run"

\* The queries start together; without any, the loop ends.
Dispatch(qs) ==
    /\ round' = Take(qs, MaxParallelQueries)
    /\ open' = DOMAIN round'
    /\ pc' = IF qs = <<>> THEN "synthesize" ELSE "run"

\* Claude says "sufficient", or something that is not JSON.  Before the first
\* query it is not believed if there are no records at all.
Sufficient ==
    /\ pc = "plan"
    /\ IF accumulated = <<>> /\ iteration = 0
         THEN Dispatch(objects)
         ELSE pc' = "synthesize" /\ UNCHANGED <<round, open>>
    /\ UNCHANGED <<objects, iteration, accumulated, sections, found, session,
                   answers>>

NeedMore ==
    /\ pc = "plan"
    /\ \E qs \in Plans : Dispatch(qs)
    /\ UNCHANGED <<objects, iteration, accumulated, sections, found, session,
                   answers>>

\* The section of a query: refused by the validation, or answered by
\* Salesforce with records, with none, or with an error.
Outcomes(q) ==
    IF Complaints[q] # <<>>
      THEN {<<Line("VALIDATION_ERROR", q)>> \o Complaints[q]}
    ELSE IF Relation[q] # None
      THEN {<<Line("EXECUTION_ERROR", q), Line("relation", Relation[q])>>}
    ELSE {<<Line("OK", q), Line("record", q)>>,
          <<Line("OK", q)>>,
          <<Line("EXECUTION_ERROR", q), Line("message", q)>>}

QueryEnds(i) ==
    /\ pc = "run"
    /\ i \in open
    /\ round[i] \notin Malformed
    /\ \E section \in Outcomes(round[i]) :
          /\ sections' = Append(sections, section)
          /\ answers' = answers \cup {section}
    /\ open' = open \ {i}
    /\ UNCHANGED <<pc, objects, iteration, accumulated, round, found, session>>

\* future.result() raises, which ends the read: what the other queries
\* brought, and what earlier ones taught, is lost.
QueryRaises(i) ==
    /\ pc = "run"
    /\ i \in open
    /\ round[i] \in Malformed
    /\ Return
    /\ UNCHANGED session

\* Mutant: the results take the place of what was accumulated.
EndRound_Replaces ==
    /\ pc = "run"
    /\ open = {}
    /\ \E results \in {Block(sections)} :
          /\ accumulated' = results
          /\ found' = Merge(found, Extract(results))
    /\ iteration' = iteration + 1
    /\ pc' = IF iteration' = MaxReadIterations THEN "synthesize" ELSE "plan"
    /\ NoRound
    /\ objects' = <<>>
    /\ UNCHANGED <<session, answers>>

\* Mutant: a round waits for as many sections as there are workers.
EndRound_FullHouse ==
    /\ pc = "run"
    /\ Len(sections) = MaxParallelQueries
    /\ \E results \in {Block(sections)} : \E lessons \in {Extract(results)} :
          /\ accumulated' = Join(accumulated, results)
          /\ found' = Merge(found, lessons)
    /\ iteration' = iteration + 1
    /\ pc' = IF iteration' = MaxReadIterations THEN "synthesize" ELSE "plan"
    /\ NoRound
    /\ objects' = <<>>
    /\ UNCHANGED <<session, answers>>

\* Every query has left a section, so the block is never empty; extracting
\* only when there was an error changes nothing.  The objects are not looked at
\* again.
EndRound ==
    /\ pc = "run"
    /\ open = {}
    /\ \E results \in {Block(sections)} : \E lessons \in {Extract(results)} :
          /\ accumulated' = Join(accumulated, results)
          /\ found' = Merge(found, lessons)
    /\ iteration' = iteration + 1
    /\ pc' = IF iteration' = MaxReadIterations THEN "synthesize" ELSE "plan"
    /\ NoRound
    /\ objects' = <<>>
    /\ UNCHANGED <<session, answers>>

\* Claude answers from what was accumulated.
Synthesize ==
    /\ pc = "synthesize"
    /\ history' = Join(history, Filter(accumulated))
    /\ knowledge' = Merge(knowledge, found)
    /\ Return
    /\ UNCHANGED reads

\* A call of Claude raises.
ClaudeRaises ==
    /\ pc \in {"plan", "synthesize"}
    /\ Return
    /\ UNCHANGED session

Continue ==
    \/ ClaudeRaises \/ Sufficient \/ NeedMore \/ EndRound \/ Synthesize
    \/ \E i \in open : QueryEnds(i) \/ QueryRaises(i)

Next == StartRead \/ Continue

Spec == Init /\ [][Next]_vars

\* A read goes on: Claude, Salesforce and the query threads return or raise.
FairSpec == Spec /\ WF_vars(Continue)

-----------------------------------------------------------------------------
(* Properties.                                                             *)

\* What a section says is wrong: each unknown field whose name the code can read,
\* without the fields listed behind it; the relation that was corrected, under the
\* first object of the query's label; and the query.
Complained(s, kind) == {l.of : l \in {l \in ToSet(s) : l.kind = kind}}

FieldLessons(s) ==
    {[of |-> <<u.wrong, u.object>>, correct |-> {}] :
        u \in {u \in Complained(s, "field") : u.wrong \notin Dotted}}

RelationLessons(s) == {Filed(r, Head(s).of) : r \in Complained(s, "relation")}

ErrorLessons(s) ==
    IF IsErrorLabel(Head(s)) THEN {Failure(Head(s), Complained(s, "relation"))} ELSE {}

\* What a read knows of fields, relations and failed queries is what the sections
\* it received say, no more, and no less but for errors past the cap, in whichever
\* order they completed and whatever stood next to them, although
\* _run_parallel_queries_with_feedback makes one text of them that
\* _extract_from_errors takes apart again.  It is not all that reader.py:510
\* promises: the fields listed for a wrong one are always lost, names with a dot
\* are not read, and a relation is filed under the object of a subquery.
LessonsMatchErrors ==
    pc \in {"plan", "synthesize"} =>
      LET fields == UNION {FieldLessons(s) : s \in answers}
          relations == UNION {RelationLessons(s) : s \in answers}
          errors == UNION {ErrorLessons(s) : s \in answers}
      IN  /\ ToSet(found.fields) = fields
          /\ ToSet(found.relations) \subseteq relations
          /\ \A l \in relations : Noted(found.relations, l.of)
          /\ ToSet(found.errors) \subseteq errors
          /\ \/ Len(found.errors) = MaxKnowledgeErrors
             \/ \A l \in errors : Noted(found.errors, l.of)

IsPartOf(s, block) ==
    \E i \in 0 .. Len(block) - Len(s) : SubSeq(block, i + 1, i + Len(s)) = s

\* When Claude is asked again, or asked to answer, each section received since
\* the read began stands in accumulated_records, undivided, errors too, and
\* the history the read began with stands before them.
AnswersReachClaude ==
    pc \in {"plan", "synthesize"} =>
      /\ \A s \in answers : IsPartOf(s, accumulated)
      /\ IsPrefix(history, accumulated)

\* The lines of a block that hold data.
Data(block) == Pick(block, {i \in DOMAIN block : IsData(block[i])})

\* _filter_ok_records keeps out of the history every line of an error, and
\* leaves in it every record and every result, although it tells them apart
\* only by the label they come after.
HistoryKeepsTheData ==
    pc = "synthesize" =>
      LET kept == Filter(accumulated)
      IN  /\ \A i \in DOMAIN kept : ~ IsErrorLabel(kept[i]) /\ ~ IsErrorText(kept[i])
          /\ Data(kept) = Data(accumulated)

\* Knowledge of the session is only added to: a correction or failed query,
\* once noted, outlives every later read, also past the cap on errors.
LessonsStay ==
    [][/\ IsPrefix(knowledge.fields, knowledge'.fields)
       /\ IsPrefix(knowledge.relations, knowledge'.relations)
       /\ IsPrefix(knowledge.errors, knowledge'.errors)]_vars

\* Every read comes to an end, whatever Claude asks for.
ReadsEnd == pc # "idle" ~> pc = "idle"

\* reader.py:158 "never skip querying on the first iteration when we have no
\* accumulated data": no answer is given without records, nor without having
\* asked for any.
NoAnswerUnasked == pc = "synthesize" /\ ~ HasData(accumulated) => answers # {}
=============================================================================
