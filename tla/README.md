# A verification project for Asoka

Asoka is a Slack bot that reads and writes a Salesforce CRM for its users. A
user asks in a direct message; Claude classifies the request; a read is answered
from Salesforce, a write becomes a *plan* that the user confirms and a coworker
approves before it is executed. This directory holds TLA+ modules for the parts
of Asoka whose correctness depends on order, interleaving and failure, the TLC
runs that check them on small instances, and proofs, checked by TLAPS, that the
safety properties hold for every instance.

Contents: [the system](#1-the-system), [the modules](#2-the-modules),
[the granularity of steps](#3-steps-threads-and-failures),
[the runs](#4-the-runs), [disagreements found](#5-where-code-and-documents-disagree),
[the proofs](#6-the-proofs), [what is not modelled](#7-what-is-left-out),
[the plan](#8-the-plan).

## 1. The system

| Component | Source | State | Operations | Called by |
|---|---|---|---|---|
| Slack listener | `slack/listener.py`, `slack/messenger.py` | none; Bolt runs each event on a pool thread | `on_message`, `on_reset`, `on_approve_batch`, `on_deny_batch`; posting, updating, DMs | Slack |
| Conversation state machine | `orchestrator/core.py` | none of its own | `handle`, `_classify_and_propose`, `_execute_confirmed`, `end_session` | listener |
| Session store | `orchestrator/session.py` | one `SessionState` per user (state, intent, plan, context, history, knowledge), in memory, under one lock | `get_session`, `update_session`, `reset_to_idle`, `clear_session` | core |
| Intent, planner, prompts | `orchestrator/intent.py`, `planner.py`, `prompts.py` | none | build a prompt, call Claude, parse the answer | core |
| Reader | `orchestrator/reader.py` | locals of a bounded loop | ask Claude for queries, run them in parallel, learn from their errors, answer | core |
| Batch queue | `batchqueue/batch.py`, `operations.py`, `locks.py`, `db/schema.sql` | tables `batches`, `operations`, `locks` | create a batch, change a status, lock and release records | listener, handlers, executor |
| Executor | `batchqueue/executor.py` | results of the operations done so far | `execute_batch` | approval handler |
| Approval handlers | `approval/handler.py`, `formatter.py` | none | `handle_approve`, `handle_deny` | listener |
| Salesforce access | `salesforce/*.py` | one client | queries, `execute_update`, `execute_create` | executor, reader, core, sync |
| Knowledge base | `knowledge/*.py` | collections `asoka_knowledge` and `org_knowledge`, table `knowledge_conflicts` | load `rules.md`, synthesize a session, detect conflicts, search | start-up, core, context |
| Context retrieval | `context/*.py` | none (reads the schema tables and the collections) | schema, roles and rules for prompts | intent, planner, reader |
| Schema sync | `startup/sync.py`, `salesforce/describe.py` | the schema tables | `full_sync`: replace them from Salesforce | start-up |
| Connection, config, start-up | `db/connection.py`, `config.py`, `main.py` | one shared SQLite connection | open, log in, synchronise, load the rules, serve | all |

**How they interact.** Everything happens inside listener callbacks, each on a
thread of Bolt's pool: no queue and no background worker exists. `on_message`
calls `handle`, which walks the user's session from *idle* to *proposing* (a
request was classified) and, for a write, to *plan_shown* (a plan was made).
The yes to a shown plan makes the listener store a batch and post an approval
card. A click on the card runs `handle_approve`, which executes the batch on the
same thread, operation by operation, and reports to the requester and the card.
Two threads meet in the session object of a user, and in the three tables, which
they reach through one connection shared by the whole process
(`db/connection.py:57`).

Before the first event, `main.py` opens the database, logs in to Salesforce,
runs `full_sync` and `init_knowledge`, and only then connects to Slack; an
exception on the way ends the process. Prompts read what these two left behind.
`/reset` runs `end_session`, which lets Claude extract knowledge from the session
before it is cleared, and is the only writer of `org_knowledge`.

**What is hard.**

* Guards that are read in one statement and acted upon in another: the session
  state (`core.py:152`, `:156`), the batch status (`handler.py:59`, `:135`), the
  conflict check (`locks.py:58`).
* Calls of seconds or minutes (Claude, Salesforce) between reading shared state
  and writing it, while the same user goes on typing or types `/reset`.
* Failures between two effects: a write that took effect but whose answer was
  lost, a batch row without a card, a reset session whose plan was not sent.
* A process that may stop anywhere and repairs nothing when it starts again.
* A schema that is read in a dozen calls while administrators change the org, and
  rows with foreign keys that arrive in any order.
* Knowledge that is checked against a store which other sessions are about to
  write to.

**What makes the components correct.**

* Batch queue, executor and handlers: only approved plans write; in order, once;
  no write while another batch holds the record; the status of rows and batches
  tells what was written; locks are given back; both humans learn the outcome;
  a denial is final.
* Conversation: a yes confirms what was last proposed, once, and only what was
  shown becomes a batch; a correction takes back what it corrects; `/reset`
  leaves nothing behind but knowledge; every message is answered.
* From words to writes: what is written in Salesforce was asked for as a WRITE,
  agreed to, previewed, approved, and is done in the order Claude numbered it.
* Schema sync and prompts: what is served is one committed, complete sync of this
  start, with every role that can be placed; a prompt shows it unchanged.
* Knowledge: no line of `rules.md` and no extracted chunk is lost or duplicated, and a
  chunk that clashes with the nearest text known is held, not stored.

`PROJECT.json` lists every hazard at its line, with the properties that cover
it or the reason why none does.

## 2. The modules

```
   WritePlan  <---refines---  ApprovalFlow  --EXTENDS-->  BatchExecutor  --EXTENDS-->  BatchStore
   (promise)                   |    |    \
                      MCApproval    |     ApprovalProofs  <--EXTENDS--  DecisionProofs  <--EXTENDS--  PipelineProofs
                                    |
MCPipeline, PipelineProofs -->  WritePipeline  --Talk == INSTANCE Session WITH pc <- tpc-->  Session
            |                                                                               |      \
            |                                                                        MCSession      SessionProofs
            |                                                                                       |
            +---Turns == INSTANCE TurnProofs WITH pc <- tpc------------------------------------>  TurnProofs

   MCReader, ReaderProofs  --EXTENDS-->  Reader

   MCStartup, StartupProofs  --EXTENDS-->  Startup  --EXTENDS-->  Context  --EXTENDS-->  SchemaSync

   MCKnowledge, KnowledgeProofs  --EXTENDS-->  Knowledge
```

**BatchStore** is the three tables. `status`, `approved`, `rows` and `locks` are
the columns the properties tell apart (`batches.status`, whether `approved_by`
is set, `operations.status`, pairs of batch and target); every operator is one
statement with its commit, or one query. Batches, plans and targets are
CONSTANTs: `Plan[b]` is the sequence of operations of batch `b`, an operation a
record of type, target and the operation its templated record id refers to. A
template literal is a target like any other, because `acquire_locks` treats it
so.

**BatchExecutor** is `execute_batch`, one action per statement or Salesforce
call, in the code's order: `CheckApproved`, `LoadOperations`, `CheckConflicts`
and `InsertLocks` (the two halves of `acquire_locks`), `MarkExecuting`, the loop
(`SkipUnknown`, `CallSalesforce`, `OperationRaises`, `RecordResult`,
`CompleteBatch`), the except block (`SkipRow`, `FailBatch`) and the finally
block (`ReleaseLocks`). `snapshot` is the `operations` list fetched before the
loop, as far as the except block looks at it. `writes` counts how often each
operation took effect in Salesforce.

**ApprovalFlow** adds the listener and the approval handlers: `InsertBatch`,
`InsertOperations`, `SendCard`, `TellNotSent` (`on_message` once the plan is
confirmed), `ClickApprove`, `ClickDeny`, `Approve`, `Execute`, `TellSuccess`,
`TellFailure`, `Deny`, `DenyRelease`, `TellDenied`, `ShowCard`, and `Crash`.
`card` and `told` are what the coworker sees and the requester was sent.

**WritePlan** is the abstract specification: a plan is submitted, decided once,
and, if approved, its writes take effect one after the other, each at most once,
while the batch is EXECUTING; COMPLETED means that all did. It is the status flow
of `batch.py:9-16` without threads, tables, locks, cards or crashes.
`ApprovalFlow` implements it (`PromiseKept`) under the mapping that keeps the
status and forgets all but the set of operations with `writes > 0`.

**Session** is one user's conversation: the store of `session.py`, `handle` and
`end_session` of `core.py`, and the listeners that call them. Users share no
session, so one is enough. Session objects are numbered: `gen` is the one the
store returns, `held[t]` the one a handler got earlier; `clear_session` puts the
next number in its place. An intent is named by the message it was classified
from and a plan by its intent, so "which request does this batch carry out" is
visible in the state. The program points follow `handle`: `CheckProposing`,
`CheckPlanShown`, `CheckIdle`, `Correct`; `Classify`, `Classified`, `Propose`,
`SetIntent`; `ReadIntent`, `Work`, `ReadReset`, `ShowPlan`, `SetPlan`,
`LearnRisks`; `TakePlan`, `ForwardReset`, `Say`, `Submit`; `StartReset`,
`Synthesize`, `Clear`; `Restart`.

**Reader** is what `Session` takes as one step: the READ path of
`_execute_confirmed`, with the loop of `handle_read` (`Sufficient`, `NeedMore`,
`QueryEnds`, `QueryRaises`, `EndRound`), the answer and what it leaves in the
session (`Synthesize`), and failing calls of Claude (`ClaudeRaises`). Queries of a
round end in any order. The code glues their sections into text and takes the
text apart again, so a block is a sequence of lines, each known by its kind (the
label of a result or an error, a record, a complaint about a field or a relation,
a blank line, a heading) and its subject. A complaint about a field has the fields
listed behind it on the same line, where the validators write them. `Filter`,
`Extract` and `Merge` are `_filter_ok_records`, `_extract_from_errors` and
`SessionKnowledge.merge`, written as what they say of a line's position rather than as
loops, and with what the code misses: `Candidates` looks on the next line, `FieldLines`
leaves out the names `\w+` does not match (`Dotted`), and `Filed` takes the first FROM
of the label (`FirstFrom`) for the parent of a relation. The three lists of the
knowledge of a session, fields, relations and failed queries, keep their order; an
entry is `of` what the code deduplicates it by.

**WritePipeline** puts ApprovalFlow and an instance of Session into one process
with one pool of threads: a thread handles one event at a time, of either kind
(`Hear`, `Decide`). The two meet in `SubmitPlan`, where `on_message` is told that a
plan was confirmed and creates a batch from it; a batch is named by its plan and the
number of batches made of it before, so a second one would be seen. `ParsePlan` is what lies
between Claude's answer and the rows the executor loads: the default order, the
stable sort of `_parse_plan`, rows fetched by `sequence_order`, and the operation a
template finds under the number it names. A restart ends both halves (`Stop`, `StopIdle`).

**SchemaSync** is `full_sync`, one action per call to Salesforce with the
statements that follow it: `DescribeObject` (what is kept of a field, a
relationship; the upserts), `FetchRules`, `FetchFormula`, `StoreRules`,
`FetchRoles`, `InsertRole` and `EndPass` (the passes of
`_upsert_role_hierarchy`), `Commit`. `org` is Salesforce, `tables` what the
connection sees, `disk` what was committed. Objects, fields, rules, roles and
what the org may look like are CONSTANTs.

**Context** is the queries of `structural.py` that prompts use and the schema and
role sections that `to_prompt_block` makes of them, as sets.

**Startup** is `main.py` around them: `Start`, the sync, `init_knowledge`
(`SkipRules`, `EmbedRules`, `NoRules`) with the parser of `rules.md`, `Die` at any
point, and the world that changes meanwhile (`ChangeOrg`, `EditRules`,
`WipeStore`). A line of `rules.md` is a header, text or blank; a chunk is the numbers of
its lines, so that a line which is lost or stored twice is visible.

**Knowledge** is `end_session` again, for several sessions at once, with all it
calls: `Extract` (`synthesize_session`), `CheckChunk` (`_check_conflict` with its
search in both collections and Claude's verdict), `AddOrgKnowledge`,
`WriteConflicts`, `ClearSession`, `Crash`. The content of a chunk is a set of
claims, pairs of a topic and what is said about it: two texts contradict each other
when they differ on a topic, and overlap when one says nothing the other does not.
How far two texts are from each other is data (`Distance`), bound to nothing they say:
texts that clash may be far apart, and texts that do not may be near. Claude's verdict
and these distances are the only things the code asks of a text.

An operator whose comment starts with "Mutant" belongs to no specification: it
is the next definition with a plausible bug in it, kept to show that some
property notices the difference (`PROJECT.json`, "mutants").

## 3. Steps, threads and failures

*One step is one access to shared state.* For the tables that is a statement
followed by its commit, or a query. Where the code runs several statements
before it commits, the shared connection makes each visible to the other threads
at once. They are one step where that loses nothing: the rows of a new batch are
inserted before its card exists, so nobody reads them; and a conflict check that
meets half of another batch's lock rows finds a conflict, as after all of them,
or none, as before the first.

For the session a step is one read of `session.state`, `session.intent` or
`session.plan` (which take no lock) or one call of a store function (which
does). `update_session` assigns the state before the intent or the plan, and an
unlocked reader sees the state in between; it is two steps with the lock held.
`reset_to_idle` also assigns the state first, but a reader that read the state
before the reset may as well read the intent before it: one step.

Start-up is sequential, so nothing can be seen between two statements and a step
is a call to Salesforce with the statements after it; each role is a step of its
own only because the passes are a loop worth checking. All statements of the sync
belong to one transaction that `full_sync` commits at its end and SQLite drops when the
process dies. In Knowledge a step is a call of Claude, of the vector store (one
`add` stores all chunks or none) or of the database; the rows `write_conflicts` inserted
before an exception stay in the transaction of the shared connection, and go with
its next commit.

*Threads.* `db/connection.py:11` speaks of "one asyncio event loop"; the
application is Bolt's synchronous `App`, which runs every event on a thread pool.
The handlers are therefore modelled as threads. A click may be handled any time
after the card was posted: the pool may be busy, and the final `update_message`
is all that retires the buttons.

*Salesforce* accepts a call, rejects it, or applies it and loses the answer; the
code sees an exception in the last two cases. A record id that is still a
template is always rejected. *Claude and queries* may raise (`CallsFail`). *Slack*
may raise (`SlackFails`), in which case a card, a message or a DM may or may not have
arrived.
Errors of SQLite itself are not modelled.

*Crashes.* `Crash` and `Restart` end every handler and keep what is durable: the
tables, Salesforce and Slack in the first case, nothing of the session in the
second. `main.py` starts without looking at the batches it finds.

*Fairness.* `FairSpec` asks weak fairness of each thread's handler steps: a
handler that runs goes on, as every call it makes returns or raises and no lock is
held across a call. New messages, clicks and crashes are not fair. (The HTTP
calls set no timeout of their own; that they return at all is the assumption.)
`Startup` asks weak fairness of `Work`, the steps of the process itself: a start-up
whose calls return goes on; starts, deaths and changes of the org are not fair.
`PipelineSpec` asks it of each thread, for the handler it runs (`Converse`,
`SubmitPlan`, `Carry`); events and restarts are not fair there either.

## 4. The runs

| Run | Question | Instance |
|---|---|---|
| `approval_race` | What holds under every interleaving? | two batches that want one record, one with a CREATE chained into an UPDATE; two threads; two clicks on one card, one on the other; one crash |
| `approval_once` | With one click per card, is the promise of `WritePlan` kept? | plans with an unknown operation and an UPDATE without record id; two threads; a crash; Slack fails |
| `approval_serial` | With one handler at a time, do double clicks, crashes and Slack failures do harm? | the plans of `approval_race` and an empty one; one thread |
| `approval_settles` | Does every handler end and every outcome get reported? | three batches, two of which want one record, one with an unknown operation; two threads; fair; no crash, no Slack failure |
| `session_talk` | Is a conversation sound? | two threads; four messages one at a time or three once two handlers overlapped; one `/reset` or restart; every call may fail; fair |
| `reader_reads` | Does text survive its way through a read? | two reads of two rounds; two queries at a time, three asked for; queries refused, rejected, answered with or without records, or raising; a field with fields listed, a dotted one, a relation in a subquery; a failing Claude; fair |
| `startup_serves` | Is what the bot serves a whole and recent picture of the org? | two starts; one change of the org or of `rules.md`; three orgs, with no role, a chain of three and one of four; a page of three roles; two editions of `rules.md`; a death anywhere; fair |
| `knowledge_learns` | Where does what a session learned end up? | two `/reset`s, overlapping or not; up to two of four contents each; one rule; texts that clash and are far, and that do not and are near; every call may fail; a crash |
| `pipeline_writes` | Is what is written what was asked for? | two threads for everything; two requests, each with a plan out of order and with a repeated number; four messages one at a time or three overlapping; one `/reset` or restart; one click per card; fair |

Properties of `approval_race`, whatever interleaves: `WritesWereApproved`,
`AppliedInOrder` (an operation in effect has all earlier writes of its plan in
effect), `CompletedRowsWereApplied`, `CompletedBatchesWereApplied` (also when
two executions of one batch overlap and one fails), `LocksHaveAnOwner` (a lock
row has an executor that will delete it, unless the process died).

`approval_once`: `AppliedAtMostOnce`, `PromiseKept`, and `UpdatesAreLocked`
(an UPDATE takes effect only while its batch has the lock row of its target).

`approval_serial`: `LocksAreUnique`, `DenialIsFinal` and `AppliedAtMostOnce`, the
three that fail with two threads. Together with section 5 they say exactly what the
missing mutual exclusion costs: with one handler at a time the guards suffice.

`approval_settles`: `HandlersFinish`, `LocksAreReleased` and `OutcomeIsReported`.
A batch that was refused its locks stays APPROVED for ever; its outcome is
reported as a failure, which is what `Outcome` says. Slack failures are left out,
because a success DM that raises is reported as a failed execution
(`handler.py:90` is inside the try block), and a lost DM is never repeated.

`session_talk`: `WaitsForSomething` (a session that waits for a yes has the
intent or plan the yes is about, whenever the lock is free),
`OnlyWritesAreForwarded`, `ReplacedSessionsAreFrozen`, `EventsAreHandled`; and
for a user who waits for each answer (`~ overlapped`) `OneYesOneBatch` (a request
becomes at most one batch, agreed to, and its preview was given to `say()`; whether
Slack delivered it is not asked, so this holds where Slack fails), `CorrectionsWin`
and `ResetIsClean`.

`reader_reads`: `LessonsMatchErrors` and `HistoryKeepsTheData` compare what the
line-by-line code finds with the sections the queries returned, whichever way they
followed each other. `LessonsMatchErrors` says that sections are not mixed up: what is
learned is what each says by itself in the form the code can read, no more and no
less up to the cap on errors. It does not say that all an error says is learned:
the candidates of a field never are, nor fields with dotted names, and a relation is
filed under the first FROM (section 5). `AnswersReachClaude`; `LessonsStay`, also past
the cap; `ReadsEnd`.

`startup_serves`: `HierarchyIsWhole` (the foreign keys hold after every statement, and
the passes store exactly the roles that hang on a root of the page, once, in whatever
order the page came), `ServedSchemaWasFetched` (nothing of an older start, nothing of a
sync that died; each part is the org at some moment of this start),
`PromptsShowTheOrg` (if the org stood still, prompts offer exactly what may be
written; every stored role is shown), `RulesAreWhole` (each line below a header is in
the chunk of that header and no other), `StartsEnd` (the passes terminate).

`knowledge_learns`: `ChunksAreAccountedFor` (what was extracted is stored or held,
never both, and lost only by an exception or a crash) and `ClashesHaveACause`, which
lists the ways a chunk that contradicts or repeats a text stored before it, or with it,
can get into the store. There are five: a query or the verdict of its check failed;
the two sessions ended at the same time; the two are of one session, whose chunks are
checked against the store and not against each other (`synthesizer.py:173-184`); a text
that does not clash was at least as near, and only the nearest is judged (`:269`); or
the text it clashes with is farther than `_CONFLICT_SKIP_DISTANCE` (`:275`).

`pipeline_writes`: `WritesAreMeant` is `WritesAreRequested` (always: a request
classified WRITE, a coworker's approval), `WritesAreConfirmed` (for a user who waits
for each answer: agreed to, its preview given to `say()`, no second batch) and
`WritesFollowTheNumbers`; `PlansArrive`: a plan the user was told is on its
way gets its card, unless Slack fails or the process ends between the two. A restart
before the user was told is no excuse.

**Bounds.** Two threads are what each race needs. Three operations are enough
for one before, at and after a failure; two batches for contention, a third for
contention while another waits or is empty. `MaxClicks` and `MaxCrashes` bound
clicks and restarts: two clicks make a double click, and after a crash no handler
is left, so a second crash adds a repetition. `MaxTurns = 4` allows
request, correction, yes, yes; with `MaxMessages = 3` a message can overlap with
both of the others. `MaxSessions = 2` allows one `/reset` or restart.
For the reader, two rounds put a section before and after a failed one, two
reads the history of one into the seed of the other; two error records fill the
cap that is 50 in the code, and a third meets it full.
Two starts let one find what another left, whole or half; one change of the org lets
the second start differ from the first or fall between two calls of one; a page of
three roles is short of the chain of four, and has six orders.
Two sessions are what a clash needs; two chunks per session, one stored and one held.
In the pipeline a third batch, the second one of the first plan, exists only to
show that it stays empty when it should.
The passing runs have these distinct states, up to symmetry where it is used:
`approval_race` 696,835, `approval_once` 62,024, `approval_serial` 2,098,198,
`approval_settles` 40,422, `session_talk` 263,773, `reader_reads` 78,515,
`startup_serves` 144,624, `knowledge_learns` 448,144, `pipeline_writes` 287,437.
Symmetry (of threads, or of the sessions that end) is used in runs without liveness only. Deadlock
is not checked: when every batch is decided, every click handled and every
message sent, the bounded system rests, and that handlers end is a liveness
property instead.

## 5. Where code and documents disagree

Three runs expect a violation; each checks a statement of a comment or of the
README, and its trace is the shortest story of how the code breaks it.

| Run | Statement | What happens |
|---|---|---|
| `approval_skips` | "Mark all still-PENDING operations as SKIPPED" (`executor.py:131`) | the loop tests the statuses fetched before the first operation ran, so rows completed since become SKIPPED and lose their result |
| `approval_lock_race` | "Uniqueness: (object_api_name, record_id) across all active batches" (`README.md:762`) | two executors look for conflicts before either inserts; both lock, and update, one record |
| `reader_unasked` | "never skip querying on the first iteration when we have no accumulated data" (`reader.py:158`) | a read whose queries all failed leaves the heading of their results in the history; the next read finds text, not data, and answers without a query |

Three more are stated as properties that hold only where their condition says so,
because the code breaks them otherwise:

* *A denial is final* ("guard: status must be PENDING_APPROVAL", `README.md:887`,
  `:932`). Approve and Deny handled at once both read PENDING_APPROVAL
  (`handler.py:59`); the requester is told DENIED and the plan is executed.
  `DenialIsFinal` is checked with one handler at a time (`approval_serial`), and proved
  for any number of them if no two stand between reading and writing the status of
  one batch (`DecidedAlone`).
* *One yes, one batch* ("a single Lock protects all dict mutations",
  `session.py:11`). Two confirmations pass the test on the state (`core.py:156`) before
  either resets it, and one plan becomes two batches. `OneYesOneBatch` and
  `WritesAreConfirmed` speak of a user who waits for each answer (`~ overlapped`),
  and are proved for every such user.
* *A reset is a "full wipe"* (`session.py:426`). A handler that waited for Claude during
  a `/reset` stores its proposal in the new session (`core.py:240`). `ResetIsClean`
  has the same condition.

Other divergences met while reading, for which no run was made.

* *Batches.* EXPIRED is never set; an operation row never becomes FAILED, and its
  `error` is never written (`README.md` diagrams 6 and 7 say otherwise); template
  literals are locked although `README.md:796` excludes them; a plan with
  `pre_flight_issues` "CANNOT be approved as-is" (`planner.py:85`) but nothing looks
  at them.
* *Reads.* What is learned from errors is less than promised, and in one case wrong. A
  field error is "followed by '  Custom fields: A, B, C'" (`reader.py:510-512`) and its
  correction has them (`README.md:430-443`); but both validators write the fields on the
  line of the error (`reader.py:448`, `:480`), the simple one as "Custom fields
  available:", and the parser looks for "Custom fields:" on the next line (`:559-567`).
  So a field correction never has candidates, and prompts show an arrow with nothing
  but the object behind it (`session.py:187`). A name with a dot, `Account.Name`, does not match
  `Field '(\w+)'` (`:553`) and is not learned. The parent of a relation correction
  (`README.md:463`) is the first FROM of the label (`:587-591`), for a subquery in the
  SELECT list the relation itself. All three are in `Extract`. Besides, record facts can
  get their name from a row of a later aggregate section (`reader.py:694`); every read
  doubles the history (`core.py:258`, `:273`).
* *Schema.* `fetch_role_hierarchy` promises "all UserRole records"
  (`describe.py:222`), but `sf.query` returns one page (`PageSize`): roles of the
  next one, and those below them, are not stored. `get_role_hierarchy` promises
  "ordered parent-before-child" (`structural.py:336`) without an ORDER BY; `Context`
  therefore reads it as a set.
* *Knowledge.* Chunks are checked "against existing collections (top-k)" (`synthesizer.py:16`),
  "No raw distance threshold — always check top-k and let Claude judge" (`:45`, again in the
  heading at `:252`); but only the nearest text is judged (`:269`), and not even that one
  beyond a distance of 0.75 (`:275`). Chunks of one session are never compared with each
  other (`:173-184`), so two that contradict each other are both stored. Each is
  one of the five causes of `ClashesHaveACause`. A verdict word with punctuation after it
  counts as no conflict. Deleting `chroma_store/`, the documented way to have an edited
  `rules.md` read (`loader.py:70`), also deletes everything learned. Chunks of types
  other than the three in `_ORG_KNOWLEDGE_STAGE_FILTERS` (`retriever.py:199`) are stored
  and never retrieved. `get_pending_conflicts`, `resolve_conflict` and
  `resync_object` have no caller, so a held chunk stays held.

## 6. The proofs

TLC covers the instances above; TLAPS covers every set of batches and threads,
every plan, and every bound. The only assumptions are the named ASSUMEs of the
modules (plans are sequences of operations, `NoTarget` and `NoBatch` are no
target and no batch, bounds are numbers, an org has finitely many roles, a content
says one thing about a topic) and, where a property needs it, a hypothesis in the
theorem itself: `DecidedAlone`, `LockedAlone` and `NothingIsLost` in DecisionProofs,
`RolesHang` in StartupProofs. Each is explained below, with what satisfies it.
Recursive functions are proved about without an induction theorem: a statement that
fails somewhere fails at a least number, and there the definition contradicts it.

**ApprovalProofs.** Let `TypeInv` be `TypeOK` plus "a thread that is not idle has
a batch".

* `TypeCorrect`: `TypeInv` is inductive; lock rows get their type from
  `LockTargetsType`.
* `WritesAreApproved`: a write happens at a program point reached only through
  `handle_approve`'s UPDATE, and COALESCE never takes the approval away. Neither
  is visible in the property, so the invariant adds *threads past the approval
  work on approved batches* (`ExecutorsAreApproved`).
* `OrderIsKept` and `CompletedRowsAreTrue`: `LoopInv` says what the loop variable
  stands for: in the loop, all writes before `idx` are in effect; between a
  call and its row, the one at `idx` too. Another executor of the same batch
  can only add writes (`WritesGrow`), so the invariant survives overlapping
  executions, raising operations and crashes.
* `CompletedBatchesAreTrue`: COMPLETED is written at the end of the loop, where
  `LoopInv` gives all writes, or for a batch without rows; the second case needs
  `RowsPresent`, that a batch with a card has its rows.
* `LocksAreOwned`: lock rows appear when a thread moves to a point of
  `HoldsLocks`, and that thread leaves these points only by deleting them.

**DecisionProofs** are the properties that the code keeps only if nobody comes between
the two halves of a decision. `DecidedAlone` says that no two handlers stand between
reading the status of one batch and writing it (`handler.py:59`, `:135`);
`LockedAlone`, that no two executors which want one record stand between the two halves
of `acquire_locks` (`locks.py:58`). `approval_lock_race` and section 5 show what is lost
without them.

* `OneClickIsSafe`, `OneThreadIsSafe`: the hypotheses are not out of reach. One click
  per card gives `DecidedAlone`, since a card that was clicked once starts no second
  handler (`ClickedInv`); one thread gives both.
* `WritesHappenOnce`: `StageInv` says that the status of a batch fits the point its
  handlers have reached, and so keeps every other handler out: there is one executor.
  `Unwritten` adds that no operation at or after `idx` is in effect yet. The same
  invariant with "a requester told DENIED has a denied batch" gives `DenialsStand`.
* `PlansAreImplemented`: under `DecidedAlone` every behaviour of ApprovalFlow is one of
  WritePlan, `Spec /\ []DecidedAlone => PromiseKept`, action by action.
* `UpdatesHoldTheirLocks`: from the insertion of the lock rows to the last call the
  batch has them (`HasItsLocks`), because only its own executor deletes them, or a
  handler that denies it, and a denied batch never had any (`LocksAreLate`).
* `LocksExclude`: with `LockedAlone` as well, what a conflict check found free is still
  free when the rows are inserted (`FreeToLock`).
* `OutcomesAreReported` under `NothingIsLost`: one click per card, no crash, no Slack
  failure, as in `approval_settles`. `ReportInv` says of every point of a handler what
  it still has to send and show, and of a batch that no handler works on that both
  humans were told what happened.

**SessionProofs.**

* `TypeCorrect` includes `Needs`: no handler goes on without the message, session,
  intent or plan the next step uses.
* `WaitingSessionsHaveASubject`: `WaitsForSomething` alone is not inductive, as
  inside `update_session` the state is ahead of the rest. `LockInv` adds that at
  most one thread is there, that the state it has set stays until it is done,
  and that objects not yet in the store are idle. Steps outside the store are
  dealt with once (`QuietStep`).
* `ReplacedSessionsStayAsTheyWere`: an action property; every writer writes to
  `gen` and `gen` only grows.
* `OnlyWrites`: that only plans for a WRITE are forwarded is a fact about the past, so the
  plan must carry it. `PlanInv` says that any plan, wherever it is (in a session, in
  a handler's hands, forwarded), was made for a WRITE. It needs `FreshInv`:
  a message has no type until it is classified, and no two threads hold one
  message, so that a classification never changes what an older plan was made for.

**TurnProofs** are about a user who waits for each answer. `TurnInv` has the form
`~ overlapped => ...`: once two handlers have run together nothing is claimed any more.

* As long as they have not, one handler runs at a time and holds the current session
  object, and objects not handed out yet are untouched (`SoloInv`). What the session
  keeps is therefore what the previous handler left, and each part says something of it:
  the last request (`FlowInv`), not forwarded yet and no older than the session
  (`OpenInv`), agreed to (`AgreedInv`), its preview given to Slack (`PreviewInv`); what was learned is in a
  synthesis before it goes (`SavedInv`).
* `OneYesSendsOneBatch`, `CorrectionsReplacePlans` and `ResetStartsAfresh` follow, with
  every call failing anywhere and any number of resets and restarts.

**ReaderProofs.** Texts are sequences of lines of any length, queries of any number.

* `TypeCorrect`, with `QuietInv`: which locals are empty outside a round.
* `AnswersArrive`: a section is only ever added at the end of the text (`BlockGrows`,
  `JoinGrows`), so that an answer received stays in it (`TextInv`).
* `HistoryIsData`: what `_filter_ok_records` keeps of any sequence of sections is the
  records of those that were answered, and no error (`Sound`, `Clean`), although it
  reads lines and knows no sections.
* `LessonsAreTrue`: what `_extract_from_errors` notes of a section depends on that
  section only, so a new one adds what it complains of and changes nothing that
  earlier ones tell (`SectionFollows`, `Telling`): a message ends at the label or blank
  line behind it, and the look-ahead of the last complaint meets no line of another
  section. What it complains of is taken in the form the code reads; the theorem
  says that nothing is mixed up, not that the code reads all there is (section 5).
  Entries are merged by what they are `of` and errors capped: `DistinctInv`, nothing
  noted twice, is what makes the cap count what it should, and without it what was
  noted could be pushed out (`MergeIs`, `LessonInv`).
* `LessonsRemain`: each of the three lists of lessons is a prefix of what it is after a
  step, also past the cap (`AddedExtends`, `CappedExtends`).

**StartupProofs.**

* `TypeCorrect`: that the page is a sequence of rows and a chunk a header with lines.
* `HierarchyHolds`: the foreign keys and the completeness of the passes. `KeysInv` says
  that a row of the table comes after its parent's, and a field after its object.
  `Passing` says of the loop that table, `still` and queue share the page between
  them, each id once; that the table has at least one row for each pass, so that
  `max_passes` is never what ends the loop; that `still` holds nothing that could be
  inserted unless this pass made progress; and that the table is part of every set of ids
  closed under "the parent is in it". When the loop ends nothing that remains has its
  parent in the table, so the table is closed itself (`Closure`), and equals
  `Grounded(page)`; `Passed` keeps that until the bot serves.
* `ServedIsFetched`: `SchemaInv` says for each point of the sync which parts of `tables`
  are of this start: the objects that are described, then the rules, then the
  roles; and that `tables = disk` from the commit on. `since` only grows during a sync.
* `RulesHold`: a rulebook that is not empty is `Chunks(loaded)` (`RulesInv`); that `Chunks` loses and
  duplicates no line is a lemma about the parser alone (`ChunkOfLine`).
* `PromptsAreCurrent`: if the org stood still, prompts show it as it is. For the schema
  section that is a calculation, part by part, over tables that are one moment of the
  org (`SchemaInv`). For the role section, that every stored role is on some level of the
  tree, the page must be the whole hierarchy (`PageInv`), and no role above itself, which
  Salesforce refuses (`RolesHang`, a hypothesis, evaluated by TLC for the orgs of
  `startup_serves`).

**KnowledgeProofs.**

* `TypeCorrect`, with `CheckOutcome` for what a check may do to a chunk.
* `NothingIsLost`: `SplitInv` says, point by point, that todo, clean and conflicts
  are disjoint and together what was extracted (`Split`), and that what an end has stored and held is
  clean and conflicts as far as it got (`Placed`). That an end writes to its own share
  only is `ShareOfNew` and `ShareOfOther`.
* `NoClashWithoutACause`: `CauseInv` says that two ends which run now overlap, and that a
  chunk found clean has its explanation or clashes with nothing stored before it, from
  the moment of its check. Between the check and the `add` only an overlapping end can
  store anything, which is one of the causes, and the `add` stores the chunks of its own
  session together, which is another. Nothing is assumed of distances.

**PipelineProofs** carries these facts over to the whole process, where both halves
share the threads.

* `ConversationIsKept`: `PipelineSpec => Talk!Spec`, the conversation of the pipeline is
  one of Session. Towards the approval flow every step is one of ApprovalFlow's, or the
  restart of an idle process (`FlowStep`, `QuietRestart`), so that the invariants of
  ApprovalProofs hold as they are (`FlowInv`).
* `WritesAreHandedOver`: `JoinInv` says that what a card, an approval or a handler is
  about is a stored batch, and that the n-th batch of a plan is stored only once the
  conversation has forwarded it n times. Only `SubmitPlan` adds to either.
* `WritesWereAskedFor`, `WritesWereAgreedTo`: `Turns` is TurnProofs, instantiated like
  `Talk`. Its actions are those of `Talk`, one by one (`SameSteps`), so the theorems
  `OnlyWrites` and `OneYesSendsOneBatch` hold of this conversation
  (`WritesAreForwarded`, `YesComesFirst`): a batch that is stored was asked for as a WRITE,
  agreed to, previewed, and is its plan's first.
* `NumbersHold`: `ResultsAreWrites` says that the results at hand are those of earlier
  writes of the plan, so a resolved reference points backwards at a write
  (`ChainsAreKept`). `_parse_plan`'s positions are a permutation of what Claude listed
  (`PositionsAreAPermutation`, by counting), so the order that `AppliedInOrder`
  gives the rows is the order of the numbers, and no operation is dropped.
* `OnlyWhatWasMeant` is `WritesAreMeant`, the three together.
* `ProcessKeepsItsPromise`: with one click per card the whole process implements
  WritePlan. The invariants of DecisionProofs hold here too, as a restart of an idle
  process changes nothing they speak of (`OncePerCard`, `RestartIsStutter`).

Only model-checked is liveness, which needs fairness and is out of TLAPS's reach:
`HandlersFinish`, `LocksAreReleased`, `EventsAreHandled`, `ReadsEnd`, `StartsEnd` and
`PlansArrive`. Every invariant and every other action property of a passing run is
stated by a theorem.

## 7. What is left out

* The contents of prompts, answers, messages, payloads, results and knowledge,
  timestamps, logging and layout. Claude's classification is a choice among READ,
  WRITE and "answered at once" (MIXED, UNKNOWN, follow-up).
* Errors of the database, and its write-ahead log: a statement that returned is
  durable.
* The context and history of a session, beyond whether there is any history.
* The extraction of record facts from a read (`_extract_metadata_from_ok`).
* Embeddings: distances are data, and which chunks a prompt is given (`semantic.py`) is
  not asked.
* Labels of more than one line: a SOQL text with a line break in it (`reader.py:411`)
  makes a label that `_filter_ok_records` recognises by its last line only, and would
  leave the others in the history. In Reader a label is one line.
* The formulas of validation rules as prompts show them: `PromptsShowTheOrg` compares
  fields, values, relationships, roles and which rules there are.
* Functions that nothing calls (`resync_object`, `get_pending_conflicts`,
  `resolve_conflict`, `get_role_chain` and other lookups of `structural.py`).
* The layout of approval cards (`formatter.py`), prompts and previews.
* A login or a missing setting that fails before the sync: like any exception at
  start-up, it ends a process that has changed nothing.

## 8. The plan

Done: BatchStore, BatchExecutor, ApprovalFlow with WritePlan, Session, Reader,
SchemaSync, Context, Startup, Knowledge, WritePipeline, and the proofs of section 6.
Left, in this order:

1. Record facts of `_extract_metadata_from_ok`, whatever order sections complete in,
   and the growth bounds of `ConversationContext` and `ConversationHistory`.
2. Which of two handlers writes a card last, once both have been clicked
   (`listener.py:163`).
