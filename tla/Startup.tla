------------------------------ MODULE Startup -------------------------------
(***************************************************************************)
(* main.py: open the database, log in to Salesforce, synchronise the       *)
(* schema, load the rules of rules.md into their collection unless it has  *)
(* documents (knowledge/loader.init_knowledge), and serve Slack.  Any      *)
(* exception on the way ends the process; somebody starts it again.        *)
(***************************************************************************)
EXTENDS Context

CONSTANTS
    Editions,   \* what rules.md may contain: sequences of lines
    MaxStarts,  \* bound: starts of the process
    MaxChanges  \* bound: changes of the org and of rules.md

Line == {"head", "text", "blank"}

ASSUME StartupAssumption == /\ Editions \subseteq Seq(Line)
                            /\ MaxStarts \in Nat
                            /\ MaxChanges \in Nat

VARIABLES
    rulesmd,    \* the file; one that is missing counts as an empty one
    rulebook,   \* the collection asoka_knowledge: chunks
    starts,     \* starts so far
    changes     \* changes so far

VARIABLE
    loaded      \* history variable: the edition rulebook was read from

startVars == <<rulesmd, rulebook, starts, changes, loaded>>
vars == <<syncVars, startVars>>

PC == SyncPC \cup {"down", "knowledge", "serving"}

\* A chunk: the number of its header line, and those of its other lines.
Chunk == [category : Nat, body : SUBSET Nat]

TypeOK ==
    /\ SyncTypeOK
    /\ pc \in PC
    /\ rulesmd \in Editions
    /\ rulebook \subseteq Chunk
    /\ starts \in 0 .. MaxStarts
    /\ changes \in 0 .. MaxChanges
    /\ loaded \in Editions \cup {<<>>}

Init ==
    /\ SyncInit
    /\ pc = "down"
    /\ rulesmd \in Editions
    /\ rulebook = {}
    /\ starts = 0
    /\ changes = 0
    /\ loaded = <<>>

-----------------------------------------------------------------------------
(* _parse_rules_md.  A section starts at the first line and at every line  *)
(* that starts with "# "; its first line that is not blank is taken for    *)
(* the header, even if it is none; a section without a body is skipped.    *)

Starts(lines) == {i \in DOMAIN lines : i = 1 \/ lines[i] = "head"}

\* Mutant: the last section reaches only to the line before the last.
Section_DropsLastLine(lines, i) ==
    {j \in i .. Len(lines) - 1 :
        /\ \A k \in Starts(lines) : ~ (i < k /\ k <= j)
        /\ lines[j] # "blank"}

Section(lines, i) ==
    {j \in i .. Len(lines) : /\ \A k \in Starts(lines) : ~ (i < k /\ k <= j)
                             /\ lines[j] # "blank"}

First(S) == CHOOSE j \in S : \A k \in S : j <= k

Chunks(lines) ==
    {[category |-> First(s), body |-> s \ {First(s)}] :
        s \in {u \in {Section(lines, i) : i \in Starts(lines)} :
                  Cardinality(u) > 1}}

-----------------------------------------------------------------------------
(* The process.                                                            *)

Syncing == pc \in SyncPC

NoLocals ==
    /\ todo' = {}
    /\ fetched' = <<>>
    /\ asked' = {}
    /\ queue' = <<>>
    /\ still' = <<>>
    /\ progress' = FALSE
    /\ passes' = 0
    /\ page' = <<>>

\* db.connection.init adds no tables and changes no data; the login succeeds.
Start ==
    /\ At("down")
    /\ starts < MaxStarts
    /\ starts' = starts + 1
    /\ todo' = Objects
    /\ since' = {org}
    /\ Goto(IF todo' = {} THEN "rules" ELSE "describe")
    /\ UNCHANGED <<org, disk, tables, fetched, asked, rolesync, page, rulesmd,
                   rulebook, changes, loaded>>

\* An exception at any point of start-up, or the end of a running process.
Die ==
    /\ ~ At("down")
    /\ tables' = disk
    /\ Goto("down")
    /\ NoLocals
    /\ since' = {}
    /\ UNCHANGED <<org, disk, startVars>>

SkipRules ==
    /\ At("knowledge")
    /\ rulebook # {}
    /\ Goto("serving")
    /\ UNCHANGED <<org, disk, tables, locals, page, since, startVars>>

\* One add() call stores all chunks; with none to store it raises.
EmbedRules ==
    /\ At("knowledge")
    /\ rulebook = {}
    /\ Chunks(rulesmd) # {}
    /\ rulebook' = Chunks(rulesmd)
    /\ loaded' = rulesmd
    /\ Goto("serving")
    /\ UNCHANGED <<org, disk, tables, locals, page, since, rulesmd, starts, changes>>

\* Nothing to embed, and nothing there: FileNotFoundError, or add() raises.
NoRules ==
    /\ At("knowledge")
    /\ rulebook = {}
    /\ Chunks(rulesmd) = {}
    /\ Die

InitKnowledge == SkipRules \/ EmbedRules \/ NoRules

-----------------------------------------------------------------------------
(* The world: administrators change the org, or rules.md, whose new        *)
(* edition is only read once the store was deleted (loader.py:70).         *)

ChangeOrg ==
    /\ changes < MaxChanges
    /\ changes' = changes + 1
    /\ org' \in Orgs \ {org}
    /\ since' = IF Syncing THEN since \cup {org'} ELSE since
    /\ UNCHANGED <<disk, tables, pc, locals, page, rulesmd, rulebook, starts, loaded>>

EditRules ==
    /\ changes < MaxChanges
    /\ changes' = changes + 1
    /\ rulesmd' \in Editions \ {rulesmd}
    /\ UNCHANGED <<syncVars, rulebook, starts, loaded>>

WipeStore ==
    /\ At("down")
    /\ rulebook # {}
    /\ rulebook' = {}
    /\ loaded' = <<>>
    /\ UNCHANGED <<syncVars, rulesmd, starts, changes>>

-----------------------------------------------------------------------------

Work == (SyncStep /\ UNCHANGED startVars) \/ InitKnowledge

Next == Start \/ Work \/ Die \/ ChangeOrg \/ EditRules \/ WipeStore

Spec == Init /\ [][Next]_vars

\* Every call start-up makes returns or raises.
FairSpec == Spec /\ WF_vars(Work)

-----------------------------------------------------------------------------
(* Properties.                                                             *)

Serving == At("serving")

\* Ids that belong to every set of roles which, with a role without parent or
\* with the parent, has the role: the roles that hang on a root of the page.
Grounded(rows) ==
    {r \in Ids(rows) : \A S \in SUBSET Ids(rows) :
        (\A i \in DOMAIN rows :
            rows[i].parent \in S \cup {None} => rows[i].id \in S) => r \in S}

\* No row of role_hierarchy precedes its parent's, and no field its object: the
\* foreign keys, which are enforced at every statement, never end a start-up.
ForeignKeysHold ==
    /\ \A o \in Objects : tables.fields[o] # {} => o \in tables.objects
    /\ \A i \in DOMAIN tables.roles :
          \/ tables.roles[i].parent = None
          \/ \E j \in 1 .. i - 1 : tables.roles[j].id = tables.roles[i].parent

\* The passes insert every role that can be inserted, whatever order the page is
\* in: neither "no progress" nor max_passes stops them early (sync.py:279).
GroundedRolesAreStored ==
    Serving => /\ Ids(disk.roles) = Grounded(page)
               /\ Len(disk.roles) = Cardinality(Ids(disk.roles))

\* The tables hold all that the foreign keys permit.
HierarchyIsWhole == ForeignKeysHold /\ GroundedRolesAreStored

\* What is served was committed, and each part of it is what the org looked like
\* at some moment of this start: nothing of an older start, or of a sync that
\* died on the way, is left (sync.py:142 and :155).
ServedSchemaWasFetched ==
    Serving =>
        /\ tables = disk
        /\ disk.objects = Objects
        /\ \A o \in Objects : \E p \in since :
              /\ disk.fields[o] = {ParseField(f) : f \in p.fields[o]}
              /\ {r \in disk.relationships : r.parent = o} =
                     ParseRelationships(o, p.children[o])
        /\ \E p \in since : /\ DOMAIN disk.rules = DOMAIN p.rules
                            /\ \A r \in DOMAIN p.rules :
                                  /\ disk.rules[r].object = p.rules[r].object
                                  /\ disk.rules[r].active = p.rules[r].active
        /\ \A r \in DOMAIN disk.rules : \/ disk.rules[r].formula = None
                                        \/ \E p \in since :
                                              /\ r \in DOMAIN p.rules
                                              /\ disk.rules[r].formula =
                                                     p.rules[r].formula
        /\ \E p \in since : \A i \in DOMAIN page :
              /\ page[i].id \in DOMAIN p.roles
              /\ page[i].parent = p.roles[page[i].id]

\* What a prompt should say of object o when the org is p.
SectionOf(p, o) ==
    LET fields == p.fields[o] IN
    [editable |-> {[name |-> f.name, values |-> f.values \ f.retired] :
                       f \in {g \in fields : g.updateable /\ g.help # "deprecated"}},
     deprecated |-> {f.name : f \in {g \in fields : g.help = "deprecated"}},
     readonly |-> {f.name : f \in {g \in fields : ~ g.updateable}},
     relationships |->
         {r \in Relationship : /\ o \in {r.parent, r.child}
                               /\ [child |-> r.child, field |-> r.field,
                                   named |-> TRUE] \in p.children[r.parent]},
     rules |-> {r \in DOMAIN p.rules : p.rules[r].object = o /\ p.rules[r].active}]

\* Every role hangs on one without a parent: Salesforce refuses a role that would
\* be above itself.
RolesHang ==
    \A p \in Orgs : \A S \in SUBSET DOMAIN p.roles :
        (\A r \in DOMAIN p.roles : p.roles[r] \in S \cup {None} => r \in S)
            => S = DOMAIN p.roles

\* The role section of a prompt shows every stored role (retriever.py:131).
RolesAreShown == RolesShown = Ids(tables.roles)

\* After a start during which the org did not change, prompts tell of it as it
\* was: no deprecated or read-only field, no retired value and no inactive rule
\* where Claude may pick from, relationships from both ends, and all roles if
\* they fit one page.
PromptsShowTheOrg ==
    RolesAreShown /\ \A p \in since : Serving /\ since = {p} =>
        /\ \A o \in Objects : SchemaSection(o) = SectionOf(p, o)
        /\ Cardinality(DOMAIN p.roles) <= PageSize => RolesShown = DOMAIN p.roles

\* While the bot serves, the rules are one edition of rules.md, and every line
\* below a header is in one chunk, that of the nearest header above it.
RulesAreWhole ==
    Serving =>
        /\ loaded # <<>>
        /\ \A i \in DOMAIN loaded :
              LET above == {h \in 1 .. i - 1 : loaded[h] = "head"} IN
              loaded[i] = "text" /\ above # {} =>
                  {c.category : c \in {d \in rulebook : i \in d.body}} =
                      {h \in above : \A k \in above : k <= h}

(* Liveness.                                                               *)

\* A start-up ends: the bot serves, or the process is gone.
StartsEnd == ~ At("down") ~> Serving \/ At("down")
=============================================================================
