----------------------------- MODULE SchemaSync -----------------------------
(***************************************************************************)
(* full_sync (startup/sync.py): the schema of the org, read from           *)
(* Salesforce call by call (salesforce/describe.py) and written to the     *)
(* schema tables of SQLite in one transaction.  The org may change between *)
(* two calls.  Start-up is sequential, so a step is a call with the        *)
(* statements that follow it; "tables" is what the connection sees and     *)
(* "disk" what was committed.  The statements on the way are rolled back   *)
(* when the process dies.                                                  *)
(***************************************************************************)
EXTENDS Naturals, Sequences, FiniteSets

CONSTANTS
    Objects,    \* CORE_OBJECTS; "order doesn't matter here" (describe.py:44)
    Others,     \* objects that are not synchronised, but may be children
    Fields,     \* field names
    Values,     \* picklist values
    Rules,      \* ids of validation rules
    Formulas,
    Roles,      \* ids of UserRole records
    None,       \* no parent role; no formula
    Orgs,       \* what the org may look like
    PageSize    \* how many UserRole records sf.query returns at most

\* What describe() says of a field, and of a child relationship.
FieldDesc == [name : Fields, help : {"none", "note", "deprecated"},
              updateable : BOOLEAN, values : SUBSET Values,
              retired : SUBSET Values]

ChildDesc == [child : Objects \cup Others, field : Fields, named : BOOLEAN]

RuleDesc == [object : Objects, active : BOOLEAN, formula : Formulas]

PartialFunctions(S, T) == UNION {[D -> T] : D \in SUBSET S}

OrgType == [fields : [Objects -> SUBSET FieldDesc],
            children : [Objects -> SUBSET ChildDesc],
            rules : PartialFunctions(Rules, RuleDesc),
            roles : PartialFunctions(Roles, Roles \cup {None})]

ASSUME OrgAssumption == /\ Orgs \subseteq OrgType
                        /\ None \notin Roles \cup Formulas
                        /\ IsFiniteSet(Roles)
                        /\ PageSize \in Nat

\* Rows of the tables fields, relationships, validation_rules, role_hierarchy.
FieldRow == [name : Fields, editable : BOOLEAN, deprecated : BOOLEAN,
             values : SUBSET Values]

Relationship == [parent : Objects, child : Objects \cup Others, field : Fields]

RuleRow == [object : Objects, active : BOOLEAN, formula : Formulas \cup {None}]

RoleRow == [id : Roles, parent : Roles \cup {None}]

Tables == [objects : SUBSET Objects,
           fields : [Objects -> SUBSET FieldRow],
           relationships : SUBSET Relationship,
           rules : PartialFunctions(Rules, RuleRow),
           roles : Seq(RoleRow)]

NoTables == [objects |-> {}, fields |-> [o \in Objects |-> {}],
             relationships |-> {}, rules |-> <<>>, roles |-> <<>>]

VARIABLES
    org,        \* Salesforce
    disk,       \* the committed schema tables
    tables      \* the same tables as the process's own connection sees them

VARIABLES
    pc,         \* where main.py is; "down" when there is no process
    todo,       \* objects full_sync has not described yet
    fetched,    \* the rules of the bulk query, with the formulas so far
    asked,      \* rules whose formula is still to be fetched
    queue,      \* roles the current pass has not looked at
    still,      \* still_remaining: roles the current pass could not insert
    progress,   \* whether inserted_this_pass has an element
    passes      \* passes completed

(* History variables, which no step reads.                                 *)
VARIABLES
    page,       \* the roles this start fetched
    since       \* what the org has looked like since this start's first call

rolesync == <<queue, still, progress, passes>>
locals == <<todo, fetched, asked, rolesync>>
syncVars == <<org, disk, tables, pc, locals, page, since>>

SyncPC == {"describe", "rules", "formulas", "roles", "insert", "commit"}

Ids(rows) == {rows[i].id : i \in DOMAIN rows}

SyncTypeOK ==
    /\ org \in Orgs
    /\ disk \in Tables
    /\ tables \in Tables
    /\ todo \subseteq Objects
    /\ fetched \in PartialFunctions(Rules, RuleRow)
    /\ asked \subseteq Rules
    /\ queue \in Seq(RoleRow)
    /\ still \in Seq(RoleRow)
    /\ progress \in BOOLEAN
    /\ passes \in Nat
    /\ page \in Seq(RoleRow)
    /\ since \subseteq Orgs

SyncInit ==
    /\ org \in Orgs
    /\ disk = NoTables
    /\ tables = NoTables
    /\ todo = {}
    /\ fetched = <<>>
    /\ asked = {}
    /\ queue = <<>>
    /\ still = <<>>
    /\ progress = FALSE
    /\ passes = 0
    /\ page = <<>>
    /\ since = {}

At(p) == pc = p

Goto(p) == pc' = p

-----------------------------------------------------------------------------
(* describe.py: what is kept of a describe() response.                     *)

\* Mutant: the description of the field is stored as it came.
ParseField_Raw(f) == f

ParseField(f) ==
    [name |-> f.name, editable |-> f.updateable,
     deprecated |-> f.help = "deprecated", values |-> f.values \ f.retired]

\* Relationships without a name cannot be traversed in SOQL: skipped.
ParseRelationships(o, children) ==
    {[parent |-> o, child |-> c.child, field |-> c.field] :
        c \in {d \in children : d.named}}

\* The rules of the bulk query, which cannot bring the formulas along.
BulkRules(rules) ==
    [r \in DOMAIN rules |-> [object |-> rules[r].object,
                             active |-> rules[r].active, formula |-> None]]

-----------------------------------------------------------------------------
(* The objects: describe, then upsert the object, its fields, and the      *)
(* relationships in which it is the parent.                                *)

UpsertObject(o) == tables.objects \cup {o}

UpsertFields(o, rows) == [tables.fields EXCEPT ![o] = rows]

\* Mutant: INSERT OR REPLACE alone, without the DELETE before it.
UpsertRelationships_NoDelete(o, rels) == tables.relationships \cup rels

UpsertRelationships(o, rels) ==
    {r \in tables.relationships : r.parent # o} \cup rels

\* One iteration of the loop over CORE_OBJECTS.
DescribeObject ==
    /\ At("describe")
    /\ \E o \in todo :
          /\ todo' = todo \ {o}
          /\ tables' = [tables EXCEPT
                !.objects = UpsertObject(o),
                !.fields = UpsertFields(o, {ParseField(f) : f \in org.fields[o]}),
                !.relationships =
                    UpsertRelationships(o, ParseRelationships(o, org.children[o]))]
    /\ Goto(IF todo' = {} THEN "rules" ELSE "describe")
    /\ UNCHANGED <<org, disk, fetched, asked, rolesync, page, since>>

-----------------------------------------------------------------------------
(* The validation rules: a query for all of them, then one for each to     *)
(* learn its formula.                                                      *)

FetchRules ==
    /\ At("rules")
    /\ fetched' = BulkRules(org.rules)
    /\ asked' = DOMAIN org.rules
    /\ Goto("formulas")
    /\ UNCHANGED <<org, disk, tables, todo, rolesync, page, since>>

\* A rule whose query raises, or which is gone by now, has no formula.
FetchFormula ==
    /\ At("formulas")
    /\ \E r \in asked :
          /\ asked' = asked \ {r}
          /\ \/ /\ r \in DOMAIN org.rules
                /\ fetched' = [fetched EXCEPT ![r].formula = org.rules[r].formula]
             \/ UNCHANGED fetched
    /\ UNCHANGED <<org, disk, tables, pc, todo, rolesync, page, since>>

StoreRules ==
    /\ At("formulas")
    /\ asked = {}
    /\ tables' = [tables EXCEPT !.rules = fetched]
    /\ Goto("roles")
    /\ UNCHANGED <<org, disk, locals, page, since>>

-----------------------------------------------------------------------------
(* The role hierarchy: delete all rows, then insert in passes, a parent    *)
(* before its children.                                                    *)

\* The first page of the records of f, in any order.
Pages(f) ==
    LET n == IF Cardinality(DOMAIN f) < PageSize THEN Cardinality(DOMAIN f)
                                                 ELSE PageSize
    IN  {[i \in 1 .. n |-> [id |-> s[i], parent |-> f[s[i]]]] :
            s \in {t \in [1 .. n -> DOMAIN f] :
                      \A i, j \in 1 .. n : t[i] = t[j] => i = j}}

FetchRoles ==
    /\ At("roles")
    /\ page' \in Pages(org.roles)
    /\ tables' = [tables EXCEPT !.roles = <<>>]
    /\ queue' = page'
    /\ still' = <<>>
    /\ progress' = FALSE
    /\ passes' = 0
    /\ Goto(IF page' = <<>> THEN "commit" ELSE "insert")
    /\ UNCHANGED <<org, disk, todo, fetched, asked, since>>

\* inserted_ids: the rows of the table, which was empty to begin with.
Insertable(role) == role.parent \in Ids(tables.roles) \cup {None}

InsertRole ==
    /\ At("insert")
    /\ queue # <<>>
    /\ queue' = Tail(queue)
    /\ \/ /\ Insertable(Head(queue))
          /\ tables' = [tables EXCEPT !.roles = Append(@, Head(queue))]
          /\ progress' = TRUE
          /\ UNCHANGED still
       \/ /\ ~ Insertable(Head(queue))
          /\ still' = Append(still, Head(queue))
          /\ UNCHANGED <<tables, progress>>
    /\ UNCHANGED <<org, disk, pc, todo, fetched, asked, passes, page, since>>

\* Mutant: two passes, as in a hierarchy of two levels.
LastPass_TwoLevels == still = <<>> \/ ~ progress \/ passes = 1

\* Nothing remains, nothing was inserted, or max_passes is reached.
LastPass == still = <<>> \/ ~ progress \/ passes = Len(page)

\* Mutant: while remaining, another pass.
EndPass_Endless ==
    /\ At("insert")
    /\ queue = <<>>
    /\ \/ still = <<>> /\ Goto("commit") /\ UNCHANGED <<queue, still, progress>>
       \/ still # <<>> /\ queue' = still /\ still' = <<>> /\ UNCHANGED <<pc, progress>>
    /\ UNCHANGED <<org, disk, tables, todo, fetched, asked, passes, page, since>>

EndPass ==
    /\ At("insert")
    /\ queue = <<>>
    /\ passes' = passes + 1
    /\ \/ /\ LastPass
          /\ Goto("commit")
          /\ UNCHANGED <<queue, still, progress>>
       \/ /\ ~ LastPass
          /\ queue' = still
          /\ still' = <<>>
          /\ progress' = FALSE
          /\ UNCHANGED pc
    /\ UNCHANGED <<org, disk, tables, todo, fetched, asked, page, since>>

Commit ==
    /\ At("commit")
    /\ disk' = tables
    /\ Goto("knowledge")
    /\ UNCHANGED <<org, tables, locals, page, since>>

SyncStep ==
    \/ DescribeObject
    \/ FetchRules \/ FetchFormula \/ StoreRules
    \/ FetchRoles \/ InsertRole \/ EndPass
    \/ Commit
=============================================================================
