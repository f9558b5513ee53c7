---------------------------- MODULE StartupProofs ---------------------------
(***************************************************************************)
(* Theorems about Startup, for every org, page size and edition of         *)
(* rules.md, and any number of starts.                                     *)
(***************************************************************************)
EXTENDS Startup, FiniteSetTheorems, SequenceTheorems, NaturalsInduction, TLAPS

-----------------------------------------------------------------------------
(* Type correctness.                                                       *)

LEMMA Partial ==
  ASSUME NEW S, NEW T, NEW f
  PROVE  f \in PartialFunctions(S, T) <=>
             DOMAIN f \subseteq S /\ f \in [DOMAIN f -> T]
  BY DEF PartialFunctions

LEMMA NoRows ==
  ASSUME NEW S, NEW T
  PROVE  <<>> \in PartialFunctions(S, T)
  <1>1. <<>> \in Seq(T) /\ Len(<<>>) = 0
    BY EmptySeq
  <1>2. <<>> \in [1 .. 0 -> T]
    BY <1>1, LenProperties
  <1>3. 1 .. 0 = {}
    OBVIOUS
  <1> QED
    BY <1>2, <1>3 DEF PartialFunctions

LEMMA TypeNoTables == NoTables \in Tables
  BY NoRows, EmptySeq DEF NoTables, Tables

LEMMA OrgParts ==
  ASSUME NEW p \in Orgs
  PROVE  /\ p.fields \in [Objects -> SUBSET FieldDesc]
         /\ p.children \in [Objects -> SUBSET ChildDesc]
         /\ p.rules \in PartialFunctions(Rules, RuleDesc)
         /\ p.roles \in PartialFunctions(Roles, Roles \cup {None})
  BY OrgAssumption DEF OrgType

LEMMA ParseFieldType ==
  ASSUME NEW f \in FieldDesc
  PROVE  ParseField(f) \in FieldRow
  <1>1. f.values \ f.retired \in SUBSET Values
    BY DEF FieldDesc
  <1> QED
    BY <1>1 DEF FieldDesc, ParseField, FieldRow

LEMMA ParseRelationshipsType ==
  ASSUME NEW o \in Objects, NEW C \in SUBSET ChildDesc
  PROVE  ParseRelationships(o, C) \subseteq Relationship
  BY DEF ChildDesc, ParseRelationships, Relationship

LEMMA BulkRulesType ==
  ASSUME NEW p \in Orgs
  PROVE  /\ BulkRules(p.rules) \in PartialFunctions(Rules, RuleRow)
         /\ DOMAIN BulkRules(p.rules) = DOMAIN p.rules
  <1>1. DOMAIN p.rules \subseteq Rules /\ p.rules \in [DOMAIN p.rules -> RuleDesc]
    BY OrgParts, Partial
  <1>2. \A r \in DOMAIN p.rules :
            [object |-> p.rules[r].object, active |-> p.rules[r].active,
             formula |-> None] \in RuleRow
    BY <1>1 DEF RuleDesc, RuleRow
  <1>3. BulkRules(p.rules) \in [DOMAIN p.rules -> RuleRow]
    BY <1>2 DEF BulkRules
  <1> QED
    BY <1>1, <1>3, Partial

\* A page holds different roles, as the org has them.
LEMMA PageOfRoles ==
  ASSUME NEW p \in Orgs, NEW pg \in Pages(p.roles)
  PROVE  /\ pg \in Seq(RoleRow)
         /\ \A i \in DOMAIN pg : /\ pg[i].id \in DOMAIN p.roles
                                 /\ pg[i].parent = p.roles[pg[i].id]
         /\ \A i, j \in DOMAIN pg : pg[i].id = pg[j].id => i = j
  <1> DEFINE f == p.roles
             n == IF Cardinality(DOMAIN f) < PageSize THEN Cardinality(DOMAIN f)
                                                      ELSE PageSize
  <1>1. DOMAIN f \subseteq Roles /\ f \in [DOMAIN f -> Roles \cup {None}]
    BY OrgParts, Partial
  <1>2. Cardinality(DOMAIN f) \in Nat
    BY <1>1, OrgAssumption, FS_Subset, FS_CardinalityType
  <1>3. n \in Nat
    BY <1>2, OrgAssumption
  <1>4. PICK s \in [1 .. n -> DOMAIN f] :
            /\ \A i, j \in 1 .. n : s[i] = s[j] => i = j
            /\ pg = [i \in 1 .. n |-> [id |-> s[i], parent |-> f[s[i]]]]
    BY DEF Pages
  <1>5. \A i \in 1 .. n : pg[i] = [id |-> s[i], parent |-> f[s[i]]]
                          /\ pg[i] \in RoleRow
    BY <1>1, <1>4 DEF RoleRow
  <1>6. DOMAIN pg = 1 .. n /\ pg \in [1 .. n -> RoleRow]
    BY <1>4, <1>5
  <1>7. pg \in Seq(RoleRow)
    BY <1>3, <1>6
  <1> QED
    BY <1>4, <1>5, <1>6, <1>7

(* Lines and chunks.                                                       *)

LEMMA FirstIsLeast ==
  ASSUME NEW S \in SUBSET Nat, S # {}
  PROVE  First(S) \in S /\ \A k \in S : First(S) <= k
  <1> DEFINE Less == OpToRel(<, Nat)
  <1>1. IsWellFoundedOn(Less, Nat)
    BY NatLessThanWellFounded
  <1>2. \A x, y \in Nat : <<x, y>> \in Less <=> x < y
    BY DEF OpToRel
  <1> HIDE DEF Less
  <1>3. PICK j \in S : \A k \in S : ~ (<<k, j>> \in Less)
    BY <1>1, WFMin, Zenon
  <1>4. ASSUME NEW k \in S PROVE j <= k
    <2>1. j \in Nat /\ k \in Nat
      BY <1>3
    <2>2. ~ k < j
      BY <1>2, <1>3, <2>1, Zenon
    <2> QED
      BY <2>1, <2>2
  <1> QED
    BY <1>4 DEF First

LEMMA LinesOfEdition ==
  ASSUME NEW lines \in Seq(Line)
  PROVE  /\ Len(lines) \in Nat
         /\ DOMAIN lines = 1 .. Len(lines)
         /\ Starts(lines) \subseteq DOMAIN lines
         /\ \A i \in Starts(lines) : Section(lines, i) \subseteq i .. Len(lines)
  BY LenProperties DEF Starts, Section

LEMMA ChunksType ==
  ASSUME NEW lines \in Seq(Line)
  PROVE  Chunks(lines) \subseteq Chunk
  <1> SUFFICES ASSUME NEW i \in Starts(lines),
                      Cardinality(Section(lines, i)) > 1
               PROVE  [category |-> First(Section(lines, i)),
                       body |-> Section(lines, i) \ {First(Section(lines, i))}]
                          \in Chunk
      BY DEF Chunks
  <1>1. Section(lines, i) \in SUBSET Nat
    BY LinesOfEdition
  <1>2. Section(lines, i) # {}
    <2>1. ~ 0 > 1
      OBVIOUS
    <2> QED
      BY <2>1, FS_EmptySet
  <1> QED
    BY <1>1, <1>2, FirstIsLeast DEF Chunk

-----------------------------------------------------------------------------

LEMMA TypeInit == Init => TypeOK
  <1> SUFFICES ASSUME Init PROVE TypeOK
      OBVIOUS
  <1>1. SyncTypeOK
    BY TypeNoTables, NoRows, EmptySeq DEF Init, SyncInit, SyncTypeOK
  <1> QED
    BY <1>1, StartupAssumption DEF Init, TypeOK, PC

\* The steps of full_sync leave the rest of Startup alone, except for pc.
LEMMA TypeSync == TypeOK /\ SyncStep /\ UNCHANGED startVars => TypeOK'
  <1> SUFFICES ASSUME TypeOK, SyncStep, UNCHANGED startVars PROVE TypeOK'
      OBVIOUS
  <1> USE DEF TypeOK, SyncTypeOK, PC, SyncPC, Goto, At, startVars, locals, rolesync
  <1>1. CASE DescribeObject
    <2>1. PICK o \in todo :
             /\ todo' = todo \ {o}
             /\ tables' = [tables EXCEPT
                   !.objects = @ \cup {o},
                   !.fields = UpsertFields(o, {ParseField(f) : f \in org.fields[o]}),
                   !.relationships =
                       UpsertRelationships(o, ParseRelationships(o, org.children[o]))]
      BY <1>1 DEF DescribeObject, UpsertObject
    <2>2. o \in Objects
      BY <2>1
    <2>3. {ParseField(f) : f \in org.fields[o]} \in SUBSET FieldRow
      BY <2>2, OrgParts, ParseFieldType
    <2>4. ParseRelationships(o, org.children[o]) \in SUBSET Relationship
      BY <2>2, OrgParts, ParseRelationshipsType
    <2>5. tables' \in Tables
      BY <2>1, <2>2, <2>3, <2>4 DEF Tables, UpsertFields, UpsertRelationships
    <2> QED
      BY <1>1, <2>1, <2>5 DEF DescribeObject
  <1>2. CASE FetchRules
    <2>1. DOMAIN org.rules \subseteq Rules
      BY OrgParts, Partial
    <2> QED
      BY <1>2, <2>1, BulkRulesType DEF FetchRules
  <1>3. CASE FetchFormula
    <2>1. PICK r \in asked :
             /\ asked' = asked \ {r}
             /\ \/ /\ r \in DOMAIN org.rules
                   /\ fetched' = [fetched EXCEPT ![r].formula = org.rules[r].formula]
                \/ UNCHANGED fetched
      BY <1>3 DEF FetchFormula
    <2>2. r \in DOMAIN org.rules => org.rules[r].formula \in Formulas
      <3>1. org.rules \in [DOMAIN org.rules -> RuleDesc]
        BY OrgParts, Partial
      <3> QED
        BY <3>1 DEF RuleDesc
    <2>3. fetched' \in PartialFunctions(Rules, RuleRow)
      <3>1. fetched \in [DOMAIN fetched -> RuleRow] /\ DOMAIN fetched \subseteq Rules
        BY Partial
      <3>2. CASE UNCHANGED fetched
        BY <3>2
      <3>3. CASE /\ r \in DOMAIN org.rules
                 /\ fetched' = [fetched EXCEPT ![r].formula = org.rules[r].formula]
        <4>1. fetched' \in [DOMAIN fetched -> RuleRow]
          BY <3>1, <3>3, <2>2 DEF RuleRow
        <4> QED
          BY <3>1, <4>1 DEF PartialFunctions
      <3> QED
        BY <2>1, <3>2, <3>3
    <2> QED
      BY <1>3, <2>1, <2>3 DEF FetchFormula
  <1>4. CASE StoreRules
    <2>1. tables' \in Tables
      BY <1>4 DEF StoreRules, Tables
    <2> QED
      BY <1>4, <2>1 DEF StoreRules
  <1>5. CASE FetchRoles
    <2>1. page' \in Seq(RoleRow)
      BY <1>5, PageOfRoles DEF FetchRoles
    <2>2. tables' \in Tables
      BY <1>5, EmptySeq DEF FetchRoles, Tables
    <2> QED
      BY <1>5, <2>1, <2>2, EmptySeq DEF FetchRoles
  <1>6. CASE InsertRole
    <2>1. Head(queue) \in RoleRow /\ Tail(queue) \in Seq(RoleRow)
      BY <1>6, HeadTailProperties DEF InsertRole
    <2>2. tables.roles \in Seq(RoleRow)
      BY DEF Tables
    <2>3. /\ Append(tables.roles, Head(queue)) \in Seq(RoleRow)
          /\ Append(still, Head(queue)) \in Seq(RoleRow)
      BY <2>1, <2>2, AppendProperties
    <2>4. tables' \in Tables
      BY <1>6, <2>3 DEF InsertRole, Tables
    <2> QED
      BY <1>6, <2>1, <2>3, <2>4 DEF InsertRole
  <1>7. CASE EndPass
    <2>1. /\ passes' = passes + 1
          /\ queue' \in {queue, still} /\ still' \in {still, <<>>}
      BY <1>7 DEF EndPass
    <2>2. <<>> \in Seq(RoleRow)
      BY EmptySeq
    <2>3. progress' \in BOOLEAN /\ pc' \in {"insert", "commit"}
      BY <1>7 DEF EndPass
    <2>4. UNCHANGED <<org, disk, tables, todo, fetched, asked, page, since>>
      BY <1>7 DEF EndPass
    <2>5. passes' \in Nat
      BY <2>1
    <2>6. queue' \in Seq(RoleRow) /\ still' \in Seq(RoleRow)
      BY <2>1, <2>2
    <2> QED
      BY <2>3, <2>4, <2>5, <2>6
  <1>8. CASE Commit
    BY <1>8 DEF Commit
  <1> QED
    BY <1>1, <1>2, <1>3, <1>4, <1>5, <1>6, <1>7, <1>8 DEF SyncStep

LEMMA TypeStep == TypeOK /\ [Next]_vars => TypeOK'
  <1> SUFFICES ASSUME TypeOK, [Next]_vars PROVE TypeOK'
      OBVIOUS
  <1> USE DEF TypeOK, SyncTypeOK, PC, SyncPC, Goto, At, startVars, syncVars,
              locals, rolesync
  <1>1. CASE Start
    BY <1>1, StartupAssumption DEF Start
  <1>2. CASE SyncStep /\ UNCHANGED startVars
    BY <1>2, TypeSync
  <1>3. CASE Die
    BY <1>3, NoRows, EmptySeq DEF Die, NoLocals
  <1>4. CASE InitKnowledge
    <2>1. Chunks(rulesmd) \subseteq Chunk
      BY StartupAssumption, ChunksType
    <2>2. CASE SkipRules
      BY <2>2 DEF SkipRules
    <2>3. CASE EmbedRules
      BY <2>1, <2>3 DEF EmbedRules
    <2>4. CASE NoRules
      BY <2>4, <1>3 DEF NoRules
    <2> QED
      BY <1>4, <2>2, <2>3, <2>4 DEF InitKnowledge
  <1>5. CASE ChangeOrg
    BY <1>5, StartupAssumption DEF ChangeOrg
  <1>6. CASE EditRules
    BY <1>6, StartupAssumption DEF EditRules
  <1>7. CASE WipeStore
    BY <1>7 DEF WipeStore
  <1>8. CASE UNCHANGED vars
    BY <1>8 DEF vars
  <1> QED
    BY <1>1, <1>2, <1>3, <1>4, <1>5, <1>6, <1>7, <1>8 DEF Next, Work

\* Every variable of the start-up keeps its type, the rows of the schema tables
\* included, whatever Salesforce answers.
THEOREM TypeCorrect == Spec => []TypeOK
  <1>1. Init => TypeOK
    BY TypeInit
  <1>2. TypeOK /\ [Next]_vars => TypeOK'
    BY TypeStep
  <1> QED
    BY <1>1, <1>2, PTL DEF Spec
-----------------------------------------------------------------------------
(* Sequences of role rows.                                                 *)

Rows(s) == {s[i] : i \in DOMAIN s}

Distinct(s) == \A i, j \in DOMAIN s : s[i].id = s[j].id => i = j

LEMMA IdsOfRows ==
  ASSUME NEW s \in Seq(RoleRow)
  PROVE  Ids(s) = {row.id : row \in Rows(s)} /\ Rows(s) \subseteq RoleRow
  <1>1. \A i \in DOMAIN s : s[i] \in RoleRow
    BY LenProperties
  <1> QED
    BY <1>1 DEF Ids, Rows

LEMMA AppendRow ==
  ASSUME NEW s \in Seq(RoleRow), NEW e \in RoleRow
  PROVE  /\ Rows(Append(s, e)) = Rows(s) \cup {e}
         /\ Ids(Append(s, e)) = Ids(s) \cup {e.id}
         /\ Distinct(s) /\ e.id \notin Ids(s) => Distinct(Append(s, e))
  <1> DEFINE a == Append(s, e)
  <1>1. /\ Len(s) \in Nat /\ DOMAIN s = 1 .. Len(s)
        /\ DOMAIN a = 1 .. Len(s) + 1
        /\ a \in Seq(RoleRow)
    BY AppendProperties, LenProperties
  <1>2. /\ \A i \in 1 .. Len(s) : a[i] = s[i]
        /\ a[Len(s) + 1] = e
    BY AppendProperties
  <1>3. DOMAIN a = DOMAIN s \cup {Len(s) + 1} /\ Len(s) + 1 \notin DOMAIN s
    BY <1>1
  <1> HIDE DEF a
  <1>4. Rows(a) = Rows(s) \cup {e}
    BY <1>1, <1>2, <1>3 DEF Rows
  <1>5. Ids(a) = Ids(s) \cup {e.id}
    BY <1>1, <1>2, <1>3 DEF Ids
  <1>6. Distinct(s) /\ e.id \notin Ids(s) => Distinct(a)
    BY <1>1, <1>2, <1>3 DEF Distinct, Ids
  <1> QED
    BY <1>4, <1>5, <1>6 DEF a

LEMMA TailRow ==
  ASSUME NEW s \in Seq(RoleRow), s # <<>>
  PROVE  /\ Rows(s) = {Head(s)} \cup Rows(Tail(s))
         /\ Ids(s) = {Head(s).id} \cup Ids(Tail(s))
         /\ Distinct(s) => Distinct(Tail(s)) /\ Head(s).id \notin Ids(Tail(s))
  <1> DEFINE t == Tail(s)
  <1>1. /\ Len(s) \in Nat \ {0} /\ DOMAIN s = 1 .. Len(s)
        /\ DOMAIN t = 1 .. Len(s) - 1
    BY EmptySeq, HeadTailProperties, LenProperties
  <1>2. Head(s) = s[1] /\ \A i \in 1 .. Len(s) - 1 : t[i] = s[i + 1]
    BY HeadTailProperties
  <1> HIDE DEF t
  <1>3. \A i \in DOMAIN s : i = 1 \/ (i - 1 \in DOMAIN t /\ t[i - 1] = s[i])
    BY <1>1, <1>2
  <1>4. /\ 1 \in DOMAIN s
        /\ \A i \in DOMAIN t : i + 1 \in DOMAIN s /\ i + 1 # 1 /\ t[i] = s[i + 1]
    BY <1>1, <1>2
  <1>5. Rows(s) = {Head(s)} \cup Rows(t)
    BY <1>2, <1>3, <1>4 DEF Rows
  <1>6. Ids(s) = {Head(s).id} \cup Ids(t)
    BY <1>2, <1>3, <1>4 DEF Ids
  <1>7. ASSUME Distinct(s) PROVE Distinct(t) /\ Head(s).id \notin Ids(t)
    <2>1. ASSUME NEW i \in DOMAIN t, NEW j \in DOMAIN t, t[i].id = t[j].id
          PROVE  i = j
      <3>1. i + 1 = j + 1
        BY <1>4, <1>7, <2>1 DEF Distinct
      <3> QED
        BY <1>1, <3>1
    <2>2. \A i \in DOMAIN t : t[i].id # s[1].id
      BY <1>4, <1>7 DEF Distinct
    <2> QED
      BY <1>2, <2>1, <2>2 DEF Distinct, Ids
  <1> QED
    BY <1>5, <1>6, <1>7 DEF t

LEMMA EmptyRows == Rows(<<>>) = {} /\ Ids(<<>>) = {} /\ Distinct(<<>>)
  <1>1. DOMAIN <<>> = {}
    BY EmptySeq, LenProperties
  <1> QED
    BY <1>1 DEF Rows, Ids, Distinct

\* Different rows count as often as they have ids.
LEMMA CountRows ==
  ASSUME NEW s \in Seq(RoleRow), Distinct(s)
  PROVE  Cardinality(Ids(s)) = Len(s)
  <1> DEFINE f == [i \in 1 .. Len(s) |-> s[i].id]
  <1>1. Len(s) \in Nat /\ DOMAIN s = 1 .. Len(s)
    BY LenProperties
  <1>2. f \in Bijection(1 .. Len(s), Ids(s))
    <2>1. f \in [1 .. Len(s) -> Ids(s)]
      BY <1>1 DEF Ids
    <2>2. \A r \in Ids(s) : \E i \in 1 .. Len(s) : f[i] = r
      BY <1>1 DEF Ids
    <2>3. \A i, j \in 1 .. Len(s) : f[i] = f[j] => i = j
      BY <1>1 DEF Distinct
    <2> QED
      BY <2>1, <2>2, <2>3 DEF Bijection, Injection, Surjection, IsInjective
  <1>3. IsFiniteSet(1 .. Len(s)) /\ Cardinality(1 .. Len(s)) = Len(s)
    BY <1>1, FS_Interval
  <1> QED
    BY <1>2, <1>3, FS_Bijection DEF ExistsBijection
-----------------------------------------------------------------------------
(* The role hierarchy.  Between the first insert and the commit, each role *)
(* of the page is in the table, waits for its turn or was passed over; if  *)
(* the pass has inserted none so far, those passed over have no parent in  *)
(* the table.  As each pass but the last inserts a role, max_passes is     *)
(* never the reason for the last one.                                      *)

Closed(rows, S) == \A i \in DOMAIN rows : rows[i].parent \in S \cup {None} => rows[i].id \in S

Disjoint(a, b, c) ==
  /\ Distinct(a) /\ Distinct(b) /\ Distinct(c)
  /\ Ids(a) \cap Ids(b) = {} /\ Ids(a) \cap Ids(c) = {} /\ Ids(b) \cap Ids(c) = {}

Passing ==
  pc = "insert" =>
    /\ Disjoint(tables.roles, still, queue)
    /\ Rows(page) = Rows(tables.roles) \cup Rows(still) \cup Rows(queue)
    /\ Len(page) = Len(tables.roles) + Len(still) + Len(queue)
    /\ Len(tables.roles) >= passes + (IF progress THEN 1 ELSE 0)
    /\ ~ progress => \A row \in Rows(still) : ~ Insertable(row)
    /\ \A S \in SUBSET Ids(page) : Closed(page, S) => Ids(tables.roles) \subseteq S

Whole(rows) == Ids(rows) = Grounded(page) /\ Distinct(rows)

Passed ==
  /\ pc \in {"commit", "knowledge", "serving"} => Whole(tables.roles)
  /\ pc \in {"knowledge", "serving"} => disk = tables

RolesInv == Passing /\ Passed

LEMMA Closure ==
  ASSUME NEW pg \in Seq(RoleRow), NEW T \in Seq(RoleRow), NEW rest \in Seq(RoleRow),
         Rows(pg) = Rows(T) \cup Rows(rest),
         \A row \in Rows(rest) : row.parent \notin Ids(T) \cup {None},
         \A S \in SUBSET Ids(pg) : Closed(pg, S) => Ids(T) \subseteq S
  PROVE  Ids(T) = Grounded(pg)
  <1>1. Ids(T) \subseteq Ids(pg)
    BY IdsOfRows
  <1>2. Closed(pg, Ids(T))
    <2> SUFFICES ASSUME NEW i \in DOMAIN pg, pg[i].parent \in Ids(T) \cup {None}
                 PROVE  pg[i].id \in Ids(T)
        BY DEF Closed
    <2>1. pg[i] \in Rows(pg)
      BY DEF Rows
    <2>2. pg[i] \in Rows(T)
      BY <2>1
    <2> QED
      BY <2>2, IdsOfRows
  <1>3. Grounded(pg) = {r \in Ids(pg) : \A S \in SUBSET Ids(pg) : Closed(pg, S) => r \in S}
    BY DEF Grounded, Closed
  <1> QED
    BY <1>1, <1>2, <1>3

LEMMA NoRoles == Grounded(<<>>) = {}
  BY EmptyRows DEF Grounded

\* The steps that neither touch the tables nor enter or leave a pass.
LEMMA RolesFrame ==
  ASSUME RolesInv, UNCHANGED <<tables, disk, queue, still, progress, passes, page>>,
         pc' \in {pc, "serving"}, pc' # pc => pc = "knowledge"
  PROVE  RolesInv'
  BY DEF RolesInv, Passing, Passed, Insertable, Whole

LEMMA RolesStep == TypeOK /\ RolesInv /\ [Next]_vars => RolesInv'
  <1> SUFFICES ASSUME TypeOK, RolesInv, [Next]_vars PROVE RolesInv'
      OBVIOUS
  <1>t. /\ tables.roles \in Seq(RoleRow) /\ page \in Seq(RoleRow)
        /\ queue \in Seq(RoleRow) /\ still \in Seq(RoleRow)
        /\ passes \in Nat /\ progress \in BOOLEAN
        /\ tables \in Tables /\ org \in Orgs
    BY DEF TypeOK, SyncTypeOK, Tables
  <1>1. CASE ~ (pc' \in {"insert", "commit", "knowledge", "serving"})
    BY <1>1 DEF RolesInv, Passing, Passed
  <1>2. CASE FetchRoles
    <2>1. PICK pg \in Pages(org.roles) :
             /\ page' = pg /\ queue' = pg /\ still' = <<>> /\ tables'.roles = <<>>
             /\ progress' = FALSE /\ passes' = 0
             /\ pc' = (IF pg = <<>> THEN "commit" ELSE "insert")
      BY <1>2, <1>t DEF FetchRoles, Goto, Tables
    <2>2. pg \in Seq(RoleRow) /\ Distinct(pg) /\ Len(pg) \in Nat
      BY <1>t, PageOfRoles, LenProperties DEF Distinct
    <2>3. Len(<<>>) = 0
      BY EmptySeq
    <2>4. Passing'
      BY <2>1, <2>2, <2>3, EmptyRows DEF Passing, Disjoint
    <2>5. Passed'
      BY <2>1, NoRoles, EmptyRows DEF Passed, Whole
    <2> QED
      BY <2>4, <2>5 DEF RolesInv
  <1>3. CASE InsertRole
    <2> DEFINE e == Head(queue)
    <2>1. /\ pc = "insert" /\ pc' = pc /\ queue # <<>> /\ queue' = Tail(queue)
          /\ UNCHANGED <<passes, page>>
      BY <1>3 DEF InsertRole, At
    <2>2. /\ e \in RoleRow /\ Tail(queue) \in Seq(RoleRow)
          /\ Len(Tail(queue)) = Len(queue) - 1
          /\ Len(queue) \in Nat /\ Len(tables.roles) \in Nat /\ Len(still) \in Nat
      BY <1>t, <2>1, HeadTailProperties, LenProperties
    <2>3. /\ Rows(queue) = {e} \cup Rows(Tail(queue))
          /\ Ids(queue) = {e.id} \cup Ids(Tail(queue))
          /\ Distinct(queue) => Distinct(Tail(queue)) /\ e.id \notin Ids(Tail(queue))
      BY <1>t, <2>1, TailRow
    <2>4. /\ Disjoint(tables.roles, still, queue)
          /\ Rows(page) = Rows(tables.roles) \cup Rows(still) \cup Rows(queue)
          /\ Len(page) = Len(tables.roles) + Len(still) + Len(queue)
          /\ Len(tables.roles) >= passes + (IF progress THEN 1 ELSE 0)
          /\ ~ progress => \A row \in Rows(still) : ~ Insertable(row)
          /\ \A S \in SUBSET Ids(page) : Closed(page, S) => Ids(tables.roles) \subseteq S
      BY <2>1 DEF RolesInv, Passing
    <2>5. CASE Insertable(e) /\ UNCHANGED still
      <3>1. tables'.roles = Append(tables.roles, e) /\ progress' = TRUE
        BY <1>3, <1>t, <2>5 DEF InsertRole, Tables
      <3>2. /\ Rows(tables'.roles) = Rows(tables.roles) \cup {e}
            /\ Ids(tables'.roles) = Ids(tables.roles) \cup {e.id}
            /\ Distinct(tables.roles) /\ e.id \notin Ids(tables.roles) =>
                   Distinct(tables'.roles)
            /\ Len(tables'.roles) = Len(tables.roles) + 1
        BY <1>t, <2>2, <3>1, AppendRow, AppendProperties
      <3>3. Disjoint(tables'.roles, still', queue')
        BY <2>1, <2>3, <2>4, <2>5, <3>2 DEF Disjoint
      <3>4. Rows(page) = Rows(tables'.roles) \cup Rows(still') \cup Rows(queue')
        BY <2>1, <2>3, <2>4, <2>5, <3>2
      <3>5. /\ Len(page) = Len(tables'.roles) + Len(still') + Len(queue')
            /\ Len(tables'.roles) >= passes + 1
        BY <1>t, <2>1, <2>2, <2>4, <2>5, <3>2
      <3>6. ASSUME NEW S \in SUBSET Ids(page), Closed(page, S)
            PROVE  Ids(tables'.roles) \subseteq S
        <4>1. Ids(tables.roles) \subseteq S
          BY <2>4, <3>6
        <4>2. PICK i \in DOMAIN page : page[i] = e
          BY <2>3, <2>4 DEF Rows
        <4>3. e.id \in S
          BY <2>5, <3>6, <4>1, <4>2 DEF Insertable, Closed
        <4> QED
          BY <3>2, <4>1, <4>3
      <3> QED
        BY <2>1, <3>1, <3>3, <3>4, <3>5, <3>6 DEF RolesInv, Passing, Passed
    <2>6. CASE ~ Insertable(e) /\ UNCHANGED <<tables, progress>>
      <3>1. still' = Append(still, e)
        BY <1>3, <2>6 DEF InsertRole
      <3>2. /\ Rows(still') = Rows(still) \cup {e}
            /\ Ids(still') = Ids(still) \cup {e.id}
            /\ Distinct(still) /\ e.id \notin Ids(still) => Distinct(still')
            /\ Len(still') = Len(still) + 1
        BY <1>t, <2>2, <3>1, AppendRow, AppendProperties
      <3>3. Disjoint(tables.roles, still', queue')
        BY <2>1, <2>3, <2>4, <3>2 DEF Disjoint
      <3>4. Rows(page) = Rows(tables.roles) \cup Rows(still') \cup Rows(queue')
        BY <2>1, <2>3, <2>4, <3>2
      <3>5. Len(page) = Len(tables.roles) + Len(still') + Len(queue')
        <4>1. PICK a, b, c \in Nat :
                 a = Len(tables.roles) /\ b = Len(still) /\ c = Len(queue)
          BY <2>2
        <4>2. Len(page) = a + b + c
          BY <2>4, <4>1
        <4>3. Len(still') = b + 1 /\ Len(queue') = c - 1
          BY <2>1, <2>2, <3>2, <4>1
        <4>4. a + b + c = a + (b + 1) + (c - 1)
          OBVIOUS
        <4> QED
          BY <4>1, <4>2, <4>3, <4>4
      <3>6. ~ progress => \A row \in Rows(still') : ~ Insertable(row)
        BY <2>4, <2>6, <3>2
      <3>7. \A row : Insertable(row)' <=> Insertable(row)
        BY <2>6 DEF Insertable
      <3> QED
        BY <2>1, <2>4, <2>6, <3>3, <3>4, <3>5, <3>6, <3>7 DEF RolesInv, Passing, Passed, Insertable
    <2> QED
      BY <1>3, <2>5, <2>6 DEF InsertRole
  <1>4. CASE EndPass
    <2>1. /\ pc = "insert" /\ queue = <<>> /\ passes' = passes + 1
          /\ UNCHANGED <<tables, page>>
      BY <1>4 DEF EndPass, At
    <2>2. /\ Disjoint(tables.roles, still, queue)
          /\ Rows(page) = Rows(tables.roles) \cup Rows(still)
          /\ Len(page) = Len(tables.roles) + Len(still)
          /\ Len(tables.roles) >= passes + (IF progress THEN 1 ELSE 0)
          /\ ~ progress => \A row \in Rows(still) : ~ Insertable(row)
          /\ \A S \in SUBSET Ids(page) : Closed(page, S) => Ids(tables.roles) \subseteq S
          /\ Len(tables.roles) \in Nat /\ Len(still) \in Nat
      BY <1>t, <2>1, EmptyRows, EmptySeq, LenProperties DEF RolesInv, Passing
    <2>3. CASE LastPass /\ pc' = "commit"
      <3>1. still = <<>> \/ ~ progress
        BY <1>t, <2>2, <2>3 DEF LastPass
      <3>2. \A row \in Rows(still) : row.parent \notin Ids(tables.roles) \cup {None}
        BY <2>2, <3>1, EmptyRows DEF Insertable
      <3>3. Ids(tables.roles) = Grounded(page)
        BY <1>t, <2>2, <3>2, Closure
      <3> QED
        BY <2>1, <2>2, <2>3, <3>3 DEF RolesInv, Passing, Passed, Whole, Disjoint
    <2>4. CASE /\ ~ LastPass /\ queue' = still /\ still' = <<>>
               /\ progress' = FALSE /\ UNCHANGED pc
      <3>1. progress
        BY <2>4 DEF LastPass
      <3>2. Len(<<>>) = 0
        BY EmptySeq
      <3>3. Disjoint(tables.roles, <<>>, still)
        BY <2>2, EmptyRows DEF Disjoint
      <3>4. Len(tables.roles) >= passes'
        BY <2>1, <2>2, <3>1
      <3> QED
        BY <1>t, <2>1, <2>2, <2>4, <3>2, <3>3, <3>4, EmptyRows
           DEF RolesInv, Passing, Passed
    <2> QED
      BY <1>4, <2>3, <2>4 DEF EndPass, Goto
  <1>5. CASE Commit
    BY <1>5 DEF Commit, At, Goto, locals, rolesync, RolesInv, Passing, Passed, Whole
  <1>6. CASE InitKnowledge /\ ~ NoRules
    BY <1>6, RolesFrame DEF InitKnowledge, SkipRules, EmbedRules, At, Goto, locals, rolesync
  <1>7. CASE ChangeOrg \/ EditRules \/ WipeStore \/ UNCHANGED vars
    BY <1>7, RolesFrame DEF ChangeOrg, EditRules, WipeStore, vars, syncVars, locals, rolesync
  <1>8. CASE Start \/ DescribeObject \/ FetchRules \/ FetchFormula \/ StoreRules
             \/ Die \/ NoRules
    BY <1>1, <1>8 DEF Start, DescribeObject, FetchRules, FetchFormula, StoreRules,
           Die, NoRules, At, Goto
  <1> QED
    BY <1>2, <1>3, <1>4, <1>5, <1>6, <1>7, <1>8 DEF Next, Work, SyncStep, InitKnowledge

LEMMA RolesInit == Init => RolesInv
  BY DEF Init, RolesInv, Passing, Passed

-----------------------------------------------------------------------------
(* The foreign keys.                                                       *)

ParentsFirst(rows) ==
  \A i \in DOMAIN rows : \/ rows[i].parent = None
                          \/ \E j \in 1 .. i - 1 : rows[j].id = rows[i].parent

KeysHold(T) ==
  /\ \A o \in Objects : T.fields[o] # {} => o \in T.objects
  /\ ParentsFirst(T.roles)

KeysInv == KeysHold(tables) /\ KeysHold(disk)

LEMMA AppendChild ==
  ASSUME NEW s \in Seq(RoleRow), NEW e \in RoleRow,
         ParentsFirst(s), e.parent \in Ids(s) \cup {None}
  PROVE  ParentsFirst(Append(s, e))
  <1> DEFINE a == Append(s, e)
  <1>1. /\ Len(s) \in Nat /\ DOMAIN s = 1 .. Len(s)
        /\ DOMAIN a = 1 .. Len(s) + 1
        /\ \A i \in 1 .. Len(s) : a[i] = s[i]
        /\ a[Len(s) + 1] = e
    BY AppendProperties, LenProperties
  <1> HIDE DEF a
  <1>2. ASSUME NEW i \in 1 .. Len(s), s[i].parent # None
        PROVE  \E j \in 1 .. i - 1 : a[j].id = a[i].parent
    <2>1. PICK j \in 1 .. i - 1 : s[j].id = s[i].parent
      BY <1>1, <1>2 DEF ParentsFirst
    <2>2. j \in 1 .. Len(s)
      BY <1>1
    <2> QED
      BY <1>1, <2>1, <2>2
  <1>3. ASSUME e.parent # None
        PROVE  \E j \in 1 .. (Len(s) + 1) - 1 : a[j].id = a[Len(s) + 1].parent
    <2>1. PICK j \in 1 .. Len(s) : s[j].id = e.parent
      BY <1>1, <1>3 DEF Ids
    <2> QED
      BY <1>1, <2>1
  <1>4. ParentsFirst(a)
    <2> SUFFICES ASSUME NEW i \in 1 .. Len(s) + 1, a[i].parent # None
                 PROVE  \E j \in 1 .. i - 1 : a[j].id = a[i].parent
        BY <1>1 DEF ParentsFirst
    <2>1. CASE i \in 1 .. Len(s)
      BY <1>1, <1>2, <2>1
    <2>2. CASE i = Len(s) + 1
      BY <1>1, <1>3, <2>2
    <2> QED
      BY <1>1, <2>1, <2>2
  <1> QED
    BY <1>4 DEF a

LEMMA KeysStep == TypeOK /\ KeysInv /\ [Next]_vars => KeysInv'
  <1> SUFFICES ASSUME TypeOK, KeysInv, [Next]_vars PROVE KeysInv'
      OBVIOUS
  <1>t. tables \in Tables /\ queue \in Seq(RoleRow) /\ org \in Orgs
    BY DEF TypeOK, SyncTypeOK
  <1>1. CASE UNCHANGED <<tables, disk>>
    BY <1>1 DEF KeysInv, KeysHold, ParentsFirst
  <1>2. CASE DescribeObject
    <2>1. PICK o \in todo :
             /\ tables'.objects = tables.objects \cup {o}
             /\ \A p \in Objects : p # o => tables'.fields[p] = tables.fields[p]
             /\ tables'.roles = tables.roles
             /\ disk' = disk
      BY <1>2, <1>t DEF DescribeObject, UpsertObject, Tables, UpsertFields
    <2> QED
      BY <2>1 DEF KeysInv, KeysHold, ParentsFirst
  <1>3. CASE StoreRules
    <2>1. /\ tables'.objects = tables.objects /\ tables'.fields = tables.fields
          /\ tables'.roles = tables.roles /\ disk' = disk
      BY <1>3, <1>t DEF StoreRules, Tables
    <2> QED
      BY <2>1 DEF KeysInv, KeysHold, ParentsFirst
  <1>4. CASE FetchRoles
    <2>1. /\ tables'.objects = tables.objects /\ tables'.fields = tables.fields
          /\ tables'.roles = <<>> /\ disk' = disk
      BY <1>4, <1>t DEF FetchRoles, Tables
    <2>2. DOMAIN <<>> = {}
      BY EmptySeq, LenProperties
    <2> QED
      BY <2>1, <2>2 DEF KeysInv, KeysHold, ParentsFirst
  <1>5. CASE InsertRole
    <2>1. CASE Insertable(Head(queue))
      <3>1. /\ tables'.objects = tables.objects /\ tables'.fields = tables.fields
            /\ tables'.roles = Append(tables.roles, Head(queue)) /\ disk' = disk
        BY <1>5, <1>t, <2>1 DEF InsertRole, Tables
      <3>2. Head(queue) \in RoleRow /\ tables.roles \in Seq(RoleRow)
        BY <1>5, <1>t, HeadTailProperties DEF InsertRole, Tables
      <3>3. ParentsFirst(tables'.roles)
        BY <2>1, <3>1, <3>2, AppendChild DEF KeysInv, KeysHold, Insertable
      <3> QED
        BY <3>1, <3>3 DEF KeysInv, KeysHold
    <2>2. CASE ~ Insertable(Head(queue))
      BY <1>1, <1>5, <2>2 DEF InsertRole
    <2> QED
      BY <2>1, <2>2
  <1>6. CASE Commit
    BY <1>6 DEF Commit, KeysInv
  <1>7. CASE Die
    BY <1>7 DEF Die, KeysInv
  <1>8. CASE \/ Start \/ FetchRules \/ FetchFormula \/ EndPass
             \/ SkipRules \/ EmbedRules \/ ChangeOrg \/ EditRules \/ WipeStore
             \/ UNCHANGED vars
    BY <1>1, <1>8 DEF Start, FetchRules, FetchFormula, EndPass, SkipRules, EmbedRules,
           ChangeOrg, EditRules, WipeStore, vars, syncVars
  <1> QED
    BY <1>2, <1>3, <1>4, <1>5, <1>6, <1>7, <1>8
       DEF Next, Work, SyncStep, InitKnowledge, NoRules

LEMMA KeysInit == Init => KeysInv
  <1>1. DOMAIN <<>> = {}
    BY EmptySeq, LenProperties
  <1> QED
    BY <1>1 DEF Init, SyncInit, NoTables, KeysInv, KeysHold, ParentsFirst

-----------------------------------------------------------------------------

\* Start-up never trips over a foreign key, and stores exactly the roles that hang
\* on a root of the page it fetched, each once: neither max_passes nor a pass
\* without progress stops _upsert_role_hierarchy early.
THEOREM HierarchyHolds == Spec => []HierarchyIsWhole
  <1>1. Init => TypeOK /\ RolesInv /\ KeysInv
    BY TypeInit, RolesInit, KeysInit
  <1>2. TypeOK /\ RolesInv /\ KeysInv /\ [Next]_vars => (TypeOK /\ RolesInv /\ KeysInv)'
    BY TypeStep, RolesStep, KeysStep
  <1>3. TypeOK /\ RolesInv /\ KeysInv => HierarchyIsWhole
    <2> SUFFICES ASSUME TypeOK, RolesInv, KeysInv PROVE HierarchyIsWhole
        OBVIOUS
    <2>1. ForeignKeysHold
      BY DEF KeysInv, KeysHold, ParentsFirst, ForeignKeysHold
    <2>2. GroundedRolesAreStored
      <3> SUFFICES ASSUME Serving
                   PROVE  /\ Ids(disk.roles) = Grounded(page)
                          /\ Len(disk.roles) = Cardinality(Ids(disk.roles))
          BY DEF GroundedRolesAreStored
      <3>1. disk = tables /\ Whole(tables.roles)
        BY DEF RolesInv, Passed, Serving, At
      <3>2. disk.roles \in Seq(RoleRow)
        BY DEF TypeOK, SyncTypeOK, Tables
      <3> QED
        BY <3>1, <3>2, CountRows DEF Whole
    <2> QED
      BY <2>1, <2>2 DEF HierarchyIsWhole
  <1> QED
    BY <1>1, <1>2, <1>3, PTL DEF Spec
-----------------------------------------------------------------------------
(* The schema: what was described so far is what the org looked like at    *)
(* some moment since the start.                                            *)

ObjectsFetched(T, O) ==
  /\ O \subseteq T.objects
  /\ \A o \in O : \E p \in since :
        /\ T.fields[o] = {ParseField(f) : f \in p.fields[o]}
        /\ {r \in T.relationships : r.parent = o} = ParseRelationships(o, p.children[o])

RulesFetched(rules) ==
  /\ \E p \in since : /\ DOMAIN rules = DOMAIN p.rules
                      /\ \A r \in DOMAIN p.rules :
                            /\ rules[r].object = p.rules[r].object
                            /\ rules[r].active = p.rules[r].active
  /\ \A r \in DOMAIN rules : \/ rules[r].formula = None
                             \/ \E p \in since : /\ r \in DOMAIN p.rules
                                                 /\ rules[r].formula = p.rules[r].formula

RolesFetched ==
  \E p \in since : \A i \in DOMAIN page :
      page[i].id \in DOMAIN p.roles /\ page[i].parent = p.roles[page[i].id]

SchemaInv ==
  /\ pc \in SyncPC => org \in since
  /\ pc = "describe" => ObjectsFetched(tables, Objects \ todo)
  /\ pc \notin {"down", "describe"} => ObjectsFetched(tables, Objects)
  /\ pc = "formulas" => RulesFetched(fetched)
  /\ pc \in {"roles", "insert", "commit", "knowledge", "serving"} =>
        RulesFetched(tables.rules)
  /\ pc \in {"insert", "commit", "knowledge", "serving"} => RolesFetched

\* The steps that change the tables as little as what was fetched, among them a
\* change of the org.
LEMMA SchemaFrame ==
  ASSUME SchemaInv,
         tables'.objects = tables.objects, tables'.fields = tables.fields,
         tables'.relationships = tables.relationships, tables'.rules = tables.rules,
         UNCHANGED <<todo, fetched, page>>, since \subseteq since',
         pc \in SyncPC => org' \in since',
         pc' = pc \/ (pc = "insert" /\ pc' = "commit")
                  \/ (pc = "commit" /\ pc' = "knowledge")
                  \/ (pc = "knowledge" /\ pc' = "serving")
  PROVE  SchemaInv'
  <1>1. /\ pc' = "describe" <=> pc = "describe"
        /\ pc' = "formulas" <=> pc = "formulas"
        /\ pc' = "down" <=> pc = "down"
        /\ pc' \in SyncPC => pc \in SyncPC
        /\ pc' \in {"roles", "insert", "commit", "knowledge", "serving"} =>
              pc \in {"roles", "insert", "commit", "knowledge", "serving"}
        /\ pc' \in {"insert", "commit", "knowledge", "serving"} =>
              pc \in {"insert", "commit", "knowledge", "serving"}
    BY DEF SyncPC
  <1>2. pc' = "describe" => ObjectsFetched(tables, Objects \ todo)'
    BY <1>1 DEF SchemaInv, ObjectsFetched
  <1>3. pc' \notin {"down", "describe"} => ObjectsFetched(tables, Objects)'
    BY <1>1 DEF SchemaInv, ObjectsFetched
  <1>4. pc' = "formulas" => RulesFetched(fetched)'
    BY <1>1 DEF SchemaInv, RulesFetched
  <1>5. pc' \in {"roles", "insert", "commit", "knowledge", "serving"} =>
           RulesFetched(tables.rules)'
    BY <1>1 DEF SchemaInv, RulesFetched
  <1>6. pc' \in {"insert", "commit", "knowledge", "serving"} => RolesFetched'
    BY <1>1 DEF SchemaInv, RolesFetched
  <1>7. pc' \in SyncPC => org' \in since'
    BY <1>1
  <1> QED
    BY <1>2, <1>3, <1>4, <1>5, <1>6, <1>7 DEF SchemaInv

LEMMA SchemaStep == TypeOK /\ SchemaInv /\ [Next]_vars => SchemaInv'
  <1> SUFFICES ASSUME TypeOK, SchemaInv, [Next]_vars PROVE SchemaInv'
      OBVIOUS
  <1>t. /\ tables \in Tables /\ org \in Orgs
        /\ todo \subseteq Objects /\ asked \subseteq Rules
        /\ fetched \in PartialFunctions(Rules, RuleRow)
    BY DEF TypeOK, SyncTypeOK
  <1>1. CASE Start
    <2>1. todo' = Objects /\ since' = {org} /\ org' = org
      BY <1>1 DEF Start
    <2>2. pc' = "describe" \/ (pc' = "rules" /\ Objects = {})
      BY <1>1, <2>1 DEF Start, Goto
    <2> QED
      BY <2>1, <2>2 DEF SchemaInv, ObjectsFetched
  <1>2. CASE DescribeObject
    <2>1. PICK o \in todo :
             /\ todo' = todo \ {o}
             /\ tables' = [tables EXCEPT
                   !.objects = @ \cup {o},
                   !.fields = UpsertFields(o, {ParseField(f) : f \in org.fields[o]}),
                   !.relationships =
                       UpsertRelationships(o, ParseRelationships(o, org.children[o]))]
      BY <1>2 DEF DescribeObject, UpsertObject
    <2>2. /\ pc = "describe" /\ UNCHANGED <<org, since>>
          /\ pc' = (IF todo' = {} THEN "rules" ELSE "describe")
      BY <1>2 DEF DescribeObject, At, Goto
    <2>3. /\ tables'.objects = tables.objects \cup {o}
          /\ tables'.fields = UpsertFields(o, {ParseField(f) : f \in org.fields[o]})
          /\ tables'.relationships =
                UpsertRelationships(o, ParseRelationships(o, org.children[o]))
      BY <1>t, <2>1 DEF Tables
    <2>4. /\ tables'.fields[o] = {ParseField(f) : f \in org.fields[o]}
          /\ \A x \in Objects \ {o} : tables'.fields[x] = tables.fields[x]
      BY <1>t, <2>1, <2>3 DEF Tables, UpsertFields
    <2>5. \A r \in ParseRelationships(o, org.children[o]) : r.parent = o
      BY DEF ParseRelationships
    <2>6. /\ {r \in tables'.relationships : r.parent = o} =
                 ParseRelationships(o, org.children[o])
          /\ \A x \in Objects \ {o} : {r \in tables'.relationships : r.parent = x} =
                                       {r \in tables.relationships : r.parent = x}
      BY <2>3, <2>5 DEF UpsertRelationships
    <2>7. org \in since /\ ObjectsFetched(tables, Objects \ todo)
      BY <2>2 DEF SchemaInv, SyncPC
    <2>8. Objects \ todo' \subseteq tables'.objects
      BY <2>1, <2>3, <2>7 DEF ObjectsFetched
    <2>9. ASSUME NEW x \in Objects \ todo'
          PROVE  \E p \in since' :
                    /\ tables'.fields[x] = {ParseField(f) : f \in p.fields[x]}
                    /\ {r \in tables'.relationships : r.parent = x} =
                           ParseRelationships(x, p.children[x])
      <3>1. CASE x = o
        BY <2>2, <2>4, <2>6, <2>7, <3>1
      <3>2. CASE x # o
        <4>1. x \in Objects \ todo
          BY <2>1, <2>9, <3>2
        <4>2. PICK p \in since :
                 /\ tables.fields[x] = {ParseField(f) : f \in p.fields[x]}
                 /\ {r \in tables.relationships : r.parent = x} =
                        ParseRelationships(x, p.children[x])
          BY <2>7, <4>1 DEF ObjectsFetched
        <4> QED
          BY <2>2, <2>4, <2>6, <3>2, <4>1, <4>2
      <3> QED
        BY <3>1, <3>2
    <2>10. ObjectsFetched(tables, Objects \ todo)'
      BY <2>8, <2>9 DEF ObjectsFetched
    <2>11. todo' = {} => ObjectsFetched(tables, Objects)'
      BY <2>10 DEF ObjectsFetched
    <2> QED
      BY <2>2, <2>7, <2>10, <2>11 DEF SchemaInv
  <1>3. CASE FetchRules
    <2>1. /\ pc = "rules" /\ pc' = "formulas" /\ fetched' = BulkRules(org.rules)
          /\ UNCHANGED <<org, tables, since>>
      BY <1>3 DEF FetchRules, At, Goto
    <2>2. org \in since /\ ObjectsFetched(tables, Objects)
      BY <2>1 DEF SchemaInv, SyncPC
    <2>3. /\ DOMAIN fetched' = DOMAIN org.rules
          /\ \A r \in DOMAIN org.rules :
                /\ fetched'[r].object = org.rules[r].object
                /\ fetched'[r].active = org.rules[r].active
                /\ fetched'[r].formula = None
      BY <2>1 DEF BulkRules
    <2>4. RulesFetched(fetched)'
      BY <2>1, <2>2, <2>3 DEF RulesFetched
    <2> QED
      BY <2>1, <2>2, <2>4 DEF SchemaInv, ObjectsFetched
  <1>4. CASE FetchFormula
    <2>1. /\ pc = "formulas" /\ UNCHANGED <<org, tables, pc, todo, page, since>>
      BY <1>4 DEF FetchFormula, At
    <2>2. org \in since /\ RulesFetched(fetched)
      BY <2>1 DEF SchemaInv, SyncPC
    <2>3. RulesFetched(fetched)'
      <3>1. CASE UNCHANGED fetched
        BY <2>1, <2>2, <3>1 DEF RulesFetched
      <3>2. ASSUME NEW r \in DOMAIN org.rules,
                   fetched' = [fetched EXCEPT ![r].formula = org.rules[r].formula]
            PROVE  RulesFetched(fetched)'
        <4>1. fetched \in [DOMAIN fetched -> RuleRow]
          BY <1>t, Partial
        <4>2. DOMAIN fetched' = DOMAIN fetched
          BY <3>2, <4>1
        <4>3. ASSUME NEW x \in DOMAIN fetched
              PROVE  /\ fetched'[x].object = fetched[x].object
                     /\ fetched'[x].active = fetched[x].active
                     /\ fetched'[x].formula =
                           IF x = r THEN org.rules[r].formula ELSE fetched[x].formula
          BY <3>2, <4>1, <4>3 DEF RuleRow
        <4>4. PICK p \in since :
                 /\ DOMAIN fetched = DOMAIN p.rules
                 /\ \A x \in DOMAIN p.rules : /\ fetched[x].object = p.rules[x].object
                                             /\ fetched[x].active = p.rules[x].active
          BY <2>2 DEF RulesFetched
        <4>5. ASSUME NEW x \in DOMAIN fetched
              PROVE  \/ fetched'[x].formula = None
                     \/ \E q \in since : /\ x \in DOMAIN q.rules
                                         /\ fetched'[x].formula = q.rules[x].formula
          <5>1. CASE x = r
            BY <2>2, <4>3, <5>1
          <5>2. CASE x # r
            BY <2>2, <4>3, <5>2 DEF RulesFetched
          <5> QED
            BY <5>1, <5>2
        <4>6. /\ DOMAIN fetched' = DOMAIN p.rules
              /\ \A x \in DOMAIN p.rules : /\ fetched'[x].object = p.rules[x].object
                                          /\ fetched'[x].active = p.rules[x].active
          BY <4>2, <4>3, <4>4
        <4>7. since' = since /\ DOMAIN fetched' = DOMAIN fetched
          BY <2>1, <4>2
        <4> HIDE <3>2
        <4> QED
          BY <4>5, <4>6, <4>7 DEF RulesFetched
      <3> QED
        BY <1>4, <3>1, <3>2 DEF FetchFormula
    <2> QED
      BY <2>1, <2>3 DEF SchemaInv, ObjectsFetched
  <1>5. CASE StoreRules
    <2>1. /\ pc = "formulas" /\ pc' = "roles" /\ UNCHANGED <<org, since>>
          /\ tables'.objects = tables.objects /\ tables'.fields = tables.fields
          /\ tables'.relationships = tables.relationships /\ tables'.rules = fetched
      BY <1>5, <1>t DEF StoreRules, At, Goto, Tables
    <2> QED
      BY <2>1 DEF SchemaInv, ObjectsFetched, RulesFetched, SyncPC
  <1>6. CASE FetchRoles
    <2>1. /\ pc = "roles" /\ pc' \in {"insert", "commit"} /\ UNCHANGED <<org, since>>
          /\ tables'.objects = tables.objects /\ tables'.fields = tables.fields
          /\ tables'.relationships = tables.relationships /\ tables'.rules = tables.rules
          /\ page' \in Pages(org.roles)
      BY <1>6, <1>t DEF FetchRoles, At, Goto, Tables
    <2>2. org \in since
      BY <2>1 DEF SchemaInv, SyncPC
    <2>3. RolesFetched'
      BY <1>t, <2>1, <2>2, PageOfRoles DEF RolesFetched
    <2> QED
      BY <2>1, <2>2, <2>3 DEF SchemaInv, ObjectsFetched, RulesFetched
  <1>7. CASE InsertRole
    <2>1. /\ tables'.objects = tables.objects /\ tables'.fields = tables.fields
          /\ tables'.relationships = tables.relationships /\ tables'.rules = tables.rules
      BY <1>7, <1>t DEF InsertRole, Tables
    <2>2. UNCHANGED <<org, pc, todo, fetched, page, since>>
      BY <1>7 DEF InsertRole
    <2>3. pc \in SyncPC => org' \in since'
      BY <2>2 DEF SchemaInv
    <2> QED
      BY <2>1, <2>2, <2>3, SchemaFrame
  <1>8. CASE EndPass \/ Commit
    <2>1. /\ UNCHANGED <<org, tables, todo, fetched, page, since>>
          /\ \/ pc' = pc \/ (pc = "insert" /\ pc' = "commit")
             \/ (pc = "commit" /\ pc' = "knowledge")
      BY <1>8 DEF EndPass, Commit, At, Goto, locals
    <2>2. pc \in SyncPC => org' \in since'
      BY <2>1 DEF SchemaInv
    <2> QED
      BY <2>1, <2>2, SchemaFrame
  <1>9. CASE SkipRules \/ EmbedRules \/ EditRules \/ WipeStore \/ UNCHANGED vars
    <2>1. /\ UNCHANGED <<org, tables, todo, fetched, page, since>>
          /\ pc' = pc \/ (pc = "knowledge" /\ pc' = "serving")
      BY <1>9 DEF SkipRules, EmbedRules, EditRules, WipeStore, At, Goto, vars, syncVars, locals
    <2>2. pc \in SyncPC => org' \in since'
      BY <2>1 DEF SchemaInv
    <2> QED
      BY <2>1, <2>2, SchemaFrame
  <1>10. CASE ChangeOrg
    <2>1. /\ UNCHANGED <<tables, pc, todo, fetched, page>>
          /\ since' = IF Syncing THEN since \cup {org'} ELSE since
      BY <1>10 DEF ChangeOrg, locals
    <2>2. since \subseteq since' /\ (pc \in SyncPC => org' \in since')
      BY <2>1 DEF Syncing
    <2> QED
      BY <2>1, <2>2, SchemaFrame
  <1>11. CASE Die
    BY <1>11 DEF Die, Goto, SchemaInv, SyncPC
  <1> QED
    BY <1>1, <1>2, <1>3, <1>4, <1>5, <1>6, <1>7, <1>8, <1>9, <1>10, <1>11
       DEF Next, Work, SyncStep, InitKnowledge, NoRules

LEMMA SchemaInit == Init => SchemaInv
  BY DEF Init, SchemaInv, SyncPC

-----------------------------------------------------------------------------

\* Whenever the bot serves, it serves what this start fetched: the sync replaces
\* every part of the tables, and the org's changes during it lead at most to parts
\* of different age.
THEOREM ServedIsFetched == Spec => []ServedSchemaWasFetched
  <1>1. Init => TypeOK /\ RolesInv /\ SchemaInv
    BY TypeInit, RolesInit, SchemaInit
  <1>2. TypeOK /\ RolesInv /\ SchemaInv /\ [Next]_vars =>
            (TypeOK /\ RolesInv /\ SchemaInv)'
    BY TypeStep, RolesStep, SchemaStep
  <1>3. TypeOK /\ RolesInv /\ SchemaInv => ServedSchemaWasFetched
    <2> SUFFICES ASSUME TypeOK, RolesInv, SchemaInv, Serving
                 PROVE  ServedSchemaWasFetched
        BY DEF ServedSchemaWasFetched
    <2>1. /\ tables = disk /\ tables.objects \subseteq Objects
          /\ ObjectsFetched(tables, Objects) /\ RulesFetched(tables.rules) /\ RolesFetched
      BY DEF RolesInv, Passed, SchemaInv, Serving, At, TypeOK, SyncTypeOK, Tables
    <2>2. \E p \in since : /\ DOMAIN disk.rules = DOMAIN p.rules
                          /\ \A r \in DOMAIN p.rules :
                                /\ disk.rules[r].object = p.rules[r].object
                                /\ disk.rules[r].active = p.rules[r].active
      BY <2>1 DEF RulesFetched
    <2>3. \A r \in DOMAIN disk.rules :
             \/ disk.rules[r].formula = None
             \/ \E p \in since : r \in DOMAIN p.rules
                                /\ disk.rules[r].formula = p.rules[r].formula
      BY <2>1 DEF RulesFetched
    <2>4. /\ disk.objects = Objects
          /\ \A o \in Objects : \E p \in since :
                /\ disk.fields[o] = {ParseField(f) : f \in p.fields[o]}
                /\ {r \in disk.relationships : r.parent = o} =
                       ParseRelationships(o, p.children[o])
      BY <2>1 DEF ObjectsFetched
    <2>5. \E p \in since : \A i \in DOMAIN page :
             page[i].id \in DOMAIN p.roles /\ page[i].parent = p.roles[page[i].id]
      BY <2>1 DEF RolesFetched
    <2> QED
      BY <2>1, <2>2, <2>3, <2>4, <2>5 DEF ServedSchemaWasFetched
  <1> QED
    BY <1>1, <1>2, <1>3, PTL DEF Spec
-----------------------------------------------------------------------------
(* The rules.                                                              *)

RulesInv ==
  /\ rulebook # {} => rulebook = Chunks(loaded)
  /\ Serving => rulebook # {}

LEMMA RulesInit == Init => RulesInv
  BY DEF Init, RulesInv, Serving, At

LEMMA RulesStep == RulesInv /\ [Next]_vars => RulesInv'
  <1> SUFFICES ASSUME RulesInv, [Next]_vars PROVE RulesInv'
      OBVIOUS
  <1> USE DEF RulesInv, Serving, At, Goto
  <1>1. CASE SyncStep /\ UNCHANGED startVars
    <2>1. pc' # "serving" /\ UNCHANGED <<rulebook, loaded>>
      BY <1>1 DEF SyncStep, startVars, DescribeObject, FetchRules, FetchFormula,
             StoreRules, FetchRoles, InsertRole, EndPass, Commit
    <2> QED
      BY <2>1
  <1>2. CASE Start \/ Die \/ NoRules
    <2>1. pc' # "serving" /\ UNCHANGED <<rulebook, loaded>>
      BY <1>2 DEF Start, Die, NoRules, startVars
    <2> QED
      BY <2>1
  <1>3. CASE SkipRules
    BY <1>3 DEF SkipRules, startVars
  <1>4. CASE EmbedRules
    BY <1>4 DEF EmbedRules
  <1>5. CASE ChangeOrg \/ EditRules \/ UNCHANGED vars
    BY <1>5 DEF ChangeOrg, EditRules, vars, syncVars, startVars
  <1>6. CASE WipeStore
    BY <1>6 DEF WipeStore, syncVars
  <1> QED
    BY <1>1, <1>2, <1>3, <1>4, <1>5, <1>6 DEF Next, Work, InitKnowledge

\* The chunk of a line below a header is that of the nearest header.
LEMMA ChunkOfLine ==
  ASSUME NEW lines \in Seq(Line), NEW i \in DOMAIN lines, lines[i] = "text",
         {h \in 1 .. i - 1 : lines[h] = "head"} # {}
  PROVE  LET above == {h \in 1 .. i - 1 : lines[h] = "head"} IN
         {c.category : c \in {d \in Chunks(lines) : i \in d.body}} =
             {h \in above : \A k \in above : k <= h}
  <1> DEFINE above == {h \in 1 .. i - 1 : lines[h] = "head"}
             nearest == {h \in above : \A k \in above : k <= h}
             sec(h) == Section(lines, h)
             chunk(h) == [category |-> First(sec(h)), body |-> sec(h) \ {First(sec(h))}]
  <1>1. /\ Len(lines) \in Nat /\ DOMAIN lines = 1 .. Len(lines)
        /\ above \subseteq Starts(lines)
    BY LenProperties DEF Starts
  <1>2. \A h \in Starts(lines) : h \in Nat
    BY <1>1 DEF Starts
  \* The section of a header starts with the header.
  <1>3. ASSUME NEW h \in Starts(lines), lines[h] = "head"
        PROVE  h \in sec(h) /\ First(sec(h)) = h
    <2>1. h \in sec(h)
      BY <1>1, <1>2, <1>3 DEF Section, Starts
    <2>2. sec(h) \in SUBSET Nat /\ \A j \in sec(h) : h <= j
      BY <1>2, LinesOfEdition DEF Section
    <2>3. First(sec(h)) \in sec(h) /\ First(sec(h)) <= h
      BY <2>1, <2>2, FirstIsLeast
    <2> QED
      BY <1>2, <2>1, <2>2, <2>3
  <1>4. ASSUME NEW h \in nearest
        PROVE  chunk(h) \in Chunks(lines) /\ i \in chunk(h).body /\ chunk(h).category = h
    <2>1. h \in Starts(lines) /\ lines[h] = "head" /\ h < i
      BY <1>1
    <2>2. \A k \in Starts(lines) : ~ (h < k /\ k <= i)
      <3> SUFFICES ASSUME NEW k \in Starts(lines), h < k, k <= i
                   PROVE  FALSE
          OBVIOUS
      <3>1. lines[k] = "head"
        BY <1>1, <1>2, <2>1 DEF Starts
      <3>2. k # i
        BY <3>1
      <3>3. k \in above
        BY <1>1, <1>2, <3>1, <3>2 DEF Starts
      <3> QED
        BY <1>2, <2>1, <3>3
    <2>3. i \in sec(h)
      BY <1>1, <1>2, <2>1, <2>2 DEF Section
    <2>4. h \in sec(h) /\ First(sec(h)) = h
      BY <1>3, <2>1
    <2>5. Cardinality(sec(h)) > 1
      <3>1. IsFiniteSet(sec(h))
        <4>1. sec(h) \in SUBSET (1 .. Len(lines))
          BY <1>1, <1>2, <2>1, LinesOfEdition DEF Starts
        <4>2. IsFiniteSet(1 .. Len(lines))
          BY <1>1, FS_Interval
        <4> QED
          BY <4>1, <4>2, FS_Subset
      <3>2. /\ IsFiniteSet({h, i}) /\ Cardinality({h, i}) = 2
            /\ {h, i} \in SUBSET sec(h)
        <4>1. {h, i} = {h} \cup {i} /\ i \notin {h}
          BY <1>2, <2>1
        <4>2. IsFiniteSet({h}) /\ Cardinality({h}) = 1
          BY FS_Singleton
        <4>3. IsFiniteSet({h} \cup {i}) /\ Cardinality({h} \cup {i}) = 1 + 1
          BY <4>1, <4>2, FS_AddElement
        <4>4. {h, i} \in SUBSET sec(h)
          BY <2>3, <2>4
        <4>5. 1 + 1 = 2
          OBVIOUS
        <4> HIDE DEF sec
        <4> QED
          BY <4>1, <4>3, <4>4, <4>5, Zenon
      <3>3. 2 <= Cardinality(sec(h)) /\ Cardinality(sec(h)) \in Nat
        BY <3>1, <3>2, FS_Subset, FS_CardinalityType
      <3> QED
        BY <3>3
    <2>6. chunk(h) \in Chunks(lines)
      BY <2>1, <2>5 DEF Chunks
    <2> QED
      BY <1>2, <2>1, <2>3, <2>4, <2>6
  <1>5. ASSUME NEW c \in Chunks(lines), i \in c.body
        PROVE  c.category \in nearest
    <2>1. PICK h \in Starts(lines) : c = chunk(h)
      BY DEF Chunks
    <2>2. i \in sec(h) /\ i # First(sec(h))
      BY <1>5, <2>1
    <2>3. h <= i /\ \A k \in Starts(lines) : ~ (h < k /\ k <= i)
      BY <1>1, <1>2, <2>2 DEF Section
    <2>4. \A k \in above : k <= h
      BY <1>1, <1>2, <2>3
    <2>5. lines[h] = "head"
      <3>1. PICK k \in above : k <= h
        BY <2>4
      <3>2. CASE h = 1
        BY <1>2, <3>1, <3>2
      <3>3. CASE h # 1
        BY <3>3 DEF Starts
      <3> QED
        BY <3>2, <3>3
    <2>6. First(sec(h)) = h
      BY <1>3, <2>5
    <2>7. h \in above
      BY <1>1, <1>2, <2>2, <2>3, <2>5, <2>6 DEF Starts
    <2> QED
      BY <2>1, <2>4, <2>6, <2>7
  <1> DEFINE mine == {d \in Chunks(lines) : i \in d.body}
  <1> HIDE DEF nearest, chunk
  <1>6. \A c \in mine : c.category \in nearest
    BY <1>5
  <1>7. \A h \in nearest : \E c \in mine : c.category = h
    BY <1>4
  <1>8. {c.category : c \in mine} = nearest
    BY <1>6, <1>7
  <1> QED
    BY <1>8 DEF nearest

\* While the bot serves, every line of rules.md below a header is in exactly one
\* kind of chunk, that of the nearest header.
THEOREM RulesHold == Spec => []RulesAreWhole
  <1>1. Init => TypeOK /\ RulesInv
    BY TypeInit, RulesInit
  <1>2. TypeOK /\ RulesInv /\ [Next]_vars => (TypeOK /\ RulesInv)'
    BY TypeStep, RulesStep
  <1>3. TypeOK /\ RulesInv => RulesAreWhole
    <2> SUFFICES ASSUME TypeOK, RulesInv, Serving PROVE RulesAreWhole
        BY DEF RulesAreWhole
    <2>1. rulebook = Chunks(loaded) /\ rulebook # {}
      BY DEF RulesInv
    <2>2. loaded # <<>>
      <3>1. DOMAIN <<>> = {}
        BY EmptySeq, LenProperties
      <3>2. Chunks(<<>>) = {}
        BY <3>1 DEF Chunks, Starts
      <3> QED
        BY <2>1, <3>2
    <2>3. loaded \in Seq(Line)
      BY <2>2, StartupAssumption DEF TypeOK
    <2> QED
      BY <2>1, <2>2, <2>3, ChunkOfLine DEF RulesAreWhole
  <1> QED
    BY <1>1, <1>2, <1>3, PTL DEF Spec

-----------------------------------------------------------------------------
(* The role section of a prompt.  RoleLevels is a recursive function; that *)
(* there is one such function, built level by level, and that every stored *)
(* role is in one of its levels, both follow from the least number for     *)
(* which they would fail.                                                  *)

LEMMA LeastNumber ==
  ASSUME NEW S \in SUBSET Nat, S # {}
  PROVE  \E n \in S : \A k \in S : n <= k
  BY FirstIsLeast

Below(levels, d) ==
  {row.id : row \in {r \in RoleHierarchy :
      IF d = 0 THEN r.parent = None ELSE r.parent \in levels[d - 1]}}

LEMMA LevelsExist ==
  ASSUME NEW n \in Nat
  PROVE  \E g : g = [d \in 0 .. n |-> Below(g, d)]
  <1> DEFINE Exists(m) == \E g : g = [d \in 0 .. m |-> Below(g, d)]
             Bad == {m \in Nat : ~ Exists(m)}
  <1> SUFFICES Bad = {}
      OBVIOUS
  <1> SUFFICES ASSUME Bad # {} PROVE FALSE
      OBVIOUS
  <1>1. PICK m \in Bad : \A k \in Bad : m <= k
    BY LeastNumber
  <1>2. Exists(0)
    <2> DEFINE h == [d \in 0 .. 0 |-> {row.id : row \in {r \in RoleHierarchy : r.parent = None}}]
    <2>1. \A d \in 0 .. 0 : d = 0
      OBVIOUS
    <2>2. [d \in 0 .. 0 |-> Below(h, d)] = h
      BY <2>1 DEF Below
    <2> QED
      BY <2>2
  <1>3. m \in Nat \ {0} /\ m - 1 \in Nat /\ m - 1 < m
    <2>1. m \in Nat /\ ~ Exists(m)
      BY <1>1
    <2> HIDE DEF Exists
    <2>2. m # 0
      BY <1>2, <2>1
    <2> QED
      BY <2>1, <2>2
  <1>4. PICK g : g = [d \in 0 .. m - 1 |-> Below(g, d)]
    <2>1. m - 1 \notin Bad
      BY <1>1, <1>3
    <2> QED
      BY <1>3, <2>1
  <1> DEFINE h == [d \in 0 .. m |-> IF d = m THEN Below(g, m) ELSE g[d]]
  <1>5. ASSUME NEW d \in 0 .. m PROVE Below(h, d) = Below(g, d)
    <2>1. d # 0 => d - 1 \in 0 .. m /\ d - 1 # m
      BY <1>3
    <2>2. d # 0 => h[d - 1] = g[d - 1]
      BY <2>1
    <2> HIDE DEF h
    <2> QED
      BY <2>2 DEF Below
  <1>6. ASSUME NEW d \in 0 .. m PROVE h[d] = Below(g, d)
    <2>1. CASE d = m
      BY <2>1
    <2>2. CASE d # m
      <3>1. d \in 0 .. m - 1
        BY <1>3, <2>2
      <3>2. g[d] = Below(g, d)
        BY <1>4, <3>1
      <3> QED
        BY <2>2, <3>2
    <2> QED
      BY <2>1, <2>2
  <1>7. h = [d \in 0 .. m |-> Below(h, d)]
    <2>1. \A d \in 0 .. m : h[d] = Below(h, d)
      BY <1>5, <1>6
    <2>2. DOMAIN h = 0 .. m /\ h = [d \in 0 .. m |-> h[d]]
      OBVIOUS
    <2> HIDE DEF h
    <2> QED
      BY <2>1, <2>2
  <1>8. Exists(m)
    BY <1>7
  <1> QED
    BY <1>1, <1>8

LEMMA LevelsUnfold ==
  ASSUME tables.roles \in Seq(RoleRow)
  PROVE  RoleLevels = [d \in 0 .. Len(tables.roles) |-> Below(RoleLevels, d)]
  <1>1. Len(tables.roles) \in Nat
    BY LenProperties
  <1>2. \E g : g = [d \in 0 .. Len(tables.roles) |-> Below(g, d)]
    BY <1>1, LevelsExist
  <1> QED
    BY <1>2 DEF RoleLevels, Below

LEMMA StoredRolesAreShown ==
  ASSUME tables.roles \in Seq(RoleRow), ParentsFirst(tables.roles)
  PROVE  RolesAreShown
  <1> DEFINE rows == tables.roles
             Shown(i) == \E d \in 0 .. i - 1 : rows[i].id \in RoleLevels[d]
             Bad == {i \in 1 .. Len(rows) : ~ Shown(i)}
  <1>1. /\ Len(rows) \in Nat /\ DOMAIN rows = 1 .. Len(rows)
        /\ \A i \in DOMAIN rows : rows[i] \in RoleHierarchy
        /\ \A row \in RoleHierarchy : row.id \in Ids(rows)
    BY LenProperties DEF RoleHierarchy, Ids
  <1>2. /\ DOMAIN RoleLevels = 0 .. Len(rows)
        /\ \A d \in 0 .. Len(rows) : RoleLevels[d] = Below(RoleLevels, d)
    BY LevelsUnfold
  <1>3. RolesShown \subseteq Ids(rows)
    BY <1>1, <1>2 DEF RolesShown, Below
  <1>4. Bad = {}
    <2> SUFFICES ASSUME Bad # {} PROVE FALSE
        OBVIOUS
    <2>1. PICK i \in Bad : \A k \in Bad : i <= k
      <3>1. Bad \in SUBSET Nat
        OBVIOUS
      <3> HIDE DEF Bad
      <3> QED
        BY <3>1, LeastNumber
    <2>2. i \in 1 .. Len(rows) /\ i \in DOMAIN rows /\ ~ Shown(i)
      BY <1>1, <2>1
    <2>3. CASE rows[i].parent = None
      <3>1. rows[i].id \in RoleLevels[0]
        BY <1>1, <1>2, <2>2, <2>3 DEF Below
      <3> QED
        BY <1>1, <2>2, <3>1
    <2>4. CASE rows[i].parent # None
      <3>1. PICK j \in 1 .. i - 1 : rows[j].id = rows[i].parent
        BY <2>2, <2>4 DEF ParentsFirst
      <3>2. j \in 1 .. Len(rows) /\ j < i /\ j \notin Bad
        BY <1>1, <2>1, <2>2, <3>1
      <3>3. PICK d \in 0 .. j - 1 : rows[j].id \in RoleLevels[d]
        BY <3>2
      <3>4. d + 1 \in 0 .. i - 1 /\ d + 1 \in 0 .. Len(rows) /\ d + 1 # 0
            /\ (d + 1) - 1 = d
        BY <1>1, <2>2, <3>2, <3>3
      <3>5. rows[i].id \in Below(RoleLevels, d + 1)
        BY <1>1, <2>2, <3>1, <3>3, <3>4 DEF Below
      <3>6. rows[i].id \in RoleLevels[d + 1]
        BY <1>2, <3>4, <3>5
      <3> QED
        BY <2>2, <3>4, <3>6
    <2> QED
      BY <2>3, <2>4
  <1>5. Ids(rows) \subseteq RolesShown
    <2> SUFFICES ASSUME NEW i \in DOMAIN rows PROVE rows[i].id \in RolesShown
        BY DEF Ids
    <2>1. PICK d \in 0 .. i - 1 : rows[i].id \in RoleLevels[d]
      BY <1>1, <1>4
    <2>2. d \in DOMAIN RoleLevels
      BY <1>1, <1>2, <2>1
    <2> QED
      BY <2>1, <2>2 DEF RolesShown
  <1> QED
    BY <1>3, <1>5 DEF RolesAreShown

-----------------------------------------------------------------------------
(* The page: the roles of some moment since the start, all of them if they *)
(* fit.                                                                    *)

PageInv ==
  pc \in {"insert", "commit", "knowledge", "serving"} =>
      \E p \in since : page \in Pages(p.roles)

LEMMA PageInit == Init => PageInv
  BY DEF Init, PageInv

LEMMA PageStep == TypeOK /\ SchemaInv /\ PageInv /\ [Next]_vars => PageInv'
  <1> SUFFICES ASSUME TypeOK, SchemaInv, PageInv, [Next]_vars PROVE PageInv'
      OBVIOUS
  <1>1. CASE FetchRoles
    <2>1. org \in since
      BY <1>1 DEF FetchRoles, At, SchemaInv, SyncPC
    <2> QED
      BY <1>1, <2>1 DEF FetchRoles, PageInv
  <1>2. CASE \/ InsertRole \/ EndPass \/ Commit \/ SkipRules \/ EmbedRules
             \/ EditRules \/ WipeStore \/ UNCHANGED vars
    BY <1>2 DEF PageInv, InsertRole, EndPass, Commit, SkipRules, EmbedRules,
       EditRules, WipeStore, At, Goto, vars, syncVars
  <1>3. CASE ChangeOrg
    BY <1>3 DEF PageInv, ChangeOrg
  <1>4. CASE \/ Start \/ DescribeObject \/ FetchRules \/ FetchFormula \/ StoreRules
             \/ Die \/ NoRules
    BY <1>4 DEF PageInv, Start, DescribeObject, FetchRules, FetchFormula, StoreRules,
       Die, NoRules, At, Goto
  <1> QED
    BY <1>1, <1>2, <1>3, <1>4 DEF Next, Work, SyncStep, InitKnowledge

LEMMA WholePage ==
  ASSUME NEW p \in Orgs, NEW pg \in Pages(p.roles),
         Cardinality(DOMAIN p.roles) <= PageSize, RolesHang
  PROVE  Grounded(pg) = DOMAIN p.roles
  <1> DEFINE f == p.roles
             c == Cardinality(DOMAIN f)
             n == IF c < PageSize THEN c ELSE PageSize
  <1>1. DOMAIN f \subseteq Roles /\ IsFiniteSet(DOMAIN f) /\ c \in Nat
    BY OrgParts, Partial, OrgAssumption, FS_Subset, FS_CardinalityType
  <1>2. n = c
    BY <1>1, OrgAssumption
  <1>3. PICK s \in [1 .. n -> DOMAIN f] :
            /\ \A i, j \in 1 .. n : s[i] = s[j] => i = j
            /\ pg = [i \in 1 .. n |-> [id |-> s[i], parent |-> f[s[i]]]]
    BY DEF Pages
  <1>4. s \in Surjection(1 .. n, DOMAIN f)
    <2>1. s \in Injection(1 .. n, DOMAIN f)
      BY <1>3 DEF Injection, IsInjective
    <2>2. Cardinality(1 .. n) = c
      <3>1. n \in Nat
        BY <1>1, <1>2
      <3> QED
        BY <1>2, <3>1, FS_Interval
    <2> QED
      BY <1>1, <2>1, <2>2, FS_Injection
  <1>5. /\ DOMAIN pg = 1 .. n
        /\ \A i \in 1 .. n : pg[i].id = s[i] /\ pg[i].parent = f[s[i]]
        /\ \A r \in DOMAIN f : \E i \in 1 .. n : s[i] = r
    BY <1>3, <1>4 DEF Surjection
  <1>6. Ids(pg) = DOMAIN f
    BY <1>3, <1>5 DEF Ids
  <1>7. ASSUME NEW S \in SUBSET Ids(pg), Closed(pg, S)
        PROVE  S = DOMAIN f
    <2>1. \A r \in DOMAIN f : f[r] \in S \cup {None} => r \in S
      BY <1>5, <1>7 DEF Closed
    <2> QED
      BY <1>6, <1>7, <2>1 DEF RolesHang
  <1> QED
    BY <1>6, <1>7 DEF Grounded, Closed

-----------------------------------------------------------------------------
(* The schema section of a prompt, part by part.                           *)

LEMMA FieldParts ==
  ASSUME NEW F \in SUBSET FieldDesc, NEW R, R = {ParseField(f) : f \in F}
  PROVE  /\ {[name |-> r.name, values |-> r.values] :
                r \in {g \in R : g.editable /\ ~ g.deprecated}}
              = {[name |-> f.name, values |-> f.values \ f.retired] :
                    f \in {g \in F : g.updateable /\ g.help # "deprecated"}}
         /\ {r.name : r \in {g \in R : g.deprecated}}
              = {f.name : f \in {g \in F : g.help = "deprecated"}}
         /\ {r.name : r \in {g \in R : ~ g.editable}}
              = {f.name : f \in {g \in F : ~ g.updateable}}
  <1> DEFINE P(f) == ParseField(f)
  <1>1. \A f \in F : /\ P(f).name = f.name
                     /\ P(f).values = f.values \ f.retired
                     /\ P(f).editable <=> f.updateable
                     /\ P(f).deprecated <=> f.help = "deprecated"
    BY DEF ParseField
  <1>2. \A r : r \in R <=> \E f \in F : r = P(f)
    OBVIOUS
  <1> HIDE DEF P
  <1>3. \A x : (\E r \in R : r.deprecated /\ x = r.name)
              <=> (\E f \in F : f.help = "deprecated" /\ x = f.name)
    <2>1. ASSUME NEW r \in R, r.deprecated
          PROVE  \E f \in F : f.help = "deprecated" /\ r.name = f.name
      <3>1. PICK f \in F : r = P(f)
        BY <1>2
      <3>2. P(f).deprecated
        BY <2>1, <3>1
      <3>3. f.help = "deprecated" /\ r.name = f.name
        BY <1>1, <3>1, <3>2
      <3> QED
        BY <3>3
    <2>2. ASSUME NEW f \in F, f.help = "deprecated"
          PROVE  \E r \in R : r.deprecated /\ f.name = r.name
      BY <1>1, <1>2, <2>2, Zenon
    <2> QED
      BY <2>1, <2>2
  <1>4. \A x : (\E r \in R : ~ r.editable /\ x = r.name)
              <=> (\E f \in F : ~ f.updateable /\ x = f.name)
    BY <1>1, <1>2
  <1>5. \A x : (\E r \in R : /\ r.editable /\ ~ r.deprecated
                            /\ x = [name |-> r.name, values |-> r.values])
              <=> (\E f \in F : /\ f.updateable /\ f.help # "deprecated"
                               /\ x = [name |-> f.name, values |-> f.values \ f.retired])
    <2>1. ASSUME NEW r \in R, r.editable, ~ r.deprecated
          PROVE  \E f \in F : /\ f.updateable /\ f.help # "deprecated"
                              /\ r.name = f.name /\ r.values = f.values \ f.retired
      <3>1. PICK f \in F : r = P(f)
        BY <1>2
      <3>2. P(f).editable /\ ~ P(f).deprecated
        BY <2>1, <3>1
      <3>3. /\ f.updateable /\ f.help # "deprecated"
            /\ r.name = f.name /\ r.values = f.values \ f.retired
        BY <1>1, <3>1, <3>2
      <3> QED
        BY <3>3
    <2>2. ASSUME NEW f \in F, f.updateable, f.help # "deprecated"
          PROVE  \E r \in R : /\ r.editable /\ ~ r.deprecated
                              /\ f.name = r.name /\ r.values = f.values \ f.retired
      BY <1>1, <1>2, <2>2, Zenon
    <2>3. ASSUME NEW x, NEW r \in R, r.editable, ~ r.deprecated,
                 x = [name |-> r.name, values |-> r.values]
          PROVE  \E f \in F : /\ f.updateable /\ f.help # "deprecated"
                              /\ x = [name |-> f.name, values |-> f.values \ f.retired]
      <3>1. PICK f \in F : /\ f.updateable /\ f.help # "deprecated"
                           /\ r.name = f.name /\ r.values = f.values \ f.retired
        BY <2>1, <2>3
      <3>2. x = [name |-> f.name, values |-> f.values \ f.retired]
        BY <2>3, <3>1
      <3> QED
        BY <3>1, <3>2
    <2>4. ASSUME NEW x, NEW f \in F, f.updateable, f.help # "deprecated",
                 x = [name |-> f.name, values |-> f.values \ f.retired]
          PROVE  \E r \in R : /\ r.editable /\ ~ r.deprecated
                              /\ x = [name |-> r.name, values |-> r.values]
      <3>1. PICK r \in R : /\ r.editable /\ ~ r.deprecated
                           /\ f.name = r.name /\ r.values = f.values \ f.retired
        BY <2>2, <2>4
      <3>2. x = [name |-> r.name, values |-> r.values]
        BY <2>4, <3>1
      <3> QED
        BY <3>1, <3>2
    <2> QED
      BY <2>3, <2>4
  <1>6. {r.name : r \in {g \in R : g.deprecated}}
          = {f.name : f \in {g \in F : g.help = "deprecated"}}
    BY <1>3
  <1>7. {r.name : r \in {g \in R : ~ g.editable}}
          = {f.name : f \in {g \in F : ~ g.updateable}}
    BY <1>4
  <1>8. {[name |-> r.name, values |-> r.values] :
           r \in {g \in R : g.editable /\ ~ g.deprecated}}
          = {[name |-> f.name, values |-> f.values \ f.retired] :
                f \in {g \in F : g.updateable /\ g.help # "deprecated"}}
    BY <1>5
  <1> QED
    BY <1>6, <1>7, <1>8

LEMMA RelationshipParts ==
  ASSUME NEW p \in Orgs, NEW o \in Objects, TypeOK,
         \A q \in Objects : {r \in tables.relationships : r.parent = q}
                               = ParseRelationships(q, p.children[q])
  PROVE  Relationships(o) =
           {r \in Relationship : /\ o \in {r.parent, r.child}
                                 /\ [child |-> r.child, field |-> r.field,
                                     named |-> TRUE] \in p.children[r.parent]}
  <1>1. tables.relationships \subseteq Relationship
    BY DEF TypeOK, SyncTypeOK, Tables
  <1>2. ASSUME NEW r \in Relationship
        PROVE  r \in tables.relationships <=>
                   [child |-> r.child, field |-> r.field, named |-> TRUE]
                       \in p.children[r.parent]
    <2> DEFINE C == p.children[r.parent]
    <2>1. r.parent \in Objects /\ r = [parent |-> r.parent, child |-> r.child, field |-> r.field]
      BY DEF Relationship
    <2>2. r \in tables.relationships <=> r \in ParseRelationships(r.parent, C)
      BY <2>1
    <2>3. C \subseteq ChildDesc
      BY <2>1, OrgParts
    <2>4. ASSUME NEW c \in C, c.named, r = [parent |-> r.parent, child |-> c.child, field |-> c.field]
          PROVE  [child |-> r.child, field |-> r.field, named |-> TRUE] \in C
      <3>1. r.child = c.child /\ r.field = c.field
        BY <2>4
      <3>2. c = [child |-> c.child, field |-> c.field, named |-> TRUE]
        BY <2>3, <2>4 DEF ChildDesc
      <3> QED
        BY <3>1, <3>2
    <2>5. ASSUME [child |-> r.child, field |-> r.field, named |-> TRUE] \in C
          PROVE  r \in ParseRelationships(r.parent, C)
      BY <2>1, <2>5 DEF ParseRelationships
    <2>6. ASSUME r \in ParseRelationships(r.parent, C)
          PROVE  [child |-> r.child, field |-> r.field, named |-> TRUE] \in C
      BY <2>4, <2>6 DEF ParseRelationships
    <2> QED
      BY <2>2, <2>5, <2>6
  <1> QED
    BY <1>1, <1>2 DEF Relationships

LEMMA SectionIsCurrent ==
  ASSUME TypeOK, RolesInv, SchemaInv, Serving, NEW p \in Orgs, since = {p},
         NEW o \in Objects
  PROVE  SchemaSection(o) = SectionOf(p, o)
  <1>1. ObjectsFetched(tables, Objects) /\ RulesFetched(tables.rules)
    BY DEF SchemaInv, Serving, At
  <1>2. \A q \in Objects :
           /\ tables.fields[q] = {ParseField(f) : f \in p.fields[q]}
           /\ {r \in tables.relationships : r.parent = q}
                  = ParseRelationships(q, p.children[q])
    BY <1>1 DEF ObjectsFetched
  <1>3. /\ DOMAIN tables.rules = DOMAIN p.rules
        /\ \A r \in DOMAIN p.rules : /\ tables.rules[r].object = p.rules[r].object
                                     /\ tables.rules[r].active = p.rules[r].active
    BY <1>1 DEF RulesFetched
  <1>4. p.fields[o] \subseteq FieldDesc
    BY OrgParts
  <1>5. ActiveRules(o) =
           {r \in DOMAIN p.rules : p.rules[r].object = o /\ p.rules[r].active}
    BY <1>3 DEF ActiveRules
  <1>6. Relationships(o) =
           {r \in Relationship : /\ o \in {r.parent, r.child}
                                 /\ [child |-> r.child, field |-> r.field,
                                     named |-> TRUE] \in p.children[r.parent]}
    BY <1>2, RelationshipParts
  <1> QED
    BY <1>2, <1>4, <1>5, <1>6, FieldParts DEF SchemaSection, SectionOf, ObjectFields

\* After a start during which the org did not change, what a prompt says of each
\* object is what the org says of it (no deprecated or retired value among those
\* to pick from, relationships from both ends, active rules only), and its role
\* section shows every role, as long as they fit a page and form a hierarchy.
THEOREM PromptsAreCurrent ==
  ASSUME RolesHang
  PROVE  Spec => []PromptsShowTheOrg
  <1> DEFINE Inv == TypeOK /\ RolesInv /\ KeysInv /\ SchemaInv /\ PageInv
  <1>1. Init => Inv
    BY TypeInit, RolesInit, KeysInit, SchemaInit, PageInit
  <1>2. Inv /\ [Next]_vars => Inv'
    BY TypeStep, RolesStep, KeysStep, SchemaStep, PageStep
  <1>3. Inv => PromptsShowTheOrg
    <2> SUFFICES ASSUME Inv PROVE PromptsShowTheOrg
        OBVIOUS
    <2>1. tables.roles \in Seq(RoleRow) /\ since \subseteq Orgs
      BY DEF TypeOK, SyncTypeOK, Tables
    <2>2. RolesAreShown
      BY <2>1, StoredRolesAreShown DEF KeysInv, KeysHold
    <2>3. ASSUME NEW p \in since, Serving, since = {p}
          PROVE  /\ \A o \in Objects : SchemaSection(o) = SectionOf(p, o)
                 /\ Cardinality(DOMAIN p.roles) <= PageSize => RolesShown = DOMAIN p.roles
      <3>1. \A o \in Objects : SchemaSection(o) = SectionOf(p, o)
        BY <2>1, <2>3, SectionIsCurrent
      <3>2. page \in Pages(p.roles)
        BY <2>3 DEF PageInv, Serving, At
      <3>3. Ids(tables.roles) = Grounded(page)
        BY <2>3 DEF RolesInv, Passed, Whole, Serving, At
      <3>4. ASSUME Cardinality(DOMAIN p.roles) <= PageSize
            PROVE  RolesShown = DOMAIN p.roles
        BY <2>1, <2>2, <3>2, <3>3, <3>4, WholePage DEF RolesAreShown
      <3> QED
        BY <3>1, <3>4
    <2> QED
      BY <2>2, <2>3 DEF PromptsShowTheOrg
  <1> QED
    BY <1>1, <1>2, <1>3, PTL DEF Spec
=============================================================================
