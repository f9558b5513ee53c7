------------------------------ MODULE Context -------------------------------
(***************************************************************************)
(* What the prompts for Claude say of the org: the queries of              *)
(* context/structural.py on the schema tables, and the block that          *)
(* ContextBundle.to_prompt_block (context/retriever.py) makes of them.     *)
(* Order and wording are left out.                                         *)
(***************************************************************************)
EXTENDS SchemaSync

\* get_object_fields
ObjectFields(o) == tables.fields[o]

\* Mutant: only the relationships in which the object is the parent.
Relationships_OfParent(o) == {r \in tables.relationships : r.parent = o}

\* get_relationships: "where this object is the parent OR the child".
Relationships(o) == {r \in tables.relationships : r.parent = o \/ r.child = o}

\* get_validation_rules: the active ones.
ActiveRules(o) ==
    {r \in DOMAIN tables.rules : tables.rules[r].object = o /\ tables.rules[r].active}

\* The schema section for one object.  A field that may be written is listed
\* with its values, the others by name.
SchemaSection(o) ==
    LET fields == ObjectFields(o) IN
    [editable |-> {[name |-> f.name, values |-> f.values] :
                       f \in {g \in fields : g.editable /\ ~ g.deprecated}},
     deprecated |-> {f.name : f \in {g \in fields : g.deprecated}},
     readonly |-> {f.name : f \in {g \in fields : ~ g.editable}},
     relationships |-> Relationships(o),
     rules |-> ActiveRules(o)]

\* get_role_hierarchy
RoleHierarchy == {tables.roles[i] : i \in DOMAIN tables.roles}

\* _render_tree, level by level: the roles shown at each depth.
RoleLevels ==
    LET level[d \in 0 .. Len(tables.roles)] ==
            {row.id : row \in {r \in RoleHierarchy :
                IF d = 0 THEN r.parent = None ELSE r.parent \in level[d - 1]}}
    IN  level

RolesShown == UNION {RoleLevels[d] : d \in DOMAIN RoleLevels}
=============================================================================
