----------------------------- MODULE MCStartup ------------------------------
(* Small instances of Startup.                                             *)
EXTENDS Startup, TLC

CONSTANTS account, opportunity, contact,    \* objects
          amount, legacy,                   \* fields
          open, closed,                     \* picklist values
          noDiscount,                       \* a validation rule
          cap10, cap30,                     \* its formula, then and now
          ceo, vp, rep, intern              \* roles

Field(n, h, u) == [name |-> n, help |-> h, updateable |-> u,
                   values |-> {open, closed}, retired |-> {closed}]
Rule(a, f) == noDiscount :> [object |-> opportunity, active |-> a, formula |-> f]
Has(o, f, n) == [child |-> o, field |-> f, named |-> n]

\* A chain of three, one of four (a page is short of one role), no roles.
Chain == (ceo :> None) @@ (vp :> ceo) @@ (rep :> vp)
LongChain == Chain @@ (intern :> rep)

\* Mutually different orgs: fields and relationships come and go, a field is
\* deprecated or locked, a rule gets another formula or is switched off.
OrgA == [fields |-> (account :> {Field(amount, "none", TRUE)})
                 @@ (opportunity :> {Field(amount, "note", TRUE),
                                     Field(legacy, "none", TRUE)}),
         children |-> (account :> {Has(opportunity, amount, TRUE),
                                   Has(contact, amount, FALSE)})
                   @@ (opportunity :> {Has(account, legacy, TRUE)}),
         rules |-> Rule(TRUE, cap10), roles |-> Chain]
OrgB == [fields |-> (account :> {})
                 @@ (opportunity :> {Field(legacy, "deprecated", TRUE),
                                     Field(amount, "none", FALSE)}),
         children |-> (account :> {Has(contact, legacy, TRUE)})
                   @@ (opportunity :> {}),
         rules |-> Rule(TRUE, cap30), roles |-> LongChain]
OrgC == [OrgA EXCEPT !.rules = Rule(FALSE, cap30), !.roles = <<>>]

SomeOrgs == {OrgA, OrgB, OrgC}

ASSUME HierarchyAssumption == RolesHang

\* A preamble, an empty section, a section with a body; a file of one line.
SomeEditions == {<<"text", "text", "head", "head", "blank", "text", "text">>,
                 <<"text">>}
=============================================================================
