\* Two starts, one change of the org or of rules.md, a page of three roles.
SPECIFICATION FairSpec
CONSTANTS
    account = account
    opportunity = opportunity
    contact = contact
    amount = amount
    legacy = legacy
    open = open
    closed = closed
    noDiscount = noDiscount
    cap10 = cap10
    cap30 = cap30
    ceo = ceo
    vp = vp
    rep = rep
    intern = intern
    None = None
    Objects = {account, opportunity}
    Others = {contact}
    Fields = {amount, legacy}
    Values = {open, closed}
    Rules = {noDiscount}
    Formulas = {cap10, cap30}
    Roles = {ceo, vp, rep, intern}
    Orgs <- SomeOrgs
    Editions <- SomeEditions
    PageSize = 3
    MaxStarts = 2
    MaxChanges = 1
INVARIANTS
    TypeOK
    HierarchyIsWhole
    ServedSchemaWasFetched
    PromptsShowTheOrg
    RulesAreWhole
PROPERTIES
    StartsEnd
\* After the last stop the system rests.
CHECK_DEADLOCK FALSE
