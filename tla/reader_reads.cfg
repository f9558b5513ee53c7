\* Two reads of two rounds of two queries; every call may fail.
SPECIFICATION FairSpec
CONSTANTS
    badField = badField
    twoFields = twoFields
    plain = plain
    badRelation = badRelation
    subquery = subquery
    malformed = malformed
    name = name
    ownerName = ownerName
    tier = tier
    account = account
    contacts = contacts
    people = people
    Queries = {badField, twoFields, plain, badRelation, subquery, malformed}
    Names = {name, ownerName, tier, account, contacts, people}
    Dotted = {ownerName}
    Complaints <- FieldUnknown
    Relation <- RelationUnknown
    FirstFrom <- SomeLabels
    Malformed = {malformed}
    None = None
    MaxReadIterations = 2
    MaxParallelQueries = 2
    MaxKnowledgeErrors = 2
    MaxReads = 2
    Plans <- SomePlans
    Intents <- SomeIntents
INVARIANTS
    TypeOK
    LessonsMatchErrors
    AnswersReachClaude
    HistoryKeepsTheData
PROPERTIES
    LessonsStay
    ReadsEnd
\* After the last read the system rests.
CHECK_DEADLOCK FALSE
