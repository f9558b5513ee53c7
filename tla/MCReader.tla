------------------------------ MODULE MCReader ------------------------------
(* Small instances of Reader: an aggregate query for a field that does not *)
(* exist, a simple one for two of them, one that Salesforce answers, two   *)
(* that name the same unknown relation, and one whose handling raises.     *)
EXTENDS Reader

CONSTANTS badField, twoFields, plain, badRelation, subquery, malformed,
          name, ownerName, tier, account, contacts, people

AllQueries == {badField, twoFields, plain, badRelation, subquery, malformed}

Unknown(f, listed) ==
    Line("field", [wrong |-> f, object |-> account, listed |-> listed])

FieldUnknown == [q \in AllQueries |->
    CASE q = badField -> <<Unknown(name, {tier}), Line("message", q)>>
      [] q = twoFields -> <<Unknown(ownerName, {}), Unknown(tier, {})>>
      [] OTHER -> <<>>]

RelationUnknown == [q \in AllQueries |->
    CASE q = badRelation -> [wrong |-> contacts, correct |-> people]
      [] q = subquery -> [wrong |-> contacts, correct |-> tier]
      [] OTHER -> None]

\* SELECT Id, (SELECT Id FROM Contacts) FROM Account
SomeLabels == [q \in AllQueries |->
    IF q \in {badRelation, subquery} THEN contacts ELSE None]

\* Two queries; more than run at once; one that raises; none.
SomePlans == {<<badField, plain>>, <<badRelation, subquery, plain>>,
              <<plain, malformed>>, <<>>}
\* An intent without objects, and one whose object lacks fields.
SomeIntents == {<<>>, <<twoFields>>}

\* What Claude is told to ask for, of objects that exist.
OnePlan == {<<plain>>}
OneIntent == {<<badField>>}
=============================================================================
