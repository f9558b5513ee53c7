----------------------------- MODULE MCApproval -----------------------------
(* Small instances of ApprovalFlow: three plans that between them contend  *)
(* for one record, chain a CREATE into an UPDATE, and hold an unknown      *)
(* operation, an UPDATE without a record id and no operation at all.       *)
EXTENDS ApprovalFlow, TLC

CONSTANTS b1, b2, b3, t1, t2, r1, r2, tmpl, none

Op(type, target, ref) == [type |-> type, target |-> target, ref |-> ref]


UpdateR1 == Op("UPDATE", r1, 0)
UpdateR2 == Op("UPDATE", r2, 0)
UpdateNothing == Op("UPDATE", none, 0)
Create == Op("CREATE", none, 0)
UpdateCreated == Op("UPDATE", tmpl, 1)
Unknown == Op("OTHER", none, 0)

\* A chained plan next to one that wants the same record.
PlanChained == b1 :> <<Create, UpdateCreated, UpdateR1>> @@ b2 :> <<UpdateR1>>
\* The same, and a plan without operations.
PlanChainedOrEmpty == PlanChained @@ b3 :> <<>>
\* An unknown operation, then an UPDATE without a record id.
PlanOdd == b1 :> <<UpdateR1, Unknown, UpdateNothing>> @@ b2 :> <<UpdateR1>>
\* Nothing to lock; two plans that want one record.
PlanContended == b1 :> <<Create>> @@ b2 :> <<Unknown, UpdateR1>>
                 @@ b3 :> <<UpdateR1>>
\* The least that shows each disagreement.
PlanOne == b1 :> <<UpdateR1, UpdateR2>>
PlanPair == b1 :> <<UpdateR1>> @@ b2 :> <<UpdateR1>>
OneClick == [b \in Batches |-> 1]
TwoClicks == [b \in Batches |-> 2]
TwoThenOne == [b \in Batches |-> IF b = b1 THEN 2 ELSE 1]

ThreadSymmetry == Permutations(Threads)
=============================================================================
