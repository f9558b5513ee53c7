----------------------------- MODULE MCPipeline -----------------------------
(* A small instance of WritePipeline: Claude plans operations out of order *)
(* and with a number used twice.                                           *)
EXTENDS WritePipeline, TLC

CONSTANTS r1, tmpl, none

Raw(order, kind, target, ref) ==
    [order |-> order, type |-> kind, target |-> target, ref |-> ref]

Drafts == [m \in 1 .. MaxTurns |->
    <<Raw(2, "UPDATE", tmpl, 1), Raw(NoOrder, "CREATE", none, 0),
      Raw(1, "UPDATE", r1, 0)>>]

\* The batches that confirmations of the first two messages may create; the
\* second one of a plan shows that there is none.
SomeBatches == {<<1, 1>>, <<1, 2>>, <<2, 1>>}

\* What the planner makes of an answer, written out.
Step(kind, target, ref) == [type |-> kind, target |-> target, ref |-> ref]

Plans == [b \in SomeBatches |->
    <<Step("CREATE", none, 0), Step("UPDATE", r1, 0), Step("UPDATE", tmpl, 2)>>]

OneClick == [b \in SomeBatches |-> 1]
=============================================================================
