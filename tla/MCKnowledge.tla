---------------------------- MODULE MCKnowledge -----------------------------
(* A small instance of Knowledge.                                          *)
EXTENDS Knowledge, TLC

CONSTANTS stage, owner, tier      \* topics

\* Two opinions on one topic; one of them with a claim on another topic, which
\* contradicts a rule; and part of that rule.
opinion == {<<stage, 1>>}
other == {<<stage, 2>>}
wide == {<<stage, 1>>, <<owner, 2>>}
part == {<<owner, 1>>}
rule == {<<owner, 1>>, <<tier, 1>>}

SomeContents == {opinion, other, wide, part}
SomeRules == {rule}

\* The rule and the other opinion contradict wide, but are too far away from it to be
\* judged; the two opinions are just near enough.  Of opinion and part, which are as
\* near to wide as each other, only part contradicts it.
Close == {{opinion, wide}, {wide, part}, {part, rule}}
AnyText == SomeContents \cup SomeRules
SomeDistance == [p \in AnyText \X AnyText |->
    CASE p[1] = p[2]                     -> 0
      [] {p[1], p[2]} \in Close          -> 1
      [] {p[1], p[2]} = {opinion, other} -> 2
      [] OTHER                           -> 3]

EndSymmetry == Permutations(Ends)
=============================================================================
