------------------------------ MODULE MCPubSub ------------------------------
(* Instances of PubSub: process runs a1 and a2 of id "a", b1 of id "b".      *)
EXTENDS PubSub

CONSTANTS a1, a2, b1

\* Ids fit in MAX_ID_LEN: they are stored as they are.
ShortIds == {"a", "b"}
ShortIdOf == [p \in Procs |-> IF p = b1 THEN "b" ELSE "a"]
ShortStored == [id \in Ids |-> id]

NoStrings == {}
OneTopic == {<<"upb", "ec">>}
TwoTopics == {<<"upb", "ec">>, <<"upb", "precis">>}
OnePattern == {<<"upb", "+">>}
TwoPatterns == {<<"upb", "ec">>, <<"upb", "*">>}

\* Commands typed: one to each; or one to a1, and two to a2, which comes back
\* under the id of a1.
OneEach == [p \in Procs |-> 1]
OneThenTwo == [p \in Procs |-> IF p = a1 THEN 1 ELSE 2]
=============================================================================
