--------------------------- MODULE MCTaskWorkflow ---------------------------
(***************************************************************************)
(* Instances of TaskWorkflow for TLC: a creator, two executors and a       *)
(* manager.  Ann has a directory record with a username, so that the       *)
(* resolver finds her account; Bob's record has none, so that the resolver *)
(* finds the record only and his account is linked when he writes.         *)
(***************************************************************************)
EXTENDS TaskCards, TLC

CONSTANTS creator, ann, bob, boss, recordA, recordB, h1, h2

\* Four people, for the runs about assignments.
MCUsers == {creator, ann, bob, boss}
MCEmployees == {recordA, recordB}
MCRole == [u \in MCUsers |-> IF u = boss THEN "manager" ELSE "user"]
MCResolutions == {<<None, recordA>>, <<ann, recordA>>, <<None, recordB>>}
\* Ann is assigned by her username, and again by her record alone, when the username
\* has changed meanwhile: her account is linked then, as Bob's is.
MCReturning == {<<ann, recordA>>, <<bob, recordB>>}

\* Three people, for the runs about the work on an assigned task.
MCTeam == {creator, ann, boss}
MCTeamRole == [u \in MCTeam |-> IF u = boss THEN "manager" ELSE "user"]
MCNoAccounts == {}
MCTeamResolutions == {<<ann, recordA>>, <<creator, None>>}

MCRequestable == {"in_progress", "in_review", "completed", "cancelled"}
MCCancelOnly == {"cancelled"}

Symmetry == Permutations({h1, h2})

=============================================================================
