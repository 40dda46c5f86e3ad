---------------------------- MODULE MCKnowledge ----------------------------
(* A small instance of Knowledge for TLC.  Content c1 relates entity e2 to  *)
(* e1, and c2 mentions e1: the query finds c1, and c2 only over the graph.  *)
(* Source s3 is in a collection of its own, and takes e1 from the others.   *)
EXTENDS Knowledge, TLC

CONSTANTS s1, s2, s3, a, b, c1, c2, e1, e2, p1, p2, m1, m2

Doc(s, c, acl, m) == [source |-> s, content |-> c, acl |-> acl, profile |-> m]

MCAcls == {{p2}, {Everyone}}
MCDocuments == {Doc(s1, c1, {Everyone}, m1), Doc(s1, c2, {p2}, m1),
                Doc(s2, c2, {Everyone}, m1), Doc(s1, c2, {p2}, m2),
                Doc(s3, c2, {Everyone}, m1)}
MCAclChange == {Doc(s1, c1, {Everyone}, m1), Doc(s1, c1, {p2}, m1)}
MCCollectionOf == [s \in Sources |-> IF s = s3 THEN b ELSE a]
MCQueries == {<<p1, a>>}
MCExtract == (c1 :> {e1, e2, <<e2, e1>>}) @@ (c2 :> {e1})
MCSymmetry == Permutations(Writers)
============================================================================
