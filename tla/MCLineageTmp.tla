---------------------------- MODULE MCLineageTmp ----------------------------
(* An instance of LineagePipeline with tmp tables, for TLC: one task       *)
(* writes the chain a -> b -> c -> d through the tmp tables b and c, and a *)
(* second text of s1 closes a cycle between b and c.  s4 is retired and of *)
(* another task.                                                           *)
EXTENDS LineagePipeline, TLC

CONSTANTS a, b, c, d, s1, s2, s3, s4, v1, v2, w2, w3, w4, task, other

TmpVersions == s1 :> {v1, v2} @@ s2 :> {w2} @@ s3 :> {w3} @@ s4 :> {w4}
TmpReads == v1 :> {a} @@ v2 :> {a, c} @@ w2 :> {b} @@ w3 :> {c} @@ w4 :> {a}
TmpWrites == s1 :> b @@ s2 :> c @@ s3 :> d @@ s4 :> c
OneTask == s1 :> task @@ s2 :> task @@ s3 :> task @@ s4 :> other
=============================================================================
