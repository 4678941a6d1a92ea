------------------------- MODULE MCIncrementalPatch -------------------------
(* Instances of IncrementalPatch for TLC. *)
EXTENDS IncrementalPatch, TLC

CONSTANTS a, b, c, d, s1, s2, s3

Result(t, S) == [target |-> t, sources |-> S]
Failed == Result(NoTarget, {})

(* Three statements that write b, c and d: cycles of b and c, two paths of *)
(* the same length into d, a text that does not parse and one that moves   *)
(* to another target.                                                      *)
Targets == s1 :> b @@ s2 :> c @@ s3 :> d
Sources ==
  s1 :> { Result(b, {a}), Result(b, {a, c}) }
  @@ s2 :> { Failed, Result(c, {a}), Result(c, {a, b}), Result(b, {a}) }
  @@ s3 :> { Result(d, {b}), Result(d, {b, c}) }

(* Two statements whose targets are in one chain; a text only drops tables. *)
Chain == s1 :> Result(b, {a}) @@ s2 :> Result(c, {b})
TwoTargets == s1 :> b @@ s2 :> c
ChainOrNothing == [s \in Sqls |-> {Chain[s], Result(Chain[s].target, {})}]
=============================================================================
