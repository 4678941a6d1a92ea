-------------------------- MODULE MCLineagePipeline --------------------------
(* Instances of LineagePipeline for TLC. *)
EXTENDS LineagePipeline, TLC

CONSTANTS a, b, c, s1, s2, v1, v2, w1

(* A chain a -> b -> c written by two statements; a second text of s1      *)
(* drops its source, so that both counts can shrink.                       *)
ChainVersions == s1 :> {v1, v2} @@ s2 :> {w1}
ChainReads == v1 :> {a} @@ v2 :> {} @@ w1 :> {b}
ChainWrites == s1 :> b @@ s2 :> c
NoTasks == s1 :> NoTask @@ s2 :> NoTask

(* a -> c drawn by hand, and taken back. *)
DrawOrErase == { [dst |-> c, srcs |-> {a}, sql |-> NoSql],
                 [dst |-> c, srcs |-> {}, sql |-> s2] }
NoDrawings == {}
=============================================================================
