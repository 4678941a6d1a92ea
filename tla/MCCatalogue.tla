---------------------------- MODULE MCCatalogue -----------------------------
EXTENDS Catalogue

CONSTANTS c1, c2, c3, t1, t2, k1, ann, bob, long, short, net, gross

(* Two columns of a table and one of another.                               *)
TheTables == c1 :> t1 @@ c2 :> t1 @@ c3 :> t2

(* The editors, the calibers and the columns of t1 are not told apart.      *)
Alike == {f @@ g @@ h : f \in Permutations({ann, bob}), g \in Permutations({c1, c2}),
                        h \in Permutations({net, gross})}
=============================================================================
