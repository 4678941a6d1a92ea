------------------------------ MODULE MCIngest ------------------------------
EXTENDS Ingest

CONSTANTS n1, n2, loose, several, crashing, star, slow, unregistered

(* The unnumbered node may shift what is on the third page.                  *)
ThreePages == <<n1, loose, n2>>

FlawsOfTexts == several :> {"syntax", "multi_insert"} @@ crashing :> {"internal"}
                  @@ star :> {"star", "disagree"} @@ slow :> {"slow"}
                  @@ unregistered :> {"unregistered"}

(* n1 may crash the parser in the collection's loop before n2 is reached.   *)
TextsByNode == n1 :> {crashing, star} @@ n2 :> {several, unregistered} @@ loose :> {slow}
=============================================================================
