----------------------------- MODULE MCDesktop -----------------------------
(* Two maps that share a node, one peer, and one node that is not yet made. *)
EXTENDS Desktop

CONSTANTS m1, m2, n1, n2, n3, n4, p1, any, one

Types     == (n1 :> "question") @@ [n \in Node |-> "idea"]
Answers   == (n1 :> n2) @@ [n \in Node |-> Nil]
Groups    == (m1 :> {n1, n2}) @@ (m2 :> {})
Placed    == {<<m1, n1>>, <<m1, n2>>, <<m2, n2>>, <<m2, n3>>}
Finds     == [text \in Query |-> IF text = NoText THEN <<n1, n3>> ELSE <<n3>>]
=============================================================================
