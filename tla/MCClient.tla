------------------------------ MODULE MCClient ------------------------------
(* An instance of Client: two maps, a question and an idea that answers it, *)
(* the idea shared with the other map, and room for one more of each.       *)
EXTENDS Client

CONSTANTS m1, m2, m3, n1, n2, n3, e1, e2, g1, g2, t1, t2, tag

Maps == {m1, m2, m3}
SomeTypes == {"question", "idea"}
Places == {0, 1}
Steps == {1}
Spares == {n3}
SpareLinks == {e2}

\* One of each kind at least, on the open map, on the other and on both.
SomeAsides ==
    {CreateNodeCall(m1, "idea", n1, Nil), CreateNodeCall(m1, "question", Nil, 0),
     CreateNodeCall(m2, "idea", Nil, 0),
     UpdateCall(n1, Keep, t2, Keep), UpdateCall(n2, Keep, t2, Keep),
     UpdateCall(n2, "question", Keep, Keep), BulkCall({n2}, {tag}),
     MoveCall(m1, n1, 1), MoveCall(m2, n2, 1),
     InsertCall(m2, n1, n2, 0), InsertCall(m2, n1, Nil, 0), RemoveCall(m1, n2), RemoveCall(m2, n2),
     DeleteCall(n1), DeleteCall(n2), LinkCall(m1, n1, n2), UnlinkCall(e1),
     GroupCall(m1, g2, {n1, n2}), RenameCall(g1, t2), DragCall(m1, g1, 1),
     MembersCall(m1, g1, {n1}), MembersCall(m1, g1, {}), UngroupCall(g1),
     CreateMapCall(m3), DeleteMapCall(m1), DeleteMapCall(m2)}
SomeReverts == {DeleteCall(n2), CreateNodeCall(m1, "idea", n1, Nil),
                UpdateCall(n1, Keep, t2, Keep), RemoveCall(m1, n2), CreateMapCall(m3)}
SomeAway == {DeleteCall(n1), CreateNodeCall(m1, "idea", n1, Nil),
             UpdateCall(n2, "question", Keep, Keep), MoveCall(m1, n1, 1), DeleteMapCall(m2)}

Argument ==
    [maps   |-> {m1, m2},
     nodes  |-> (n1 :> [type |-> "question", title |-> t1, tags |-> {}])
             @@ (n2 :> [type |-> "idea", title |-> t1, tags |-> {}]),
     places |-> (<<m1, n1>> :> [pos |-> 0, group |-> g1])
             @@ (<<m1, n2>> :> [pos |-> 0, group |-> g1])
             @@ (<<m2, n2>> :> [pos |-> 0, group |-> Nil]),
     edges  |-> {[id |-> e1, map |-> m1, source |-> n2, target |-> n1,
                  rel |-> "responds_to"]},
     groups |-> g1 :> [map |-> m1, title |-> t1]]
=============================================================================
