------------------------------ MODULE MCViews ------------------------------
(***************************************************************************)
(* Views on small maps: every map of a question and three more cards with  *)
(* two or three edges, looked at as it stands; maps of three cards with    *)
(* their edges in every order and one gesture; a busier map, and one worth *)
(* filtering with more.                                                    *)
(***************************************************************************)
EXTENDS Views

MCIds == 1..5
MCText == <<<<"a", "b">>, <<"a", " ", "b">>, <<"b">>, <<"a">>, <<>>>>
MCTags == <<"t1", "t2", "t1", "t2", "t2">>
MCAlphabet == {"a", "b", " ", "\"", "?"}
MCSpots == {Pos(0, 0), Pos(300, 204)}
MCShifts == {Pos(-60, 204)}

\* When each card was last changed, and what became of it.
Updated == <<2, 4, 1, 2, 3>>
Status  == <<"open", "resolved", "open", "resolved", "open">>

Edge(s, t, r) == [source |-> s, target |-> t, rel |-> r]

GraphOf(ids, type, edges) ==
    [ids |-> ids, type |-> [n \in Range(ids) |-> type[n]], edges |-> edges,
     status  |-> [n \in Range(ids) |-> Status[n]],
     created |-> [n \in Range(ids) |-> n],
     updated |-> [n \in Range(ids) |-> Updated[n]]]

\* The server lets no two edges say the same, and no circle of hierarchical
\* ones come about.
Served(g) ==
    LET edges == Range(g.edges)
    IN /\ IsMap(g) /\ IsInjective(g.edges)
       /\ \A ring \in SUBSET Nodes(g) \ {{}} :
             \E n \in ring : \A e \in edges :
                e.source = n /\ e.target \in ring => ~IsHierarchical(e.rel)

Legal(type) ==
    {Edge(a, b, r) : a, b \in DOMAIN type, r \in Relationships}
        \cap {e \in [source : DOMAIN type, target : DOMAIN type, rel : Relationships] :
                 e.source # e.target /\ ValidateEdge(type[e.source], type[e.target], e.rel)}

Kinds == {"question", "idea", "note"}

Nowhere(g) == [n \in Nodes(g) |-> Unplaced]

\* Four cards, one a question, with three edges in one order; three cards
\* with their edges in every order; and a debate with a note on it.
FourCards(g) ==
    \E type \in [2..4 -> Kinds] :
        LET types == (1 :> "question") @@ type
        IN \E edges \in kSubset(2, Legal(types)) \cup kSubset(3, Legal(types)) :
              g = GraphOf(<<1, 2, 3, 4>>, types, SetToSeq(edges))

ThreeCards(g) ==
    \E type \in {t \in [1..3 -> Kinds] : t[1] # "note" /\ t[2] # "question"} :
        \E edges \in BoundedSeq(Legal(type), 2) : g = GraphOf(<<3, 1, 2>>, type, edges)

Debate ==
    GraphOf(<<1, 2, 3, 4>>, <<"question", "idea", "question", "note">>,
            <<Edge(2, 1, "responds_to"), Edge(3, 2, "questions"), Edge(4, 3, "relates_to")>>)

\* Two answers, one of them argued about twice.
Busy ==
    GraphOf(<<1, 2, 3, 4, 5>>, <<"question", "idea", "idea", "pro", "con">>,
            <<Edge(2, 1, "responds_to"), Edge(3, 1, "responds_to"),
              Edge(4, 2, "supports"), Edge(5, 2, "objects_to")>>)

MCInit ==
    /\ mode \in {"auto", "freeform"}
    /\ dragging = {}
    /\ \/ /\ filter = NoFilter
          /\ FourCards(graph) /\ Served(graph) = TRUE /\ mode = "auto"
          /\ place = Nowhere(graph) /\ spent = Budget
       \/ /\ filter = NoFilter
          /\ ThreeCards(graph) /\ Served(graph) = TRUE /\ mode = "auto"
          /\ place = Nowhere(graph) /\ spent = Budget - 1
       \/ /\ filter = NoFilter
          /\ graph = Busy /\ place = Nowhere(graph) /\ spent = Budget - 1
       \/ /\ \/ filter = NoFilter /\ spent = 0
             \/ /\ \E typed \in BoundedSeq(Alphabet, 4) :
                      filter = [NoFilter EXCEPT !.query = typed]
                /\ spent = Budget - 1 /\ mode = "auto"
          /\ graph = Debate
          /\ place = <<Pos(0, 0), Pos(0, 204), Pos(40, 400), Unplaced>>

MCSpec == MCInit /\ [][Next]_vars
=============================================================================
