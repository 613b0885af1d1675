-------------------------------- MODULE Ibis --------------------------------
(***************************************************************************)
(* The IBIS grammar of internal/ibis/rules.go: which relationships may     *)
(* connect which types of node, which of them form the argument tree, and  *)
(* which one a keystroke or a drag means.  Pure operators, no state.       *)
(***************************************************************************)
EXTENDS Naturals

NodeTypes == {"question", "idea", "pro", "con", "note", "map"}

Relationships == {"responds_to", "questions", "supports", "objects_to",
                  "relates_to", "specializes"}

\* What the code writes as the empty relationship: "infer it".
NoRelationship == ""

Rule(rel, sources, targets, hierarchical) ==
    [rel |-> rel, sources |-> sources, targets |-> targets,
     hierarchical |-> hierarchical]

Rules == {
    Rule("responds_to", {"idea", "map"}, {"question"}, TRUE),
    Rule("questions",   {"question"},    NodeTypes, TRUE),
    Rule("supports",    {"pro"},         {"idea", "pro", "con", "map"}, TRUE),
    Rule("objects_to",  {"con"},         {"idea", "pro", "con", "map"}, TRUE),
    Rule("relates_to",  {"note"},        NodeTypes, FALSE),
    Rule("relates_to",  NodeTypes,       {"note"}, FALSE),
    Rule("specializes", {"question"},    {"question"}, TRUE) }

\* ValidateEdge returned no error.
ValidateEdge(source, target, rel) ==
    \E r \in Rules : /\ r.rel = rel
                     /\ source \in r.sources
                     /\ target \in r.targets

\* The relationships that make up the argument tree, kept acyclic.
IsHierarchical(rel) ==
    \E r \in Rules : r.rel = rel /\ r.hierarchical

\* The order in which a relationship is inferred.
Preference == <<"supports", "objects_to", "responds_to", "questions",
                "specializes", "relates_to">>

\* The first legal relationship of a list, or none.
FirstLegal(source, target, candidates) ==
    LET legal == {i \in DOMAIN candidates :
                     ValidateEdge(source, target, candidates[i])}
    IN IF legal = {} THEN NoRelationship
       ELSE candidates[CHOOSE i \in legal : \A j \in legal : i <= j]

DefaultRelationship(source, target) == FirstLegal(source, target, Preference)

\* What a caller's relationship means: its own, or the inferred one.
Inferred(rel, source, target) ==
    IF rel = NoRelationship THEN DefaultRelationship(source, target) ELSE rel
=============================================================================
