----------------------------- MODULE MCJournal ------------------------------
(* Instances of Journal for TLC. *)
EXTENDS SoloHistory, TLC

CONSTANTS m1, m2, n1, n2, e1, e2, g1, g2, t1, alice, bob, carol, server

OneMap       == {m1}
TwoMaps      == {m1, m2}
TwoNodes     == {n1, n2}
OneEdge      == {e1}
TwoEdges     == {e1, e2}
OneGroup     == {g1}
TwoGroups    == {g1, g2}
OneTitle     == {t1}
TwoPositions == {0, 1}
OneStep      == {1}
OneProcess   == {server}
NoProcess    == {}
OneActor     == {alice}
TwoActors    == {alice, bob}
ThreeActors  == {alice, bob, carol}

\* Types that are linked one way.
TwoTypes == {"question", "idea"}

\* Identifiers and actors are interchangeable where Init names none of them.
LinkSymmetry  ==
    Permutations(TwoActors) \cup Permutations(TwoNodes) \cup Permutations(TwoEdges)

\* A database that was filled before the actors came: a question and an idea
\* that responds to it on one map.  They are in a group, and the question has
\* a position, where the instance has groups and positions.
Seeded ==
    LET in == IF g1 \in Group THEN g1 ELSE Nil
        at == IF 0 \in Position THEN 0 ELSE Nil
    IN /\ maps = InitMaps
       /\ nodes = (n1 :> [type |-> "question", title |-> t1, tags |-> {}])
                  @@ (n2 :> [type |-> "idea", title |-> t1, tags |-> {}])
       /\ places = (<<m1, n1>> :> [pos |-> at, group |-> in])
                   @@ (<<m1, n2>> :> [pos |-> Nil, group |-> in])
       /\ edges = {[id |-> e1, map |-> m1, source |-> n2, target |-> n1,
                    rel |-> "responds_to"]}
       /\ groups = [g \in {g1} \cap Group |-> [map |-> m1, title |-> t1]]
       /\ log = Empty /\ issued = 0
       /\ read = [p \in Process |-> Nil]

\* What a node can be hung off, and how; nothing, in one way only.
Attachments ==
    [parent : Node, dir : {"from", "to"}, rel : AskedRelationship]
        \cup {[parent |-> Nil, dir |-> "from", rel |-> NoRelationship]}

LinkChange(a) ==
    \/ MapDeleted(a, m1) \/ MapCreated(m1)
    \/ \E n \in Node, ty \in Type, e \in Edge, as \in Attachments :
          NodeCreated(a, as @@ [map |-> m1, type |-> ty, title |-> t1, tags |-> {},
                                pos |-> Nil], n, e)
    \/ \E n \in Node, ty \in Type, ti \in Title :
          n \in DOMAIN nodes /\ NodeUpdated(a, n, nodes[n], ty, ti, {})
    \/ \E n \in Node : NodeDeleted(a, n) \/ NodeRemoved(a, m1, n)
    \/ \E n \in Node, e \in Edge, as \in {x \in Attachments : x.dir = "from"} :
          NodeTranscluded(a, [map |-> m1, node |-> n, pos |-> Nil,
                              parent |-> as.parent, rel |-> as.rel], e)
    \/ \E s, t \in Node, r \in AskedRelationship, e \in Edge :
          EdgeCreated(a, m1, s, t, r, e)
    \/ \E e \in Edge : EdgeDeleted(a, e)

\* Alice and Bob change, link and undo on the first map, without groups; or
\* Carol changes everything there is, now and then while one of them edits a
\* node, and what undoing each of these would do is asked of it, not done.
Meanwhile ==
    \/ /\ groups = Empty /\ maps \subseteq OneMap
       /\ \A i \in DOMAIN log : log[i].actor # carol
       /\ \E a \in TwoActors :
             LinkChange(a) \/ \E m \in {m1, Nil} : Undo(a, m) \/ Redo(a, m)
       /\ UNCHANGED read
    \/ /\ \A i \in DOMAIN log : log[i].actor = carol
       /\ issued < 2
       /\ \/ Change(carol) /\ UNCHANGED read
          \/ EditRead \/ EditRefused \/ \E a \in TwoActors : EditWritten(a)

Start == Init \/ Seeded

SpecBoth == Start /\ [][Meanwhile]_vars

\* One actor, and the changes that implement History.
SpecSolo == Seeded /\ [][SoloNext /\ UNCHANGED read]_vars
=============================================================================
