---------------------------- MODULE StoreProofs -----------------------------
(***************************************************************************)
(* Theorems about Store and Processes, for every set of maps, nodes, edges *)
(* and groups, and any number of edits under way.                          *)
(***************************************************************************)
EXTENDS Processes, FiniteSetTheorems, TLAPS

(* The inferred relationship, when there is one, is a legal one. *)
LEMMA DefaultIsLegal ==
    ASSUME NEW source, NEW target,
           DefaultRelationship(source, target) # NoRelationship
    PROVE  /\ ValidateEdge(source, target, DefaultRelationship(source, target))
           /\ DefaultRelationship(source, target) \in Relationships
<1> DEFINE legal == {i \in DOMAIN Preference : ValidateEdge(source, target, Preference[i])}
<1>1. legal \subseteq 1..6
    BY DEF Preference
<1>2. legal # {}
    BY DEF DefaultRelationship, FirstLegal
<1>3. \E i \in legal : \A j \in legal : i <= j
    BY <1>1, <1>2
<1>4. PICK k \in legal : DefaultRelationship(source, target) = Preference[k]
    BY <1>2, <1>3 DEF DefaultRelationship, FirstLegal
<1>5. ValidateEdge(source, target, DefaultRelationship(source, target))
    BY <1>4
<1>. QED
    BY <1>5 DEF ValidateEdge, Rules, Rule, Relationships

(* What the grammar allows is one of its relationships. *)
LEMMA LegalIsRelationship ==
    ASSUME NEW source, NEW target, NEW rel, ValidateEdge(source, target, rel)
    PROVE  rel \in Relationships
BY DEF ValidateEdge, Rules, Rule, Relationships

-----------------------------------------------------------------------------
(* Types. *)

(* An edge that was checked is a row of the table. *)
LEMMA NewEdgeType ==
    ASSUME NEW e \in Edge, NEW m \in Map, NEW s \in Node, NEW t \in Node,
           NEW r \in AskedRelationship, NEW type,
           Legal(NewEdge(e, m, s, t, r, type), type)
    PROVE  NewEdge(e, m, s, t, r, type) \in EdgeRow
BY LegalIsRelationship DEF Legal, NewEdge, EdgeRow

-----------------------------------------------------------------------------
(* What changes the tables: an operation of Store, or an edit written over   *)
(* whatever row it read.                                                     *)

AnyEdit ==
    \E n \in Node, row \in NodeRow, ty \in Type, ti \in Title, tg \in SUBSET Tag :
       ApplyEdit(n, row, ty, ti, tg)
TableStep == NextTables \/ AnyEdit

(* An edit nobody comes between has read the row that is there. *)
LEMMA UpdateIsEdit ==
    ASSUME TypeOK, NEW n \in Node, NEW ty \in Type, NEW ti \in Title,
           NEW tg \in SUBSET Tag, UpdateNode(n, ty, ti, tg)
    PROVE  AnyEdit
<1>1. nodes[n] \in NodeRow
    BY DEF UpdateNode, TypeOK
<1>. QED
    BY <1>1 DEF UpdateNode, AnyEdit

(* Every step of the shared tables is one of these, or only reads. *)
LEMMA SharedIsTableStep ==
    ASSUME SharedTypeOK, [NextShared]_<<tables, read>>
    PROVE  [TableStep]_tables
<1>1. ASSUME NEW p \in Process, NEW ty \in Type, NEW ti \in Title,
             NEW tg \in SUBSET Tag, WriteNode(p, ty, ti, tg)
      PROVE  AnyEdit
  <2>1. read[p] \in ReadRow
    BY <1>1 DEF SharedTypeOK, WriteNode, Done
  <2>2. read[p].node \in Node /\ read[p].row \in NodeRow
    BY <2>1 DEF ReadRow
  <2>. QED
    BY <1>1, <2>2 DEF WriteNode, AnyEdit
<1>. QED
    BY <1>1 DEF NextShared, EditStep, TableStep

LEMMA InitTypeOK == InitTables => TypeOK
BY InitMapsAssumption DEF InitTables, TypeOK, Empty

LEMMA TypeOKStep == TypeOK /\ [TableStep]_tables => TypeOK'
<1>. SUFFICES ASSUME TypeOK, [TableStep]_tables PROVE TypeOK'
    OBVIOUS
<1>. USE DEF TypeOK, NodeRow, PlaceRow, GroupRow, Put, Restrict
<1>1. ASSUME NEW m \in Map, CreateMap(m) PROVE TypeOK'
    BY <1>1 DEF CreateMap
<1>2. ASSUME NEW m \in Map, DeleteMap(m) PROVE TypeOK'
  <2>. DEFINE left == WithoutMap(places, m)
  <2>1. left \in [DOMAIN left -> PlaceRow] /\ DOMAIN left \subseteq Map \X Node
    BY DEF WithoutMap
  <2>2. places' \in [DOMAIN places' -> PlaceRow] /\ DOMAIN places' \subseteq Map \X Node
    <3>. HIDE DEF left
    <3>. QED
      BY <1>2, <2>1 DEF DeleteMap, Ungrouped, left
  <2>3. groups' \in [DOMAIN groups' -> GroupRow] /\ DOMAIN groups' \subseteq Group
    BY <1>2 DEF DeleteMap
  <2>. QED
    BY <1>2, <2>2, <2>3 DEF DeleteMap
<1>3. ASSUME NEW in \in NewNodeInput, NEW n \in Node, NEW e \in Edge,
             CreateNode(in, n, e)
      PROVE  TypeOK'
  <2>. USE DEF NewNodeInput
  <2>1. nodes' \in [DOMAIN nodes' -> NodeRow] /\ DOMAIN nodes' \subseteq Node
    BY <1>3, TypeAssumption DEF CreateNode
  <2>2. places' \in [DOMAIN places' -> PlaceRow] /\ DOMAIN places' \subseteq Map \X Node
    BY <1>3 DEF CreateNode
  <2>3. edges' \subseteq EdgeRow
    <3>1. CASE in.parent = Nil
      BY <1>3, <3>1, NilAssumption DEF CreateNode
    <3>2. CASE in.parent # Nil
      <4>1. PICK s \in Node, t \in Node :
               LET link == NewEdge(e, in.map, s, t, in.rel, TypeOf')
               IN edges' = edges \cup {link} /\ Legal(link, TypeOf')
        BY <1>3, <3>2 DEF CreateNode, CanLink
      <4>. QED
        BY <4>1, NewEdgeType
    <3>. QED
      BY <3>1, <3>2
  <2>. QED
    BY <1>3, <2>1, <2>2, <2>3 DEF CreateNode
<1>4. ASSUME NEW n \in Node, NEW row \in NodeRow, NEW ty \in Type, NEW ti \in Title,
             NEW tg \in SUBSET Tag, ApplyEdit(n, row, ty, ti, tg)
      PROVE  TypeOK'
  <2>1. nodes' \in [DOMAIN nodes' -> NodeRow] /\ DOMAIN nodes' \subseteq Node
    BY <1>4, TypeAssumption DEF ApplyEdit
  <2>2. edges' \subseteq EdgeRow
    <3>1. CASE UNCHANGED edges
      BY <3>1
    <3>2. CASE ~UNCHANGED edges
      <4>. DEFINE moved == Relabelled(edges, TypeOf', n)
      <4>1. PICK new \in SUBSET {Relabel(e, TypeOf') : e \in moved} :
               /\ RetypeInto(edges, TypeOf', n, new)
               /\ edges' = (edges \ moved) \cup new
        BY <1>4, <3>2 DEF ApplyEdit
      <4>2. \A f \in new : f.rel # NoRelationship
        BY <4>1 DEF RetypeInto
      <4>3. ASSUME NEW f \in new PROVE f \in EdgeRow
        <5>1. PICK e \in edges : f = Relabel(e, TypeOf')
          BY <4>1 DEF Relabelled
        <5>2. DefaultRelationship(TypeOf'[e.source], TypeOf'[e.target])
                 \in Relationships \cup {NoRelationship}
          BY DefaultIsLegal, LegalIsRelationship
        <5>. QED
          BY <4>2, <5>1, <5>2 DEF Relabel, EdgeRow
      <4>. QED
        BY <4>1, <4>3
    <3>. QED
      BY <3>1, <3>2
  <2>. QED
    BY <1>4, <2>1, <2>2 DEF ApplyEdit
<1>5. ASSUME NEW ns \in SUBSET Node, NEW add \in SUBSET Tag, NEW remove \in SUBSET Tag,
             BulkUpdateNodes(ns, add, remove)
      PROVE  TypeOK'
    BY <1>5 DEF BulkUpdateNodes
<1>6. ASSUME NEW m \in Map, NEW n \in Node, NEW pos \in Position \cup {Keep},
             NEW g \in Group \cup {Nil, Keep}, SetPlacement(m, n, pos, g)
      PROVE  TypeOK'
  <2>. DEFINE p == <<m, n>>
              row == [pos |-> IF pos = Keep THEN places[p].pos ELSE pos,
                      group |-> IF g = Keep THEN places[p].group ELSE g]
  <2>1. p \in DOMAIN places /\ row \in PlaceRow
    BY <1>6, NilAssumption DEF SetPlacement, Placed
  <2>2. places' = [places EXCEPT ![p] = row]
    BY <1>6, <2>1 DEF SetPlacement
  <2>. QED
    BY <1>6, <2>1, <2>2 DEF SetPlacement
<1>7. ASSUME NEW in \in TranscludeInput, NEW e \in Edge, Transclude(in, e)
      PROVE  TypeOK'
  <2>. USE DEF TranscludeInput
  <2>1. places' \in [DOMAIN places' -> PlaceRow] /\ DOMAIN places' \subseteq Map \X Node
    BY <1>7 DEF Transclude
  <2>2. edges' \subseteq EdgeRow
    <3>1. CASE in.parent = Nil
      BY <1>7, <3>1, NilAssumption DEF Transclude
    <3>2. CASE in.parent # Nil
      BY <1>7, <3>2, NewEdgeType DEF Transclude, CanLink
    <3>. QED
      BY <3>1, <3>2
  <2>. QED
    BY <1>7, <2>1, <2>2 DEF Transclude
<1>8. ASSUME NEW m \in Map, NEW n \in Node, RemoveFromMap(m, n) PROVE TypeOK'
    BY <1>8 DEF RemoveFromMap
<1>9. ASSUME NEW n \in Node, DeleteNode(n) PROVE TypeOK'
    BY <1>9 DEF DeleteNode, WithoutNode
<1>10. ASSUME NEW m \in Map, NEW s \in Node, NEW t \in Node,
              NEW r \in AskedRelationship, NEW e \in Edge, CreateEdge(m, s, t, r, e)
       PROVE  TypeOK'
    BY <1>10, NewEdgeType DEF CreateEdge, CanLink
<1>11. ASSUME NEW e \in Edge, DeleteEdge(e) PROVE TypeOK'
    BY <1>11 DEF DeleteEdge
<1>12. ASSUME NEW m \in Map, NEW g \in Group, NEW ti \in Title, NEW ns \in SUBSET Node,
              CreateGroup(m, g, ti, ns)
       PROVE  TypeOK'
    BY <1>12 DEF CreateGroup
<1>13. ASSUME NEW g \in Group, NEW ti \in Title, UpdateGroup(g, ti) PROVE TypeOK'
    BY <1>13 DEF UpdateGroup
<1>14. ASSUME NEW m \in Map, NEW g \in Group, NEW d \in Offset, MoveGroup(m, g, d)
       PROVE  TypeOK'
  <2>1. DOMAIN places' = DOMAIN places
    BY <1>14 DEF MoveGroup
  <2>2. ASSUME NEW p \in DOMAIN places PROVE places'[p] \in PlaceRow
    <3>1. places'[p].pos \in Position \cup {Nil}
      BY <1>14 DEF MoveGroup
    <3>2. \/ places'[p] = places[p]
          \/ places'[p] = [pos |-> places[p].pos + d, group |-> places[p].group]
      BY <1>14, <2>2 DEF MoveGroup
    <3>. QED
      BY <2>2, <3>1, <3>2
  <2>. QED
    BY <1>14, <2>1, <2>2 DEF MoveGroup
<1>15. ASSUME NEW m \in Map, NEW g \in Group, NEW ns \in SUBSET Node,
              SetGroupMembers(m, g, ns)
       PROVE  TypeOK'
    BY <1>15 DEF SetGroupMembers, Ungrouped
<1>16. ASSUME NEW g \in Group, DeleteGroup(g) PROVE TypeOK'
    BY <1>16 DEF DeleteGroup, Ungrouped
<1>17. CASE UNCHANGED tables
    BY <1>17 DEF tables
<1>. HIDE DEF TypeOK, NodeRow, PlaceRow, GroupRow, Put, Restrict
<1>23. CASE AnyEdit
    BY <1>4, <1>23 DEF AnyEdit
<1>18. CASE MapStep
    BY <1>18, <1>1, <1>2 DEF MapStep
<1>19. CASE NodeStep
    BY <1>19, <1>3, <1>5, <1>9, <1>23, UpdateIsEdit DEF NodeStep
<1>20. CASE PlaceStep
    BY <1>20, <1>6, <1>7, <1>8 DEF PlaceStep
<1>21. CASE EdgeStep
    BY <1>21, <1>10, <1>11 DEF EdgeStep
<1>22. CASE GroupStep
    BY <1>22, <1>12, <1>13, <1>14, <1>15, <1>16 DEF GroupStep
<1>. QED
    BY <1>17, <1>18, <1>19, <1>20, <1>21, <1>22, <1>23 DEF TableStep, NextTables

LEMMA SharedTypeStep ==
    ASSUME SharedTypeOK, [NextShared]_<<tables, read>>
    PROVE  SharedTypeOK'
<1>1. TypeOK'
    BY SharedIsTableStep, TypeOKStep DEF SharedTypeOK
<1>2. ASSUME NEW p \in Process, NEW n \in Node, ReadNode(p, n)
      PROVE  read' \in [Process -> ReadRow \cup {Nil}]
  <2>1. nodes[n] \in NodeRow
    BY <1>2 DEF ReadNode, SharedTypeOK, TypeOK
  <2>2. [node |-> n, row |-> nodes[n]] \in ReadRow
    BY <2>1 DEF ReadRow
  <2>. QED
    BY <1>2, <2>2 DEF ReadNode, SharedTypeOK
<1>3. ASSUME NEW p \in Process, Done(p)
      PROVE  read' \in [Process -> ReadRow \cup {Nil}]
    BY <1>3 DEF Done, SharedTypeOK
<1>4. ASSUME read' = read PROVE read' \in [Process -> ReadRow \cup {Nil}]
    BY <1>4 DEF SharedTypeOK
<1>. QED
  <2>1. \/ read' = read
        \/ (\E p \in Process, n \in Node : ReadNode(p, n))
        \/ (\E p \in Process : Done(p))
      BY DEF NextShared, EditStep, WriteNode
  <2>2. read' \in [Process -> ReadRow \cup {Nil}]
      BY <2>1, <1>2, <1>3, <1>4
  <2>. QED
      BY <1>1, <2>2 DEF SharedTypeOK

(* The tables only ever hold what their columns allow, and an edit only ever *)
(* carries a row the table could hold.                                       *)
THEOREM TypeCorrect == SpecShared => []SharedTypeOK
<1>1. InitShared => SharedTypeOK
    BY InitTypeOK DEF InitShared, SharedTypeOK
<1>. QED
    BY <1>1, SharedTypeStep, PTL DEF SpecShared

-----------------------------------------------------------------------------
(* Referential integrity. *)

Integrity == ForeignKeys /\ EndpointsPlaced

(* A retype relabels edges and drops some; it moves none. *)
LEMMA UpdateKeepsEnds ==
    ASSUME TypeOK, NEW n \in Node, NEW row, NEW ty, NEW ti, NEW tg,
           ApplyEdit(n, row, ty, ti, tg)
    PROVE  \A f \in edges' : \E e \in edges :
              /\ e.id = f.id
              /\ e.map = f.map
              /\ e.source = f.source
              /\ e.target = f.target
<1>1. \A e \in edges :
         LET f == Relabel(e, TypeOf')
         IN f.id = e.id /\ f.map = e.map /\ f.source = e.source /\ f.target = e.target
    BY DEF TypeOK, EdgeRow, Relabel
<1>. QED
    BY <1>1 DEF ApplyEdit, RetypeInto, Relabelled

LEMMA IntegrityStep == TypeOK /\ Integrity /\ [TableStep]_tables => Integrity'
<1>. SUFFICES ASSUME TypeOK, Integrity, [TableStep]_tables PROVE Integrity'
    OBVIOUS
<1>. USE DEF Integrity, ForeignKeys, PlacesRefer, EdgesRefer, GroupsRefer,
           EndpointsPlaced, Placed, Put, Restrict
<1>1. ASSUME NEW m \in Map, CreateMap(m) PROVE Integrity'
    BY <1>1 DEF CreateMap
<1>2. ASSUME NEW m \in Map, DeleteMap(m) PROVE Integrity'
  <2>1. DOMAIN places' = {p \in DOMAIN places : p[1] # m}
    BY <1>2 DEF DeleteMap, WithoutMap, Ungrouped
  <2>2. ASSUME NEW p \in DOMAIN places'
        PROVE  places'[p].group \in DOMAIN groups' \cup {Nil}
    <3>1. CASE places[p].group \in GroupsOf(m)
      BY <1>2, <2>1, <2>2, <3>1 DEF DeleteMap, WithoutMap, Ungrouped, TypeOK, PlaceRow
    <3>2. CASE places[p].group \notin GroupsOf(m)
      BY <1>2, <2>1, <2>2, <3>2 DEF DeleteMap, WithoutMap, Ungrouped
    <3>. QED
      BY <3>1, <3>2
  <2>3. \A p \in DOMAIN places' : p[1] \in maps' /\ p[2] \in DOMAIN nodes'
    BY <1>2, <2>1 DEF DeleteMap
  <2>4. \A g \in DOMAIN groups' : groups'[g].map \in maps'
    BY <1>2 DEF DeleteMap, GroupsOf
  <2>5. \A e \in edges' : /\ e.map \in maps'
                          /\ {e.source, e.target} \subseteq DOMAIN nodes'
                          /\ <<e.map, e.source>> \in DOMAIN places'
                          /\ <<e.map, e.target>> \in DOMAIN places'
    BY <1>2, <2>1 DEF DeleteMap
  <2>. QED
    BY <2>2, <2>3, <2>4, <2>5
<1>3. ASSUME NEW in \in NewNodeInput, NEW n \in Node, NEW e \in Edge,
            CreateNode(in, n, e)
      PROVE  Integrity'
  <2>1. PlacesRefer'
    BY <1>3 DEF CreateNode, NewNodeInput
  <2>2. \A f \in edges' : \/ f \in edges
                          \/ Placed(places', f.map, f.source) /\ Placed(places', f.map, f.target)
    BY <1>3 DEF CreateNode, CanLink
  <2>3. DOMAIN places \subseteq DOMAIN places'
    BY <1>3 DEF CreateNode
  <2>4. EndpointsPlaced'
    BY <2>2, <2>3
  <2>5. EdgesRefer'
    BY <2>1, <2>4
  <2>. QED
    BY <1>3, <2>1, <2>4, <2>5 DEF CreateNode
<1>4. ASSUME NEW n \in Node, NEW row \in NodeRow, NEW ty \in Type, NEW ti \in Title,
             NEW tg \in SUBSET Tag, ApplyEdit(n, row, ty, ti, tg)
      PROVE  Integrity'
  <2>1. \A f \in edges' : \E e \in edges :
           e.map = f.map /\ e.source = f.source /\ e.target = f.target
    BY <1>4, UpdateKeepsEnds
  <2>. QED
    BY <1>4, <2>1 DEF ApplyEdit
<1>5. ASSUME NEW ns \in SUBSET Node, NEW add \in SUBSET Tag, NEW remove \in SUBSET Tag,
            BulkUpdateNodes(ns, add, remove)
      PROVE  Integrity'
    BY <1>5 DEF BulkUpdateNodes
<1>6. ASSUME NEW m \in Map, NEW n \in Node, NEW pos \in Position \cup {Keep},
             NEW g \in Group \cup {Nil, Keep},
            SetPlacement(m, n, pos, g)
      PROVE  Integrity'
    BY <1>6 DEF SetPlacement
<1>7. ASSUME NEW in \in TranscludeInput, NEW e \in Edge,
            Transclude(in, e)
      PROVE  Integrity'
  <2>1. PlacesRefer'
    BY <1>7 DEF Transclude, TranscludeInput
  <2>2. \A f \in edges' : \/ f \in edges
                          \/ Placed(places', f.map, f.source) /\ Placed(places', f.map, f.target)
    BY <1>7 DEF Transclude, CanLink
  <2>3. DOMAIN places \subseteq DOMAIN places'
    BY <1>7 DEF Transclude
  <2>4. EndpointsPlaced'
    BY <2>2, <2>3
  <2>5. EdgesRefer'
    BY <2>1, <2>4
  <2>. QED
    BY <1>7, <2>1, <2>4, <2>5 DEF Transclude
<1>8. ASSUME NEW m \in Map, NEW n \in Node, RemoveFromMap(m, n) PROVE Integrity'
    BY <1>8 DEF RemoveFromMap, Touches
<1>9. ASSUME NEW n \in Node, DeleteNode(n) PROVE Integrity'
    BY <1>9 DEF DeleteNode, WithoutNode, Touches, TypeOK, EdgeRow
<1>10. ASSUME NEW m \in Map, NEW s \in Node, NEW t \in Node,
              NEW r \in AskedRelationship, NEW e \in Edge,
             CreateEdge(m, s, t, r, e)
       PROVE  Integrity'
  <2>1. \A f \in edges' : \/ f \in edges
                          \/ Placed(places, f.map, f.source) /\ Placed(places, f.map, f.target)
    BY <1>10 DEF CreateEdge, CanLink
  <2>. QED
    BY <1>10, <2>1 DEF CreateEdge
<1>11. ASSUME NEW e \in Edge, DeleteEdge(e) PROVE Integrity'
    BY <1>11 DEF DeleteEdge
<1>12. ASSUME NEW m \in Map, NEW g \in Group, NEW ti \in Title, NEW ns \in SUBSET Node,
             CreateGroup(m, g, ti, ns)
       PROVE  Integrity'
  <2>1. ns # {}
    <3>. SUFFICES ASSUME ns = {} PROVE FALSE
      OBVIOUS
    <3>1. Cardinality(ns) = 0
      BY FS_EmptySet, Zenon
    <3>2. Cardinality(ns) >= 2
      BY <1>12 DEF CreateGroup
    <3>. QED
      BY <3>1, <3>2, SMT
  <2>2. m \in maps
    BY <1>12, <2>1 DEF CreateGroup
  <2>3. GroupsRefer'
    BY <1>12, <2>2 DEF CreateGroup
  <2>4. PlacesRefer'
    BY <1>12 DEF CreateGroup, TypeOK, PlaceRow
  <2>. QED
    BY <1>12, <2>3, <2>4 DEF CreateGroup
<1>13. ASSUME NEW g \in Group, NEW ti \in Title,
             UpdateGroup(g, ti)
       PROVE  Integrity'
    BY <1>13 DEF UpdateGroup
<1>14. ASSUME NEW m \in Map, NEW g \in Group, NEW d \in Offset,
             MoveGroup(m, g, d)
       PROVE  Integrity'
    BY <1>14 DEF MoveGroup
<1>15. ASSUME NEW m \in Map, NEW g \in Group, NEW ns \in SUBSET Node,
             SetGroupMembers(m, g, ns)
       PROVE  Integrity'
    BY <1>15 DEF SetGroupMembers, Ungrouped, TypeOK, PlaceRow, Members
<1>16. ASSUME NEW g \in Group, DeleteGroup(g) PROVE Integrity'
    BY <1>16 DEF DeleteGroup, Ungrouped, TypeOK, PlaceRow
<1>17. CASE UNCHANGED tables
    BY <1>17 DEF tables
<1>. HIDE DEF Integrity, ForeignKeys, PlacesRefer, EdgesRefer, GroupsRefer,
           EndpointsPlaced, Placed, Put, Restrict
<1>23. CASE AnyEdit
    BY <1>4, <1>23 DEF AnyEdit
<1>18. CASE MapStep
    BY <1>18, <1>1, <1>2 DEF MapStep
<1>19. CASE NodeStep
    BY <1>19, <1>3, <1>5, <1>9, <1>23, UpdateIsEdit DEF NodeStep
<1>20. CASE PlaceStep
    BY <1>20, <1>6, <1>7, <1>8 DEF PlaceStep
<1>21. CASE EdgeStep
    BY <1>21, <1>10, <1>11 DEF EdgeStep
<1>22. CASE GroupStep
    BY <1>22, <1>12, <1>13, <1>14, <1>15, <1>16 DEF GroupStep
<1>. QED
    BY <1>17, <1>18, <1>19, <1>20, <1>21, <1>22, <1>23 DEF TableStep, NextTables

LEMMA BothHold == SpecShared => []Integrity
<1>1. InitTables => Integrity
    BY DEF InitTables, Integrity, ForeignKeys, PlacesRefer, EdgesRefer,
           GroupsRefer, EndpointsPlaced, Empty
<1>2. SharedTypeOK /\ Integrity /\ [NextShared]_<<tables, read>> => Integrity'
    BY SharedIsTableStep, IntegrityStep DEF SharedTypeOK
<1>. QED
    BY <1>1, <1>2, TypeCorrect, PTL DEF SpecShared, InitShared

(* Whatever is deleted, no row is left that refers to a missing row. *)
THEOREM ReferentialIntegrity == SpecShared => []ForeignKeys
BY BothHold, PTL DEF Integrity

(* An edge joins two nodes placed on its map, though no foreign key says so: *)
(* taking a node off a map takes its edges there along.                      *)
THEOREM NoDanglingEdges == SpecShared => []EndpointsPlaced
BY BothHold, PTL DEF Integrity

-----------------------------------------------------------------------------
(* What the edges say. *)

LEMMA OneEdgeStep == TypeOK /\ OneEdgePerClaim /\ [TableStep]_tables => OneEdgePerClaim'
<1>. SUFFICES ASSUME TypeOK, OneEdgePerClaim, [TableStep]_tables
              PROVE  OneEdgePerClaim'
    OBVIOUS
<1>. USE DEF OneEdgePerClaim
<1>1. ASSUME NEW m \in Map, CreateMap(m) PROVE OneEdgePerClaim'
    BY <1>1 DEF CreateMap
<1>2. ASSUME NEW m \in Map, DeleteMap(m) PROVE OneEdgePerClaim'
    BY <1>2 DEF DeleteMap
<1>3. ASSUME NEW in \in NewNodeInput, NEW n \in Node, NEW e \in Edge,
            CreateNode(in, n, e)
      PROVE  OneEdgePerClaim'
    BY <1>3 DEF CreateNode, CanLink, EdgeIds, NewEdge
<1>4. ASSUME NEW n \in Node, NEW row \in NodeRow, NEW ty \in Type, NEW ti \in Title,
             NEW tg \in SUBSET Tag, ApplyEdit(n, row, ty, ti, tg)
      PROVE  OneEdgePerClaim'
  <2>1. CASE UNCHANGED edges
    BY <2>1 DEF Key
  <2>2. CASE edges' # edges
    <3>. DEFINE moved == Relabelled(edges, TypeOf', n)
    <3>1. PICK new \in SUBSET {Relabel(e, TypeOf') : e \in moved} :
             RetypeInto(edges, TypeOf', n, new) /\ edges' = (edges \ moved) \cup new
      BY <1>4, <2>2 DEF ApplyEdit
    <3>2. \A f \in new : \E e \in moved : f = Relabel(e, TypeOf') /\ f.id = e.id
      BY <3>1 DEF Relabel, TypeOK, EdgeRow, Relabelled
    <3>3. \A f, g \in new : f.id = g.id => f = g
      BY <3>2 DEF Relabelled
    <3>4. \A f \in new, g \in edges \ moved : f.id # g.id
      BY <3>2 DEF Relabelled
    <3>5. \A f \in new, g \in edges \ moved : Key(f) # Key(g)
      BY <3>1 DEF RetypeInto
    <3>6. \A f, g \in new : Key(f) = Key(g) => f = g
      BY <3>1 DEF RetypeInto
    <3>. QED
      BY <3>1, <3>3, <3>4, <3>5, <3>6
  <2>. QED
    BY <2>1, <2>2
<1>5. ASSUME NEW ns \in SUBSET Node, NEW add \in SUBSET Tag, NEW remove \in SUBSET Tag,
            BulkUpdateNodes(ns, add, remove)
      PROVE  OneEdgePerClaim'
    BY <1>5 DEF BulkUpdateNodes
<1>6. ASSUME NEW m \in Map, NEW n \in Node, NEW pos \in Position \cup {Keep},
             NEW g \in Group \cup {Nil, Keep},
            SetPlacement(m, n, pos, g)
      PROVE  OneEdgePerClaim'
    BY <1>6 DEF SetPlacement
<1>7. ASSUME NEW in \in TranscludeInput, NEW e \in Edge,
            Transclude(in, e)
      PROVE  OneEdgePerClaim'
    BY <1>7 DEF Transclude, CanLink, EdgeIds, NewEdge
<1>8. ASSUME NEW m \in Map, NEW n \in Node,
            RemoveFromMap(m, n)
      PROVE  OneEdgePerClaim'
    BY <1>8 DEF RemoveFromMap
<1>9. ASSUME NEW n \in Node, DeleteNode(n) PROVE OneEdgePerClaim'
    BY <1>9 DEF DeleteNode
<1>10. ASSUME NEW m \in Map, NEW s \in Node, NEW t \in Node,
              NEW r \in AskedRelationship, NEW e \in Edge,
             CreateEdge(m, s, t, r, e)
       PROVE  OneEdgePerClaim'
    BY <1>10 DEF CreateEdge, CanLink, EdgeIds, NewEdge
<1>11. ASSUME NEW e \in Edge, DeleteEdge(e) PROVE OneEdgePerClaim'
    BY <1>11 DEF DeleteEdge
<1>12. ASSUME NEW m \in Map, NEW g \in Group, NEW ti \in Title, NEW ns \in SUBSET Node,
             CreateGroup(m, g, ti, ns)
       PROVE  OneEdgePerClaim'
    BY <1>12 DEF CreateGroup
<1>13. ASSUME NEW g \in Group, NEW ti \in Title,
             UpdateGroup(g, ti)
       PROVE  OneEdgePerClaim'
    BY <1>13 DEF UpdateGroup
<1>14. ASSUME NEW m \in Map, NEW g \in Group, NEW d \in Offset,
             MoveGroup(m, g, d)
       PROVE  OneEdgePerClaim'
    BY <1>14 DEF MoveGroup
<1>15. ASSUME NEW m \in Map, NEW g \in Group, NEW ns \in SUBSET Node,
             SetGroupMembers(m, g, ns)
       PROVE  OneEdgePerClaim'
    BY <1>15 DEF SetGroupMembers
<1>16. ASSUME NEW g \in Group, DeleteGroup(g) PROVE OneEdgePerClaim'
    BY <1>16 DEF DeleteGroup
<1>17. CASE UNCHANGED tables
    BY <1>17 DEF tables
<1>. HIDE DEF OneEdgePerClaim
<1>23. CASE AnyEdit
    BY <1>4, <1>23 DEF AnyEdit
<1>18. CASE MapStep
    BY <1>18, <1>1, <1>2 DEF MapStep
<1>19. CASE NodeStep
    BY <1>19, <1>3, <1>5, <1>9, <1>23, UpdateIsEdit DEF NodeStep
<1>20. CASE PlaceStep
    BY <1>20, <1>6, <1>7, <1>8 DEF PlaceStep
<1>21. CASE EdgeStep
    BY <1>21, <1>10, <1>11 DEF EdgeStep
<1>22. CASE GroupStep
    BY <1>22, <1>12, <1>13, <1>14, <1>15, <1>16 DEF GroupStep
<1>. QED
    BY <1>17, <1>18, <1>19, <1>20, <1>21, <1>22, <1>23 DEF TableStep, NextTables

(* Neither an insertion nor a retype ever writes the same claim twice, so  *)
(* the unique index of edges rejects nothing the code let through.         *)
THEOREM ClaimsAreUnique == SpecShared => []OneEdgePerClaim
<1>1. InitTables => OneEdgePerClaim
    BY DEF InitTables, OneEdgePerClaim
<1>2. SharedTypeOK /\ OneEdgePerClaim /\ [NextShared]_<<tables, read>> => OneEdgePerClaim'
    BY SharedIsTableStep, OneEdgeStep DEF SharedTypeOK
<1>. QED
    BY <1>1, <1>2, TypeCorrect, PTL DEF SpecShared, InitShared

\* An edge that is legal now, or was illegal and has stayed as it was.
Keeps(f)   == Legal(f, TypeOf') \/ (f \in edges /\ ~Legal(f, TypeOf))
StaysLegal == \A f \in edges' : Keeps(f)

(* An edit leaves every edge legal but those of its node, when it names the *)
(* type it read and somebody has changed that since.                        *)
LEMMA EditKeepsLegal ==
    ASSUME TypeOK, Integrity, NEW n, NEW row, NEW ty, NEW ti, NEW tg,
           ApplyEdit(n, row, ty, ti, tg)
    PROVE  \A f \in edges' :
              \/ Keeps(f)
              \/ /\ Touches(f, n) /\ ty = row.type
                 /\ n \in DOMAIN nodes' /\ nodes'[n].type = ty /\ nodes[n].type # ty
<1>0. \A e \in edges : e.source \in DOMAIN nodes /\ e.target \in DOMAIN nodes
    BY DEF Integrity, ForeignKeys, EdgesRefer
<1>1. /\ DOMAIN nodes' = DOMAIN nodes
      /\ \A x \in DOMAIN nodes \ {n} : TypeOf'[x] = TypeOf[x]
    BY DEF ApplyEdit, TypeOf
<1>2. CASE ty = row.type
  <2>1. edges' = edges
    BY <1>2 DEF ApplyEdit
  <2>2. ASSUME NEW f \in edges, ~Touches(f, n) PROVE Keeps(f)
    BY <1>0, <1>1, <2>2 DEF Touches, Legal, Keeps
  <2>3. ASSUME NEW f \in edges, Touches(f, n), nodes[n].type = ty PROVE Keeps(f)
    <3>1. n \in DOMAIN nodes
      BY <1>0, <2>3 DEF Touches
    <3>2. nodes'[n].type = ty
      BY <3>1 DEF ApplyEdit
    <3>3. TypeOf'[n] = TypeOf[n]
      BY <1>1, <2>3, <3>1, <3>2 DEF TypeOf
    <3>4. TypeOf'[f.source] = TypeOf[f.source] /\ TypeOf'[f.target] = TypeOf[f.target]
      BY <1>0, <1>1, <3>3
    <3>. QED
      BY <3>4 DEF Legal, Keeps
  <2>4. ASSUME NEW f \in edges, Touches(f, n)
        PROVE  n \in DOMAIN nodes' /\ nodes'[n].type = ty
    <3>1. n \in DOMAIN nodes
      BY <1>0, <2>4 DEF Touches
    <3>. QED
      BY <1>1, <3>1 DEF ApplyEdit
  <2>. QED
    BY <1>2, <2>1, <2>2, <2>3, <2>4
<1>3. CASE ty # row.type
  <2>. DEFINE moved == Relabelled(edges, TypeOf', n)
  <2>1. PICK new \in SUBSET {Relabel(e, TypeOf') : e \in moved} :
           RetypeInto(edges, TypeOf', n, new) /\ edges' = (edges \ moved) \cup new
    BY <1>3 DEF ApplyEdit
  <2>2. ASSUME NEW f \in edges \ moved PROVE Keeps(f)
    <3>1. CASE Touches(f, n)
      BY <2>2, <3>1 DEF Relabelled, Keeps
    <3>2. CASE ~Touches(f, n)
      BY <1>0, <1>1, <2>2, <3>2 DEF Touches, Legal, Keeps
    <3>. QED
      BY <3>1, <3>2
  <2>3. ASSUME NEW f \in new PROVE Legal(f, TypeOf')
    <3>1. PICK e \in moved : f = Relabel(e, TypeOf')
      BY <2>1
    <3>2. f.rel # NoRelationship
      BY <2>1, <3>1 DEF RetypeInto
    <3>3. /\ f.source = e.source
          /\ f.target = e.target
          /\ f.rel = DefaultRelationship(TypeOf'[e.source], TypeOf'[e.target])
      BY <3>1 DEF Relabel, Relabelled, TypeOK, EdgeRow
    <3>. QED
      BY <3>2, <3>3, DefaultIsLegal DEF Legal
  <2>. QED
    BY <2>1, <2>2, <2>3 DEF Keeps
<1>. QED
    BY <1>2, <1>3

LEMMA OperationsStayLegal ==
    TypeOK /\ Integrity /\ [NextTables]_tables => StaysLegal
<1>. SUFFICES ASSUME TypeOK, Integrity, [NextTables]_tables
              PROVE  StaysLegal
    OBVIOUS
<1>. USE DEF StaysLegal, Keeps
<1>0. \A e \in edges : e.source \in DOMAIN nodes /\ e.target \in DOMAIN nodes
    BY DEF Integrity, ForeignKeys, EdgesRefer
<1>1. ASSUME NEW m \in Map, CreateMap(m) PROVE StaysLegal
    BY <1>1 DEF CreateMap, TypeOf
<1>2. ASSUME NEW m \in Map, DeleteMap(m) PROVE StaysLegal
    BY <1>2 DEF DeleteMap, TypeOf
<1>3. ASSUME NEW in \in NewNodeInput, NEW n \in Node, NEW e \in Edge,
            CreateNode(in, n, e)
      PROVE  StaysLegal
  <2>1. \A x \in DOMAIN nodes : TypeOf'[x] = TypeOf[x]
    BY <1>3 DEF CreateNode, TypeOf, Put
  <2>2. \A f \in edges' : f \in edges \/ Legal(f, TypeOf')
    BY <1>3 DEF CreateNode, CanLink
  <2>. QED
    BY <1>0, <2>1, <2>2 DEF Legal
<1>4. ASSUME NEW n \in Node, NEW ty \in Type, NEW ti \in Title,
             NEW tg \in SUBSET Tag, UpdateNode(n, ty, ti, tg)
      PROVE  StaysLegal
    BY <1>4, EditKeepsLegal DEF UpdateNode
<1>5. ASSUME NEW ns \in SUBSET Node, NEW add \in SUBSET Tag, NEW remove \in SUBSET Tag,
            BulkUpdateNodes(ns, add, remove)
      PROVE  StaysLegal
  <2>1. TypeOf' = TypeOf
    BY <1>5 DEF BulkUpdateNodes, TypeOf, TypeOK, NodeRow
  <2>. QED
    BY <1>5, <2>1 DEF BulkUpdateNodes
<1>6. ASSUME NEW m \in Map, NEW n \in Node, NEW pos \in Position \cup {Keep},
             NEW g \in Group \cup {Nil, Keep},
            SetPlacement(m, n, pos, g)
      PROVE  StaysLegal
    BY <1>6 DEF SetPlacement, TypeOf
<1>7. ASSUME NEW in \in TranscludeInput, NEW e \in Edge,
            Transclude(in, e)
      PROVE  StaysLegal
    BY <1>7 DEF Transclude, CanLink, TypeOf
<1>8. ASSUME NEW m \in Map, NEW n \in Node,
            RemoveFromMap(m, n)
      PROVE  StaysLegal
    BY <1>8 DEF RemoveFromMap, TypeOf
<1>9. ASSUME NEW n \in Node, DeleteNode(n) PROVE StaysLegal
  <2>1. \A x \in DOMAIN nodes \ {n} : TypeOf'[x] = TypeOf[x]
    BY <1>9 DEF DeleteNode, TypeOf, Restrict
  <2>2. \A f \in edges' : f \in edges /\ f.source # n /\ f.target # n
    BY <1>9 DEF DeleteNode, Touches
  <2>. QED
    BY <1>0, <2>1, <2>2 DEF Legal
<1>10. ASSUME NEW m \in Map, NEW s \in Node, NEW t \in Node,
              NEW r \in AskedRelationship, NEW e \in Edge,
             CreateEdge(m, s, t, r, e)
       PROVE  StaysLegal
    BY <1>10 DEF CreateEdge, CanLink, TypeOf
<1>11. ASSUME NEW e \in Edge, DeleteEdge(e) PROVE StaysLegal
    BY <1>11 DEF DeleteEdge, TypeOf
<1>12. ASSUME NEW m \in Map, NEW g \in Group, NEW ti \in Title, NEW ns \in SUBSET Node,
             CreateGroup(m, g, ti, ns)
       PROVE  StaysLegal
    BY <1>12 DEF CreateGroup, TypeOf
<1>13. ASSUME NEW g \in Group, NEW ti \in Title,
             UpdateGroup(g, ti)
       PROVE  StaysLegal
    BY <1>13 DEF UpdateGroup, TypeOf
<1>14. ASSUME NEW m \in Map, NEW g \in Group, NEW d \in Offset,
             MoveGroup(m, g, d)
       PROVE  StaysLegal
    BY <1>14 DEF MoveGroup, TypeOf
<1>15. ASSUME NEW m \in Map, NEW g \in Group, NEW ns \in SUBSET Node,
             SetGroupMembers(m, g, ns)
       PROVE  StaysLegal
    BY <1>15 DEF SetGroupMembers, TypeOf
<1>16. ASSUME NEW g \in Group, DeleteGroup(g) PROVE StaysLegal
    BY <1>16 DEF DeleteGroup, TypeOf
<1>17. CASE UNCHANGED tables
    BY <1>17 DEF tables, TypeOf, Legal
<1>. HIDE DEF StaysLegal, Keeps
<1>18. CASE MapStep
    BY <1>18, <1>1, <1>2 DEF MapStep
<1>19. CASE NodeStep
    BY <1>19, <1>3, <1>4, <1>5, <1>9 DEF NodeStep
<1>20. CASE PlaceStep
    BY <1>20, <1>6, <1>7, <1>8 DEF PlaceStep
<1>21. CASE EdgeStep
    BY <1>21, <1>10, <1>11 DEF EdgeStep
<1>22. CASE GroupStep
    BY <1>22, <1>12, <1>13, <1>14, <1>15, <1>16 DEF GroupStep
<1>. QED
    BY <1>17, <1>18, <1>19, <1>20, <1>21, <1>22 DEF NextTables

(* A map cannot decay into a mind map: whatever is created, retyped, moved  *)
(* between maps or deleted, and however many edits are under way, no step   *)
(* leaves an edge the grammar does not allow, but the write of an edit over *)
(* a type that another process has changed since it was read.               *)
THEOREM GrammarHolds == SpecShared => EdgesStayLegal
<1>. DEFINE Stay == \A e \in edges' :
                       \/ Legal(e, TypeOf')
                       \/ e \in edges /\ ~Legal(e, TypeOf)
                       \/ TakesTypeBack(e.source) \/ TakesTypeBack(e.target)
<1>1. SharedTypeOK /\ Integrity /\ [NextShared]_<<tables, read>> => [Stay]_<<tables, read>>
  <2>. SUFFICES ASSUME SharedTypeOK, Integrity, [NextShared]_<<tables, read>> PROVE Stay
    OBVIOUS
  <2>1. TypeOK
    BY DEF SharedTypeOK
  <2>2. CASE [NextTables]_tables
    BY <2>1, <2>2, OperationsStayLegal DEF StaysLegal, Keeps
  <2>3. ASSUME NEW p \in Process, NEW ty, NEW ti, NEW tg, WriteNode(p, ty, ti, tg)
        PROVE  Stay
    <3>. DEFINE n == read[p].node
                row == read[p].row
    <3>1. read[p] # Nil /\ read'[p] = Nil /\ ApplyEdit(n, row, ty, ti, tg)
      BY <2>3 DEF WriteNode, Done, SharedTypeOK
    <3>2. ASSUME NEW f \in edges', ~Keeps(f) PROVE Touches(f, n) /\ TakesTypeBack(n)
      <4>1. /\ Touches(f, n) /\ ty = row.type
            /\ n \in DOMAIN nodes' /\ nodes'[n].type = ty /\ nodes[n].type # ty
        BY <2>1, <3>1, <3>2, EditKeepsLegal
      <4>. QED
        BY <3>1, <4>1 DEF TakesTypeBack
    <3>. HIDE DEF n, row
    <3>. QED
      BY <3>2 DEF Touches, Keeps
  <2>. HIDE DEF Stay
  <2>. QED
    BY <2>2, <2>3 DEF NextShared, EditStep, tables
<1>. HIDE DEF Stay
<1>2. SpecShared => [][Stay]_<<tables, read>>
    BY <1>1, TypeCorrect, BothHold, PTL DEF SpecShared
<1>. QED
    BY <1>2 DEF Stay, EdgesStayLegal

-----------------------------------------------------------------------------
(* No node sits beneath itself.  A set of nodes separates an edge when it is *)
(* closed and holds the target and not the source; an edge is on no cycle    *)
(* when some set separates it.                                               *)

(* The edges of a map after a change, each of which either joins a pair that *)
(* was joined before, or touches one node n and passed the cycle check: if   *)
(* there was no cycle before there is none after.                            *)
Tree(es, m) ==
    \A e \in es : e.map = m /\ IsHierarchical(e.rel)
                  => ~Reaches(es, m, e.target, e.source)

JoinedIn(es, m, f) ==
    \E e \in es : /\ e.map = m
                  /\ IsHierarchical(e.rel)
                  /\ e.source = f.source
                  /\ e.target = f.target

Grown(es, after, m, n) ==
    \A f \in after :
       f.map = m /\ IsHierarchical(f.rel) =>
          /\ f.source \in Node /\ f.target \in Node
          /\ \/ JoinedIn(es, m, f)
             \/ /\ f.source = n \/ f.target = n
                /\ ~Reaches(after, m, f.target, f.source)

LEMMA StillATree ==
    ASSUME NEW es, NEW after, NEW m, NEW n \in Node,
           Tree(es, m), Grown(es, after, m, n)
    PROVE  Tree(after, m)
<1>0. SUFFICES ASSUME NEW f \in after, f.map = m, IsHierarchical(f.rel)
               PROVE  ~Reaches(after, m, f.target, f.source)
  BY DEF Tree
<1>. DEFINE a == f.source
            b == f.target
            P == {x \in Node : ~Reaches(after, m, x, n)}
            Q == {x \in Node : Reaches(after, m, n, x)}
            Link(g) == g.map = m /\ IsHierarchical(g.rel)
            Was(g) == \E e \in es : /\ Link(e)
                                    /\ e.source = g.source
                                    /\ e.target = g.target
            New(g) == /\ g.source = n \/ g.target = n
                      /\ ~Reaches(after, m, g.target, g.source)
<1>1. \A g \in after : Link(g) => /\ g.source \in Node /\ g.target \in Node
                                  /\ Was(g) \/ New(g)
  BY DEF Grown, JoinedIn
<1>2. \A g \in after : \A x : Link(g) /\ Reaches(after, m, g.target, x)
                          => Reaches(after, m, g.source, x)
  BY DEF Reaches, Closed
<1>3. \A g \in after : \A x : Link(g) /\ Reaches(after, m, x, g.source)
                          => Reaches(after, m, x, g.target)
  BY DEF Reaches, Closed
<1>4. \A x : Reaches(after, m, x, x)
  BY DEF Reaches
<1>5. a \in Node /\ b \in Node /\ Link(f)
  BY <1>0, <1>1
<1>6. CASE New(f)
  BY <1>6
<1>7. CASE Was(f)
  <2>1. PICK C \in SUBSET Node : Closed(es, m, C) /\ b \in C /\ a \notin C
    <3>1. PICK e \in es : Link(e) /\ e.source = a /\ e.target = b
      BY <1>7
    <3>2. ~Reaches(es, m, b, a)
      BY <3>1 DEF Tree
    <3>. QED
      BY <3>2 DEF Reaches
  <2>2. \A g \in after : Link(g) /\ Was(g) /\ g.source \in C => g.target \in C
    BY <2>1 DEF Closed
  <2>3. SUFFICES ASSUME Reaches(after, m, b, a) PROVE FALSE
    OBVIOUS
  <2>4. \A S \in SUBSET Node : Closed(after, m, S) /\ b \in S => a \in S
    BY <2>3 DEF Reaches
  <2>5. CASE b \in P
    <3>1. Closed(after, m, C \cap P)
      <4>1. SUFFICES ASSUME NEW g \in after, Link(g), g.source \in C \cap P
                     PROVE  g.target \in C \cap P
        BY DEF Closed
      <4>2. g.source # n /\ g.target # n /\ g.target \in P
        BY <4>1, <1>1, <1>2, <1>4
      <4>3. Was(g)
        BY <4>1, <4>2, <1>1
      <4>. QED
        BY <4>1, <4>2, <4>3, <2>2
    <3>. QED
      BY <3>1, <2>1, <2>4, <2>5
  <2>6. CASE a \notin Q
    <3>1. Closed(after, m, C \cup Q)
      <4>1. SUFFICES ASSUME NEW g \in after, Link(g), g.source \in C \cup Q
                     PROVE  g.target \in C \cup Q
        BY DEF Closed
      <4>2. n \in Q /\ (g.source \in Q => g.target \in Q)
        BY <4>1, <1>1, <1>3, <1>4
      <4>3. CASE g.source \in C /\ Was(g)
        BY <4>1, <4>3, <2>2
      <4>4. CASE g.source \in C /\ New(g)
        BY <4>2, <4>4
      <4>. QED
        BY <4>1, <4>2, <4>3, <4>4, <1>1
    <3>. QED
      BY <3>1, <2>1, <2>4, <2>6
  <2>7. CASE b \notin P /\ a \in Q
    <3>1. b \in Q /\ a \notin P
      BY <2>7, <1>2, <1>3, <1>5
    <3>2. Closed(after, m, (C \cap Q) \cup (P \cap Q))
      <4>1. SUFFICES ASSUME NEW g \in after, Link(g),
                            g.source \in (C \cap Q) \cup (P \cap Q)
                     PROVE  g.target \in (C \cap Q) \cup (P \cap Q)
        BY DEF Closed
      <4>2. g.target \in Q /\ (g.source \in P => g.target \in P)
        BY <4>1, <1>1, <1>2, <1>3
      <4>3. CASE g.source \in C /\ Was(g)
        BY <4>1, <4>2, <4>3, <2>2
      <4>4. CASE New(g)
        <5>1. CASE g.source = n
          BY <4>2, <4>4, <5>1, <4>1, <1>1
        <5>2. CASE g.target = n
          BY <4>1, <4>4, <5>2
        <5>. QED
          BY <4>4, <5>1, <5>2
      <4>. QED
        BY <4>1, <4>2, <4>3, <4>4, <1>1
    <3>3. (C \cap Q) \cup (P \cap Q) \subseteq Node
      OBVIOUS
    <3>. QED
      BY <3>1, <3>2, <3>3, <2>1, <2>4
  <2>. QED
    BY <2>5, <2>6, <2>7
<1>. QED
  BY <1>0, <1>1, <1>5, <1>6, <1>7

(* An edge that is dropped closes no cycle. *)
LEMMA FewerEdges ==
    ASSUME TypeOK, ArgumentTrees, edges' \subseteq edges
    PROVE  ArgumentTrees'
<1>1. SUFFICES ASSUME NEW f \in edges', IsHierarchical(f.rel)
               PROVE  ~Reaches(edges', f.map, f.target, f.source)
  BY DEF ArgumentTrees
<1>2. f \in EdgeRow /\ f \in edges
  BY <1>1 DEF TypeOK
<1>3. \A S : Closed(edges, f.map, S) => Closed(edges', f.map, S)
  BY DEF Closed
<1>4. ~Reaches(edges, f.map, f.target, f.source)
  BY <1>1, <1>2 DEF ArgumentTrees
<1>. QED
  BY <1>3, <1>4 DEF Reaches

(* An edge the cycle check let through closes no cycle. *)
LEMMA OneMoreEdge ==
    ASSUME TypeOK, ArgumentTrees, NEW link \in EdgeRow,
           edges' = edges \cup {link},
           IsHierarchical(link.rel) =>
              ~Reaches(edges, link.map, link.target, link.source)
    PROVE  ArgumentTrees'
<1>1. SUFFICES ASSUME NEW f \in edges', IsHierarchical(f.rel)
               PROVE  ~Reaches(edges', f.map, f.target, f.source)
  BY DEF ArgumentTrees
<1>2. \A g \in edges' : g.source \in Node /\ g.target \in Node
  BY DEF TypeOK, EdgeRow
<1>3. IsHierarchical(link.rel) =>
         ~Reaches(edges', link.map, link.target, link.source)
  BY DEF Reaches, Closed
<1>4. Tree(edges, f.map)
  BY DEF ArgumentTrees, Tree
<1>5. Grown(edges, edges', f.map, link.source)
  BY <1>2, <1>3 DEF Grown, JoinedIn
<1>6. link.source \in Node
  BY <1>2
<1>7. Tree(edges', f.map)
  BY <1>4, <1>5, <1>6, StillATree
<1>. QED
  BY <1>1, <1>7 DEF Tree

(* Every step keeps the argument tree of every map free of cycles. *)
LEMMA ArgumentTreesStep ==
    ASSUME TypeOK, TypeOK', ArgumentTrees, [TableStep]_tables
    PROVE  ArgumentTrees'
<1>0. TypeOK /\ TypeOK' /\ ArgumentTrees
    OBVIOUS
<1>1. ASSUME NEW m \in Map, CreateMap(m) PROVE ArgumentTrees'
    BY <1>1, <1>0, FewerEdges DEF CreateMap
<1>2. ASSUME NEW m \in Map, DeleteMap(m) PROVE ArgumentTrees'
    BY <1>2, <1>0, FewerEdges DEF DeleteMap
<1>3. ASSUME NEW in \in NewNodeInput, NEW n \in Node, NEW e \in Edge,
            CreateNode(in, n, e)
      PROVE  ArgumentTrees'
  <2>1. CASE in.parent = Nil /\ UNCHANGED edges
    BY <2>1, <1>0, FewerEdges
  <2>2. CASE ~(in.parent = Nil /\ UNCHANGED edges)
    <3>. DEFINE s == IF in.dir = "to" THEN in.parent ELSE n
                t == IF in.dir = "to" THEN n ELSE in.parent
                link == NewEdge(e, in.map, s, t, in.rel, TypeOf')
    <3>1. /\ CanLink(edges, places', TypeOf', link)
          /\ edges' = edges \cup {link}
      BY <1>3, <2>2 DEF CreateNode
    <3>2. link \in edges' /\ edges' \subseteq EdgeRow
      BY <1>0, <3>1 DEF TypeOK
    <3>3. IsHierarchical(link.rel) =>
             ~Reaches(edges, link.map, link.target, link.source)
      BY <3>1 DEF CanLink
    <3>. HIDE DEF link
    <3>. QED
      BY <1>0, <3>1, <3>2, <3>3, OneMoreEdge
  <2>. QED
    BY <2>1, <2>2
<1>4. ASSUME NEW n \in Node, NEW row \in NodeRow, NEW ty \in Type, NEW ti \in Title,
             NEW tg \in SUBSET Tag, ApplyEdit(n, row, ty, ti, tg)
      PROVE  ArgumentTrees'
  <2>1. CASE UNCHANGED edges
    BY <2>1, <1>0, FewerEdges
  <2>2. CASE ~UNCHANGED edges
    <3>. DEFINE moved == Relabelled(edges, TypeOf', n)
    <3>1. PICK new \in SUBSET {Relabel(e, TypeOf') : e \in moved} :
             RetypeInto(edges, TypeOf', n, new) /\ edges' = (edges \ moved) \cup new
      BY <1>4, <2>2 DEF ApplyEdit
    <3>2. \A e \in moved :
             /\ IsHierarchical(Relabel(e, TypeOf').rel)
             /\ ~IsHierarchical(e.rel)
             => ~Reaches(edges', e.map, e.target, e.source)
      BY <3>1 DEF RetypeInto
    <3>3. \A e \in moved :
             LET f == Relabel(e, TypeOf')
             IN /\ e \in edges
                /\ e.source = n \/ e.target = n
                /\ f.map = e.map /\ f.source = e.source /\ f.target = e.target
      BY <1>0 DEF Relabelled, Relabel, Touches, TypeOK, EdgeRow
    <3>4. SUFFICES ASSUME NEW f \in edges', IsHierarchical(f.rel)
                   PROVE  ~Reaches(edges', f.map, f.target, f.source)
      BY DEF ArgumentTrees
    <3>5. \A g \in edges' : g.source \in Node /\ g.target \in Node
      BY <1>0 DEF TypeOK, EdgeRow
    <3>6. Tree(edges, f.map)
      BY <1>0 DEF ArgumentTrees, Tree
    <3>7. ASSUME NEW g \in edges', g.map = f.map, IsHierarchical(g.rel)
          PROVE  \/ JoinedIn(edges, f.map, g)
                 \/ /\ g.source = n \/ g.target = n
                    /\ ~Reaches(edges', f.map, g.target, g.source)
      <4>1. CASE g \in edges
        BY <3>7, <4>1 DEF JoinedIn
      <4>2. CASE g \in new
        <5>1. PICK e \in moved : g = Relabel(e, TypeOf')
          BY <3>1, <4>2
        <5>. HIDE DEF moved
        <5>2. CASE IsHierarchical(e.rel)
          BY <3>3, <3>7, <5>1, <5>2 DEF JoinedIn
        <5>3. CASE ~IsHierarchical(e.rel)
          BY <3>2, <3>3, <3>7, <5>1, <5>3
        <5>. QED
          BY <5>2, <5>3
      <4>. QED
        BY <3>1, <4>1, <4>2
    <3>8. Grown(edges, edges', f.map, n)
      BY <3>5, <3>7 DEF Grown
    <3>9. Tree(edges', f.map)
      BY <3>6, <3>8, StillATree
    <3>. QED
      BY <3>4, <3>9 DEF Tree
  <2>. QED
    BY <2>1, <2>2
<1>5. ASSUME NEW ns \in SUBSET Node, NEW add \in SUBSET Tag, NEW remove \in SUBSET Tag,
            BulkUpdateNodes(ns, add, remove)
      PROVE  ArgumentTrees'
    BY <1>5, <1>0, FewerEdges DEF BulkUpdateNodes
<1>6. ASSUME NEW m \in Map, NEW n \in Node, NEW pos \in Position \cup {Keep},
             NEW g \in Group \cup {Nil, Keep},
            SetPlacement(m, n, pos, g)
      PROVE  ArgumentTrees'
    BY <1>6, <1>0, FewerEdges DEF SetPlacement
<1>7. ASSUME NEW in \in TranscludeInput, NEW e \in Edge,
            Transclude(in, e)
      PROVE  ArgumentTrees'
  <2>1. CASE UNCHANGED edges
    BY <2>1, <1>0, FewerEdges
  <2>2. CASE ~UNCHANGED edges
    <3>. DEFINE link == NewEdge(e, in.map, in.node, in.parent, in.rel, TypeOf)
    <3>1. /\ CanLink(edges, places', TypeOf, link)
          /\ edges' = edges \cup {link}
      BY <1>7, <2>2 DEF Transclude
    <3>2. link \in edges' /\ edges' \subseteq EdgeRow
      BY <1>0, <3>1 DEF TypeOK
    <3>3. IsHierarchical(link.rel) =>
             ~Reaches(edges, link.map, link.target, link.source)
      BY <3>1 DEF CanLink
    <3>. HIDE DEF link
    <3>. QED
      BY <1>0, <3>1, <3>2, <3>3, OneMoreEdge
  <2>. QED
    BY <2>1, <2>2
<1>8. ASSUME NEW m \in Map, NEW n \in Node,
            RemoveFromMap(m, n)
      PROVE  ArgumentTrees'
    BY <1>8, <1>0, FewerEdges DEF RemoveFromMap
<1>9. ASSUME NEW n \in Node, DeleteNode(n) PROVE ArgumentTrees'
    BY <1>9, <1>0, FewerEdges DEF DeleteNode
<1>10. ASSUME NEW m \in Map, NEW s \in Node, NEW t \in Node,
              NEW r \in AskedRelationship, NEW e \in Edge,
             CreateEdge(m, s, t, r, e)
       PROVE  ArgumentTrees'
  <2>1. CASE UNCHANGED edges
    BY <2>1, <1>0, FewerEdges
  <2>2. CASE ~UNCHANGED edges
    <3>. DEFINE link == NewEdge(e, m, s, t, r, TypeOf)
    <3>1. /\ CanLink(edges, places', TypeOf, link)
          /\ edges' = edges \cup {link}
      BY <1>10, <2>2 DEF CreateEdge
    <3>2. link \in edges' /\ edges' \subseteq EdgeRow
      BY <1>0, <3>1 DEF TypeOK
    <3>3. IsHierarchical(link.rel) =>
             ~Reaches(edges, link.map, link.target, link.source)
      BY <3>1 DEF CanLink
    <3>. HIDE DEF link
    <3>. QED
      BY <1>0, <3>1, <3>2, <3>3, OneMoreEdge
  <2>. QED
    BY <2>1, <2>2
<1>11. ASSUME NEW e \in Edge, DeleteEdge(e) PROVE ArgumentTrees'
    BY <1>11, <1>0, FewerEdges DEF DeleteEdge
<1>12. ASSUME NEW m \in Map, NEW g \in Group, NEW ti \in Title, NEW ns \in SUBSET Node,
             CreateGroup(m, g, ti, ns)
       PROVE  ArgumentTrees'
    BY <1>12, <1>0, FewerEdges DEF CreateGroup
<1>13. ASSUME NEW g \in Group, NEW ti \in Title,
             UpdateGroup(g, ti)
       PROVE  ArgumentTrees'
    BY <1>13, <1>0, FewerEdges DEF UpdateGroup
<1>14. ASSUME NEW m \in Map, NEW g \in Group, NEW d \in Offset,
             MoveGroup(m, g, d)
       PROVE  ArgumentTrees'
    BY <1>14, <1>0, FewerEdges DEF MoveGroup
<1>15. ASSUME NEW m \in Map, NEW g \in Group, NEW ns \in SUBSET Node,
             SetGroupMembers(m, g, ns)
       PROVE  ArgumentTrees'
    BY <1>15, <1>0, FewerEdges DEF SetGroupMembers
<1>16. ASSUME NEW g \in Group, DeleteGroup(g) PROVE ArgumentTrees'
    BY <1>16, <1>0, FewerEdges DEF DeleteGroup
<1>17. CASE UNCHANGED tables
    BY <1>17, <1>0, FewerEdges DEF tables
<1>. HIDE DEF ArgumentTrees, TypeOK
<1>23. CASE AnyEdit
    BY <1>4, <1>23 DEF AnyEdit
<1>18. CASE MapStep
    BY <1>18, <1>1, <1>2 DEF MapStep
<1>19. CASE NodeStep
    BY <1>19, <1>3, <1>5, <1>9, <1>23, UpdateIsEdit DEF NodeStep
<1>20. CASE PlaceStep
    BY <1>20, <1>6, <1>7, <1>8 DEF PlaceStep
<1>21. CASE EdgeStep
    BY <1>21, <1>10, <1>11 DEF EdgeStep
<1>22. CASE GroupStep
    BY <1>22, <1>12, <1>13, <1>14, <1>15, <1>16 DEF GroupStep
<1>. QED
    BY <1>17, <1>18, <1>19, <1>20, <1>21, <1>22, <1>23 DEF TableStep, NextTables

(* The code relies on it wherever it walks a tree: whatever is linked, moved *)
(* to another map or retyped, no argument supports itself.                   *)
THEOREM NoCircularArgument == SpecShared => []ArgumentTrees
<1>1. InitTables => ArgumentTrees
    BY DEF InitTables, ArgumentTrees
<1>2. ASSUME SharedTypeOK, SharedTypeOK', ArgumentTrees, [NextShared]_<<tables, read>>
      PROVE  ArgumentTrees'
  <2>1. TypeOK /\ TypeOK' /\ [TableStep]_tables
    BY <1>2, SharedIsTableStep DEF SharedTypeOK
  <2>. QED
    BY <1>2, <2>1, ArgumentTreesStep
<1>. QED
    BY <1>1, <1>2, TypeCorrect, PTL DEF SpecShared, InitShared

=============================================================================
