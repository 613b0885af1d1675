--------------------------- MODULE JournalProofs ----------------------------
(***************************************************************************)
(* Theorems about Journal: what holds of the tables and of the log however *)
(* changes, undo and redo of any number of actors follow each other.       *)
(***************************************************************************)
EXTENDS Journal, StoreProofs, WellFoundedInduction

-----------------------------------------------------------------------------
(* The latest and the oldest of some entries. *)

LEMMA Least ==
    ASSUME NEW S \in SUBSET Nat, S # {}
    PROVE  \E x \in S : \A y \in S : x <= y
<1>1. \E x \in S : \A y \in S : ~(<<y, x>> \in OpToRel(<, Nat))
    BY NatLessThanWellFounded, WFMin
<1>2. PICK x \in S : \A y \in S : ~(<<y, x>> \in OpToRel(<, Nat))
    BY <1>1
<1>3. \A y \in S : ~(y < x)
    BY <1>2 DEF OpToRel
<1>. QED
    BY <1>3

LEMMA Greatest ==
    ASSUME NEW n \in Nat, NEW S \in SUBSET (1 .. n), S # {}
    PROVE  \E x \in S : \A y \in S : x >= y
<1>. DEFINE above == {u \in Nat : \A y \in S : u >= y}
<1>1. PICK u \in above : \A v \in above : u <= v
  <2>1. n \in above
    OBVIOUS
  <2>2. above \in SUBSET Nat /\ above # {}
    BY <2>1
  <2>. HIDE DEF above
  <2>. QED
    BY <2>2, Least
<1>2. CASE u \in S
    BY <1>2
<1>3. CASE u \notin S
  <2>1. \A y \in S : y \in Nat /\ y >= 1 /\ u > y
    BY <1>3
  <2>2. u - 1 \in Nat
    <3>1. u \in Nat
      OBVIOUS
    <3>2. PICK y \in S : TRUE
      OBVIOUS
    <3>3. y \in Nat /\ u > y
      BY <2>1
    <3>. HIDE DEF above
    <3>. QED
      BY <3>1, <3>3
  <2>3. \A y \in S : u - 1 >= y
    BY <2>1
  <2>. QED
    BY <1>1, <2>2, <2>3
<1>. QED
    BY <1>2, <1>3

LEMMA MaxIsOne ==
    ASSUME NEW n \in Nat, NEW S \in SUBSET (1 .. n), S # {}
    PROVE  Max(S) \in S
<1>1. \E x \in S : \A y \in S : x >= y
    BY Greatest
<1>. QED
    BY <1>1, Zenon DEF Max

LEMMA MinIsOne ==
    ASSUME NEW n \in Nat, NEW S \in SUBSET (1 .. n), S # {}
    PROVE  Min(S) \in S
<1>1. S \in SUBSET Nat
    OBVIOUS
<1>2. \E x \in S : \A y \in S : x =< y
    BY <1>1, Least
<1>. QED
    BY <1>2, Zenon DEF Min

-----------------------------------------------------------------------------
(* Applying a payload to tables. *)

Once(es) == \A e, f \in es : e.id = f.id \/ Key(e) = Key(f) => e = f

Fits(f, D, R) == DOMAIN f \subseteq D /\ f \in [DOMAIN f -> R]

\* Tables are kept in order: well typed, with every edge between two nodes
\* that are on its map, and one edge per id and claim.
TypedDb(db) ==
    /\ db = [maps |-> db.maps, nodes |-> db.nodes, places |-> db.places,
             edges |-> db.edges, groups |-> db.groups]
    /\ db.maps \subseteq Map
    /\ Fits(db.nodes, Node, NodeRow)
    /\ Fits(db.places, Map \X Node, PlaceRow)
    /\ db.edges \subseteq EdgeRow
    /\ Fits(db.groups, Group, GroupRow)
EndsPlaced(db) ==
    \A e \in db.edges : Placed(db.places, e.map, e.source) /\ Placed(db.places, e.map, e.target)
Sound(db) == TypedDb(db) /\ EndsPlaced(db) /\ Once(db.edges)

\* A payload the journal holds: a record, well typed, and of edges that no
\* unique index would turn down.
Whole(s) == s = [maps |-> s.maps, nodes |-> s.nodes, places |-> s.places,
                 edges |-> s.edges, groups |-> s.groups, gone |-> s.gone]
Payload(s) == Whole(s) /\ IsPiece(s) /\ Once(s.edges)

LEMMA TablesSound ==
    Sound(Tables) <=> TypeOK /\ EndpointsPlaced /\ OneEdgePerClaim
BY DEF Sound, TypedDb, EndsPlaced, Once, Fits, Tables, TypeOK, EndpointsPlaced,
       OneEdgePerClaim

LEMMA TablesSoundNext ==
    Sound(Tables') <=> TypeOK' /\ EndpointsPlaced' /\ OneEdgePerClaim'
BY DEF Sound, TypedDb, EndsPlaced, Once, Fits, Tables, TypeOK, EndpointsPlaced,
       OneEdgePerClaim

LEMMA OverFits ==
    ASSUME NEW D, NEW R, NEW f, NEW g, Fits(f, D, R), Fits(g, D, R)
    PROVE  Fits(Over(f, g), D, R) /\ DOMAIN Over(f, g) = DOMAIN f \cup DOMAIN g
BY DEF Fits, Over

LEMMA RestrictFits ==
    ASSUME NEW D, NEW R, NEW f, Fits(f, D, R), NEW S, S \subseteq DOMAIN f
    PROVE  Fits(Restrict(f, S), D, R) /\ DOMAIN Restrict(f, S) = S
BY DEF Fits, Restrict

LEMMA PlacesFit ==
    ASSUME NEW f, Fits(f, Map \X Node, PlaceRow)
    PROVE  /\ \A S \in SUBSET DOMAIN f : /\ Fits(Restrict(f, S), Map \X Node, PlaceRow)
                                        /\ DOMAIN Restrict(f, S) = S
           /\ \A g : Fits(g, Map \X Node, PlaceRow)
                     => /\ Fits(Over(g, f), Map \X Node, PlaceRow)
                        /\ DOMAIN Over(g, f) = DOMAIN g \cup DOMAIN f
BY DEF Fits, Over, Restrict

LEMMA UngroupedFits ==
    ASSUME NEW pl, NEW gs, Fits(pl, Map \X Node, PlaceRow)
    PROVE  /\ Fits(Ungrouped(pl, gs), Map \X Node, PlaceRow)
           /\ DOMAIN Ungrouped(pl, gs) = DOMAIN pl
BY DEF Fits, Ungrouped, PlaceRow

(* The other tables, once one table's rows are replaced by fitting ones. *)
LEMMA OtherNodes ==
    ASSUME NEW db, Sound(db), NEW f, Fits(f, Node, NodeRow)
    PROVE  Sound([db EXCEPT !.nodes = f])
BY DEF Sound, TypedDb, EndsPlaced

LEMMA OtherGroups ==
    ASSUME NEW db, Sound(db), NEW f, Fits(f, Group, GroupRow)
    PROVE  Sound([db EXCEPT !.groups = f])
BY DEF Sound, TypedDb, EndsPlaced

LEMMA OtherMaps ==
    ASSUME NEW db, Sound(db), NEW f \in SUBSET Map
    PROVE  Sound([db EXCEPT !.maps = f])
BY DEF Sound, TypedDb, EndsPlaced

LEMMA OtherPlaces ==
    ASSUME NEW db, Sound(db), NEW f, Fits(f, Map \X Node, PlaceRow),
           DOMAIN db.places \subseteq DOMAIN f
    PROVE  Sound([db EXCEPT !.places = f])
BY DEF Sound, TypedDb, EndsPlaced, Placed

LEMMA RestoreNodesSound ==
    ASSUME NEW db, Sound(db), NEW s, Payload(s)
    PROVE  Sound(RestoreNodes(db, s))
<1>1. Fits(db.nodes, Node, NodeRow) /\ Fits(s.nodes, Node, NodeRow)
    BY DEF Sound, TypedDb, Payload, IsPiece, Fits
<1>. QED
    BY <1>1, OverFits, OtherNodes DEF RestoreNodes

LEMMA RestoreMapsSound ==
    ASSUME NEW db, Sound(db), NEW s, Payload(s)
    PROVE  Sound(RestoreMaps(db, s))
BY OtherMaps DEF RestoreMaps, Sound, TypedDb, Payload, IsPiece

LEMMA RestoreGroupsSound ==
    ASSUME NEW db, Sound(db), NEW s, Payload(s)
    PROVE  Sound(RestoreGroups(db, s))
<1>. DEFINE back == [g \in DOMAIN s.groups |->
                        IF g \in DOMAIN db.groups
                        THEN [db.groups[g] EXCEPT !.title = s.groups[g].title]
                        ELSE s.groups[g]]
<1>1. Fits(db.groups, Group, GroupRow) /\ Fits(s.groups, Group, GroupRow)
    BY DEF Sound, TypedDb, Payload, IsPiece, Fits
<1>2. Fits(back, Group, GroupRow)
    BY <1>1 DEF Fits, GroupRow
<1>3. RestoreGroups(db, s) = [db EXCEPT !.groups = Over(back, db.groups)]
    BY DEF RestoreGroups
<1>. HIDE DEF back
<1>4. Fits(Over(back, db.groups), Group, GroupRow)
    BY <1>1, <1>2, OverFits, Zenon
<1>. QED
    BY <1>3, <1>4, OtherGroups, Zenon

LEMMA RewriteNodesSound ==
    ASSUME NEW db, Sound(db), NEW s, Payload(s)
    PROVE  Sound(RewriteNodes(db, s))
<1>. DEFINE new == [n \in DOMAIN db.nodes |->
                       IF n \in DOMAIN s.nodes THEN s.nodes[n] ELSE db.nodes[n]]
<1>1. Fits(new, Node, NodeRow)
    BY DEF Sound, TypedDb, Payload, IsPiece, Fits
<1>2. RewriteNodes(db, s) = [db EXCEPT !.nodes = new]
    BY DEF RewriteNodes
<1>. HIDE DEF new
<1>. QED
    BY <1>1, <1>2, OtherNodes

LEMMA RestorePlacementsSound ==
    ASSUME NEW db, Sound(db), NEW s, Payload(s)
    PROVE  /\ Sound(RestorePlacements(db, s))
           /\ RestorePlacements(db, s).edges = db.edges
<1>. DEFINE back == [p \in DOMAIN s.places |->
                        IF p \in DOMAIN db.places
                        THEN [db.places[p] EXCEPT !.pos = s.places[p].pos]
                        ELSE s.places[p]]
<1>1. Fits(db.places, Map \X Node, PlaceRow) /\ Fits(s.places, Map \X Node, PlaceRow)
    BY DEF Sound, TypedDb, Payload, IsPiece, Fits
<1>2. Fits(back, Map \X Node, PlaceRow)
    BY <1>1 DEF Fits, PlaceRow
<1>3. RestorePlacements(db, s) = [db EXCEPT !.places = Over(back, db.places)]
    BY DEF RestorePlacements
<1>. HIDE DEF back
<1>4. /\ Fits(Over(back, db.places), Map \X Node, PlaceRow)
      /\ DOMAIN Over(back, db.places) = DOMAIN back \cup DOMAIN db.places
    BY <1>1, <1>2, PlacesFit
<1>5. Sound(RestorePlacements(db, s))
    BY <1>3, <1>4, OtherPlaces
<1>6. RestorePlacements(db, s).edges = db.edges
    BY <1>3 DEF Sound, TypedDb
<1>. QED
    BY <1>5, <1>6

LEMMA RestorePlacementStateSound ==
    ASSUME NEW db, Sound(db), NEW s, Payload(s)
    PROVE  Sound(RestorePlacementState(db, s))
<1>. DEFINE new == [p \in DOMAIN db.places |->
                       IF p \in DOMAIN s.places THEN s.places[p] ELSE db.places[p]]
<1>1. Fits(new, Map \X Node, PlaceRow)
    BY DEF Sound, TypedDb, Payload, IsPiece, Fits
<1>2. RestorePlacementState(db, s) = [db EXCEPT !.places = new]
    BY DEF RestorePlacementState
<1>3. DOMAIN new = DOMAIN db.places
    OBVIOUS
<1>. HIDE DEF new
<1>. QED
    BY <1>1, <1>2, <1>3, OtherPlaces

LEMMA OtherEdges ==
    ASSUME NEW db, Sound(db), NEW es \in SUBSET EdgeRow, Once(es),
           \A e \in es : Placed(db.places, e.map, e.source) /\ Placed(db.places, e.map, e.target)
    PROVE  Sound([db EXCEPT !.edges = es])
BY DEF Sound, TypedDb, EndsPlaced

(* restoreEdgesTx lets whatever is in its way give way, and puts back only *)
(* what has both ends.                                                     *)
LEMMA RestoreEdgesSound ==
    ASSUME NEW db, Sound(db), NEW s, Payload(s)
    PROVE  Sound(RestoreEdges(db, s))
<1>. DEFINE back == {e \in s.edges : /\ Placed(db.places, e.map, e.source)
                                     /\ Placed(db.places, e.map, e.target)}
            left == {e \in db.edges : \A f \in back : e.id # f.id /\ Key(e) # Key(f)}
<1>1. RestoreEdges(db, s) = [db EXCEPT !.edges = left \cup back]
    BY DEF RestoreEdges
<1>2. left \cup back \subseteq EdgeRow
    BY DEF Sound, TypedDb, Payload, IsPiece
<1>3. Once(left \cup back)
    BY DEF Sound, Payload, Once
<1>4. \A e \in left \cup back :
         Placed(db.places, e.map, e.source) /\ Placed(db.places, e.map, e.target)
    BY DEF Sound, EndsPlaced
<1>. HIDE DEF left, back
<1>. QED
    BY <1>1, <1>2, <1>3, <1>4, OtherEdges

LEMMA DeleteEdgesSound ==
    ASSUME NEW db, Sound(db), NEW s
    PROVE  Sound(DeleteEdges(db, s))
<1>. DEFINE left == {e \in db.edges : e.id \notin EdgeIds(s.edges)}
<1>1. left \subseteq EdgeRow /\ Once(left)
    BY DEF Sound, TypedDb, Once
<1>2. \A e \in left :
         Placed(db.places, e.map, e.source) /\ Placed(db.places, e.map, e.target)
    BY DEF Sound, EndsPlaced
<1>3. DeleteEdges(db, s) = [db EXCEPT !.edges = left]
    BY DEF DeleteEdges
<1>. HIDE DEF left
<1>. QED
    BY <1>1, <1>2, <1>3, OtherEdges

LEMMA RemovePlacementsSound ==
    ASSUME NEW db, Sound(db), NEW s
    PROVE  Sound(RemovePlacements(db, s))
<1>. DEFINE gone == DOMAIN s.places
            es == {e \in db.edges : \A p \in gone : ~(e.map = p[1] /\ Touches(e, p[2]))}
            pl == Restrict(db.places, DOMAIN db.places \ gone)
            new == RemovePlacements(db, s)
<1>1. new = [db EXCEPT !.edges = es, !.places = pl]
    BY DEF RemovePlacements
<1>2. Fits(pl, Map \X Node, PlaceRow) /\ DOMAIN pl = DOMAIN db.places \ gone
  <2>1. DOMAIN db.places \ gone \subseteq DOMAIN db.places
    OBVIOUS
  <2>2. Fits(db.places, Map \X Node, PlaceRow)
    BY DEF Sound, TypedDb
  <2>. QED
    BY <2>1, <2>2, PlacesFit
<1>3. \A e \in es : Placed(pl, e.map, e.source) /\ Placed(pl, e.map, e.target)
  <2>. SUFFICES ASSUME NEW e \in es
                PROVE  <<e.map, e.source>> \in DOMAIN pl /\ <<e.map, e.target>> \in DOMAIN pl
    BY DEF Placed
  <2>1. <<e.map, e.source>> \in DOMAIN db.places /\ <<e.map, e.target>> \in DOMAIN db.places
    BY DEF Sound, EndsPlaced, Placed
  <2>2. <<e.map, e.source>> \notin gone /\ <<e.map, e.target>> \notin gone
    BY DEF Touches
  <2>. QED
    BY <1>2, <2>1, <2>2
<1>4. es \subseteq EdgeRow /\ Once(es)
    BY DEF Sound, TypedDb, Once
<1>. HIDE DEF es, pl, gone
<1>5. new = [maps |-> db.maps, nodes |-> db.nodes, places |-> pl, edges |-> es,
             groups |-> db.groups]
    BY <1>1 DEF Sound, TypedDb
<1>. HIDE DEF new
<1>. QED
    BY <1>2, <1>3, <1>4, <1>5 DEF Sound, TypedDb, EndsPlaced, new

LEMMA DropNodesSound ==
    ASSUME NEW db, Sound(db), NEW s
    PROVE  Sound(DropNodes(db, s))
<1>. DEFINE gone == DOMAIN s.nodes
            ns == Restrict(db.nodes, DOMAIN db.nodes \ gone)
            pl == Restrict(db.places, {p \in DOMAIN db.places : p[2] \notin gone})
            es == {e \in db.edges : \A n \in gone : ~Touches(e, n)}
            new == DropNodes(db, s)
<1>1. new = [db EXCEPT !.nodes = ns, !.places = pl, !.edges = es]
    BY DEF DropNodes
<1>2. Fits(pl, Map \X Node, PlaceRow) /\ DOMAIN pl = {p \in DOMAIN db.places : p[2] \notin gone}
  <2>1. {p \in DOMAIN db.places : p[2] \notin gone} \subseteq DOMAIN db.places
    OBVIOUS
  <2>2. Fits(db.places, Map \X Node, PlaceRow)
    BY DEF Sound, TypedDb
  <2>. QED
    BY <2>1, <2>2, PlacesFit
<1>3. Fits(ns, Node, NodeRow)
    BY DEF Sound, TypedDb, Fits, Restrict
<1>4. \A e \in es : Placed(pl, e.map, e.source) /\ Placed(pl, e.map, e.target)
  <2>. SUFFICES ASSUME NEW e \in es
                PROVE  <<e.map, e.source>> \in DOMAIN pl /\ <<e.map, e.target>> \in DOMAIN pl
    BY DEF Placed
  <2>1. <<e.map, e.source>> \in DOMAIN db.places /\ <<e.map, e.target>> \in DOMAIN db.places
    BY DEF Sound, EndsPlaced, Placed
  <2>2. e.source \notin gone /\ e.target \notin gone
    BY DEF Touches
  <2>. QED
    BY <1>2, <2>1, <2>2
<1>5. es \subseteq EdgeRow /\ Once(es)
    BY DEF Sound, TypedDb, Once
<1>. HIDE DEF es, pl, ns, gone
<1>6. new = [maps |-> db.maps, nodes |-> ns, places |-> pl, edges |-> es,
             groups |-> db.groups]
    BY <1>1 DEF Sound, TypedDb
<1>. HIDE DEF new
<1>. QED
    BY <1>2, <1>3, <1>4, <1>5, <1>6 DEF Sound, TypedDb, EndsPlaced, new

LEMMA DropGroupsSound ==
    ASSUME NEW db, Sound(db), NEW gs
    PROVE  Sound(DropGroups(db, gs))
<1>. DEFINE gr == Restrict(db.groups, DOMAIN db.groups \ gs)
            pl == Ungrouped(db.places, gs)
            new == DropGroups(db, gs)
<1>1. new = [db EXCEPT !.groups = gr, !.places = pl]
    BY DEF DropGroups
<1>2. Fits(gr, Group, GroupRow)
    BY DEF Sound, TypedDb, Fits, Restrict
<1>3. Fits(pl, Map \X Node, PlaceRow) /\ DOMAIN pl = DOMAIN db.places
  <2>1. Fits(db.places, Map \X Node, PlaceRow)
    BY DEF Sound, TypedDb
  <2>. QED
    BY <2>1, UngroupedFits, Zenon
<1>. HIDE DEF gr, pl
<1>4. new = [maps |-> db.maps, nodes |-> db.nodes, places |-> pl, edges |-> db.edges,
             groups |-> gr]
    BY <1>1 DEF Sound, TypedDb
<1>. HIDE DEF new
<1>. QED
    BY <1>2, <1>3, <1>4 DEF Sound, TypedDb, EndsPlaced, Placed, new

LEMMA DropMapsSound ==
    ASSUME NEW db, Sound(db), NEW s
    PROVE  Sound(DropMaps(db, s))
<1>. DEFINE onMaps == {g \in DOMAIN db.groups : db.groups[g].map \in s.maps}
            kept == Restrict(db.places, {p \in DOMAIN db.places : p[1] \notin s.maps})
            pl == Ungrouped(kept, onMaps)
            es == {e \in db.edges : e.map \notin s.maps}
            gr == Restrict(db.groups, DOMAIN db.groups \ onMaps)
            ms == db.maps \ s.maps
            new == DropMaps(db, s)
<1>1. new = [db EXCEPT !.maps = ms, !.places = pl, !.edges = es, !.groups = gr]
    BY DEF DropMaps
<1>2. Fits(pl, Map \X Node, PlaceRow) /\ DOMAIN pl = {p \in DOMAIN db.places : p[1] \notin s.maps}
  <2>1. {p \in DOMAIN db.places : p[1] \notin s.maps} \subseteq DOMAIN db.places
    OBVIOUS
  <2>2. Fits(db.places, Map \X Node, PlaceRow)
    BY DEF Sound, TypedDb
  <2>3. /\ Fits(kept, Map \X Node, PlaceRow)
        /\ DOMAIN kept = {p \in DOMAIN db.places : p[1] \notin s.maps}
    BY <2>1, <2>2, PlacesFit
  <2>. HIDE DEF kept
  <2>. QED
    BY <2>3, UngroupedFits, Zenon
<1>3. Fits(gr, Group, GroupRow)
    BY DEF Sound, TypedDb, Fits, Restrict
<1>4. \A e \in es : Placed(pl, e.map, e.source) /\ Placed(pl, e.map, e.target)
  <2>. SUFFICES ASSUME NEW e \in es
                PROVE  <<e.map, e.source>> \in DOMAIN pl /\ <<e.map, e.target>> \in DOMAIN pl
    BY DEF Placed
  <2>1. <<e.map, e.source>> \in DOMAIN db.places /\ <<e.map, e.target>> \in DOMAIN db.places
    BY DEF Sound, EndsPlaced, Placed
  <2>. QED
    BY <1>2, <2>1
<1>5. es \subseteq EdgeRow /\ Once(es) /\ ms \subseteq Map
    BY DEF Sound, TypedDb, Once
<1>. HIDE DEF es, pl, gr, ms, onMaps
<1>6. new = [maps |-> ms, nodes |-> db.nodes, places |-> pl, edges |-> es,
             groups |-> gr]
    BY <1>1 DEF Sound, TypedDb
<1>. HIDE DEF new
<1>. QED
    BY <1>2, <1>3, <1>4, <1>5, <1>6 DEF Sound, TypedDb, EndsPlaced, new

(* Whatever an entry holds, applying it leaves the tables in order. *)
LEMMA AppliedSound ==
    ASSUME NEW db, Sound(db), NEW s, Payload(s),
           NEW action \in ActionNames, NEW redo \in BOOLEAN
    PROVE  Sound(Applied(db, action, s, redo))
<1>1. Sound(RestoreNode(db, s))
    BY RestoreNodesSound, RestorePlacementsSound, RestoreEdgesSound DEF RestoreNode
<1>2. Sound(RestoreMap(db, s))
    BY RestoreMapsSound, RestoreGroupsSound, RestorePlacementsSound, RestoreEdgesSound
    DEF RestoreMap
<1>3. Sound(RestoreGroup(db, s))
    BY RestoreGroupsSound, RestorePlacementStateSound DEF RestoreGroup
<1>4. Sound(DropNodes(db, s)) /\ Sound(DropMaps(db, s)) /\ Sound(RemovePlacements(db, s))
    BY DropNodesSound, DropMapsSound, RemovePlacementsSound
<1>5. Sound(RestoreEdges(db, s)) /\ Sound(DeleteEdges(db, s))
    BY RestoreEdgesSound, DeleteEdgesSound
<1>6. Sound(RestoreEdges(RestorePlacements(db, s), s))
    BY RestorePlacementsSound, RestoreEdgesSound
<1>7. Sound(RewriteNodes(db, s)) /\ Sound(RestoreEdges(RewriteNodes(db, s), s))
    BY RewriteNodesSound, RestoreEdgesSound
<1>8. Sound(RestorePlacementState(db, s))
    BY RestorePlacementStateSound
<1>9. \A gs : Sound(DropGroups(db, gs)) /\ Sound(DropGroups(RestorePlacementState(db, s), gs))
    BY <1>8, DropGroupsSound
<1>. USE DEF Applied
<1>10. CASE action = "node.create"
    BY <1>10, <1>1, <1>4
<1>11. CASE action = "node.delete"
    BY <1>11, <1>1, <1>4
<1>12. CASE action = "node.removeFromMap"
    BY <1>12, <1>1, <1>4
<1>13. CASE action = "node.transclude"
    BY <1>13, <1>4, <1>6
<1>14. CASE action \in {"node.update", "nodes.bulkUpdate"}
    BY <1>14, <1>7
<1>15. CASE action \in {"node.move", "group.move"}
    BY <1>15, <1>8
<1>16. CASE action \in {"edge.create", "edge.delete"}
    BY <1>16, <1>5
<1>17. CASE action \in {"group.save", "group.delete"}
    BY <1>17, <1>3, <1>9
<1>18. CASE action = "map.delete"
    BY <1>18, <1>2, <1>4
<1>. QED
    BY <1>10, <1>11, <1>12, <1>13, <1>14, <1>15, <1>16, <1>17, <1>18 DEF ActionNames

-----------------------------------------------------------------------------
(* The log. *)

\* A row of undo_log.
Row(x) ==
    /\ x = [actor |-> x.actor, map |-> x.map, action |-> x.action,
            inverse |-> x.inverse, forward |-> x.forward, undone |-> x.undone]
    /\ x.actor \in Actor
    /\ x.action \in ActionNames
    /\ x.undone \in BOOLEAN
    /\ Payload(x.inverse) /\ Payload(x.forward)

\* The log is in order: its rows are under ids handed out, and belong to maps
\* that exist.
Logged ==
    /\ issued \in 0..MaxEntries /\ DOMAIN log \subseteq 1..issued
    /\ \A i \in DOMAIN log : Row(log[i]) /\ log[i].map \in maps \cup {Nil}

\* The notes of an entry: what a creation made is what undoing it takes away,
\* and edges and placements come without any.
OwnNotes(x) ==
    /\ x.action = "node.create" => DOMAIN x.forward.nodes \subseteq DOMAIN x.inverse.nodes
    /\ x.action \in {"edge.create", "node.transclude"} => DOMAIN x.forward.nodes = {}

NewNotes(x) ==
    x.action = "node.create" =>
       \A s \in Pieces : DOMAIN x.inverse.nodes \cap DOMAIN s.nodes = {}

\* What an operation that leaves every map does to the log: nothing, ...
Unlogged == UNCHANGED <<log, issued>>

\* ... the redo tail gives way to an entry of the actor's ...
Files(a, x) ==
    /\ Row(x) /\ OwnNotes(x) /\ NewNotes(x)
    /\ x.map \in maps \cup {Nil} /\ x.actor = a /\ ~x.undone
    /\ log' = Put(ClearedRedo(a), issued + 1, x)
    /\ Issue

\* ... or a live entry's forward is replaced.
Folds(a, k, s) ==
    /\ k \in Live(a) /\ Payload(s)
    /\ OwnNotes([log[k] EXCEPT !.forward = s])
    /\ log' = [log EXCEPT ![k].forward = s]
    /\ UNCHANGED issued

Writes(a) == \/ Unlogged
             \/ \E x : Files(a, x)
             \/ \E k, s : Folds(a, k, s)

LEMMA RecordFiles ==
    ASSUME NEW a \in Actor, NEW m, NEW act \in ActionNames, NEW inv, NEW fwd,
           Payload(inv), Payload(fwd), Record(a, m, act, inv, fwd),
           OwnNotes(Entry(a, m, act, inv, fwd)), NewNotes(Entry(a, m, act, inv, fwd))
    PROVE  Writes(a)
<1>. DEFINE x == Entry(a, m, act, inv, fwd)
<1>1. Row(x) /\ x.map = m /\ x.actor = a /\ ~x.undone
    BY DEF Row, Entry
<1>2. Files(a, x)
    BY <1>1 DEF Files, Record
<1>. QED
    BY <1>2 DEF Writes

LEMMA MergeFolds ==
    ASSUME Logged, NEW a, NEW s, Live(a) # {}, Payload(s), Merge(a, s),
           OwnNotes([Latest(a) EXCEPT !.forward = s])
    PROVE  Writes(a)
<1>. DEFINE k == Max(Live(a))
<1>1. issued \in Nat /\ Live(a) \in SUBSET (1 .. issued)
    BY MaxEntriesAssumption DEF Logged, Live
<1>2. k \in Live(a)
    BY <1>1, MaxIsOne
<1>3. log[k] = Latest(a)
    BY DEF Latest
<1>4. Folds(a, k, s)
    BY <1>2, <1>3 DEF Folds, Merge
<1>. QED
    BY <1>4 DEF Writes

LEMMA PiecesFit ==
    ASSUME NEW db, Sound(db)
    PROVE  /\ \A ns \in SUBSET DOMAIN db.nodes : /\ Fits(Restrict(db.nodes, ns), Node, NodeRow)
                                                /\ DOMAIN Restrict(db.nodes, ns) = ns
           /\ \A ps : Fits(PlacesOf(db.places, ps), Map \X Node, PlaceRow)
           /\ \A es \in SUBSET db.edges : es \subseteq EdgeRow /\ Once(es)
           /\ \A gs : Fits(Restrict(db.groups, gs \cap DOMAIN db.groups), Group, GroupRow)
           /\ db.maps \subseteq Map
<1>1. /\ Fits(db.nodes, Node, NodeRow)
      /\ Fits(db.places, Map \X Node, PlaceRow)
      /\ Fits(db.groups, Group, GroupRow)
      /\ db.edges \subseteq EdgeRow /\ Once(db.edges)
      /\ db.maps \subseteq Map
    BY DEF Sound, TypedDb
<1>2. \A ns \in SUBSET DOMAIN db.nodes : /\ Fits(Restrict(db.nodes, ns), Node, NodeRow)
                                         /\ DOMAIN Restrict(db.nodes, ns) = ns
    BY <1>1, RestrictFits
<1>3. \A ps : Fits(PlacesOf(db.places, ps), Map \X Node, PlaceRow)
    BY <1>1, PlacesFit DEF PlacesOf
<1>4. \A gs : Fits(Restrict(db.groups, gs \cap DOMAIN db.groups), Group, GroupRow)
    BY <1>1, RestrictFits
<1>5. \A es \in SUBSET db.edges : es \subseteq EdgeRow /\ Once(es)
    BY <1>1 DEF Once
<1>. QED
    BY <1>1, <1>2, <1>3, <1>4, <1>5

LEMMA PiecesNow ==
    ASSUME Sound(Tables)
    PROVE  /\ \A ns \in SUBSET DOMAIN nodes : /\ Fits(NodesOf(ns), Node, NodeRow)
                                             /\ DOMAIN NodesOf(ns) = ns
           /\ \A ps : Fits(PlacesOf(places, ps), Map \X Node, PlaceRow)
           /\ \A es \in SUBSET edges : es \subseteq EdgeRow /\ Once(es)
           /\ \A gs : Fits(GroupsIn(gs), Group, GroupRow)
           /\ maps \subseteq Map
<1>1. /\ Tables.nodes = nodes /\ Tables.places = places /\ Tables.edges = edges
      /\ Tables.groups = groups /\ Tables.maps = maps
    BY DEF Tables
<1>. QED
    BY <1>1, PiecesFit DEF NodesOf, GroupsIn

LEMMA PiecesNext ==
    ASSUME Sound(Tables')
    PROVE  /\ \A ns \in SUBSET DOMAIN nodes' : /\ Fits(NodesOf(ns)', Node, NodeRow)
                                              /\ DOMAIN NodesOf(ns)' = ns
           /\ \A ps : Fits(PlacesOf(places', ps), Map \X Node, PlaceRow)
           /\ \A es \in SUBSET edges' : es \subseteq EdgeRow /\ Once(es)
           /\ \A gs : Fits(GroupsIn(gs)', Group, GroupRow)
           /\ maps' \subseteq Map
<1>1. /\ Tables'.nodes = nodes' /\ Tables'.places = places' /\ Tables'.edges = edges'
      /\ Tables'.groups = groups' /\ Tables'.maps = maps'
    BY DEF Tables
<1>. QED
    BY <1>1, PiecesFit DEF NodesOf, GroupsIn

LEMMA BlankFits ==
    /\ Fits(Empty, Node, NodeRow) /\ Fits(Empty, Map \X Node, PlaceRow)
    /\ Fits(Empty, Group, GroupRow) /\ Once({})
BY DEF Fits, Empty, Once

LEMMA BlankIsPayload == Payload(Blank)
<1>1. /\ Blank.maps = {} /\ Blank.nodes = Empty /\ Blank.places = Empty
      /\ Blank.edges = {} /\ Blank.groups = Empty /\ Blank.gone = {}
    BY DEF Blank
<1>2. Whole(Blank)
    BY Zenon DEF Blank, Whole
<1>3. IsPiece(Blank)
    BY <1>1, BlankFits DEF IsPiece, Fits
<1>. QED
    BY <1>1, <1>2, <1>3, BlankFits DEF Payload

(* A payload with one of its pieces replaced by another that fits is one. *)
LEMMA OtherPiece ==
    ASSUME NEW s, Payload(s)
    PROVE  /\ \A ms \in SUBSET Map : Payload([s EXCEPT !.maps = ms])
           /\ \A nd : Fits(nd, Node, NodeRow) => Payload([s EXCEPT !.nodes = nd])
           /\ \A pl : Fits(pl, Map \X Node, PlaceRow) => Payload([s EXCEPT !.places = pl])
           /\ \A es \in SUBSET EdgeRow : Once(es) => Payload([s EXCEPT !.edges = es])
           /\ \A gr : Fits(gr, Group, GroupRow) => Payload([s EXCEPT !.groups = gr])
           /\ \A gn \in SUBSET Group : Payload([s EXCEPT !.gone = gn])
<1>. USE DEF Payload, Whole, IsPiece, Fits
<1>1. \A ms \in SUBSET Map : Payload([s EXCEPT !.maps = ms])
    OBVIOUS
<1>2. \A nd : Fits(nd, Node, NodeRow) => Payload([s EXCEPT !.nodes = nd])
    OBVIOUS
<1>3. \A pl : Fits(pl, Map \X Node, PlaceRow) => Payload([s EXCEPT !.places = pl])
    OBVIOUS
<1>4. \A es \in SUBSET EdgeRow : Once(es) => Payload([s EXCEPT !.edges = es])
    OBVIOUS
<1>5. \A gr : Fits(gr, Group, GroupRow) => Payload([s EXCEPT !.groups = gr])
    OBVIOUS
<1>6. \A gn \in SUBSET Group : Payload([s EXCEPT !.gone = gn])
    OBVIOUS
<1>. QED
    BY <1>1, <1>2, <1>3, <1>4, <1>5, <1>6

LEMMA PieceByPiece ==
    ASSUME NEW s, Whole(s), NEW ms, NEW nd, NEW pl, NEW es, NEW gr, NEW gn
    PROVE  /\ [s EXCEPT !.nodes = nd, !.edges = es]
                 = [[s EXCEPT !.nodes = nd] EXCEPT !.edges = es]
           /\ [s EXCEPT !.nodes = nd, !.places = pl, !.edges = es]
                 = [[[s EXCEPT !.nodes = nd] EXCEPT !.places = pl] EXCEPT !.edges = es]
           /\ [s EXCEPT !.places = pl, !.edges = es]
                 = [[s EXCEPT !.places = pl] EXCEPT !.edges = es]
           /\ [s EXCEPT !.groups = gr, !.places = pl]
                 = [[s EXCEPT !.groups = gr] EXCEPT !.places = pl]
           /\ [s EXCEPT !.places = pl, !.groups = gr]
                 = [[s EXCEPT !.places = pl] EXCEPT !.groups = gr]
           /\ [s EXCEPT !.gone = gn, !.places = pl]
                 = [[s EXCEPT !.gone = gn] EXCEPT !.places = pl]
           /\ [s EXCEPT !.maps = ms, !.groups = gr, !.places = pl, !.edges = es]
                 = [[[[s EXCEPT !.maps = ms] EXCEPT !.groups = gr]
                        EXCEPT !.places = pl] EXCEPT !.edges = es]
<1>. USE DEF Whole
<1>1. [s EXCEPT !.nodes = nd, !.edges = es]
         = [[s EXCEPT !.nodes = nd] EXCEPT !.edges = es]
    OBVIOUS
<1>2. [s EXCEPT !.nodes = nd, !.places = pl, !.edges = es]
         = [[[s EXCEPT !.nodes = nd] EXCEPT !.places = pl] EXCEPT !.edges = es]
    OBVIOUS
<1>3. [s EXCEPT !.places = pl, !.edges = es]
         = [[s EXCEPT !.places = pl] EXCEPT !.edges = es]
    OBVIOUS
<1>4. [s EXCEPT !.groups = gr, !.places = pl]
         = [[s EXCEPT !.groups = gr] EXCEPT !.places = pl]
    OBVIOUS
<1>5. [s EXCEPT !.places = pl, !.groups = gr]
         = [[s EXCEPT !.places = pl] EXCEPT !.groups = gr]
    OBVIOUS
<1>6. [s EXCEPT !.gone = gn, !.places = pl]
         = [[s EXCEPT !.gone = gn] EXCEPT !.places = pl]
    OBVIOUS
<1>7. [s EXCEPT !.maps = ms, !.groups = gr, !.places = pl, !.edges = es]
         = [[[[s EXCEPT !.maps = ms] EXCEPT !.groups = gr]
               EXCEPT !.places = pl] EXCEPT !.edges = es]
    OBVIOUS
<1>. QED
    BY <1>1, <1>2, <1>3, <1>4, <1>5, <1>6, <1>7

LEMMA NodePieces ==
    ASSUME NEW s, Payload(s),
           NEW nd, Fits(nd, Node, NodeRow), NEW pl, Fits(pl, Map \X Node, PlaceRow),
           NEW es \in SUBSET EdgeRow, Once(es)
    PROVE  /\ Payload([s EXCEPT !.nodes = nd, !.places = pl, !.edges = es])
           /\ Payload([s EXCEPT !.nodes = nd, !.edges = es])
           /\ Payload([s EXCEPT !.nodes = nd])
           /\ [s EXCEPT !.nodes = nd, !.places = pl, !.edges = es].nodes = nd
           /\ [s EXCEPT !.nodes = nd].nodes = nd
<1>1. Payload([s EXCEPT !.nodes = nd])
    BY OtherPiece
<1>2. Payload([[s EXCEPT !.nodes = nd] EXCEPT !.edges = es])
    BY <1>1, OtherPiece
<1>3. Payload([[s EXCEPT !.nodes = nd] EXCEPT !.places = pl])
    BY <1>1, OtherPiece
<1>4. Payload([[[s EXCEPT !.nodes = nd] EXCEPT !.places = pl] EXCEPT !.edges = es])
    BY <1>3, OtherPiece
<1>5. /\ [s EXCEPT !.nodes = nd, !.edges = es]
            = [[s EXCEPT !.nodes = nd] EXCEPT !.edges = es]
      /\ [s EXCEPT !.nodes = nd, !.places = pl, !.edges = es]
            = [[[s EXCEPT !.nodes = nd] EXCEPT !.places = pl] EXCEPT !.edges = es]
    BY PieceByPiece DEF Payload
<1>6. /\ [s EXCEPT !.nodes = nd, !.places = pl, !.edges = es].nodes = nd
      /\ [s EXCEPT !.nodes = nd].nodes = nd
    BY DEF Payload, Whole
<1>. QED
    BY <1>1, <1>2, <1>4, <1>5, <1>6

LEMMA PlacePieces ==
    ASSUME NEW s, Payload(s),
           NEW pl, Fits(pl, Map \X Node, PlaceRow), NEW es \in SUBSET EdgeRow, Once(es)
    PROVE  /\ Payload([s EXCEPT !.places = pl])
           /\ Payload([s EXCEPT !.edges = es])
           /\ Payload([s EXCEPT !.places = pl, !.edges = es])
           /\ [s EXCEPT !.edges = es].nodes = s.nodes
           /\ [s EXCEPT !.places = pl, !.edges = es].nodes = s.nodes
<1>1. Payload([s EXCEPT !.places = pl]) /\ Payload([s EXCEPT !.edges = es])
    BY OtherPiece
<1>2. Payload([[s EXCEPT !.places = pl] EXCEPT !.edges = es])
    BY <1>1, OtherPiece
<1>3. [s EXCEPT !.places = pl, !.edges = es] = [[s EXCEPT !.places = pl] EXCEPT !.edges = es]
    BY PieceByPiece DEF Payload
<1>4. /\ [s EXCEPT !.edges = es].nodes = s.nodes
      /\ [s EXCEPT !.places = pl, !.edges = es].nodes = s.nodes
    BY DEF Payload, Whole
<1>. QED
    BY <1>1, <1>2, <1>3, <1>4

LEMMA GroupPieces ==
    ASSUME NEW s, Payload(s),
           NEW pl, Fits(pl, Map \X Node, PlaceRow), NEW gr, Fits(gr, Group, GroupRow),
           NEW gn \in SUBSET Group
    PROVE  /\ Payload([s EXCEPT !.groups = gr])
           /\ Payload([s EXCEPT !.groups = gr, !.places = pl])
           /\ Payload([s EXCEPT !.places = pl, !.groups = gr])
           /\ Payload([s EXCEPT !.gone = gn, !.places = pl])
<1>1. /\ Payload([s EXCEPT !.groups = gr]) /\ Payload([s EXCEPT !.places = pl])
      /\ Payload([s EXCEPT !.gone = gn])
    BY OtherPiece
<1>2. /\ Payload([[s EXCEPT !.groups = gr] EXCEPT !.places = pl])
      /\ Payload([[s EXCEPT !.places = pl] EXCEPT !.groups = gr])
      /\ Payload([[s EXCEPT !.gone = gn] EXCEPT !.places = pl])
    BY <1>1, OtherPiece
<1>3. /\ [s EXCEPT !.groups = gr, !.places = pl]
            = [[s EXCEPT !.groups = gr] EXCEPT !.places = pl]
      /\ [s EXCEPT !.places = pl, !.groups = gr]
            = [[s EXCEPT !.places = pl] EXCEPT !.groups = gr]
      /\ [s EXCEPT !.gone = gn, !.places = pl]
            = [[s EXCEPT !.gone = gn] EXCEPT !.places = pl]
    BY PieceByPiece DEF Payload
<1>. QED
    BY <1>1, <1>2, <1>3

LEMMA MapPieces ==
    ASSUME NEW s, Payload(s), NEW ms \in SUBSET Map, NEW gr, Fits(gr, Group, GroupRow),
           NEW pl, Fits(pl, Map \X Node, PlaceRow), NEW es \in SUBSET EdgeRow, Once(es)
    PROVE  Payload([s EXCEPT !.maps = ms, !.groups = gr, !.places = pl, !.edges = es])
<1>1. Payload([s EXCEPT !.maps = ms])
    BY OtherPiece
<1>2. Payload([[s EXCEPT !.maps = ms] EXCEPT !.groups = gr])
    BY <1>1, OtherPiece
<1>3. Payload([[[s EXCEPT !.maps = ms] EXCEPT !.groups = gr] EXCEPT !.places = pl])
    BY <1>2, OtherPiece
<1>4. Payload([[[[s EXCEPT !.maps = ms] EXCEPT !.groups = gr]
                  EXCEPT !.places = pl] EXCEPT !.edges = es])
    BY <1>3, OtherPiece
<1>5. [s EXCEPT !.maps = ms, !.groups = gr, !.places = pl, !.edges = es]
         = [[[[s EXCEPT !.maps = ms] EXCEPT !.groups = gr]
               EXCEPT !.places = pl] EXCEPT !.edges = es]
    BY PieceByPiece DEF Payload
<1>. QED
    BY <1>4, <1>5


LEMMA RecordPlain ==
    ASSUME NEW a \in Actor, NEW m, NEW act \in ActionNames, NEW inv, NEW fwd,
           Payload(inv), Payload(fwd), Record(a, m, act, inv, fwd),
           act \notin {"node.create", "edge.create", "node.transclude"}
    PROVE  Writes(a)
<1>1. /\ OwnNotes(Entry(a, m, act, inv, fwd)) /\ NewNotes(Entry(a, m, act, inv, fwd))
    BY DEF OwnNotes, NewNotes, Entry
<1>. QED
    BY <1>1, RecordFiles

LEMMA FoldPlain ==
    ASSUME Logged, NEW a, NEW act, NEW s, Payload(s),
           act \notin {"node.create", "edge.create", "node.transclude"},
           FoldsInto(a, {act}), Merge(a, s)
    PROVE  Writes(a)
<1>1. Live(a) # {} /\ Latest(a).action = act
    BY DEF FoldsInto
<1>2. issued \in Nat /\ Live(a) \in SUBSET (1 .. issued)
    BY MaxEntriesAssumption DEF Logged, Live
<1>3. Row(Latest(a))
    BY <1>1, <1>2, MaxIsOne DEF Logged, Latest, Live
<1>4. [Latest(a) EXCEPT !.forward = s].action = act
    BY <1>1, <1>3 DEF Row
<1>5. OwnNotes([Latest(a) EXCEPT !.forward = s])
    BY <1>4 DEF OwnNotes
<1>. QED
    BY <1>1, <1>5, MergeFolds

-----------------------------------------------------------------------------
(* What each operation writes to the log. *)

LEMMA NodeCreatedWrites ==
    ASSUME Logged, Sound(Tables), Sound(Tables'), NEW a \in Actor,
           NEW in \in NewNodeInput, NEW n \in Node, NEW e \in Edge, NodeCreated(a, in, n, e)
    PROVE  Writes(a)
<1>. DEFINE row  == NodesOf({n})'
            spot == PlacesOf(places', {<<in.map, n>>})
            link == edges' \ edges
            made == [Blank EXCEPT !.nodes = row, !.places = spot, !.edges = link]
<1>1. {n} \in SUBSET DOMAIN nodes'
    BY DEF NodeCreated, CreateNode, Put
<1>2. Fits(row, Node, NodeRow) /\ DOMAIN row = {n}
    BY <1>1, PiecesNext
<1>3. Fits(spot, Map \X Node, PlaceRow)
    BY PiecesNext
<1>4. link \in SUBSET EdgeRow /\ Once(link)
    BY PiecesNext
<1>5. Record(a, in.map, "node.create", made, made)
    BY DEF NodeCreated
<1>6. \A s \in Pieces : n \notin DOMAIN s.nodes
    BY DEF NodeCreated, FreshNode
<1>. HIDE DEF row, spot, link
<1>7. Payload(made)
    BY <1>2, <1>3, <1>4, BlankIsPayload, NodePieces
<1>8. made.nodes = row
    BY BlankIsPayload DEF Payload, Whole
<1>. HIDE DEF made
<1>9. /\ OwnNotes(Entry(a, in.map, "node.create", made, made))
      /\ NewNotes(Entry(a, in.map, "node.create", made, made))
    BY <1>2, <1>6, <1>8 DEF OwnNotes, NewNotes, Entry
<1>. QED
    BY <1>5, <1>7, <1>9, RecordFiles DEF ActionNames

LEMMA NodeUpdatedWrites ==
    ASSUME Logged, Sound(Tables), Sound(Tables'), NEW a \in Actor,
           NEW n \in Node, NEW row \in NodeRow,
           NEW ty \in Type, NEW ti \in Title, NEW tg \in SUBSET Tag,
           NodeUpdated(a, n, row, ty, ti, tg)
    PROVE  Writes(a) /\ UNCHANGED maps
<1>. DEFINE old    == [k \in {n} |-> row]
            new    == [k \in {n} |-> [type |-> ty, title |-> ti, tags |-> tg]]
            lost   == edges \ edges'
            gained == edges' \ edges
            before == [Blank EXCEPT !.nodes = old, !.edges = lost]
            after  == [Blank EXCEPT !.nodes = new, !.edges = gained]
            amended == [Latest(a).forward EXCEPT !.nodes = new]
<1>0. UNCHANGED maps
    BY DEF NodeUpdated, ApplyEdit
<1>1. [type |-> ty, title |-> ti, tags |-> tg] \in NodeRow
    BY TypeAssumption DEF NodeUpdated, ApplyEdit, NodeRow
<1>2. Fits(new, Node, NodeRow) /\ DOMAIN new = {n} /\ Fits(old, Node, NodeRow)
    BY <1>1 DEF Fits
<1>3. lost \in SUBSET EdgeRow /\ Once(lost) /\ gained \in SUBSET EdgeRow /\ Once(gained)
    BY PiecesNow, PiecesNext
<1>4. \/ /\ FoldsInto(a, {"node.update", "node.create"})
         /\ n \in DOMAIN Latest(a).inverse.nodes
         /\ Merge(a, amended)
      \/ Record(a, Nil, "node.update", before, after)
    BY DEF NodeUpdated
<1>. HIDE DEF old, new, lost, gained
<1>5. CASE /\ FoldsInto(a, {"node.update", "node.create"})
           /\ n \in DOMAIN Latest(a).inverse.nodes
           /\ Merge(a, amended)
  <2>1. Live(a) # {} /\ Latest(a).action \in {"node.update", "node.create"}
    BY <1>5 DEF FoldsInto
  <2>2. issued \in Nat /\ Live(a) \in SUBSET (1 .. issued)
    BY MaxEntriesAssumption DEF Logged, Live
  <2>3. Row(Latest(a))
    BY <2>1, <2>2, MaxIsOne DEF Logged, Latest, Live
  <2>4. Payload(amended) /\ amended.nodes = new
    BY <1>2, <2>3, OtherPiece DEF Row, Payload, Whole
  <2>. HIDE DEF amended
  <2>5. /\ [Latest(a) EXCEPT !.forward = amended].forward = amended
        /\ [Latest(a) EXCEPT !.forward = amended].inverse = Latest(a).inverse
        /\ [Latest(a) EXCEPT !.forward = amended].action = Latest(a).action
    BY <2>3 DEF Row
  <2>6. OwnNotes([Latest(a) EXCEPT !.forward = amended])
    BY <1>2, <1>5, <2>1, <2>4, <2>5 DEF OwnNotes
  <2>. QED
    BY <1>0, <1>5, <2>1, <2>4, <2>6, MergeFolds
<1>6. CASE Record(a, Nil, "node.update", before, after)
  <2>1. Payload(before) /\ Payload(after)
    BY <1>2, <1>3, BlankIsPayload, BlankFits, NodePieces
  <2>. HIDE DEF before, after
  <2>. QED
    BY <1>0, <1>6, <2>1, RecordPlain DEF ActionNames
<1>. QED
    BY <1>4, <1>5, <1>6

LEMMA NodesBulkUpdatedWrites ==
    ASSUME Logged, Sound(Tables), Sound(Tables'), NEW a \in Actor,
           NEW ns \in SUBSET Node, NEW add \in SUBSET Tag, NEW remove \in SUBSET Tag,
           NodesBulkUpdated(a, ns, add, remove)
    PROVE  Writes(a)
<1>. DEFINE old    == NodesOf(ns)
            new    == NodesOf(ns)'
            before == [Blank EXCEPT !.nodes = old]
            after  == [Blank EXCEPT !.nodes = new]
<1>1. ns \in SUBSET DOMAIN nodes /\ ns \in SUBSET DOMAIN nodes'
    BY DEF NodesBulkUpdated, BulkUpdateNodes
<1>2. Fits(old, Node, NodeRow) /\ Fits(new, Node, NodeRow)
    BY <1>1, PiecesNow, PiecesNext
<1>3. Record(a, Nil, "nodes.bulkUpdate", before, after)
    BY DEF NodesBulkUpdated
<1>. HIDE DEF old, new
<1>4. Payload(before) /\ Payload(after)
    BY <1>2, BlankIsPayload, OtherPiece
<1>. HIDE DEF before, after
<1>. QED
    BY <1>3, <1>4, RecordPlain DEF ActionNames

LEMMA NodeDeletedWrites ==
    ASSUME Logged, Sound(Tables), Sound(Tables'), NEW a \in Actor,
           NEW n \in Node, NodeDeleted(a, n)
    PROVE  Writes(a)
<1>. DEFINE row   == NodesOf({n})
            spots == PlacesOf(places, Map \X {n})
            links == EdgesAt(n)
            was   == [Blank EXCEPT !.nodes = row, !.places = spots, !.edges = links]
<1>1. {n} \in SUBSET DOMAIN nodes
    BY DEF NodeDeleted, DeleteNode
<1>2. Fits(row, Node, NodeRow)
    BY <1>1, PiecesNow
<1>3. Fits(spots, Map \X Node, PlaceRow)
    BY PiecesNow
<1>4. links \in SUBSET EdgeRow /\ Once(links)
    BY PiecesNow DEF EdgesAt
<1>5. Record(a, Nil, "node.delete", was, was)
    BY DEF NodeDeleted
<1>. HIDE DEF row, spots, links
<1>6. Payload(was)
    BY <1>2, <1>3, <1>4, BlankIsPayload, NodePieces
<1>. HIDE DEF was
<1>. QED
    BY <1>5, <1>6, RecordPlain DEF ActionNames

LEMMA NodeMovedWrites ==
    ASSUME Logged, Sound(Tables), Sound(Tables'), NEW a \in Actor,
           NEW m \in Map, NEW n \in Node, NEW pos, NEW g, NodeMoved(a, m, n, pos, g)
    PROVE  Writes(a)
<1>. DEFINE old    == PlacesOf(places, {<<m, n>>})
            new    == PlacesOf(places', {<<m, n>>})
            before == [Blank EXCEPT !.places = old]
            after  == [Blank EXCEPT !.places = new]
<1>1. Fits(old, Map \X Node, PlaceRow) /\ Fits(new, Map \X Node, PlaceRow)
    BY PiecesNow, PiecesNext
<1>2. \/ UNCHANGED <<log, issued>>
      \/ FoldsInto(a, {"node.move"}) /\ Merge(a, after)
      \/ Record(a, m, "node.move", before, after)
    BY DEF NodeMoved
<1>. HIDE DEF old, new
<1>3. Payload(before) /\ Payload(after)
    BY <1>1, BlankIsPayload, OtherPiece
<1>. HIDE DEF before, after
<1>4. CASE UNCHANGED <<log, issued>>
    BY <1>4 DEF Writes, Unlogged
<1>5. CASE FoldsInto(a, {"node.move"}) /\ Merge(a, after)
    BY <1>3, <1>5, FoldPlain
<1>6. CASE Record(a, m, "node.move", before, after)
    BY <1>3, <1>6, RecordPlain DEF ActionNames
<1>. QED
    BY <1>2, <1>4, <1>5, <1>6

LEMMA NodeTranscludedWrites ==
    ASSUME Logged, Sound(Tables), Sound(Tables'), NEW a \in Actor,
           NEW in \in TranscludeInput, NEW e \in Edge, NodeTranscluded(a, in, e)
    PROVE  Writes(a)
<1>. DEFINE spot  == PlacesOf(places', {<<in.map, in.node>>})
            made  == edges' \ edges
            whole == [Blank EXCEPT !.places = spot, !.edges = made]
            link  == [Blank EXCEPT !.edges = made]
<1>1. Fits(spot, Map \X Node, PlaceRow)
    BY PiecesNext
<1>2. made \in SUBSET EdgeRow /\ Once(made)
    BY PiecesNext
<1>3. \/ UNCHANGED <<log, issued>>
      \/ Record(a, in.map, "node.transclude", whole, whole)
      \/ Record(a, in.map, "edge.create", link, link)
    BY DEF NodeTranscluded
<1>. HIDE DEF spot, made
<1>4. /\ Payload(whole) /\ Payload(link)
      /\ whole.nodes = Blank.nodes /\ link.nodes = Blank.nodes
    BY <1>1, <1>2, BlankIsPayload, PlacePieces
<1>5. DOMAIN Blank.nodes = {}
    BY DEF Blank, Empty
<1>. HIDE DEF whole, link
<1>6. CASE UNCHANGED <<log, issued>>
    BY <1>6 DEF Writes, Unlogged
<1>7. CASE Record(a, in.map, "node.transclude", whole, whole)
  <2>1. /\ OwnNotes(Entry(a, in.map, "node.transclude", whole, whole))
        /\ NewNotes(Entry(a, in.map, "node.transclude", whole, whole))
    BY <1>4, <1>5 DEF OwnNotes, NewNotes, Entry
  <2>. QED
    BY <1>4, <1>7, <2>1, RecordFiles DEF ActionNames
<1>8. CASE Record(a, in.map, "edge.create", link, link)
  <2>1. /\ OwnNotes(Entry(a, in.map, "edge.create", link, link))
        /\ NewNotes(Entry(a, in.map, "edge.create", link, link))
    BY <1>4, <1>5 DEF OwnNotes, NewNotes, Entry
  <2>. QED
    BY <1>4, <1>8, <2>1, RecordFiles DEF ActionNames
<1>. QED
    BY <1>3, <1>6, <1>7, <1>8

LEMMA NodeRemovedWrites ==
    ASSUME Logged, Sound(Tables), Sound(Tables'), NEW a \in Actor,
           NEW m \in Map, NEW n \in Node, NodeRemoved(a, m, n)
    PROVE  Writes(a)
<1>. DEFINE row   == NodesOf({n})
            spot  == PlacesOf(places, {<<m, n>>})
            links == {e \in EdgesAt(n) : e.map = m}
            was   == [Blank EXCEPT !.nodes = row, !.places = spot, !.edges = links]
<1>1. {n} \in SUBSET DOMAIN nodes
    BY DEF NodeRemoved, RemoveFromMap
<1>2. Fits(row, Node, NodeRow)
    BY <1>1, PiecesNow
<1>3. Fits(spot, Map \X Node, PlaceRow)
    BY PiecesNow
<1>4. links \in SUBSET EdgeRow /\ Once(links)
    BY PiecesNow DEF EdgesAt
<1>5. Record(a, m, "node.removeFromMap", was, was)
    BY DEF NodeRemoved
<1>. HIDE DEF row, spot, links
<1>6. Payload(was)
    BY <1>2, <1>3, <1>4, BlankIsPayload, NodePieces
<1>. HIDE DEF was
<1>. QED
    BY <1>5, <1>6, RecordPlain DEF ActionNames

LEMMA EdgeCreatedWrites ==
    ASSUME Logged, Sound(Tables), Sound(Tables'), NEW a \in Actor,
           NEW m \in Map, NEW s \in Node, NEW t \in Node, NEW r, NEW e \in Edge,
           EdgeCreated(a, m, s, t, r, e)
    PROVE  Writes(a)
<1>. DEFINE new  == edges' \ edges
            made == [Blank EXCEPT !.edges = new]
<1>1. new \in SUBSET EdgeRow /\ Once(new)
    BY PiecesNext
<1>2. Record(a, m, "edge.create", made, made)
    BY DEF EdgeCreated
<1>. HIDE DEF new
<1>3. Payload(made) /\ made.nodes = Blank.nodes
    BY <1>1, BlankIsPayload, BlankFits, PlacePieces
<1>4. DOMAIN Blank.nodes = {}
    BY DEF Blank, Empty
<1>. HIDE DEF made
<1>5. /\ OwnNotes(Entry(a, m, "edge.create", made, made))
      /\ NewNotes(Entry(a, m, "edge.create", made, made))
    BY <1>3, <1>4 DEF OwnNotes, NewNotes, Entry
<1>. QED
    BY <1>2, <1>3, <1>5, RecordFiles DEF ActionNames

LEMMA EdgeDeletedWrites ==
    ASSUME Logged, Sound(Tables), Sound(Tables'), NEW a \in Actor,
           NEW e \in Edge, EdgeDeleted(a, e)
    PROVE  Writes(a)
<1>. DEFINE old == edges \ edges'
            was == [Blank EXCEPT !.edges = old]
<1>1. old \in SUBSET EdgeRow /\ Once(old)
    BY PiecesNow
<1>2. PICK f : Record(a, f.map, "edge.delete", was, was)
    BY DEF EdgeDeleted
<1>. HIDE DEF old
<1>3. Payload(was)
    BY <1>1, BlankIsPayload, OtherPiece
<1>. HIDE DEF was
<1>. QED
    BY <1>2, <1>3, RecordPlain DEF ActionNames

LEMMA GroupCreatedWrites ==
    ASSUME Logged, Sound(Tables), Sound(Tables'), NEW a \in Actor,
           NEW m \in Map, NEW g \in Group, NEW ti \in Title, NEW ns \in SUBSET Node,
           GroupCreated(a, m, g, ti, ns)
    PROVE  Writes(a)
<1>. DEFINE old  == PlacesOf(places, {m} \X ns)
            new  == PlacesOf(places', {m} \X ns)
            row  == GroupsIn({g})'
            gn   == {g}
            before == [Blank EXCEPT !.gone = gn, !.places = old]
            after  == [Blank EXCEPT !.groups = row, !.places = new]
<1>1. Fits(old, Map \X Node, PlaceRow) /\ Fits(new, Map \X Node, PlaceRow)
    BY PiecesNow, PiecesNext
<1>2. Fits(row, Group, GroupRow) /\ gn \in SUBSET Group
    BY PiecesNext
<1>3. Record(a, m, "group.save", before, after)
    BY DEF GroupCreated
<1>. HIDE DEF old, new, row, gn
<1>4. Payload(before) /\ Payload(after)
    BY <1>1, <1>2, BlankIsPayload, GroupPieces
<1>. HIDE DEF before, after
<1>. QED
    BY <1>3, <1>4, RecordPlain DEF ActionNames

LEMMA GroupUpdatedWrites ==
    ASSUME Logged, Sound(Tables), Sound(Tables'), NEW a \in Actor,
           NEW g \in Group, NEW ti \in Title, GroupUpdated(a, g, ti)
    PROVE  Writes(a)
<1>. DEFINE old    == GroupsIn({g})
            new    == GroupsIn({g})'
            before == [Blank EXCEPT !.groups = old]
            after  == [Blank EXCEPT !.groups = new]
<1>1. Fits(old, Group, GroupRow) /\ Fits(new, Group, GroupRow)
    BY PiecesNow, PiecesNext
<1>2. Record(a, groups[g].map, "group.save", before, after)
    BY DEF GroupUpdated
<1>. HIDE DEF old, new
<1>3. Payload(before) /\ Payload(after)
    BY <1>1, BlankIsPayload, OtherPiece
<1>. HIDE DEF before, after
<1>. QED
    BY <1>2, <1>3, RecordPlain DEF ActionNames

LEMMA GroupMovedWrites ==
    ASSUME Logged, Sound(Tables), Sound(Tables'), NEW a \in Actor,
           NEW m \in Map, NEW g \in Group, NEW d, GroupMoved(a, m, g, d)
    PROVE  Writes(a)
<1>. DEFINE at     == {m} \X MemberNodes(places, g)
            old    == PlacesOf(places, at)
            new    == PlacesOf(places', at)
            row    == GroupsIn({g})
            before == [Blank EXCEPT !.places = old, !.groups = row]
            after  == [before EXCEPT !.places = new]
            amended == [Latest(a).forward EXCEPT !.places = after.places]
<1>1. Fits(old, Map \X Node, PlaceRow) /\ Fits(new, Map \X Node, PlaceRow)
    BY PiecesNow, PiecesNext
<1>2. Fits(row, Group, GroupRow)
    BY PiecesNow
<1>3. \/ FoldsInto(a, {"group.move"}) /\ Merge(a, amended)
      \/ Record(a, m, "group.move", before, after)
    BY DEF GroupMoved
<1>. HIDE DEF at, old, new, row
<1>4. Payload(before)
    BY <1>1, <1>2, BlankIsPayload, GroupPieces, BlankFits
<1>. HIDE DEF before
<1>5. Payload(after) /\ after.places = new
    BY <1>1, <1>4, OtherPiece DEF Payload, Whole
<1>. HIDE DEF after
<1>6. CASE FoldsInto(a, {"group.move"}) /\ Merge(a, amended)
  <2>1. Live(a) # {}
    BY <1>6 DEF FoldsInto
  <2>2. issued \in Nat /\ Live(a) \in SUBSET (1 .. issued)
    BY MaxEntriesAssumption DEF Logged, Live
  <2>3. Payload(Latest(a).forward)
    BY <2>1, <2>2, MaxIsOne DEF Logged, Latest, Live, Row
  <2>4. Payload(amended)
    BY <1>1, <1>5, <2>3, OtherPiece
  <2>. HIDE DEF amended
  <2>. QED
    BY <1>6, <2>4, FoldPlain
<1>7. CASE Record(a, m, "group.move", before, after)
    BY <1>4, <1>5, <1>7, RecordPlain DEF ActionNames
<1>. QED
    BY <1>3, <1>6, <1>7

LEMMA GroupMembersSetWrites ==
    ASSUME Logged, Sound(Tables), Sound(Tables'), NEW a \in Actor,
           NEW m \in Map, NEW g \in Group, NEW ns \in SUBSET Node,
           GroupMembersSet(a, m, g, ns)
    PROVE  Writes(a)
<1>. DEFINE at     == {m} \X (MemberNodes(places, g) \cup ns)
            old    == PlacesOf(places, at)
            new    == PlacesOf(places', at)
            row    == GroupsIn({g})
            rest   == GroupsIn({g})'
            before == [Blank EXCEPT !.groups = row, !.places = old]
            after  == [Blank EXCEPT !.groups = rest, !.places = new]
<1>1. Fits(old, Map \X Node, PlaceRow) /\ Fits(new, Map \X Node, PlaceRow)
    BY PiecesNow, PiecesNext
<1>2. Fits(row, Group, GroupRow) /\ Fits(rest, Group, GroupRow)
    BY PiecesNow, PiecesNext
<1>3. Record(a, m, "group.save", before, after)
    BY DEF GroupMembersSet
<1>. HIDE DEF at, old, new, row, rest
<1>4. Payload(before) /\ Payload(after)
    BY <1>1, <1>2, BlankIsPayload, GroupPieces
<1>. HIDE DEF before, after
<1>. QED
    BY <1>3, <1>4, RecordPlain DEF ActionNames

LEMMA GroupDeletedWrites ==
    ASSUME Logged, Sound(Tables), Sound(Tables'), NEW a \in Actor,
           NEW g \in Group, GroupDeleted(a, g)
    PROVE  Writes(a)
<1>. DEFINE m   == groups[g].map
            old == PlacesOf(places, {m} \X MemberNodes(places, g))
            row == GroupsIn({g})
            was == [Blank EXCEPT !.groups = row, !.places = old]
<1>1. Fits(old, Map \X Node, PlaceRow) /\ Fits(row, Group, GroupRow)
    BY PiecesNow
<1>2. Record(a, m, "group.delete", was, was)
    BY DEF GroupDeleted
<1>. HIDE DEF m, old, row
<1>3. Payload(was)
    BY <1>1, BlankIsPayload, GroupPieces
<1>. HIDE DEF was
<1>. QED
    BY <1>2, <1>3, RecordPlain DEF ActionNames

(* Whatever is changed but the set of maps: the log grows by an entry, or a *)
(* live entry is given another forward, or neither.                         *)
LEMMA ContentChangeWrites ==
    ASSUME Logged, Sound(Tables), Sound(Tables'), NEW a \in Actor, ContentChange(a)
    PROVE  Writes(a) /\ UNCHANGED maps
<1>1. Writes(a)
  <2>1. CASE \E in \in NewNodeInput, n \in Node, e \in Edge : NodeCreated(a, in, n, e)
      BY <2>1, NodeCreatedWrites
  <2>2. CASE \E n \in Node, ty \in Type, ti \in Title, tg \in SUBSET Tag :
                n \in DOMAIN nodes /\ NodeUpdated(a, n, nodes[n], ty, ti, tg)
    <3>1. \A n \in DOMAIN nodes : nodes[n] \in NodeRow
        BY TablesSound DEF TypeOK
    <3>. QED
        BY <2>2, <3>1, NodeUpdatedWrites
  <2>3. CASE \E ns \in SUBSET Node, add, remove \in SUBSET Tag :
                NodesBulkUpdated(a, ns, add, remove)
      BY <2>3, NodesBulkUpdatedWrites
  <2>4. CASE \E n \in Node : NodeDeleted(a, n)
      BY <2>4, NodeDeletedWrites
  <2>5. CASE \E m \in Map, n \in Node, pos \in Position \cup {Keep},
                g \in Group \cup {Nil, Keep} : NodeMoved(a, m, n, pos, g)
      BY <2>5, NodeMovedWrites
  <2>6. CASE \E in \in TranscludeInput, e \in Edge : NodeTranscluded(a, in, e)
      BY <2>6, NodeTranscludedWrites
  <2>7. CASE \E m \in Map, n \in Node : NodeRemoved(a, m, n)
      BY <2>7, NodeRemovedWrites
  <2>8. CASE \E m \in Map, s, t \in Node, r \in AskedRelationship, e \in Edge :
                EdgeCreated(a, m, s, t, r, e)
      BY <2>8, EdgeCreatedWrites
  <2>9. CASE \E e \in Edge : EdgeDeleted(a, e)
      BY <2>9, EdgeDeletedWrites
  <2>10. CASE \E m \in Map, g \in Group, ti \in Title, ns \in SUBSET Node :
                 GroupCreated(a, m, g, ti, ns)
      BY <2>10, GroupCreatedWrites
  <2>11. CASE \E g \in Group, ti \in Title : GroupUpdated(a, g, ti)
      BY <2>11, GroupUpdatedWrites
  <2>12. CASE \E m \in Map, g \in Group, d \in Offset : GroupMoved(a, m, g, d)
      BY <2>12, GroupMovedWrites
  <2>13. CASE \E m \in Map, g \in Group, ns \in SUBSET Node : GroupMembersSet(a, m, g, ns)
      BY <2>13, GroupMembersSetWrites
  <2>14. CASE \E g \in Group : GroupDeleted(a, g)
      BY <2>14, GroupDeletedWrites
  <2>. QED
      BY <2>1, <2>2, <2>3, <2>4, <2>5, <2>6, <2>7, <2>8, <2>9, <2>10, <2>11, <2>12,
         <2>13, <2>14 DEF ContentChange
<1>2. UNCHANGED maps
    BY DEF ContentChange, NodeCreated, CreateNode, NodeUpdated, ApplyEdit,
           NodesBulkUpdated, BulkUpdateNodes, NodeDeleted, DeleteNode, NodeMoved,
           SetPlacement, NodeTranscluded, Transclude, NodeRemoved, RemoveFromMap,
           EdgeCreated, CreateEdge, EdgeDeleted, DeleteEdge, GroupCreated, CreateGroup,
           GroupUpdated, UpdateGroup, GroupMoved, MoveGroup, GroupMembersSet,
           SetGroupMembers, GroupDeleted, DeleteGroup
<1>. QED
    BY <1>1, <1>2

-----------------------------------------------------------------------------
(* The log stays in order. *)

(* A filed entry gets an id nobody has, and everything else stays but the *)
(* actor's redo tail.                                                     *)
LEMMA FiledLog ==
    ASSUME Logged, NEW a, NEW x, Files(a, x)
    PROVE  /\ issued + 1 \in DOMAIN log' /\ log'[issued + 1] = x
           /\ issued + 1 \notin DOMAIN log
           /\ DOMAIN log' \subseteq DOMAIN log \cup {issued + 1}
           /\ \A i \in DOMAIN log \cap DOMAIN log' : log'[i] = log[i]
           /\ issued \in Nat /\ issued' = issued + 1 /\ issued' \in 0..MaxEntries
<1>1. issued \in Nat /\ issued + 1 \notin DOMAIN log
    BY MaxEntriesAssumption DEF Logged
<1>2. issued' = issued + 1 /\ issued' \in 0..MaxEntries
    BY <1>1, MaxEntriesAssumption DEF Files, Issue, Logged
<1>. QED
    BY <1>1, <1>2 DEF Files, Put, ClearedRedo, Restrict

LEMMA FoldedLog ==
    ASSUME Logged, NEW a, NEW k, NEW s, Folds(a, k, s)
    PROVE  /\ k \in DOMAIN log /\ DOMAIN log' = DOMAIN log
           /\ \A i \in DOMAIN log \ {k} : log'[i] = log[i]
           /\ log'[k] = [log[k] EXCEPT !.forward = s]
           /\ log'[k].forward = s
           /\ log'[k].actor = log[k].actor /\ log'[k].map = log[k].map
           /\ log'[k].action = log[k].action /\ log'[k].undone = log[k].undone
           /\ log'[k].inverse = log[k].inverse
           /\ Row(log'[k])
<1>1. k \in DOMAIN log /\ DOMAIN log' = DOMAIN log
    BY DEF Folds, Live
<1>2. /\ \A i \in DOMAIN log \ {k} : log'[i] = log[i]
      /\ log'[k] = [log[k] EXCEPT !.forward = s]
    BY <1>1 DEF Folds
<1>3. Row(log[k])
    BY <1>1 DEF Logged
<1>4. /\ log'[k].forward = s
      /\ log'[k].actor = log[k].actor /\ log'[k].map = log[k].map
      /\ log'[k].action = log[k].action /\ log'[k].undone = log[k].undone
      /\ log'[k].inverse = log[k].inverse
    BY <1>2, <1>3 DEF Row
<1>5. log'[k] = [actor |-> log[k].actor, map |-> log[k].map, action |-> log[k].action,
                 inverse |-> log[k].inverse, forward |-> s, undone |-> log[k].undone]
    BY <1>2, <1>3 DEF Row
<1>6. Row(log'[k])
    BY <1>3, <1>5 DEF Row, Folds
<1>. QED
    BY <1>1, <1>2, <1>4, <1>6

LEMMA WritesKeepLogged ==
    ASSUME Logged, maps \subseteq maps', NEW a, Writes(a)
    PROVE  Logged'
<1>1. CASE Unlogged
    BY <1>1 DEF Unlogged, Logged
<1>2. ASSUME NEW x, Files(a, x) PROVE Logged'
  <2>1. Row(x) /\ x.map \in maps \cup {Nil}
    BY <1>2 DEF Files
  <2>2. DOMAIN log' \subseteq 1..issued'
    BY <1>2, FiledLog DEF Logged
  <2>3. ASSUME NEW i \in DOMAIN log' PROVE Row(log'[i]) /\ log'[i].map \in maps' \cup {Nil}
    BY <1>2, <2>1, <2>3, FiledLog DEF Logged
  <2>. QED
    BY <1>2, <2>2, <2>3, FiledLog DEF Logged
<1>3. ASSUME NEW k, NEW s, Folds(a, k, s) PROVE Logged'
  <2>1. issued' = issued
    BY <1>3 DEF Folds
  <2>2. ASSUME NEW i \in DOMAIN log' PROVE Row(log'[i]) /\ log'[i].map \in maps' \cup {Nil}
    BY <1>3, <2>2, FoldedLog DEF Logged
  <2>. QED
    BY <1>3, <2>1, <2>2, FoldedLog DEF Logged
<1>. QED
    BY <1>1, <1>2, <1>3 DEF Writes

LEMMA MapDeletedKeepsLogged ==
    ASSUME Logged, Sound(Tables), NEW a \in Actor, NEW m \in Map, MapDeleted(a, m)
    PROVE  Logged'
<1>. DEFINE ms  == {m}
            gr  == GroupsIn(GroupsOf(m))
            pl  == PlacesOf(places, {m} \X Node)
            es  == {e \in edges : e.map = m}
            was == [Blank EXCEPT !.maps = ms, !.groups = gr, !.places = pl, !.edges = es]
            x   == Entry(a, Nil, "map.delete", was, was)
<1>1. /\ ms \in SUBSET Map /\ Fits(gr, Group, GroupRow)
      /\ Fits(pl, Map \X Node, PlaceRow)
      /\ es \in SUBSET EdgeRow /\ Once(es)
    BY PiecesNow
<1>2. log' = Put(EntriesOff(m), issued + 1, x) /\ Issue /\ maps' = maps \ {m}
    BY DEF MapDeleted, DeleteMap
<1>. HIDE DEF ms, gr, pl, es
<1>3. Payload(was)
    BY <1>1, BlankIsPayload, MapPieces
<1>. HIDE DEF was
<1>4. Row(x) /\ x.map = Nil
    BY <1>3 DEF Row, Entry, ActionNames
<1>. HIDE DEF x
<1>5. issued \in Nat /\ issued' = issued + 1 /\ issued' \in 0..MaxEntries
    BY <1>2, MaxEntriesAssumption DEF Issue, Logged
<1>6. DOMAIN log' \subseteq 1..issued'
    BY <1>2, <1>5 DEF Put, EntriesOff, Restrict, Logged
<1>7. ASSUME NEW i \in DOMAIN log' PROVE Row(log'[i]) /\ log'[i].map \in maps' \cup {Nil}
    BY <1>2, <1>4, <1>7 DEF Put, EntriesOff, Restrict, Logged
<1>. QED
    BY <1>5, <1>6, <1>7 DEF Logged

(* Undo and redo turn the mark of one entry, and lose those of maps that are *)
(* no more.                                                                  *)
LEMMA ReappliedLog ==
    ASSUME Logged, NEW i \in DOMAIN log, NEW redo \in BOOLEAN, Reapply(i, redo)
    PROVE  /\ DOMAIN log' = {j \in DOMAIN log : log[j].map \in maps' \cup {Nil}}
           /\ issued' = issued
           /\ \A j \in DOMAIN log' : /\ j # i => log'[j] = log[j]
                                     /\ Row(log'[j])
                                     /\ log'[j].actor = log[j].actor
                                     /\ log'[j].map = log[j].map
                                     /\ log'[j].action = log[j].action
                                     /\ log'[j].inverse = log[j].inverse
                                     /\ log'[j].forward = log[j].forward
           /\ i \in DOMAIN log' => log'[i].undone = ~redo
<1>. DEFINE marked == [log EXCEPT ![i].undone = ~redo]
            keep == {j \in DOMAIN log : log[j].map \in maps' \cup {Nil}}
<1>1. log' = Restrict(marked, keep) /\ issued' = issued
    BY DEF Reapply
<1>2. DOMAIN marked = DOMAIN log
    OBVIOUS
<1>3. marked[i] = [log[i] EXCEPT !.undone = ~redo]
    OBVIOUS
<1>4. \A j \in DOMAIN log \ {i} : marked[j] = log[j]
    OBVIOUS
<1>. HIDE DEF marked
<1>5. Row(log[i])
    BY DEF Logged
<1>6. marked[i] = [actor |-> log[i].actor, map |-> log[i].map, action |-> log[i].action,
                   inverse |-> log[i].inverse, forward |-> log[i].forward, undone |-> ~redo]
    BY <1>3, <1>5 DEF Row
<1>7. Row(marked[i])
    BY <1>5, <1>6 DEF Row
<1>8. \A j \in DOMAIN log : Row(log[j])
    BY DEF Logged
<1>9. DOMAIN log' = keep /\ \A j \in keep : log'[j] = marked[j]
    BY <1>1, <1>2 DEF Restrict
<1>10. keep \subseteq DOMAIN log
    OBVIOUS
<1>11. DOMAIN log' = {j \in DOMAIN log : log[j].map \in maps' \cup {Nil}}
    BY <1>9
<1>. HIDE DEF keep
<1>12. /\ marked[i].actor = log[i].actor /\ marked[i].map = log[i].map
       /\ marked[i].action = log[i].action /\ marked[i].inverse = log[i].inverse
       /\ marked[i].forward = log[i].forward /\ marked[i].undone = ~redo
    BY <1>6
<1>13. ASSUME NEW j \in DOMAIN log'
       PROVE  /\ j # i => log'[j] = log[j]
              /\ Row(log'[j])
              /\ log'[j].actor = log[j].actor
              /\ log'[j].map = log[j].map
              /\ log'[j].action = log[j].action
              /\ log'[j].inverse = log[j].inverse
              /\ log'[j].forward = log[j].forward
  <2>1. CASE j = i
      BY <2>1, <1>7, <1>9, <1>12
  <2>2. CASE j # i
      BY <2>2, <1>4, <1>8, <1>9, <1>10
  <2>. QED
      BY <2>1, <2>2
<1>14. i \in DOMAIN log' => log'[i].undone = ~redo
    BY <1>9, <1>12
<1>. QED
    BY <1>1, <1>11, <1>13, <1>14

LEMMA ReapplyKeepsLogged ==
    ASSUME Logged, NEW i \in DOMAIN log, NEW redo \in BOOLEAN, Reapply(i, redo)
    PROVE  Logged'
<1>1. issued' = issued /\ DOMAIN log' = {j \in DOMAIN log : log[j].map \in maps' \cup {Nil}}
    BY ReappliedLog
<1>2. issued' \in 0..MaxEntries /\ DOMAIN log' \subseteq 1..issued'
    BY <1>1 DEF Logged
<1>3. ASSUME NEW j \in DOMAIN log' PROVE Row(log'[j]) /\ log'[j].map \in maps' \cup {Nil}
  <2>1. Row(log'[j]) /\ log'[j].map = log[j].map
      BY ReappliedLog
  <2>. QED
      BY <1>1, <2>1
<1>. QED
    BY <1>2, <1>3 DEF Logged

(* Undo and redo take one of the entries there are. *)
LEMMA UndoReapplies ==
    ASSUME Logged, NEW a, NEW m, Undo(a, m)
    PROVE  \E i \in Live(a) : Reapply(i, FALSE)
<1>1. issued \in Nat /\ Undoable(a, m) \in SUBSET (1 .. issued)
    BY MaxEntriesAssumption DEF Logged, Live, Undoable
<1>2. Max(Undoable(a, m)) \in Undoable(a, m) /\ Reapply(Max(Undoable(a, m)), FALSE)
    BY <1>1, MaxIsOne DEF Undo
<1>. QED
    BY <1>2 DEF Undoable

LEMMA RedoReapplies ==
    ASSUME Logged, NEW a, NEW m, Redo(a, m)
    PROVE  \E i \in Undone(a) : Reapply(i, TRUE)
<1>1. issued \in Nat /\ Redoable(a, m) \in SUBSET (1 .. issued)
    BY MaxEntriesAssumption DEF Logged, Undone, Redoable
<1>2. Min(Redoable(a, m)) \in Redoable(a, m) /\ Reapply(Min(Redoable(a, m)), TRUE)
    BY <1>1, MinIsOne DEF Redo
<1>. QED
    BY <1>2 DEF Redoable

(* The tables that applying an entry leaves. *)
LEMMA ReapplyKeepsSound ==
    ASSUME Logged, Sound(Tables), NEW i \in DOMAIN log, NEW redo \in BOOLEAN, Reapply(i, redo)
    PROVE  Sound(Tables')
<1>. DEFINE s  == IF redo THEN log[i].forward ELSE log[i].inverse
            db == Applied(Tables, log[i].action, s, redo)
<1>1. Payload(s) /\ log[i].action \in ActionNames
    BY DEF Logged, Row
<1>2. Sound(db)
    BY <1>1, AppliedSound
<1>3. /\ maps' = db.maps /\ nodes' = db.nodes /\ places' = db.places
      /\ edges' = db.edges /\ groups' = db.groups
    BY DEF Reapply
<1>. HIDE DEF db
<1>4. Tables' = [maps |-> db.maps, nodes |-> db.nodes, places |-> db.places,
                 edges |-> db.edges, groups |-> db.groups]
    BY <1>3 DEF Tables
<1>. QED
    BY <1>2, <1>4 DEF Sound, TypedDb
-----------------------------------------------------------------------------
(* The invariant of the journal. *)

\* What every operation, undo and redo keep: the tables refer to rows that
\* are there and say each thing once, and the log is in order.
JournalInv == TypeOK /\ Integrity /\ OneEdgePerClaim /\ Logged

\* Every change is a step of the store, whatever the journal makes of it.
LEMMA ChangeIsStoreStep ==
    ASSUME NEW a, Change(a)
    PROVE  NextTables
<1>1. CASE MapChange(a)
    BY <1>1 DEF MapChange, MapCreated, MapDeleted, NextTables, MapStep
<1>2. CASE ContentChange(a)
  <2>1. CASE \E in \in NewNodeInput, n \in Node, e \in Edge : NodeCreated(a, in, n, e)
      BY <2>1 DEF NodeCreated, NextTables, NodeStep
  <2>2. CASE \E n \in Node, ty \in Type, ti \in Title, tg \in SUBSET Tag :
                n \in DOMAIN nodes /\ NodeUpdated(a, n, nodes[n], ty, ti, tg)
      BY <2>2 DEF NodeUpdated, UpdateNode, NextTables, NodeStep
  <2>3. CASE \E ns \in SUBSET Node, add, remove \in SUBSET Tag :
                NodesBulkUpdated(a, ns, add, remove)
      BY <2>3 DEF NodesBulkUpdated, NextTables, NodeStep
  <2>4. CASE \E n \in Node : NodeDeleted(a, n)
      BY <2>4 DEF NodeDeleted, NextTables, NodeStep
  <2>5. CASE \E m \in Map, n \in Node, pos \in Position \cup {Keep},
                g \in Group \cup {Nil, Keep} : NodeMoved(a, m, n, pos, g)
      BY <2>5 DEF NodeMoved, NextTables, PlaceStep
  <2>6. CASE \E in \in TranscludeInput, e \in Edge : NodeTranscluded(a, in, e)
      BY <2>6 DEF NodeTranscluded, NextTables, PlaceStep
  <2>7. CASE \E m \in Map, n \in Node : NodeRemoved(a, m, n)
      BY <2>7 DEF NodeRemoved, NextTables, PlaceStep
  <2>8. CASE \E m \in Map, s, t \in Node, r \in AskedRelationship, e \in Edge :
                EdgeCreated(a, m, s, t, r, e)
      BY <2>8 DEF EdgeCreated, NextTables, EdgeStep
  <2>9. CASE \E e \in Edge : EdgeDeleted(a, e)
      BY <2>9 DEF EdgeDeleted, NextTables, EdgeStep
  <2>10. CASE \E m \in Map, g \in Group, ti \in Title, ns \in SUBSET Node :
                 GroupCreated(a, m, g, ti, ns)
      BY <2>10 DEF GroupCreated, NextTables, GroupStep
  <2>11. CASE \E g \in Group, ti \in Title : GroupUpdated(a, g, ti)
      BY <2>11 DEF GroupUpdated, NextTables, GroupStep
  <2>12. CASE \E m \in Map, g \in Group, d \in Offset : GroupMoved(a, m, g, d)
      BY <2>12 DEF GroupMoved, NextTables, GroupStep
  <2>13. CASE \E m \in Map, g \in Group, ns \in SUBSET Node : GroupMembersSet(a, m, g, ns)
      BY <2>13 DEF GroupMembersSet, NextTables, GroupStep
  <2>14. CASE \E g \in Group : GroupDeleted(a, g)
      BY <2>14 DEF GroupDeleted, NextTables, GroupStep
  <2>. QED
      BY <1>2, <2>1, <2>2, <2>3, <2>4, <2>5, <2>6, <2>7, <2>8, <2>9, <2>10, <2>11,
         <2>12, <2>13, <2>14 DEF ContentChange
<1>. QED
    BY <1>1, <1>2 DEF Change

LEMMA InvIsSound == JournalInv => Sound(Tables) /\ Logged
BY TablesSound DEF JournalInv, Integrity

\* A step of the store leaves its invariants in force.
LEMMA ChangeKeepsTables ==
    ASSUME JournalInv, NEW a, Change(a)
    PROVE  TypeOK' /\ Integrity' /\ OneEdgePerClaim' /\ Sound(Tables')
<1>1. [TableStep]_tables
    BY ChangeIsStoreStep DEF TableStep
<1>2. TypeOK' /\ Integrity' /\ OneEdgePerClaim'
    BY <1>1, TypeOKStep, IntegrityStep, OneEdgeStep DEF JournalInv
<1>. QED
    BY <1>2, TablesSoundNext DEF Integrity

LEMMA ChangeKeepsLogged ==
    ASSUME JournalInv, NEW a \in Actor, Change(a)
    PROVE  Logged'
<1>1. Logged /\ Sound(Tables) /\ Sound(Tables')
    BY InvIsSound, ChangeKeepsTables
<1>2. CASE ContentChange(a)
    BY <1>1, <1>2, ContentChangeWrites, WritesKeepLogged
<1>3. ASSUME NEW m \in Map, MapCreated(m) PROVE Logged'
    BY <1>1, <1>3 DEF MapCreated, CreateMap, Logged
<1>4. ASSUME NEW m \in Map, MapDeleted(a, m) PROVE Logged'
    BY <1>1, <1>4, MapDeletedKeepsLogged
<1>. QED
    BY <1>2, <1>3, <1>4 DEF Change, MapChange

(* An edit written over the row its process read keeps them as well, whatever *)
(* has become of that row.                                                    *)
ReadOK == read \in [Process -> ReadRow \cup {Nil}]

LEMMA EditWrittenIsEdit ==
    ASSUME ReadOK, NEW a \in Actor, EditWritten(a)
    PROVE  \E n \in Node, row \in NodeRow, ty \in Type, ti \in Title, tg \in SUBSET Tag :
              /\ NodeUpdated(a, n, row, ty, ti, tg)
              /\ \E p \in Process : /\ read[p] # Nil /\ read'[p] = Nil
                                    /\ read[p].node = n /\ read[p].row = row
<1>1. PICK p \in Process, ty \in Type, ti \in Title, tg \in SUBSET Tag :
         Done(p) /\ NodeUpdated(a, read[p].node, read[p].row, ty, ti, tg)
    BY DEF EditWritten
<1>2. read[p] \in ReadRow /\ read[p] # Nil /\ read'[p] = Nil
    BY <1>1 DEF ReadOK, Done
<1>3. read[p].node \in Node /\ read[p].row \in NodeRow
    BY <1>2 DEF ReadRow
<1>. QED
    BY <1>1, <1>2, <1>3

LEMMA EditKeepsTables ==
    ASSUME JournalInv, ReadOK, NEW a \in Actor, EditWritten(a)
    PROVE  TypeOK' /\ Integrity' /\ OneEdgePerClaim' /\ Sound(Tables')
<1>1. AnyEdit
    BY EditWrittenIsEdit DEF AnyEdit, NodeUpdated
<1>2. [TableStep]_tables
    BY <1>1 DEF TableStep
<1>3. TypeOK' /\ Integrity' /\ OneEdgePerClaim'
    BY <1>2, TypeOKStep, IntegrityStep, OneEdgeStep DEF JournalInv
<1>. QED
    BY <1>3, TablesSoundNext DEF Integrity

LEMMA EditWrites ==
    ASSUME JournalInv, ReadOK, NEW a \in Actor, EditWritten(a)
    PROVE  Writes(a) /\ UNCHANGED maps
<1>1. Logged /\ Sound(Tables) /\ Sound(Tables')
    BY InvIsSound, EditKeepsTables
<1>2. PICK n \in Node, row \in NodeRow, ty \in Type, ti \in Title, tg \in SUBSET Tag :
         NodeUpdated(a, n, row, ty, ti, tg)
    BY EditWrittenIsEdit
<1>. QED
    BY <1>1, <1>2, NodeUpdatedWrites

(* Undo and redo are no step of the store; what they apply is sound, and the *)
(* foreign keys turn down what is not.                                       *)
LEMMA ReapplyKeepsInv ==
    ASSUME JournalInv, NEW i \in DOMAIN log, NEW redo \in BOOLEAN, Reapply(i, redo)
    PROVE  JournalInv'
<1>1. Logged /\ Sound(Tables)
    BY InvIsSound
<1>2. Sound(Tables')
    BY <1>1, ReapplyKeepsSound
<1>3. Logged'
    BY <1>1, ReapplyKeepsLogged
<1>4. ForeignKeys'
    BY DEF Reapply
<1>. QED
    BY <1>2, <1>3, <1>4, TablesSoundNext DEF JournalInv, Integrity

LEMMA UndoOrRedoReapplies ==
    ASSUME Logged, NEW a, UndoOrRedo(a)
    PROVE  \E i \in DOMAIN log, redo \in BOOLEAN : Reapply(i, redo)
<1>1. ASSUME NEW m, Undo(a, m) PROVE \E i \in DOMAIN log : Reapply(i, FALSE)
    BY <1>1, UndoReapplies DEF Live
<1>2. ASSUME NEW m, Redo(a, m) PROVE \E i \in DOMAIN log : Reapply(i, TRUE)
    BY <1>2, RedoReapplies DEF Undone
<1>. QED
    BY <1>1, <1>2 DEF UndoOrRedo

LEMMA JournalInvInit == Init => JournalInv
<1>. SUFFICES ASSUME Init PROVE JournalInv
    OBVIOUS
<1>1. TypeOK
    BY InitTypeOK DEF Init, InitShared
<1>2. Integrity /\ OneEdgePerClaim
    BY DEF Init, InitShared, InitTables, Integrity, ForeignKeys, PlacesRefer, EdgesRefer,
           GroupsRefer, EndpointsPlaced, OneEdgePerClaim, Empty
<1>3. Logged
    BY MaxEntriesAssumption DEF Init, Logged, Empty
<1>. QED
    BY <1>1, <1>2, <1>3 DEF JournalInv

LEMMA JournalInvStep == JournalInv /\ ReadOK /\ [Next]_vars => JournalInv'
<1>. SUFFICES ASSUME JournalInv, ReadOK, [Next]_vars PROVE JournalInv'
    OBVIOUS
<1>1. ASSUME NEW a \in Actor, Change(a) PROVE JournalInv'
    BY <1>1, ChangeKeepsTables, ChangeKeepsLogged DEF JournalInv
<1>2. ASSUME NEW a \in Actor, UndoOrRedo(a) PROVE JournalInv'
    BY <1>2, InvIsSound, UndoOrRedoReapplies, ReapplyKeepsInv
<1>4. ASSUME NEW a \in Actor, EditWritten(a) PROVE JournalInv'
  <2>1. TypeOK' /\ Integrity' /\ OneEdgePerClaim'
      BY <1>4, EditKeepsTables
  <2>2. Logged'
      BY <1>4, EditWrites, WritesKeepLogged DEF JournalInv
  <2>. QED
      BY <2>1, <2>2 DEF JournalInv
<1>3. CASE UNCHANGED <<tables, log, issued>>
  <2>1. [TableStep]_tables
      BY <1>3 DEF tables
  <2>2. TypeOK' /\ Integrity' /\ OneEdgePerClaim'
      BY <2>1, TypeOKStep, IntegrityStep, OneEdgeStep DEF JournalInv
  <2>3. Logged'
      BY <1>3 DEF JournalInv, tables, Logged
  <2>. QED
      BY <2>2, <2>3 DEF JournalInv
<1>5. CASE EditRead \/ EditRefused \/ UNCHANGED vars
    BY <1>3, <1>5 DEF EditRead, EditRefused, vars, tables
<1>. QED
    BY <1>1, <1>2, <1>4, <1>5 DEF Next

(* What the processes that edit have read are rows there were. *)
LEMMA ReadOKStep == JournalInv /\ ReadOK /\ [Next]_vars => ReadOK'
<1>. SUFFICES ASSUME JournalInv, ReadOK, [Next]_vars PROVE ReadOK'
    OBVIOUS
<1>1. ASSUME NEW p \in Process, NEW n \in Node, ReadNode(p, n) PROVE ReadOK'
  <2>1. nodes[n] \in NodeRow
      BY <1>1 DEF JournalInv, TypeOK, ReadNode
  <2>. QED
      BY <1>1, <2>1 DEF ReadNode, ReadOK, ReadRow
<1>2. ASSUME NEW p \in Process, Done(p) PROVE ReadOK'
    BY <1>2 DEF Done, ReadOK
<1>3. CASE UNCHANGED read
    BY <1>3 DEF ReadOK
<1>. QED
    BY <1>1, <1>2, <1>3 DEF Next, EditRead, EditWritten, EditRefused, vars

LEMMA TheyHold == Spec => [](JournalInv /\ ReadOK)
<1>1. Init => JournalInv /\ ReadOK
    BY JournalInvInit DEF Init, InitShared, ReadOK
<1>2. (JournalInv /\ ReadOK) /\ [Next]_vars => (JournalInv /\ ReadOK)'
    BY JournalInvStep, ReadOKStep
<1>. QED
    BY <1>1, <1>2, PTL DEF Spec

LEMMA JournalInvHolds == Spec => []JournalInv
BY TheyHold, PTL

LEMMA JournalInvTypes == JournalInv /\ ReadOK => JournalTypeOK
BY DEF JournalInv, Logged, Row, Payload, JournalTypeOK, SharedTypeOK, ReadOK

(* However many actors write, undo and redo, the tables hold what their  *)
(* columns allow and the log holds pieces of such tables, each under an  *)
(* id handed out and on a map that exists.                               *)
THEOREM JournalTyped == Spec => []JournalTypeOK
BY TheyHold, JournalInvTypes, PTL

(* Replaying an inverse or a forward onto tables that have moved on leaves *)
(* no edge with an end that is not on its map.                             *)
THEOREM UndoKeepsEnds == Spec => []EndpointsPlaced
<1>1. JournalInv => EndpointsPlaced
    BY DEF JournalInv, Integrity
<1>. QED
    BY <1>1, JournalInvHolds, PTL

(* ... nor two edges that say the same, or share an id. *)
THEOREM UndoKeepsClaims == Spec => []OneEdgePerClaim
<1>1. JournalInv => OneEdgePerClaim
    BY DEF JournalInv
<1>. QED
    BY <1>1, JournalInvHolds, PTL

-----------------------------------------------------------------------------
(* What each restore leaves, table by table. *)

IsDb(db) == db = [maps |-> db.maps, nodes |-> db.nodes, places |-> db.places,
                  edges |-> db.edges, groups |-> db.groups]

\* The groups and placements after restoreGroupTx and restorePlacementsTx, the
\* edges restoreEdgesTx finds both ends of, and what it leaves.
GroupsBack(gr, old) ==
    Over([g \in DOMAIN old |-> IF g \in DOMAIN gr THEN [gr[g] EXCEPT !.title = old[g].title]
                               ELSE old[g]], gr)
PlacesBack(pl, old) ==
    Over([p \in DOMAIN old |-> IF p \in DOMAIN pl THEN [pl[p] EXCEPT !.pos = old[p].pos]
                               ELSE old[p]], pl)
Rewritten(f, old) == [x \in DOMAIN f |-> IF x \in DOMAIN old THEN old[x] ELSE f[x]]
Back(pl, old) == {e \in old : Placed(pl, e.map, e.source) /\ Placed(pl, e.map, e.target)}
EdgesBack(es, pl, old) ==
    {e \in es : \A f \in Back(pl, old) : e.id # f.id /\ Key(e) # Key(f)} \cup Back(pl, old)

\* What is left without the rows of S, the nodes of ns, the placements of ps or
\* the ids of old.
Off(f, S)            == Restrict(f, DOMAIN f \ S)
PlacesOff(pl, ns)    == Restrict(pl, {p \in DOMAIN pl : p[2] \notin ns})
EdgesOff(es, ns)     == {e \in es : \A n \in ns : ~Touches(e, n)}
EdgesUnplaced(es, ps) == {e \in es : \A p \in ps : ~(e.map = p[1] /\ Touches(e, p[2]))}
EdgesNot(es, old)    == {e \in es : e.id \notin EdgeIds(old)}

\* Two tables of the same five parts are the same.
LEMMA SameDb ==
    ASSUME NEW c, IsDb(c), NEW d, IsDb(d), c.maps = d.maps, c.nodes = d.nodes,
           c.places = d.places, c.edges = d.edges, c.groups = d.groups
    PROVE  c = d
BY DEF IsDb

LEMMA MapsSet ==
    ASSUME NEW db, IsDb(db), NEW x, NEW c, c = [db EXCEPT !.maps = x]
    PROVE  /\ IsDb(c) /\ c.maps = x /\ c.nodes = db.nodes
           /\ c.places = db.places /\ c.edges = db.edges /\ c.groups = db.groups
BY DEF IsDb

LEMMA NodesSet ==
    ASSUME NEW db, IsDb(db), NEW x, NEW c, c = [db EXCEPT !.nodes = x]
    PROVE  /\ IsDb(c) /\ c.maps = db.maps /\ c.nodes = x
           /\ c.places = db.places /\ c.edges = db.edges /\ c.groups = db.groups
BY DEF IsDb

LEMMA PlacesSet ==
    ASSUME NEW db, IsDb(db), NEW x, NEW c, c = [db EXCEPT !.places = x]
    PROVE  /\ IsDb(c) /\ c.maps = db.maps /\ c.nodes = db.nodes
           /\ c.places = x /\ c.edges = db.edges /\ c.groups = db.groups
BY DEF IsDb

LEMMA EdgesSet ==
    ASSUME NEW db, IsDb(db), NEW x, NEW c, c = [db EXCEPT !.edges = x]
    PROVE  /\ IsDb(c) /\ c.maps = db.maps /\ c.nodes = db.nodes
           /\ c.places = db.places /\ c.edges = x /\ c.groups = db.groups
BY DEF IsDb

LEMMA GroupsSet ==
    ASSUME NEW db, IsDb(db), NEW x, NEW c, c = [db EXCEPT !.groups = x]
    PROVE  /\ IsDb(c) /\ c.maps = db.maps /\ c.nodes = db.nodes
           /\ c.places = db.places /\ c.edges = db.edges /\ c.groups = x
BY DEF IsDb

LEMMA NodesRestored ==
    ASSUME NEW db, IsDb(db), NEW s, NEW c, c = RestoreNodes(db, s)
    PROVE  /\ IsDb(c) /\ c.maps = db.maps /\ c.nodes = Over(s.nodes, db.nodes)
           /\ c.places = db.places /\ c.edges = db.edges /\ c.groups = db.groups
BY NodesSet DEF RestoreNodes

LEMMA MapsRestored ==
    ASSUME NEW db, IsDb(db), NEW s, NEW c, c = RestoreMaps(db, s)
    PROVE  /\ IsDb(c) /\ c.maps = db.maps \cup s.maps /\ c.nodes = db.nodes
           /\ c.places = db.places /\ c.edges = db.edges /\ c.groups = db.groups
BY MapsSet DEF RestoreMaps

LEMMA GroupsRestored ==
    ASSUME NEW db, IsDb(db), NEW s, NEW c, c = RestoreGroups(db, s)
    PROVE  /\ IsDb(c) /\ c.maps = db.maps /\ c.nodes = db.nodes
           /\ c.places = db.places /\ c.edges = db.edges
           /\ c.groups = GroupsBack(db.groups, s.groups)
<1>1. c = [db EXCEPT !.groups = GroupsBack(db.groups, s.groups)]
    BY DEF RestoreGroups, GroupsBack
<1>. HIDE DEF GroupsBack
<1>. QED
    BY <1>1, GroupsSet

LEMMA NodesRewritten ==
    ASSUME NEW db, IsDb(db), NEW s, NEW c, c = RewriteNodes(db, s)
    PROVE  /\ IsDb(c) /\ c.maps = db.maps
           /\ c.nodes = Rewritten(db.nodes, s.nodes)
           /\ c.places = db.places /\ c.edges = db.edges /\ c.groups = db.groups
BY NodesSet DEF RewriteNodes, Rewritten

LEMMA PlacesRestored ==
    ASSUME NEW db, IsDb(db), NEW s, NEW c, c = RestorePlacements(db, s)
    PROVE  /\ IsDb(c) /\ c.maps = db.maps /\ c.nodes = db.nodes
           /\ c.places = PlacesBack(db.places, s.places)
           /\ c.edges = db.edges /\ c.groups = db.groups
<1>1. c = [db EXCEPT !.places = PlacesBack(db.places, s.places)]
    BY DEF RestorePlacements, PlacesBack
<1>. HIDE DEF PlacesBack
<1>. QED
    BY <1>1, PlacesSet

LEMMA StatesRestored ==
    ASSUME NEW db, IsDb(db), NEW s, NEW c, c = RestorePlacementState(db, s)
    PROVE  /\ IsDb(c) /\ c.maps = db.maps /\ c.nodes = db.nodes
           /\ c.places = Rewritten(db.places, s.places)
           /\ c.edges = db.edges /\ c.groups = db.groups
<1>1. c = [db EXCEPT !.places = Rewritten(db.places, s.places)]
    BY DEF RestorePlacementState, Rewritten
<1>. HIDE DEF Rewritten
<1>. QED
    BY <1>1, PlacesSet

LEMMA EdgesRestored ==
    ASSUME NEW db, IsDb(db), NEW s, NEW c, c = RestoreEdges(db, s)
    PROVE  /\ IsDb(c) /\ c.maps = db.maps /\ c.nodes = db.nodes
           /\ c.places = db.places /\ c.edges = EdgesBack(db.edges, db.places, s.edges)
           /\ c.groups = db.groups
<1>1. c = [db EXCEPT !.edges = EdgesBack(db.edges, db.places, s.edges)]
    BY DEF RestoreEdges, EdgesBack, Back
<1>. HIDE DEF EdgesBack
<1>. QED
    BY <1>1, EdgesSet

LEMMA EdgesDeleted ==
    ASSUME NEW db, IsDb(db), NEW s, NEW c, c = DeleteEdges(db, s)
    PROVE  /\ IsDb(c) /\ c.maps = db.maps /\ c.nodes = db.nodes
           /\ c.places = db.places
           /\ c.edges = EdgesNot(db.edges, s.edges)
           /\ c.groups = db.groups
BY EdgesSet DEF DeleteEdges, EdgesNot

LEMMA NodesDropped ==
    ASSUME NEW db, IsDb(db), NEW s, NEW c, c = DropNodes(db, s)
    PROVE  /\ IsDb(c) /\ c.maps = db.maps /\ c.groups = db.groups
           /\ c.nodes = Off(db.nodes, DOMAIN s.nodes)
           /\ c.places = PlacesOff(db.places, DOMAIN s.nodes)
           /\ c.edges = EdgesOff(db.edges, DOMAIN s.nodes)
<1>. DEFINE nd == Off(db.nodes, DOMAIN s.nodes)
            pl == PlacesOff(db.places, DOMAIN s.nodes)
            es == EdgesOff(db.edges, DOMAIN s.nodes)
            c1 == [db EXCEPT !.nodes = nd]
            c2 == [c1 EXCEPT !.places = pl]
<1>1. c = [c2 EXCEPT !.edges = es]
    BY DEF DropNodes, Off, PlacesOff, EdgesOff
<1>. HIDE DEF nd, pl, es
<1>2. IsDb(c1) /\ c1.nodes = nd /\ c1.maps = db.maps /\ c1.places = db.places
      /\ c1.edges = db.edges /\ c1.groups = db.groups
    BY NodesSet
<1>. HIDE DEF c1
<1>3. IsDb(c2) /\ c2.nodes = nd /\ c2.maps = db.maps /\ c2.places = pl
      /\ c2.edges = db.edges /\ c2.groups = db.groups
    BY <1>2, PlacesSet
<1>. HIDE DEF c2
<1>4. IsDb(c) /\ c.nodes = nd /\ c.maps = db.maps /\ c.places = pl
      /\ c.edges = es /\ c.groups = db.groups
    BY <1>1, <1>3, EdgesSet
<1>. QED
    BY <1>4 DEF nd, pl, es

LEMMA PlacementsRemoved ==
    ASSUME NEW db, IsDb(db), NEW s, NEW c, c = RemovePlacements(db, s)
    PROVE  /\ IsDb(c) /\ c.maps = db.maps /\ c.nodes = db.nodes /\ c.groups = db.groups
           /\ c.places = Off(db.places, DOMAIN s.places)
           /\ c.edges = EdgesUnplaced(db.edges, DOMAIN s.places)
<1>. DEFINE pl == Off(db.places, DOMAIN s.places)
            es == EdgesUnplaced(db.edges, DOMAIN s.places)
            c1 == [db EXCEPT !.edges = es]
<1>1. c = [c1 EXCEPT !.places = pl]
    BY DEF RemovePlacements, Off, EdgesUnplaced
<1>. HIDE DEF pl, es
<1>2. IsDb(c1) /\ c1.nodes = db.nodes /\ c1.maps = db.maps /\ c1.places = db.places
      /\ c1.edges = es /\ c1.groups = db.groups
    BY EdgesSet
<1>. HIDE DEF c1
<1>3. IsDb(c) /\ c.nodes = db.nodes /\ c.maps = db.maps /\ c.places = pl
      /\ c.edges = es /\ c.groups = db.groups
    BY <1>1, <1>2, PlacesSet
<1>. QED
    BY <1>3 DEF pl, es

LEMMA GroupsDropped ==
    ASSUME NEW db, IsDb(db), NEW gs, NEW c, c = DropGroups(db, gs)
    PROVE  /\ IsDb(c) /\ c.maps = db.maps /\ c.nodes = db.nodes /\ c.edges = db.edges
           /\ c.places = Ungrouped(db.places, gs)
           /\ c.groups = Off(db.groups, gs)
<1>. DEFINE gr == Off(db.groups, gs)
            pl == Ungrouped(db.places, gs)
            c1 == [db EXCEPT !.groups = gr]
<1>1. c = [c1 EXCEPT !.places = pl]
    BY DEF DropGroups, Off
<1>. HIDE DEF pl, gr
<1>2. IsDb(c1) /\ c1.nodes = db.nodes /\ c1.maps = db.maps /\ c1.places = db.places
      /\ c1.edges = db.edges /\ c1.groups = gr
    BY GroupsSet
<1>. HIDE DEF c1
<1>3. IsDb(c) /\ c.nodes = db.nodes /\ c.maps = db.maps /\ c.places = pl
      /\ c.edges = db.edges /\ c.groups = gr
    BY <1>1, <1>2, PlacesSet
<1>. QED
    BY <1>3 DEF pl, gr

\* restoreNodeTx: the nodes, then their placements, then their edges.
LEMMA NodeRestored ==
    ASSUME NEW db, IsDb(db), NEW s, NEW c, c = RestoreNode(db, s)
    PROVE  /\ IsDb(c) /\ c.maps = db.maps /\ c.groups = db.groups
           /\ c.nodes = Over(s.nodes, db.nodes)
           /\ c.places = PlacesBack(db.places, s.places)
           /\ c.edges = EdgesBack(db.edges, PlacesBack(db.places, s.places), s.edges)
<1>. DEFINE c1 == RestoreNodes(db, s)
            c2 == RestorePlacements(c1, s)
<1>1. c = RestoreEdges(c2, s)
    BY DEF RestoreNode
<1>2. /\ IsDb(c1) /\ c1.maps = db.maps /\ c1.nodes = Over(s.nodes, db.nodes)
      /\ c1.places = db.places /\ c1.edges = db.edges /\ c1.groups = db.groups
    BY NodesRestored
<1>. HIDE DEF c1
<1>3. /\ IsDb(c2) /\ c2.maps = db.maps /\ c2.nodes = Over(s.nodes, db.nodes)
      /\ c2.places = PlacesBack(db.places, s.places)
      /\ c2.edges = db.edges /\ c2.groups = db.groups
    BY <1>2, PlacesRestored
<1>. HIDE DEF c2
<1>. QED
    BY <1>1, <1>3, EdgesRestored

\* restoreMapTx: the map, then its groups, then placements, then edges.
LEMMA MapRestored ==
    ASSUME NEW db, IsDb(db), NEW s, NEW c, c = RestoreMap(db, s)
    PROVE  /\ IsDb(c) /\ c.maps = db.maps \cup s.maps /\ c.nodes = db.nodes
           /\ c.groups = GroupsBack(db.groups, s.groups)
           /\ c.places = PlacesBack(db.places, s.places)
           /\ c.edges = EdgesBack(db.edges, PlacesBack(db.places, s.places), s.edges)
<1>. DEFINE c1 == RestoreMaps(db, s)
            c2 == RestoreGroups(c1, s)
            c3 == RestorePlacements(c2, s)
<1>1. c = RestoreEdges(c3, s)
    BY DEF RestoreMap
<1>2. /\ IsDb(c1) /\ c1.maps = db.maps \cup s.maps /\ c1.nodes = db.nodes
      /\ c1.places = db.places /\ c1.edges = db.edges /\ c1.groups = db.groups
    BY MapsRestored
<1>. HIDE DEF c1
<1>3. /\ IsDb(c2) /\ c2.maps = db.maps \cup s.maps /\ c2.nodes = db.nodes
      /\ c2.groups = GroupsBack(db.groups, s.groups)
      /\ c2.places = db.places /\ c2.edges = db.edges
    BY <1>2, GroupsRestored
<1>. HIDE DEF c2
<1>4. /\ IsDb(c3) /\ c3.maps = db.maps \cup s.maps /\ c3.nodes = db.nodes
      /\ c3.groups = GroupsBack(db.groups, s.groups)
      /\ c3.places = PlacesBack(db.places, s.places) /\ c3.edges = db.edges
    BY <1>3, PlacesRestored
<1>. HIDE DEF c3
<1>. QED
    BY <1>1, <1>4, EdgesRestored

\* restoreGroupTx: the group, then what its members were.
LEMMA GroupRestored ==
    ASSUME NEW db, IsDb(db), NEW s, NEW c, c = RestoreGroup(db, s)
    PROVE  /\ IsDb(c) /\ c.maps = db.maps /\ c.nodes = db.nodes /\ c.edges = db.edges
           /\ c.groups = GroupsBack(db.groups, s.groups)
           /\ c.places = Rewritten(db.places, s.places)
<1>. DEFINE c1 == RestoreGroups(db, s)
<1>1. c = RestorePlacementState(c1, s)
    BY DEF RestoreGroup
<1>2. /\ IsDb(c1) /\ c1.maps = db.maps /\ c1.nodes = db.nodes
      /\ c1.groups = GroupsBack(db.groups, s.groups)
      /\ c1.places = db.places /\ c1.edges = db.edges
    BY GroupsRestored
<1>. HIDE DEF c1
<1>. QED
    BY <1>1, <1>2, StatesRestored

\* What undoes a node.update: the nodes as they were, and their edges.
LEMMA EditRestored ==
    ASSUME NEW db, IsDb(db), NEW s, NEW c, c = RestoreEdges(RewriteNodes(db, s), s)
    PROVE  /\ IsDb(c) /\ c.maps = db.maps /\ c.groups = db.groups
           /\ c.nodes = Rewritten(db.nodes, s.nodes)
           /\ c.places = db.places
           /\ c.edges = EdgesBack(db.edges, db.places, s.edges)
<1>. DEFINE c1 == RewriteNodes(db, s)
<1>1. /\ IsDb(c1) /\ c1.maps = db.maps /\ c1.nodes = Rewritten(db.nodes, s.nodes)
      /\ c1.places = db.places /\ c1.edges = db.edges /\ c1.groups = db.groups
    BY NodesRewritten
<1>2. c = RestoreEdges(c1, s)
    OBVIOUS
<1>. HIDE DEF c1
<1>. QED
    BY <1>1, <1>2, EdgesRestored

\* What undoes the creation of a group: its members' state, then the group.
LEMMA GroupTakenBack ==
    ASSUME NEW db, IsDb(db), NEW s, NEW c,
           c = DropGroups(RestorePlacementState(db, s), s.gone)
    PROVE  /\ IsDb(c) /\ c.maps = db.maps /\ c.nodes = db.nodes /\ c.edges = db.edges
           /\ c.places = Ungrouped(Rewritten(db.places, s.places), s.gone)
           /\ c.groups = Off(db.groups, s.gone)
<1>. DEFINE c1 == RestorePlacementState(db, s)
<1>1. /\ IsDb(c1) /\ c1.maps = db.maps /\ c1.nodes = db.nodes
      /\ c1.places = Rewritten(db.places, s.places)
      /\ c1.edges = db.edges /\ c1.groups = db.groups
    BY StatesRestored
<1>. DEFINE gs == s.gone
<1>2. c = DropGroups(c1, gs)
    OBVIOUS
<1>. HIDE DEF c1, gs
<1>3. /\ IsDb(c) /\ c.maps = c1.maps /\ c.nodes = c1.nodes /\ c.edges = c1.edges
      /\ c.places = Ungrouped(c1.places, gs)
      /\ c.groups = Off(c1.groups, gs)
    BY <1>1, <1>2, GroupsDropped
<1>. QED
    BY <1>1, <1>3 DEF gs

-----------------------------------------------------------------------------
(* Undo spares what others have added. *)

\* Every creation made notes of its own: no two entries made the same one, and
\* what an entry puts back it has also made.
Spared ==
    /\ \A i \in DOMAIN log : OwnNotes(log[i])
    /\ \A i, j \in DOMAIN log :
          i # j /\ log[i].action = "node.create" /\ log[j].action = "node.create"
          => DOMAIN log[i].inverse.nodes \cap DOMAIN log[j].inverse.nodes = {}

LEMMA FilingSpares ==
    ASSUME Logged, Spared, NEW a, NEW x, Files(a, x)
    PROVE  Spared'
<1>1. OwnNotes(x) /\ NewNotes(x)
    BY DEF Files
<1>2. ASSUME NEW i \in DOMAIN log' PROVE OwnNotes(log'[i])
    BY <1>1, <1>2, FiledLog DEF Spared
<1>3. ASSUME NEW i \in DOMAIN log, x.action = "node.create"
      PROVE  DOMAIN x.inverse.nodes \cap DOMAIN log[i].inverse.nodes = {}
    BY <1>1, <1>3 DEF NewNotes, Pieces
<1>4. ASSUME NEW i \in DOMAIN log', NEW j \in DOMAIN log', i # j,
             log'[i].action = "node.create", log'[j].action = "node.create"
      PROVE  DOMAIN log'[i].inverse.nodes \cap DOMAIN log'[j].inverse.nodes = {}
  <2>1. CASE i = issued + 1
      BY <2>1, <1>3, <1>4, FiledLog
  <2>2. CASE j = issued + 1
      BY <2>2, <1>3, <1>4, FiledLog
  <2>3. CASE i # issued + 1 /\ j # issued + 1
      BY <2>3, <1>4, FiledLog DEF Spared
  <2>. QED
      BY <2>1, <2>2, <2>3
<1>. QED
    BY <1>2, <1>4 DEF Spared

LEMMA FoldingSpares ==
    ASSUME Logged, Spared, NEW a, NEW k, NEW s, Folds(a, k, s)
    PROVE  Spared'
<1>1. OwnNotes(log'[k])
    BY FoldedLog DEF Folds
<1>2. ASSUME NEW i \in DOMAIN log'
      PROVE  /\ i \in DOMAIN log
             /\ OwnNotes(log'[i])
             /\ log'[i].action = log[i].action
             /\ log'[i].inverse = log[i].inverse
  <2>1. i \in DOMAIN log
      BY FoldedLog
  <2>2. CASE i = k
      BY <2>2, <1>1, FoldedLog
  <2>3. CASE i # k
    <3>1. \A j \in DOMAIN log \ {k} : log'[j] = log[j]
        BY FoldedLog
    <3>2. log'[i] = log[i]
        BY <2>1, <2>3, <3>1
    <3>. QED
        BY <2>1, <3>2 DEF Spared
  <2>. QED
      BY <2>1, <2>2, <2>3
<1>. QED
    BY <1>2 DEF Spared

LEMMA ReapplyingSpares ==
    ASSUME Logged, Spared, NEW i \in DOMAIN log, NEW redo \in BOOLEAN, Reapply(i, redo)
    PROVE  Spared'
<1>1. ASSUME NEW j \in DOMAIN log'
      PROVE  /\ j \in DOMAIN log
             /\ log'[j].action = log[j].action
             /\ log'[j].inverse = log[j].inverse
             /\ log'[j].forward = log[j].forward
    BY <1>1, ReappliedLog
<1>. QED
    BY <1>1 DEF Spared, OwnNotes

LEMMA MapDeletedSpares ==
    ASSUME Logged, Spared, NEW a, NEW m, MapDeleted(a, m)
    PROVE  Spared'
<1>1. PICK x : /\ x.action = "map.delete"
               /\ log' = Put(EntriesOff(m), issued + 1, x)
    BY DEF MapDeleted, Entry
<1>2. ASSUME NEW i \in DOMAIN log'
      PROVE  \/ log'[i].action = "map.delete"
             \/ i \in DOMAIN log /\ log'[i] = log[i]
    BY <1>1, <1>2 DEF Put, EntriesOff, Restrict
<1>. QED
    BY <1>2 DEF Spared, OwnNotes

LEMMA SparedStep == JournalInv /\ ReadOK /\ Spared /\ [Next]_vars => Spared'
<1>. SUFFICES ASSUME JournalInv, ReadOK, Spared, [Next]_vars PROVE Spared'
    OBVIOUS
<1>1. Logged /\ Sound(Tables)
    BY InvIsSound
<1>2. ASSUME NEW a \in Actor, ContentChange(a) PROVE Spared'
  <2>1. Sound(Tables')
      BY <1>2, ChangeKeepsTables DEF Change
  <2>2. Writes(a)
      BY <1>1, <1>2, <2>1, ContentChangeWrites
  <2>3. CASE Unlogged
      BY <2>3 DEF Unlogged, Spared
  <2>. QED
      BY <1>1, <2>2, <2>3, FilingSpares, FoldingSpares DEF Writes
<1>3. ASSUME NEW m \in Map, MapCreated(m) PROVE Spared'
    BY <1>3 DEF MapCreated, Spared
<1>4. ASSUME NEW a \in Actor, NEW m \in Map, MapDeleted(a, m) PROVE Spared'
    BY <1>1, <1>4, MapDeletedSpares
<1>5. ASSUME NEW a \in Actor, UndoOrRedo(a) PROVE Spared'
    BY <1>1, <1>5, UndoOrRedoReapplies, ReapplyingSpares
<1>6. CASE EditRead \/ EditRefused \/ UNCHANGED vars
    BY <1>6 DEF EditRead, EditRefused, vars, Spared
<1>7. ASSUME NEW a \in Actor, EditWritten(a) PROVE Spared'
  <2>1. Writes(a)
      BY <1>7, EditWrites
  <2>2. CASE Unlogged
      BY <2>2 DEF Unlogged, Spared
  <2>. QED
      BY <1>1, <2>1, <2>2, FilingSpares, FoldingSpares DEF Writes
<1>. QED
    BY <1>2, <1>3, <1>4, <1>5, <1>6, <1>7 DEF Next, Change, MapChange

LEMMA SparedHolds == Spec => []Spared
<1>1. Init => Spared
    BY DEF Init, Spared, Empty
<1>. QED
    BY <1>1, TheyHold, SparedStep, PTL DEF Spec

(* Only undoing a creation takes notes away. *)
LEMMA UndoneNotes ==
    ASSUME NEW db, IsDb(db), NEW s, NEW act \in ActionNames, act # "node.create"
    PROVE  DOMAIN db.nodes \subseteq DOMAIN Applied(db, act, s, FALSE).nodes
<1>1. \A f, g : DOMAIN g \subseteq DOMAIN Over(f, g) /\ DOMAIN g = DOMAIN Rewritten(g, f)
    BY DEF Over, Rewritten
<1>2. RestoreNode(db, s).nodes = Over(s.nodes, db.nodes)
    BY NodeRestored
<1>3. RemovePlacements(db, s).nodes = db.nodes
    BY PlacementsRemoved
<1>4. RestoreEdges(RewriteNodes(db, s), s).nodes = Rewritten(db.nodes, s.nodes)
    BY EditRestored
<1>5. RewriteNodes(db, s).nodes = Rewritten(db.nodes, s.nodes)
    BY NodesRewritten
<1>6. RestorePlacementState(db, s).nodes = db.nodes
    BY StatesRestored
<1>7. DeleteEdges(db, s).nodes = db.nodes /\ RestoreEdges(db, s).nodes = db.nodes
    BY EdgesDeleted, EdgesRestored
<1>8. RestoreGroup(db, s).nodes = db.nodes
    BY GroupRestored
<1>10. DropGroups(RestorePlacementState(db, s), s.gone).nodes = db.nodes
  <2>. DEFINE c == DropGroups(RestorePlacementState(db, s), s.gone)
  <2>1. c = DropGroups(RestorePlacementState(db, s), s.gone)
      OBVIOUS
  <2>. HIDE DEF c
  <2>2. c.nodes = db.nodes
      BY <2>1, GroupTakenBack
  <2>. QED
      BY <2>1, <2>2
<1>9. RestoreMap(db, s).nodes = db.nodes
    BY MapRestored
<1>. QED
    BY <1>1, <1>2, <1>3, <1>4, <1>5, <1>6, <1>7, <1>8, <1>9, <1>10
    DEF ActionNames, Applied

(* Undoing an entry leaves the notes another live entry has added. *)
LEMMA ReapplyKeepsAdded ==
    ASSUME Logged, Spared, NEW i \in DOMAIN log, NEW j \in DOMAIN log, i # j,
           Reapply(i, FALSE),
           log[j].action \in {"node.create", "edge.create", "node.transclude"}
    PROVE  DOMAIN log[j].forward.nodes \cap DOMAIN nodes \subseteq DOMAIN nodes'
<1>1. /\ nodes' = Applied(Tables, log[i].action, log[i].inverse, FALSE).nodes
      /\ log[i].action \in ActionNames
      /\ Tables.nodes = nodes
    BY DEF Reapply, Logged, Row, Tables
<1>2. CASE log[i].action # "node.create"
  <2>1. IsDb(Tables)
      BY DEF IsDb, Tables
  <2>2. DOMAIN Tables.nodes
            \subseteq DOMAIN Applied(Tables, log[i].action, log[i].inverse, FALSE).nodes
      BY <1>1, <1>2, <2>1, UndoneNotes
  <2>. QED
      BY <1>1, <2>2
<1>3. CASE log[i].action = "node.create"
  <2>1. DOMAIN log[j].forward.nodes \cap DOMAIN log[i].inverse.nodes = {}
      BY <1>3 DEF Spared, OwnNotes
  <2>2. DOMAIN nodes' = DOMAIN nodes \ DOMAIN log[i].inverse.nodes
      BY <1>1, <1>3 DEF Applied, DropNodes, Restrict, Tables
  <2>. QED
      BY <2>1, <2>2
<1>. QED
    BY <1>2, <1>3

(* Undoing takes away nothing that somebody else has added. *)
THEOREM UndoSpares == Spec => UndoSparesNotes
<1>1. ASSUME JournalInv, Spared, NEW a \in Actor, NEW b \in Actor,
             NEW m \in Map \cup {Nil}, a # b, Undo(a, m)
      PROVE  AddedNodes(b) \cap DOMAIN nodes \subseteq DOMAIN nodes'
  <2>1. Logged
      BY <1>1 DEF JournalInv
  <2>2. PICK i \in Live(a) : Reapply(i, FALSE)
      BY <1>1, <2>1, UndoReapplies
  <2>3. i \in DOMAIN log /\ log[i].actor = a
      BY <2>2 DEF Live
  <2>4. ASSUME NEW n \in AddedNodes(b) \cap DOMAIN nodes PROVE n \in DOMAIN nodes'
    <3>1. PICK j \in Live(b) :
             /\ log[j].action \in {"node.create", "edge.create", "node.transclude"}
             /\ n \in DOMAIN log[j].forward.nodes
        BY <2>4 DEF AddedNodes, Added
    <3>2. j \in DOMAIN log /\ i # j
        BY <1>1, <2>3, <3>1 DEF Live
    <3>. QED
        BY <1>1, <2>1, <2>2, <2>3, <2>4, <3>1, <3>2, ReapplyKeepsAdded
  <2>. QED
      BY <2>4
<1>. DEFINE Spares == \A a, b \in Actor, m \in Map \cup {Nil} :
                         a # b /\ Undo(a, m)
                         => AddedNodes(b) \cap DOMAIN nodes \subseteq DOMAIN nodes'
<1>2. JournalInv /\ Spared => Spares
    BY <1>1
<1>. HIDE DEF Spares
<1>3. JournalInv /\ Spared => [Spares]_vars
    BY <1>2
<1>4. Spec => [][Spares]_vars
    BY <1>3, JournalInvHolds, SparedHolds, PTL
<1>. QED
    BY <1>4 DEF Spares, UndoSparesNotes
-----------------------------------------------------------------------------
(***************************************************************************)
(* UndoInverts: what an operation records as its inverse, applied to the   *)
(* tables the operation left, gives the tables as they were.  One lemma    *)
(* per operation of internal/store/queries.go that journals, over a few    *)
(* facts about taking rows out and putting them back.                      *)
(***************************************************************************)
(* Taking rows out and putting them back. *)

IsFn(f) == f = [x \in DOMAIN f |-> f[x]]

LEMMA SameFn ==
    ASSUME NEW f, IsFn(f), NEW g, IsFn(g), DOMAIN f = DOMAIN g,
           \A x \in DOMAIN f : f[x] = g[x]
    PROVE  f = g
BY DEF IsFn

LEMMA AreFns ==
    /\ \A f, A : IsFn(Restrict(f, A)) /\ DOMAIN Restrict(f, A) = A
                 /\ \A x \in A : Restrict(f, A)[x] = f[x]
    /\ \A f, g : IsFn(Over(f, g)) /\ IsFn(Rewritten(f, g))
    /\ \A f, g : IsFn(PlacesBack(f, g)) /\ IsFn(GroupsBack(f, g))
BY DEF IsFn, Restrict, Over, Rewritten, PlacesBack, GroupsBack

LEMMA BackDomains ==
    ASSUME NEW g, NEW old
    PROVE  /\ DOMAIN PlacesBack(g, old) = DOMAIN g \cup DOMAIN old
           /\ DOMAIN GroupsBack(g, old) = DOMAIN g \cup DOMAIN old
           /\ DOMAIN Rewritten(g, old) = DOMAIN g
BY DEF PlacesBack, GroupsBack, Rewritten, Over

(* A row that was put in and is taken out again. *)
LEMMA PutThenTaken ==
    ASSUME NEW f, IsFn(f), NEW x, x \notin DOMAIN f, NEW v
    PROVE  Restrict(Put(f, x, v), DOMAIN Put(f, x, v) \ {x}) = f
BY DEF IsFn, Restrict, Put

(* Rows that were taken out and are put back. *)
LEMMA TakenThenPut ==
    ASSUME NEW f, IsFn(f), NEW A \in SUBSET DOMAIN f,
           NEW g, DOMAIN g \subseteq DOMAIN f, DOMAIN f \subseteq DOMAIN g \cup A,
           \A x \in DOMAIN g \ A : g[x] = f[x]
    PROVE  Over(Restrict(f, A), g) = f
BY DEF IsFn, Restrict, Over

(* Rows that were changed in place. *)
LEMMA ChangedThenRewritten ==
    ASSUME NEW f, IsFn(f), NEW A,
           NEW g, DOMAIN g = DOMAIN f, \A x \in DOMAIN f \ A : g[x] = f[x]
    PROVE  Rewritten(g, Restrict(f, A \cap DOMAIN f)) = f
BY DEF IsFn, Restrict, Rewritten

(* Placements that were taken out and are put back. *)
LEMMA PlacesTakenThenBack ==
    ASSUME NEW f, IsFn(f), NEW A, NEW g, DOMAIN g = DOMAIN f \ A,
           \A p \in DOMAIN g : g[p] = f[p]
    PROVE  PlacesBack(g, PlacesOf(f, A)) = f
<1>. DEFINE old == PlacesOf(f, A)
            r   == PlacesBack(g, old)
<1>1. DOMAIN old = A \cap DOMAIN f /\ \A p \in DOMAIN old : old[p] = f[p]
    BY DEF PlacesOf, Restrict
<1>. HIDE DEF old
<1>2. DOMAIN r = DOMAIN f /\ IsFn(r)
  <2>1. DOMAIN r = DOMAIN g \cup DOMAIN old
      BY BackDomains
  <2>2. IsFn(r)
      BY AreFns
  <2>. QED
      BY <1>1, <2>1, <2>2
<1>3. ASSUME NEW p \in DOMAIN f PROVE r[p] = f[p]
  <2>1. CASE p \in DOMAIN old
      BY <2>1, <1>1 DEF PlacesBack, Over
  <2>2. CASE p \notin DOMAIN old
      BY <2>2, <1>1 DEF PlacesBack, Over
  <2>. QED
      BY <2>1, <2>2
<1>. HIDE DEF r
<1>4. r = f
    BY <1>2, <1>3, SameFn
<1>. QED
    BY <1>4 DEF r, old

(* Groups that were taken out, renamed or left, and are put back. *)
LEMMA GroupsTakenThenBack ==
    ASSUME NEW f, IsFn(f), \A x \in DOMAIN f : f[x] \in GroupRow,
           NEW A, NEW g, DOMAIN g \subseteq DOMAIN f, DOMAIN f \subseteq DOMAIN g \cup A,
           \A x \in DOMAIN g : g[x] \in GroupRow /\ g[x].map = f[x].map,
           \A x \in DOMAIN g \ A : g[x] = f[x]
    PROVE  GroupsBack(g, Restrict(f, A \cap DOMAIN f)) = f
<1>. DEFINE old == Restrict(f, A \cap DOMAIN f)
            r   == GroupsBack(g, old)
<1>1. DOMAIN old = A \cap DOMAIN f /\ \A x \in DOMAIN old : old[x] = f[x]
    BY DEF Restrict
<1>. HIDE DEF old
<1>2. DOMAIN r = DOMAIN f /\ IsFn(r)
  <2>1. DOMAIN r = DOMAIN g \cup DOMAIN old
      BY BackDomains
  <2>2. IsFn(r)
      BY AreFns
  <2>. QED
      BY <1>1, <2>1, <2>2
<1>3. ASSUME NEW x \in DOMAIN f PROVE r[x] = f[x]
  <2>1. CASE x \in DOMAIN old /\ x \in DOMAIN g
    <3>1. r[x] = [g[x] EXCEPT !.title = f[x].title]
        BY <2>1, <1>1 DEF GroupsBack, Over
    <3>2. g[x] \in GroupRow /\ g[x].map = f[x].map /\ f[x] \in GroupRow
        BY <2>1
    <3>. QED
        BY <3>1, <3>2 DEF GroupRow
  <2>2. CASE x \in DOMAIN old /\ x \notin DOMAIN g
      BY <2>2, <1>1 DEF GroupsBack, Over
  <2>3. CASE x \notin DOMAIN old
      BY <2>3, <1>1 DEF GroupsBack, Over
  <2>. QED
      BY <2>1, <2>2, <2>3
<1>. HIDE DEF r
<1>4. r = f
    BY <1>2, <1>3, SameFn
<1>. QED
    BY <1>4 DEF r, old

(* Edges that were taken out, or came under another relationship, and are *)
(* put back; what came in their place goes, as it has the id of one.      *)
LEMMA EdgesTakenThenBack ==
    ASSUME NEW es, Once(es), NEW now, NEW pl, NEW old, old = es \ now,
           \A e \in old : Placed(pl, e.map, e.source) /\ Placed(pl, e.map, e.target),
           \A f \in now \ es : \E e \in old : e.id = f.id
    PROVE  EdgesBack(now, pl, old) = es
<1>1. Back(pl, old) = old
    BY DEF Back
<1>2. ASSUME NEW e \in es \cap now, NEW f \in old PROVE e.id # f.id /\ Key(e) # Key(f)
    BY DEF Once
<1>3. {e \in now : \A f \in old : e.id # f.id /\ Key(e) # Key(f)} = es \cap now
    BY <1>2
<1>. QED
    BY <1>1, <1>3 DEF EdgesBack

(* Edges that were put in and are deleted by their ids. *)
LEMMA EdgesPutThenDeleted ==
    ASSUME NEW es, NEW now, es \subseteq now, Once(now)
    PROVE  {e \in now : e.id \notin EdgeIds(now \ es)} = es
BY DEF Once, EdgeIds

-----------------------------------------------------------------------------
(* The operations, one by one. *)

Inverts == Undoing(Tables', log'[issued']) = Tables

LEMMA Recorded ==
    ASSUME Logged, NEW a, NEW m, NEW act, NEW inv, NEW fwd, Record(a, m, act, inv, fwd)
    PROVE  /\ Undoing(Tables', log'[issued']) = Applied(Tables', act, inv, FALSE)
           /\ log'[issued'].map = m /\ log'[issued'].inverse = inv
<1>1. log'[issued'] = Entry(a, m, act, inv, fwd)
    BY DEF Record, Issue, Put
<1>. QED
    BY <1>1 DEF Undoing, Entry

LEMMA TheTables ==
    /\ IsDb(Tables) /\ Tables.maps = maps /\ Tables.nodes = nodes
    /\ Tables.places = places /\ Tables.edges = edges /\ Tables.groups = groups
    /\ IsDb(Tables') /\ Tables'.maps = maps' /\ Tables'.nodes = nodes'
    /\ Tables'.places = places' /\ Tables'.edges = edges' /\ Tables'.groups = groups'
BY DEF IsDb, Tables

(* The tables c that undoing leaves are the ones there were. *)
LEMMA SameTables ==
    ASSUME NEW c, IsDb(c), c.maps = maps, c.nodes = nodes, c.places = places,
           c.edges = edges, c.groups = groups
    PROVE  c = Tables
BY TheTables, SameDb

LEMMA TableFns ==
    ASSUME TypeOK
    PROVE  /\ IsFn(nodes) /\ IsFn(places) /\ IsFn(groups)
           /\ \A p \in DOMAIN places : p \in Map \X Node /\ p = <<p[1], p[2]>>
           /\ \A g \in DOMAIN groups : groups[g] \in GroupRow
BY DEF TypeOK, IsFn

LEMMA BlankParts ==
    ASSUME NEW ms, NEW nd, NEW pl, NEW es, NEW gr, NEW gn
    PROVE  /\ LET s == [Blank EXCEPT !.nodes = nd, !.places = pl, !.edges = es]
              IN s.nodes = nd /\ s.places = pl /\ s.edges = es
           /\ LET s == [Blank EXCEPT !.nodes = nd, !.edges = es]
              IN s.nodes = nd /\ s.edges = es
           /\ [Blank EXCEPT !.nodes = nd].nodes = nd
           /\ [Blank EXCEPT !.places = pl].places = pl
           /\ [Blank EXCEPT !.edges = es].edges = es
           /\ LET s == [Blank EXCEPT !.places = pl, !.edges = es]
              IN s.places = pl /\ s.edges = es
           /\ LET s == [Blank EXCEPT !.gone = gn, !.places = pl]
              IN s.gone = gn /\ s.places = pl
           /\ LET s == [Blank EXCEPT !.groups = gr]
              IN s.groups = gr /\ s.places = Empty /\ s.gone = {}
           /\ LET s == [Blank EXCEPT !.groups = gr, !.places = pl]
              IN s.groups = gr /\ s.places = pl /\ s.gone = {}
           /\ LET s == [Blank EXCEPT !.places = pl, !.groups = gr]
              IN s.groups = gr /\ s.places = pl
           /\ LET s == [Blank EXCEPT !.maps = ms, !.groups = gr, !.places = pl, !.edges = es]
              IN s.maps = ms /\ s.groups = gr /\ s.places = pl /\ s.edges = es
BY DEF Blank

LEMMA CreationInverts ==
    ASSUME JournalInv, NEW a, NEW in, NEW n \in Node, NEW e, NodeCreated(a, in, n, e)
    PROVE  Inverts
<1>. DEFINE db   == Tables'
            row  == NodesOf({n})'
            spot == PlacesOf(places', {<<in.map, n>>})
            link == edges' \ edges
            made == [Blank EXCEPT !.nodes = row, !.places = spot, !.edges = link]
            ns   == DOMAIN made.nodes
            c    == DropNodes(db, made)
<1>1. /\ IsDb(db) /\ db.maps = maps' /\ db.nodes = nodes' /\ db.places = places'
      /\ db.edges = edges' /\ db.groups = groups'
    BY TheTables
<1>2. Undoing(Tables', log'[issued']) = c
  <2>1. Record(a, in.map, "node.create", made, made)
      BY DEF NodeCreated
  <2>. HIDE DEF made
  <2>. QED
      BY <2>1, Recorded DEF JournalInv, Applied
<1>3. ns = {n}
  <2>1. DOMAIN row = {n}
      BY DEF NodesOf, Restrict
  <2>. HIDE DEF row, spot, link
  <2>. QED
      BY <2>1, BlankParts
<1>. HIDE DEF made, db
<1>4. /\ IsDb(c) /\ c.maps = db.maps /\ c.groups = db.groups
      /\ c.nodes = Off(db.nodes, ns)
      /\ c.places = PlacesOff(db.places, ns)
      /\ c.edges = EdgesOff(db.edges, ns)
    BY <1>1, NodesDropped
<1>. HIDE DEF c, ns
<1>5. n \notin DOMAIN nodes /\ maps' = maps /\ groups' = groups
    BY DEF NodeCreated, CreateNode
<1>6. c.nodes = nodes
  <2>1. PICK v : nodes' = Put(nodes, n, v)
      BY DEF NodeCreated, CreateNode
  <2>. QED
      BY <1>1, <1>3, <1>4, <1>5, <2>1, TableFns, PutThenTaken DEF JournalInv, Off
<1>7. c.places = places
  <2>1. PICK v : places' = Put(places, <<in.map, n>>, v)
      BY DEF NodeCreated, CreateNode
  <2>2. \A p \in DOMAIN places : p[2] # n
      BY <1>5 DEF JournalInv, Integrity, ForeignKeys, PlacesRefer
  <2>3. DOMAIN places' = DOMAIN places \cup {<<in.map, n>>}
      BY <2>1 DEF Put
  <2>4. {p \in DOMAIN places' : p[2] \notin {n}} = DOMAIN places
      BY <2>2, <2>3
  <2>5. \A p \in DOMAIN places : places'[p] = places[p]
      BY <2>1, <2>2 DEF Put
  <2>6. c.places = Restrict(places', DOMAIN places)
      BY <1>1, <1>3, <1>4, <2>4 DEF PlacesOff
  <2>. QED
      BY <2>5, <2>6, TableFns, AreFns, SameFn DEF JournalInv
<1>8. c.edges = edges
  <2>1. \A f \in edges : ~Touches(f, n)
      BY <1>5 DEF JournalInv, Integrity, ForeignKeys, EdgesRefer, Touches
  <2>2. edges \subseteq edges' /\ \A f \in edges' \ edges : Touches(f, n)
      BY DEF NodeCreated, CreateNode, NewEdge, Touches
  <2>. QED
      BY <1>1, <1>3, <1>4, <2>1, <2>2 DEF EdgesOff
<1>. QED
    BY <1>1, <1>2, <1>4, <1>5, <1>6, <1>7, <1>8, SameTables DEF Inverts

(* A retype leaves no edge it found illegal, and what it writes instead has *)
(* the id of one.                                                           *)
LEMMA RetypeReplaces ==
    ASSUME TypeOK, NEW n \in Node, NEW row, NEW ty, NEW ti, NEW tg,
           ApplyEdit(n, row, ty, ti, tg)
    PROVE  \A f \in edges' \ edges : \E e \in edges \ edges' : e.id = f.id
<1>1. CASE UNCHANGED edges
    BY <1>1
<1>2. CASE edges' # edges
  <2>. DEFINE type  == TypeOf'
              moved == Relabelled(edges, type, n)
  <2>1. PICK new \in SUBSET {Relabel(e, type) : e \in moved} :
           /\ \A e \in {Relabel(d, type) : d \in moved} : e.rel # NoRelationship
           /\ edges' = (edges \ moved) \cup new
      BY <1>2 DEF ApplyEdit, RetypeInto
  <2>2. \A e \in moved : e \in edges /\ ~Legal(e, type)
      BY DEF Relabelled
  <2>. HIDE DEF moved, type
  <2>3. \A e \in edges : LET f == Relabel(e, type)
                         IN /\ f.id = e.id /\ f.source = e.source /\ f.target = e.target
                            /\ f.rel = DefaultRelationship(type[e.source], type[e.target])
      BY DEF TypeOK, EdgeRow, Relabel
  <2>4. ASSUME NEW f \in new PROVE Legal(f, type) /\ \E e \in moved : e.id = f.id
    <3>1. PICK e \in moved : f = Relabel(e, type)
        BY <2>1
    <3>2. /\ f.id = e.id /\ f.source = e.source /\ f.target = e.target
          /\ f.rel = DefaultRelationship(type[e.source], type[e.target])
          /\ f.rel # NoRelationship
        BY <2>1, <2>2, <2>3, <3>1
    <3>3. Legal(f, type)
        BY <3>2, DefaultIsLegal DEF Legal
    <3>. QED
        BY <3>2, <3>3
  <2>5. \A e \in moved : e \notin edges'
      BY <2>1, <2>2, <2>4
  <2>. QED
      BY <2>1, <2>2, <2>4, <2>5
<1>. QED
    BY <1>1, <1>2

LEMMA UpdateInverts ==
    ASSUME JournalInv, NEW a, NEW n \in Node, NEW row, NEW ty, NEW ti, NEW tg,
           NodeUpdated(a, n, row, ty, ti, tg), issued' # issued,
           n \in DOMAIN nodes => nodes[n] = row
    PROVE  Inverts
<1>. DEFINE db     == Tables'
            old    == [k \in {n} |-> row]
            lost   == edges \ edges'
            before == [Blank EXCEPT !.nodes = old, !.edges = lost]
            c      == RestoreEdges(RewriteNodes(db, before), before)
<1>1. /\ IsDb(db) /\ db.maps = maps' /\ db.nodes = nodes' /\ db.places = places'
      /\ db.edges = edges' /\ db.groups = groups'
    BY TheTables
<1>2. Undoing(Tables', log'[issued']) = c
  <2>1. \E after : Record(a, Nil, "node.update", before, after)
      BY DEF NodeUpdated, Merge
  <2>. HIDE DEF before
  <2>. QED
      BY <2>1, Recorded DEF JournalInv, Applied
<1>3. before.nodes = old /\ before.edges = lost
    BY BlankParts
<1>. HIDE DEF before, db
<1>4. /\ IsDb(c) /\ c.maps = db.maps /\ c.groups = db.groups
      /\ c.nodes = Rewritten(db.nodes, before.nodes)
      /\ c.places = db.places
      /\ c.edges = EdgesBack(db.edges, db.places, before.edges)
    BY <1>1, EditRestored
<1>. HIDE DEF c
<1>5. ApplyEdit(n, row, ty, ti, tg)
      /\ maps' = maps /\ groups' = groups /\ places' = places
    BY DEF NodeUpdated, ApplyEdit
<1>6. c.nodes = nodes
  <2>1. DOMAIN nodes' = DOMAIN nodes /\ \A k \in DOMAIN nodes \ {n} : nodes'[k] = nodes[k]
      BY <1>5 DEF ApplyEdit
  <2>2. Rewritten(nodes', old) = [k \in DOMAIN nodes |-> nodes[k]]
      BY <2>1 DEF Rewritten
  <2>3. nodes = [k \in DOMAIN nodes |-> nodes[k]]
      BY TableFns DEF JournalInv, IsFn
  <2>. QED
      BY <1>1, <1>3, <1>4, <2>2, <2>3
<1>7. c.edges = edges
  <2>1. \A f \in edges' \ edges : \E e \in lost : e.id = f.id
      BY <1>5, RetypeReplaces DEF JournalInv
  <2>2. \A e \in lost : Placed(places', e.map, e.source) /\ Placed(places', e.map, e.target)
      BY <1>5 DEF JournalInv, Integrity, EndpointsPlaced
  <2>3. Once(edges)
      BY DEF JournalInv, OneEdgePerClaim, Once
  <2>. QED
      BY <1>1, <1>3, <1>4, <2>1, <2>2, <2>3, EdgesTakenThenBack
<1>. QED
    BY <1>1, <1>2, <1>4, <1>5, <1>6, <1>7, SameTables DEF Inverts

LEMMA BulkUpdateInverts ==
    ASSUME JournalInv, NEW a, NEW ns, NEW add, NEW remove, NodesBulkUpdated(a, ns, add, remove)
    PROVE  Inverts
<1>. DEFINE db     == Tables'
            rows   == NodesOf(ns)
            before == [Blank EXCEPT !.nodes = rows]
            c      == RewriteNodes(db, before)
<1>1. /\ IsDb(db) /\ db.maps = maps' /\ db.nodes = nodes' /\ db.places = places'
      /\ db.edges = edges' /\ db.groups = groups'
    BY TheTables
<1>2. Undoing(Tables', log'[issued']) = c
  <2>1. \E after : Record(a, Nil, "nodes.bulkUpdate", before, after)
      BY DEF NodesBulkUpdated
  <2>. HIDE DEF before
  <2>. QED
      BY <2>1, Recorded DEF JournalInv, Applied
<1>3. before.nodes = rows
    BY BlankParts
<1>. HIDE DEF before, db
<1>4. /\ IsDb(c) /\ c.maps = db.maps /\ c.nodes = Rewritten(db.nodes, before.nodes)
      /\ c.places = db.places /\ c.edges = db.edges /\ c.groups = db.groups
    BY <1>1, NodesRewritten
<1>. HIDE DEF c
<1>5. /\ ns \subseteq DOMAIN nodes
      /\ DOMAIN nodes' = DOMAIN nodes /\ \A k \in DOMAIN nodes \ ns : nodes'[k] = nodes[k]
      /\ UNCHANGED <<maps, places, edges, groups>>
    BY DEF NodesBulkUpdated, BulkUpdateNodes
<1>6. c.nodes = nodes
  <2>1. Rewritten(nodes', Restrict(nodes, ns \cap DOMAIN nodes)) = nodes
      BY <1>5, TableFns, ChangedThenRewritten DEF JournalInv
  <2>2. ns \cap DOMAIN nodes = ns
      BY <1>5
  <2>. QED
      BY <1>1, <1>3, <1>4, <2>1, <2>2 DEF NodesOf
<1>. QED
    BY <1>1, <1>2, <1>4, <1>5, <1>6, SameTables DEF Inverts

LEMMA DeletionInverts ==
    ASSUME JournalInv, NEW a, NEW n \in Node, NodeDeleted(a, n)
    PROVE  Inverts
<1>. DEFINE db    == Tables'
            row   == NodesOf({n})
            spots == PlacesOf(places, Map \X {n})
            links == EdgesAt(n)
            was   == [Blank EXCEPT !.nodes = row, !.places = spots, !.edges = links]
            c     == RestoreNode(db, was)
<1>1. /\ IsDb(db) /\ db.maps = maps' /\ db.nodes = nodes' /\ db.places = places'
      /\ db.edges = edges' /\ db.groups = groups'
    BY TheTables
<1>2. Undoing(Tables', log'[issued']) = c
  <2>1. Record(a, Nil, "node.delete", was, was)
      BY DEF NodeDeleted
  <2>. HIDE DEF was
  <2>. QED
      BY <2>1, Recorded DEF JournalInv, Applied
<1>3. was.nodes = row /\ was.places = spots /\ was.edges = links
    BY BlankParts
<1>. HIDE DEF was, db
<1>4. /\ IsDb(c) /\ c.maps = db.maps /\ c.groups = db.groups
      /\ c.nodes = Over(was.nodes, db.nodes)
      /\ c.places = PlacesBack(db.places, was.places)
      /\ c.edges = EdgesBack(db.edges, PlacesBack(db.places, was.places), was.edges)
    BY <1>1, NodeRestored
<1>. HIDE DEF c
<1>5. /\ n \in DOMAIN nodes /\ maps' = maps /\ groups' = groups
      /\ nodes' = Restrict(nodes, DOMAIN nodes \ {n})
      /\ places' = WithoutNode(places, n)
      /\ edges' = {e \in edges : ~Touches(e, n)}
    BY DEF NodeDeleted, DeleteNode
<1>6. c.nodes = nodes
  <2>1. DOMAIN nodes' = DOMAIN nodes \ {n} /\ \A k \in DOMAIN nodes' : nodes'[k] = nodes[k]
      BY <1>5 DEF Restrict
  <2>2. Over(Restrict(nodes, {n}), nodes') = nodes
      BY <1>5, <2>1, TableFns, TakenThenPut DEF JournalInv
  <2>. QED
      BY <1>1, <1>3, <1>4, <2>2 DEF NodesOf
<1>7. PlacesBack(places', spots) = places
  <2>1. DOMAIN places' = {p \in DOMAIN places : p[2] # n}
        /\ \A p \in DOMAIN places' : places'[p] = places[p]
      BY <1>5 DEF WithoutNode, Restrict
  <2>2. \A p \in DOMAIN places : p \in Map \X {n} <=> p[2] = n
      BY TableFns DEF JournalInv
  <2>3. DOMAIN places' = DOMAIN places \ (Map \X {n})
      BY <2>1, <2>2
  <2>. QED
      BY <2>1, <2>3, TableFns, PlacesTakenThenBack DEF JournalInv
<1>8. c.edges = edges
  <2>1. links = edges \ edges' /\ edges' \subseteq edges
      BY <1>5 DEF EdgesAt
  <2>2. \A e \in links : Placed(places, e.map, e.source) /\ Placed(places, e.map, e.target)
      BY <2>1 DEF JournalInv, Integrity, EndpointsPlaced
  <2>3. Once(edges)
      BY DEF JournalInv, OneEdgePerClaim, Once
  <2>4. EdgesBack(edges', places, links) = edges
      BY <2>1, <2>2, <2>3, EdgesTakenThenBack
  <2>. QED
      BY <1>1, <1>3, <1>4, <1>7, <2>4
<1>. QED
    BY <1>1, <1>2, <1>3, <1>4, <1>5, <1>6, <1>7, <1>8, SameTables DEF Inverts

LEMMA MoveInverts ==
    ASSUME JournalInv, NEW a, NEW m, NEW n, NEW pos, NEW g, NodeMoved(a, m, n, pos, g),
           issued' # issued
    PROVE  Inverts
<1>. DEFINE db     == Tables'
            old    == PlacesOf(places, {<<m, n>>})
            before == [Blank EXCEPT !.places = old]
            c      == RestorePlacementState(db, before)
<1>1. /\ IsDb(db) /\ db.maps = maps' /\ db.nodes = nodes' /\ db.places = places'
      /\ db.edges = edges' /\ db.groups = groups'
    BY TheTables
<1>2. Undoing(Tables', log'[issued']) = c
  <2>1. \E after : Record(a, m, "node.move", before, after)
      BY DEF NodeMoved, Merge
  <2>. HIDE DEF before
  <2>. QED
      BY <2>1, Recorded DEF JournalInv, Applied
<1>3. before.places = old
    BY BlankParts
<1>. HIDE DEF before, db
<1>4. /\ IsDb(c) /\ c.maps = db.maps /\ c.nodes = db.nodes
      /\ c.places = Rewritten(db.places, before.places)
      /\ c.edges = db.edges /\ c.groups = db.groups
    BY <1>1, StatesRestored
<1>. HIDE DEF c
<1>5. /\ DOMAIN places' = DOMAIN places
      /\ \A p \in DOMAIN places \ {<<m, n>>} : places'[p] = places[p]
      /\ UNCHANGED <<maps, nodes, edges, groups>>
    BY DEF NodeMoved, SetPlacement
<1>6. Rewritten(places', old) = places
    BY <1>5, TableFns, ChangedThenRewritten DEF JournalInv, PlacesOf
<1>. QED
    BY <1>1, <1>2, <1>3, <1>4, <1>5, <1>6, SameTables DEF Inverts

(* Edges that were added, and nothing else, are deleted again. *)
LEMMA LinkInverts ==
    ASSUME JournalInv, Sound(Tables'), NEW a, NEW m,
           Record(a, m, "edge.create", [Blank EXCEPT !.edges = edges' \ edges],
                  [Blank EXCEPT !.edges = edges' \ edges]),
           edges \subseteq edges', UNCHANGED <<maps, nodes, places, groups>>
    PROVE  Inverts
<1>. DEFINE db   == Tables'
            made == [Blank EXCEPT !.edges = edges' \ edges]
            c    == DeleteEdges(db, made)
<1>1. /\ IsDb(db) /\ db.maps = maps' /\ db.nodes = nodes' /\ db.places = places'
      /\ db.edges = edges' /\ db.groups = groups'
    BY TheTables
<1>2. Undoing(Tables', log'[issued']) = c
  <2>. HIDE DEF made
  <2>. QED
      BY Recorded DEF JournalInv, Applied, made
<1>3. made.edges = edges' \ edges
    BY BlankParts
<1>. HIDE DEF made, db
<1>4. /\ IsDb(c) /\ c.maps = db.maps /\ c.nodes = db.nodes /\ c.places = db.places
      /\ c.edges = EdgesNot(db.edges, made.edges) /\ c.groups = db.groups
    BY <1>1, EdgesDeleted
<1>. HIDE DEF c
<1>5. Once(edges')
    BY TheTables DEF Sound
<1>6. EdgesNot(edges', edges' \ edges) = edges
    BY <1>5, EdgesPutThenDeleted DEF EdgesNot
<1>. QED
    BY <1>1, <1>2, <1>3, <1>4, <1>6, SameTables DEF Inverts

LEMMA EdgeCreationInverts ==
    ASSUME JournalInv, Sound(Tables'), NEW a, NEW m, NEW s, NEW t, NEW r, NEW e,
           EdgeCreated(a, m, s, t, r, e)
    PROVE  Inverts
<1>1. edges \subseteq edges' /\ UNCHANGED <<maps, nodes, places, groups>>
    BY DEF EdgeCreated, CreateEdge
<1>2. Record(a, m, "edge.create", [Blank EXCEPT !.edges = edges' \ edges],
             [Blank EXCEPT !.edges = edges' \ edges])
    BY DEF EdgeCreated
<1>. QED
    BY <1>1, <1>2, LinkInverts

LEMMA EdgeDeletionInverts ==
    ASSUME JournalInv, NEW a, NEW e, EdgeDeleted(a, e)
    PROVE  Inverts
<1>. DEFINE db  == Tables'
            old == edges \ edges'
            was == [Blank EXCEPT !.edges = old]
            c   == RestoreEdges(db, was)
<1>1. /\ IsDb(db) /\ db.maps = maps' /\ db.nodes = nodes' /\ db.places = places'
      /\ db.edges = edges' /\ db.groups = groups'
    BY TheTables
<1>2. Undoing(Tables', log'[issued']) = c
  <2>1. \E m : Record(a, m, "edge.delete", was, was)
      BY DEF EdgeDeleted
  <2>. HIDE DEF was
  <2>. QED
      BY <2>1, Recorded DEF JournalInv, Applied
<1>3. was.edges = old
    BY BlankParts
<1>. HIDE DEF was, db
<1>4. /\ IsDb(c) /\ c.maps = db.maps /\ c.nodes = db.nodes /\ c.places = db.places
      /\ c.edges = EdgesBack(db.edges, db.places, was.edges) /\ c.groups = db.groups
    BY <1>1, EdgesRestored
<1>. HIDE DEF c
<1>5. edges' \subseteq edges /\ UNCHANGED <<maps, nodes, places, groups>>
    BY DEF EdgeDeleted, DeleteEdge
<1>6. EdgesBack(edges', places', old) = edges
  <2>1. \A f \in old : Placed(places', f.map, f.source) /\ Placed(places', f.map, f.target)
      BY <1>5 DEF JournalInv, Integrity, EndpointsPlaced
  <2>2. Once(edges)
      BY DEF JournalInv, OneEdgePerClaim, Once
  <2>. QED
      BY <1>5, <2>1, <2>2, EdgesTakenThenBack
<1>. QED
    BY <1>1, <1>2, <1>3, <1>4, <1>5, <1>6, SameTables DEF Inverts

LEMMA RemovalInverts ==
    ASSUME JournalInv, NEW a, NEW m, NEW n, NodeRemoved(a, m, n)
    PROVE  Inverts
<1>. DEFINE db    == Tables'
            row   == NodesOf({n})
            spot  == PlacesOf(places, {<<m, n>>})
            links == {e \in EdgesAt(n) : e.map = m}
            was   == [Blank EXCEPT !.nodes = row, !.places = spot, !.edges = links]
            c     == RestoreNode(db, was)
<1>1. /\ IsDb(db) /\ db.maps = maps' /\ db.nodes = nodes' /\ db.places = places'
      /\ db.edges = edges' /\ db.groups = groups'
    BY TheTables
<1>2. Undoing(Tables', log'[issued']) = c
  <2>1. Record(a, m, "node.removeFromMap", was, was)
      BY DEF NodeRemoved
  <2>. HIDE DEF was
  <2>. QED
      BY <2>1, Recorded DEF JournalInv, Applied
<1>3. was.nodes = row /\ was.places = spot /\ was.edges = links
    BY BlankParts
<1>. HIDE DEF was, db
<1>4. /\ IsDb(c) /\ c.maps = db.maps /\ c.groups = db.groups
      /\ c.nodes = Over(was.nodes, db.nodes)
      /\ c.places = PlacesBack(db.places, was.places)
      /\ c.edges = EdgesBack(db.edges, PlacesBack(db.places, was.places), was.edges)
    BY <1>1, NodeRestored
<1>. HIDE DEF c
<1>5. /\ n \in DOMAIN nodes /\ UNCHANGED <<maps, nodes, groups>>
      /\ places' = Restrict(places, DOMAIN places \ {<<m, n>>})
      /\ edges' = {e \in edges : ~(e.map = m /\ Touches(e, n))}
    BY DEF NodeRemoved, RemoveFromMap
<1>6. c.nodes = nodes
  <2>1. Over(Restrict(nodes, {n}), nodes) = nodes
      BY <1>5, TableFns, TakenThenPut DEF JournalInv
  <2>. QED
      BY <1>1, <1>3, <1>4, <1>5, <2>1 DEF NodesOf
<1>7. PlacesBack(places', spot) = places
  <2>1. DOMAIN places' = DOMAIN places \ {<<m, n>>}
        /\ \A p \in DOMAIN places' : places'[p] = places[p]
      BY <1>5 DEF Restrict
  <2>. QED
      BY <2>1, TableFns, PlacesTakenThenBack DEF JournalInv
<1>8. c.edges = edges
  <2>1. links = edges \ edges' /\ edges' \subseteq edges
      BY <1>5 DEF EdgesAt
  <2>2. \A e \in links : Placed(places, e.map, e.source) /\ Placed(places, e.map, e.target)
      BY <2>1 DEF JournalInv, Integrity, EndpointsPlaced
  <2>3. Once(edges)
      BY DEF JournalInv, OneEdgePerClaim, Once
  <2>4. EdgesBack(edges', places, links) = edges
      BY <2>1, <2>2, <2>3, EdgesTakenThenBack
  <2>. QED
      BY <1>1, <1>3, <1>4, <1>7, <2>4
<1>. QED
    BY <1>1, <1>2, <1>3, <1>4, <1>5, <1>6, <1>7, <1>8, SameTables DEF Inverts

LEMMA TranscludeInverts ==
    ASSUME JournalInv, Sound(Tables'), NEW a, NEW in \in TranscludeInput, NEW e,
           NodeTranscluded(a, in, e), issued' # issued
    PROVE  Inverts
<1>. DEFINE at   == <<in.map, in.node>>
            made == edges' \ edges
<1>1. edges \subseteq edges' /\ UNCHANGED <<maps, nodes, groups>>
    BY DEF NodeTranscluded, Transclude
<1>2. CASE Placed(places, in.map, in.node)
  <2>1. places' = places
      BY <1>2 DEF NodeTranscluded, Transclude
  <2>2. Record(a, in.map, "edge.create", [Blank EXCEPT !.edges = made],
               [Blank EXCEPT !.edges = made])
      BY <1>2 DEF NodeTranscluded
  <2>. QED
      BY <1>1, <2>1, <2>2, LinkInverts
<1>3. CASE ~Placed(places, in.map, in.node)
  <2>. DEFINE db    == Tables'
              spot  == PlacesOf(places', {at})
              whole == [Blank EXCEPT !.places = spot, !.edges = made]
              ps    == DOMAIN whole.places
              c     == RemovePlacements(db, whole)
  <2>1. /\ IsDb(db) /\ db.maps = maps' /\ db.nodes = nodes' /\ db.places = places'
        /\ db.edges = edges' /\ db.groups = groups'
      BY TheTables
  <2>2. Undoing(Tables', log'[issued']) = c
    <3>1. Record(a, in.map, "node.transclude", whole, whole)
        BY <1>3 DEF NodeTranscluded
    <3>. HIDE DEF whole
    <3>. QED
        BY <3>1, Recorded DEF JournalInv, Applied
  <2>3. PICK v : places' = Put(places, at, v)
      BY <1>3 DEF NodeTranscluded, Transclude
  <2>4. ps = {at}
    <3>1. DOMAIN spot = {at}
        BY <2>3 DEF PlacesOf, Restrict, Put
    <3>. HIDE DEF spot, made, at
    <3>. QED
        BY <3>1, BlankParts
  <2>. HIDE DEF whole, db
  <2>5. /\ IsDb(c) /\ c.maps = db.maps /\ c.nodes = db.nodes /\ c.groups = db.groups
        /\ c.places = Off(db.places, ps) /\ c.edges = EdgesUnplaced(db.edges, ps)
      BY <2>1, PlacementsRemoved
  <2>. HIDE DEF c, ps
  <2>6. c.places = places
      BY <1>3, <2>1, <2>3, <2>4, <2>5, TableFns, PutThenTaken DEF JournalInv, Off, Placed
  <2>7. c.edges = edges
    <3>1. \A f \in edges : ~(f.map = in.map /\ Touches(f, in.node))
        BY <1>3 DEF JournalInv, Integrity, EndpointsPlaced, Touches, Placed
    <3>2. \A f \in edges' \ edges : f.map = in.map /\ Touches(f, in.node)
        BY DEF NodeTranscluded, Transclude, NewEdge, Touches
    <3>3. EdgesUnplaced(edges', {at}) = {f \in edges' : ~(f.map = in.map /\ Touches(f, in.node))}
        BY DEF EdgesUnplaced
    <3>. QED
        BY <1>1, <2>1, <2>4, <2>5, <3>1, <3>2, <3>3
  <2>. QED
      BY <1>1, <2>1, <2>2, <2>5, <2>6, <2>7, SameTables DEF Inverts
<1>. QED
    BY <1>2, <1>3

LEMMA GroupCreationInverts ==
    ASSUME JournalInv, NEW a, NEW m, NEW g \in Group, NEW ti, NEW ns, GroupCreated(a, m, g, ti, ns)
    PROVE  Inverts
<1>. DEFINE db     == Tables'
            old    == PlacesOf(places, {m} \X ns)
            before == [Blank EXCEPT !.gone = {g}, !.places = old]
            c      == DropGroups(RestorePlacementState(db, before), before.gone)
<1>1. /\ IsDb(db) /\ db.maps = maps' /\ db.nodes = nodes' /\ db.places = places'
      /\ db.edges = edges' /\ db.groups = groups'
    BY TheTables
<1>2. before.gone = {g} /\ before.places = old
    BY BlankParts
<1>3. Undoing(Tables', log'[issued']) = c
  <2>1. \E after : Record(a, m, "group.save", before, after)
      BY DEF GroupCreated
  <2>. HIDE DEF before
  <2>. QED
      BY <1>2, <2>1, Recorded DEF JournalInv, Applied
<1>. HIDE DEF before, db
<1>4. /\ IsDb(c) /\ c.maps = db.maps /\ c.nodes = db.nodes /\ c.edges = db.edges
      /\ c.places = Ungrouped(Rewritten(db.places, before.places), before.gone)
      /\ c.groups = Off(db.groups, before.gone)
    BY <1>1, GroupTakenBack
<1>. HIDE DEF c
<1>5. /\ g \notin DOMAIN groups /\ \E v : groups' = Put(groups, g, v)
      /\ DOMAIN places' = DOMAIN places
      /\ \A p \in DOMAIN places : ~(p[1] = m /\ p[2] \in ns) => places'[p] = places[p]
      /\ UNCHANGED <<maps, nodes, edges>>
    BY DEF GroupCreated, CreateGroup
<1>6. Rewritten(places', old) = places
  <2>1. \A p \in DOMAIN places \ ({m} \X ns) : places'[p] = places[p]
      BY <1>5, TableFns DEF JournalInv
  <2>. QED
      BY <1>5, <2>1, TableFns, ChangedThenRewritten DEF JournalInv, PlacesOf
<1>7. Ungrouped(places, {g}) = places
  <2>1. \A p \in DOMAIN places : places[p].group # g
      BY <1>5, NilAssumption DEF JournalInv, Integrity, ForeignKeys, PlacesRefer
  <2>. QED
      BY <2>1, TableFns DEF JournalInv, Ungrouped, IsFn
<1>8. c.groups = groups
    BY <1>1, <1>2, <1>4, <1>5, TableFns, PutThenTaken DEF JournalInv, Off
<1>. QED
    BY <1>1, <1>2, <1>3, <1>4, <1>5, <1>6, <1>7, <1>8, SameTables DEF Inverts

LEMMA GroupUpdateInverts ==
    ASSUME JournalInv, NEW a, NEW g \in Group, NEW ti \in Title, GroupUpdated(a, g, ti)
    PROVE  Inverts
<1>. DEFINE db     == Tables'
            row    == GroupsIn({g})
            before == [Blank EXCEPT !.groups = row]
            c      == RestoreGroup(db, before)
<1>1. /\ IsDb(db) /\ db.maps = maps' /\ db.nodes = nodes' /\ db.places = places'
      /\ db.edges = edges' /\ db.groups = groups'
    BY TheTables
<1>2. before.groups = row /\ before.places = Empty /\ before.gone = {}
    BY BlankParts
<1>3. Undoing(Tables', log'[issued']) = c
  <2>1. \E m, after : Record(a, m, "group.save", before, after)
      BY DEF GroupUpdated
  <2>. HIDE DEF before
  <2>. QED
      BY <1>2, <2>1, Recorded DEF JournalInv, Applied
<1>. HIDE DEF before, db
<1>4. /\ IsDb(c) /\ c.maps = db.maps /\ c.nodes = db.nodes /\ c.edges = db.edges
      /\ c.groups = GroupsBack(db.groups, before.groups)
      /\ c.places = Rewritten(db.places, before.places)
    BY <1>1, GroupRestored
<1>. HIDE DEF c
<1>5. g \in DOMAIN groups /\ groups' = [groups EXCEPT ![g].title = ti]
      /\ UNCHANGED <<maps, nodes, places, edges>>
    BY DEF GroupUpdated, UpdateGroup
<1>6. GroupsBack(groups', row) = groups
  <2>1. DOMAIN groups' = DOMAIN groups /\ \A x \in DOMAIN groups \ {g} : groups'[x] = groups[x]
      BY <1>5
  <2>2. groups'[g] \in GroupRow /\ groups'[g].map = groups[g].map
      BY <1>5, TableFns DEF JournalInv, GroupRow
  <2>3. \A x \in DOMAIN groups' : groups'[x] \in GroupRow /\ groups'[x].map = groups[x].map
      BY <2>1, <2>2, TableFns DEF JournalInv
  <2>. QED
      BY <2>1, <2>3, TableFns, GroupsTakenThenBack DEF JournalInv, GroupsIn
<1>7. Rewritten(places, Empty) = places
    BY TableFns DEF JournalInv, Rewritten, Empty, IsFn
<1>. QED
    BY <1>1, <1>2, <1>3, <1>4, <1>5, <1>6, <1>7, SameTables DEF Inverts

LEMMA GroupMoveInverts ==
    ASSUME JournalInv, NEW a, NEW m, NEW g, NEW d, GroupMoved(a, m, g, d), issued' # issued
    PROVE  Inverts
<1>. DEFINE db     == Tables'
            at     == {m} \X MemberNodes(places, g)
            old    == PlacesOf(places, at)
            row    == GroupsIn({g})
            before == [Blank EXCEPT !.places = old, !.groups = row]
            c      == RestorePlacementState(db, before)
<1>1. /\ IsDb(db) /\ db.maps = maps' /\ db.nodes = nodes' /\ db.places = places'
      /\ db.edges = edges' /\ db.groups = groups'
    BY TheTables
<1>2. before.places = old
    BY BlankParts
<1>3. Undoing(Tables', log'[issued']) = c
  <2>1. \E after : Record(a, m, "group.move", before, after)
      BY DEF GroupMoved, Merge
  <2>. HIDE DEF before
  <2>. QED
      BY <2>1, Recorded DEF JournalInv, Applied
<1>. HIDE DEF before, db
<1>4. /\ IsDb(c) /\ c.maps = db.maps /\ c.nodes = db.nodes
      /\ c.places = Rewritten(db.places, before.places)
      /\ c.edges = db.edges /\ c.groups = db.groups
    BY <1>1, StatesRestored
<1>. HIDE DEF c
<1>5. /\ DOMAIN places' = DOMAIN places
      /\ \A p \in DOMAIN places : ~(p[1] = m /\ p[2] \in MemberNodes(places, g))
                                  => places'[p] = places[p]
      /\ UNCHANGED <<maps, nodes, edges, groups>>
    BY DEF GroupMoved, MoveGroup
<1>6. Rewritten(places', old) = places
  <2>1. \A p \in DOMAIN places \ at : places'[p] = places[p]
      BY <1>5, TableFns DEF JournalInv
  <2>. HIDE DEF at
  <2>. QED
      BY <1>5, <2>1, TableFns, ChangedThenRewritten DEF JournalInv, PlacesOf
<1>. QED
    BY <1>1, <1>2, <1>3, <1>4, <1>5, <1>6, SameTables DEF Inverts

(* A membership that is set is taken from placements of the group's own map, *)
(* as long as groups keep to their map.                                      *)
LEMMA MembershipInverts ==
    ASSUME JournalInv, NEW a, NEW m \in Map, NEW g \in Group, NEW ns,
           GroupMembersSet(a, m, g, ns), GroupsKeepToTheirMap, KeepsToItsMap(log'[issued'])
    PROVE  Inverts
<1>. DEFINE db     == Tables'
            at     == {m} \X (MemberNodes(places, g) \cup ns)
            row    == GroupsIn({g})
            old    == PlacesOf(places, at)
            before == [Blank EXCEPT !.groups = row, !.places = old]
            c      == RestoreGroup(db, before)
<1>1. /\ IsDb(db) /\ db.maps = maps' /\ db.nodes = nodes' /\ db.places = places'
      /\ db.edges = edges' /\ db.groups = groups'
    BY TheTables
<1>2. before.groups = row /\ before.places = old /\ before.gone = {}
    BY BlankParts
<1>3. Undoing(Tables', log'[issued']) = c
      /\ log'[issued'].map = m /\ log'[issued'].inverse = before
  <2>1. \E after : Record(a, m, "group.save", before, after)
      BY DEF GroupMembersSet
  <2>. HIDE DEF before
  <2>. QED
      BY <1>2, <2>1, Recorded DEF JournalInv, Applied
<1>. HIDE DEF before, db
<1>4. /\ IsDb(c) /\ c.maps = db.maps /\ c.nodes = db.nodes /\ c.edges = db.edges
      /\ c.groups = GroupsBack(db.groups, before.groups)
      /\ c.places = Rewritten(db.places, before.places)
    BY <1>1, GroupRestored
<1>. HIDE DEF c
<1>5. /\ groups' = IF ns = {} THEN Restrict(groups, DOMAIN groups \ {g}) ELSE groups
      /\ DOMAIN places' = DOMAIN places
      /\ \A p \in DOMAIN places : ~(p[1] = m /\ p[2] \in ns) /\ places[p].group # g
                                  => places'[p] = places[p]
      /\ UNCHANGED <<maps, nodes, edges>>
    BY DEF GroupMembersSet, SetGroupMembers, Ungrouped
<1>6. GroupsBack(groups', row) = groups
  <2>1. /\ DOMAIN groups' \subseteq DOMAIN groups /\ DOMAIN groups \subseteq DOMAIN groups' \cup {g}
        /\ \A x \in DOMAIN groups' : groups'[x] = groups[x]
      BY <1>5 DEF Restrict
  <2>2. \A x \in DOMAIN groups' : groups'[x] \in GroupRow /\ groups'[x].map = groups[x].map
      BY <2>1, TableFns DEF JournalInv
  <2>. QED
      BY <2>1, <2>2, TableFns, GroupsTakenThenBack DEF JournalInv, GroupsIn
<1>7. ASSUME NEW p \in DOMAIN places, places[p].group = g PROVE p[1] = m
  <2>1. g \in DOMAIN groups
      BY <1>7, NilAssumption DEF JournalInv, Integrity, ForeignKeys, PlacesRefer
  <2>2. g \in DOMAIN before.groups
      BY <1>2, <2>1 DEF GroupsIn, Restrict
  <2>3. groups[g].map = m
      BY <1>3, <2>1, <2>2, NilAssumption DEF KeepsToItsMap
  <2>. QED
      BY <1>7, <2>3, NilAssumption DEF GroupsKeepToTheirMap
<1>8. Rewritten(places', old) = places
  <2>1. ASSUME NEW p \in DOMAIN places, p \notin at PROVE places'[p] = places[p]
    <3>1. p = <<p[1], p[2]>>
        BY TableFns DEF JournalInv
    <3>2. places[p].group = g => p[2] \in MemberNodes(places, g)
        BY DEF MemberNodes, Members
    <3>. QED
        BY <1>5, <1>7, <2>1, <3>1, <3>2
  <2>. HIDE DEF at
  <2>. QED
      BY <1>5, <2>1, TableFns, ChangedThenRewritten DEF JournalInv, PlacesOf
<1>. QED
    BY <1>1, <1>2, <1>3, <1>4, <1>5, <1>6, <1>8, SameTables DEF Inverts

LEMMA GroupDeletionInverts ==
    ASSUME JournalInv, NEW a, NEW g \in Group, GroupDeleted(a, g), GroupsKeepToTheirMap
    PROVE  Inverts
<1>. DEFINE db  == Tables'
            m   == groups[g].map
            at  == {m} \X MemberNodes(places, g)
            row == GroupsIn({g})
            old == PlacesOf(places, at)
            was == [Blank EXCEPT !.groups = row, !.places = old]
            c   == RestoreGroup(db, was)
<1>1. /\ IsDb(db) /\ db.maps = maps' /\ db.nodes = nodes' /\ db.places = places'
      /\ db.edges = edges' /\ db.groups = groups'
    BY TheTables
<1>2. was.groups = row /\ was.places = old
    BY BlankParts
<1>3. Undoing(Tables', log'[issued']) = c
  <2>1. Record(a, m, "group.delete", was, was)
      BY DEF GroupDeleted
  <2>. HIDE DEF was
  <2>. QED
      BY <2>1, Recorded DEF JournalInv, Applied
<1>. HIDE DEF was, db
<1>4. /\ IsDb(c) /\ c.maps = db.maps /\ c.nodes = db.nodes /\ c.edges = db.edges
      /\ c.groups = GroupsBack(db.groups, was.groups)
      /\ c.places = Rewritten(db.places, was.places)
    BY <1>1, GroupRestored
<1>. HIDE DEF c
<1>5. /\ g \in DOMAIN groups /\ groups' = Restrict(groups, DOMAIN groups \ {g})
      /\ DOMAIN places' = DOMAIN places
      /\ \A p \in DOMAIN places : places[p].group # g => places'[p] = places[p]
      /\ UNCHANGED <<maps, nodes, edges>>
    BY DEF GroupDeleted, DeleteGroup, Ungrouped
<1>6. GroupsBack(groups', row) = groups
  <2>1. /\ DOMAIN groups' \subseteq DOMAIN groups /\ DOMAIN groups \subseteq DOMAIN groups' \cup {g}
        /\ \A x \in DOMAIN groups' : groups'[x] = groups[x]
      BY <1>5 DEF Restrict
  <2>2. \A x \in DOMAIN groups' : groups'[x] \in GroupRow /\ groups'[x].map = groups[x].map
      BY <2>1, TableFns DEF JournalInv
  <2>. QED
      BY <2>1, <2>2, TableFns, GroupsTakenThenBack DEF JournalInv, GroupsIn
<1>7. Rewritten(places', old) = places
  <2>1. ASSUME NEW p \in DOMAIN places, p \notin at PROVE places'[p] = places[p]
    <3>1. p = <<p[1], p[2]>>
        BY TableFns DEF JournalInv
    <3>2. places[p].group = g => p[1] = m /\ p[2] \in MemberNodes(places, g)
        BY NilAssumption DEF MemberNodes, Members, GroupsKeepToTheirMap
    <3>. QED
        BY <1>5, <2>1, <3>1, <3>2
  <2>. HIDE DEF at
  <2>. QED
      BY <1>5, <2>1, TableFns, ChangedThenRewritten DEF JournalInv, PlacesOf
<1>. QED
    BY <1>1, <1>2, <1>3, <1>4, <1>5, <1>6, <1>7, SameTables DEF Inverts

LEMMA MapDeletionInverts ==
    ASSUME JournalInv, NEW a, NEW m \in Map, MapDeleted(a, m), GroupsKeepToTheirMap
    PROVE  Inverts
<1>. DEFINE db  == Tables'
            ms  == {m}
            gr  == GroupsIn(GroupsOf(m))
            pl  == PlacesOf(places, {m} \X Node)
            es  == {e \in edges : e.map = m}
            was == [Blank EXCEPT !.maps = ms, !.groups = gr, !.places = pl, !.edges = es]
            c   == RestoreMap(db, was)
<1>1. /\ IsDb(db) /\ db.maps = maps' /\ db.nodes = nodes' /\ db.places = places'
      /\ db.edges = edges' /\ db.groups = groups'
    BY TheTables
<1>2. was.maps = ms /\ was.groups = gr /\ was.places = pl /\ was.edges = es
    BY BlankParts
<1>3. Undoing(Tables', log'[issued']) = c
  <2>1. /\ log' = Put(EntriesOff(m), issued + 1, Entry(a, Nil, "map.delete", was, was))
        /\ issued' = issued + 1
      BY DEF MapDeleted, Issue
  <2>. HIDE DEF was
  <2>2. log'[issued'] = Entry(a, Nil, "map.delete", was, was)
      BY <2>1 DEF Put
  <2>. QED
      BY <2>2 DEF Undoing, Entry, Applied
<1>. HIDE DEF was, db
<1>4. /\ IsDb(c) /\ c.maps = db.maps \cup was.maps /\ c.nodes = db.nodes
      /\ c.groups = GroupsBack(db.groups, was.groups)
      /\ c.places = PlacesBack(db.places, was.places)
      /\ c.edges = EdgesBack(db.edges, PlacesBack(db.places, was.places), was.edges)
    BY <1>1, MapRestored
<1>. HIDE DEF c
<1>5. /\ m \in maps /\ maps' = maps \ {m} /\ nodes' = nodes
      /\ places' = Ungrouped(WithoutMap(places, m), GroupsOf(m))
      /\ edges' = {e \in edges : e.map # m}
      /\ groups' = Restrict(groups, DOMAIN groups \ GroupsOf(m))
    BY DEF MapDeleted, DeleteMap
<1>6. GroupsBack(groups', gr) = groups
  <2>1. /\ DOMAIN groups' \subseteq DOMAIN groups
        /\ DOMAIN groups \subseteq DOMAIN groups' \cup GroupsOf(m)
        /\ \A x \in DOMAIN groups' : groups'[x] = groups[x]
      BY <1>5 DEF Restrict
  <2>2. \A x \in DOMAIN groups' : groups'[x] \in GroupRow /\ groups'[x].map = groups[x].map
      BY <2>1, TableFns DEF JournalInv
  <2>. QED
      BY <2>1, <2>2, TableFns, GroupsTakenThenBack DEF JournalInv, GroupsIn
<1>7. PlacesBack(places', pl) = places
  <2>1. DOMAIN places' = {p \in DOMAIN places : p[1] # m}
      BY <1>5 DEF Ungrouped, WithoutMap, Restrict
  <2>2. ASSUME NEW p \in DOMAIN places' PROVE places'[p] = places[p]
    <3>1. places[p].group \notin GroupsOf(m)
        BY <2>1, NilAssumption DEF GroupsOf, GroupsKeepToTheirMap, JournalInv, TypeOK
    <3>. QED
        BY <1>5, <2>1, <3>1 DEF Ungrouped, WithoutMap, Restrict
  <2>3. \A p \in DOMAIN places : p \in {m} \X Node <=> p[1] = m
      BY TableFns DEF JournalInv
  <2>4. DOMAIN places' = DOMAIN places \ ({m} \X Node)
      BY <2>1, <2>3
  <2>. QED
      BY <2>2, <2>4, TableFns, PlacesTakenThenBack DEF JournalInv
<1>8. c.edges = edges
  <2>1. es = edges \ edges' /\ edges' \subseteq edges
      BY <1>5
  <2>2. \A e \in es : Placed(places, e.map, e.source) /\ Placed(places, e.map, e.target)
      BY <2>1 DEF JournalInv, Integrity, EndpointsPlaced
  <2>3. Once(edges)
      BY DEF JournalInv, OneEdgePerClaim, Once
  <2>4. EdgesBack(edges', places, es) = edges
      BY <2>1, <2>2, <2>3, EdgesTakenThenBack
  <2>. QED
      BY <1>1, <1>2, <1>4, <1>7, <2>4
<1>9. c.maps = maps
    BY <1>1, <1>2, <1>4, <1>5
<1>. QED
    BY <1>1, <1>2, <1>3, <1>4, <1>5, <1>6, <1>7, <1>8, <1>9, SameTables DEF Inverts

-----------------------------------------------------------------------------
(* Every entry, the moment it is recorded. *)

LEMMA ContentChangeInverts ==
    ASSUME JournalInv, NEW a \in Actor, ContentChange(a), issued' # issued,
           GroupsKeepToTheirMap, KeepsToItsMap(log'[issued'])
    PROVE  Inverts
<1>0. Sound(Tables')
    BY ChangeKeepsTables DEF Change
<1>1. CASE \E in \in NewNodeInput, n \in Node, e \in Edge : NodeCreated(a, in, n, e)
    BY <1>1, CreationInverts
<1>2. CASE \E n \in Node, ty \in Type, ti \in Title, tg \in SUBSET Tag :
              n \in DOMAIN nodes /\ NodeUpdated(a, n, nodes[n], ty, ti, tg)
    BY <1>2, UpdateInverts
<1>3. CASE \E ns \in SUBSET Node, add, remove \in SUBSET Tag :
              NodesBulkUpdated(a, ns, add, remove)
    BY <1>3, BulkUpdateInverts
<1>4. CASE \E n \in Node : NodeDeleted(a, n)
    BY <1>4, DeletionInverts
<1>5. CASE \E m \in Map, n \in Node, pos \in Position \cup {Keep},
              g \in Group \cup {Nil, Keep} : NodeMoved(a, m, n, pos, g)
    BY <1>5, MoveInverts
<1>6. CASE \E in \in TranscludeInput, e \in Edge : NodeTranscluded(a, in, e)
    BY <1>0, <1>6, TranscludeInverts
<1>7. CASE \E m \in Map, n \in Node : NodeRemoved(a, m, n)
    BY <1>7, RemovalInverts
<1>8. CASE \E m \in Map, s, t \in Node, r \in AskedRelationship, e \in Edge :
              EdgeCreated(a, m, s, t, r, e)
    BY <1>0, <1>8, EdgeCreationInverts
<1>9. CASE \E e \in Edge : EdgeDeleted(a, e)
    BY <1>9, EdgeDeletionInverts
<1>10. CASE \E m \in Map, g \in Group, ti \in Title, ns \in SUBSET Node :
               GroupCreated(a, m, g, ti, ns)
    BY <1>10, GroupCreationInverts
<1>11. CASE \E g \in Group, ti \in Title : GroupUpdated(a, g, ti)
    BY <1>11, GroupUpdateInverts
<1>12. CASE \E m \in Map, g \in Group, d \in Offset : GroupMoved(a, m, g, d)
    BY <1>12, GroupMoveInverts
<1>13. CASE \E m \in Map, g \in Group, ns \in SUBSET Node : GroupMembersSet(a, m, g, ns)
    BY <1>13, MembershipInverts
<1>14. CASE \E g \in Group : GroupDeleted(a, g)
    BY <1>14, GroupDeletionInverts
<1>. QED
    BY <1>1, <1>2, <1>3, <1>4, <1>5, <1>6, <1>7, <1>8, <1>9, <1>10, <1>11, <1>12,
       <1>13, <1>14 DEF ContentChange

(* Undoing an entry as soon as it is written gives the tables back as they *)
(* were, whatever they held, unless the entry is of an edit written over a *)
(* row that another process has changed since the edit read it.            *)
THEOREM UndoIsInverse == Spec => UndoInverts
<1>. DEFINE Inverted == /\ issued' # issued
                        /\ ~Overwrites
                        /\ GroupsKeepToTheirMap
                        /\ KeepsToItsMap(log'[issued'])
                        => Undoing(Tables', log'[issued']) = Tables
<1>1. JournalInv /\ ReadOK /\ [Next]_vars => [Inverted]_vars
  <2>. SUFFICES ASSUME JournalInv, ReadOK, [Next]_vars, issued' # issued, ~Overwrites,
                       GroupsKeepToTheirMap, KeepsToItsMap(log'[issued'])
                PROVE  Inverts
      BY DEF Inverts
  <2>1. ASSUME NEW a \in Actor, ContentChange(a) PROVE Inverts
      BY <2>1, ContentChangeInverts
  <2>2. ASSUME NEW a \in Actor, NEW m \in Map, MapDeleted(a, m) PROVE Inverts
      BY <2>2, MapDeletionInverts
  <2>3. ASSUME NEW m \in Map, MapCreated(m) PROVE FALSE
      BY <2>3 DEF MapCreated
  <2>4. ASSUME NEW a \in Actor, UndoOrRedo(a) PROVE FALSE
      BY <2>4 DEF UndoOrRedo, Undo, Redo, Reapply
  <2>5. CASE EditRead \/ EditRefused \/ UNCHANGED vars
      BY <2>5 DEF EditRead, EditRefused, vars
  <2>6. ASSUME NEW a \in Actor, EditWritten(a) PROVE Inverts
    <3>1. PICK n \in Node, row \in NodeRow, ty \in Type, ti \in Title, tg \in SUBSET Tag :
             /\ NodeUpdated(a, n, row, ty, ti, tg)
             /\ \E p \in Process : /\ read[p] # Nil /\ read'[p] = Nil
                                   /\ read[p].node = n /\ read[p].row = row
        BY <2>6, EditWrittenIsEdit
    <3>2. n \in DOMAIN nodes => nodes[n] = row
        BY <3>1 DEF Overwrites
    <3>. QED
        BY <3>1, <3>2, UpdateInverts
  <2>. QED
      BY <2>1, <2>2, <2>3, <2>4, <2>5, <2>6 DEF Next, Change, MapChange
<1>. HIDE DEF Inverted
<1>2. Spec => [][Inverted]_vars
    BY <1>1, TheyHold, PTL DEF Spec
<1>. QED
    BY <1>2 DEF Inverted, UndoInverts
=============================================================================
