------------------------------- MODULE Store --------------------------------
(***************************************************************************)
(* The tables of internal/store/schema.sql and the statements of           *)
(* internal/store/queries.go that change them.  Every operation of the     *)
(* code runs in one SQLite transaction, so each is one action; an          *)
(* operation that returns an error rolls back, so it is an action that is  *)
(* not enabled.  One of them, UpdateNode, reads a row before its           *)
(* transaction begins: ApplyEdit is that transaction, given the row, and    *)
(* module Processes keeps the two apart.  The undo journal is module       *)
(* Journal.                                                                *)
(*                                                                         *)
(* What is abstracted: a node's content is its set of tags, a map has no   *)
(* name, a colour no value, a pair of coordinates is one number.           *)
(***************************************************************************)
EXTENDS Ibis, Integers, FiniteSets, Functions

CONSTANTS
    Map, Node, Edge, Group,   \* identifiers NewID can hand out
    Title,                    \* what a title can say
    Tag,                      \* what a node can be tagged with
    Type,                     \* the types callers create or retype to
    Position,                 \* coordinates
    Offset,                   \* how far one drag moves a group
    InitMaps,                 \* the maps of the database that is opened
    Nil,                      \* NULL, "", or a JSON field left out
    Keep                      \* a column an UPDATE does not name

ASSUME TypeAssumption == Type \subseteq NodeTypes
ASSUME PositionAssumption == Position \subseteq Int /\ Offset \subseteq Int
ASSUME InitMapsAssumption == InitMaps \subseteq Map
ASSUME NilAssumption ==
    /\ Nil \notin Map
    /\ Nil \notin Node
    /\ Nil \notin Group
    /\ Nil \notin Position
    /\ Keep \notin Group \cup Position \cup {Nil}

VARIABLES
    maps,     \* the rows of maps
    nodes,    \* node id -> its type, title and tags
    places,   \* <<map, node>> -> position and group: the rows of map_nodes
    edges,    \* the rows of edges
    groups    \* group id -> its map and title

tables == <<maps, nodes, places, edges, groups>>

NodeRow  == [type : NodeTypes \ {"map"}, title : Title, tags : SUBSET Tag]
PlaceRow == [pos : Position \cup {Nil}, group : Group \cup {Nil}]
GroupRow == [map : Map, title : Title]
EdgeRow  == [id : Edge, map : Map, source : Node, target : Node,
             rel : Relationships]

\* A table without rows.
Empty == [x \in {} |-> Nil]

\* f with x mapped to v.
Put(f, x, v) == [y \in DOMAIN f \cup {x} |-> IF y = x THEN v ELSE f[y]]

Placed(pl, m, n) == <<m, n>> \in DOMAIN pl
EdgeIds(es)      == {e.id : e \in es}
Key(e)           == <<e.map, e.source, e.target, e.rel>>
Touches(e, n)    == n \in {e.source, e.target}
TypeOf           == [n \in DOMAIN nodes |-> nodes[n].type]
Legal(e, type)   == ValidateEdge(type[e.source], type[e.target], e.rel)

-----------------------------------------------------------------------------
(* The argument tree of a map: its hierarchical edges. *)

Closed(es, m, S) ==
    \A e \in es : /\ e.map = m
                  /\ IsHierarchical(e.rel)
                  /\ e.source \in S
                  => e.target \in S

\* reachableTx: the breadth-first walk from a node finds the goal.
Reaches(es, m, from, goal) ==
    \A S \in SUBSET Node : from \in S /\ Closed(es, m, S) => goal \in S

\* Mutant of CanLink: the walk starts at the wrong end.
CanLinkBackwards(es, pl, type, e) ==
    /\ e.source # e.target
    /\ Legal(e, type)
    /\ Placed(pl, e.map, e.source) /\ Placed(pl, e.map, e.target)
    /\ IsHierarchical(e.rel) => ~Reaches(es, e.map, e.source, e.target)
    /\ \A f \in es : Key(f) # Key(e)

\* insertEdgeTx accepts the edge, given the placements and types it reads.
CanLink(es, pl, type, e) ==
    /\ e.source # e.target
    /\ Legal(e, type)
    /\ Placed(pl, e.map, e.source) /\ Placed(pl, e.map, e.target)
    /\ IsHierarchical(e.rel) => ~Reaches(es, e.map, e.target, e.source)
    /\ \A f \in es : Key(f) # Key(e)

\* The row insertEdgeTx writes.
NewEdge(e, m, s, t, r, type) ==
    [id |-> e, map |-> m, source |-> s, target |-> t,
     rel |-> Inferred(r, type[s], type[t])]

-----------------------------------------------------------------------------
(* Foreign keys: what SQLite takes along with a row.                       *)

WithoutNode(pl, n)   == Restrict(pl, {p \in DOMAIN pl : p[2] # n})
WithoutMap(pl, m)    == Restrict(pl, {p \in DOMAIN pl : p[1] # m})
UngroupedNot(pl, gs) == pl   \* mutant of Ungrouped
\* ON DELETE SET NULL: members of a deleted group stay where they are.
Ungrouped(pl, gs) ==
    [p \in DOMAIN pl |->
        IF pl[p].group \in gs THEN [pl[p] EXCEPT !.group = Nil] ELSE pl[p]]
GroupsOf(m) == {g \in DOMAIN groups : groups[g].map = m}
Members(pl, g) == {p \in DOMAIN pl : pl[p].group = g}
\* groupMembersTx: node ids, whichever map the membership is recorded on.
MemberNodes(pl, g) == {p[2] : p \in Members(pl, g)}

-----------------------------------------------------------------------------
CreateMap(m) ==
    /\ m \notin maps
    /\ maps' = maps \cup {m}
    /\ UNCHANGED <<nodes, places, edges, groups>>

DeleteMap(m) ==
    /\ m \in maps
    /\ maps' = maps \ {m}
    /\ places' = Ungrouped(WithoutMap(places, m), GroupsOf(m))
    /\ edges' = {e \in edges : e.map # m}
    /\ groups' = Restrict(groups, DOMAIN groups \ GroupsOf(m))
    /\ UNCHANGED nodes

\* NewNodeInput and TranscludeInput: what a caller of the two asks for.
AskedRelationship == Relationships \cup {NoRelationship}
NewNodeInput ==
    [map : Map, type : Type, title : Title, tags : SUBSET Tag,
     pos : Position \cup {Nil}, parent : Node \cup {Nil},
     dir : {"from", "to"}, rel : AskedRelationship]
TranscludeInput ==
    [map : Map, node : Node, pos : Position \cup {Nil},
     parent : Node \cup {Nil}, rel : AskedRelationship]

\* Mutant of CreateNode: no CHECK asks a node of type "map" for its map.
CreateAnyNode(in, n, e) ==
    /\ in.map \in maps
    /\ n \notin DOMAIN nodes
    /\ nodes' = Put(nodes, n,
                    [type |-> in.type, title |-> in.title, tags |-> in.tags])
    /\ places' = Put(places, <<in.map, n>>, [pos |-> in.pos, group |-> Nil])
    /\ UNCHANGED <<maps, edges, groups>>

\* A node is inserted and placed; with a parent it is linked as well, from
\* the child to the parent unless the caller says dir = "to".  A node of type
\* "map" never gets in: the table's CHECK wants a map_ref_id, which no
\* statement supplies.
CreateNode(in, n, e) ==
    /\ in.map \in maps
    /\ n \notin DOMAIN nodes
    /\ in.type # "map"
    /\ nodes' = Put(nodes, n,
                    [type |-> in.type, title |-> in.title, tags |-> in.tags])
    /\ places' = Put(places, <<in.map, n>>, [pos |-> in.pos, group |-> Nil])
    /\ \/ in.parent = Nil /\ UNCHANGED edges
       \/ LET s == IF in.dir = "to" THEN in.parent ELSE n
              t == IF in.dir = "to" THEN n ELSE in.parent
              link == NewEdge(e, in.map, s, t, in.rel, TypeOf')
          IN /\ in.parent \in DOMAIN nodes
             /\ e \notin EdgeIds(edges)
             /\ CanLink(edges, places', TypeOf', link)
             /\ edges' = edges \cup {link}
    /\ UNCHANGED <<maps, groups>>

-----------------------------------------------------------------------------
(* Retyping a node relabels the edges around it (retypeEdgesTx).           *)

\* Mutant of Relabelled: the edges that arrive at the node are forgotten.
RelabelledFrom(es, type, n) == {e \in es : e.source = n /\ ~Legal(e, type)}

\* The edges whose relationship the new types do not allow.
Relabelled(es, type, n) == {e \in es : Touches(e, n) /\ ~Legal(e, type)}

Relabel(e, type) ==
    [e EXCEPT !.rel = DefaultRelationship(type[e.source], type[e.target])]

\* The edges that remain, of which new were relabelled.  A relabelled edge
\* that says what another already says is dropped; of two that come to say
\* the same, the one scanned second is.
RetypeInto(es, type, n, new) ==
    LET moved == Relabelled(es, type, n)
        stay  == es \ moved
        all   == {Relabel(e, type) : e \in moved}
        taken == {Key(e) : e \in stay}
        after == stay \cup new
    IN /\ \A e \in all : e.rel # NoRelationship
       /\ new \subseteq all
       /\ \A e \in new : Key(e) \notin taken
       /\ \A e, f \in new : Key(e) = Key(f) => e = f
       /\ \A e \in all : Key(e) \in taken \cup {Key(f) : f \in new}
       /\ \A e \in moved :
             /\ IsHierarchical(Relabel(e, type).rel)
             /\ ~IsHierarchical(e.rel)
             => ~Reaches(after, e.map, e.target, e.source)

\* The transaction of UpdateNode, which read row before it began.  The patch
\* is sparse in the code: a field left out is written back as it was read,
\* which is what passing that value does.  Whether this is a retype is told
\* from the row that was read.  A node that is gone by now is not written,
\* and that is no error.
ApplyEdit(n, row, ty, ti, tg) ==
    /\ ty # "map"
    /\ nodes' = [k \in DOMAIN nodes |->
                    IF k = n THEN [type |-> ty, title |-> ti, tags |-> tg]
                    ELSE nodes[k]]
    /\ \/ ty = row.type /\ UNCHANGED edges
       \/ /\ ty # row.type
          /\ LET moved == Relabelled(edges, TypeOf', n)
             IN \E new \in SUBSET {Relabel(e, TypeOf') : e \in moved} :
                   /\ RetypeInto(edges, TypeOf', n, new)
                   /\ edges' = (edges \ moved) \cup new
    /\ UNCHANGED <<maps, places, groups>>

\* UpdateNode when no other process writes between its read and its write.
UpdateNode(n, ty, ti, tg) ==
    n \in DOMAIN nodes /\ ApplyEdit(n, nodes[n], ty, ti, tg)

BulkUpdateNodes(ns, add, remove) ==
    /\ ns # {} /\ ns \subseteq DOMAIN nodes
    /\ add \cup remove # {}
    /\ nodes' = [n \in DOMAIN nodes |->
                    IF n \in ns
                    THEN [nodes[n] EXCEPT !.tags = (@ \cup add) \ remove]
                    ELSE nodes[n]]
    /\ UNCHANGED <<maps, places, edges, groups>>

\* A position or a group of Keep leaves that column out of the UPDATE.
SetPlacement(m, n, pos, g) ==
    /\ Placed(places, m, n)
    /\ <<pos, g>> # <<Keep, Keep>>
    /\ g \in DOMAIN groups \cup {Nil, Keep}
    /\ places' = [places EXCEPT ![<<m, n>>] =
                    [pos   |-> IF pos = Keep THEN @.pos ELSE pos,
                     group |-> IF g = Keep THEN @.group ELSE g]]
    /\ UNCHANGED <<maps, nodes, edges, groups>>

\* Insert an existing node on a map, under a parent if one is given.
Transclude(in, e) ==
    /\ in.map \in maps
    /\ in.node \in DOMAIN nodes
    /\ places' = IF Placed(places, in.map, in.node) THEN places
                 ELSE Put(places, <<in.map, in.node>>,
                          [pos |-> in.pos, group |-> Nil])
    /\ \/ in.parent = Nil /\ UNCHANGED edges
       \/ LET link == NewEdge(e, in.map, in.node, in.parent, in.rel, TypeOf)
          IN /\ in.parent \in DOMAIN nodes
             /\ e \notin EdgeIds(edges)
             /\ CanLink(edges, places', TypeOf, link)
             /\ edges' = edges \cup {link}
    /\ UNCHANGED <<maps, nodes, groups>>

\* The journal entry, written with it, names a map that exists; the node need
\* not be on it.
RemoveFromMap(m, n) ==
    /\ m \in maps
    /\ n \in DOMAIN nodes
    /\ edges' = {e \in edges : ~(e.map = m /\ Touches(e, n))}
    /\ places' = Restrict(places, DOMAIN places \ {<<m, n>>})
    /\ UNCHANGED <<maps, nodes, groups>>

DeleteNode(n) ==
    /\ n \in DOMAIN nodes
    /\ nodes' = Restrict(nodes, DOMAIN nodes \ {n})
    /\ places' = WithoutNode(places, n)
    /\ edges' = {e \in edges : ~Touches(e, n)}
    /\ UNCHANGED <<maps, groups>>

CreateEdge(m, s, t, r, e) ==
    /\ {s, t} \subseteq DOMAIN nodes
    /\ e \notin EdgeIds(edges)
    /\ LET link == NewEdge(e, m, s, t, r, TypeOf)
       IN /\ CanLink(edges, places, TypeOf, link)
          /\ edges' = edges \cup {link}
    /\ UNCHANGED <<maps, nodes, places, groups>>

DeleteEdge(e) ==
    /\ e \in EdgeIds(edges)
    /\ edges' = {f \in edges : f.id # e}
    /\ UNCHANGED <<maps, nodes, places, groups>>

-----------------------------------------------------------------------------
(* Groups: membership is a column of the placement. *)

CreateGroup(m, g, ti, ns) ==
    /\ Cardinality(ns) >= 2
    /\ \A n \in ns : Placed(places, m, n)
    /\ g \notin DOMAIN groups
    /\ groups' = Put(groups, g, [map |-> m, title |-> ti])
    /\ places' = [p \in DOMAIN places |->
                    IF p[1] = m /\ p[2] \in ns
                    THEN [places[p] EXCEPT !.group = g] ELSE places[p]]
    /\ UNCHANGED <<maps, nodes, edges>>

UpdateGroup(g, ti) ==
    /\ g \in DOMAIN groups
    /\ groups' = [groups EXCEPT ![g].title = ti]
    /\ UNCHANGED <<maps, nodes, places, edges>>

\* Members with no position on the map yet are left alone.  Position bounds
\* how far an instance lets a group be dragged.
MoveGroup(m, g, d) ==
    /\ Members(places, g) # {}
    /\ places' = [p \in DOMAIN places |->
                    IF /\ p[1] = m
                       /\ p[2] \in MemberNodes(places, g)
                       /\ places[p].pos # Nil
                    THEN [places[p] EXCEPT !.pos = @ + d] ELSE places[p]]
    /\ \A p \in DOMAIN places : places'[p].pos \in Position \cup {Nil}
    /\ UNCHANGED <<maps, nodes, edges, groups>>

\* The group row need not exist when the membership asked for is empty, or
\* names no node of the map: no foreign key is checked then.
SetGroupMembers(m, g, ns) ==
    /\ m \in maps
    /\ places' = [p \in DOMAIN places |->
                    IF p[1] = m /\ p[2] \in ns
                    THEN [places[p] EXCEPT !.group = g]
                    ELSE Ungrouped(places, {g})[p]]
    /\ Members(places', g) # {} => g \in DOMAIN groups
    /\ groups' = IF ns = {} THEN Restrict(groups, DOMAIN groups \ {g})
                 ELSE groups
    /\ UNCHANGED <<maps, nodes, edges>>

DeleteGroup(g) ==
    /\ g \in DOMAIN groups
    /\ groups' = Restrict(groups, DOMAIN groups \ {g})
    /\ places' = Ungrouped(places, {g})
    /\ UNCHANGED <<maps, nodes, edges>>

-----------------------------------------------------------------------------
InitTables ==
    /\ maps = InitMaps
    /\ nodes = Empty
    /\ places = Empty
    /\ edges = {}
    /\ groups = Empty

MapStep == \E m \in Map : CreateMap(m) \/ DeleteMap(m)

NodeStep ==
    \/ \E in \in NewNodeInput, n \in Node, e \in Edge : CreateNode(in, n, e)
    \/ \E n \in Node, ty \in Type, ti \in Title, tg \in SUBSET Tag :
          UpdateNode(n, ty, ti, tg)
    \/ \E ns \in SUBSET Node, add, remove \in SUBSET Tag :
          BulkUpdateNodes(ns, add, remove)
    \/ \E n \in Node : DeleteNode(n)

PlaceStep ==
    \/ \E m \in Map, n \in Node, pos \in Position \cup {Keep},
          g \in Group \cup {Nil, Keep} : SetPlacement(m, n, pos, g)
    \/ \E in \in TranscludeInput, e \in Edge : Transclude(in, e)
    \/ \E m \in Map, n \in Node : RemoveFromMap(m, n)

EdgeStep ==
    \/ \E m \in Map, s, t \in Node, r \in AskedRelationship, e \in Edge :
          CreateEdge(m, s, t, r, e)
    \/ \E e \in Edge : DeleteEdge(e)

GroupStep ==
    \/ \E m \in Map, g \in Group, ti \in Title, ns \in SUBSET Node :
          CreateGroup(m, g, ti, ns)
    \/ \E g \in Group, ti \in Title : UpdateGroup(g, ti)
    \/ \E m \in Map, g \in Group, d \in Offset : MoveGroup(m, g, d)
    \/ \E m \in Map, g \in Group, ns \in SUBSET Node : SetGroupMembers(m, g, ns)
    \/ \E g \in Group : DeleteGroup(g)

NextTables == MapStep \/ NodeStep \/ PlaceStep \/ EdgeStep \/ GroupStep

-----------------------------------------------------------------------------
(* Invariants. *)

\* The types of the tables: what each column of schema.sql can hold.
TypeOK ==
    /\ maps \subseteq Map
    /\ DOMAIN nodes \subseteq Node
    /\ nodes \in [DOMAIN nodes -> NodeRow]
    /\ DOMAIN places \subseteq Map \X Node
    /\ places \in [DOMAIN places -> PlaceRow]
    /\ edges \subseteq EdgeRow
    /\ DOMAIN groups \subseteq Group
    /\ groups \in [DOMAIN groups -> GroupRow]

PlacesRefer ==
    \A p \in DOMAIN places :
       /\ p[1] \in maps
       /\ p[2] \in DOMAIN nodes
       /\ places[p].group \in DOMAIN groups \cup {Nil}

EdgesRefer ==
    \A e \in edges : e.map \in maps /\ {e.source, e.target} \subseteq DOMAIN nodes

GroupsRefer == \A g \in DOMAIN groups : groups[g].map \in maps

\* Every reference of schema.sql names a row that exists, whatever was
\* deleted since: a placement's map, node and group, an edge's map and nodes,
\* a group's map.
ForeignKeys == PlacesRefer /\ EdgesRefer /\ GroupsRefer

\* An edge of a map joins two nodes that are on that map.  No foreign key
\* says so: insertEdgeTx checks it, and whatever takes a node off a map has to
\* take its edges there along.
EndpointsPlaced ==
    \A e \in edges : Placed(places, e.map, e.source) /\ Placed(places, e.map, e.target)

\* One edge per id, and one per (map, source, target, relationship): what the
\* primary key and idx_edges_unique want, so that no retype runs into them.
OneEdgePerClaim ==
    \A e, f \in edges : e.id = f.id \/ Key(e) = Key(f) => e = f

\* No node sits beneath itself in the argument tree of a map.
ArgumentTrees ==
    \A e \in edges : IsHierarchical(e.rel) => ~Reaches(edges, e.map, e.target, e.source)
=============================================================================
