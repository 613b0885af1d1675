------------------------------- MODULE Client -------------------------------
(***************************************************************************)
(* One browser tab that writes: the store of web/src/store/useGraph.ts and *)
(* the requests of web/src/api.ts, against the tables of Store.  A change  *)
(* is shown before it is asked for or when it is answered; requests are    *)
(* served and answered in any order, any of them can fail, and what others *)
(* do reaches the tab as events, in the order in which it was published.   *)
(*                                                                         *)
(* Left to other modules: sockets that lose events (Sync), locks           *)
(* (Presence), what undo does to the tables (Journal: here it is any       *)
(* change), where layout puts a card (Layout: here everything goes to      *)
(* Tidy), selection and editors (Desktop).  Echoes of the tab's own writes *)
(* are dropped by the first line of applyEvent, so none is sent.           *)
(***************************************************************************)
EXTENDS Store, Sequences, Bags, TLC

CONSTANTS
    SpareNodes, SpareEdges,   \* identifiers no row has had
    Tidy,                     \* where automatic layout puts a card
    Beside,                   \* where there is room for a new one
    Preferred,                \* the map of the address bar or the last visit
    Budget,                   \* bounds what users, others and the network do
    Asides, Away, Reverts,    \* what other tabs ask for, what is done with no tab,
                              \* and what undo brings about, of all that could be
    Rows                      \* the tables of the database that is opened

ASSUME TidyAssumption == {Tidy, Beside} \subseteq Position
ASSUME KeepAssumption == Keep \notin Title

VARIABLES
    list,       \* the maps of the picker
    mapId,      \* the map the tab is to show
    screen,     \* what it shows: a map, its nodes, edges and groups
    loading,
    inflight,   \* the requests that are not settled: a bag
    inbox,      \* events of others that have not been read
    spent,      \* of the budget
    off         \* for the properties: the parts no longer bound to agree

tab  == <<list, mapId, screen, loading>>
wire == <<inflight, inbox>>
vars == <<tables, tab, wire, spent, off>>

-----------------------------------------------------------------------------
(* What is shown. *)

Card(row, pos) == [type |-> row.type, title |-> row.title, tags |-> row.tags, pos |-> pos]
Saved(g)       == [map |-> groups[g].map, title |-> groups[g].title,
                   members |-> MemberNodes(places, g)]
CardOn(m, n)   == Card(nodes[n], IF Placed(places, m, n) THEN places[<<m, n>>].pos ELSE Nil)

\* GET /api/maps/{id}/graph
Graph(m) ==
    [of     |-> m,
     nodes  |-> [n \in {p[2] : p \in {q \in DOMAIN places : q[1] = m}} |-> CardOn(m, n)],
     edges  |-> {e \in edges : e.map = m},
     groups |-> [g \in GroupsOf(m) |-> Saved(g)]]

Nothing == [of |-> Nil, nodes |-> Empty, edges |-> {}, groups |-> Empty]

WithCard(s, n, c)  == [s EXCEPT !.nodes = Put(@, n, c)]
\* A record of edges by id: an edge that is known already is replaced.
WithEdges(s, es)   == [s EXCEPT !.edges = {e \in @ : e.id \notin EdgeIds(es)} \cup es]
WithoutEdge(s, e)  == [s EXCEPT !.edges = {f \in @ : f.id # e}]
WithGroup(s, g, c) == [s EXCEPT !.groups = Put(@, g, c)]
WithoutGroup(s, g) == [s EXCEPT !.groups = Restrict(@, DOMAIN @ \ {g})]
\* What was told goes before what was known.
Over(told, f) ==
    [x \in DOMAIN told \cup DOMAIN f |-> IF x \in DOMAIN told THEN told[x] ELSE f[x]]
Merged(s, told) ==
    WithEdges([s EXCEPT !.nodes  = Over(told.nodes, @),
                        !.groups = Over(told.groups, @)], told.edges)
\* New content for a card that is here; it keeps its place.
Rewritten(s, n, c) == WithCard(s, n, [c EXCEPT !.pos = s.nodes[n].pos])

\* Mutant of DropNode: the edges of the card are left hanging.
DropCard(s, n) == [s EXCEPT !.nodes = Restrict(@, DOMAIN @ \ {n})]
DropNode(s, n) ==
    [s EXCEPT !.nodes = Restrict(@, DOMAIN @ \ {n}),
              !.edges = {e \in @ : ~Touches(e, n)}]

Unplaced(s) == \E n \in DOMAIN s.nodes : s.nodes[n].pos = Nil
LaidOut(s)  == [s EXCEPT !.nodes = [n \in DOMAIN @ |-> [@[n] EXCEPT !.pos = Tidy]]]
\* Members without a place stay where they are; Position bounds the drag.
Shifted(s, g, d) ==
    [s EXCEPT !.nodes = [n \in DOMAIN @ |->
        IF n \in s.groups[g].members /\ s.nodes[n].pos # Nil
        THEN [s.nodes[n] EXCEPT !.pos = @ + d] ELSE s.nodes[n]]]

-----------------------------------------------------------------------------
(* The endpoints of api.ts that change something. *)

CreateNodeCall(m, ty, p, pos) ==
    [op |-> "createNode",
     in |-> [map |-> m, type |-> ty, title |-> CHOOSE t \in Title : TRUE,
             tags |-> {}, pos |-> pos, parent |-> p, dir |-> "from",
             rel |-> NoRelationship]]
UpdateCall(n, ty, ti, tg) ==
    [op |-> "updateNode", node |-> n, type |-> ty, title |-> ti, tags |-> tg]
BulkCall(ns, add)       == [op |-> "bulkUpdate", ns |-> ns, add |-> add]
MoveCall(m, n, pos)     == [op |-> "moveNode", map |-> m, node |-> n, pos |-> pos]
InsertCall(m, n, p, pos) ==
    [op |-> "transclude",
     in |-> [map |-> m, node |-> n, pos |-> pos, parent |-> p, rel |-> NoRelationship]]
RemoveCall(m, n)        == [op |-> "removeFromMap", map |-> m, node |-> n]
DeleteCall(n)           == [op |-> "deleteEverywhere", node |-> n]
LinkCall(m, s, t)       == [op |-> "createEdge", map |-> m, source |-> s, target |-> t]
UnlinkCall(e)           == [op |-> "deleteEdge", edge |-> e]
GroupCall(m, g, ns)     == [op |-> "createGroup", map |-> m, group |-> g, ns |-> ns]
RenameCall(g, t)        == [op |-> "renameGroup", group |-> g, title |-> t]
DragCall(m, g, d)       == [op |-> "moveGroup", map |-> m, group |-> g, by |-> d]
UngroupCall(g)          == [op |-> "deleteGroup", group |-> g]
CreateMapCall(m)        == [op |-> "createMap", map |-> m]
DeleteMapCall(m)        == [op |-> "deleteMap", map |-> m]
MembersCall(m, g, ns)   == [op |-> "setGroupMembers", map |-> m, group |-> g, ns |-> ns]
UndoCall                == [op |-> "undo"]
GraphCall(m)            == [op |-> "graph", map |-> m]
ListCall                == [op |-> "listMaps"]

\* NewID: one that is not used, or when the bound is reached one that no
\* statement accepts.
FreeOf(S, used) == CHOOSE x \in S : x \notin used \/ S \subseteq used
NewNode   == FreeOf(SpareNodes, DOMAIN nodes)
NewEdgeId == FreeOf(SpareEdges, EdgeIds(edges))
Or(x, y)  == IF x = Keep THEN y ELSE x

\* The server does what a write asks.
Perform(q) ==
    \/ q.op = "createNode" /\ CreateNode(q.in, NewNode, NewEdgeId)
    \/ /\ q.op = "updateNode" /\ q.node \in DOMAIN nodes
       /\ LET row == nodes[q.node]
          IN UpdateNode(q.node, Or(q.type, row.type), Or(q.title, row.title), Or(q.tags, row.tags))
    \/ q.op = "bulkUpdate" /\ BulkUpdateNodes(q.ns, q.add, {})
    \/ q.op = "moveNode" /\ SetPlacement(q.map, q.node, q.pos, Keep)
    \/ q.op = "transclude" /\ Transclude(q.in, NewEdgeId)
    \/ q.op = "removeFromMap" /\ RemoveFromMap(q.map, q.node)
    \/ q.op = "deleteEverywhere" /\ DeleteNode(q.node)
    \/ /\ q.op = "createEdge"
       /\ CreateEdge(q.map, q.source, q.target, NoRelationship, NewEdgeId)
    \/ q.op = "deleteEdge" /\ DeleteEdge(q.edge)
    \/ /\ q.op = "createGroup" /\ q.group \in Group
       /\ CreateGroup(q.map, q.group, CHOOSE t \in Title : TRUE, q.ns)
    \/ q.op = "renameGroup" /\ UpdateGroup(q.group, q.title)
    \/ q.op = "moveGroup" /\ MoveGroup(q.map, q.group, q.by)
    \/ /\ q.op = "setGroupMembers" /\ q.group \in DOMAIN groups
       /\ SetGroupMembers(q.map, q.group, q.ns)
    \/ q.op = "deleteGroup" /\ DeleteGroup(q.group)
    \/ q.op = "createMap" /\ CreateMap(q.map)
    \/ q.op = "deleteMap" /\ DeleteMap(q.map)

\* What the answer to a request says, in the state the request left behind.
NodesTold(m, ns) == [Nothing EXCEPT !.nodes = [n \in ns |-> CardOn(m, n)']]
Told(q) ==
    LET linked  == edges' \ edges
        created == DOMAIN nodes' \ DOMAIN nodes
    IN CASE q.op = "createNode" ->
              WithEdges(NodesTold(q.in.map, created), linked)
         [] q.op = "transclude" ->
              WithEdges(NodesTold(q.in.map, {q.in.node}), linked)
         [] q.op = "updateNode" -> NodesTold(Nil, {q.node})
         [] q.op = "bulkUpdate" -> NodesTold(Nil, q.ns)
         [] q.op = "createEdge" -> WithEdges(Nothing, linked)
         [] q.op \in {"createGroup", "renameGroup"} ->
              WithGroup(Nothing, q.group, Saved(q.group)')
         [] q.op = "graph" -> Graph(q.map)
         [] q.op = "listMaps" -> maps
         [] OTHER -> Nothing

-----------------------------------------------------------------------------
(* What the server tells the other tabs of a write (api.go), in order.  An *)
(* event without a map concerns every map.                                 *)

Event(kind, m, what) == <<[kind |-> kind, map |-> m, what |-> what]>>

Events(q) ==
    LET m    == q.map
        told == Told(q)
        linked == edges' \ edges
    IN CASE q.op = "createNode" -> Event("node.created", q.in.map, told)
         [] q.op = "transclude" ->
              Event("node.transcluded", q.in.map, [told EXCEPT !.edges = {}])
              \o (IF linked = {} THEN <<>>
                 ELSE Event("edge.created", q.in.map, WithEdges(Nothing, linked)))
         [] q.op = "updateNode" -> Event("node.updated", Nil, told)
         [] q.op = "moveNode" ->
              Event("node.moved", m, [node |-> q.node, pos |-> q.pos])
         [] q.op = "removeFromMap" -> Event("node.removedFromMap", m, q.node)
         [] q.op = "deleteEverywhere" -> Event("node.deleted", Nil, q.node)
         [] q.op = "createEdge" -> Event("edge.created", m, told)
         [] q.op = "deleteEdge" -> Event("edge.deleted", Nil, q.edge)
         [] q.op \in {"createGroup", "renameGroup"} ->
              Event("group.saved", groups'[q.group].map, told)
         [] q.op = "setGroupMembers" ->
              IF q.ns = {} THEN Event("group.deleted", m, q.group)
              ELSE Event("group.saved", groups'[q.group].map,
                         WithGroup(Nothing, q.group, Saved(q.group)'))
         [] q.op = "deleteGroup" -> Event("group.deleted", Nil, q.group)
         [] q.op = "createMap" -> Event("map.created", m, Nil)
         [] q.op = "deleteMap" -> Event("map.deleted", m, Nil)
         [] OTHER -> Event("graph.invalidated", Nil, Nil)

-----------------------------------------------------------------------------
(* Requests: sent by a function of the store, served by the server, and    *)
(* settled when that function goes on.                                     *)

Request(by, q, was) ==
    [by |-> by, do |-> q, was |-> was, state |-> "waiting", says |-> Nothing]
Keeping(by, q, was) == SetToBag({Request(by, q, was)})
Ask(by, q)    == Keeping(by, q, Nothing)
ReloadAsk     == IF mapId = Nil THEN EmptyBag ELSE Ask("reload", GraphCall(mapId))

\* What runAutoLayout sends for the cards of s: a write for each.
LayoutAsks(s) ==
    SetToBag({Request("runAutoLayout", MoveCall(mapId, n, Tidy), Nothing) : n \in DOMAIN s.nodes})

Quiet == inflight = EmptyBag /\ inbox = <<>>

-----------------------------------------------------------------------------
(* What the user does. *)

Spend == spent < Budget /\ spent' = spent + 1

\* A gesture that leaves the screen and the server apart in what it names.
GestureParting(parts) ==
    /\ Spend
    /\ off' = parts \cup (IF Quiet THEN off ELSE off \cup {"graph", "list"})
    /\ UNCHANGED <<tables, inbox, list>>

Gesture == GestureParting({})

\* A gesture that changes s on the screen and sends the requests.
Show(s, asks) ==
    /\ screen' = s
    /\ inflight' = inflight (+) asks
    /\ UNCHANGED <<mapId, loading>>
Send(asks) == Show(screen, asks)

\* loading: a map is being opened.
Opening(m, others) ==
    /\ loading' = TRUE
    /\ mapId' = m
    /\ inflight' = others (+) Ask("openMap", GraphCall(m))
    /\ UNCHANGED screen

OpenMap(m) == Gesture /\ m \in list /\ Opening(m, inflight)

\* Shown at once, and put back if the server refuses.
CommitTitle(n, t) ==
    /\ Gesture
    /\ n \in DOMAIN screen.nodes
    /\ screen.nodes[n].title # t
    /\ Show([screen EXCEPT !.nodes[n].title = t],
            Keeping("commitTitle", UpdateCall(n, Keep, t, Keep), screen.nodes[n]))

\* createChild, and createRoot with no parent.
CreateChild(p, ty) ==
    /\ Gesture
    /\ mapId # Nil
    /\ p \in DOMAIN screen.nodes \cup {Nil}
    /\ Send(Ask("createChild", CreateNodeCall(mapId, ty, p, Beside)))

Link(s, t) ==
    /\ Gesture
    /\ mapId # Nil /\ s # t
    /\ {s, t} \subseteq DOMAIN screen.nodes
    /\ Send(Ask("link", LinkCall(mapId, s, t)))

Unlink(e) ==
    /\ Gesture
    /\ mapId # Nil
    /\ e \in screen.edges
    /\ Show(WithoutEdge(screen, e.id), Keeping("unlink", UnlinkCall(e.id), e))

\* Shown and written, and left as it is when the write fails.
MoveNode(n, pos) ==
    /\ Gesture
    /\ mapId # Nil
    /\ n \in DOMAIN screen.nodes
    /\ Show([screen EXCEPT !.nodes[n].pos = pos], Ask("moveNode", MoveCall(mapId, n, pos)))

\* The panel's edits of one node: shown when answered.
PatchNode(n, ty, tg) ==
    /\ Gesture
    /\ n \in DOMAIN screen.nodes
    /\ Send(Keeping("patchNode", UpdateCall(n, ty, Keep, tg), screen.nodes[n]))

RemoveShown(n) ==
    /\ Gesture
    /\ mapId # Nil
    /\ n \in DOMAIN screen.nodes
    /\ \/ Send(Ask("dropNode", RemoveCall(mapId, n)))
       \/ Send(Ask("dropNode", DeleteCall(n)))

\* From the palette, which leaves out what is on the map.
InsertExisting(n, p) ==
    /\ Gesture
    /\ mapId # Nil
    /\ n \in DOMAIN nodes /\ ~Placed(places, mapId, n)
    /\ p \in DOMAIN screen.nodes \cup {Nil}
    /\ Send(Ask("insertExisting", InsertCall(mapId, n, p, Beside)))

BulkUpdate(ns) ==
    /\ Gesture
    /\ ns # {} /\ ns \subseteq DOMAIN screen.nodes
    /\ Send(Ask("bulkUpdate", BulkCall(ns, Tag)))

GroupSelection(g, ns) ==
    /\ Gesture
    /\ mapId # Nil
    /\ Cardinality(ns) >= 2 /\ ns \subseteq DOMAIN screen.nodes
    /\ g \notin DOMAIN groups
    /\ Send(Ask("groupSelection", GroupCall(mapId, g, ns)))

UngroupSelected(g) ==
    /\ Gesture
    /\ mapId # Nil
    /\ g \in DOMAIN screen.groups
    /\ Show(WithoutGroup(screen, g), Ask("deleteGroup", UngroupCall(g)))

RenameShown(g, t) ==
    /\ Gesture
    /\ g \in DOMAIN screen.groups
    /\ Send(Ask("renameGroup", RenameCall(g, t)))

\* shiftGroupLocal while the box is dragged, commitGroupMove when it is let go.
\* The tab moves the members it shows, the server those there are: a card that
\* others have put in another group is moved by the tab alone.
DragGroup(g, d) ==
    /\ mapId # Nil /\ d # 0
    /\ g \in DOMAIN screen.groups
    /\ GestureParting(IF screen.groups[g].members \subseteq MemberNodes(places, g)
                      THEN {} ELSE {"places"})
    /\ \A n \in screen.groups[g].members \cap DOMAIN screen.nodes :
          Shifted(screen, g, d).nodes[n].pos \in Position \cup {Nil}
    /\ Show(Shifted(screen, g, d), Ask("commitGroupMove", DragCall(mapId, g, d)))

RunAutoLayout ==
    /\ Gesture
    /\ mapId # Nil
    /\ Show(LaidOut(screen), LayoutAsks(screen))

UndoOrRedo == Gesture /\ Send(Ask("undo", UndoCall))

NewMap(m) ==
    /\ Gesture
    /\ m \notin maps
    /\ Send(Ask("createMap", CreateMapCall(m)))

-----------------------------------------------------------------------------
(* What becomes of a request.                                              *)

Becomes(r, next) == inflight' = inflight (-) SetToBag({r}) (+) SetToBag({next})
Answer(r, says)  == Becomes(r, [r EXCEPT !.state = "answered", !.says = says])

\* Reads that fail and writes nothing takes back leave the screen behind.
OffWithout(r) ==
    CASE r.by \in {"openMap", "reload", "deleteGroup"} -> {"graph"}
      [] r.by \in {"moveNode", "runAutoLayout"} -> {"places"}
      [] r.by \in {"listMaps", "bootstrap", "newMap"} -> {"list"}
      [] OTHER -> {}

Serve(r) ==
    /\ r.state = "waiting"
    /\ \/ r.do.op = "listMaps" /\ UNCHANGED tables
       \/ r.do.op = "graph" /\ r.do.map \in maps /\ UNCHANGED tables
       \/ Perform(r.do)
    /\ Answer(r, Told(r.do))
    /\ UNCHANGED <<tab, inbox, spent, off>>

\* Undo takes a change back, whatever it was (Journal); "Nothing left to
\* undo" otherwise.  The picker of a tab hears of no map undo brings back.
ServeUndo(r) ==
    /\ r.state = "waiting"
    /\ r.do.op = "undo"
    /\ \/ Answer(r, FALSE) /\ UNCHANGED <<tables, off>>
       \/ /\ \E q \in Reverts : Perform(q)
          /\ Answer(r, TRUE)
          /\ off' = IF maps' = maps THEN off ELSE off \cup {"list", "graph"}
    /\ UNCHANGED <<tab, inbox, spent>>

Accepts(q) ==
    CASE q.op = "graph" -> q.map \in maps
      [] q.op \in {"listMaps", "undo"} -> TRUE
      [] OTHER -> ENABLED Perform(q)

Fail(r) ==
    /\ Becomes(r, [r EXCEPT !.state = "failed", !.says = Nothing])
    /\ UNCHANGED <<tables, tab, inbox>>

\* Refused by the server, or lost on the way there: nothing has happened.
Refuse(r) ==
    /\ r.state = "waiting"
    /\ (~Accepts(r.do) /\ UNCHANGED spent) \/ Spend
    /\ off' = off \cup OffWithout(r)
    /\ Fail(r)

\* Done, but the answer never arrives.
LoseAnswer(r) ==
    /\ r.state = "answered"
    /\ Spend
    /\ off' = off \cup {"graph", "list"}
    /\ Fail(r)

-----------------------------------------------------------------------------
(* The function that asked goes on.                                        *)

Leave(r, more) == inflight' = inflight (-) SetToBag({r}) (+) more
Paint(r, s, more) ==
    /\ screen' = s
    /\ Leave(r, more)
    /\ UNCHANGED <<list, mapId, loading>>
Drop(r) == Paint(r, screen, EmptyBag)

\* A graph is shown whatever map is open by now.  Cards without a place are
\* placed before the first paint, with all the others.
PaintGraph(r, g) ==
    LET blind == Unplaced(g)
    IN /\ screen' = IF blind THEN LaidOut(g) ELSE g
       /\ Leave(r, IF blind THEN LayoutAsks(g) ELSE EmptyBag)
       /\ UNCHANGED <<list, mapId>>

\* Mutant of RolledBack: the card comes back, whether it is still here or not.
RolledBackAnyway(r) == WithCard(screen, r.do.node, r.was)
\* Only if the node is still here: an undo may have removed it meanwhile.
RolledBack(r) ==
    IF r.do.node \in DOMAIN screen.nodes THEN WithCard(screen, r.do.node, r.was) ELSE screen

\* The catch block.
PutBack(r) ==
    CASE r.by = "commitTitle" -> RolledBack(r)
      [] r.by = "unlink"      -> WithEdges(screen, {r.was})
      [] OTHER                -> screen

LoadingStays(r) == loading   \* mutant of LoadingAfter: the catch block only tells the error
LoadingAfter(r) == IF r.by \in {"openMap", "bootstrap"} THEN FALSE ELSE loading

GiveUp(r) ==
    /\ screen' = PutBack(r)
    /\ loading' = LoadingAfter(r)
    /\ Leave(r, IF r.by = "commitGroupMove" THEN ReloadAsk ELSE EmptyBag)
    /\ UNCHANGED <<list, mapId>>

\* The edits of several nodes, merged so that each keeps its place.
Rewrites(s, told) ==
    [s EXCEPT !.nodes = Over([n \in DOMAIN told.nodes |->
        [told.nodes[n] EXCEPT !.pos = IF n \in DOMAIN s.nodes THEN s.nodes[n].pos ELSE @]], @)]

Retypes(r) == r.do.type \notin {Keep, r.was.type}

WrittenAnswer(r) ==
    \/ r.by \in {"createChild", "insertExisting", "link", "renameGroup"}
       /\ Paint(r, Merged(screen, r.says), EmptyBag)
    \/ r.by = "patchNode"
       /\ Paint(r, WithCard(screen, r.do.node, [r.says.nodes[r.do.node] EXCEPT !.pos = r.was.pos]),
                IF Retypes(r) THEN ReloadAsk ELSE EmptyBag)
    \/ r.by = "bulkUpdate" /\ Paint(r, Rewrites(screen, r.says), EmptyBag)
    \/ r.by = "dropNode" /\ Paint(r, DropNode(screen, r.do.node), EmptyBag)
    \* Grouping can take nodes out of another group: the rest is refetched.
    \/ r.by = "groupSelection" /\ Paint(r, Merged(screen, r.says), ReloadAsk)
    \/ r.by = "undo" /\ Paint(r, screen, IF r.says THEN ReloadAsk ELSE EmptyBag)
    \/ /\ r.by \in {"commitTitle", "unlink", "moveNode", "runAutoLayout", "deleteGroup",
                    "commitGroupMove"}
       /\ Drop(r)

ListAnswer(r) ==
    \/ r.by = "listMaps" /\ list' = r.says /\ Leave(r, EmptyBag) /\ UNCHANGED <<mapId, loading, screen>>
    \/ /\ r.by = "bootstrap"
       /\ list' = r.says
       /\ \/ /\ r.says = {} /\ loading' = FALSE
             /\ Leave(r, EmptyBag) /\ UNCHANGED <<mapId, screen>>
          \* The map the address or the last visit names, if there is one.
          \/ \E m \in r.says :
                /\ Preferred \in r.says => m = Preferred
                /\ Opening(m, inflight (-) SetToBag({r}))
    \/ r.by = "newMap" /\ list' = r.says /\ Opening(r.was, inflight (-) SetToBag({r}))
    \/ r.by = "createMap" /\ Paint(r, screen, Keeping("newMap", ListCall, r.do.map))

GraphAnswer(r) ==
    \/ r.by = "openMap" /\ PaintGraph(r, r.says) /\ loading' = FALSE
    \/ r.by = "reload" /\ PaintGraph(r, r.says) /\ UNCHANGED loading

\* A graph that nothing has overtaken puts the screen right again.
PutsRight(r) ==
    r.do.op = "graph" /\ r.state = "answered" /\ inflight = SetToBag({r}) /\ inbox = <<>>
    /\ r.says = Graph(mapId)

Settle(r) ==
    /\ \/ r.state = "failed" /\ GiveUp(r)
       \/ /\ r.state = "answered"
          /\ WrittenAnswer(r) \/ ListAnswer(r) \/ GraphAnswer(r)
    /\ off' = IF PutsRight(r) THEN off \ {"graph", "places"} ELSE off
    /\ UNCHANGED <<tables, inbox, spent>>

-----------------------------------------------------------------------------
(* What others do, and the events that say so.                             *)

\* What a change of others is not announced by: relabelled edges, a map that is
\* gone while it is open, a removal read as one from this map, and where this
\* tab puts a card that came without a place.
Untold(q) ==
    LET retyped == q.op = "updateNode" /\ edges' # edges
        gone    == q.op = "deleteMap" /\ q.map = mapId
        aside   == q.op = "removeFromMap" /\ q.map # mapId /\ q.node \in DOMAIN screen.nodes
        blind   == q.op = "createNode" /\ q.in.pos = Nil /\ q.in.map = mapId
    IN (IF ~Quiet \/ retyped \/ gone \/ aside THEN {"graph", "list"} ELSE {})
       \cup (IF blind THEN {"places"} ELSE {})

Others ==
    /\ Spend
    /\ UNCHANGED <<tab, inflight>>

OtherTab(q) ==
    /\ Others
    /\ Perform(q)
    /\ inbox' = inbox \o Events(q)
    /\ off' = off \cup Untold(q)

\* A command line or an agent: the watcher sees that the file has changed.
Elsewhere(q) ==
    /\ Others
    /\ Perform(q)
    /\ inbox' = Append(inbox, [kind |-> "graph.invalidated", map |-> Nil, what |-> Nil])
    /\ off' = off \cup (IF Quiet THEN {} ELSE {"graph"})
                   \cup (IF maps' = maps THEN {} ELSE {"list"})

Concerns(e) == e.map = mapId

Reads(e, s, asks) ==
    /\ inbox' = Tail(inbox)
    /\ screen' = s
    /\ inflight' = inflight (+) asks

\* node.created and node.transcluded, edge.created, group.saved
ReadAddition(e) ==
    /\ e.kind \in {"node.created", "node.transcluded", "edge.created", "group.saved"}
    /\ LET s == IF Concerns(e) THEN Merged(screen, e.what) ELSE screen
           \* A node made blind: everything is laid out, and nothing saved.
           blind == e.kind = "node.created" /\ Concerns(e) /\ Unplaced(e.what)
       IN Reads(e, IF blind THEN LaidOut(s) ELSE s, EmptyBag)

\* Whatever map it is on, and it keeps its place here.
ReadUpdate(e) ==
    /\ e.kind = "node.updated"
    /\ LET n == CHOOSE n \in DOMAIN e.what.nodes : TRUE
       IN Reads(e, IF n \in DOMAIN screen.nodes
                   THEN Rewritten(screen, n, e.what.nodes[n]) ELSE screen, EmptyBag)

ReadMove(e) ==
    /\ e.kind = "node.moved"
    /\ Reads(e, IF Concerns(e) /\ e.what.node \in DOMAIN screen.nodes
                THEN [screen EXCEPT !.nodes[e.what.node].pos = e.what.pos] ELSE screen, EmptyBag)

\* Read alike, and whatever map the second is about.
ReadRemoval(e) ==
    \/ /\ e.kind \in {"node.deleted", "node.removedFromMap"}
       /\ Reads(e, DropNode(screen, e.what), EmptyBag)
    \/ e.kind = "edge.deleted" /\ Reads(e, WithoutEdge(screen, e.what), EmptyBag)
    \/ e.kind = "group.deleted" /\ Reads(e, WithoutGroup(screen, e.what), EmptyBag)

\* Mutant of ReadNews: the list is left as it is.
ReadNewsOfGraph(e) ==
    \/ e.kind = "graph.invalidated" /\ Reads(e, screen, ReloadAsk)
    \/ e.kind \in {"map.created", "map.deleted"} /\ Reads(e, screen, EmptyBag)
ReadNews(e) ==
    \/ e.kind = "graph.invalidated" /\ Reads(e, screen, ReloadAsk)
    \/ /\ e.kind \in {"map.created", "map.deleted"}
       /\ Reads(e, screen, Ask("listMaps", ListCall))

ApplyEvent ==
    /\ inbox # <<>>
    /\ \E e \in {Head(inbox)} :
          ReadAddition(e) \/ ReadUpdate(e) \/ ReadMove(e) \/ ReadRemoval(e) \/ ReadNews(e)
    /\ UNCHANGED <<tables, list, mapId, loading, spent, off>>

-----------------------------------------------------------------------------
\* The page has loaded and bootstrap has asked for the list.  The database has
\* been written by the store.
Init ==
    /\ maps = Rows.maps /\ nodes = Rows.nodes /\ places = Rows.places
    /\ edges = Rows.edges /\ groups = Rows.groups
    /\ TypeOK /\ ForeignKeys /\ EndpointsPlaced /\ OneEdgePerClaim
    /\ list = {} /\ mapId = Nil /\ screen = Nothing /\ loading = TRUE
    /\ inflight = Ask("bootstrap", ListCall)
    /\ inbox = <<>>
    /\ spent = 0
    /\ off = {}

EditNode ==
    \E n \in DOMAIN screen.nodes :
       \/ \E t \in Title : CommitTitle(n, t)
       \/ \E pos \in Position : MoveNode(n, pos)
       \/ \E ty \in Type : PatchNode(n, ty, Keep)
       \/ PatchNode(n, Keep, Tag)
       \/ RemoveShown(n)

Connect ==
    \/ \E p \in DOMAIN screen.nodes \cup {Nil} :
          \/ \E ty \in Type : CreateChild(p, ty)
          \/ \E n \in Node : InsertExisting(n, p)
    \/ \E s, t \in DOMAIN screen.nodes : Link(s, t)
    \/ \E e \in screen.edges : Unlink(e)

EditSeveral ==
    \/ \E ns \in SUBSET DOMAIN screen.nodes :
          BulkUpdate(ns) \/ \E g \in Group : GroupSelection(g, ns)
    \/ \E g \in DOMAIN screen.groups :
          \/ UngroupSelected(g)
          \/ \E t \in Title : RenameShown(g, t)
          \/ \E d \in Offset : DragGroup(g, d)

User ==
    \/ EditNode \/ Connect \/ EditSeveral
    \/ RunAutoLayout \/ UndoOrRedo
    \/ \E m \in Map : OpenMap(m) \/ NewMap(m)

Asked == BagToSet(inflight)
Outcome(r) == Serve(r) \/ ServeUndo(r) \/ Refuse(r) \/ LoseAnswer(r)

Next ==
    \/ User
    \/ \E r \in Asked : Outcome(r) \/ Settle(r)
    \/ ApplyEvent
    \/ \E q \in Asides : OtherTab(q)
    \/ \E q \in Away : Elsewhere(q)

\* The browser resolves or rejects every fetch, and then resumes who waited.
Fairness ==
    /\ WF_vars(\E r \in Asked : Outcome(r))
    /\ WF_vars(\E r \in Asked : Settle(r))

Spec == Init /\ [][Next]_vars /\ Fairness

-----------------------------------------------------------------------------
SameNodes(s, t) ==
    /\ DOMAIN s.nodes = DOMAIN t.nodes
    /\ \A n \in DOMAIN s.nodes : [s.nodes[n] EXCEPT !.pos = Nil] = [t.nodes[n] EXCEPT !.pos = Nil]

\* What a group has lost is not told to those who see it.
SameGroups(s, t) ==
    /\ DOMAIN s.groups = DOMAIN t.groups
    /\ \A g \in DOMAIN s.groups :
          /\ s.groups[g].title = t.groups[g].title
          /\ t.groups[g].members \subseteq s.groups[g].members

\* Once everything asked for has been settled and every event read, the tab
\* shows what the database holds of the open map: each change the store makes
\* on its own, each answer it merges, each event it applies and each rollback
\* comes to what the server did.  Not when changes overlapped, a read failed
\* or nobody was told; the next graph that nothing overtakes ends that.
ScreenInStep ==
    LET true == Graph(mapId)
    IN Quiet /\ mapId # Nil /\ "graph" \notin off =>
          /\ screen.of = mapId
          /\ SameNodes(screen, true)
          /\ screen.edges = true.edges
          /\ SameGroups(screen, true)
          /\ "places" \notin off =>
                \A n \in DOMAIN screen.nodes : screen.nodes[n].pos = true.nodes[n].pos

\* The picker offers the maps there are.
PickerInStep == Quiet /\ "list" \notin off => list = maps

\* A write that fails puts nothing on the screen: what it rolls back has not
\* come back to life under it (the comment at useGraph.ts:309).
RefusalAddsNothing ==
    [][\A r \in Asked : r.state = "failed" /\ GiveUp(r) => DOMAIN screen'.nodes \subseteq DOMAIN screen.nodes]_vars

\* Opening a map ends, whatever fails: the canvas does not stay on "loading".
LoadingEnds == loading ~> ~loading

\* "Removes a node from one map, leaving it intact everywhere else" (api.ts:223):
\* word of a removal from another map takes nothing off the map that is shown.
RemovalIsOfOneMap ==
    [][\A e \in {inbox[i] : i \in DOMAIN inbox} :
          /\ e = Head(inbox) /\ e.kind = "node.removedFromMap" /\ e.map # screen.of
          /\ inbox' = Tail(inbox)
          => screen' = screen]_vars
=============================================================================
