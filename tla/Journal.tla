------------------------------ MODULE Journal -------------------------------
(***************************************************************************)
(* The undo journal: internal/store/undo.go, and what each operation of    *)
(* internal/store/queries.go records in the transaction that makes its     *)
(* change.  Undo writes an entry's inverse into the tables, redo its       *)
(* forward; both are pieces of the tables as they were when recorded, and  *)
(* are applied to tables that may have moved on since.                     *)
(*                                                                         *)
(* What is abstracted: labels and times are left out.                      *)
(***************************************************************************)
EXTENDS Processes, FiniteSetsExt

CONSTANTS
    Actor,         \* who the journal tells apart: users, the CLI
    MaxEntries     \* bounds the entries an instance ever writes

ASSUME MaxEntriesAssumption == MaxEntries \in Nat

VARIABLES
    log,           \* entry id -> the entry: the rows of undo_log
    issued         \* the last id handed out: its AUTOINCREMENT

vars == <<maps, nodes, places, edges, groups, read, log, issued>>

\* A piece of the tables.  A group in gone is one that did not exist (the
\* code leaves its CreatedAt empty).
Blank == [maps |-> {}, nodes |-> Empty, places |-> Empty, edges |-> {},
          groups |-> Empty, gone |-> {}]

Tables == [maps |-> maps, nodes |-> nodes, places |-> places,
           edges |-> edges, groups |-> groups]

NodesOf(ns)  == Restrict(nodes, ns)
PlacesOf(pl, ps) == Restrict(pl, ps \cap DOMAIN pl)
GroupsIn(gs) == Restrict(groups, gs \cap DOMAIN groups)
EdgesFrom(n) == {e \in edges : e.source = n}   \* mutant of EdgesAt
EdgesAt(n)   == {e \in edges : Touches(e, n)}

-----------------------------------------------------------------------------
(* Applying a payload.  Each operator returns the tables after the write.  *)

Over(f, g) == [x \in DOMAIN f \cup DOMAIN g |->
                  IF x \in DOMAIN f THEN f[x] ELSE g[x]]

\* Rows are inserted, or overwritten when they are still there.
RestoreNodes(db, s)  == [db EXCEPT !.nodes = Over(s.nodes, @)]
RestoreMaps(db, s)   == [db EXCEPT !.maps = @ \cup s.maps]
\* ON CONFLICT updates title and colour, not the map.
RestoreGroups(db, s) ==
    [db EXCEPT !.groups =
        Over([g \in DOMAIN s.groups |->
                IF g \in DOMAIN @ THEN [@[g] EXCEPT !.title = s.groups[g].title]
                ELSE s.groups[g]], @)]

\* UPDATE: nodes that are gone stay gone.
RewriteNodes(db, s) ==
    [db EXCEPT !.nodes =
        [n \in DOMAIN @ |-> IF n \in DOMAIN s.nodes THEN s.nodes[n] ELSE @[n]]]

\* restorePlacementsTx: a placement that is there gets its position back but
\* keeps its group.
RestorePlacements(db, s) ==
    [db EXCEPT !.places =
        Over([p \in DOMAIN s.places |->
                IF p \in DOMAIN @ THEN [@[p] EXCEPT !.pos = s.places[p].pos]
                ELSE s.places[p]], @)]

\* restorePlacementStateTx: position and group, where there is a placement.
RestorePlacementState(db, s) ==
    [db EXCEPT !.places =
        [p \in DOMAIN @ |-> IF p \in DOMAIN s.places THEN s.places[p] ELSE @[p]]]

RemovePlacements(db, s) ==
    [db EXCEPT
        !.edges  = {e \in @ : \A p \in DOMAIN s.places :
                                 ~(e.map = p[1] /\ Touches(e, p[2]))},
        !.places = Restrict(@, DOMAIN @ \ DOMAIN s.places)]

\* Mutants of RestoreEdges: the ends are not looked up; only the same id gives
\* way.
RestoreAllEdges(db, s) ==
    [db EXCEPT !.edges =
        {e \in @ : \A f \in s.edges : e.id # f.id /\ Key(e) # Key(f)} \cup s.edges]
RestoreEdgesById(db, s) ==
    LET back == {e \in s.edges : /\ Placed(db.places, e.map, e.source)
                                 /\ Placed(db.places, e.map, e.target)}
    IN [db EXCEPT !.edges = {e \in @ : \A f \in back : e.id # f.id} \cup back]

\* restoreEdgesTx: an edge is put back when both its ends are on the map, and
\* whatever has taken its id or says the same gives way.
RestoreEdges(db, s) ==
    LET back == {e \in s.edges : /\ Placed(db.places, e.map, e.source)
                                 /\ Placed(db.places, e.map, e.target)}
    IN [db EXCEPT !.edges =
           {e \in @ : \A f \in back : e.id # f.id /\ Key(e) # Key(f)} \cup back]

DeleteEdges(db, s) ==
    [db EXCEPT !.edges = {e \in @ : e.id \notin EdgeIds(s.edges)}]

\* DELETE FROM nodes, groups and maps, with what the foreign keys take along.
DropNodes(db, s) ==
    [db EXCEPT
        !.nodes  = Restrict(@, DOMAIN @ \ DOMAIN s.nodes),
        !.places = Restrict(@, {p \in DOMAIN @ : p[2] \notin DOMAIN s.nodes}),
        !.edges  = {e \in @ : \A n \in DOMAIN s.nodes : ~Touches(e, n)}]

DropGroups(db, gs) ==
    [db EXCEPT !.groups = Restrict(@, DOMAIN @ \ gs),
               !.places = Ungrouped(@, gs)]

DropMaps(db, s) ==
    LET onMaps == {g \in DOMAIN db.groups : db.groups[g].map \in s.maps}
    IN [db EXCEPT
           !.maps   = @ \ s.maps,
           !.places = Ungrouped(Restrict(@, {p \in DOMAIN @ : p[1] \notin s.maps}),
                                onMaps),
           !.edges  = {e \in @ : e.map \notin s.maps},
           !.groups = Restrict(@, DOMAIN @ \ onMaps)]

RestoreNode(db, s) ==
    RestoreEdges(RestorePlacements(RestoreNodes(db, s), s), s)

RestoreMap(db, s) ==
    RestoreEdges(
        RestorePlacements(RestoreGroups(RestoreMaps(db, s), s), s), s)

RestoreGroup(db, s) == RestorePlacementState(RestoreGroups(db, s), s)

\* applyInverseTx: the tables after undoing (or redoing) an action whose
\* inverse (or forward) is s.
Applied(db, action, s, redo) ==
    CASE action = "node.create" ->
            IF redo THEN RestoreNode(db, s) ELSE DropNodes(db, s)
      [] action = "node.delete" ->
            IF redo THEN DropNodes(db, s) ELSE RestoreNode(db, s)
      [] action = "node.removeFromMap" ->
            IF redo THEN RemovePlacements(db, s) ELSE RestoreNode(db, s)
      [] action = "node.transclude" ->
            IF redo THEN RestoreEdges(RestorePlacements(db, s), s)
            ELSE RemovePlacements(db, s)
      [] action = "node.update"      -> RestoreEdges(RewriteNodes(db, s), s)
      [] action = "nodes.bulkUpdate" -> RewriteNodes(db, s)
      [] action \in {"node.move", "group.move"} -> RestorePlacementState(db, s)
      [] action = "edge.create" ->
            IF redo THEN RestoreEdges(db, s) ELSE DeleteEdges(db, s)
      [] action = "edge.delete" ->
            IF redo THEN DeleteEdges(db, s) ELSE RestoreEdges(db, s)
      [] action = "group.save" ->
            IF s.gone = {} THEN RestoreGroup(db, s)
            ELSE DropGroups(RestorePlacementState(db, s), s.gone)
      [] action = "group.delete" ->
            IF redo THEN DropGroups(db, DOMAIN s.groups) ELSE RestoreGroup(db, s)
      [] action = "map.delete" ->
            IF redo THEN DropMaps(db, s) ELSE RestoreMap(db, s)

\* "journal entry has no group state": the only payload the operations record
\* that applyInverseTx turns down.
HasPayload(action, s) ==
    action = "group.save" => s.gone # {} \/ DOMAIN s.groups # {}

-----------------------------------------------------------------------------
(* Recording. *)

Live(a)   == {i \in DOMAIN log : log[i].actor = a /\ ~log[i].undone}
Undone(a) == {i \in DOMAIN log : log[i].actor = a /\ log[i].undone}

\* clearRedoTx.
ClearedRedo(a) == Restrict(log, DOMAIN log \ Undone(a))

Entry(a, m, action, inverse, forward) ==
    [actor |-> a, map |-> m, action |-> action,
     inverse |-> inverse, forward |-> forward, undone |-> FALSE]

Issue == issued < MaxEntries /\ issued' = issued + 1

\* clearRedoTx then recordTx; the map is one that exists, or NULL.
Record(a, m, action, inverse, forward) ==
    /\ m \in maps \cup {Nil}
    /\ log' = Put(ClearedRedo(a), issued + 1, Entry(a, m, action, inverse, forward))
    /\ Issue

\* The entry an edit, a drag or a group drag may fold into: the actor's
\* latest, if it is of one of those actions (and is about the same thing).
Latest(a) == log[Max(Live(a))]
FoldsInto(a, actions) == Live(a) # {} /\ Latest(a).action \in actions

\* The folded entry keeps its inverse, and the redo tail stays.
Merge(a, forward) ==
    /\ log' = [log EXCEPT ![Max(Live(a))].forward = forward]
    /\ UNCHANGED issued

\* An identifier NewID has handed out is never handed out again: not while a
\* row has it, which Store's operations see to, nor a journal entry.
Pieces == {log[i].inverse : i \in DOMAIN log} \cup {log[i].forward : i \in DOMAIN log}
FreshMap(m)   == \A s \in Pieces : m \notin s.maps
FreshNode(n)  == n \notin DOMAIN nodes /\ \A s \in Pieces : n \notin DOMAIN s.nodes
FreshEdge(e)  == \A s \in Pieces : e \notin EdgeIds(s.edges)
FreshGroup(g) == \A s \in Pieces : g \notin DOMAIN s.groups \cup s.gone

-----------------------------------------------------------------------------
(* The operations of Store, each with the entry it writes. *)

\* Not journaled: to undo it would be to delete the map.
MapCreated(m) == FreshMap(m) /\ CreateMap(m) /\ UNCHANGED <<log, issued>>

\* What is left of the log when a map goes.
EntriesOff(m) == Restrict(log, {i \in DOMAIN log : log[i].map # m})

\* Mutant of MapDeleted: the entry is filed under the map.
MapDeletedUnderMap(a, m) ==
    /\ DeleteMap(m)
    /\ LET was == [Blank EXCEPT
                      !.maps   = {m},
                      !.groups = GroupsIn(GroupsOf(m)),
                      !.places = PlacesOf(places, {m} \X Node),
                      !.edges  = {e \in edges : e.map = m}]
       IN log' = Put(EntriesOff(m), issued + 1, Entry(a, m, "map.delete", was, was))
    /\ Issue

\* The entry belongs to no map, or the delete would take it along as it takes
\* the entries of the map.  The redo tail is not cleared.
MapDeleted(a, m) ==
    /\ DeleteMap(m)
    /\ LET was == [Blank EXCEPT
                      !.maps   = {m},
                      !.groups = GroupsIn(GroupsOf(m)),
                      !.places = PlacesOf(places, {m} \X Node),
                      !.edges  = {e \in edges : e.map = m}]
       IN log' = Put(EntriesOff(m), issued + 1, Entry(a, Nil, "map.delete", was, was))
    /\ Issue

NodeCreated(a, in, n, e) ==
    /\ FreshNode(n) /\ FreshEdge(e)
    /\ CreateNode(in, n, e)
    /\ LET made == [Blank EXCEPT !.nodes  = NodesOf({n})',
                                 !.places = PlacesOf(places', {<<in.map, n>>}),
                                 !.edges  = edges' \ edges]
       IN Record(a, in.map, "node.create", made, made)

\* The inverse is the row as it was read before the transaction began, the
\* forward the row as it was asked to be written, also where the node is gone.
\* An edit that relabelled no edge folds into the actor's previous edit, or
\* creation, of the same node.
NodeUpdated(a, n, row, ty, ti, tg) ==
    /\ ApplyEdit(n, row, ty, ti, tg)
    /\ LET written == [k \in {n} |-> [type |-> ty, title |-> ti, tags |-> tg]]
           before == [Blank EXCEPT !.nodes = [k \in {n} |-> row],
                                   !.edges = edges \ edges']
           after  == [Blank EXCEPT !.nodes = written, !.edges = edges' \ edges]
           merges == /\ UNCHANGED edges
                     /\ FoldsInto(a, {"node.update", "node.create"})
                     /\ n \in DOMAIN Latest(a).inverse.nodes
       IN \/ /\ merges
             /\ Merge(a, [Latest(a).forward EXCEPT !.nodes = written])
          \/ /\ ~merges
             /\ Record(a, Nil, "node.update", before, after)

NodesBulkUpdated(a, ns, add, remove) ==
    /\ BulkUpdateNodes(ns, add, remove)
    /\ Record(a, Nil, "nodes.bulkUpdate",
              [Blank EXCEPT !.nodes = NodesOf(ns)],
              [Blank EXCEPT !.nodes = NodesOf(ns)'])

NodeDeleted(a, n) ==
    /\ DeleteNode(n)
    /\ LET was == [Blank EXCEPT !.nodes  = NodesOf({n}),
                                !.places = PlacesOf(places, Map \X {n}),
                                !.edges  = EdgesAt(n)]
       IN Record(a, Nil, "node.delete", was, was)

\* A node's first position is the layout's doing and is not journaled; a run
\* of moves of one node is one entry.
NodeMoved(a, m, n, pos, g) ==
    /\ SetPlacement(m, n, pos, g)
    /\ LET at     == {<<m, n>>}
           before == [Blank EXCEPT !.places = PlacesOf(places, at)]
           after  == [Blank EXCEPT !.places = PlacesOf(places', at)]
           first  == places[<<m, n>>].pos = Nil
           merges == /\ FoldsInto(a, {"node.move"})
                     /\ DOMAIN Latest(a).inverse.places = at
       IN \/ first /\ UNCHANGED <<log, issued>>
          \/ ~first /\ merges /\ Merge(a, after)
          \/ ~first /\ ~merges /\ Record(a, m, "node.move", before, after)

\* A node that was on the map already was only linked.
NodeTranscluded(a, in, e) ==
    /\ FreshEdge(e)
    /\ Transclude(in, e)
    /\ LET at   == {<<in.map, in.node>>}
           made == edges' \ edges
           whole == [Blank EXCEPT !.places = PlacesOf(places', at), !.edges = made]
           link  == [Blank EXCEPT !.edges = made]
           was  == Placed(places, in.map, in.node)
       IN \/ ~was /\ Record(a, in.map, "node.transclude", whole, whole)
          \/ was /\ made # {} /\ Record(a, in.map, "edge.create", link, link)
          \/ was /\ made = {} /\ UNCHANGED <<log, issued>>

NodeRemoved(a, m, n) ==
    /\ RemoveFromMap(m, n)
    /\ LET was == [Blank EXCEPT !.nodes  = NodesOf({n}),
                                !.places = PlacesOf(places, {<<m, n>>}),
                                !.edges  = {e \in EdgesAt(n) : e.map = m}]
       IN Record(a, m, "node.removeFromMap", was, was)

EdgeCreated(a, m, s, t, r, e) ==
    /\ FreshEdge(e)
    /\ CreateEdge(m, s, t, r, e)
    /\ LET made == [Blank EXCEPT !.edges = edges' \ edges]
       IN Record(a, m, "edge.create", made, made)

EdgeDeleted(a, e) ==
    /\ DeleteEdge(e)
    /\ LET was == [Blank EXCEPT !.edges = edges \ edges']
       IN \E f \in was.edges : Record(a, f.map, "edge.delete", was, was)

GroupCreated(a, m, g, ti, ns) ==
    /\ FreshGroup(g)
    /\ CreateGroup(m, g, ti, ns)
    /\ Record(a, m, "group.save",
              [Blank EXCEPT !.gone = {g}, !.places = PlacesOf(places, {m} \X ns)],
              [Blank EXCEPT !.groups = GroupsIn({g})',
                            !.places = PlacesOf(places', {m} \X ns)])

GroupUpdated(a, g, ti) ==
    /\ UpdateGroup(g, ti)
    /\ Record(a, groups[g].map, "group.save",
              [Blank EXCEPT !.groups = GroupsIn({g})],
              [Blank EXCEPT !.groups = GroupsIn({g})'])

GroupMoved(a, m, g, d) ==
    /\ MoveGroup(m, g, d)
    /\ LET at     == {m} \X MemberNodes(places, g)
           before == [Blank EXCEPT !.places = PlacesOf(places, at), !.groups = GroupsIn({g})]
           after  == [before EXCEPT !.places = PlacesOf(places', at)]
           merges == /\ FoldsInto(a, {"group.move"})
                     /\ DOMAIN Latest(a).inverse.groups = {g}
       IN \/ /\ merges
             /\ Merge(a, [Latest(a).forward EXCEPT !.places = after.places])
          \/ /\ ~merges
             /\ Record(a, m, "group.move", before, after)

GroupMembersSet(a, m, g, ns) ==
    /\ SetGroupMembers(m, g, ns)
    /\ LET at == {m} \X (MemberNodes(places, g) \cup ns)
       IN Record(a, m, "group.save",
                 [Blank EXCEPT !.groups = GroupsIn({g}), !.places = PlacesOf(places, at)],
                 [Blank EXCEPT !.groups = GroupsIn({g})', !.places = PlacesOf(places', at)])

GroupDeleted(a, g) ==
    /\ DeleteGroup(g)
    /\ LET m   == groups[g].map
           was == [Blank EXCEPT !.groups = GroupsIn({g}),
                                !.places = PlacesOf(places, {m} \X MemberNodes(places, g))]
       IN Record(a, m, "group.delete", was, was)

-----------------------------------------------------------------------------
(* Undo and redo. *)

\* The entries a step with a map in view considers; with none, all of them.
InScope(i, m) == m = Nil \/ log[i].map \in {m, Nil}

\* The tables become what applying entry i makes them, unless a foreign key
\* objects; deleting a map again takes its entries along.
Reapply(i, redo) ==
    LET x  == log[i]
        db == Applied(Tables, x.action, IF redo THEN x.forward ELSE x.inverse, redo)
    IN /\ HasPayload(x.action, IF redo THEN x.forward ELSE x.inverse)
       /\ maps' = db.maps
       /\ nodes' = db.nodes
       /\ places' = db.places
       /\ edges' = db.edges
       /\ groups' = db.groups
       /\ ForeignKeys'
       /\ log' = Restrict([log EXCEPT ![i].undone = ~redo],
                          {j \in DOMAIN log : log[j].map \in db.maps \cup {Nil}})
       /\ UNCHANGED issued

\* Mutants of Undoable and Redo: everybody's actions, the latest first.
UndoableByAnyone(a, m) == {i \in DOMAIN log : ~log[i].undone /\ InScope(i, m)}
RedoLatest(a, m) ==
    LET redoable == {i \in Undone(a) : InScope(i, m)}
    IN redoable # {} /\ Reapply(Max(redoable), TRUE)

\* The actor's latest action in force, and the oldest undone: redo replays in
\* the order of the log.
Undoable(a, m) == {i \in Live(a) : InScope(i, m)}
Redoable(a, m) == {i \in Undone(a) : InScope(i, m)}

Undo(a, m) == Undoable(a, m) # {} /\ Reapply(Max(Undoable(a, m)), FALSE)
Redo(a, m) == Redoable(a, m) # {} /\ Reapply(Min(Redoable(a, m)), TRUE)

-----------------------------------------------------------------------------
Init == InitShared /\ log = Empty /\ issued = 0

MapChange(a) == \E m \in Map : MapCreated(m) \/ MapDeleted(a, m)

ContentChange(a) ==
    \/ \E in \in NewNodeInput, n \in Node, e \in Edge : NodeCreated(a, in, n, e)
    \/ \E n \in Node, ty \in Type, ti \in Title, tg \in SUBSET Tag :
          n \in DOMAIN nodes /\ NodeUpdated(a, n, nodes[n], ty, ti, tg)
    \/ \E ns \in SUBSET Node, add, remove \in SUBSET Tag :
          NodesBulkUpdated(a, ns, add, remove)
    \/ \E n \in Node : NodeDeleted(a, n)
    \/ \E m \in Map, n \in Node, pos \in Position \cup {Keep},
          g \in Group \cup {Nil, Keep} : NodeMoved(a, m, n, pos, g)
    \/ \E in \in TranscludeInput, e \in Edge : NodeTranscluded(a, in, e)
    \/ \E m \in Map, n \in Node : NodeRemoved(a, m, n)
    \/ \E m \in Map, s, t \in Node, r \in AskedRelationship, e \in Edge :
          EdgeCreated(a, m, s, t, r, e)
    \/ \E e \in Edge : EdgeDeleted(a, e)
    \/ \E m \in Map, g \in Group, ti \in Title, ns \in SUBSET Node :
          GroupCreated(a, m, g, ti, ns)
    \/ \E g \in Group, ti \in Title : GroupUpdated(a, g, ti)
    \/ \E m \in Map, g \in Group, d \in Offset : GroupMoved(a, m, g, d)
    \/ \E m \in Map, g \in Group, ns \in SUBSET Node : GroupMembersSet(a, m, g, ns)
    \/ \E g \in Group : GroupDeleted(a, g)

Change(a) == MapChange(a) \/ ContentChange(a)

UndoOrRedo(a) == \E m \in Map \cup {Nil} : Undo(a, m) \/ Redo(a, m)

\* An edit whose read and write others come between.
EditRead ==
    /\ \E p \in Process, n \in Node : ReadNode(p, n)
    /\ UNCHANGED <<tables, log, issued>>
EditWritten(a) ==
    \E p \in Process, ty \in Type, ti \in Title, tg \in SUBSET Tag :
       Done(p) /\ NodeUpdated(a, read[p].node, read[p].row, ty, ti, tg)
EditRefused ==
    /\ \E p \in Process : Done(p)
    /\ UNCHANGED <<tables, log, issued>>

Next ==
    \/ \E a \in Actor : (Change(a) \/ UndoOrRedo(a)) /\ UNCHANGED read
    \/ \E a \in Actor : EditWritten(a)
    \/ EditRead \/ EditRefused

Spec == Init /\ [][Next]_vars

-----------------------------------------------------------------------------
(* What the journal promises. *)

ActionNames ==
    {"node.create", "node.update", "node.delete", "node.removeFromMap",
     "node.transclude", "node.move", "edge.create", "edge.delete",
     "group.save", "group.delete", "group.move", "nodes.bulkUpdate",
     "map.delete"}

\* A payload is a piece of well-typed tables.
IsPiece(s) ==
    /\ s.maps \subseteq Map
    /\ DOMAIN s.nodes \subseteq Node /\ s.nodes \in [DOMAIN s.nodes -> NodeRow]
    /\ DOMAIN s.places \subseteq Map \X Node
    /\ s.places \in [DOMAIN s.places -> PlaceRow]
    /\ s.edges \subseteq EdgeRow
    /\ DOMAIN s.groups \subseteq Group
    /\ s.groups \in [DOMAIN s.groups -> GroupRow]
    /\ s.gone \subseteq Group

\* The types of the log's columns, and that an entry of a map goes with it.
JournalTypeOK ==
    /\ SharedTypeOK
    /\ \A i \in DOMAIN log :
          /\ log[i].actor \in Actor
          /\ log[i].map \in maps \cup {Nil}
          /\ log[i].action \in ActionNames
          /\ log[i].undone \in BOOLEAN
          /\ IsPiece(log[i].inverse) /\ IsPiece(log[i].forward)
    /\ issued \in 0..MaxEntries /\ DOMAIN log \subseteq 1..issued

Undoing(db, x) == Applied(db, x.action, x.inverse, FALSE)
Redoing(db, x) == Applied(db, x.action, x.forward, TRUE)

\* A group holds placements of its own map only, and a step that names a map
\* and a group names that group's: what every caller in the repository keeps
\* to, though the API takes the map of a group's members from the request.
GroupsKeepToTheirMap ==
    \A p \in DOMAIN places :
       places[p].group # Nil => groups[places[p].group].map = p[1]
KeepsToItsMap(x) ==
    x.map # Nil =>
       \A g \in x.inverse.gone \cup DOMAIN x.inverse.groups :
          g \in DOMAIN groups => groups[g].map = x.map

\* An edit is written over a row that another process has changed since it
\* was read.
Overwrites ==
    \E p \in Process :
       /\ read[p] # Nil /\ read'[p] = Nil
       /\ read[p].node \in DOMAIN nodes
       /\ nodes[read[p].node] # read[p].row

\* Whatever an actor did, and whatever was in the tables, undoing it at once
\* gives the tables back as they were, as long as groups keep to their map.
\* An edit over a row that has changed since it was read is exempt: undoing
\* it gives the row back as it was read, without what the other process
\* wrote.
UndoInverts ==
    [][/\ issued' # issued
       /\ ~Overwrites
       /\ GroupsKeepToTheirMap
       /\ KeepsToItsMap(log'[issued'])
       => Undoing(Tables', log'[issued']) = Tables]_vars

\* The notes an actor added and has not taken back.
Added(a) == {log[i].forward : i \in {j \in Live(a) :
                log[j].action \in {"node.create", "edge.create", "node.transclude"}}}
AddedNodes(a) == UNION {DOMAIN s.nodes : s \in Added(a)}

\* Undo walks back the actor's own changes: a note that somebody else has
\* added meanwhile stays, whatever hung on what is taken back.
UndoSparesNotes ==
    [][\A a, b \in Actor, m \in Map \cup {Nil} :
          a # b /\ Undo(a, m)
          => AddedNodes(b) \cap DOMAIN nodes \subseteq DOMAIN nodes']_vars
=============================================================================
