----------------------------- MODULE Selection -----------------------------
(***************************************************************************)
(* What a desktop tab has selected and open for typing (the selection half *)
(* of web/src/store/useGraph.ts), against the cards on its screen, which   *)
(* come and go: by its own requests, and by what others do.  What a card   *)
(* says and where it lies is Client's; here a card is a node.              *)
(***************************************************************************)
EXTENDS Integers, FiniteSets, Sequences, Bags, TLC

CONSTANTS Map, Node, Nil,
    GroupOn     \* the members of the group on each map

ASSUME NilAssumption == Nil \notin Map \cup Node

VARIABLES
    where,          \* on the server: <<m, n>> for each node n of map m
    mapId, shown,   \* the map to show, and the map of the cards on the screen
    loading,
    cards,          \* the nodes on the screen
    group,          \* the members of the group on the screen, as this tab knows them
    selectedId, multiSelected, editingId,
    asked           \* requests that are not answered: a bag

world     == <<where, mapId, shown, loading, cards, group>>
selection == <<selectedId, multiSelected, editingId>>

On(m) == {n \in Node : <<m, n>> \in where}

selectedIds == IF selectedId = Nil THEN multiSelected ELSE {selectedId} \cup multiSelected

\* DesktopApp shows the canvas unless a map is loading or there is none.
Mounted == ~loading /\ shown # Nil

-----------------------------------------------------------------------------
Chosen(a, rest, e) ==
    /\ selectedId' = a
    /\ multiSelected' = rest
    /\ editingId' = e

Select(a) == Chosen(a, {}, Nil)

\* The first becomes the anchor: which it is, is the caller's.
SetSelection(ids) ==
    \/ ids = {} /\ Select(Nil)
    \/ \E a \in ids : Chosen(a, ids \ {a}, Nil)

\* Mutant of ToggleSelected: the anchor goes, and nobody takes its place.
ToggledAlike(id) ==
    IF selectedId = id THEN Chosen(Nil, multiSelected, Nil)
    ELSE IF selectedId = Nil THEN Select(id)
    ELSE Chosen(selectedId, (multiSelected \ {id}) \cup ({id} \ multiSelected), Nil)
ToggleSelected(id) ==
    \/ selectedId = id /\ SetSelection(multiSelected)
    \/ selectedId = Nil /\ Select(id)
    \/ /\ selectedId \notin {id, Nil}
       /\ Chosen(selectedId, (multiSelected \ {id}) \cup ({id} \ multiSelected), Nil)

BeginEdit(id)  == Chosen(id, multiSelected, id)
CancelEdit     == Chosen(selectedId, multiSelected, Nil)
CommitTitle(id) == Chosen(id, multiSelected, Nil)

\* A node that was just made is selected and its title opened; one that was
\* inserted is selected.  Neither touches the others that are selected.
SelectNew(id)      == Chosen(id, multiSelected, id)
SelectInserted(id) == Chosen(id, multiSelected, editingId)

-----------------------------------------------------------------------------
(* The screen loses a card, or gets another graph.                         *)

DropNode(n) ==
    /\ cards' = cards \ {n}
    /\ Chosen(IF selectedId = n THEN Nil ELSE selectedId, multiSelected, editingId)

\* The answer of openMap: only the anchor is let go.
ShowMap(m) ==
    /\ cards' = On(m) /\ shown' = m
    /\ group' = GroupOn[m] \cap On(m)
    /\ Chosen(Nil, multiSelected, editingId)

\* reload: what is selected is pruned to the nodes that are still there.
Refetched(m) ==
    /\ cards' = On(m) /\ shown' = m
    /\ group' = GroupOn[m] \cap On(m)
    /\ Chosen(IF selectedId \in On(m) THEN selectedId ELSE Nil, multiSelected \cap On(m), editingId)

-----------------------------------------------------------------------------
(* Requests.  What one needs of the state it was sent in travels with it.  *)

Ask(r)     == asked' = asked (+) SetToBag({r})
Answered(r) == asked' = asked (-) SetToBag({r})
Unasked    == UNCHANGED asked

OpenCall(m, n)   == [do |-> "open", map |-> m, node |-> n]      \* n: the jump it serves
CreateCall(m, p) == [do |-> "create", map |-> m, node |-> p]    \* p: the parent
InsertCall(m, n) == [do |-> "insert", map |-> m, node |-> n]
RemoveCall(m, n) == [do |-> "remove", map |-> m, node |-> n]
PatchCall(n, typedFor) == [do |-> "patch", node |-> n, typedFor |-> typedFor]
UploadCall(n)    == [do |-> "upload", node |-> n]
BulkCall(ns)     == [do |-> "bulk", nodes |-> ns]
GroupCall(m, ns) == [do |-> "group", map |-> m, nodes |-> ns]
UndoCall         == [do |-> "undo"]

\* openMap, up to its await.
OpenMap(m, n) ==
    /\ mapId' = m /\ loading' = TRUE
    /\ Ask(OpenCall(m, n))
=============================================================================
