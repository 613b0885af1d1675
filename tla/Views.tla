------------------------------- MODULE Views -------------------------------
(***************************************************************************)
(* What one tab makes of the map it holds: the filter (store/useUI.ts),    *)
(* the two layouts (desktop/Canvas.tsx, desktop/GroupBox.tsx) and the      *)
(* threads of the phone, all read off the same graph, while the user types *)
(* a filter, drags cards, tidies up, adds cards and draws or cuts edges.   *)
(* The requests behind those gestures are Client's; here a card or an edge *)
(* is there as soon as it is answered for.                                 *)
(***************************************************************************)
EXTENDS Layout, Search, Grammar

CONSTANTS
    Ids,          \* the cards there can be
    Statuses,     \* ALL_STATUSES
    TagOf,        \* the tag of each card (one is enough to tell them apart)
    TextOf,       \* what a term is looked for in: title, body and tags
    Alphabet,     \* the characters that are typed
    Spots,        \* where a card can be dragged
    Shifts,       \* how far a group can be dragged
    Budget        \* how many gestures a behaviour may have

NoTag == "none"

VARIABLES
    graph,        \* nodes and edges of useGraph
    place,        \* the saved placement of each card
    mode,         \* useUI.layoutMode
    filter,       \* filterPreset, statusFilter, tagFilter, filterQuery
    dragging,     \* the cards under the pointer
    spent         \* gestures so far; no part of the program

vars == <<graph, place, mode, filter, dragging, spent>>

----------------------------------------------------------------------------
(* What is shown *)

NoFilter == [preset |-> "all", statuses |-> Statuses, tag |-> NoTag, query |-> <<>>]

IsFilterActive(f) ==
    \/ f.preset # "all"
    \/ f.statuses # Statuses
    \/ f.tag # NoTag
    \/ Trim(f.query) # <<>>

ComputeVisible(g, f) ==
    LET asked == ParseQuery(f.query)
    IN {n \in IF f.preset = "openQuestions" THEN OpenQuestionScope(g) ELSE Nodes(g) :
          /\ g.status[n] \in f.statuses
          /\ f.tag # NoTag => TagOf[n] = f.tag
          /\ asked.type # AnyType => g.type[n] = asked.type
          /\ MatchesTerms(TextOf[n], asked.terms)}

\* The cards that are not dimmed.
Visible(g, f) == IF IsFilterActive(f) THEN ComputeVisible(g, f) ELSE Nodes(g)

\* Where a card is drawn; an unplaced one lands on the origin.
PositionOf(n) == IF mode = "auto" THEN AutoLayout(graph)[n] ELSE Saved(place, n)

----------------------------------------------------------------------------
(* The filter bar *)

Spend == spent < Budget /\ spent' = spent + 1

Filtering(f) ==
    /\ Spend
    /\ filter' = f
    /\ UNCHANGED <<graph, place, mode, dragging>>

SetFilterPreset ==
    \E p \in {"all", "openQuestions"} :
        Filtering(IF p = "all" THEN NoFilter ELSE [filter EXCEPT !.preset = p])

ToggleStatus ==
    \E s \in Statuses :
        Filtering([filter EXCEPT !.statuses = IF s \in @ THEN @ \ {s} ELSE @ \cup {s}])

SetTagFilter ==
    \E t \in Range(TagOf) \cup {NoTag} : Filtering([filter EXCEPT !.tag = t])

TypeIntoFilter ==
    \E ch \in Alphabet : Filtering([filter EXCEPT !.query = Append(@, ch)])

ResetFilters == IsFilterActive(filter) /\ Filtering(NoFilter)

----------------------------------------------------------------------------
(* Arranging *)

ToggleLayout ==
    /\ Spend
    /\ mode' = IF mode = "auto" THEN "freeform" ELSE "auto"
    /\ UNCHANGED <<graph, place, filter, dragging>>

\* Mutant of LaidOut: only the cards nobody placed yet are given a place.
LaidOutUnplaced ==
    [n \in DOMAIN place |-> IF place[n] = Unplaced THEN AutoLayout(graph)[n] ELSE place[n]]

\* What runAutoLayout writes: every card of the map, where it is computed.
LaidOut == AutoLayout(graph)

Tidy ==
    /\ Spend
    /\ place' = LaidOut
    /\ UNCHANGED <<graph, mode, filter, dragging>>

\* Taking hold of cards under auto layout saves the whole of it first.
TakeHold(cards) ==
    /\ dragging = {}
    /\ cards # {}
    /\ Spend
    /\ dragging' = cards
    /\ place' = IF mode = "auto" THEN LaidOut ELSE place
    /\ mode' = "freeform"
    /\ UNCHANGED <<graph, filter>>

DragNode == \E n \in Nodes(graph) : TakeHold({n})

DragGroup == \E cards \in SUBSET Nodes(graph) : Cardinality(cards) = 2 /\ TakeHold(cards)

\* One card lands where it is dropped; a group's members keep their distances.
LetGo ==
    /\ dragging # {}
    /\ \/ /\ Cardinality(dragging) = 1
          /\ \E p \in Spots : place' = [n \in DOMAIN place |->
                                           IF n \in dragging THEN p ELSE place[n]]
       \/ /\ Cardinality(dragging) > 1
          /\ \E d \in Shifts : place' = [n \in DOMAIN place |->
                IF n \in dragging /\ place[n] # Unplaced
                THEN Pos(place[n].x + d.x, place[n].y + d.y) ELSE place[n]]
    /\ dragging' = {}
    /\ UNCHANGED <<graph, mode, filter, spent>>

----------------------------------------------------------------------------
(* The map itself changes *)

\* f with x at one more place.
With(f, n, x) == [c \in DOMAIN f \cup {n} |-> IF c = n THEN x ELSE f[c]]

\* createChild: a new card under another, on the first clear spot.
CreateChild ==
    \E n \in Ids \ Nodes(graph), parent \in Nodes(graph), type \in NodeTypes \ {"map"} :
        LET rel == DefaultRelationship(type, graph.type[parent])
        IN /\ rel # NoRelationship
           /\ Spend
           /\ graph' = [graph EXCEPT
                 !.ids = Append(@, n),
                 !.edges = Append(@, [source |-> n, target |-> parent, rel |-> rel]),
                 !.type = With(@, n, type), !.status = With(@, n, "open"),
                 !.created = With(@, n, Cardinality(Ids) + spent),
                 !.updated = With(@, n, Cardinality(Ids) + spent)]
           /\ place' = With(place, n, FreeSpot(ChildGuess(graph, place, parent), Taken(place)))
           /\ UNCHANGED <<mode, filter, dragging>>

Unlink ==
    \E i \in DOMAIN graph.edges :
        /\ Spend
        /\ graph' = [graph EXCEPT !.edges = RemoveAt(@, i)]
        /\ UNCHANGED <<place, mode, filter, dragging>>

SetStatus ==
    \E n \in Nodes(graph), s \in Statuses :
        /\ s # graph.status[n]
        /\ Spend
        /\ graph' = [graph EXCEPT !.status[n] = s,
                                  !.updated[n] = Cardinality(Ids) + spent]
        /\ UNCHANGED <<place, mode, filter, dragging>>

----------------------------------------------------------------------------
(* The specification *)

\* A map whose edges all join two of its cards, as the grammar allows.
IsMap(g) ==
    /\ g = [ids |-> g.ids, edges |-> g.edges, type |-> g.type, status |-> g.status,
            created |-> g.created, updated |-> g.updated]
    /\ g.ids \in Seq(Ids) /\ g.type \in [Nodes(g) -> NodeTypes]
    /\ g.edges \in Seq([source : Nodes(g), target : Nodes(g), rel : Relationships])
    /\ \A e \in Range(g.edges) :
          e.source # e.target /\ ValidateEdge(g.type[e.source], g.type[e.target], e.rel)

\* A tab starts from whatever map it opens.
Init ==
    /\ IsMap(graph)
    /\ DOMAIN place = Nodes(graph)
    /\ spent = 0
    /\ mode \in {"auto", "freeform"}
    /\ filter = NoFilter
    /\ dragging = {}

Next ==
    \/ SetFilterPreset \/ ToggleStatus \/ SetTagFilter \/ TypeIntoFilter \/ ResetFilters
    \/ ToggleLayout \/ Tidy \/ DragNode \/ DragGroup \/ LetGo
    \/ CreateChild \/ Unlink \/ SetStatus

Spec == Init /\ [][Next]_vars

----------------------------------------------------------------------------
(* Properties *)

\* The outline is a forest (graph.ts: "walking a cycle would hang the page"),
\* although associative edges may run in circles; and a card is only orphaned
\* when the edges it would have hung off lead round in a circle.
OutlineIsForest ==
    LET links  == ParentLinks(graph)
        chosen == ChosenLinks(graph)
    IN /\ \A n \in DOMAIN links : ~ComesRound(links, n)
       /\ \A n \in DOMAIN chosen : n \in DOMAIN links \/ ComesRound(chosen, n)
       /\ \A n \in DOMAIN links : links[n] = chosen[n]

\* The phone's threads, one row beneath the other.
ThreadRows(g) == FoldLeft(LAMBDA rows, thread : rows \o thread.rows, <<>>, BuildThreads(g))

\* The phone lists every card exactly once: under the card it hangs off,
\* one step deeper, after that card and within its branch; and a branch
\* stands above its neighbours when something in it changed more recently
\* (threads.ts: "a lively debate under an old question would sink").
ThreadsHoldEveryCard ==
    \A links \in {ParentLinks(graph)}, rows \in {ThreadRows(graph)} :
        LET branch == [n \in Nodes(graph) |-> Subtree(graph, links, n)]
            news(n) == Max({graph.updated[m] : m \in branch[n]})
            sib(a, b) == \/ {a, b} \cap DOMAIN links = {}
                         \/ /\ {a, b} \subseteq DOMAIN links
                            /\ links[a].parent = links[b].parent
        IN /\ {rows[i].node : i \in DOMAIN rows} = Nodes(graph)
           /\ Len(rows) = Len(graph.ids)
           /\ \A i \in DOMAIN rows :
                 \E n \in {rows[i].node} : \E under \in {branch[n]} :
                    /\ \A j \in i..(i + Cardinality(under) - 1) : rows[j].node \in under
                    /\ rows[i].depth = Cardinality(Above(links, n))
                    /\ \A j \in DOMAIN rows :
                          i < j /\ sib(n, rows[j].node) => news(n) >= news(rows[j].node)

\* "Open questions" keeps a card when the topmost question it hangs off, or
\* is, has no resolved answer right under it (filter.ts:72), and nothing else.
ScopeIsTheLiveBranches ==
    LET links == ParentLinks(graph)
        path(n) == Above(links, n) \cup {n}
        tops(n) == {q \in path(n) : /\ graph.type[q] = "question"
                                    /\ \A r \in path(n) : graph.type[r] = "question"
                                                             => q = r \/ q \in Above(links, r)}
        settled(q) == \E i \in DOMAIN graph.ids :
                         LET c == graph.ids[i]
                         IN /\ c \in DOMAIN links /\ links[c].parent = q
                            /\ graph.type[c] = "idea" /\ graph.status[c] = "resolved"
    IN OpenQuestionScope(graph) = {n \in Nodes(graph) : \E q \in tops(n) : ~settled(q)}

\* The tidy tree puts no card on another, every card one row beneath the one
\* it hangs off, and whole branches side by side.
CardsStandApart ==
    LET links == ParentLinks(graph)
        at    == AutoLayout(graph)
        branch(n) == Subtree(graph, links, n)
    IN /\ \A n \in DOMAIN links : at[n].y = at[links[n].parent].y + NodeH + VGap
       /\ \A a, b \in Nodes(graph) :
             b \notin branch(a) /\ a \notin branch(b) =>
                \/ \A m \in branch(a), n \in branch(b) : at[m].x + NodeW + HGap <= at[n].x
                \/ \A m \in branch(a), n \in branch(b) : at[n].x + NodeW + HGap <= at[m].x

\* The panel offers a card every type the server would grant it, as far as the
\* edges of this map tell, and no other (grammar.ts:10: "an impossible type
\* change is visibly unavailable"): an Idea with a Pro beneath it cannot become
\* a Question.  There is one exception: a note can be offered a type that the
\* server turns down because one of its associative edges would become
\* hierarchical and close a circle, which canRetype does not look for.
MenuAgreesWithTheServer ==
    \A n \in Nodes(graph), next \in NodeTypes \ {"map"} :
        LET edges   == Range(graph.edges)
            offered == CanRetype(graph.type, edges, n, next)
            granted == Relabels(graph.type, edges, n, next)
        IN /\ granted => offered
           /\ offered /\ ~granted =>
                 graph.type[n] = "note" /\ ClosesLoop(graph.type, edges, n, next)

\* Every criterion narrows and nothing widens (filter.ts:116): adding a
\* status to hide, a tag, a preset or one more character to the query never
\* brings a card back, however the quotes, the marker and the cap fall.
Narrower(f, g) ==
    /\ f.preset = g.preset \/ f.preset = "openQuestions"
    /\ f.statuses \subseteq g.statuses
    /\ f.tag = g.tag \/ g.tag = NoTag
    /\ IsPrefix(g.query, f.query)

CriteriaOnlyNarrow ==
    [][Narrower(filter', filter) /\ graph' = graph
          => Visible(graph, filter') \subseteq Visible(graph, filter)]_vars

\* Taking hold of a card under auto layout turns auto layout off without any
\* card moving on the screen (Canvas.tsx:453).
HandoffMovesNothing ==
    [][dragging = {} /\ dragging' # {} =>
          \A n \in Nodes(graph) : PositionOf(n) = PositionOf(n)']_vars
=============================================================================
