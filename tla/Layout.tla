------------------------------- MODULE Layout -------------------------------
(***************************************************************************)
(* Where cards go: the tidy tree and the spot a new card is given          *)
(* (layout/autoLayout.ts, useGraph.ts).                                    *)
(* A position is a record of x and y in flow units; Unplaced stands for a  *)
(* placement without coordinates.                                          *)
(***************************************************************************)
EXTENDS Outline

NodeW   == 236
NodeH   == 88
HGap    == 28
VGap    == 116
RootGap == 96
Pos(x, y) == [x |-> x, y |-> y]
Unplaced  == [nowhere |-> TRUE]

----------------------------------------------------------------------------
(* autoLayout.  The guards against measuring in a circle and the row of    *)
(* stragglers are for a forest that is none: OutlineIsForest.              *)

Rank == [question |-> 0, idea |-> 1, map |-> 2, pro |-> 3, con |-> 4, note |-> 5]

\* The reading order: by type, then oldest first, then as held.
SortIds(g, ns) ==
    SortSeq(ns, LAMBDA a, b :
        LET ra == Rank[g.type[a]]
            rb == Rank[g.type[b]]
        IN \/ ra < rb
           \/ ra = rb /\ g.created[a] < g.created[b]
           \/ /\ ra = rb /\ g.created[a] = g.created[b]
              /\ At(g.ids, a) < At(g.ids, b))

\* Mutant of Widths: the gaps between children are not counted.
TightWidths(g, links) ==
    LET width[n \in Nodes(g)] ==
            LET kids == Children(g, links, n)
            IN Max({NodeW, FoldLeft(LAMBDA sum, k : sum + width[k], 0, kids)})
    IN width

\* How wide each subtree is.
Widths(g, links) ==
    LET width[n \in Nodes(g)] ==
            LET kids == Children(g, links, n)
            IN IF kids = <<>> THEN NodeW
               ELSE Max({NodeW, FoldLeft(LAMBDA sum, k : sum + width[k], 0, kids)
                                + HGap * (Len(kids) - 1)})
    IN width

\* Where the i-th of a row of subtrees starts.
Start(width, row, i, left, gap) ==
    FoldLeft(LAMBDA cursor, k : cursor + width[k] + gap, left, SubSeq(row, 1, i - 1))

AutoLayout(g) ==
    LET links == ParentLinks(g)
        width == Widths(g, links)
        roots == SortIds(g, Roots(g, links))
        left[n \in Nodes(g)] ==
            IF n \in DOMAIN links
            THEN LET up   == links[n].parent
                     kids == SortIds(g, Children(g, links, up))
                 IN Start(width, kids, At(kids, n), left[up], HGap)
            ELSE Start(width, roots, At(roots, n), 0, RootGap)
        depth(n) == Cardinality(Above(links, n))
    IN [n \in Nodes(g) |->
           Pos((2 * left[n] + width[n] - NodeW + 1) \div 2, depth(n) * (NodeH + VGap))]

----------------------------------------------------------------------------
(* freeSpot *)

Apart(a, b) == IF a < b THEN b - a ELSE a - b

Overlaps(a, b) ==
    Apart(a.x, b.x) < NodeW + HGap \div 2 /\ Apart(a.y, b.y) < NodeH + VGap \div 4

Candidate(spot, attempt) ==
    Pos(spot.x + (IF attempt % 2 = 1 THEN NodeW + HGap ELSE 0),
        spot.y + (attempt \div 2) * (NodeH + VGap \div 2))

FreeSpot(spot, taken) ==
    LET clear == {a \in 0..39 : ~\E t \in taken : Overlaps(Candidate(spot, a), t)}
    IN IF clear = {} THEN spot ELSE Candidate(spot, Min(clear))

Taken(place) == {place[n] : n \in {k \in DOMAIN place : place[k] # Unplaced}}

\* Where createChild guesses: under the parent, a little further for every
\* edge that already arrives there.
ChildGuess(g, place, parent) ==
    LET from == IF place[parent] = Unplaced THEN Pos(0, 0) ELSE place[parent]
        kids == Cardinality({i \in DOMAIN g.edges : g.edges[i].target = parent})
    IN Pos(from.x + 40 + kids * 24, from.y + 150 + kids * 12)

\* Where a card was left; one without coordinates counts as at the origin.
Saved(place, n) == IF place[n] = Unplaced THEN Pos(0, 0) ELSE place[n]
=============================================================================
