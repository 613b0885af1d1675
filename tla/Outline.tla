------------------------------ MODULE Outline ------------------------------
(***************************************************************************)
(* What hangs off what: the browser's reading of a map as a forest         *)
(* (graph.ts), the branches the "Open questions" filter keeps of it        *)
(* (filter.ts) and the threads the phone shows (mobile/threads.ts).        *)
(* A graph is a record: ids, the nodes in the order they are held; edges,  *)
(* in the order they are held; and for every node its type, its status,    *)
(* when it was created and when it was last changed.                       *)
(***************************************************************************)
EXTENDS Ibis, Integers, SequencesExt, FiniteSetsExt

CONSTANT MaxIndent     \* MAX_INDENT_DEPTH

ASSUME MaxIndentAssumption == MaxIndent \in Nat

Nodes(g) == Range(g.ids)

\* Where an element stands in a sequence.
At(s, e) == SelectInSeq(s, LAMBDA x : x = e)

----------------------------------------------------------------------------
(* parentLinks *)

\* An associative edge into a note from something else hangs the note off it.
NoteIsTarget(g, e) == g.type[e.target] = "note" /\ g.type[e.source] # "note"

Turned(g, e) == ~IsHierarchical(e.rel) /\ NoteIsTarget(g, e)

LinkOf(g, e) ==
    [child  |-> IF Turned(g, e) THEN e.target ELSE e.source,
     parent |-> IF Turned(g, e) THEN e.source ELSE e.target,
     rel    |-> e.rel]

\* Hierarchical edges win over associative ones, and the first edge wins.
ChosenLinks(g) ==
    LET usable   == {i \in DOMAIN g.edges :
                        /\ {g.edges[i].source, g.edges[i].target} \subseteq Nodes(g)
                        /\ g.edges[i].source # g.edges[i].target}
        off(n)   == {i \in usable : LinkOf(g, g.edges[i]).child = n}
        hier(n)  == {i \in off(n) : IsHierarchical(g.edges[i].rel)}
        first(n) == Min(IF hier(n) # {} THEN hier(n) ELSE off(n))
    IN [n \in {k \in Nodes(g) : off(k) # {}} |-> LinkOf(g, g.edges[first(n)])]

\* Where a walk of k links up from n ends; a node without a link is its end.
Climb(links, n, steps) ==
    LET up[k \in 0..steps] ==
            IF k = 0 THEN n
            ELSE IF up[k - 1] \in DOMAIN links THEN links[up[k - 1]].parent
                 ELSE up[k - 1]
    IN up[steps]

\* A walk that is still on linked nodes after as many steps as there are
\* links has met some node twice.
ComesRound(links, n) ==
    Climb(links, n, Cardinality(DOMAIN links)) \in DOMAIN links

\* Mutant of WithoutLoop: only a node that is on the loop itself is orphaned.
WithoutOwnLoop(links, n) ==
    IF n \in DOMAIN links /\ links[n].parent \in DOMAIN links
                          /\ links[links[n].parent].parent = n
    THEN Restrict(links, DOMAIN links \ {n}) ELSE links

WithoutLoop(links, n) ==
    IF n \in DOMAIN links /\ ComesRound(links, n)
    THEN Restrict(links, DOMAIN links \ {n}) ELSE links

ParentLinks(g) == FoldLeft(WithoutLoop, ChosenLinks(g), g.ids)

Above(links, n) ==
    {Climb(links, n, k) : k \in 1..Cardinality(DOMAIN links)} \ {n}

HangsOff(links, c, n) == c \in DOMAIN links /\ links[c].parent = n

Children(g, links, n) == SelectSeq(g.ids, LAMBDA c : HangsOff(links, c, n))

Subtree(g, links, n) == {m \in Nodes(g) : m = n \/ n \in Above(links, m)}

Roots(g, links) == SelectSeq(g.ids, LAMBDA n : n \notin DOMAIN links)

----------------------------------------------------------------------------
(* The "Open questions" filter *)

IsQuestionOpen(g, links, q) ==
    ~\E c \in Nodes(g) :
        HangsOff(links, c, q) /\ g.type[c] = "idea" /\ g.status[c] = "resolved"

\* Mutant of RootQuestions: only the node right above is looked at.
TopQuestions(g, links) ==
    {n \in Nodes(g) : /\ g.type[n] = "question"
                      /\ n \in DOMAIN links => g.type[links[n].parent] # "question"}

RootQuestions(g, links) ==
    {n \in Nodes(g) : /\ g.type[n] = "question"
                      /\ \A a \in Above(links, n) : g.type[a] # "question"}

OpenQuestionScope(g) ==
    LET links == ParentLinks(g)
    IN UNION {Subtree(g, links, q) :
                 q \in {r \in RootQuestions(g, links) : IsQuestionOpen(g, links, r)}}

----------------------------------------------------------------------------
(* buildThreads *)

\* Mutant of Latest: a reply to a reply no longer lifts the thread.
LatestNear(g, links) ==
    [n \in Nodes(g) |-> Max({g.updated[n]}
                       \cup {g.updated[c] : c \in Range(Children(g, links, n))})]

\* The newest change anywhere beneath each node.
Latest(g, links) ==
    LET newest[n \in Nodes(g)] ==
            Max({g.updated[n]} \cup {newest[c] : c \in Range(Children(g, links, n))})
    IN newest

\* A stable sort: of two equally recent nodes, the one held first.
NewestFirst(g, latest, ns) ==
    SortSeq(ns, LAMBDA a, b :
        \/ latest[a] > latest[b]
        \/ latest[a] = latest[b] /\ At(g.ids, a) < At(g.ids, b))

Row(links, n, depth) ==
    [node   |-> n,
     depth  |-> depth,
     indent |-> Min({depth, MaxIndent}),
     named  |-> IF depth > MaxIndent THEN {links[n].parent} ELSE {}]

BuildThreads(g) ==
    LET links  == ParentLinks(g)
        latest == Latest(g, links)
        deep   == Cardinality(Nodes(g))
        rows[n \in Nodes(g), depth \in 0..deep] ==
            LET kids == NewestFirst(g, latest, Children(g, links, n))
            IN <<Row(links, n, depth)>>
               \o FlattenSeq([i \in DOMAIN kids |-> rows[kids[i], depth + 1]])
        roots  == NewestFirst(g, latest, Roots(g, links))
    IN [i \in DOMAIN roots |->
           [root |-> roots[i], rows |-> rows[roots[i], 0], latest |-> latest[roots[i]]]]
=============================================================================
