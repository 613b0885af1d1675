------------------------------ MODULE Grammar ------------------------------
(***************************************************************************)
(* The browser's advisory reading of the published grammar (grammar.ts):   *)
(* which types the details panel offers to turn a card into.  Edges are    *)
(* records with source, target and rel; type gives each card's type.       *)
(***************************************************************************)
EXTENDS Ibis

CanConnect(source, target) ==
    \E r \in Rules : source \in r.sources /\ target \in r.targets

\* Mutant of CanRetype: only what the card itself hangs off is looked at.
CanRetypeUpwards(type, edges, n, next) ==
    next = type[n] \/ \A e \in edges : e.source = n => CanConnect(next, type[e.target])

\* Every edge at the card constrains it, whichever way it points.
CanRetype(type, edges, n, next) ==
    \/ next = type[n]
    \/ \A e \in edges :
          /\ e.source = n => CanConnect(next, type[e.target])
          /\ e.target = n => CanConnect(type[e.source], next)

-----------------------------------------------------------------------------
(* What the server does with the edges around a retyped card               *)
(* (retypeEdgesTx, store/queries.go), of one map.                          *)

\* The edges at n that its new type makes illegal, and what one becomes.
Illegal(now, edges, n) ==
    {e \in edges : /\ n \in {e.source, e.target}
                   /\ ~ValidateEdge(now[e.source], now[e.target], e.rel)}
NewLabel(now, e) == DefaultRelationship(now[e.source], now[e.target])

\* reachableTx: the hierarchical edges lead from one card to another.
Leads(cards, edges, from, goal) ==
    \A S \in SUBSET cards :
        /\ from \in S
        /\ \A e \in edges : IsHierarchical(e.rel) /\ e.source \in S => e.target \in S
        => goal \in S

\* An associative edge that becomes a hierarchical one closes a circle.
ClosesLoop(type, edges, n, next) ==
    LET now   == [type EXCEPT ![n] = next]
        moved == Illegal(now, edges, n)
        after == (edges \ moved) \cup {[e EXCEPT !.rel = NewLabel(now, e)] : e \in moved}
    IN \E e \in moved : /\ IsHierarchical(NewLabel(now, e)) /\ ~IsHierarchical(e.rel)
                        /\ Leads(DOMAIN type, after, e.target, e.source)

\* The retype is granted: every edge stays legal or can be given a
\* relationship that is, and no circle comes about.
Relabels(type, edges, n, next) ==
    /\ \A e \in Illegal([type EXCEPT ![n] = next], edges, n) :
          NewLabel([type EXCEPT ![n] = next], e) # NoRelationship
    /\ ~ClosesLoop(type, edges, n, next)
=============================================================================
