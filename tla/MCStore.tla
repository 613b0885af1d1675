------------------------------ MODULE MCStore ------------------------------
(* The shared tables, for TLC. *)
EXTENDS Processes, TLC

CONSTANTS m1, m2, n1, n2, e1, e2, e3, g1, t1, server

TwoMaps     == {m1, m2}
TwoNodes    == {n1, n2}
ThreeEdges  == {e1, e2, e3}
OneGroup    == {g1}
OneTitle    == {t1}
OnePosition == {0}
OneStep     == {1}
OneProcess  == {server}

\* Types whose edges change meaning, and turn hierarchical or cease to be,
\* when one of them becomes another.
StoreTypes == {"question", "idea", "note", "map"}

\* Everything happens while no edit is under way; while one is, with one map
\* and no groups, and when one took a type back from under an edge, the others
\* retype, link, unlink, insert and remove.
Few      == groups = Empty /\ Cardinality(maps) = 1
InOrder  == read[server] = Nil /\ \A e \in edges : Legal(e, TypeOf)

Meanwhile ==
    \/ NodeStep \/ EdgeStep
    \/ \E in \in TranscludeInput, e \in Edge : Transclude(in, e)
    \/ \E m \in Map, n \in Node : RemoveFromMap(m, n)

MCNext ==
    \/ InOrder /\ NextTables /\ UNCHANGED read
    \/ Few /\ EditStep
    \/ ~InOrder /\ Meanwhile /\ UNCHANGED read

MCSpec == InitShared /\ [][MCNext]_<<tables, read>>

\* Identifiers are interchangeable: no definition compares or orders them.
StoreSymmetry ==
    Permutations(TwoMaps) \cup Permutations(TwoNodes) \cup Permutations(ThreeEdges)
=============================================================================
