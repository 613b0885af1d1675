---------------------------- MODULE ViewsProofs ----------------------------
(***************************************************************************)
(* The browser's reading of the grammar and the server's agree, for every  *)
(* map; what the panel offers while a map is worked on; cards that are     *)
(* taken hold of do not move; the outline is a forest; and the filter      *)
(* keeps the branches it should.                                           *)
(***************************************************************************)
EXTENDS Views, SequenceTheorems, FiniteSetTheorems, WellFoundedInduction, TLAPS

-----------------------------------------------------------------------------
(* The grammar. *)


\* A relationship the preference order leaves out could be legal and never
\* be inferred: there is none.
LEMMA EveryRuleIsPreferred ==
    ASSUME NEW r \in Rules
    PROVE  \E i \in DOMAIN Preference : Preference[i] = r.rel
<1>1. DOMAIN Preference = 1..6
  BY DEF Preference
<1>2. /\ Preference[1] = "supports" /\ Preference[2] = "objects_to"
      /\ Preference[3] = "responds_to" /\ Preference[4] = "questions"
      /\ Preference[5] = "specializes" /\ Preference[6] = "relates_to"
  BY DEF Preference
<1>3. r.rel \in {"supports", "objects_to", "responds_to", "questions",
                 "specializes", "relates_to"}
  BY DEF Rules, Rule
<1> QED
  BY <1>1, <1>2, <1>3

\* What is inferred when some relationship is legal is the first that is.
LEMMA InferredIsLegal ==
    ASSUME NEW source, NEW target,
           NEW k \in DOMAIN Preference,
           ValidateEdge(source, target, Preference[k])
    PROVE  /\ DefaultRelationship(source, target) \in Relationships
           /\ ValidateEdge(source, target, DefaultRelationship(source, target))
<1> DEFINE legal == {i \in DOMAIN Preference :
                        ValidateEdge(source, target, Preference[i])}
           first == CHOOSE i \in legal : \A j \in legal : i <= j
<1>1. DOMAIN Preference = 1..6
  BY DEF Preference
<1>2. legal # {} /\ legal \subseteq 1..6
  BY <1>1
<1>3. \E i \in legal : \A j \in legal : i <= j
  <2>1. CASE 1 \in legal
    BY <2>1, <1>2, SMT
  <2>2. CASE 1 \notin legal /\ 2 \in legal
    BY <2>2, <1>2, SMT
  <2>3. CASE 1 \notin legal /\ 2 \notin legal /\ 3 \in legal
    BY <2>3, <1>2, SMT
  <2>4. CASE 1 \notin legal /\ 2 \notin legal /\ 3 \notin legal /\ 4 \in legal
    BY <2>4, <1>2, SMT
  <2>5. CASE legal \subseteq {5, 6}
    BY <2>5, <1>2, SMT
  <2> QED
    BY <2>1, <2>2, <2>3, <2>4, <2>5, <1>2, SMT
<1>4. first \in legal
  BY <1>3
<1>5. Preference[first] \in Relationships
  <2>1. first \in 1..6
    BY <1>2, <1>4
  <2>2. \A i \in 1..6 : Preference[i] \in Relationships
    BY DEF Preference, Relationships
  <2> QED
    BY <2>1, <2>2
<1>6. DefaultRelationship(source, target) = Preference[first]
  BY <1>2 DEF DefaultRelationship, FirstLegal
<1> QED
  BY <1>4, <1>5, <1>6

LEMMA SomeRelationship == NoRelationship \notin Relationships
BY DEF NoRelationship, Relationships

\* The menu's question, whether any rule connects two types, has the answer
\* of the server's: whether a relationship can be inferred for them.
THEOREM ConnectsIffInferable ==
    ASSUME NEW source, NEW target
    PROVE  CanConnect(source, target)
              <=> DefaultRelationship(source, target) # NoRelationship
<1>1. ASSUME CanConnect(source, target)
      PROVE  DefaultRelationship(source, target) # NoRelationship
  <2>1. PICK r \in Rules : source \in r.sources /\ target \in r.targets
    BY <1>1 DEF CanConnect
  <2>2. PICK k \in DOMAIN Preference : Preference[k] = r.rel
    BY EveryRuleIsPreferred
  <2>3. ValidateEdge(source, target, Preference[k])
    BY <2>1, <2>2 DEF ValidateEdge
  <2> QED
    BY <2>3, InferredIsLegal, SomeRelationship
<1>2. ASSUME ~CanConnect(source, target)
      PROVE  DefaultRelationship(source, target) = NoRelationship
  <2>1. \A rel : ~ValidateEdge(source, target, rel)
    BY <1>2 DEF CanConnect, ValidateEdge
  <2> QED
    BY <2>1 DEF DefaultRelationship, FirstLegal
<1> QED
  BY <1>1, <1>2

\* Only a note's edges can turn from associative to hierarchical: an
\* associative edge has a note at one end, and stays what it is as long as
\* that end stays a note.
LEMMA OnlyNotesTurn ==
    ASSUME NEW Cards, NEW type \in [Cards -> NodeTypes],
           NEW n \in Cards, NEW next \in NodeTypes, type[n] # "note",
           NEW s \in Cards, NEW t \in Cards, NEW rel, n \in {s, t}, s # t,
           ValidateEdge(type[s], type[t], rel), ~IsHierarchical(rel)
    PROVE  ValidateEdge([type EXCEPT ![n] = next][s], [type EXCEPT ![n] = next][t], rel)
<1> DEFINE now == [type EXCEPT ![n] = next]
<1>1. now \in [Cards -> NodeTypes] /\ \A c \in Cards \ {n} : now[c] = type[c]
  OBVIOUS
<1>2. PICK r \in Rules : r.rel = rel /\ type[s] \in r.sources /\ type[t] \in r.targets
  BY DEF ValidateEdge
<1>3. ~r.hierarchical
  BY <1>2 DEF IsHierarchical
<1>4. /\ rel = "relates_to"
      /\ type[s] = "note" \/ type[t] = "note"
  BY <1>2, <1>3 DEF Rules, Rule
<1>5. now[s] = "note" \/ now[t] = "note"
  BY <1>1, <1>4
<1>6. now[s] \in NodeTypes /\ now[t] \in NodeTypes
  BY <1>1
<1> HIDE DEF now
<1>7. ValidateEdge(now[s], now[t], rel)
  <2>1. CASE now[s] = "note"
    <3>1. PICK q \in Rules : q = Rule("relates_to", {"note"}, NodeTypes, FALSE)
      BY DEF Rules
    <3> QED
      BY <1>4, <1>6, <2>1, <3>1 DEF ValidateEdge, Rule
  <2>2. CASE now[t] = "note"
    <3>1. PICK q \in Rules : q = Rule("relates_to", NodeTypes, {"note"}, FALSE)
      BY DEF Rules
    <3> QED
      BY <1>4, <1>6, <2>2, <3>1 DEF ValidateEdge, Rule
  <2> QED
    BY <1>5, <2>1, <2>2
<1> QED
  BY <1>7 DEF now

\* On every map of legal edges, the panel offers a card every type the server
\* grants it; what else it offers is offered to a note, and turned down because
\* an edge of the note would close a circle.
THEOREM MenuAgrees ==
    ASSUME NEW Cards, NEW type \in [Cards -> NodeTypes],
           NEW edges, NEW n \in Cards, NEW next \in NodeTypes,
           \A e \in edges : /\ e.source \in Cards /\ e.target \in Cards
                            /\ e.source # e.target
                            /\ ValidateEdge(type[e.source], type[e.target], e.rel)
    PROVE  /\ Relabels(type, edges, n, next) => CanRetype(type, edges, n, next)
           /\ CanRetype(type, edges, n, next) /\ ~Relabels(type, edges, n, next)
              => type[n] = "note" /\ ClosesLoop(type, edges, n, next)
<1> DEFINE now   == [type EXCEPT ![n] = next]
           moved == Illegal(now, edges, n)
<1>1. now[n] = next /\ \A c \in Cards \ {n} : now[c] = type[c]
  OBVIOUS
<1>2. ASSUME NEW s, NEW t, NEW rel, ValidateEdge(s, t, rel)
      PROVE  DefaultRelationship(s, t) # NoRelationship
  <2>1. CanConnect(s, t)
    BY <1>2 DEF ValidateEdge, CanConnect
  <2> QED
    BY <2>1, ConnectsIffInferable
<1>3. CanRetype(type, edges, n, next) <=>
        \A e \in moved : NewLabel(now, e) # NoRelationship
  <2>1. CASE next = type[n]
    <3>1. now = type
      BY <2>1
    <3>2. moved = {}
      BY <3>1 DEF Illegal
    <3> QED
      BY <2>1, <3>2 DEF CanRetype
  <2>2. CASE next # type[n]
    <3>1. CanRetype(type, edges, n, next) <=>
            \A e \in edges : n \in {e.source, e.target} =>
               CanConnect(now[e.source], now[e.target])
      BY <2>2, <1>1 DEF CanRetype
    <3>2. (\A e \in moved : NewLabel(now, e) # NoRelationship) <=>
            \A e \in edges : n \in {e.source, e.target} =>
               DefaultRelationship(now[e.source], now[e.target]) # NoRelationship
      BY <1>2 DEF Illegal, NewLabel
    <3> QED
      BY <3>1, <3>2, ConnectsIffInferable
  <2> QED
    BY <2>1, <2>2
<1>4. ClosesLoop(type, edges, n, next) => type[n] = "note"
  <2> SUFFICES ASSUME ClosesLoop(type, edges, n, next), type[n] # "note" PROVE FALSE
    OBVIOUS
  <2>1. PICK e \in moved : ~IsHierarchical(e.rel)
    BY DEF ClosesLoop
  <2>2. /\ e \in edges /\ n \in {e.source, e.target}
        /\ ~ValidateEdge(now[e.source], now[e.target], e.rel)
    BY DEF Illegal
  <2>3. /\ e.source \in Cards /\ e.target \in Cards /\ e.source # e.target
        /\ ValidateEdge(type[e.source], type[e.target], e.rel)
    BY <2>2
  <2> QED
    BY <2>1, <2>2, <2>3, OnlyNotesTurn
<1>5. Relabels(type, edges, n, next) <=>
        /\ \A e \in moved : NewLabel(now, e) # NoRelationship
        /\ ~ClosesLoop(type, edges, n, next)
  BY DEF Relabels
<1> QED
  BY <1>3, <1>4, <1>5

-----------------------------------------------------------------------------
(* A map that is worked on. *)

EdgeOf(g) == [source : Nodes(g), target : Nodes(g), rel : Relationships]

LEMMA RangeOfAppend ==
    ASSUME NEW S, NEW s \in Seq(S), NEW e \in S
    PROVE  /\ Append(s, e) \in Seq(S)
           /\ Range(Append(s, e)) = Range(s) \cup {e}
<1> DEFINE longer == Append(s, e)
<1>1. /\ longer \in Seq(S)
      /\ DOMAIN longer = 1..(Len(s) + 1) /\ DOMAIN s = 1..Len(s) /\ Len(s) \in Nat
      /\ \A i \in 1..Len(s) : longer[i] = s[i]
      /\ longer[Len(s) + 1] = e
  BY AppendProperties, LenProperties
<1>2. DOMAIN longer = DOMAIN s \cup {Len(s) + 1}
  BY <1>1
<1> HIDE DEF longer
<1>3. Range(longer) = Range(s) \cup {e}
  BY <1>1, <1>2 DEF Range
<1> QED
  BY <1>1, <1>3 DEF longer

LEMMA RangeOfRemoveAt ==
    ASSUME NEW S, NEW s \in Seq(S), NEW i \in DOMAIN s
    PROVE  /\ RemoveAt(s, i) \in Seq(S)
           /\ Range(RemoveAt(s, i)) \subseteq Range(s)
<1>1. Len(s) \in Nat /\ i \in 1..Len(s) /\ DOMAIN s = 1..Len(s)
  OBVIOUS
<1> DEFINE front == SubSeq(s, 1, i - 1)
           back == SubSeq(s, i + 1, Len(s))
<1>2. \A j \in 1..Len(s) : s[j] \in Range(s)
  BY <1>1 DEF Range
<1>3. s \in Seq(Range(s)) /\ Range(s) \subseteq S
  BY <1>1, <1>2 DEF Range
<1>4. front \in Seq(Range(s)) /\ back \in Seq(Range(s))
  <2>1. front \in Seq(Range(s))
    <3>1. 1 \in Int /\ i - 1 \in Int /\ \A j \in 1..(i - 1) : s[j] \in Range(s)
      BY <1>1, <1>2
    <3> QED
      BY <3>1, SubSeqProperties
  <2>2. back \in Seq(Range(s))
    <3>1. i + 1 \in Int /\ Len(s) \in Int /\ \A j \in (i + 1)..Len(s) : s[j] \in Range(s)
      BY <1>1, <1>2
    <3> QED
      BY <3>1, SubSeqProperties
  <2> QED
    BY <2>1, <2>2
<1>5. RemoveAt(s, i) \in Seq(Range(s))
  <2> HIDE DEF front, back
  <2>1. front \o back \in Seq(Range(s))
    BY <1>4, ConcatProperties
  <2> QED
    BY <2>1 DEF RemoveAt, front, back
<1>6. \A t \in Seq(Range(s)) : t \in Seq(S) /\ Range(t) \subseteq Range(s)
  BY <1>3 DEF Range
<1> QED
  BY <1>5, <1>6

LEMMA EdgesOfMap ==
    ASSUME NEW g, IsMap(g)
    PROVE  \A e \in Range(g.edges) :
              /\ e \in EdgeOf(g) /\ e.source # e.target
              /\ ValidateEdge(g.type[e.source], g.type[e.target], e.rel)
<1>1. g.edges \in Seq(EdgeOf(g))
  BY DEF IsMap, EdgeOf
<1>2. \A e \in Range(g.edges) : e \in EdgeOf(g)
  BY <1>1 DEF Range
<1> QED
  BY <1>2 DEF IsMap

\* A card that is added, with an edge of the inferred relationship.
LEMMA CreatingKeepsMap ==
    ASSUME IsMap(graph), CreateChild
    PROVE  IsMap(graph')
<1>1. PICK n \in Ids \ Nodes(graph), parent \in Nodes(graph), type \in NodeTypes \ {"map"} :
         LET rel == DefaultRelationship(type, graph.type[parent])
         IN /\ rel # NoRelationship
            /\ graph' = [graph EXCEPT
                 !.ids = Append(@, n),
                 !.edges = Append(@, [source |-> n, target |-> parent, rel |-> rel]),
                 !.type = With(@, n, type), !.status = With(@, n, "open"),
                 !.created = With(@, n, Cardinality(Ids) + spent),
                 !.updated = With(@, n, Cardinality(Ids) + spent)]
  BY DEF CreateChild
<1> DEFINE rel == DefaultRelationship(type, graph.type[parent])
           new == [source |-> n, target |-> parent, rel |-> rel]
           types == With(graph.type, n, type)
           ids == Append(graph.ids, n)
           edges == Append(graph.edges, new)
<1>2. /\ graph' = [ids |-> graph'.ids, edges |-> graph'.edges, type |-> graph'.type,
                   status |-> graph'.status, created |-> graph'.created, updated |-> graph'.updated]
      /\ graph'.ids = ids /\ graph'.edges = edges /\ graph'.type = types
  BY <1>1 DEF IsMap
<1>3. rel \in Relationships /\ ValidateEdge(type, graph.type[parent], rel)
  <2>1. PICK k \in DOMAIN Preference : ValidateEdge(type, graph.type[parent], Preference[k])
    BY <1>1 DEF DefaultRelationship, FirstLegal
  <2> QED
    BY <2>1, InferredIsLegal
<1> HIDE DEF rel
<1>4. ids \in Seq(Ids) /\ Range(ids) = Nodes(graph) \cup {n}
  BY RangeOfAppend DEF IsMap, Nodes
<1>5. /\ types \in [Nodes(graph) \cup {n} -> NodeTypes]
      /\ types[n] = type /\ \A c \in Nodes(graph) : types[c] = graph.type[c]
  <2>1. graph.type \in [Nodes(graph) -> NodeTypes] /\ n \notin Nodes(graph)
    BY DEF IsMap
  <2> QED
    BY <2>1 DEF With
<1> HIDE DEF types, ids
<1>6. Nodes(graph') = Nodes(graph) \cup {n}
  BY <1>2, <1>4 DEF Nodes
<1>7. new \in EdgeOf(graph') /\ EdgeOf(graph) \subseteq EdgeOf(graph')
  BY <1>3, <1>6 DEF EdgeOf
<1>8. new.source = n /\ new.target = parent /\ new.rel = rel
  OBVIOUS
<1> HIDE DEF new
<1>9. graph.edges \in Seq(EdgeOf(graph'))
  <2>1. graph.edges \in Seq(EdgeOf(graph))
    BY DEF IsMap, EdgeOf
  <2> QED
    BY <1>7, <2>1
<1>10. edges \in Seq(EdgeOf(graph')) /\ Range(edges) = Range(graph.edges) \cup {new}
  BY <1>7, <1>9, RangeOfAppend
<1> HIDE DEF edges
<1>11. \A e \in Range(edges) :
          e.source # e.target /\ ValidateEdge(types[e.source], types[e.target], e.rel)
  <2>1. ASSUME NEW e \in Range(graph.edges)
        PROVE  e.source # e.target /\ ValidateEdge(types[e.source], types[e.target], e.rel)
    BY <1>5, EdgesOfMap DEF EdgeOf
  <2>2. new.source # new.target /\ ValidateEdge(types[new.source], types[new.target], new.rel)
    BY <1>3, <1>5, <1>8
  <2> QED
    BY <1>10, <2>1, <2>2
<1> QED
  BY <1>2, <1>4, <1>5, <1>6, <1>10, <1>11 DEF IsMap, EdgeOf

LEMMA UnlinkingKeepsMap ==
    ASSUME IsMap(graph), Unlink
    PROVE  IsMap(graph')
<1>1. PICK i \in DOMAIN graph.edges : graph' = [graph EXCEPT !.edges = RemoveAt(@, i)]
  BY DEF Unlink
<1> DEFINE edges == RemoveAt(graph.edges, i)
<1>2. /\ graph' = [ids |-> graph.ids, edges |-> edges, type |-> graph.type,
                   status |-> graph.status, created |-> graph.created, updated |-> graph.updated]
      /\ Nodes(graph') = Nodes(graph)
  BY <1>1 DEF IsMap, Nodes
<1>3. graph.edges \in Seq(EdgeOf(graph))
  BY DEF IsMap, EdgeOf
<1>4. edges \in Seq(EdgeOf(graph)) /\ Range(edges) \subseteq Range(graph.edges)
  BY <1>3, RangeOfRemoveAt
<1> HIDE DEF edges
<1> QED
  BY <1>2, <1>4, EdgesOfMap DEF IsMap, EdgeOf

LEMMA StatusKeepsMap ==
    ASSUME IsMap(graph), SetStatus
    PROVE  IsMap(graph')
<1>1. /\ graph' = [ids |-> graph.ids, edges |-> graph.edges, type |-> graph.type,
                   status |-> graph'.status, created |-> graph.created, updated |-> graph'.updated]
      /\ Nodes(graph') = Nodes(graph)
  BY DEF SetStatus, IsMap, Nodes
<1> QED
  BY <1>1 DEF IsMap

LEMMA MapStays == Spec => []IsMap(graph)
<1>1. Init => IsMap(graph)
  BY DEF Init
<1>2. IsMap(graph) /\ [Next]_vars => IsMap(graph)'
  <2> SUFFICES ASSUME IsMap(graph), [Next]_vars PROVE IsMap(graph')
    OBVIOUS
  <2>1. CASE UNCHANGED graph
    BY <2>1
  <2>2. UNCHANGED graph \/ CreateChild \/ Unlink \/ SetStatus
    BY DEF Next, vars, SetFilterPreset, ToggleStatus, SetTagFilter, TypeIntoFilter, ResetFilters,
           Filtering, ToggleLayout, Tidy, DragNode, DragGroup, TakeHold, LetGo
  <2> QED
    BY <2>1, <2>2, CreatingKeepsMap, UnlinkingKeepsMap, StatusKeepsMap
<1> QED
  BY <1>1, <1>2, PTL DEF Spec

\* MenuAgreesWithTheServer: whatever cards and edges have been added or taken
\* away, the panel offers a card the types the server would grant it, and no
\* other but to a note that would close a circle.
THEOREM MenuStaysRight == Spec => []MenuAgreesWithTheServer
<1>1. IsMap(graph) => MenuAgreesWithTheServer
  <2> SUFFICES ASSUME IsMap(graph), NEW n \in Nodes(graph), NEW next \in NodeTypes \ {"map"}
               PROVE  LET edges   == Range(graph.edges)
                          offered == CanRetype(graph.type, edges, n, next)
                          granted == Relabels(graph.type, edges, n, next)
                      IN /\ granted => offered
                         /\ offered /\ ~granted =>
                               graph.type[n] = "note" /\ ClosesLoop(graph.type, edges, n, next)
    BY DEF MenuAgreesWithTheServer
  <2>1. graph.type \in [Nodes(graph) -> NodeTypes]
    BY DEF IsMap
  <2>2. \A e \in Range(graph.edges) :
           /\ e.source \in Nodes(graph) /\ e.target \in Nodes(graph)
           /\ e.source # e.target
           /\ ValidateEdge(graph.type[e.source], graph.type[e.target], e.rel)
    BY EdgesOfMap DEF EdgeOf
  <2> QED
    BY <2>1, <2>2, MenuAgrees
<1> QED
  BY <1>1, MapStays, PTL

-----------------------------------------------------------------------------
(* Taking hold of cards. *)

LEMMA LayoutPlaces ==
    ASSUME NEW g, NEW n \in Nodes(g)
    PROVE  AutoLayout(g)[n] # Unplaced
<1>1. \E x, y : AutoLayout(g)[n] = [x |-> x, y |-> y]
  BY DEF AutoLayout, Pos
<1>2. \A x, y : [x |-> x, y |-> y] # [nowhere |-> TRUE]
  <2>1. DOMAIN [nowhere |-> TRUE] = {"nowhere"}
    OBVIOUS
  <2>2. \A x, y : "x" \in DOMAIN [x |-> x, y |-> y]
    OBVIOUS
  <2> QED
    BY <2>1, <2>2
<1> QED
  BY <1>1, <1>2 DEF Unplaced

\* HandoffMovesNothing: whatever map, and whatever was saved before, a card
\* that is taken hold of under auto layout stays where it was drawn, and so
\* do all the others.
THEOREM HandoffStays == Spec => HandoffMovesNothing
<1>1. [Next]_vars => [dragging = {} /\ dragging' # {}
                        => \A n \in Nodes(graph) : PositionOf(n) = PositionOf(n)']_vars
  <2> SUFFICES ASSUME Next, dragging = {}, dragging' # {}, NEW n \in Nodes(graph)
               PROVE  PositionOf(n) = PositionOf(n)'
    OBVIOUS
  <2>1. PICK held : TakeHold(held)
    BY DEF Next, SetFilterPreset, ToggleStatus, SetTagFilter, TypeIntoFilter, ResetFilters,
           Filtering, ToggleLayout, Tidy, DragNode, DragGroup, LetGo, CreateChild, Unlink, SetStatus
  <2>2. /\ graph' = graph /\ mode' = "freeform"
        /\ place' = IF mode = "auto" THEN AutoLayout(graph) ELSE place
    BY <2>1 DEF TakeHold, LaidOut
  <2>3. PositionOf(n)' = Saved(place', n)
    BY <2>2 DEF PositionOf
  <2>4. CASE mode = "auto"
    <3>1. PositionOf(n) = AutoLayout(graph)[n] /\ place' = AutoLayout(graph)
      BY <2>2, <2>4 DEF PositionOf
    <3> QED
      BY <2>3, <3>1, LayoutPlaces DEF Saved
  <2>5. CASE mode # "auto"
    BY <2>2, <2>3, <2>5 DEF PositionOf
  <2> QED
    BY <2>4, <2>5
<1> QED
  BY <1>1, PTL DEF Spec, HandoffMovesNothing

-----------------------------------------------------------------------------
(* Walking up the links of an outline.                                      *)

LEMMA Least ==
    ASSUME NEW S \in SUBSET Nat, S # {}
    PROVE  \E x \in S : \A y \in S : x <= y
<1>1. \E x \in S : \A y \in S : ~(<<y, x>> \in OpToRel(<, Nat))
  BY NatLessThanWellFounded, WFMin
<1>2. PICK x \in S : \A y \in S : ~(<<y, x>> \in OpToRel(<, Nat))
  BY <1>1
<1>3. \A y \in S : ~(y < x)
  BY <1>2 DEF OpToRel
<1> QED
  BY <1>3

\* Induction over the naturals, of a set.
LEMMA EveryNatural ==
    ASSUME NEW S, S \subseteq Nat, 0 \in S, \A k \in S : k + 1 \in S
    PROVE  \A k \in Nat : k \in S
<1> SUFFICES ASSUME Nat \ S # {} PROVE FALSE
  OBVIOUS
<1>1. PICK x \in Nat \ S : \A y \in Nat \ S : x <= y
  BY Least
<1>2. x # 0 /\ x - 1 \in Nat
  BY <1>1
<1>3. x - 1 \in S
  BY <1>1, <1>2
<1>4. (x - 1) + 1 \in S
  BY <1>3
<1> QED
  BY <1>1, <1>4

\* One link up; a node without a link stays where it is.
Up(links, x) == IF x \in DOMAIN links THEN links[x].parent ELSE x

Walks(up, links, n, steps) ==
    up = [k \in 0..steps |-> IF k = 0 THEN n ELSE Up(links, up[k - 1])]

LEMMA WalkExists ==
    ASSUME NEW links, NEW n, NEW steps \in Nat
    PROVE  \E up : Walks(up, links, n, steps)
<1> DEFINE Good == {s \in Nat : \E up : Walks(up, links, n, s)}
<1>1. 0 \in Good
  <2>1. Walks([k \in 0..0 |-> n], links, n, 0)
    BY DEF Walks
  <2> QED
    BY <2>1
<1>2. ASSUME NEW s \in Good
      PROVE  s + 1 \in Good
  <2>1. PICK up : Walks(up, links, n, s)
    OBVIOUS
  <2> DEFINE more == [k \in 0..(s + 1) |-> IF k = 0 THEN n ELSE Up(links, up[k - 1])]
  <2>2. \A k \in 0..(s + 1) : k # 0 => k - 1 \in 0..s /\ k - 1 \in 0..(s + 1)
    OBVIOUS
  <2>3. \A k \in 0..s : k \in 0..(s + 1) /\ up[k] = more[k]
    BY <2>1 DEF Walks
  <2>4. \A k \in 0..(s + 1) : k # 0 => more[k - 1] = up[k - 1]
    BY <2>2, <2>3
  <2>5. Walks(more, links, n, s + 1)
    BY <2>4 DEF Walks
  <2> QED
    BY <2>5
<1>3. \A k \in Nat : k \in Good
  <2>1. Good \subseteq Nat
    OBVIOUS
  <2> HIDE DEF Good
  <2> QED
    BY <1>1, <1>2, <2>1, EveryNatural
<1> QED
  BY <1>3

LEMMA ClimbIs ==
    ASSUME NEW links, NEW n, NEW steps \in Nat
    PROVE  \E up : Walks(up, links, n, steps) /\ Climb(links, n, steps) = up[steps]
<1> DEFINE w == CHOOSE up : Walks(up, links, n, steps)
<1>1. Walks(w, links, n, steps)
  BY WalkExists
<1>2. Climb(links, n, steps) = w[steps]
  BY DEF Climb, Walks, Up
<1> QED
  BY <1>1, <1>2

\* Two walks from the same node agree as far as both go.
LEMMA WalksAgree ==
    ASSUME NEW links, NEW n, NEW s \in Nat, NEW t \in Nat, s <= t,
           NEW u, Walks(u, links, n, s), NEW w, Walks(w, links, n, t)
    PROVE  \A k \in 0..s : u[k] = w[k]
<1> DEFINE Good == {k \in Nat : k <= s => u[k] = w[k]}
<1>1. 0 \in Good
  BY DEF Walks
<1>2. ASSUME NEW k \in Good
      PROVE  k + 1 \in Good
  <2> SUFFICES ASSUME k + 1 <= s PROVE u[k + 1] = w[k + 1]
    OBVIOUS
  <2>1. k + 1 \in 0..s /\ k + 1 \in 0..t /\ (k + 1) - 1 = k /\ k + 1 # 0
    OBVIOUS
  <2>2. u[k + 1] = Up(links, u[k]) /\ w[k + 1] = Up(links, w[k])
    BY <2>1 DEF Walks
  <2> QED
    BY <2>2
<1>3. \A k \in Nat : k \in Good
  <2>1. Good \subseteq Nat
    OBVIOUS
  <2> HIDE DEF Good
  <2> QED
    BY <1>1, <1>2, <2>1, EveryNatural
<1> QED
  BY <1>3

LEMMA ClimbStep ==
    ASSUME NEW links, NEW n
    PROVE  /\ Climb(links, n, 0) = n
           /\ \A k \in Nat : Climb(links, n, k + 1) = Up(links, Climb(links, n, k))
<1>1. Climb(links, n, 0) = n
  <2>1. PICK up : Walks(up, links, n, 0) /\ Climb(links, n, 0) = up[0]
    BY ClimbIs
  <2> QED
    BY <2>1 DEF Walks
<1>2. ASSUME NEW k \in Nat
      PROVE  Climb(links, n, k + 1) = Up(links, Climb(links, n, k))
  <2>1. PICK u : Walks(u, links, n, k) /\ Climb(links, n, k) = u[k]
    BY ClimbIs
  <2>2. PICK w : Walks(w, links, n, k + 1) /\ Climb(links, n, k + 1) = w[k + 1]
    BY ClimbIs
  <2>3. u[k] = w[k]
    BY <2>1, <2>2, WalksAgree
  <2>4. w[k + 1] = Up(links, w[k])
    BY <2>2 DEF Walks
  <2> QED
    BY <2>1, <2>2, <2>3, <2>4
<1> QED
  BY <1>1, <1>2

\* A walk of j and then of k links is one of j + k.
LEMMA ClimbOn ==
    ASSUME NEW links, NEW n, NEW j \in Nat, NEW k \in Nat
    PROVE  Climb(links, n, j + k) = Climb(links, Climb(links, n, j), k)
<1> DEFINE Good == {i \in Nat : Climb(links, n, j + i) = Climb(links, Climb(links, n, j), i)}
<1>1. 0 \in Good
  BY ClimbStep
<1>2. ASSUME NEW i \in Good
      PROVE  i + 1 \in Good
  <2>1. PICK s : s = j + i
    OBVIOUS
  <2>2. s \in Nat /\ s + 1 = j + (i + 1)
    BY <2>1
  <2>3. Climb(links, n, s + 1) = Up(links, Climb(links, n, s))
    BY <2>2, ClimbStep
  <2>4. Climb(links, Climb(links, n, j), i + 1) = Up(links, Climb(links, Climb(links, n, j), i))
    BY ClimbStep
  <2> QED
    BY <2>1, <2>2, <2>3, <2>4
<1>3. \A i \in Nat : i \in Good
  <2>1. Good \subseteq Nat
    OBVIOUS
  <2> HIDE DEF Good
  <2> QED
    BY <1>1, <1>2, <2>1, EveryNatural
<1> QED
  BY <1>3

\* A walk that has come to a node without a link stays there.
LEMMA StaysAtTheTop ==
    ASSUME NEW links, NEW n, NEW j \in Nat, Climb(links, n, j) \notin DOMAIN links,
           NEW k \in Nat, j <= k
    PROVE  Climb(links, n, k) = Climb(links, n, j)
<1> DEFINE Good == {i \in Nat : Climb(links, n, j + i) = Climb(links, n, j)}
<1>1. \A i \in Nat : i \in Good
  <2>1. 0 \in Good
    OBVIOUS
  <2>2. ASSUME NEW i \in Good
        PROVE  i + 1 \in Good
    <3>1. PICK s : s = j + i
      OBVIOUS
    <3>2. s \in Nat /\ s + 1 = j + (i + 1)
      BY <3>1
    <3>3. Climb(links, n, s + 1) = Up(links, Climb(links, n, s))
      BY <3>2, ClimbStep
    <3> QED
      BY <3>1, <3>2, <3>3 DEF Up
  <2>3. Good \subseteq Nat
    OBVIOUS
  <2> HIDE DEF Good
  <2> QED
    BY <2>1, <2>2, <2>3, EveryNatural
<1>2. k - j \in Nat /\ j + (k - j) = k
  OBVIOUS
<1>3. k - j \in Good
  BY <1>1, <1>2
<1> QED
  BY <1>2, <1>3

\* A walk that is twice at the same node is on linked nodes for ever.
LEMMA RoundAndRound ==
    ASSUME NEW links, NEW n, NEW i \in Nat, NEW j \in Nat, i < j,
           Climb(links, n, i) = Climb(links, n, j), Climb(links, n, j) \in DOMAIN links
    PROVE  \A k \in Nat : Climb(links, n, k) \in DOMAIN links
<1> DEFINE Bad == {k \in Nat : Climb(links, n, k) \notin DOMAIN links}
<1> SUFFICES ASSUME Bad # {} PROVE FALSE
  OBVIOUS
<1>1. PICK k \in Bad : \A z \in Bad : k <= z
  <2>1. Bad \in SUBSET Nat
    OBVIOUS
  <2> HIDE DEF Bad
  <2> QED
    BY <2>1, Least
<1>2. k \in Nat /\ Climb(links, n, k) \notin DOMAIN links
  BY <1>1
<1>3. j <= k
  <2> SUFFICES ASSUME k <= j PROVE FALSE
    BY <1>2
  <2> QED
    BY <1>2, StaysAtTheTop
<1>4. PICK r \in Nat : k = j + r /\ i + r \in Nat /\ i + r < k
  <2>1. k - j \in Nat /\ k = j + (k - j) /\ i + (k - j) \in Nat /\ i + (k - j) < k
    BY <1>2, <1>3
  <2> QED
    BY <2>1
<1>5. Climb(links, n, k) = Climb(links, Climb(links, n, j), r)
  BY <1>4, ClimbOn
<1>6. Climb(links, n, i + r) = Climb(links, Climb(links, n, i), r)
  BY ClimbOn
<1>7. i + r \notin Bad
  BY <1>1, <1>4
<1> QED
  BY <1>2, <1>4, <1>5, <1>6, <1>7

\* The walk as long as there are links tells whether it ever ends.
LEMMA ForEver ==
    ASSUME NEW links, IsFiniteSet(DOMAIN links), NEW n
    PROVE  ComesRound(links, n) <=> \A k \in Nat : Climb(links, n, k) \in DOMAIN links
<1> DEFINE D == DOMAIN links
           size == Cardinality(D)
<1>1. size \in Nat
  BY FS_CardinalityType
<1>2. ComesRound(links, n) <=> Climb(links, n, size) \in D
  BY DEF ComesRound
<1>3. ASSUME Climb(links, n, size) \in D
      PROVE  \A k \in Nat : Climb(links, n, k) \in D
  <2>1. ASSUME NEW k \in 0..size PROVE Climb(links, n, k) \in D
    <3> SUFFICES ASSUME Climb(links, n, k) \notin D PROVE FALSE
      OBVIOUS
    <3>1. k \in Nat /\ k <= size
      BY <1>1
    <3> HIDE DEF size
    <3>2. Climb(links, n, size) = Climb(links, n, k)
      BY <1>1, <3>1, StaysAtTheTop
    <3> QED
      BY <1>3, <3>2
  <2> DEFINE at == [k \in 0..size |-> Climb(links, n, k)]
  <2>2. at \in [0..size -> D]
    BY <2>1
  <2>3. IsFiniteSet(0..size) /\ Cardinality(0..size) = size + 1
    BY <1>1, FS_Interval
  <2>4. \E x, y \in 0..size : x # y /\ at[x] = at[y]
    <3>1. Cardinality(D) < Cardinality(0..size)
      BY <1>1, <2>3
    <3> HIDE DEF at, size
    <3> QED
      BY <2>2, <2>3, <3>1, FS_PigeonHole
  <2>5. PICK x \in 0..size, y \in 0..size : x # y /\ at[x] = at[y]
    BY <2>4
  <2>6. x \in Nat /\ y \in Nat /\ Climb(links, n, x) = Climb(links, n, y)
        /\ Climb(links, n, x) \in D /\ Climb(links, n, y) \in D
    BY <1>1, <2>1, <2>5
  <2> QED
    BY <2>5, <2>6, RoundAndRound
<1> QED
  BY <1>1, <1>2, <1>3

\* Fewer links, the others as they were.
Fewer(some, links) ==
    /\ DOMAIN some \subseteq DOMAIN links
    /\ \A x \in DOMAIN some : some[x] = links[x]

\* What comes round by some of the links comes round by all of them.
LEMMA RoundByFewer ==
    ASSUME NEW links, IsFiniteSet(DOMAIN links), NEW some, Fewer(some, links),
           NEW n, ComesRound(some, n)
    PROVE  ComesRound(links, n)
<1>1. \A k \in Nat : Climb(some, n, k) \in DOMAIN some
  <2>1. IsFiniteSet(DOMAIN some)
    BY FS_Subset DEF Fewer
  <2> QED
    BY <2>1, ForEver
<1> DEFINE Good == {k \in Nat : Climb(links, n, k) = Climb(some, n, k)}
<1>2. \A k \in Nat : k \in Good
  <2>1. 0 \in Good
    BY ClimbStep
  <2>2. ASSUME NEW k \in Good
        PROVE  k + 1 \in Good
    <3>1. Climb(links, n, k + 1) = Up(links, Climb(links, n, k))
      BY ClimbStep
    <3>2. Climb(some, n, k + 1) = Up(some, Climb(some, n, k))
      BY ClimbStep
    <3>3. Climb(links, n, k) = Climb(some, n, k) /\ Climb(some, n, k) \in DOMAIN some
      BY <1>1
    <3> QED
      BY <3>1, <3>2, <3>3 DEF Up, Fewer
  <2>3. Good \subseteq Nat
    OBVIOUS
  <2> HIDE DEF Good
  <2> QED
    BY <2>1, <2>2, <2>3, EveryNatural
<1>3. \A k \in Nat : Climb(links, n, k) \in DOMAIN links
  BY <1>1, <1>2 DEF Fewer
<1> QED
  BY <1>3, ForEver

-----------------------------------------------------------------------------
(* The outline of a map.                                                    *)

LEMMA MaxOfPrefix ==
    ASSUME NEW k \in Nat, NEW S \in SUBSET (1..k), S # {}
    PROVE  Max(S) \in S /\ \A y \in S : Max(S) >= y
<1> DEFINE Bounds == {u \in Nat : \A y \in S : u >= y}
<1>1. PICK u \in Bounds : \A v \in Bounds : u <= v
  <2>1. k \in Bounds
    OBVIOUS
  <2>2. Bounds \in SUBSET Nat /\ Bounds # {}
    BY <2>1
  <2> HIDE DEF Bounds
  <2> QED
    BY <2>2, Least
<1>2. u \in S
  <2> SUFFICES ASSUME u \notin S PROVE FALSE
    OBVIOUS
  <2>1. \A y \in S : y \in Nat /\ y <= u - 1
    BY <1>1
  <2>2. PICK y \in S : y \in 1..k
    OBVIOUS
  <2>3. u - 1 \in Nat
    BY <1>1, <2>1, <2>2
  <2>4. u - 1 \in Bounds
    BY <2>1, <2>3
  <2> QED
    BY <1>1, <2>4
<1>3. \A y \in S : u >= y
  BY <1>1
<1> QED
  BY <1>2, <1>3 DEF Max

LEMMA MaxIsLast ==
    ASSUME NEW k \in Nat
    PROVE  Max(1..(k + 1)) = k + 1 /\ 1..(k + 1) # {} /\ (1..(k + 1)) \ {k + 1} = 1..k
<1>1. Max(1..(k + 1)) \in 1..(k + 1) /\ \A y \in 1..(k + 1) : Max(1..(k + 1)) >= y
  <2>1. k + 1 \in Nat /\ 1..(k + 1) # {} /\ 1..(k + 1) \in SUBSET (1..(k + 1))
    OBVIOUS
  <2> QED
    BY <2>1, MaxOfPrefix
<1>2. k + 1 \in 1..(k + 1)
  OBVIOUS
<1>3. Max(1..(k + 1)) = k + 1
  BY <1>1, <1>2
<1>4. (1..(k + 1)) \ {k + 1} = 1..k
  OBVIOUS
<1> QED
  BY <1>2, <1>3, <1>4

\* What is left of the links once the nodes of some places have been looked at.
Pruned(f, ids, base, top) ==
    f = [s \in SUBSET (1..top) |->
            IF s = {} THEN base ELSE WithoutLoop(f[s \ {Max(s)}], ids[Max(s)])]

LEMMA PrunedExists ==
    ASSUME NEW ids, NEW base, NEW top \in Nat
    PROVE  \E f : Pruned(f, ids, base, top)
<1> DEFINE Good == {t \in Nat : \E f : Pruned(f, ids, base, t)}
<1>1. 0 \in Good
  <2>1. \A s \in SUBSET (1..0) : s = {}
    OBVIOUS
  <2>2. Pruned([s \in SUBSET (1..0) |-> base], ids, base, 0)
    BY <2>1 DEF Pruned
  <2> QED
    BY <2>2
<1>2. ASSUME NEW t \in Good
      PROVE  t + 1 \in Good
  <2>1. PICK f : Pruned(f, ids, base, t)
    OBVIOUS
  <2>2. PICK u \in Nat : u = t + 1
    OBVIOUS
  <2> DEFINE more == [s \in SUBSET (1..u) |->
                IF s = {} THEN base ELSE WithoutLoop(f[s \ {Max(s)}], ids[Max(s)])]
  <2>3. ASSUME NEW s \in SUBSET (1..u), s # {}
        PROVE  s \ {Max(s)} \in SUBSET (1..t) /\ s \ {Max(s)} \in SUBSET (1..u)
    <3>1. Max(s) \in s /\ \A y \in s : Max(s) >= y
      BY <2>3, MaxOfPrefix
    <3>2. ASSUME NEW y \in s \ {Max(s)} PROVE y \in 1..t
      <4>1. y \in 1..u /\ Max(s) \in 1..u /\ Max(s) >= y /\ y # Max(s)
        BY <3>1, <3>2
      <4> QED
        BY <2>2, <4>1
    <3> QED
      BY <3>2
  <2>4. \A s \in SUBSET (1..t) : s \in SUBSET (1..u) /\ more[s] = f[s]
    <3>1. SUBSET (1..t) \subseteq SUBSET (1..u)
      BY <2>2
    <3> QED
      BY <2>1, <3>1 DEF Pruned
  <2>5. \A s \in SUBSET (1..u) : s # {} => more[s \ {Max(s)}] = f[s \ {Max(s)}]
    BY <2>3, <2>4
  <2>6. Pruned(more, ids, base, u)
    BY <2>5 DEF Pruned
  <2> QED
    BY <2>2, <2>6
<1>3. \A t \in Nat : t \in Good
  <2>1. Good \subseteq Nat
    OBVIOUS
  <2> HIDE DEF Good
  <2> QED
    BY <1>1, <1>2, <2>1, EveryNatural
<1> QED
  BY <1>3

\* The links before each node is looked at, and after the last.
LEMMA StepByStep ==
    ASSUME NEW ids, NEW S, ids \in Seq(S), NEW base
    PROVE  \E f : /\ f[0] = base
                  /\ \A k \in 0..(Len(ids) - 1) : f[k + 1] = WithoutLoop(f[k], ids[k + 1])
                  /\ FoldLeft(WithoutLoop, base, ids) = f[Len(ids)]
<1> DEFINE top == Len(ids)
           g   == CHOOSE h : Pruned(h, ids, base, top)
           f   == [k \in 0..top |-> g[1..k]]
<1>1. top \in Nat /\ DOMAIN ids = 1..top
  BY LenProperties
<1>2. Pruned(g, ids, base, top)
  BY <1>1, PrunedExists
<1>3. FoldLeft(WithoutLoop, base, ids) = g[1..top]
  BY <1>1 DEF FoldLeft, MapThenFoldSet, Pruned
<1> HIDE DEF g
<1>4. f[0] = base
  <2>1. 1..0 = {} /\ 1..0 \in SUBSET (1..top) /\ 0 \in 0..top
    BY <1>1
  <2> QED
    BY <1>2, <2>1 DEF Pruned
<1>5. ASSUME NEW k \in 0..(top - 1)
      PROVE  f[k + 1] = WithoutLoop(f[k], ids[k + 1])
  <2>1. k \in Nat /\ k \in 0..top /\ k + 1 \in 0..top /\ 1..(k + 1) \in SUBSET (1..top)
    BY <1>1
  <2>2. g[1..(k + 1)] = WithoutLoop(g[(1..(k + 1)) \ {Max(1..(k + 1))}], ids[Max(1..(k + 1))])
    BY <1>2, <2>1, MaxIsLast DEF Pruned
  <2>3. g[1..(k + 1)] = WithoutLoop(g[1..k], ids[k + 1])
    BY <2>1, <2>2, MaxIsLast
  <2> QED
    BY <2>1, <2>3
<1>6. f[top] = g[1..top]
  BY <1>1
<1> QED
  BY <1>3, <1>4, <1>5, <1>6

\* The links of a map are of its cards, which are finitely many.
LEMMA CardsAreFinite ==
    ASSUME NEW g, NEW S, g.ids \in Seq(S)
    PROVE  IsFiniteSet(Nodes(g)) /\ IsFiniteSet(DOMAIN ChosenLinks(g))
           /\ DOMAIN ChosenLinks(g) \subseteq Nodes(g)
<1>1. PICK top \in Nat : DOMAIN g.ids = 1..top
  BY LenProperties
<1>2. IsFiniteSet(Nodes(g))
  <2>1. IsFiniteSet(1..top)
    BY FS_Interval
  <2>2. g.ids \in Surjection(1..top, Nodes(g))
    BY <1>1 DEF Nodes, Range, Surjection
  <2> QED
    BY <2>1, <2>2, FS_Surjection
<1>3. DOMAIN ChosenLinks(g) \subseteq Nodes(g)
  BY DEF ChosenLinks
<1> QED
  BY <1>2, <1>3, FS_Subset

\* Looking at a node leaves it its link unless the link leads round.
LEMMA OneLookedAt ==
    ASSUME NEW links, NEW n, NEW left, left = WithoutLoop(links, n)
    PROVE  /\ Fewer(left, links)
           /\ \A x \in DOMAIN links : x \in DOMAIN left \/ (x = n /\ ComesRound(links, n))
           /\ n \in DOMAIN left => ~ComesRound(links, n)
<1>1. CASE n \in DOMAIN links /\ ComesRound(links, n)
  BY <1>1 DEF WithoutLoop, Restrict, Fewer
<1>2. CASE ~(n \in DOMAIN links /\ ComesRound(links, n))
  BY <1>2 DEF WithoutLoop, Fewer
<1> QED
  BY <1>1, <1>2

\* OutlineIsForest, of whatever cards and links there are.
LEMMA PrunedIsForest ==
    ASSUME NEW chosen, IsFiniteSet(DOMAIN chosen), NEW ids, NEW S, ids \in Seq(S),
           DOMAIN chosen \subseteq Range(ids), NEW links, links = FoldLeft(WithoutLoop, chosen, ids)
    PROVE  /\ Fewer(links, chosen)
           /\ \A n \in DOMAIN links : ~ComesRound(links, n)
           /\ \A n \in DOMAIN chosen : n \in DOMAIN links \/ ComesRound(chosen, n)
<1> DEFINE top == Len(ids)
<1>1. top \in Nat /\ DOMAIN ids = 1..top
  BY LenProperties
<1>2. PICK f : /\ f[0] = chosen
               /\ \A k \in 0..(top - 1) : f[k + 1] = WithoutLoop(f[k], ids[k + 1])
               /\ links = f[top]
  BY StepByStep
<1> DEFINE Right(k) == /\ Fewer(f[k], chosen)
                       /\ \A i \in 1..k : ids[i] \in DOMAIN f[k] => ~ComesRound(f[k], ids[i])
                       /\ \A n \in DOMAIN chosen : n \in DOMAIN f[k] \/ ComesRound(chosen, n)
           Good == {k \in Nat : k <= top => Right(k)}
<1>3. Right(0)
  BY <1>2 DEF Fewer
<1>4. ASSUME NEW k \in 0..(top - 1), Right(k)
      PROVE  Right(k + 1)
  <2>1. PICK l, m : l = f[k] /\ m = f[k + 1]
    OBVIOUS
  <2>2. PICK n : n = ids[k + 1]
    OBVIOUS
  <2>3. m = WithoutLoop(l, n)
    BY <1>2, <2>1, <2>2
  <2>4. /\ Fewer(m, l)
        /\ \A x \in DOMAIN l : x \in DOMAIN m \/ (x = n /\ ComesRound(l, n))
        /\ n \in DOMAIN m => ~ComesRound(l, n)
    BY <2>3, OneLookedAt
  <2>5. /\ Fewer(l, chosen)
        /\ \A i \in 1..k : ids[i] \in DOMAIN l => ~ComesRound(l, ids[i])
        /\ \A x \in DOMAIN chosen : x \in DOMAIN l \/ ComesRound(chosen, x)
    BY <1>4, <2>1
  <2>6. IsFiniteSet(DOMAIN l)
    BY <2>5, FS_Subset DEF Fewer
  <2>7. Fewer(m, chosen)
    BY <2>4, <2>5 DEF Fewer
  <2>8. ASSUME NEW i \in 1..(k + 1), ids[i] \in DOMAIN m PROVE ~ComesRound(m, ids[i])
    <3>1. ids[i] \in DOMAIN l
      BY <2>4, <2>8 DEF Fewer
    <3>2. ~ComesRound(l, ids[i])
      <4>1. CASE i = k + 1
        BY <2>2, <2>4, <2>8, <4>1
      <4>2. CASE i # k + 1
        <5>1. i \in 1..k
          BY <4>2
        <5> QED
          BY <2>5, <3>1, <5>1
      <4> QED
        BY <4>1, <4>2
    <3> QED
      BY <2>4, <2>6, <3>2, RoundByFewer
  <2>9. \A x \in DOMAIN chosen : x \in DOMAIN m \/ ComesRound(chosen, x)
    <3>1. ComesRound(l, n) => ComesRound(chosen, n)
      BY <2>5, RoundByFewer
    <3> QED
      BY <2>4, <2>5, <3>1
  <2> QED
    BY <2>1, <2>7, <2>8, <2>9
<1>5. \A k \in Nat : k \in Good
  <2> HIDE DEF Right
  <2>1. 0 \in Good
    BY <1>3
  <2>2. \A k \in Good : k + 1 \in Good
    BY <1>1, <1>4
  <2>3. Good \subseteq Nat
    OBVIOUS
  <2> HIDE DEF Good
  <2> QED
    BY <2>1, <2>2, <2>3, EveryNatural
<1>6. Right(top)
  BY <1>1, <1>5
<1>7. \A n \in DOMAIN links : \E i \in 1..top : ids[i] = n
  BY <1>1, <1>2, <1>6 DEF Range, Fewer
<1> QED
  BY <1>2, <1>6, <1>7

LEMMA OutlineOfMap ==
    ASSUME NEW g, NEW S, g.ids \in Seq(S)
    PROVE  /\ Fewer(ParentLinks(g), ChosenLinks(g))
           /\ \A n \in DOMAIN ParentLinks(g) : ~ComesRound(ParentLinks(g), n)
           /\ \A n \in DOMAIN ChosenLinks(g) :
                 n \in DOMAIN ParentLinks(g) \/ ComesRound(ChosenLinks(g), n)
           /\ IsFiniteSet(DOMAIN ParentLinks(g))
<1>1. PICK chosen, links : /\ chosen = ChosenLinks(g)
                           /\ links = FoldLeft(WithoutLoop, chosen, g.ids)
  OBVIOUS
<1>2. links = ParentLinks(g)
  BY <1>1 DEF ParentLinks
<1>3. IsFiniteSet(DOMAIN chosen) /\ DOMAIN chosen \subseteq Range(g.ids)
  BY <1>1, CardsAreFinite DEF Nodes
<1>4. /\ Fewer(links, chosen)
      /\ \A n \in DOMAIN links : ~ComesRound(links, n)
      /\ \A n \in DOMAIN chosen : n \in DOMAIN links \/ ComesRound(chosen, n)
  BY <1>1, <1>3, PrunedIsForest
<1>5. IsFiniteSet(DOMAIN links)
  BY <1>3, <1>4, FS_Subset DEF Fewer
<1> QED
  BY <1>1, <1>2, <1>4, <1>5

\* OutlineIsForest: whatever cards are added and whatever edges are drawn or cut,
\* in whatever order they are held, no walk up the links comes round, no card
\* that hangs off something was given another parent than the first that is
\* best, and a card is only left out whose links would have led round.
THEOREM OutlineStaysForest == Spec => []OutlineIsForest
<1>1. IsMap(graph) => OutlineIsForest
  <2> SUFFICES ASSUME IsMap(graph) PROVE OutlineIsForest
    OBVIOUS
  <2>1. graph.ids \in Seq(Ids)
    BY DEF IsMap
  <2> QED
    BY <2>1, OutlineOfMap DEF OutlineIsForest, Fewer
<1> QED
  BY <1>1, MapStays, PTL

-----------------------------------------------------------------------------
(* The branches of a forest.                                                *)

\* Links that lead to a root from everywhere.
Forest(links) ==
    IsFiniteSet(DOMAIN links) /\ \A n \in DOMAIN links : ~ComesRound(links, n)

\* What is above a node is what a walk of any length comes to.
LEMMA AboveIs ==
    ASSUME NEW links, Forest(links), NEW n
    PROVE  \A a : a \in Above(links, n) <=> a # n /\ \E k \in Nat : a = Climb(links, n, k)
<1>1. PICK size \in Nat : size = Cardinality(DOMAIN links)
  BY FS_CardinalityType DEF Forest
<1>2. Climb(links, n, size) \notin DOMAIN links
  <2>1. CASE n \in DOMAIN links
    BY <1>1, <2>1 DEF Forest, ComesRound
  <2>2. CASE n \notin DOMAIN links
    BY <2>2, ClimbStep, StaysAtTheTop
  <2> QED
    BY <2>1, <2>2
<1>3. Above(links, n) = {Climb(links, n, k) : k \in 1..size} \ {n}
  BY <1>1 DEF Above
<1>4. ASSUME NEW k \in Nat, Climb(links, n, k) # n
      PROVE  \E j \in 1..size : Climb(links, n, j) = Climb(links, n, k)
  <2>1. k # 0
    BY <1>4, ClimbStep
  <2>2. CASE k <= size
    BY <2>1, <2>2
  <2>3. CASE k > size
    <3>1. Climb(links, n, k) = Climb(links, n, size)
      BY <1>2, <2>3, StaysAtTheTop
    <3>2. size # 0
      BY <1>4, <3>1, ClimbStep
    <3> QED
      BY <3>1, <3>2
  <2> QED
    BY <2>2, <2>3
<1>5. \A k \in 1..size : k \in Nat
  OBVIOUS
<1> QED
  BY <1>3, <1>4, <1>5

\* No walk comes back.
LEMMA NoWayBack ==
    ASSUME NEW links, Forest(links), NEW n, NEW k \in Nat, Climb(links, n, k) = n, k # 0
    PROVE  n \notin DOMAIN links
<1> SUFFICES ASSUME n \in DOMAIN links PROVE FALSE
  OBVIOUS
<1>1. Climb(links, n, 0) = n
  BY ClimbStep
<1>2. \A j \in Nat : Climb(links, n, j) \in DOMAIN links
  BY <1>1, RoundAndRound
<1> QED
  BY <1>2, ForEver DEF Forest

LEMMA AboveIsAnOrder ==
    ASSUME NEW links, Forest(links), NEW n
    PROVE  /\ \A q, a : q \in Above(links, n) \cup {n} /\ a \in Above(links, q)
                          => a \in Above(links, n) /\ q \notin Above(links, a)
           /\ \A q, r \in Above(links, n) \cup {n} :
                 q = r \/ q \in Above(links, r) \/ r \in Above(links, q)
<1>1. \A q \in Above(links, n) \cup {n} : \E k \in Nat : q = Climb(links, n, k)
  BY AboveIs, ClimbStep
<1>2. ASSUME NEW q, NEW a, q \in Above(links, n) \cup {n}, a \in Above(links, q)
      PROVE  a \in Above(links, n) /\ q \notin Above(links, a)
  <2>1. PICK i \in Nat, j \in Nat : q = Climb(links, n, i) /\ a = Climb(links, q, j) /\ a # q
    BY <1>1, <1>2, AboveIs
  <2>2. i + j \in Nat /\ a = Climb(links, n, i + j)
    BY <2>1, ClimbOn
  <2>3. j # 0
    BY <2>1, ClimbStep
  <2>4. q \in DOMAIN links
    <3> SUFFICES ASSUME q \notin DOMAIN links PROVE FALSE
      OBVIOUS
    <3>1. Climb(links, q, 0) = q
      BY ClimbStep
    <3>2. Climb(links, q, j) = q
      BY <3>1, StaysAtTheTop
    <3> QED
      BY <2>1, <3>2
  <2>5. q \notin Above(links, a)
    <3> SUFFICES ASSUME q \in Above(links, a) PROVE FALSE
      OBVIOUS
    <3>1. PICK m \in Nat : q = Climb(links, a, m)
      BY AboveIs
    <3>2. Climb(links, q, j + m) = Climb(links, Climb(links, q, j), m)
      BY ClimbOn
    <3>3. PICK s : s = j + m
      OBVIOUS
    <3>4. s \in Nat /\ s # 0
      BY <2>3, <3>3
    <3>5. Climb(links, q, s) = q
      BY <2>1, <3>1, <3>2, <3>3
    <3> QED
      BY <2>4, <3>4, <3>5, NoWayBack
  <2>6. a # n
    <3> SUFFICES ASSUME a = n PROVE FALSE
      OBVIOUS
    <3>1. q # n /\ q \in Above(links, n)
      BY <1>2, <2>1
    <3> QED
      BY <2>5, <3>1
  <2> QED
    BY <2>2, <2>5, <2>6, AboveIs
<1>3. ASSUME NEW q, NEW r, NEW i \in Nat, NEW j \in Nat, i <= j,
             q = Climb(links, n, i), r = Climb(links, n, j)
      PROVE  q = r \/ r \in Above(links, q)
  <2>1. PICK k \in Nat : i + k = j
    <3>1. j - i \in Nat /\ i + (j - i) = j
      BY <1>3
    <3> QED
      BY <3>1
  <2>2. r = Climb(links, q, k)
    <3>1. Climb(links, n, i + k) = Climb(links, Climb(links, n, i), k)
      BY ClimbOn
    <3> QED
      BY <1>3, <2>1, <3>1
  <2> QED
    BY <2>2, AboveIs
<1>4. ASSUME NEW q \in Above(links, n) \cup {n}, NEW r \in Above(links, n) \cup {n}
      PROVE  q = r \/ q \in Above(links, r) \/ r \in Above(links, q)
  <2>1. PICK i \in Nat, j \in Nat : q = Climb(links, n, i) /\ r = Climb(links, n, j)
    BY <1>1
  <2>2. i <= j \/ j <= i
    OBVIOUS
  <2> QED
    BY <1>3, <2>1, <2>2
<1> QED
  BY <1>2, <1>4

\* A card hangs off a card.
LEMMA ParentsAreCards ==
    ASSUME NEW g, NEW T, g.edges \in Seq(T), NEW n \in DOMAIN ChosenLinks(g)
    PROVE  ChosenLinks(g)[n].parent \in Nodes(g)
<1> DEFINE usable == {i \in DOMAIN g.edges :
                        /\ {g.edges[i].source, g.edges[i].target} \subseteq Nodes(g)
                        /\ g.edges[i].source # g.edges[i].target}
           off(m)   == {i \in usable : LinkOf(g, g.edges[i]).child = m}
           hier(m)  == {i \in off(m) : IsHierarchical(g.edges[i].rel)}
           some     == IF hier(n) # {} THEN hier(n) ELSE off(n)
<1>1. off(n) # {} /\ ChosenLinks(g)[n] = LinkOf(g, g.edges[Min(some)])
  BY DEF ChosenLinks
<1>2. some # {} /\ some \subseteq usable
  BY <1>1
<1>3. some \in SUBSET Nat
  <2>1. DOMAIN g.edges = 1..Len(g.edges) /\ Len(g.edges) \in Nat
    BY LenProperties
  <2> QED
    BY <1>2, <2>1
<1>4. Min(some) \in some
  <2> HIDE DEF some
  <2>1. \E x \in some : \A y \in some : x <= y
    BY <1>2, <1>3, Least
  <2> QED
    BY <2>1 DEF Min
<1>5. {g.edges[Min(some)].source, g.edges[Min(some)].target} \subseteq Nodes(g)
  BY <1>2, <1>4
<1>6. PICK e : e = g.edges[Min(some)]
  OBVIOUS
<1>7. LinkOf(g, e).parent \in {e.source, e.target}
  BY DEF LinkOf
<1> QED
  BY <1>1, <1>5, <1>6, <1>7

LEMMA PathsAreOfCards ==
    ASSUME NEW g, NEW S, g.ids \in Seq(S), NEW T, g.edges \in Seq(T), NEW n \in Nodes(g)
    PROVE  Above(ParentLinks(g), n) \subseteq Nodes(g)
<1> DEFINE links == ParentLinks(g)
<1>1. Forest(links) /\ \A x \in DOMAIN links : links[x].parent \in Nodes(g)
  BY OutlineOfMap, ParentsAreCards DEF Forest, Fewer
<1> HIDE DEF links
<1> DEFINE Good == {k \in Nat : Climb(links, n, k) \in Nodes(g)}
<1>2. \A k \in Nat : k \in Good
  <2>1. 0 \in Good
    BY ClimbStep
  <2>2. ASSUME NEW k \in Good
        PROVE  k + 1 \in Good
    <3>1. Climb(links, n, k + 1) = Up(links, Climb(links, n, k))
      BY ClimbStep
    <3> QED
      BY <1>1, <3>1 DEF Up
  <2>3. Good \subseteq Nat
    OBVIOUS
  <2> HIDE DEF Good
  <2> QED
    BY <2>1, <2>2, <2>3, EveryNatural
<1>3. \A a \in Above(links, n) : a \in Nodes(g)
  BY <1>1, <1>2, AboveIs
<1> QED
  BY <1>3 DEF links

\* ScopeIsTheLiveBranches: "Open questions" finds its branches by the questions
\* at their tops, downwards.  What it keeps is what is seen from each card
\* upwards: the topmost question on its path has no resolved answer.
THEOREM ScopeStaysLive == Spec => []ScopeIsTheLiveBranches
<1>1. ASSUME IsMap(graph)
      PROVE  ScopeIsTheLiveBranches
  <2> DEFINE links   == ParentLinks(graph)
             path(n) == Above(links, n) \cup {n}
             asks(n) == graph.type[n] = "question"
             tops(n) == {q \in path(n) : asks(q) /\ \A r \in path(n) :
                                            asks(r) => q = r \/ q \in Above(links, r)}
             settled(q) == \E i \in DOMAIN graph.ids :
                              LET c == graph.ids[i]
                              IN /\ c \in DOMAIN links /\ links[c].parent = q
                                 /\ graph.type[c] = "idea" /\ graph.status[c] = "resolved"
             Keeps(n) == \E q \in RootQuestions(graph, links) :
                            IsQuestionOpen(graph, links, q) /\ n \in Subtree(graph, links, q)
  <2>1. graph.ids \in Seq(Ids) /\ \E T : graph.edges \in Seq(T)
    BY <1>1 DEF IsMap
  <2>2. Forest(links)
    BY <2>1, OutlineOfMap DEF Forest
  <2>3. \A n \in Nodes(graph) : path(n) \subseteq Nodes(graph)
    BY <2>1, PathsAreOfCards
  <2>4. \A q : IsQuestionOpen(graph, links, q) <=> ~settled(q)
    BY DEF IsQuestionOpen, HangsOff, Nodes, Range
  <2>5. OpenQuestionScope(graph) = {n \in Nodes(graph) : Keeps(n)}
    BY DEF OpenQuestionScope, Subtree
  <2> HIDE DEF links, settled
  <2>6. ASSUME NEW n \in Nodes(graph), NEW q
        PROVE  q \in RootQuestions(graph, links) /\ n \in Subtree(graph, links, q)
                  <=> q \in tops(n)
    <3>1. n \in Subtree(graph, links, q) <=> q \in path(n)
      BY DEF Subtree
    <3>2. ASSUME q \in path(n), q \in RootQuestions(graph, links), NEW r \in path(n), asks(r)
          PROVE  q = r \/ q \in Above(links, r)
      <4>1. r \notin Above(links, q)
        BY <3>2 DEF RootQuestions
      <4> QED
        BY <2>2, <3>2, <4>1, AboveIsAnOrder
    <3>3. ASSUME q \in tops(n)
          PROVE  q \in RootQuestions(graph, links)
      <4>1. q \in Nodes(graph) /\ asks(q) /\ q \in path(n)
        BY <2>3, <3>3
      <4>2. ASSUME NEW a \in Above(links, q), asks(a)
            PROVE  FALSE
        <5>1. a \in path(n) /\ q \notin Above(links, a)
          BY <2>2, <4>1, AboveIsAnOrder
        <5>2. q = a
          BY <3>3, <4>2, <5>1
        <5> QED
          BY <2>2, <4>2, <5>2, AboveIs
      <4> QED
        BY <4>1, <4>2 DEF RootQuestions
    <3>4. q \in RootQuestions(graph, links) => asks(q)
      BY DEF RootQuestions
    <3> QED
      BY <3>1, <3>2, <3>3, <3>4
  <2>7. \A n \in Nodes(graph) : Keeps(n) <=> \E q \in tops(n) : ~settled(q)
    BY <2>4, <2>6
  <2>8. OpenQuestionScope(graph) = {n \in Nodes(graph) : \E q \in tops(n) : ~settled(q)}
    BY <2>5, <2>7
  <2> QED
    BY <2>8 DEF ScopeIsTheLiveBranches, links, settled
<1> QED
  BY <1>1, MapStays, PTL
=============================================================================
