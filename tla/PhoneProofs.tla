---------------------------- MODULE PhoneProofs ----------------------------
(***************************************************************************)
(* The phone's state stays well-formed, its list of results belongs to a   *)
(* query, the reply it sends is one the grammar allows for the row that    *)
(* was tapped, whoever is followed is on the map in view, and the feed and *)
(* its marks follow the database unless an answer was overtaken: for any   *)
(* maps, nodes, queries and participants.                                  *)
(***************************************************************************)
EXTENDS Phone, SequenceTheorems, TLAPS

-----------------------------------------------------------------------------
(* Sequences. *)

LEMMA RemoveAtKeeps ==
    ASSUME NEW S, NEW s \in Seq(S), NEW i \in DOMAIN s
    PROVE  RemoveAt(s, i) \in Seq(S)
<1>1. i \in 1..Len(s)
  OBVIOUS
<1>2. SubSeq(s, 1, i - 1) \in Seq(S)
  BY <1>1
<1>3. SubSeq(s, i + 1, Len(s)) \in Seq(S)
  BY <1>1
<1> QED
  BY <1>2, <1>3 DEF RemoveAt

LEMMA SeqGrows ==
    ASSUME NEW S, NEW T, S \subseteq T, NEW s \in Seq(S)
    PROVE  s \in Seq(T)
OBVIOUS

LEMMA RewrittenSeq ==
    ASSUME NEW S, NEW T, NEW s \in Seq(S), NEW f, DOMAIN f = DOMAIN s,
           f = [i \in DOMAIN s |-> f[i]], \A i \in DOMAIN s : f[i] \in T
    PROVE  f \in Seq(T)
<1>1. DOMAIN s = 1..Len(s) /\ Len(s) \in Nat
  OBVIOUS
<1>2. f \in [1..Len(s) -> T]
  BY <1>1
<1> QED
  BY <1>1, <1>2

\* A set of few indices has a least one.
LEMMA LeastOfFour ==
    ASSUME NEW hits \in SUBSET (1..4), hits # {}
    PROVE  (CHOOSE i \in hits : \A j \in hits : i <= j) \in hits
<1>1. \E i \in hits : \A j \in hits : i <= j
  <2>1. CASE 1 \in hits
    BY <2>1, SMT
  <2>2. CASE 1 \notin hits /\ 2 \in hits
    BY <2>2, SMT
  <2>3. CASE 1 \notin hits /\ 2 \notin hits /\ 3 \in hits
    BY <2>3, SMT
  <2>4. CASE 1 \notin hits /\ 2 \notin hits /\ 3 \notin hits /\ 4 \in hits
    BY <2>4, SMT
  <2>5. PICK i \in hits : i \in 1..4
    OBVIOUS
  <2>6. 1 \in hits \/ 2 \in hits \/ 3 \in hits \/ 4 \in hits
    BY <2>5
  <2> QED
    BY <2>1, <2>2, <2>3, <2>4, <2>6
<1> QED
  BY <1>1

LEMMA UpToFour ==
    ASSUME NEW S, NEW s \in Seq(S), NEW r \in Seq(S), Len(s) \in 1..2, Len(r) = 2
    PROVE  s \o r \in Seq(S) /\ Len(s \o r) \in 1..4
<1>1. s \o r \in Seq(S) /\ Len(s \o r) = Len(s) + Len(r)
  BY ConcatProperties
<1> QED
  BY <1>1

-----------------------------------------------------------------------------
(* The moves on offer. *)

Moves == [type : NodeTypes, rel : Relationships]
LegalMoves(t) == {m \in Moves : t = Nil \/ ValidateEdge(m.type, t, m.rel)}

LEMMA MovesAreLegal ==
    ASSUME NEW t \in NodeTypes \cup {Nil}
    PROVE  MovesFor(t) \in Seq(LegalMoves(t)) /\ Len(MovesFor(t)) \in 1..4
<1> DEFINE raise == <<Move("question", "questions"), Move("note", "relates_to")>>
<1>1. /\ Move("question", "questions") \in LegalMoves(t)
      /\ Move("note", "relates_to") \in LegalMoves(t)
  BY DEF Move, LegalMoves, Moves, ValidateEdge, Rules, Rule, NodeTypes, Relationships
<1>2. raise \in Seq(LegalMoves(t)) /\ Len(raise) = 2
  BY <1>1
<1>3. CASE t = Nil \/ t = "note"
  <2>1. MovesFor(t) = raise
    BY <1>3, NilIsNothing DEF MovesFor, NodeTypes
  <2> QED
    BY <1>2, <2>1
<1>4. CASE t = "question"
  <2>1. MovesFor(t) = <<Move("idea", "responds_to")>> \o raise
    BY <1>4, NilIsNothing DEF MovesFor, NodeTypes
  <2>2. Move("idea", "responds_to") \in LegalMoves(t)
    BY <1>4 DEF Move, LegalMoves, Moves, ValidateEdge, Rules, Rule, NodeTypes, Relationships
  <2>3. <<Move("idea", "responds_to")>> \in Seq(LegalMoves(t))
    BY <2>2
  <2>4. Len(<<Move("idea", "responds_to")>>) \in 1..2
    OBVIOUS
  <2> HIDE DEF raise
  <2> QED
    BY <1>2, <2>1, <2>3, <2>4, UpToFour
<1>5. CASE t \in {"idea", "map", "pro", "con"}
  <2> DEFINE for == Move("pro", "supports")
             against == Move("con", "objects_to")
  <2>1. MovesFor(t) = <<for, against>> \o raise \/ MovesFor(t) = <<against, for>> \o raise
    BY <1>5, NilIsNothing DEF MovesFor, NodeTypes
  <2>2. for \in LegalMoves(t) /\ against \in LegalMoves(t)
    BY <1>5 DEF Move, LegalMoves, Moves, ValidateEdge, Rules, Rule, NodeTypes, Relationships
  <2> HIDE DEF for, against
  <2>3. /\ <<for, against>> \in Seq(LegalMoves(t)) /\ Len(<<for, against>>) \in 1..2
        /\ <<against, for>> \in Seq(LegalMoves(t)) /\ Len(<<against, for>>) \in 1..2
    BY <2>2
  <2> HIDE DEF raise
  <2> QED
    BY <1>2, <2>1, <2>3, UpToFour
<1> QED
  BY <1>3, <1>4, <1>5 DEF NodeTypes

\* What is chosen is one of them, and of the kind that was asked for if any is.
LEMMA ChoiceIsOffered ==
    ASSUME NEW t \in NodeTypes \cup {Nil}, NEW k
    PROVE  /\ ChoiceOf(t, k) \in LegalMoves(t)
           /\ ChoiceOf(t, k) \in Range(MovesFor(t))
           /\ \A m \in Range(MovesFor(t)) : m.type = k => ChoiceOf(t, k).type = k
<1> DEFINE moves == MovesFor(t)
           hits  == {i \in DOMAIN moves : moves[i].type = k}
           least == CHOOSE i \in hits : \A j \in hits : i <= j
<1>1. moves \in Seq(LegalMoves(t)) /\ Len(moves) \in 1..4
  BY MovesAreLegal
<1>2. DOMAIN moves \subseteq 1..4 /\ 1 \in DOMAIN moves
  BY <1>1
<1>3. hits # {} => least \in hits
  BY <1>2, LeastOfFour
<1>4. ChoiceOf(t, k) = moves[IF hits = {} THEN 1 ELSE least]
  BY DEF ChoiceOf
<1>5. (IF hits = {} THEN 1 ELSE least) \in DOMAIN moves
  BY <1>2, <1>3
<1> HIDE DEF moves
<1>6. ChoiceOf(t, k) \in LegalMoves(t)
  BY <1>1, <1>4, <1>5
<1>7. ChoiceOf(t, k) \in Range(moves)
  BY <1>4, <1>5 DEF Range
<1>8. ASSUME NEW m \in Range(moves), m.type = k
      PROVE  ChoiceOf(t, k).type = k
  <2>1. hits # {}
    BY <1>8 DEF Range
  <2> QED
    BY <2>1, <1>3, <1>4
<1> QED
  BY <1>6, <1>7, <1>8 DEF moves

\* The kind a reply starts with is the one that is chosen.
LEMMA FirstIsChosen ==
    ASSUME NEW t \in NodeTypes \cup {Nil}
    PROVE  ChoiceOf(t, MovesFor(t)[1].type).type = MovesFor(t)[1].type
<1>1. 1 \in DOMAIN MovesFor(t)
  BY MovesAreLegal
<1>2. MovesFor(t)[1] \in Range(MovesFor(t))
  BY <1>1 DEF Range
<1> QED
  BY <1>2, ChoiceIsOffered

-----------------------------------------------------------------------------
(* The invariant, part by part. *)

Known == {n \in Nodes : type[n] # Nil}

\* A row is of a node there is; the type it has is one the node had.
KnownRow == [node : Known, type : NodeTypes]

Asked == [map : Maps, got : (SUBSET KnownRow) \cup {Nil}, at : Nat, old : BOOLEAN]
Found == [q : Queries, got : (SUBSET KnownRow) \cup {Nil}, off : BOOLEAN]
Frame == [type : {"change", "presence"}, peer : Peers \cup {Nil}]
Post  == [parent : KnownRow \cup {Nil}, move : Moves, map : Maps,
          state : {"sent", "accepted", "refused"}]

Database ==
    /\ type \in [Nodes -> NodeTypes \cup {Nil}]
    /\ where \in [Maps -> SUBSET Known]
    /\ commits \in Nat
    /\ peer \in Peers

Feed ==
    /\ mapId \in Maps \cup {Nil}
    /\ feed \subseteq KnownRow
    /\ seen = Nil \/ seen \subseteq Known
    /\ asks \in Seq(Asked)
    /\ crossed \in BOOLEAN /\ tainted \in BOOLEAN

\* Frames come by a socket, and a socket is for a map.
Socket ==
    /\ live \in BOOLEAN /\ following \in BOOLEAN /\ stirred \in BOOLEAN
    /\ inbox \in Seq(Frame)
    /\ inbox # <<>> => live
    /\ live => mapId \in Maps
    /\ roster \in Peers \cup {Nil}

\* A request that was not called off is about what is typed.
Searching ==
    /\ query \in Queries \cup {Empty}
    /\ results = Nil \/ results \subseteq KnownRow
    /\ results # Nil => query # Empty
    /\ due \in BOOLEAN
    /\ due => query # Empty
    /\ finds \in Seq(Found)
    /\ \A i \in DOMAIN finds : ~finds[i].off => finds[i].q = query /\ query # Empty

\* The kind is the one that is chosen for a reply; a post is a legal one.
KindFits(r, k) == r \in KnownRow \cup {Nil} /\ k = ChoiceOf(TypeOfReply(r), k).type
PostFits(p) ==
    \/ p = Nil
    \/ /\ p \in Post
       /\ p.move \in LegalMoves(TypeOfReply(p.parent))

Replying == KindFits(replyTo, kind) /\ PostFits(posting)

PhoneInv == Database /\ Feed /\ Socket /\ Searching /\ Replying

LEMMA InvAtFirst == Init => PhoneInv
<1> SUFFICES ASSUME Init PROVE PhoneInv
  OBVIOUS
<1>1. Database
  BY PhoneAssumption, NilIsNothing DEF Init, Database, Known
<1>2. Feed
  BY EmptySeq DEF Init, Feed
<1>3. Socket
  BY EmptySeq DEF Init, Socket
<1>4. Searching
  <2>1. finds \in Seq(Found) /\ DOMAIN finds = {}
    BY EmptySeq DEF Init
  <2> QED
    BY <2>1 DEF Init, Searching
<1>5. Replying
  BY FirstIsChosen DEF Init, Replying, KindFits, PostFits, TypeOfReply, FirstKind
<1> QED
  BY <1>1, <1>2, <1>3, <1>4, <1>5 DEF PhoneInv

-----------------------------------------------------------------------------
(* The database only learns of nodes. *)

\* A node that is there stays there: a post gives a type to one that had none,
\* and a node that is retyped has another one.
LEMMA TypesOnlyGrow ==
    ASSUME Database, Replying, [Next]_vars
    PROVE  /\ type' \in [Nodes -> NodeTypes \cup {Nil}]
           /\ Known \subseteq Known'
           /\ KnownRow \subseteq KnownRow'
<1>0. Known \subseteq Known' => KnownRow \subseteq KnownRow'
  BY DEF KnownRow
<1>1. CASE PostServed
  <2>1. CASE type' = type
    BY <1>0, <2>1 DEF Database, Known
  <2>2. CASE \E n \in Mine : type[n] = Nil /\ type' = [type EXCEPT ![n] = posting.move.type]
    <3>1. PICK n \in Mine : type[n] = Nil /\ type' = [type EXCEPT ![n] = posting.move.type]
      BY <2>2
    <3>2. posting.move.type \in NodeTypes /\ n \in Nodes
      BY <1>1, PhoneAssumption DEF PostServed, Replying, PostFits, Post, Moves
    <3> QED
      BY <1>0, <3>1, <3>2 DEF Database, Known
  <2> QED
    BY <1>0, <1>1, <2>1, <2>2 DEF PostServed
<1>2. CASE OthersRetype
  <2>1. PICK n \in Nodes, ty \in Retypes : type' = [type EXCEPT ![n] = ty]
    BY <1>2 DEF OthersRetype
  <2>2. ty \in NodeTypes /\ ty # Nil
    BY NilIsNothing, PhoneAssumption
  <2> QED
    BY <1>0, <2>1, <2>2 DEF Database, Known
<1>3. CASE ~PostServed /\ ~OthersRetype
  <2>1. type' = type
    BY <1>3 DEF Next, FeedAnswers, SearchAnswers, PostAnswers, Gestures, Elsewhere,
                Bootstrap, Connect, Receive, FollowEffect, SearchSent, GraphServed,
                GraphAnswered, SearchServed, SearchAnswered, PostAnswered, PickMap, Type,
                Tap, ClearReply, PickKind, Submit, ToggleFollow, OthersAdd, OthersRemove,
                PeerMoves, Disconnect, PostRefused, GraphFails, SearchFails, vars, world
  <2> QED
    BY <1>0, <2>1 DEF Database, Known
<1> QED
  BY <1>1, <1>2, <1>3

LEMMA DatabaseStep ==
    ASSUME PhoneInv, [Next]_vars
    PROVE  Database'
<1> USE DEF PhoneInv, Database
<1>1. /\ type' \in [Nodes -> NodeTypes \cup {Nil}]
      /\ Known \subseteq Known'
  BY TypesOnlyGrow
<1>2. where \in [Maps -> SUBSET Known']
  BY <1>1
<1>3. CASE PostServed
  <2>1. CASE where' = where /\ commits' = commits
    BY <1>1, <1>2, <1>3, <2>1 DEF PostServed
  <2>2. CASE \E n \in Mine : /\ type[n] = Nil
                             /\ type' = [type EXCEPT ![n] = posting.move.type]
                             /\ where' = [where EXCEPT ![posting.map] = @ \cup {n}]
                             /\ commits' = commits + 1
    <3>1. PICK n \in Mine : /\ type' = [type EXCEPT ![n] = posting.move.type]
                            /\ where' = [where EXCEPT ![posting.map] = @ \cup {n}]
      BY <2>2
    <3>2. n \in Nodes /\ posting.move.type \in NodeTypes
      BY <1>3, PhoneAssumption DEF PostServed, Replying, PostFits, Post, Moves
    <3>3. n \in Known'
      BY <3>1, <3>2, NilIsNothing DEF Known
    <3>4. where' \in [Maps -> SUBSET Known']
      BY <1>2, <3>1, <3>3
    <3> QED
      BY <1>1, <1>3, <2>2, <3>4 DEF PostServed
  <2> QED
    BY <1>3, <2>1, <2>2 DEF PostServed
<1>4. CASE OthersAdd
  <2>1. where' \in [Maps -> SUBSET Known']
    BY <1>1, <1>2, <1>4 DEF OthersAdd, Known
  <2> QED
    BY <1>1, <1>4, <2>1 DEF OthersAdd
<1>5. CASE OthersRemove
  BY <1>1, <1>2, <1>5 DEF OthersRemove
<1>6. CASE PeerMoves
  BY <1>1, <1>2, <1>6 DEF PeerMoves
<1>7. CASE UNCHANGED world
  BY <1>1, <1>2, <1>7 DEF world
<1>8. CASE OthersRetype
  BY <1>1, <1>2, <1>8 DEF OthersRetype
<1>9. ~(PostServed \/ OthersAdd \/ OthersRemove \/ OthersRetype \/ PeerMoves)
         => UNCHANGED world
  BY DEF Next, FeedAnswers, SearchAnswers, PostAnswers, Gestures, Elsewhere, Bootstrap,
         Connect, Receive, FollowEffect, SearchSent, GraphServed, GraphAnswered,
         SearchServed, SearchAnswered, PostAnswered, PickMap, Type, Tap, ClearReply,
         PickKind, Submit, ToggleFollow, Disconnect, PostRefused, GraphFails, SearchFails,
         vars, world
<1> QED
  BY <1>3, <1>4, <1>5, <1>6, <1>7, <1>8, <1>9

-----------------------------------------------------------------------------
(* The feed. *)

\* What is read of the database are rows of nodes there are.
LEMMA RowsAreKnown ==
    ASSUME Database, NEW ns \in SUBSET Known
    PROVE  RowsOf(ns) \subseteq KnownRow
<1>1. ASSUME NEW n \in ns PROVE [node |-> n, type |-> type[n]] \in KnownRow
  BY DEF Database, Known, KnownRow
<1> QED
  BY <1>1 DEF RowsOf

LEMMA NodesAreKnown ==
    ASSUME NEW rows \in SUBSET KnownRow
    PROVE  NodesOf(rows) \subseteq Known
BY DEF NodesOf, KnownRow

LEMMA NodesOfRows ==
    ASSUME NEW ns
    PROVE  NodesOf(RowsOf(ns)) = ns
<1>1. ASSUME NEW n \in ns PROVE n \in NodesOf(RowsOf(ns))
  <2>1. [node |-> n, type |-> type[n]] \in RowsOf(ns)
    BY <1>1 DEF RowsOf
  <2> QED
    BY <2>1 DEF NodesOf
<1>2. ASSUME NEW n \in NodesOf(RowsOf(ns)) PROVE n \in ns
  <2>1. PICK row \in RowsOf(ns) : n = row.node
    BY <1>2 DEF NodesOf
  <2> QED
    BY <2>1 DEF RowsOf
<1> QED
  BY <1>1, <1>2

\* A request that is made, and those that are made older by it.
LEMMA RequestsMade ==
    ASSUME Database', asks \in Seq(Asked'), NEW m \in Maps
    PROVE  /\ Older \in Seq(Asked')
           /\ Append(asks, Ask(m)) \in Seq(Asked')
           /\ Append(Older, Ask(m)) \in Seq(Asked')
           /\ Append(asks, [Ask(m) EXCEPT !.old = m # mapId]) \in Seq(Asked')
<1>1. Ask(m) \in Asked' /\ [Ask(m) EXCEPT !.old = m # mapId] \in Asked'
  BY DEF Ask, NotYet, Asked
<1>2. \A i \in DOMAIN asks : asks[i] \in Asked'
  OBVIOUS
<1>3. \A i \in DOMAIN asks : [asks[i] EXCEPT !.old = TRUE] \in Asked'
  BY <1>2 DEF Asked
<1>4. Older \in Seq(Asked')
  BY <1>3, RewrittenSeq DEF Older
<1> HIDE DEF Asked
<1> QED
  BY <1>1, <1>4

LEMMA FeedStep ==
    ASSUME PhoneInv, [Next]_vars, Database'
    PROVE  Feed'
<1> USE DEF PhoneInv, Feed
<1>1. Known \subseteq Known' /\ KnownRow \subseteq KnownRow'
  BY TypesOnlyGrow DEF PhoneInv
<1>2. Asked \subseteq Asked'
  BY <1>1 DEF Asked
<1>3. asks \in Seq(Asked')
  BY <1>2, SeqGrows
<1>4. feed \subseteq KnownRow' /\ (seen = Nil \/ seen \subseteq Known')
  BY <1>1
<1>5. \A i \in DOMAIN asks : RemoveAt(asks, i) \in Seq(Asked')
  BY <1>3, RemoveAtKeeps
<1>6. \A i \in DOMAIN asks : asks[i] \in Asked
  OBVIOUS
<1>7. ASSUME NEW m \in Maps, OpenOn(m), UNCHANGED <<feed, crossed>>
      PROVE  Feed'
  BY <1>3, <1>4, <1>7, RequestsMade DEF OpenOn, Baseline
<1>8. CASE Bootstrap
  BY <1>7, <1>8 DEF Bootstrap
<1>9. CASE PickMap
  BY <1>7, <1>9 DEF PickMap
<1>10. CASE FollowEffect
  <2>1. CASE following /\ OnAnotherMap
    <3>1. roster.map \in Maps
      BY <2>1, PhoneAssumption DEF Socket, OnAnotherMap
    <3> QED
      BY <1>7, <1>10, <2>1, <3>1 DEF FollowEffect
  <2>2. CASE ~(following /\ OnAnotherMap)
    BY <1>3, <1>4, <1>10, <2>2 DEF FollowEffect
  <2> QED
    BY <2>1, <2>2
<1>11. CASE Receive
  <2>1. mapId \in Maps
    BY <1>11 DEF Receive, Socket
  <2>2. asks' \in Seq(Asked')
    BY <1>3, <1>11, <2>1, RequestsMade DEF Receive
  <2> QED
    BY <1>4, <1>11, <2>2 DEF Receive
<1>12. ASSUME NEW i \in DOMAIN asks, GraphServed(i) PROVE Feed'
  <2>1. asks[i].map \in Maps
    BY <1>6 DEF Asked
  <2>2. RowsOf(where[asks[i].map]) \in SUBSET KnownRow' /\ commits \in Nat
    BY <1>1, <2>1, RowsAreKnown DEF Database
  <2>3. \A j \in DOMAIN asks : asks'[j] \in Asked'
    BY <1>2, <1>6, <1>12, <2>2 DEF GraphServed, Asked
  <2>4. asks' \in Seq(Asked')
    BY <1>12, <2>3, RewrittenSeq DEF GraphServed
  <2> QED
    BY <1>4, <1>12, <2>4 DEF GraphServed
<1>13. ASSUME NEW i \in DOMAIN asks, GraphAnswered(i) PROVE Feed'
  <2>1. asks[i].got \subseteq KnownRow /\ asks[i].old \in BOOLEAN
    BY <1>6, <1>13 DEF GraphAnswered, NotYet, Asked
  <2>2. NodesOf(asks[i].got) \subseteq Known'
    BY <1>1, <2>1, NodesAreKnown
  <2> QED
    BY <1>1, <1>4, <1>5, <1>13, <2>1, <2>2 DEF GraphAnswered, Late
<1>14. ASSUME NEW i \in DOMAIN asks, GraphFails(i) PROVE Feed'
  BY <1>4, <1>5, <1>14 DEF GraphFails
<1>15. CASE PostAnswered
  <2>1. posting.map \in Maps
    BY <1>15 DEF PostAnswered, Replying, PostFits, Post
  <2> QED
    BY <1>3, <1>4, <1>15, <2>1, RequestsMade DEF PostAnswered
<1>16. CASE UNCHANGED <<mapId, feed, seen, asks, crossed, tainted>>
  BY <1>3, <1>4, <1>16
<1>17. \/ Bootstrap \/ PickMap \/ FollowEffect \/ Receive \/ PostAnswered
       \/ \E i \in DOMAIN asks : GraphServed(i) \/ GraphAnswered(i) \/ GraphFails(i)
       \/ UNCHANGED <<mapId, feed, seen, asks, crossed, tainted>>
  BY DEF Next, FeedAnswers, SearchAnswers, PostAnswers, Gestures, Elsewhere, Connect,
         SearchSent, SearchServed, SearchAnswered, PostServed, Type, Tap, ClearReply,
         PickKind, Submit, ToggleFollow, OthersAdd, OthersRemove, OthersRetype, PeerMoves, Disconnect,
         PostRefused, SearchFails, vars, screen
<1> QED
  BY <1>8, <1>9, <1>10, <1>11, <1>12, <1>13, <1>14, <1>15, <1>16, <1>17

-----------------------------------------------------------------------------
(* The socket, and who is followed. *)

\* What is published reaches a socket that is up.
LEMMA FramesArrive ==
    ASSUME Socket, NEW f \in Frame, Publish(<<f>>)
    PROVE  inbox' \in Seq(Frame) /\ (inbox' # <<>> => live)
<1>1. CASE live
  <2> HIDE DEF Frame
  <2>1. inbox \in Seq(Frame) /\ <<f>> \in Seq(Frame)
    BY DEF Socket
  <2>2. inbox \o <<f>> \in Seq(Frame)
    BY <2>1, ConcatProperties
  <2> QED
    BY <1>1, <2>2 DEF Publish
<1>2. CASE ~live
  BY <1>2 DEF Publish, Socket
<1> QED
  BY <1>1, <1>2

LEMMA SocketStep ==
    ASSUME PhoneInv, [Next]_vars, Database'
    PROVE  Socket'
<1> USE DEF PhoneInv, Socket
<1>1. Change \in Frame /\ \A p \in Peers : Roster(p) \in Frame
  BY DEF Change, Roster, Frame
<1>2. ASSUME NEW m \in Maps, OpenOn(m), roster' = roster,
             following' \in BOOLEAN, stirred' \in BOOLEAN
      PROVE  Socket'
  BY <1>2, EmptySeq DEF OpenOn
<1>3. CASE Bootstrap
  BY <1>2, <1>3 DEF Bootstrap, follow
<1>4. CASE PickMap
  BY <1>2, <1>4 DEF PickMap, Stirs
<1>5. CASE FollowEffect
  <2>1. following' \in BOOLEAN /\ stirred' \in BOOLEAN /\ roster' = roster
    BY <1>5 DEF FollowEffect, StirredAgain
  <2>2. CASE following /\ OnAnotherMap
    <3>1. roster.map \in Maps
      BY <2>2, PhoneAssumption DEF OnAnotherMap
    <3> QED
      BY <1>2, <1>5, <2>1, <2>2, <3>1 DEF FollowEffect
  <2>3. CASE ~(following /\ OnAnotherMap)
    BY <1>5, <2>1, <2>3 DEF FollowEffect
  <2> QED
    BY <2>2, <2>3
<1>6. CASE Connect
  <2>1. Roster(peer) \in Frame
    BY <1>1 DEF Database
  <2> HIDE DEF Frame
  <2>2. <<Change, Roster(peer)>> \in Seq(Frame)
    BY <1>1, <2>1
  <2>3. inbox' \in Seq(Frame) /\ live' = TRUE /\ mapId' \in Maps
    BY <1>6, <2>2 DEF Connect, screen, Feed
  <2> QED
    BY <1>6, <2>3 DEF Connect, follow
<1>7. CASE Receive
  <2> HIDE DEF Frame
  <2>1. Head(inbox) \in Frame /\ Tail(inbox) \in Seq(Frame)
    BY <1>7, HeadTailProperties DEF Receive
  <2>2. Head(inbox).peer \in Peers \cup {Nil}
    BY <2>1 DEF Frame
  <2>3. live /\ mapId \in Maps
    BY <1>7 DEF Receive
  <2> QED
    BY <1>7, <2>1, <2>2, <2>3 DEF Receive
<1>8. CASE Disconnect
  BY <1>8, EmptySeq DEF Disconnect, screen, follow
<1>9. CASE PostServed
  <2>1. CASE inbox' = inbox
    BY <1>9, <2>1 DEF PostServed, screen, follow
  <2>2. CASE Publish(<<Change>>)
    BY <1>1, <1>9, <2>2, FramesArrive DEF PostServed, screen, follow
  <2> QED
    BY <1>9, <2>1, <2>2 DEF PostServed
<1>10. CASE OthersAdd \/ OthersRemove \/ OthersRetype
  <2>1. Publish(<<Change>>) /\ UNCHANGED <<screen, live, roster, follow>>
    BY <1>10 DEF OthersAdd, OthersRemove, OthersRetype
  <2> QED
    BY <1>1, <2>1, FramesArrive DEF screen, follow
<1>11. CASE PeerMoves
  <2>1. PICK p \in Peers : Publish(<<Roster(p)>>)
    BY <1>11 DEF PeerMoves
  <2> QED
    BY <1>1, <1>11, <2>1, FramesArrive DEF PeerMoves, screen, follow
<1>12. CASE Tap \/ ToggleFollow
  <2>1. following' \in BOOLEAN /\ stirred' \in BOOLEAN
    BY <1>12 DEF Tap, ToggleFollow
  <2>2. UNCHANGED <<mapId, live, inbox, roster>>
    BY <1>12 DEF Tap, ToggleFollow, screen, socket
  <2> QED
    BY <2>1, <2>2
<1>13. CASE UNCHANGED <<mapId, live, inbox, roster, following, stirred>>
  BY <1>13
<1>14. \/ Bootstrap \/ PickMap \/ FollowEffect \/ Connect \/ Receive \/ Disconnect
       \/ PostServed \/ OthersAdd \/ OthersRemove \/ OthersRetype \/ PeerMoves
       \/ Tap \/ ToggleFollow
       \/ UNCHANGED <<mapId, live, inbox, roster, following, stirred>>
  BY DEF Next, FeedAnswers, SearchAnswers, PostAnswers, Gestures, Elsewhere, SearchSent,
         GraphServed, GraphAnswered, SearchServed, SearchAnswered, PostAnswered, Type,
         ClearReply, PickKind, Submit, PostRefused, GraphFails, SearchFails, vars, screen,
         socket, follow
<1> QED
  BY <1>3, <1>4, <1>5, <1>6, <1>7, <1>8, <1>9, <1>10, <1>11, <1>12, <1>13, <1>14

-----------------------------------------------------------------------------
(* The search. *)

\* Another query calls off the searches under way; an empty one waits for none.
LEMMA QuerySet ==
    ASSUME Searching, finds \in Seq(Found'), NEW q \in Queries \cup {Empty}, SetQuery(q)
    PROVE  /\ query' = q
           /\ due' \in BOOLEAN /\ (due' => q # Empty)
           /\ finds' \in Seq(Found')
           /\ \A i \in DOMAIN finds' : ~finds'[i].off => finds'[i].q = q /\ q # Empty
<1>1. query' = q /\ due' = (q # Empty)
  BY DEF SetQuery
<1>2. CASE q = query
  BY <1>1, <1>2 DEF SetQuery, Searching
<1>3. CASE q # query
  <2>1. finds' = CalledOff
    BY <1>3 DEF SetQuery
  <2>2. \A i \in DOMAIN finds : finds[i] \in Found'
    OBVIOUS
  <2>3. \A i \in DOMAIN finds : CalledOff[i] \in Found' /\ CalledOff[i].off = TRUE
    BY <2>2 DEF CalledOff, Found
  <2>4. CalledOff \in Seq(Found') /\ DOMAIN CalledOff = DOMAIN finds
    BY <2>3, RewrittenSeq DEF CalledOff
  <2> QED
    BY <1>1, <2>1, <2>3, <2>4
<1> QED
  BY <1>2, <1>3

\* With one request gone, those that are left are where they were or one
\* place earlier.
LEMMA FewerRequests ==
    ASSUME NEW S, NEW s \in Seq(S), NEW i \in DOMAIN s, NEW j \in DOMAIN RemoveAt(s, i)
    PROVE  \E k \in DOMAIN s : RemoveAt(s, i)[j] = s[k]
<1>1. i \in 1..Len(s) /\ Len(s) \in Nat
  OBVIOUS
<1> DEFINE before == SubSeq(s, 1, i - 1)
           after  == SubSeq(s, i + 1, Len(s))
<1>2. before \in Seq(S) /\ Len(before) = i - 1
      /\ \A n \in 1..(i - 1) : before[n] = s[n]
  BY <1>1
<1>3. after \in Seq(S) /\ Len(after) = Len(s) - i
      /\ \A n \in 1..(Len(s) - i) : after[n] = s[i + n]
  BY <1>1
<1>4. RemoveAt(s, i) = before \o after
  BY DEF RemoveAt
<1> HIDE DEF before, after
<1>5. j \in 1..(Len(s) - 1)
  BY <1>1, <1>2, <1>3, <1>4
<1>6. CASE j < i
  BY <1>1, <1>2, <1>3, <1>4, <1>5, <1>6
<1>7. CASE j >= i
  <2>1. RemoveAt(s, i)[j] = after[j - (i - 1)]
    BY <1>1, <1>2, <1>3, <1>4, <1>5, <1>7
  <2>2. j - (i - 1) \in 1..(Len(s) - i) /\ j + 1 \in DOMAIN s /\ i + (j - (i - 1)) = j + 1
    BY <1>1, <1>5, <1>7
  <2> QED
    BY <1>3, <2>1, <2>2
<1> QED
  BY <1>1, <1>5, <1>6, <1>7

LEMMA SearchingStep ==
    ASSUME PhoneInv, [Next]_vars
    PROVE  Searching'
<1> USE DEF PhoneInv, Searching
<1>1. Known \subseteq Known' /\ KnownRow \subseteq KnownRow'
  BY TypesOnlyGrow
<1>2. Found \subseteq Found'
  BY <1>1 DEF Found
<1>3. finds \in Seq(Found')
  BY <1>2, SeqGrows
<1>4. \A i \in DOMAIN finds : finds[i] \in Found
  OBVIOUS
<1>5. results = Nil \/ results \subseteq KnownRow'
  BY <1>1
<1>6. ASSUME NEW i \in DOMAIN finds, finds' = RemoveAt(finds, i)
      PROVE  /\ finds' \in Seq(Found')
             /\ \A j \in DOMAIN finds' :
                   ~finds'[j].off => finds'[j].q = query /\ query # Empty
  <2>1. finds' \in Seq(Found')
    BY <1>3, <1>6, RemoveAtKeeps
  <2>2. \A j \in DOMAIN finds' : \E k \in DOMAIN finds : finds'[j] = finds[k]
    BY <1>6, FewerRequests
  <2> QED
    BY <2>1, <2>2
<1>7. ASSUME SetQuery(Empty), results' = Nil PROVE Searching'
  BY <1>3, <1>7, QuerySet
<1>8. CASE PickMap \/ PostAnswered
  BY <1>7, <1>8 DEF PickMap, PostAnswered
<1>9. CASE FollowEffect
  <2>1. (SetQuery(Empty) /\ results' = Nil) \/ UNCHANGED <<query, results, due, finds>>
    BY <1>9 DEF FollowEffect
  <2> QED
    BY <1>3, <1>5, <1>7, <2>1
<1>10. CASE Type
  <2>1. PICK q \in Queries \cup {Empty} :
           /\ SetQuery(q)
           /\ results' = IF q = Empty THEN Nil ELSE results
    BY <1>10 DEF Type
  <2>2. /\ query' = q /\ due' \in BOOLEAN /\ (due' => q # Empty)
        /\ finds' \in Seq(Found')
        /\ \A i \in DOMAIN finds' : ~finds'[i].off => finds'[i].q = q /\ q # Empty
    BY <1>3, <2>1, QuerySet
  <2> QED
    BY <1>5, <2>1, <2>2
<1>11. CASE SearchSent
  <2> DEFINE sent == [q |-> query, got |-> NotYet, off |-> FALSE]
  <2>1. query \in Queries /\ query # Empty
    BY <1>11 DEF SearchSent
  <2>2. sent \in Found'
    BY <2>1 DEF Found, NotYet
  <2>3. finds' = Append(finds, sent)
    BY <1>11 DEF SearchSent
  <2>4. sent.q = query
    OBVIOUS
  <2> HIDE DEF sent
  <2>5. finds' \in Seq(Found')
    BY <1>3, <2>2, <2>3, AppendProperties
  <2>6. \A i \in DOMAIN finds' : finds'[i] = sent \/ (i \in DOMAIN finds /\ finds'[i] = finds[i])
    <3>1. DOMAIN finds' = 1..(Len(finds) + 1) /\ DOMAIN finds = 1..Len(finds)
      BY <1>3, <2>2, <2>3, AppendProperties, LenProperties
    <3>2. /\ \A i \in 1..Len(finds) : finds'[i] = finds[i]
          /\ finds'[Len(finds) + 1] = sent
      BY <1>3, <2>2, <2>3, AppendProperties
    <3>3. Len(finds) \in Nat
      OBVIOUS
    <3> QED
      BY <3>1, <3>2, <3>3
  <2> QED
    BY <1>5, <1>11, <2>1, <2>4, <2>5, <2>6 DEF SearchSent
<1>12. ASSUME NEW i \in DOMAIN finds, SearchServed(i) PROVE Searching'
  <2> DEFINE found == Finds[finds[i].q] \cap UNION {where[m] : m \in Maps}
             hits  == RowsOf(found)
  <2>0. found \subseteq Known
    BY DEF Database
  <2>1. hits \subseteq KnownRow'
    BY <1>1, <2>0, RowsAreKnown
  <2>2. finds' = [finds EXCEPT ![i].got = hits]
    BY <1>12 DEF SearchServed
  <2> HIDE DEF hits
  <2>3. \A j \in DOMAIN finds : finds'[j] \in Found'
    BY <1>2, <1>4, <2>1, <2>2 DEF Found
  <2>4. finds' \in Seq(Found') /\ DOMAIN finds' = DOMAIN finds
    BY <2>2, <2>3, RewrittenSeq
  <2>5. \A j \in DOMAIN finds : finds'[j].off = finds[j].off /\ finds'[j].q = finds[j].q
    BY <1>4, <2>2 DEF Found
  <2> QED
    BY <1>5, <1>12, <2>4, <2>5 DEF SearchServed
<1>13. ASSUME NEW i \in DOMAIN finds, SearchAnswered(i) PROVE Searching'
  <2>1. finds[i].got \subseteq KnownRow
    BY <1>4, <1>13 DEF SearchAnswered, NotYet, Found
  <2>2. ~finds[i].off => query # Empty
    OBVIOUS
  <2>3. UNCHANGED <<query, due>>
    BY <1>13 DEF SearchAnswered
  <2>4. results' = IF finds[i].off THEN results ELSE finds[i].got
    BY <1>13 DEF SearchAnswered
  <2>5. finds' = RemoveAt(finds, i)
    BY <1>13 DEF SearchAnswered
  <2> QED
    BY <1>1, <1>5, <1>6, <2>1, <2>2, <2>3, <2>4, <2>5
<1>14. ASSUME NEW i \in DOMAIN finds, SearchFails(i) PROVE Searching'
  BY <1>5, <1>6, <1>14 DEF SearchFails
<1>15. CASE UNCHANGED search
  BY <1>3, <1>5, <1>15 DEF search
<1>16. \/ PickMap \/ PostAnswered \/ FollowEffect \/ Type \/ SearchSent
       \/ \E i \in DOMAIN finds : SearchServed(i) \/ SearchAnswered(i) \/ SearchFails(i)
       \/ UNCHANGED search
  BY DEF Next, FeedAnswers, SearchAnswers, PostAnswers, Gestures, Elsewhere, Bootstrap,
         Connect, Receive, GraphServed, GraphAnswered, PostServed, Tap, ClearReply, PickKind,
         Submit, ToggleFollow, OthersAdd, OthersRemove, OthersRetype, PeerMoves, Disconnect, PostRefused,
         GraphFails, vars
<1> QED
  BY <1>8, <1>9, <1>10, <1>11, <1>12, <1>13, <1>14, <1>15, <1>16

-----------------------------------------------------------------------------
(* The reply. *)

LEMMA ReplyingStep ==
    ASSUME PhoneInv, [Next]_vars
    PROVE  Replying'
<1> USE DEF PhoneInv, Replying
<1>1. KnownRow \subseteq KnownRow'
  BY TypesOnlyGrow
<1>2. \A r \in KnownRow \cup {Nil} : TypeOfReply(r) \in NodeTypes \cup {Nil}
  BY DEF TypeOfReply, KnownRow
\* A row keeps its type: what fits now fits then.
<1>3. ASSUME KindFits(replyTo', kind'), PostFits(posting') PROVE Replying'
  <2>1. KindFits(replyTo, kind)'
    BY <1>1, <1>3 DEF KindFits
  <2>2. CASE posting' = Nil
    BY <2>1, <2>2 DEF PostFits
  <2>3. CASE posting' # Nil
    <3>1. posting' \in Post /\ posting'.move \in LegalMoves(TypeOfReply(posting'.parent))
      BY <1>3, <2>3 DEF PostFits
    <3>2. posting' \in Post'
      BY <1>1, <3>1 DEF Post
    <3>3. PostFits(posting)'
      BY <3>1, <3>2 DEF PostFits
    <3> QED
      BY <2>1, <3>3
  <2> QED
    BY <2>2, <2>3
<1>4. ASSUME NEW r \in KnownRow \cup {Nil} PROVE KindFits(r, FirstKind(r))
  BY <1>2, <1>4, FirstIsChosen DEF KindFits, FirstKind
<1>5. PostFits(Nil)
  BY DEF PostFits
<1>6. CASE Tap
  <2>1. PICK r \in Rows : /\ replyTo' = r
                          /\ kind' \in {FirstKind(r)} \cup (IF r = replyTo THEN {kind} ELSE {})
    BY <1>6 DEF Tap
  <2>2. r \in KnownRow
    BY <2>1 DEF Rows, Searching, Feed
  <2>3. KindFits(r, kind')
    BY <1>4, <2>1, <2>2
  <2> QED
    BY <1>3, <1>6, <2>1, <2>3 DEF Tap
<1>7. CASE ClearReply
  BY <1>3, <1>4, <1>7 DEF ClearReply
<1>8. CASE PostAnswered
  BY <1>3, <1>4, <1>5, <1>8 DEF PostAnswered
<1>9. CASE PickKind
  <2>1. PICK m \in Range(MovesFor(TypeOfReply(replyTo))) : kind' = m.type
    BY <1>9 DEF PickKind
  <2>2. replyTo \in KnownRow \cup {Nil}
    BY DEF KindFits
  <2>3. ChoiceOf(TypeOfReply(replyTo), kind').type = kind'
    BY <1>2, <2>1, <2>2, ChoiceIsOffered
  <2> QED
    BY <1>3, <1>9, <2>2, <2>3 DEF PickKind, KindFits
<1>10. CASE Submit
  <2>1. replyTo \in KnownRow \cup {Nil}
    BY DEF KindFits
  <2>2. Choice \in LegalMoves(TypeOfReply(replyTo))
    BY <1>2, <2>1, ChoiceIsOffered DEF Choice
  <2>3. mapId \in Maps
    BY <1>10 DEF Submit, Feed
  <2>4. posting' = [parent |-> replyTo, move |-> Choice, map |-> mapId, state |-> "sent"]
    BY <1>10 DEF Submit
  <2>5. posting' \in Post /\ posting'.parent = replyTo /\ posting'.move = Choice
    BY <2>1, <2>2, <2>3, <2>4 DEF Post, LegalMoves
  <2>6. PostFits(posting')
    BY <2>2, <2>5 DEF PostFits
  <2> QED
    BY <1>3, <1>10, <2>6 DEF Submit
<1>11. CASE PostServed
  <2>1. /\ posting # Nil
        /\ \/ posting' = [posting EXCEPT !.state = "accepted"]
           \/ posting' = [posting EXCEPT !.state = "refused"]
        /\ UNCHANGED <<replyTo, kind>>
    BY <1>11 DEF PostServed
  <2>2. posting \in Post /\ posting.move \in LegalMoves(TypeOfReply(posting.parent))
    BY <2>1 DEF PostFits
  <2>3. posting' \in Post /\ posting'.parent = posting.parent /\ posting'.move = posting.move
    BY <2>1, <2>2 DEF Post
  <2> QED
    BY <1>3, <2>1, <2>2, <2>3 DEF PostFits
<1>12. CASE PostRefused
  BY <1>3, <1>5, <1>12 DEF PostRefused
<1>13. CASE UNCHANGED composer
  BY <1>3, <1>13 DEF composer
<1>14. \/ Tap \/ ClearReply \/ PostAnswered \/ PickKind \/ Submit \/ PostServed
       \/ PostRefused \/ UNCHANGED composer
  BY DEF Next, FeedAnswers, SearchAnswers, PostAnswers, Gestures, Elsewhere, Bootstrap,
         Connect, Receive, FollowEffect, SearchSent, GraphServed, GraphAnswered,
         SearchServed, SearchAnswered, PickMap, Type, ToggleFollow, OthersAdd, OthersRemove,
         OthersRetype, PeerMoves, Disconnect, GraphFails, SearchFails, vars
<1> QED
  BY <1>6, <1>7, <1>8, <1>9, <1>10, <1>11, <1>12, <1>13, <1>14

-----------------------------------------------------------------------------
(* What the feed shows. *)

LEMMA RangeOfAppend ==
    ASSUME NEW S, NEW s \in Seq(S), NEW e \in S
    PROVE  Range(Append(s, e)) = Range(s) \cup {e}
<1> DEFINE r == Append(s, e)
<1>1. /\ DOMAIN r = 1..(Len(s) + 1) /\ DOMAIN s = 1..Len(s) /\ Len(s) \in Nat
      /\ \A i \in 1..Len(s) : r[i] = s[i]
      /\ r[Len(s) + 1] = e
  BY AppendProperties, LenProperties
<1>2. \A i \in 1..(Len(s) + 1) : i \in 1..Len(s) \/ i = Len(s) + 1
  BY <1>1
<1>3. 1..Len(s) \subseteq 1..(Len(s) + 1) /\ Len(s) + 1 \in 1..(Len(s) + 1)
  BY <1>1
<1> HIDE DEF r
<1> QED
  BY <1>1, <1>2, <1>3 DEF Range, r

\* Whatever is not the one taken out is still there, and nothing else is.
LEMMA RangeOfRemoveAt ==
    ASSUME NEW S, NEW s \in Seq(S), NEW i \in DOMAIN s
    PROVE  /\ Range(RemoveAt(s, i)) \subseteq Range(s)
           /\ Range(s) \subseteq Range(RemoveAt(s, i)) \cup {s[i]}
<1>1. i \in 1..Len(s) /\ Len(s) \in Nat /\ DOMAIN s = 1..Len(s)
  OBVIOUS
<1> DEFINE before == SubSeq(s, 1, i - 1)
           after  == SubSeq(s, i + 1, Len(s))
<1>2. before \in Seq(S) /\ Len(before) = i - 1
      /\ \A n \in 1..(i - 1) : before[n] = s[n]
  BY <1>1
<1>3. after \in Seq(S) /\ Len(after) = Len(s) - i
      /\ \A n \in 1..(Len(s) - i) : after[n] = s[i + n]
  BY <1>1
<1>4. RemoveAt(s, i) = before \o after
  BY DEF RemoveAt
<1> HIDE DEF before, after
<1>5. ASSUME NEW k \in DOMAIN s, k # i
      PROVE  \E j \in DOMAIN RemoveAt(s, i) : RemoveAt(s, i)[j] = s[k]
  <2>1. CASE k < i
    BY <1>1, <1>2, <1>3, <1>4, <2>1
  <2>2. CASE k > i
    <3>1. k - i \in 1..(Len(s) - i) /\ i + (k - i) = k
      BY <1>1, <2>2
    <3>2. k - 1 \in 1..(Len(before) + Len(after)) /\ ~(k - 1 <= Len(before))
          /\ (k - 1) - Len(before) = k - i
      BY <1>1, <1>2, <1>3, <2>2
    <3>3. k - 1 \in DOMAIN RemoveAt(s, i) /\ RemoveAt(s, i)[k - 1] = after[k - i]
      BY <1>2, <1>3, <1>4, <3>2, ConcatProperties, LenProperties
    <3> QED
      BY <1>3, <3>1, <3>3
  <2> QED
    BY <1>1, <1>5, <2>1, <2>2
<1>6. \A k \in DOMAIN s : s[k] \in Range(RemoveAt(s, i)) \cup {s[i]}
  BY <1>5 DEF Range
<1>7. \A j \in DOMAIN RemoveAt(s, i) : RemoveAt(s, i)[j] \in Range(s)
  BY FewerRequests DEF Range
<1> QED
  BY <1>6, <1>7 DEF Range

LEMMA RangeOfUpdate ==
    ASSUME NEW S, NEW s \in Seq(S), NEW i \in DOMAIN s, NEW e,
           NEW r, r = [s EXCEPT ![i] = e]
    PROVE  /\ Range(r) \subseteq Range(s) \cup {e} /\ e \in Range(r)
           /\ Range(s) \subseteq Range(r) \cup {s[i]}
BY DEF Range

LEMMA RangeOfTail ==
    ASSUME NEW S, NEW s \in Seq(S), s # <<>>
    PROVE  Range(s) \subseteq Range(Tail(s)) \cup {Head(s)}
<1>1. /\ DOMAIN s = 1..Len(s) /\ Len(s) \in Nat /\ Head(s) = s[1]
      /\ Len(Tail(s)) = Len(s) - 1 /\ DOMAIN Tail(s) = 1..(Len(s) - 1)
      /\ \A i \in 1..(Len(s) - 1) : Tail(s)[i] = s[i + 1]
  BY HeadTailProperties, LenProperties
<1>2. ASSUME NEW k \in DOMAIN s PROVE s[k] \in Range(Tail(s)) \cup {Head(s)}
  <2>1. CASE k = 1
    BY <1>1, <2>1
  <2>2. CASE k # 1
    <3>1. k - 1 \in DOMAIN Tail(s) /\ (k - 1) + 1 = k
      BY <1>1, <2>2
    <3>2. Tail(s)[k - 1] = s[k]
      BY <1>1, <3>1
    <3> QED
      BY <3>1, <3>2 DEF Range
  <2> QED
    BY <2>1, <2>2
<1> QED
  BY <1>2 DEF Range

\* Answers of the server that are under way, to requests made since the map
\* was opened.
Reads == {a \in Range(asks) : ~a.old /\ a.got # NotYet}

\* The map in view as the database has it.
InView == RowsOf(where[mapId])

LEMMA ViewKept ==
    ASSUME UNCHANGED <<where, type, mapId>>
    PROVE  InView' = InView
BY DEF InView, RowsOf

\* A request that was not made before the map was opened is of that map.  Of
\* two answers, the later read has nothing the earlier had not, but what was
\* put on the map since it was opened; one read at the last commit is exact.
Readings ==
    /\ newest \in 0..commits
    /\ mapId = Nil => asks = <<>> /\ seen = Nil /\ posting = Nil
    /\ \A a \in Range(asks) : ~a.old => a.map = mapId
    /\ \A a \in Reads :
          /\ a.at <= commits
          /\ a.at = commits => a.got = InView
          /\ where[mapId] \subseteq NodesOf(a.got) \cup arrived
    /\ \A a, b \in Reads : b.at >= a.at => NodesOf(b.got) \subseteq NodesOf(a.got) \cup arrived

\* Something is bound to bring the feed up to date: a greeting, a frame that
\* says that something changed, or a request not answered or answered with the
\* newest.
Awaited ==
    \/ ~live
    \/ \E f \in Range(inbox) : f.type # "presence"
    \/ \E a \in Range(asks) : ~a.old /\ (a.got = NotYet \/ a.at = commits)

InStep ==
    mapId # Nil => Awaited \/ (newest = commits /\ (crossed \/ feed = InView))

\* Whatever the map holds, is shown or will be shown in time was in the
\* baseline or was put on the map since.
Marked ==
    seen # Nil /\ ~tainted =>
       /\ where[mapId] \subseteq seen \cup arrived
       /\ \A a \in Reads : a.at >= newest => NodesOf(a.got) \subseteq seen \cup arrived
       /\ ~crossed => NodesOf(feed) \subseteq seen \cup arrived

Shown == Readings /\ InStep /\ Marked

\* A map is opened: every request is of before, and a socket is to come.
LEMMA OpeningShows ==
    ASSUME PhoneInv, Shown, NEW m \in Maps, OpenOn(m),
           UNCHANGED <<where, commits, newest>>
    PROVE  Shown'
<1>1. asks \in Seq(Asked) /\ Older \in Seq(Asked) /\ Ask(m) \in Asked
  <2>1. asks \in Seq(Asked)
    BY DEF PhoneInv, Feed
  <2>2. \A i \in DOMAIN asks : asks[i] \in Asked
    BY <2>1
  <2>3. \A i \in DOMAIN asks : [asks[i] EXCEPT !.old = TRUE] \in Asked
    BY <2>2 DEF Asked
  <2>4. Older \in Seq(Asked)
    BY <2>1, <2>3, RewrittenSeq DEF Older
  <2>5. Ask(m) \in Asked
    BY DEF Ask, NotYet, Asked
  <2> QED
    BY <2>1, <2>4, <2>5
<1>2. Range(asks') = Range(Older) \cup {Ask(m)}
  BY <1>1, RangeOfAppend DEF OpenOn
<1>3. \A a \in Range(Older) : a.old = TRUE
  <2>1. \A i \in DOMAIN asks : asks[i] \in Asked
    BY <1>1
  <2>2. DOMAIN Older = DOMAIN asks /\ \A i \in DOMAIN asks : Older[i].old = TRUE
    BY <2>1 DEF Older, Asked
  <2> QED
    BY <2>2 DEF Range
<1>4. Reads' = {}
  BY <1>2, <1>3 DEF Reads, Ask
<1>5. mapId' = m /\ m # Nil /\ seen' = Nil /\ live' = FALSE
  BY NilIsNothing DEF OpenOn, Baseline
<1>6. \A a \in Range(asks') : ~a.old => a.map = mapId'
  BY <1>2, <1>3, <1>5 DEF Ask
<1>7. Readings'
  BY <1>4, <1>5, <1>6 DEF Readings, Shown
<1>8. InStep' /\ Marked'
  BY <1>5 DEF InStep, Awaited, Marked
<1> QED
  BY <1>7, <1>8 DEF Shown

\* The database changes: the frame is there, or the greeting still to come.
LEMMA CommitShows ==
    ASSUME PhoneInv, Shown, UNCHANGED screen, live' = live,
           commits' = commits + 1, Publish(<<Change>>),
           where'[mapId] \subseteq where[mapId] \cup arrived', arrived \subseteq arrived',
           mapId = Nil => posting' = Nil
    PROVE  Shown'
<1>0. commits \in Nat /\ newest \in 0..commits /\ inbox \in Seq(Frame) /\ Change \in Frame
  <2>1. Change \in Frame
    BY DEF Change, Frame
  <2> QED
    BY <2>1 DEF PhoneInv, Database, Socket, Shown, Readings
<1>1. UNCHANGED <<mapId, feed, seen, asks, newest, crossed, tainted>> /\ Reads' = Reads
  BY DEF screen, Reads
<1>2. \A a \in Reads : a.at \in Nat /\ a.at <= commits
  <2>1. \A a \in Range(asks) : a \in Asked
    BY DEF PhoneInv, Feed, Range
  <2> QED
    BY <2>1 DEF Reads, Asked, Shown, Readings
<1>3. Readings'
  <2>1. newest' \in 0..commits'
    BY <1>0, <1>1
  <2>2. \A a \in Reads' : /\ a.at <= commits' /\ a.at # commits'
                          /\ where'[mapId'] \subseteq NodesOf(a.got) \cup arrived'
    BY <1>0, <1>1, <1>2 DEF Shown, Readings
  <2>3. \A a, b \in Reads' :
            b.at >= a.at => NodesOf(b.got) \subseteq NodesOf(a.got) \cup arrived'
    BY <1>1 DEF Shown, Readings
  <2> QED
    BY <1>1, <2>1, <2>2, <2>3 DEF Shown, Readings
<1>4. Awaited'
  <2>1. CASE live
    <3>1. inbox' = inbox \o <<Change>>
      BY <2>1 DEF Publish
    <3> HIDE DEF Frame
    <3>2. Change \in Range(inbox')
      <4>1. inbox' = Append(inbox, Change)
        BY <1>0, <3>1
      <4> QED
        BY <1>0, <4>1, RangeOfAppend
    <3> QED
      BY <3>2 DEF Awaited, Change
  <2>2. CASE ~live
    BY <2>2 DEF Awaited
  <2> QED
    BY <2>1, <2>2
<1>5. Marked'
  BY <1>1 DEF Shown, Marked
<1> QED
  BY <1>3, <1>4, <1>5 DEF Shown, InStep

\* A request is made, for the map in view or as one of before.
LEMMA AskingShows ==
    ASSUME PhoneInv, Shown, NEW ask \in Asked, asks' = Append(asks, ask),
           ask.got = NotYet, ask.old \/ ask.map = mapId, mapId # Nil,
           UNCHANGED <<where, type, commits, mapId, feed, seen, newest, crossed, tainted, live,
                       arrived>>,
           \/ inbox' = inbox
           \/ ~ask.old
    PROVE  Shown'
<1>1. Range(asks') = Range(asks) \cup {ask}
  <2>1. asks \in Seq(Asked)
    BY DEF PhoneInv, Feed
  <2> QED
    BY <2>1, RangeOfAppend
<1>2. Reads' = Reads /\ InView' = InView
  BY <1>1, ViewKept DEF Reads
<1>3. Readings'
  BY <1>1, <1>2 DEF Shown, Readings
<1>4. Awaited => Awaited'
  BY <1>1 DEF Awaited
<1> QED
  BY <1>2, <1>3, <1>4 DEF Shown, InStep, Marked

\* The server reads the map: exactly what the map is at this commit.
LEMMA ServingShows ==
    ASSUME PhoneInv, Shown, NEW i \in DOMAIN asks, GraphServed(i)
    PROVE  Shown'
<1> DEFINE ask == [asks[i] EXCEPT !.got = RowsOf(where[asks[i].map]), !.at = commits]
<1>0. /\ UNCHANGED <<where, type, commits, mapId, feed, seen, newest, crossed, tainted, live,
                      inbox, posting, arrived>>
      /\ InView' = InView /\ NodesOf(InView) = where[mapId]
  BY ViewKept, NodesOfRows DEF GraphServed, world, socket, composer, InView
<1>1. asks \in Seq(Asked) /\ asks[i] \in Asked
  <2>1. asks \in Seq(Asked)
    BY DEF PhoneInv, Feed
  <2> QED
    BY <2>1
<1>2. asks' = [asks EXCEPT ![i] = ask] /\ asks[i].got = NotYet
  BY DEF GraphServed
<1>3. /\ ask.old = asks[i].old /\ ask.map = asks[i].map
      /\ ask.got = RowsOf(where[asks[i].map]) /\ ask.at = commits
  BY <1>1 DEF Asked
<1> HIDE DEF ask
<1>4. /\ Range(asks') \subseteq Range(asks) \cup {ask} /\ ask \in Range(asks')
      /\ Range(asks) \subseteq Range(asks') \cup {asks[i]}
      /\ asks[i] \in Range(asks)
  BY <1>1, <1>2, RangeOfUpdate DEF Range
<1>5. commits \in Nat /\ newest \in 0..commits
  BY DEF PhoneInv, Database, Shown, Readings
<1>6. ~ask.old => ask.map = mapId /\ ask.got = InView /\ NodesOf(ask.got) = where[mapId]
  BY <1>0, <1>3, <1>4 DEF Shown, Readings, InView
<1>7. Reads' \subseteq Reads \cup {ask} /\ (ask \in Reads' => ~ask.old)
  BY <1>4 DEF Reads
<1>8. mapId # Nil
  BY <1>1 DEF Shown, Readings
<1>9. \A a \in Reads' : a.at \in Nat /\ a.at <= commits
  <2>1. \A a \in Range(asks) : a \in Asked
    BY <1>1 DEF Range
  <2>2. \A a \in Reads : a.at \in Nat /\ a.at <= commits
    BY <2>1 DEF Reads, Asked, Shown, Readings
  <2> QED
    BY <1>3, <1>5, <1>7, <2>2
<1>10. Readings'
  <2>1. \A a \in Range(asks') : ~a.old => a.map = mapId'
    BY <1>0, <1>4, <1>6 DEF Shown, Readings
  <2>2. \A a \in Reads' : /\ a.at <= commits'
                          /\ a.at = commits' => a.got = InView'
                          /\ where'[mapId'] \subseteq NodesOf(a.got) \cup arrived'
    BY <1>0, <1>6, <1>7, <1>9 DEF Shown, Readings
  <2>3. ASSUME NEW a \in Reads', NEW b \in Reads', b.at >= a.at
        PROVE  NodesOf(b.got) \subseteq NodesOf(a.got) \cup arrived'
    <3>1. CASE b = ask
      BY <1>0, <1>6, <1>7, <2>2, <2>3, <3>1
    <3>2. CASE b # ask /\ a = ask
      <4>1. b.at = commits
        BY <1>3, <1>5, <1>9, <2>3, <3>2
      <4> QED
        BY <1>0, <1>6, <1>7, <2>2, <2>3, <3>2, <4>1
    <3>3. CASE b # ask /\ a # ask
      BY <1>0, <1>7, <2>3, <3>3 DEF Shown, Readings
    <3> QED
      BY <3>1, <3>2, <3>3
  <2> QED
    BY <1>0, <1>8, <2>1, <2>2, <2>3 DEF Shown, Readings
<1>11. Awaited => Awaited'
  <2>1. CASE ~asks[i].old
    BY <1>0, <1>3, <1>4, <2>1 DEF Awaited
  <2>2. CASE asks[i].old
    BY <1>0, <1>4, <2>2 DEF Awaited
  <2> QED
    BY <2>1, <2>2
<1>12. Marked'
  BY <1>0, <1>6, <1>7 DEF Shown, Marked
<1> QED
  BY <1>0, <1>10, <1>11, <1>12 DEF Shown, InStep

\* An answer arrives and is shown.  One that is not late is as new as any that
\* came: if something newer is there to be read, something else is awaited.
LEMMA AnsweringShows ==
    ASSUME PhoneInv, Shown, NEW i \in DOMAIN asks, GraphAnswered(i)
    PROVE  Shown'
<1> DEFINE ask == asks[i]
<1>0. UNCHANGED <<where, commits, mapId, live, inbox, posting, arrived>> /\ InView' = InView
  BY ViewKept DEF GraphAnswered, world, socket, composer
<1>1. asks \in Seq(Asked) /\ ask \in Asked
  <2>1. asks \in Seq(Asked)
    BY DEF PhoneInv, Feed
  <2> QED
    BY <2>1
<1>2. /\ ask.got # NotYet /\ feed' = ask.got
      /\ seen' = IF seen = Nil THEN NodesOf(ask.got) ELSE seen
      /\ tainted' = IF seen = Nil THEN Late(ask) ELSE tainted
      /\ crossed' = Late(ask)
      /\ newest' = IF Late(ask) THEN newest ELSE ask.at
      /\ asks' = RemoveAt(asks, i)
  BY DEF GraphAnswered
<1>3. /\ Range(asks') \subseteq Range(asks) /\ ask \in Range(asks)
      /\ Range(asks) \subseteq Range(asks') \cup {ask}
  <2>1. ask \in Range(asks)
    BY DEF Range
  <2> HIDE DEF Asked
  <2> QED
    BY <1>1, <1>2, <2>1, RangeOfRemoveAt
<1>4. commits \in Nat /\ newest \in Nat /\ newest <= commits /\ ask.at \in Nat
      /\ ask.old \in BOOLEAN
  BY <1>1 DEF PhoneInv, Database, Shown, Readings, Asked
<1> HIDE DEF ask
<1>5. Reads' \subseteq Reads /\ mapId # Nil
  <2>1. asks # <<>>
    BY <1>1
  <2> QED
    BY <1>3, <2>1 DEF Reads, Shown, Readings
<1>6. ~Late(ask) => ask \in Reads /\ ask.at >= newest /\ ask.at <= commits
  BY <1>2, <1>3, <1>4 DEF Late, Reads, Shown, Readings
<1>7. /\ newest' \in 0..commits /\ newest' >= newest /\ newest' \in Nat
  BY <1>2, <1>4, <1>6
<1>8. Readings'
  BY <1>0, <1>3, <1>5, <1>7 DEF Shown, Readings
<1>9. InStep'
  <2>1. CASE ask.at = commits /\ ~ask.old
    <3>1. ~Late(ask)
      BY <1>4, <2>1 DEF Late
    <3> QED
      BY <1>0, <1>2, <1>6, <2>1, <3>1 DEF Shown, Readings, InStep
  <2>2. CASE ~(ask.at = commits /\ ~ask.old)
    <3>1. CASE Awaited
      <4>1. Awaited'
        BY <1>0, <1>2, <1>3, <2>2, <3>1 DEF Awaited
      <4> QED
        BY <4>1 DEF InStep
    <3>2. CASE ~Awaited
      <4>1. newest = commits
        BY <1>5, <3>2 DEF Shown, InStep
      <4>2. Late(ask)
        BY <1>4, <1>6, <2>2, <4>1 DEF Late
      <4> QED
        BY <1>0, <1>2, <4>1, <4>2 DEF InStep
    <3> QED
      BY <3>1, <3>2
  <2> QED
    BY <2>1, <2>2
<1>10. Marked'
  <2> SUFFICES ASSUME seen' # Nil, ~tainted'
               PROVE  /\ where'[mapId'] \subseteq seen' \cup arrived'
                      /\ \A a \in Reads' :
                            a.at >= newest' => NodesOf(a.got) \subseteq seen' \cup arrived'
                      /\ ~crossed' => NodesOf(feed') \subseteq seen' \cup arrived'
    BY DEF Marked
  <2>1. CASE seen = Nil
    <3>1. ~Late(ask) /\ seen' = NodesOf(ask.got) /\ newest' = ask.at /\ feed' = ask.got
      BY <1>2, <2>1
    <3> QED
      BY <1>0, <1>5, <1>6, <3>1 DEF Shown, Readings
  <2>2. CASE seen # Nil
    <3>1. seen' = seen /\ ~tainted
      BY <1>2, <2>2
    <3>2. \A a \in Reads' : a.at >= newest' => a.at >= newest
      <4>1. \A a \in Range(asks) : a.at \in Nat
        <5>1. \A a \in Range(asks) : a \in Asked
          BY <1>1 DEF Range
        <5> QED
          BY <5>1 DEF Asked
      <4> QED
        BY <1>4, <1>5, <1>7, <4>1 DEF Reads
    <3>3. \A a \in Reads' : a.at >= newest' => NodesOf(a.got) \subseteq seen' \cup arrived'
      BY <1>0, <1>5, <2>2, <3>1, <3>2 DEF Shown, Marked
    <3>4. ~crossed' => NodesOf(feed') \subseteq seen' \cup arrived'
      BY <1>0, <1>2, <1>6, <2>2, <3>1 DEF Shown, Marked
    <3> QED
      BY <1>0, <2>2, <3>1, <3>3, <3>4 DEF Shown, Marked
  <2> QED
    BY <2>1, <2>2
<1> QED
  BY <1>8, <1>9, <1>10 DEF Shown

LEMMA ShownStep ==
    ASSUME PhoneInv, Shown, [Next]_vars
    PROVE  Shown'
<1>0. PhoneInv /\ Socket /\ Feed /\ Database /\ Replying
  BY DEF PhoneInv
<1>18. UNCHANGED <<where, type, mapId>> => InView' = InView
  BY ViewKept
<1>1. ASSUME NEW m \in Maps, OpenOn(m), UNCHANGED <<where, commits, newest>> PROVE Shown'
  BY <1>1, OpeningShows
<1>2. CASE Bootstrap
  BY <1>1, <1>2 DEF Bootstrap, world
<1>3. CASE PickMap
  BY <1>1, <1>3 DEF PickMap, world
<1>4. CASE FollowEffect
  <2>1. UNCHANGED <<where, type, commits, feed, newest, crossed, posting>>
    BY <1>4 DEF FollowEffect, world, composer
  <2>2. CASE following /\ OnAnotherMap
    <3>1. roster.map \in Maps
      BY <1>0, <2>2, PhoneAssumption DEF Socket, OnAnotherMap
    <3> QED
      BY <1>1, <1>4, <2>1, <2>2, <3>1 DEF FollowEffect
  <2>3. CASE ~(following /\ OnAnotherMap)
    <3>1. UNCHANGED <<mapId, seen, asks, tainted, live, inbox, arrived>>
      BY <1>4, <2>3 DEF FollowEffect
    <3> QED
      BY <1>18, <2>1, <3>1 DEF Shown, Readings, Reads, InStep, Awaited, Marked
  <2> QED
    BY <2>2, <2>3
<1>5. CASE Connect
  <2>1. /\ inbox' = <<Change, Roster(peer)>>
        /\ UNCHANGED <<world, screen, composer, arrived>>
    BY <1>5 DEF Connect
  <2>2. inbox'[1] = Change /\ 1 \in DOMAIN inbox'
    BY <2>1
  <2>3. Awaited'
    BY <2>2 DEF Awaited, Range, Change
  <2> QED
    BY <1>18, <2>1, <2>3 DEF Shown, Readings, Reads, InStep, Marked, world, screen, composer
<1>6. CASE Disconnect
  <2>1. live' = FALSE /\ UNCHANGED <<world, screen, composer, arrived>>
    BY <1>6 DEF Disconnect
  <2> QED
    BY <1>18, <2>1 DEF Shown, Readings, Reads, InStep, Awaited, Marked, world, screen, composer
<1>7. CASE Receive
  <2>1. mapId \in Maps /\ mapId # Nil
    BY <1>0, <1>7, NilIsNothing DEF Receive, Socket
  <2>2. /\ inbox # <<>> /\ inbox' = Tail(inbox)
        /\ asks' = IF Head(inbox).type # "presence" THEN Append(asks, Ask(mapId)) ELSE asks
        /\ UNCHANGED <<where, type, commits, mapId, feed, seen, newest, crossed, tainted,
                       live, posting, arrived>>
    BY <1>7 DEF Receive, Refetches, world, composer
  <2>3. CASE Head(inbox).type # "presence"
    <3>1. Ask(mapId) \in Asked /\ Ask(mapId).got = NotYet
          /\ Ask(mapId).map = mapId /\ ~Ask(mapId).old
      BY <2>1 DEF Ask, Asked, NotYet
    <3> QED
      BY <2>1, <2>2, <2>3, <3>1, AskingShows
  <2>4. CASE Head(inbox).type = "presence"
    <3>1. Range(inbox) \subseteq Range(inbox') \cup {Head(inbox)}
      <4> HIDE DEF Frame
      <4> QED
        BY <1>0, <2>2, RangeOfTail DEF Socket
    <3>2. asks' = asks
      BY <2>2, <2>4
    <3>3. Awaited => Awaited'
      BY <2>2, <2>4, <3>1, <3>2 DEF Awaited
    <3> QED
      BY <1>18, <2>2, <3>2, <3>3 DEF Shown, Readings, Reads, InStep, Marked
  <2> QED
    BY <2>3, <2>4
<1>8. ASSUME NEW i \in DOMAIN asks, GraphServed(i) PROVE Shown'
  BY <1>8, ServingShows
<1>9. ASSUME NEW i \in DOMAIN asks, GraphAnswered(i) PROVE Shown'
  BY <1>9, AnsweringShows
<1>10. ASSUME NEW i \in DOMAIN asks, GraphFails(i) PROVE Shown'
  <2>1. /\ asks' = RemoveAt(asks, i) /\ crossed' = TRUE /\ newest' = commits
        /\ UNCHANGED <<where, type, commits, mapId, feed, seen, tainted, posting, arrived>>
    BY <1>10 DEF GraphFails, world, composer
  <2>2. Range(asks') \subseteq Range(asks)
    <3>1. asks \in Seq(Asked)
      BY <1>0 DEF Feed
    <3> QED
      BY <2>1, <3>1, RangeOfRemoveAt
  <2>3. Reads' \subseteq Reads /\ asks # <<>>
    BY <2>2 DEF Reads
  <2>4. commits \in Nat /\ newest \in Nat /\ newest <= commits
    BY <1>0 DEF Database, Shown, Readings
  <2>5. Readings' /\ InStep'
    BY <1>18, <2>1, <2>2, <2>3, <2>4 DEF Shown, Readings, InStep
  <2>6. \A a \in Reads : a.at \in Nat
    <3>1. asks \in Seq(Asked)
      BY <1>0 DEF Feed
    <3>2. \A a \in Range(asks) : a \in Asked
      BY <3>1 DEF Range
    <3> QED
      BY <3>2 DEF Reads, Asked
  <2>7. Marked'
    BY <2>1, <2>3, <2>4, <2>6 DEF Shown, Marked
  <2> QED
    BY <2>5, <2>7 DEF Shown
<1>11. CASE PostServed
  <2>1. UNCHANGED <<screen, live>> /\ posting # Nil
    BY <1>11 DEF PostServed
  <2>2. mapId # Nil
    BY <2>1 DEF Shown, Readings
  <2>3. CASE UNCHANGED <<where, type, commits, arrived, inbox>>
    BY <1>18, <2>1, <2>2, <2>3 DEF Shown, Readings, Reads, InStep, Awaited, Marked, screen
  <2>4. CASE \E n \in Mine :
                /\ where' = [where EXCEPT ![posting.map] = @ \cup {n}]
                /\ commits' = commits + 1
                /\ arrived' = IF posting.map = mapId THEN arrived \cup {n} ELSE arrived
                /\ Publish(<<Change>>)
    <3>1. mapId \in Maps
      BY <1>0, <2>2 DEF Feed
    <3>2. where'[mapId] \subseteq where[mapId] \cup arrived' /\ arrived \subseteq arrived'
      BY <1>0, <2>4, <3>1 DEF Database
    <3> QED
      BY <2>1, <2>2, <2>4, <3>2, CommitShows
  <2> QED
    BY <1>11, <2>3, <2>4 DEF PostServed
<1>12. CASE PostAnswered
  <2> DEFINE ask == [Ask(posting.map) EXCEPT !.old = posting.map # mapId]
  <2>1. posting \in Post
    BY <1>0, <1>12 DEF PostAnswered, Replying, PostFits
  <2>2. mapId # Nil
    BY <1>12 DEF PostAnswered, Shown, Readings
  <2>3. ask \in Asked /\ ask.got = NotYet /\ (ask.old \/ ask.map = mapId)
    BY <2>1 DEF Ask, Asked, NotYet, Post
  <2>4. /\ asks' = Append(asks, ask) /\ inbox' = inbox
        /\ UNCHANGED <<where, type, commits, mapId, feed, seen, newest, crossed, tainted,
                       live, arrived>>
    BY <1>12 DEF PostAnswered, world, socket
  <2> HIDE DEF ask
  <2> QED
    BY <2>2, <2>3, <2>4, AskingShows
<1>13. CASE OthersAdd \/ OthersRemove \/ OthersRetype
  <2>1. /\ UNCHANGED <<screen, live, posting>> /\ commits' = commits + 1
        /\ Publish(<<Change>>)
    BY <1>13 DEF OthersAdd, OthersRemove, OthersRetype, composer
  <2>2. CASE mapId = Nil
    <3>1. asks' = <<>> /\ seen' = Nil /\ posting' = Nil /\ mapId' = Nil
      BY <2>1, <2>2 DEF Shown, Readings, screen
    <3>2. commits \in Nat /\ newest' = newest /\ newest \in 0..commits
      BY <1>0, <2>1 DEF Database, Shown, Readings, screen
    <3>3. Range(asks') = {}
      BY <3>1 DEF Range
    <3> QED
      BY <2>1, <3>1, <3>2, <3>3 DEF Shown, Readings, Reads, InStep, Marked
  <2>3. CASE mapId # Nil
    <3>1. mapId \in Maps
      BY <1>0, <2>3 DEF Feed
    <3>2. where'[mapId] \subseteq where[mapId] \cup arrived' /\ arrived \subseteq arrived'
      BY <1>0, <1>13, <3>1 DEF OthersAdd, OthersRemove, OthersRetype, Database
    <3> QED
      BY <2>1, <2>3, <3>2, CommitShows
  <2> QED
    BY <2>2, <2>3
<1>14. CASE PeerMoves
  <2>1. PICK p \in Peers : Publish(<<Roster(p)>>)
    BY <1>14 DEF PeerMoves
  <2>2. Range(inbox) \subseteq Range(inbox')
    <3>1. inbox \in Seq(Frame) /\ Roster(p) \in Frame
      <4>1. Roster(p) \in Frame
        BY DEF Roster, Frame
      <4> QED
        BY <1>0, <4>1 DEF Socket
    <3> HIDE DEF Frame
    <3>2. CASE live
      <4>1. inbox' = inbox \o <<Roster(p)>>
        BY <2>1, <3>2 DEF Publish
      <4>2. inbox' = Append(inbox, Roster(p))
        BY <3>1, <4>1
      <4> QED
        BY <3>1, <4>2, RangeOfAppend
    <3>3. CASE ~live
      BY <2>1, <3>3 DEF Publish
    <3> QED
      BY <3>2, <3>3
  <2>3. UNCHANGED <<where, type, commits, screen, live, posting, arrived>>
    BY <1>14 DEF PeerMoves, composer
  <2>4. Awaited => Awaited'
    BY <2>2, <2>3 DEF Awaited, screen
  <2> QED
    BY <1>18, <2>3, <2>4 DEF Shown, Readings, Reads, InStep, Marked, screen
<1>15. CASE Submit \/ PostRefused
  <2>1. UNCHANGED <<world, screen, socket, arrived>> /\ mapId # Nil
    BY <1>15 DEF Submit, PostRefused, Shown, Readings
  <2> QED
    BY <1>18, <2>1 DEF Shown, Readings, Reads, InStep, Awaited, Marked, world, screen, socket
<1>16. CASE UNCHANGED <<where, type, commits, screen, live, inbox, posting, arrived>>
  BY <1>18, <1>16 DEF Shown, Readings, Reads, InStep, Awaited, Marked, screen
<1>17. \/ Bootstrap \/ PickMap \/ FollowEffect \/ Connect \/ Disconnect \/ Receive
       \/ \E i \in DOMAIN asks : GraphServed(i) \/ GraphAnswered(i) \/ GraphFails(i)
       \/ PostServed \/ PostAnswered \/ OthersAdd \/ OthersRemove \/ OthersRetype
       \/ PeerMoves \/ Submit \/ PostRefused
       \/ UNCHANGED <<where, type, commits, screen, live, inbox, posting, arrived>>
  BY DEF Next, FeedAnswers, SearchAnswers, PostAnswers, Gestures, Elsewhere, SearchSent,
         SearchServed, SearchAnswered, Type, Tap, ClearReply, PickKind, ToggleFollow,
         SearchFails, vars, world, socket, composer
<1> QED
  BY <1>2, <1>3, <1>4, <1>5, <1>6, <1>7, <1>8, <1>9, <1>10, <1>11, <1>12, <1>13, <1>14,
     <1>15, <1>16, <1>17

-----------------------------------------------------------------------------
(* The theorems. *)

LEMMA PhoneHolds == Spec => []PhoneInv
<1>1. Init => PhoneInv
  BY InvAtFirst
<1>2. PhoneInv /\ [Next]_vars => PhoneInv'
  BY DatabaseStep, FeedStep, SocketStep, SearchingStep, ReplyingStep DEF PhoneInv
<1> QED
  BY <1>1, <1>2, PTL DEF Spec

\* The phone's state is well-formed: what it shows are nodes there are or
\* were, what is replied to is one of them, and the kind that is chosen is one
\* of those offered for it (MobileApp.tsx, Composer).
THEOREM PhoneTyped == Spec => []PhoneTypeOK
<1>1. PhoneInv => PhoneTypeOK
  <2> SUFFICES ASSUME PhoneInv PROVE PhoneTypeOK
    OBVIOUS
  <2> USE DEF PhoneInv
  <2>1. where \in [Maps -> SUBSET Nodes] /\ \A m \in Maps : \A n \in where[m] : type[n] # Nil
    BY DEF Database, Known
  <2>2. replyTo = Nil \/ (replyTo \in Row /\ type[replyTo.node] # Nil)
    BY DEF Replying, KindFits, Known, KnownRow, Row
  <2>3. kind \in {Choice.type}
    BY DEF Replying, KindFits, Choice
  <2>4. feed \subseteq Row /\ (seen = Nil \/ seen \subseteq Nodes)
        /\ (results = Nil \/ results \subseteq Row)
    BY DEF Feed, Searching, Known, KnownRow, Row
  <2> QED
    BY <2>1, <2>2, <2>3, <2>4 DEF PhoneTypeOK, Database, Feed, Socket, Searching
<1> QED
  BY <1>1, PhoneHolds, PTL

\* An answer to a search that was called off never takes the feed's place:
\* there are results only while something is typed (MobileApp.tsx, the search
\* effect and its cleanup).
THEOREM ResultsFollowTheQuery == Spec => []ResultsAreAsked
<1>1. PhoneInv => ResultsAreAsked
  BY DEF PhoneInv, Searching, ResultsAreAsked
<1> QED
  BY <1>1, PhoneHolds, PTL

\* Whatever was tapped, searched or posted meanwhile, a reply that is sent is
\* one the grammar allows for the row that was tapped, as it was read
\* (MobileApp.tsx, movesFor and Composer, against graph.go's rules); what the
\* server refuses is a reply to a node that has left the map or has another
\* type by then (queries.go, insertEdgeTx).
THEOREM RepliesAreLegal == Spec => PostsAreLegal
<1>1. ASSUME PhoneInv, PhoneInv', [Next]_vars,
             posting = Nil, posting' # Nil, posting'.parent # Nil
      PROVE  ValidateEdge(posting'.move.type, posting'.parent.type, posting'.move.rel)
  <2>1. /\ posting' \in Post' /\ posting'.move \in LegalMoves(TypeOfReply(posting'.parent))
    BY <1>1 DEF PhoneInv, Replying, PostFits
  <2>2. posting'.parent.type \in NodeTypes
    BY <1>1, <2>1 DEF Post, KnownRow
  <2> QED
    BY <1>1, <2>1, <2>2, NilIsNothing DEF LegalMoves, TypeOfReply
<1>2. ASSUME PhoneInv, [Next]_vars, posting # Nil, posting.state = "sent",
             posting' # Nil, posting'.state = "refused"
      PROVE  \/ posting.parent.node \notin where[posting.map]
             \/ type[posting.parent.node] # posting.parent.type
  <2>1. posting \in Post /\ posting.move \in LegalMoves(TypeOfReply(posting.parent))
    BY <1>2 DEF PhoneInv, Replying, PostFits
  <2>2. PostServed
    BY <1>2
       DEF Next, FeedAnswers, SearchAnswers, PostAnswers, Gestures, Elsewhere, Bootstrap,
           Connect, Receive, FollowEffect, SearchSent, GraphServed, GraphAnswered,
           SearchServed, SearchAnswered, PostAnswered, PickMap, Type, Tap, ClearReply,
           PickKind, Submit, ToggleFollow, OthersAdd, OthersRemove, OthersRetype, PeerMoves,
           Disconnect, PostRefused, GraphFails, SearchFails, vars, composer
  <2>3. posting' = [posting EXCEPT !.state = "accepted"] => posting'.state # "refused"
    BY <2>1 DEF Post
  <2>4. ~Accepts(posting)
    BY <1>2, <2>2, <2>3 DEF PostServed
  <2>5. posting.parent \in KnownRow
    BY <2>1, <2>4 DEF Accepts, Post
  <2>6. posting.parent.type \in NodeTypes
    BY <2>5 DEF KnownRow
  <2>7. posting.parent # Nil
    BY <2>4 DEF Accepts
  <2>8. ValidateEdge(posting.move.type, posting.parent.type, posting.move.rel)
    BY <2>1, <2>6, <2>7, NilIsNothing DEF LegalMoves, TypeOfReply
  <2> QED
    BY <2>4, <2>8 DEF Accepts
<1>3. PhoneInv /\ PhoneInv' /\ [Next]_vars =>
        [/\ posting = Nil /\ posting' # Nil /\ posting'.parent # Nil =>
              ValidateEdge(posting'.move.type, posting'.parent.type, posting'.move.rel)
         /\ posting # Nil /\ posting.state = "sent"
              /\ posting' # Nil /\ posting'.state = "refused" =>
              \/ posting.parent.node \notin where[posting.map]
              \/ type[posting.parent.node] # posting.parent.type]_vars
  BY <1>1, <1>2
<1> QED
  BY <1>3, PhoneHolds, PTL DEF Spec, PostsAreLegal

\* Whoever is followed is on the map in view, unless they report none (who has
\* just joined does not, presence.go:77), whenever no effect is due, also
\* after the map was picked by hand or they went elsewhere or left
\* (MobileApp.tsx, the effect of following).
THEOREM FollowingIsBeingThere == Spec => []FollowedMapIsOpen
<1>1. Init => FollowedMapIsOpen
  BY DEF Init, FollowedMapIsOpen
<1>2. ASSUME PhoneInv, FollowedMapIsOpen, [Next]_vars PROVE FollowedMapIsOpen'
  <2> USE DEF FollowedMapIsOpen, Calm
  <2>1. CASE FollowEffect
    BY <1>2, <2>1 DEF FollowEffect, StirredAgain, OnAnotherMap
  <2>2. CASE Bootstrap
    <3>1. UNCHANGED <<roster, following, stirred>> /\ mapId = Nil
      BY <2>2 DEF Bootstrap, follow
    <3> QED
      BY <1>2, <3>1
  <2>3. CASE PickMap
    BY <2>3 DEF PickMap, Stirs
  <2>4. CASE Receive
    BY <1>2, <2>4 DEF Receive
  <2>5. CASE ToggleFollow
    BY <2>5 DEF ToggleFollow
  <2>6. CASE Tap
    BY <2>6 DEF Tap
  <2>7. CASE UNCHANGED <<mapId, roster, following, stirred>>
    BY <1>2, <2>7
  <2>8. \/ FollowEffect \/ Bootstrap \/ PickMap \/ Receive \/ ToggleFollow \/ Tap
        \/ UNCHANGED <<mapId, roster, following, stirred>>
    BY <1>2 DEF Next, FeedAnswers, SearchAnswers, PostAnswers, Gestures, Elsewhere, Connect,
           SearchSent, GraphServed, GraphAnswered, SearchServed, SearchAnswered, PostServed,
           PostAnswered, Type, ClearReply, PickKind, Submit, OthersAdd, OthersRemove,
           OthersRetype, PeerMoves, Disconnect, PostRefused, GraphFails, SearchFails, vars, screen,
           socket, follow
  <2> QED
    BY <2>1, <2>2, <2>3, <2>4, <2>5, <2>6, <2>7, <2>8
<1> QED
  BY <1>1, <1>2, PhoneHolds, PTL DEF Spec

LEMMA ShownHolds == Spec => [](PhoneInv /\ Shown)
<1>1. Init => PhoneInv /\ Shown
  <2> SUFFICES ASSUME Init PROVE Shown
    BY InvAtFirst
  <2>1. Range(asks) = {} /\ 0 \in 0..0
    BY DEF Init, Range
  <2> QED
    BY <2>1 DEF Init, Shown, Readings, Reads, InStep, Marked
<1>2. PhoneInv /\ Shown /\ [Next]_vars => (PhoneInv /\ Shown)'
  BY DatabaseStep, FeedStep, SocketStep, SearchingStep, ReplyingStep, ShownStep DEF PhoneInv
<1> QED
  BY <1>1, <1>2, PTL DEF Spec

\* With nothing on its way the phone shows the map as it is, every node by the
\* type it has, however often the socket went and the map was switched; unless
\* the feed is an overtaken answer's, one read before another that was already
\* shown or asked for on an earlier map, or a GET failed and nothing newer was
\* read since (MobileApp.tsx:115, against :97).
THEOREM FeedFollows == Spec => []FeedInStep
<1>1. PhoneInv /\ Shown => FeedInStep
  <2> SUFFICES ASSUME Shown, Quiet, mapId # Nil, ~crossed PROVE feed = RowsOf(where[mapId])
    BY DEF FeedInStep
  <2>1. Range(inbox) = {} /\ Range(asks) = {}
    BY DEF Quiet, Range
  <2> QED
    BY <2>1 DEF Shown, InStep, Awaited, Quiet, InView
<1> QED
  BY <1>1, ShownHolds, PTL

\* What is marked new was put on the map since it was opened (MobileApp.tsx:107),
\* unless the feed is as above, or the baseline is an overtaken answer's: then
\* the nodes of another map can be the baseline (MobileApp.tsx:98) and all of
\* this one be marked new.
THEOREM NewIsNew == Spec => []NewMeansArrivedSince
<1>1. Shown => NewMeansArrivedSince
  BY DEF Shown, Marked, NewMeansArrivedSince
<1> QED
  BY <1>1, ShownHolds, PTL
=============================================================================
