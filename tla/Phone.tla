------------------------------- MODULE Phone -------------------------------
(***************************************************************************)
(* The phone (mobile/MobileApp.tsx): one map's threads, re-fetched whole   *)
(* whenever anything is heard of; a search over every map; a composer that *)
(* offers the legal replies; and following somebody else.                  *)
(* React runs the effects of a state change before the next event is       *)
(* handled: the effects of the map and of the query are part of the steps  *)
(* that change those, the one of following is a step that comes first.     *)
(***************************************************************************)
EXTENDS Ibis, Sequences, SequencesExt, FiniteSets

CONSTANTS
    Maps, Nodes,   \* what there can be
    Mine,          \* the nodes this phone's posts become
    TypeAtFirst,   \* the type of every node that is there at first
    MapsAtFirst,   \* and the nodes of every map
    Queries,       \* what is typed into the search field
    Finds,         \* the nodes each of them matches
    Retypes,       \* the types others can give a node
    Peers,         \* gone, or what they report: [map, node], either possibly Nil
    Nil,
    Budget         \* how many gestures, changes by others and faults there are

ASSUME PhoneAssumption ==
    /\ Mine \subseteq Nodes /\ Finds \in [Queries -> SUBSET Nodes]
    /\ TypeAtFirst \in [Nodes -> NodeTypes \cup {Nil}]
    /\ MapsAtFirst \in [Maps -> SUBSET {n \in Nodes : TypeAtFirst[n] # Nil}]
    /\ Retypes \subseteq NodeTypes
    /\ Peers \subseteq [map : Maps \cup {Nil}, node : Nodes \cup {Nil}] \cup {Nil}

ASSUME NilIsNothing == Nil \notin NodeTypes \cup Nodes \cup Maps

VARIABLES
    where, type,             \* the database: nodes of each map, their types
    peer,                    \* somebody else: [map, node], or gone
    mapId, feed, seen,       \* the map, its rows as last fetched, the baseline
    asks,                    \* GETs of a graph, oldest first
    live, inbox, roster,     \* the socket, its frames, who is here
    following, stirred,      \* following the peer; its effect is due
    query, results, due, finds,   \* the search: field, list, timer, requests
    replyTo, kind, posting, \* the composer and its POST
    arrived, commits, newest, crossed, tainted, spent
    \* No part of the program: the nodes put on the map since it was opened;
    \* the commits so far, and those the newest answer that came had seen;
    \* whether the feed, and whether the baseline, came from an answer that
    \* was out of date when it came; the gestures so far.

world    == <<where, type, commits, peer>>
screen   == <<mapId, feed, seen, asks, newest, crossed, tainted>>
socket   == <<live, inbox, roster>>
follow   == <<following, stirred>>
search   == <<query, results, due, finds>>
composer == <<replyTo, kind, posting>>
vars == <<world, screen, socket, follow, search, composer, arrived, spent>>

NotYet == Nil   \* a request nobody has answered
Empty  == ""

----------------------------------------------------------------------------
(* movesFor *)

Move(t, rel) == [type |-> t, rel |-> rel]

\* Mutant of MovesFor: a note is offered arguments as an idea is.
MovesForAnything(parent) ==
    IF parent = Nil THEN <<Move("question", "questions"), Move("note", "relates_to")>>
    ELSE <<Move("pro", "supports"), Move("con", "objects_to"),
           Move("question", "questions"), Move("note", "relates_to")>>

MovesFor(parent) ==
    LET raise == <<Move("question", "questions"), Move("note", "relates_to")>>
    IN CASE parent = Nil               -> raise
         [] parent = "question"        -> <<Move("idea", "responds_to")>> \o raise
         [] parent \in {"idea", "map"} -> <<Move("pro", "supports"),
                                            Move("con", "objects_to")>> \o raise
         [] parent \in {"pro", "con"}  -> <<Move("con", "objects_to"),
                                            Move("pro", "supports")>> \o raise
         [] parent = "note"            -> raise

\* A row is a node as it was read: it keeps the type it had then, also when
\* it is what is replied to.
RowsOf(ns)     == {[node |-> n, type |-> type[n]] : n \in ns}
NodesOf(rows)  == {row.node : row \in rows}
TypeOfReply(r) == IF r = Nil THEN Nil ELSE r.type

\* Mutant of FirstKind: the kind is chosen before the row is tapped.
FirstKindOfLast(r) == MovesFor(TypeOfReply(replyTo))[1].type

FirstKind(r) == MovesFor(TypeOfReply(r))[1].type

\* The move of the chosen kind, or the first.
ChoiceOf(t, k) ==
    LET moves == MovesFor(t)
        hits  == {i \in DOMAIN moves : moves[i].type = k}
    IN moves[IF hits = {} THEN 1 ELSE CHOOSE i \in hits : \A j \in hits : i <= j]
Choice == ChoiceOf(TypeOfReply(replyTo), kind)

----------------------------------------------------------------------------
(* Steps are made of these *)

Spend == spent < Budget /\ spent' = spent + 1
Calm  == ~stirred

Ask(m) == [map |-> m, got |-> NotYet, at |-> 0, old |-> FALSE]

\* Requests made before the map was opened.
Older == [i \in DOMAIN asks |-> [asks[i] EXCEPT !.old = TRUE]]

\* An answer that was read before one that has already come.
Late(ask) == ask.old \/ ask.at < newest

Change    == [type |-> "change", peer |-> Nil]
Roster(p) == [type |-> "presence", peer |-> p]

\* A frame reaches the phone if its socket is up, and is lost otherwise.
Publish(frames) == inbox' = IF live THEN inbox \o frames ELSE inbox

\* Mutant of Baseline: the old map's nodes stay the baseline.
BaselineKept == seen

Baseline == Nil

\* The effects of another map: the baseline is dropped, the graph fetched and
\* the socket replaced, whose frames are lost.
OpenOn(m) ==
    /\ mapId' = m
    /\ seen' = Baseline
    /\ asks' = Append(Older, Ask(m))
    /\ tainted' = FALSE
    /\ live' = FALSE
    /\ inbox' = <<>>
    /\ arrived' = {}

\* Mutant of CalledOff: the effect is not cleaned up.
NotCalledOff == finds

\* The effect of another query: an older search is called off.
CalledOff == [i \in DOMAIN finds |-> [finds[i] EXCEPT !.off = TRUE]]

SetQuery(q) ==
    /\ query' = q
    /\ due' = (q # Empty)
    /\ finds' = IF q = query THEN finds ELSE CalledOff

----------------------------------------------------------------------------
(* Opening, the socket and the feed *)

\* The map last opened, or the first of the list.
Bootstrap ==
    /\ mapId = Nil /\ asks = <<>>
    /\ \E m \in Maps : OpenOn(m)
    /\ UNCHANGED <<world, feed, newest, crossed, roster, follow, search, composer, spent>>

\* Mutant of Stirs: the effect of following does not depend on the map.
StirsNot == FALSE

Stirs == following

PickMap ==
    \E m \in Maps \ {mapId} :
        /\ Calm /\ mapId # Nil
        /\ Spend
        /\ OpenOn(m)
        /\ stirred' = Stirs
        /\ SetQuery(Empty) /\ results' = Nil
        /\ UNCHANGED <<world, feed, newest, crossed, roster, following, composer>>

\* A new socket is greeted, and told who is here.
Connect ==
    /\ ~live /\ mapId # Nil
    /\ live' = TRUE
    /\ inbox' = <<Change, Roster(peer)>>
    /\ UNCHANGED <<world, screen, roster, follow, search, composer, arrived, spent>>

Disconnect ==
    /\ live
    /\ Spend
    /\ live' = FALSE /\ inbox' = <<>>
    /\ UNCHANGED <<world, screen, roster, follow, search, composer, arrived>>

\* Mutant of Refetches: a phone's own posts are not news to it.
RefetchesForOthers(frame) == frame.type = "change" /\ posting = Nil

\* Anything but the roster re-pulls the feed.
Refetches(frame) == frame.type # "presence"

Receive ==
    /\ Calm /\ inbox # <<>>
    /\ inbox' = Tail(inbox)
    /\ LET frame == Head(inbox)
       IN /\ roster' = IF frame.type = "presence" THEN frame.peer ELSE roster
          /\ stirred' = (following /\ frame.type = "presence")
          /\ asks' = IF Refetches(frame) THEN Append(asks, Ask(mapId)) ELSE asks
    /\ UNCHANGED <<world, mapId, feed, seen, newest, crossed, tainted, live, following, search,
                   composer, arrived, spent>>

GraphServed(i) ==
    /\ asks[i].got = NotYet
    /\ asks' = [asks EXCEPT ![i].got = RowsOf(where[asks[i].map]), ![i].at = commits]
    /\ UNCHANGED <<world, mapId, feed, seen, newest, crossed, tainted, socket, follow,
                   search, composer, arrived, spent>>

\* An answer is shown whatever has happened since: the map can be another one
\* by now, and a later request can already have been answered.
GraphAnswered(i) ==
    /\ Calm /\ asks[i].got # NotYet
    /\ feed' = asks[i].got
    /\ seen' = IF seen = Nil THEN NodesOf(asks[i].got) ELSE seen
    /\ tainted' = IF seen = Nil THEN Late(asks[i]) ELSE tainted
    /\ crossed' = Late(asks[i])
    /\ newest' = IF Late(asks[i]) THEN newest ELSE asks[i].at
    /\ asks' = RemoveAt(asks, i)
    /\ UNCHANGED <<world, mapId, socket, follow, search, composer, arrived, spent>>

GraphFails(i) ==
    /\ Calm
    /\ Spend
    /\ asks' = RemoveAt(asks, i)
    /\ crossed' = TRUE /\ newest' = commits
    /\ UNCHANGED <<world, mapId, feed, seen, tainted, socket, follow, search,
                   composer, arrived>>

----------------------------------------------------------------------------
(* Searching every map *)

Type ==
    \E q \in Queries \cup {Empty} :
        /\ Calm /\ q # query
        /\ Spend
        /\ SetQuery(q)
        /\ results' = IF q = Empty THEN Nil ELSE results
        /\ UNCHANGED <<world, screen, socket, follow, composer, arrived>>

SearchSent ==
    /\ due
    /\ due' = FALSE
    /\ finds' = Append(finds, [q |-> query, got |-> NotYet, off |-> FALSE])
    /\ UNCHANGED <<world, screen, socket, follow, query, results, composer,
                   arrived, spent>>

SearchServed(i) ==
    /\ finds[i].got = NotYet
    /\ finds' = [finds EXCEPT ![i].got =
                    RowsOf(Finds[finds[i].q] \cap UNION {where[m] : m \in Maps})]
    /\ UNCHANGED <<world, screen, socket, follow, query, results, due, composer,
                   arrived, spent>>

SearchAnswered(i) ==
    /\ Calm /\ finds[i].got # NotYet
    /\ results' = IF finds[i].off THEN results ELSE finds[i].got
    /\ finds' = RemoveAt(finds, i)
    /\ UNCHANGED <<world, screen, socket, follow, query, due, composer, arrived,
                   spent>>

SearchFails(i) ==
    /\ Spend
    /\ finds' = RemoveAt(finds, i)
    /\ UNCHANGED <<world, screen, socket, follow, query, results, due, composer,
                   arrived>>

----------------------------------------------------------------------------
(* Replying *)

Rows == IF results # Nil THEN results ELSE feed

\* A tapped row is what is replied to; the kind starts over when the row is
\* not the very object tapped before.
Tap ==
    \E row \in Rows :
        /\ Calm /\ Spend
        /\ replyTo' = row
        /\ kind' \in {FirstKind(row)} \cup (IF row = replyTo THEN {kind} ELSE {})
        /\ following' = FALSE
        /\ UNCHANGED <<world, screen, socket, stirred, search, posting, arrived>>

ClearReply ==
    /\ Calm /\ replyTo # Nil /\ Spend
    /\ replyTo' = Nil /\ kind' = FirstKind(Nil)
    /\ UNCHANGED <<world, screen, socket, follow, search, posting, arrived>>

PickKind ==
    \E move \in Range(MovesFor(TypeOfReply(replyTo))) :
        /\ Calm /\ mapId # Nil /\ move.type # kind /\ Spend
        /\ kind' = move.type
        /\ UNCHANGED <<world, screen, socket, follow, search, replyTo, posting,
                       arrived>>

\* What is written is left out: there is some, and it is sent.
Submit ==
    /\ Calm /\ mapId # Nil /\ posting = Nil
    /\ Mine \cap {n \in Nodes : type[n] = Nil} # {}
    /\ Spend
    /\ posting' = [parent |-> replyTo, move |-> Choice, map |-> mapId, state |-> "sent"]
    /\ UNCHANGED <<world, screen, socket, follow, search, replyTo, kind, arrived>>

\* insertEdgeTx: the parent is on the map, and has a type that can be linked to.
Accepts(post) ==
    post.parent # Nil =>
       /\ post.parent.node \in where[post.map]
       /\ ValidateEdge(post.move.type, type[post.parent.node], post.move.rel)

\* The server adds the node and its edge, or neither.
PostServed ==
    /\ posting # Nil /\ posting.state = "sent"
    /\ \/ /\ Accepts(posting)
          /\ \E n \in Mine :
                /\ type[n] = Nil
                /\ type' = [type EXCEPT ![n] = posting.move.type]
                /\ where' = [where EXCEPT ![posting.map] = @ \cup {n}]
                /\ commits' = commits + 1
                /\ arrived' = IF posting.map = mapId THEN arrived \cup {n} ELSE arrived
          /\ Publish(<<Change>>)
          /\ posting' = [posting EXCEPT !.state = "accepted"]
       \/ /\ ~Accepts(posting)
          /\ posting' = [posting EXCEPT !.state = "refused"]
          /\ UNCHANGED <<type, where, commits, arrived, inbox>>
    /\ UNCHANGED <<peer, screen, live, roster, follow, search, replyTo, kind,
                   spent>>

\* onPosted: back to the feed, which is fetched for the map posted to.
PostAnswered ==
    /\ Calm /\ posting # Nil /\ posting.state = "accepted"
    /\ posting' = Nil
    /\ replyTo' = Nil /\ kind' = FirstKind(Nil)
    /\ SetQuery(Empty) /\ results' = Nil
    /\ asks' = Append(asks, [Ask(posting.map) EXCEPT !.old = posting.map # mapId])
    /\ UNCHANGED <<world, mapId, feed, seen, newest, crossed, tainted, socket, follow,
                   arrived, spent>>

\* A refusal, or an answer that is lost, keeps what was written.
PostRefused ==
    /\ Calm /\ posting # Nil
    /\ \/ posting.state = "refused" /\ UNCHANGED spent
       \/ posting.state # "refused" /\ Spend
    /\ posting' = Nil
    /\ UNCHANGED <<world, screen, socket, follow, search, replyTo, kind, arrived>>

----------------------------------------------------------------------------
(* Following *)

ToggleFollow ==
    /\ Calm /\ mapId # Nil /\ roster # Nil
    /\ Spend
    /\ following' = ~following /\ stirred' = ~following
    /\ UNCHANGED <<world, screen, socket, search, composer, arrived>>

\* Mutant of StirredAgain: the effect changes what it depends on every time.
StirredAlways == following /\ roster # Nil

\* Who is followed reports another map than this one; who has just joined
\* reports none.
OnAnotherMap == roster # Nil /\ roster.map \notin {Nil, mapId}

StirredAgain == following /\ OnAnotherMap

\* The effect of who is followed, of what they do and of the map: following
\* ends when they are gone, their map comes first, and the feed comes back
\* when they have something selected.
FollowEffect ==
    /\ stirred
    /\ stirred' = StirredAgain
    /\ following' = (following /\ roster # Nil)
    /\ IF following /\ OnAnotherMap
       THEN OpenOn(roster.map) /\ UNCHANGED <<query, results, due, finds>>
       ELSE /\ UNCHANGED <<mapId, seen, asks, tainted, live, inbox, arrived>>
            /\ IF following /\ roster # Nil /\ roster.node # Nil
               THEN SetQuery(Empty) /\ results' = Nil
               ELSE UNCHANGED <<query, results, due, finds>>
    /\ UNCHANGED <<world, feed, newest, crossed, roster, composer, spent>>

----------------------------------------------------------------------------
(* Everybody else *)

OthersAdd ==
    \E m \in Maps : \E n \in {k \in Nodes \ Mine : type[k] # Nil} \ where[m] :
        /\ Spend
        /\ where' = [where EXCEPT ![m] = @ \cup {n}]
        /\ commits' = commits + 1
        /\ arrived' = IF m = mapId THEN arrived \cup {n} ELSE arrived
        /\ Publish(<<Change>>)
        /\ UNCHANGED <<type, peer, screen, live, roster, follow, search, composer>>

OthersRemove ==
    \E m \in Maps : \E n \in where[m] :
        /\ Spend
        /\ where' = [where EXCEPT ![m] = @ \ {n}]
        /\ commits' = commits + 1
        /\ Publish(<<Change>>)
        /\ UNCHANGED <<type, peer, screen, live, roster, follow, search, composer,
                       arrived>>

OthersRetype ==
    \E n \in Nodes, ty \in Retypes :
        /\ type[n] \notin {Nil, ty}
        /\ Spend
        /\ type' = [type EXCEPT ![n] = ty]
        /\ commits' = commits + 1
        /\ Publish(<<Change>>)
        /\ UNCHANGED <<where, peer, screen, live, roster, follow, search, composer,
                       arrived>>

PeerMoves ==
    \E p \in Peers \ {peer} :
        /\ p # Nil /\ p.node # Nil =>
              \E m \in Maps : p.map \in {m, Nil} /\ p.node \in where[m]
        /\ Spend
        /\ peer' = p
        /\ Publish(<<Roster(p)>>)
        /\ UNCHANGED <<where, type, commits, screen, live, roster, follow, search, composer,
                       arrived>>

----------------------------------------------------------------------------
(* The specification *)

Init ==
    /\ where = MapsAtFirst /\ type = TypeAtFirst
    /\ peer \in {p \in Peers : p # Nil => p.node = Nil}
    /\ mapId = Nil /\ feed = {} /\ seen = Nil /\ asks = <<>>
    /\ live = FALSE /\ inbox = <<>> /\ roster = Nil
    /\ following = FALSE /\ stirred = FALSE
    /\ query = Empty /\ results = Nil /\ due = FALSE /\ finds = <<>>
    /\ replyTo = Nil /\ kind = FirstKind(Nil) /\ posting = Nil
    /\ arrived = {} /\ commits = 0 /\ newest = 0 /\ crossed = FALSE /\ tainted = FALSE
    /\ spent = 0

FeedAnswers   == \E i \in DOMAIN asks : GraphServed(i) \/ GraphAnswered(i)
SearchAnswers == \E i \in DOMAIN finds : SearchServed(i) \/ SearchAnswered(i)
PostAnswers   == PostServed \/ PostAnswered

Gestures ==
    \/ PickMap \/ Type \/ Tap \/ ClearReply \/ PickKind \/ Submit
    \/ ToggleFollow

Elsewhere ==
    \/ OthersAdd \/ OthersRemove \/ OthersRetype \/ PeerMoves \/ Disconnect \/ PostRefused
    \/ \E i \in DOMAIN asks : GraphFails(i)
    \/ \E i \in DOMAIN finds : SearchFails(i)

Next ==
    Bootstrap \/ Connect \/ Receive \/ FollowEffect \/ SearchSent
    \/ FeedAnswers \/ SearchAnswers \/ PostAnswers \/ Gestures \/ Elsewhere

\* Effects run, timers fire, requests are answered, sockets reconnect.
Fairness ==
    /\ WF_vars(Bootstrap) /\ WF_vars(Connect) /\ WF_vars(Receive)
    /\ WF_vars(FollowEffect) /\ WF_vars(SearchSent)
    /\ WF_vars(FeedAnswers) /\ WF_vars(SearchAnswers) /\ WF_vars(PostAnswers)
    /\ WF_vars(PostRefused /\ posting.state = "refused")

Spec == Init /\ [][Next]_vars /\ Fairness

----------------------------------------------------------------------------
(* Properties *)

Row == [node : Nodes, type : NodeTypes]

\* What the phone holds; what is replied to is a node there is, and the kind
\* that is chosen is one of those offered for it.
PhoneTypeOK ==
    /\ where \in [Maps -> SUBSET Nodes] /\ type \in [Nodes -> NodeTypes \cup {Nil}]
    /\ \A m \in Maps : \A n \in where[m] : type[n] # Nil
    /\ mapId \in Maps \cup {Nil} /\ feed \subseteq Row
    /\ seen = Nil \/ seen \subseteq Nodes
    /\ query \in Queries \cup {Empty} /\ (results = Nil \/ results \subseteq Row)
    /\ kind \in {Choice.type}
    /\ replyTo = Nil \/ (replyTo \in Row /\ type[replyTo.node] # Nil)
    /\ {following, stirred, due, live, crossed, tainted} \subseteq BOOLEAN

Quiet == Calm /\ live /\ inbox = <<>> /\ asks = <<>> /\ posting = Nil

\* With nothing on its way, the phone shows the map as the database has it,
\* every node of it by the type it has, whatever was dropped or reconnected
\* (MobileApp.tsx:115: "any change from anyone re-pulls the feed").  Not so
\* (crossed) when an answer that was overtaken came last: one read before an
\* answer already shown, or asked for on the map before this one; nor when a
\* GET has failed and nothing newer was read since.
FeedInStep == Quiet /\ mapId # Nil /\ ~crossed => feed = RowsOf(where[mapId])

\* What is marked new was put on the map since it was opened
\* (MobileApp.tsx:107).  Not so when the feed is out of step as above, nor
\* (tainted) when the baseline is: the first answer after a switch is taken
\* for it (MobileApp.tsx:98), and when that is one the map before was asked
\* for, all of the new map but what the two share is marked new.
NewMeansArrivedSince ==
    seen # Nil /\ asks = <<>> /\ ~crossed /\ ~tainted =>
        NodesOf(feed) \ seen \subseteq arrived

\* There are results only while something is typed: an answer to a search
\* that was cleared or that a reply ended never takes the feed's place.
ResultsAreAsked == results # Nil => query # Empty

\* The reply that is sent is one the grammar allows for the row that was
\* tapped (MobileApp.tsx:547), whatever has been offered for another before.
\* So it is turned down only if the parent is not on the map it is posted to
\* or has been given another type since the row was read: neither the tapped
\* row nor what is offered for it follows what others do.
PostsAreLegal ==
    [][/\ posting = Nil /\ posting' # Nil /\ posting'.parent # Nil =>
             ValidateEdge(posting'.move.type, posting'.parent.type, posting'.move.rel)
       /\ posting # Nil /\ posting.state = "sent"
             /\ posting' # Nil /\ posting'.state = "refused" =>
             \/ posting.parent.node \notin where[posting.map]
             \/ type[posting.parent.node] # posting.parent.type]_vars

\* Following somebody means being on the map they report, if they report one,
\* before anything else is done (MobileApp.tsx:169), also when the map is
\* picked by hand meanwhile.
FollowedMapIsOpen ==
    Calm /\ following => roster # Nil /\ roster.map \in {Nil, mapId}

\* The threads of a map that is opened are shown in the end: neither the switch
\* nor the socket swallows the request.
FeedLoads == mapId # Nil ~> seen # Nil \/ crossed
=============================================================================
