---------------------------- MODULE ClientProofs ----------------------------
(***************************************************************************)
(* What a tab that writes shows, for any number of maps, nodes, calls of   *)
(* others and gestures.                                                    *)
(***************************************************************************)
EXTENDS Client, SequenceTheorems, TLAPS

-----------------------------------------------------------------------------
(* The bag of requests. *)

LEMMA MoreAsked ==
    ASSUME NEW b, IsABag(b), NEW S
    PROVE  /\ IsABag(b (+) SetToBag(S))
           /\ DOMAIN (b (+) SetToBag(S)) = DOMAIN b \cup S
           /\ \A x \in S \ DOMAIN b : (b (+) SetToBag(S))[x] = 1
           /\ \A x \in DOMAIN b \ S : (b (+) SetToBag(S))[x] = b[x]
BY DEF IsABag, SetToBag, (+)

LEMMA OneLess ==
    ASSUME NEW b, IsABag(b), NEW r
    PROVE  /\ IsABag(b (-) SetToBag({r}))
           /\ DOMAIN (b (-) SetToBag({r})) \subseteq DOMAIN b
           /\ DOMAIN b \ {r} \subseteq DOMAIN (b (-) SetToBag({r}))
           /\ b[r] = 1 => r \notin DOMAIN (b (-) SetToBag({r}))
           /\ \A x \in DOMAIN b \ {r} : (b (-) SetToBag({r}))[x] = b[x]
BY DEF IsABag, SetToBag, (-)

\* A request is settled, and others are sent in its stead.
Swapped(b, r, S, c) ==
    /\ IsABag(c)
    /\ DOMAIN c \subseteq DOMAIN b \cup S
    /\ (DOMAIN b \ {r}) \cup S \subseteq DOMAIN c
    /\ b[r] = 1 /\ r \notin S => r \notin DOMAIN c
    /\ \A x \in DOMAIN b \ (S \cup {r}) : c[x] = b[x]
    /\ \A x \in S : x \notin DOMAIN b \/ (x = r /\ b[r] = 1) => c[x] = 1

LEMMA Exchanged ==
    ASSUME NEW b, IsABag(b), NEW r \in DOMAIN b, NEW S, NEW c,
           c = b (-) SetToBag({r}) (+) SetToBag(S)
    PROVE  Swapped(b, r, S, c)
<1> DEFINE less == b (-) SetToBag({r})
<1>1. /\ IsABag(less)
      /\ DOMAIN less \subseteq DOMAIN b
      /\ DOMAIN b \ {r} \subseteq DOMAIN less
      /\ b[r] = 1 => r \notin DOMAIN less
      /\ \A x \in DOMAIN b \ {r} : less[x] = b[x]
  BY OneLess
<1>2. c = less (+) SetToBag(S)
  OBVIOUS
<1> HIDE DEF less
<1>3. /\ IsABag(c) /\ DOMAIN c = DOMAIN less \cup S
      /\ \A x \in S \ DOMAIN less : c[x] = 1
      /\ \A x \in DOMAIN less \ S : c[x] = less[x]
  BY <1>1, <1>2 DEF IsABag, SetToBag, (+)
<1> QED
  BY <1>1, <1>3 DEF Swapped

-----------------------------------------------------------------------------
(* Events, as a sequence. *)

IsSeq(s) == s \in Seq(Range(s))

LEMMA SeqIsSeq ==
    ASSUME NEW S, NEW s \in Seq(S)
    PROVE  IsSeq(s)
BY DEF IsSeq, Range

LEMMA JoinedSeq ==
    ASSUME NEW s, IsSeq(s), NEW t, IsSeq(t)
    PROVE  IsSeq(s \o t)
<1> DEFINE S == Range(s) \cup Range(t)
<1>1. s \in Seq(S) /\ t \in Seq(S)
  BY DEF IsSeq
<1> HIDE DEF S
<1>2. s \o t \in Seq(S)
  BY <1>1, ConcatProperties
<1> QED
  BY <1>2, SeqIsSeq

LEMMA SingleSeq == ASSUME NEW e PROVE IsSeq(<<e>>) /\ <<>> \o <<e>> = <<e>>
<1>1. <<e>> \in Seq({e}) /\ <<>> \in Seq({e})
  OBVIOUS
<1> QED
  BY <1>1, SeqIsSeq, ConcatEmptySeq

LEMMA EventsAreSeq == ASSUME NEW q PROVE IsSeq(Events(q))
<1>1. IsSeq(<<>>)
  <2>1. <<>> \in Seq({})
    OBVIOUS
  <2> QED
    BY <2>1, SeqIsSeq
<1>2. \A kind, m, what : IsSeq(Event(kind, m, what))
  BY SingleSeq DEF Event
<1>3. \A kind, m, what, s : IsSeq(s) => IsSeq(Event(kind, m, what) \o s)
  BY <1>2, JoinedSeq
<1> HIDE DEF Event, IsSeq
<1> QED
  BY <1>1, <1>2, <1>3 DEF Events

\* The events that are left, and one more.
LEMMA InboxSeq ==
    ASSUME NEW s, IsSeq(s)
    PROVE  /\ \A e : IsSeq(Append(s, e)) /\ Range(Append(s, e)) = Range(s) \cup {e}
           /\ s # <<>> => /\ IsSeq(Tail(s)) /\ Range(Tail(s)) \subseteq Range(s)
                          /\ Range(s) \subseteq Range(Tail(s)) \cup {Head(s)}
                          /\ Head(s) \in Range(s)
<1>1. Len(s) \in Nat /\ DOMAIN s = 1..Len(s) /\ s \in Seq(Range(s))
  BY DEF IsSeq
<1>2. ASSUME NEW e PROVE IsSeq(Append(s, e)) /\ Range(Append(s, e)) = Range(s) \cup {e}
  <2>1. s \in Seq(Range(s) \cup {e})
    BY <1>1
  <2>2. /\ Append(s, e) \in Seq(Range(s) \cup {e})
        /\ Len(Append(s, e)) = Len(s) + 1
        /\ \A i \in 1..Len(s) : Append(s, e)[i] = s[i]
        /\ Append(s, e)[Len(s) + 1] = e
    BY <2>1, AppendProperties
  <2> DEFINE t == Append(s, e)
  <2>3. DOMAIN t = DOMAIN s \cup {Len(s) + 1}
    BY <1>1, <2>2
  <2> HIDE DEF t
  <2>4. Range(t) = Range(s) \cup {e}
    BY <1>1, <2>2, <2>3 DEF Range, t
  <2> QED
    BY <2>2, <2>4, SeqIsSeq DEF t
<1>3. ASSUME s # <<>>
      PROVE  /\ IsSeq(Tail(s)) /\ Range(Tail(s)) \subseteq Range(s)
             /\ Range(s) \subseteq Range(Tail(s)) \cup {Head(s)}
             /\ Head(s) \in Range(s)
  <2>1. /\ Head(s) \in Range(s) /\ Head(s) = s[1]
        /\ Tail(s) \in Seq(Range(s)) /\ Len(Tail(s)) = Len(s) - 1
        /\ \A i \in 1..Len(Tail(s)) : Tail(s)[i] = s[i + 1]
    BY <1>1, <1>3, HeadTailProperties
  <2> DEFINE t == Tail(s)
  <2>2. DOMAIN t = 1..(Len(s) - 1) /\ \A i \in DOMAIN t : t[i] = s[i + 1]
    BY <1>1, <2>1
  <2> HIDE DEF t
  <2>3. Range(t) \subseteq Range(s)
    BY <1>1, <2>2 DEF Range
  <2>4. Range(s) \subseteq Range(t) \cup {Head(s)}
    <3> SUFFICES ASSUME NEW i \in DOMAIN s PROVE s[i] \in Range(t) \cup {Head(s)}
      BY DEF Range
    <3>1. CASE i = 1
      BY <2>1, <3>1
    <3>2. CASE i # 1
      <4>1. i - 1 \in DOMAIN t /\ t[i - 1] = s[i]
        BY <1>1, <2>2, <3>2
      <4> QED
        BY <4>1 DEF Range
    <3> QED
      BY <3>1, <3>2
  <2> QED
    BY <2>1, <2>3, <2>4, SeqIsSeq DEF t
<1> QED
  BY <1>2, <1>3

-----------------------------------------------------------------------------
(* Maps are made and unmade by their own calls alone. *)

LEMMA MapsKept ==
    ASSUME NEW q, Perform(q), q.op \notin {"createMap", "deleteMap"}
    PROVE  maps' = maps
BY DEF Perform, CreateNode, UpdateNode, ApplyEdit, BulkUpdateNodes, SetPlacement, Transclude,
       RemoveFromMap, DeleteNode, CreateEdge, DeleteEdge, CreateGroup, UpdateGroup, MoveGroup,
       SetGroupMembers, DeleteGroup

MapNews == {"map.created", "map.deleted"}

LEMMA NewsOfMaps ==
    ASSUME NEW q, Perform(q), maps' # maps
    PROVE  \E e : e.kind \in MapNews /\ Events(q) = <<e>>
<1>1. q.op \in {"createMap", "deleteMap"}
  BY MapsKept
<1>2. CASE q.op = "createMap"
  BY <1>2 DEF Events, Event, MapNews
<1>3. CASE q.op = "deleteMap"
  BY <1>3 DEF Events, Event, MapNews
<1> QED
  BY <1>1, <1>2, <1>3

-----------------------------------------------------------------------------
(* The picker: what is under way about the list of maps. *)

ListAsks  == {"listMaps", "bootstrap", "newMap"}
GraphAsks == {"openMap", "reload"}

\* Who asked what.
Labelled(r) ==
    /\ r = [by |-> r.by, do |-> r.do, was |-> r.was, state |-> r.state, says |-> r.says]
    /\ r.by \in ListAsks <=> r.do.op = "listMaps"
    /\ r.by \in GraphAsks <=> r.do.op = "graph"
    /\ r.by = "createMap" <=> r.do.op = "createMap"
    /\ r.do.op # "deleteMap"

Wired ==
    /\ IsABag(inflight)
    /\ \A r \in Asked : Labelled(r)
    /\ IsSeq(inbox)

\* A list that is answered is the one there is.
Fresh == \A r \in Asked : r.do.op = "listMaps" /\ r.state = "answered" => r.says = maps

\* While a map is being made nothing else is heard of maps.
Alone(r) ==
    /\ inflight[r] = 1
    /\ \A s \in Asked \ {r} : s.do.op \notin {"createMap", "listMaps"}
    /\ \A e \in Range(inbox) : e.kind \notin MapNews
AloneInMaking == \A r \in Asked : r.do.op = "createMap" => Alone(r)

\* The picker is right, or will be asked to be.
Telling(r) ==
    \/ r.do.op = "createMap" /\ r.state = "answered"
    \/ r.do.op = "listMaps" /\ r.state # "failed"
Coming ==
    \/ list = maps
    \/ \E r \in Asked : Telling(r)
    \/ \E e \in Range(inbox) : e.kind \in MapNews

ListKnown == Fresh /\ AloneInMaking /\ Coming
PickerInv == Wired /\ ("list" \notin off => ListKnown)

LEMMA QuietIsEmpty ==
    ASSUME Quiet
    PROVE  Asked = {} /\ Range(inbox) = {}
BY DEF Quiet, Asked, EmptyBag, SetToBag, BagToSet, Range

LEMMA LabelledRequest ==
    ASSUME NEW by, NEW q, NEW was,
           by \in ListAsks <=> q.op = "listMaps", by \in GraphAsks <=> q.op = "graph",
           by = "createMap" <=> q.op = "createMap", q.op # "deleteMap"
    PROVE  /\ Labelled(Request(by, q, was))
           /\ Request(by, q, was).do = q /\ Request(by, q, was).state = "waiting"
BY DEF Labelled, Request

\* Requests that are about no map's being there.
Idle(b) ==
    \E S : /\ b = SetToBag(S)
           /\ \A r \in S : /\ Labelled(r) /\ r.state = "waiting"
                          /\ r.do.op \notin {"createMap", "listMaps"}
Making(b) ==
    \E r : b = SetToBag({r}) /\ Labelled(r) /\ r.state = "waiting" /\ r.do.op = "createMap"

LEMMA GestureKeepsPicker ==
    ASSUME PickerInv, NEW parts, GestureParting(parts),
           NEW b, Idle(b) \/ Making(b), inflight' = inflight (+) b
    PROVE  PickerInv'
<1>1. PICK S : /\ b = SetToBag(S)
               /\ \A r \in S : Labelled(r) /\ r.do.op # "listMaps" /\ (r.do.op = "createMap" => S = {r})
  <2>1. CASE Idle(b)
    <3>1. PICK S : b = SetToBag(S) /\ \A r \in S : Labelled(r) /\ r.do.op \notin {"createMap", "listMaps"}
      BY <2>1 DEF Idle
    <3> HIDE DEF Labelled
    <3> QED
      BY <3>1
  <2>2. CASE Making(b)
    <3>1. PICK r : b = SetToBag({r}) /\ Labelled(r) /\ r.do.op = "createMap"
      BY <2>2 DEF Making
    <3>2. \A x \in {r} : Labelled(x) /\ x.do.op # "listMaps" /\ (x.do.op = "createMap" => {r} = {x})
      BY <3>1
    <3> QED
      BY <3>1, <3>2
  <2> QED
    BY <2>1, <2>2
<1>2. /\ IsABag(inflight') /\ DOMAIN inflight' = DOMAIN inflight \cup S
      /\ \A x \in S \ DOMAIN inflight : inflight'[x] = 1
  BY <1>1 DEF PickerInv, Wired, IsABag, SetToBag, (+)
<1>3. Wired'
  BY <1>1, <1>2 DEF PickerInv, Wired, Asked, BagToSet, GestureParting
<1>4. ASSUME "list" \notin off' PROVE ListKnown'
  <2>1. Quiet /\ "list" \notin off /\ UNCHANGED <<maps, list, inbox>>
    BY <1>4 DEF GestureParting, tables
  <2>2. Asked = {} /\ Range(inbox) = {} /\ Asked' = S
    BY <2>1, <1>2, QuietIsEmpty DEF Asked, BagToSet
  <2>3. list' = maps'
    BY <2>1, <2>2 DEF PickerInv, ListKnown, Coming
  <2>4. Fresh'
    BY <1>1, <2>2 DEF Fresh
  <2>5. AloneInMaking'
    <3> SUFFICES ASSUME NEW r \in S, r.do.op = "createMap" PROVE Alone(r)'
      BY <2>2 DEF AloneInMaking
    <3>1. S = {r} /\ inflight'[r] = 1
      BY <1>1, <1>2, <2>2 DEF Asked, BagToSet
    <3>2. Range(inbox') = {}
      BY <2>1, <2>2
    <3> QED
      BY <2>2, <3>1, <3>2 DEF Alone
  <2> QED
    BY <2>3, <2>4, <2>5 DEF ListKnown, Coming
<1> QED
  BY <1>3, <1>4 DEF PickerInv

LEMMA IdleAsks ==
    /\ \A by, q, was : by \notin ListAsks \cup {"createMap"}
                       /\ q.op \notin {"listMaps", "deleteMap", "createMap"}
                       /\ (by \in GraphAsks <=> q.op = "graph")
                       => Idle(Keeping(by, q, was)) /\ Idle(Ask(by, q))
    /\ Idle(ReloadAsk) /\ Idle(EmptyBag)
    /\ \A s : Idle(LayoutAsks(s))
<1>1. ASSUME NEW by, NEW q, NEW was, by \notin ListAsks \cup {"createMap"},
             q.op \notin {"listMaps", "deleteMap", "createMap"},
             by \in GraphAsks <=> q.op = "graph"
      PROVE  Idle(Keeping(by, q, was)) /\ Idle(Ask(by, q))
  <2>1. /\ Labelled(Request(by, q, was)) /\ Request(by, q, was).do = q
        /\ Labelled(Request(by, q, Nothing)) /\ Request(by, q, Nothing).do = q
        /\ Request(by, q, was).state = "waiting" /\ Request(by, q, Nothing).state = "waiting"
    BY <1>1, LabelledRequest
  <2> HIDE DEF Request, Labelled
  <2> QED
    BY <1>1, <2>1 DEF Idle, Keeping, Ask
<1>2. Idle(EmptyBag)
  BY DEF Idle, EmptyBag
<1>3. Idle(ReloadAsk)
  <2>1. GraphCall(mapId).op = "graph"
    BY DEF GraphCall
  <2>2. Idle(Ask("reload", GraphCall(mapId)))
    BY <1>1, <2>1 DEF ListAsks, GraphAsks
  <2> QED
    BY <1>2, <2>2 DEF ReloadAsk
<1>4. ASSUME NEW s PROVE Idle(LayoutAsks(s))
  <2>1. ASSUME NEW n
        PROVE  /\ Labelled(Request("runAutoLayout", MoveCall(mapId, n, Tidy), Nothing))
               /\ Request("runAutoLayout", MoveCall(mapId, n, Tidy), Nothing).do.op = "moveNode"
               /\ Request("runAutoLayout", MoveCall(mapId, n, Tidy), Nothing).state = "waiting"
    <3>1. MoveCall(mapId, n, Tidy).op = "moveNode"
      BY DEF MoveCall
    <3> QED
      BY <3>1, LabelledRequest DEF ListAsks, GraphAsks
  <2> DEFINE S == {Request("runAutoLayout", MoveCall(mapId, n, Tidy), Nothing) : n \in DOMAIN s.nodes}
  <2>2. \A r \in S : /\ Labelled(r) /\ r.state = "waiting"
                     /\ r.do.op \notin {"createMap", "listMaps"}
    BY <2>1
  <2>3. LayoutAsks(s) = SetToBag(S)
    BY DEF LayoutAsks
  <2> HIDE DEF S
  <2> QED
    BY <2>2, <2>3 DEF Idle
<1> QED
  BY <1>1, <1>2, <1>3, <1>4

LEMMA EditAsks ==
    ASSUME EditNode \/ Connect \/ EditSeveral \/ RunAutoLayout \/ UndoOrRedo
    PROVE  /\ \E parts : GestureParting(parts)
           /\ \E b : Idle(b) /\ inflight' = inflight (+) b
<1> USE IdleAsks DEF Gesture, ListAsks, GraphAsks, Show, Send
<1>1. CASE EditNode
  BY <1>1 DEF EditNode, CommitTitle, MoveNode, PatchNode, RemoveShown, UpdateCall, MoveCall,
              RemoveCall, DeleteCall
<1>2. CASE Connect
  BY <1>2 DEF Connect, CreateChild, InsertExisting, Link, Unlink, CreateNodeCall, InsertCall,
              LinkCall, UnlinkCall
<1>3. CASE EditSeveral
  BY <1>3 DEF EditSeveral, BulkUpdate, GroupSelection, UngroupSelected, RenameShown, DragGroup,
              BulkCall, GroupCall, UngroupCall, RenameCall, DragCall
<1>4. CASE RunAutoLayout \/ UndoOrRedo
  BY <1>4 DEF RunAutoLayout, UndoOrRedo, UndoCall
<1> QED
  BY <1>1, <1>2, <1>3, <1>4

LEMMA UserAsks ==
    ASSUME User
    PROVE  /\ \E parts : GestureParting(parts)
           /\ \E b : (Idle(b) \/ Making(b)) /\ inflight' = inflight (+) b
<1>1. CASE EditNode \/ Connect \/ EditSeveral \/ RunAutoLayout \/ UndoOrRedo
  BY <1>1, EditAsks
<1>2. CASE \E m \in Map : OpenMap(m)
  <2>1. \A m : GraphCall(m).op = "graph"
    BY DEF GraphCall
  <2>2. \A m : Idle(Ask("openMap", GraphCall(m)))
    BY <2>1, IdleAsks DEF ListAsks, GraphAsks
  <2> QED
    BY <1>2, <2>2 DEF Gesture, OpenMap, Opening
<1>3. CASE \E m \in Map : NewMap(m)
  <2>1. \A m : CreateMapCall(m).op = "createMap"
    BY DEF CreateMapCall
  <2>2. ASSUME NEW m PROVE Making(Ask("createMap", CreateMapCall(m)))
    <3>1. /\ Labelled(Request("createMap", CreateMapCall(m), Nothing))
          /\ Request("createMap", CreateMapCall(m), Nothing).do = CreateMapCall(m)
          /\ Request("createMap", CreateMapCall(m), Nothing).state = "waiting"
      BY <2>1, LabelledRequest DEF ListAsks, GraphAsks
    <3> QED
      BY <2>1, <3>1 DEF Making, Ask, Keeping
  <2> QED
    BY <1>3, <2>2 DEF Gesture, NewMap, Send, Show
<1> QED
  BY <1>1, <1>2, <1>3 DEF User

LEMMA UserKeepsPicker == PickerInv /\ User => PickerInv'
BY UserAsks, GestureKeepsPicker

-----------------------------------------------------------------------------
(* A request is settled: only idle ones follow, and nothing is heard of maps. *)

LEMMA InflightSwapped ==
    ASSUME Wired, NEW r \in Asked, NEW S, inflight' = inflight (-) SetToBag({r}) (+) SetToBag(S)
    PROVE  Swapped(inflight, r, S, inflight')
<1>1. IsABag(inflight) /\ r \in DOMAIN inflight
  BY DEF Wired, Asked, BagToSet
<1> QED
  BY <1>1, Exchanged, Zenon

LEMMA IdleExchange ==
    ASSUME PickerInv, NEW r \in Asked, NEW b, Idle(b), inflight' = inflight (-) SetToBag({r}) (+) b,
           UNCHANGED <<maps, list, inbox>>, ("list" \in off') <=> ("list" \in off),
           "list" \notin off => ~Telling(r)
    PROVE  PickerInv'
<1>1. PICK S : b = SetToBag(S) /\ \A x \in S : Labelled(x) /\ x.do.op \notin {"createMap", "listMaps"}
  BY DEF Idle
<1>2. /\ IsABag(inflight') /\ Asked' \subseteq Asked \cup S
      /\ (Asked \ {r}) \cup S \subseteq Asked'
      /\ \A x \in Asked \ (S \cup {r}) : inflight'[x] = inflight[x]
      /\ inflight[r] = 1 /\ r \notin S => r \notin Asked'
  <2>1. IsABag(inflight) /\ r \in DOMAIN inflight
    BY DEF PickerInv, Wired, Asked, BagToSet
  <2> QED
    BY <1>1, <2>1, InflightSwapped DEF Swapped, PickerInv, Asked, BagToSet
<1>3. Wired'
  BY <1>1, <1>2 DEF PickerInv, Wired
<1>4. ASSUME "list" \notin off' PROVE ListKnown'
  <2>1. ListKnown /\ ~Telling(r)
    BY <1>4 DEF PickerInv
  <2>2. Fresh'
    BY <1>1, <1>2, <2>1 DEF ListKnown, Fresh
  <2>3. AloneInMaking'
    <3> SUFFICES ASSUME NEW x \in Asked', x.do.op = "createMap" PROVE Alone(x)'
      BY DEF AloneInMaking
    <3>1. x \in Asked /\ x \notin S /\ Alone(x)
      BY <1>1, <1>2, <2>1 DEF ListKnown, AloneInMaking
    <3>2. x # r
      BY <1>1, <1>2, <3>1 DEF Alone
    <3> QED
      BY <1>1, <1>2, <3>1, <3>2 DEF Alone
  <2>4. Coming'
    BY <1>2, <2>1 DEF ListKnown, Coming, Telling
  <2> QED
    BY <2>2, <2>3, <2>4 DEF ListKnown
<1> QED
  BY <1>3, <1>4 DEF PickerInv

\* A list comes in.
LEMMA ListArrives ==
    ASSUME PickerInv, NEW r \in Asked, r.do.op = "listMaps", r.state = "answered", list' = r.says,
           NEW b, Idle(b), inflight' = inflight (-) SetToBag({r}) (+) b,
           UNCHANGED <<maps, inbox>>, ("list" \in off') <=> ("list" \in off)
    PROVE  PickerInv'
<1>1. PICK S : b = SetToBag(S) /\ \A x \in S : Labelled(x) /\ x.do.op \notin {"createMap", "listMaps"}
  BY DEF Idle
<1>2. IsABag(inflight') /\ Asked' \subseteq Asked \cup S
  <2>1. IsABag(inflight) /\ r \in DOMAIN inflight
    BY DEF PickerInv, Wired, Asked, BagToSet
  <2> QED
    BY <1>1, <2>1, InflightSwapped DEF Swapped, PickerInv, Asked, BagToSet
<1>3. Wired'
  BY <1>1, <1>2 DEF PickerInv, Wired
<1>4. ASSUME "list" \notin off' PROVE ListKnown'
  <2>1. ListKnown
    BY <1>4 DEF PickerInv
  <2>2. \A x \in Asked : x.do.op # "createMap"
    BY <2>1 DEF ListKnown, AloneInMaking, Alone
  <2>3. list' = maps' /\ Fresh' /\ AloneInMaking'
    BY <1>1, <1>2, <2>1, <2>2 DEF ListKnown, Fresh, AloneInMaking
  <2> QED
    BY <2>3 DEF ListKnown, Coming
<1> QED
  BY <1>3, <1>4 DEF PickerInv

\* A map has been made, and the list is asked for.
LEMMA MapIsMade ==
    ASSUME PickerInv, NEW r \in Asked, r.do.op = "createMap", r.state = "answered",
           inflight' = inflight (-) SetToBag({r}) (+) Keeping("newMap", ListCall, r.do.map),
           UNCHANGED <<maps, list, inbox>>, ("list" \in off') <=> ("list" \in off)
    PROVE  PickerInv'
<1> DEFINE q == Request("newMap", ListCall, r.do.map)
<1>1. Labelled(q) /\ q.do.op = "listMaps" /\ q.state = "waiting"
  BY LabelledRequest DEF ListCall, ListAsks, GraphAsks
<1>2. Keeping("newMap", ListCall, r.do.map) = SetToBag({q})
  BY DEF Keeping
<1> HIDE DEF q
<1>3. /\ IsABag(inflight') /\ Asked' \subseteq Asked \cup {q} /\ q \in Asked'
      /\ inflight[r] = 1 => r \notin Asked'
  <2>1. IsABag(inflight) /\ r \in DOMAIN inflight
    BY DEF PickerInv, Wired, Asked, BagToSet
  <2>2. r # q
    BY <1>1
  <2> QED
    BY <1>2, <2>1, <2>2, InflightSwapped DEF Swapped, PickerInv, Asked, BagToSet
<1>4. Wired'
  BY <1>1, <1>3 DEF PickerInv, Wired
<1>5. ASSUME "list" \notin off' PROVE ListKnown'
  <2>1. Alone(r)
    BY <1>5 DEF PickerInv, ListKnown, AloneInMaking
  <2>2. \A x \in Asked' : x = q \/ x.do.op \notin {"createMap", "listMaps"}
    BY <1>3, <2>1 DEF Alone
  <2>3. Fresh' /\ AloneInMaking'
    BY <1>1, <2>2 DEF Fresh, AloneInMaking
  <2>4. Coming'
    BY <1>1, <1>3 DEF Coming, Telling
  <2> QED
    BY <2>3, <2>4 DEF ListKnown
<1> QED
  BY <1>4, <1>5 DEF PickerInv

LEMMA SettleKeepsPicker ==
    ASSUME PickerInv, NEW r \in Asked, Settle(r)
    PROVE  PickerInv'
<1>1. UNCHANGED <<maps, inbox>> /\ (("list" \in off') <=> ("list" \in off))
  BY DEF Settle, tables
<1>2. Labelled(r)
  BY DEF PickerInv, Wired
<1>3. CASE r.state = "failed" /\ GiveUp(r)
  <2>1. list' = list /\ \E b : Idle(b) /\ inflight' = inflight (-) SetToBag({r}) (+) b
    BY <1>3, IdleAsks DEF GiveUp, Leave
  <2>2. ~Telling(r)
    BY <1>3 DEF Telling
  <2> QED
    BY <1>1, <2>1, <2>2, IdleExchange
<1>4. CASE WrittenAnswer(r) \/ GraphAnswer(r)
  <2>1. list' = list /\ \E b : Idle(b) /\ inflight' = inflight (-) SetToBag({r}) (+) b
    BY <1>4, IdleAsks DEF WrittenAnswer, GraphAnswer, PaintGraph, Paint, Drop, Leave
  <2>2. r.by \notin ListAsks \cup {"createMap"}
    BY <1>4 DEF WrittenAnswer, GraphAnswer, ListAsks
  <2>3. ~Telling(r)
    BY <1>2, <2>2 DEF Telling, Labelled
  <2> QED
    BY <1>1, <2>1, <2>3, IdleExchange
<1>5. CASE r.state = "answered" /\ ListAnswer(r)
  <2>1. CASE r.by = "createMap"
    <3>1. r.do.op = "createMap"
      BY <1>2, <2>1 DEF Labelled
    <3>2. Paint(r, screen, Keeping("newMap", ListCall, r.do.map))
      BY <1>5, <2>1 DEF ListAnswer
    <3> QED
      BY <1>1, <1>5, <3>1, <3>2, MapIsMade DEF Paint, Leave
  <2>2. CASE r.by # "createMap"
    <3>1. r.by \in ListAsks /\ list' = r.says
      BY <1>5, <2>2 DEF ListAnswer, ListAsks
    <3>2. r.do.op = "listMaps"
      BY <1>2, <3>1 DEF Labelled
    <3>3. \E b : Idle(b) /\ inflight' = inflight (-) SetToBag({r}) (+) b
      <4>1. \A m : Idle(Ask("openMap", GraphCall(m)))
        BY IdleAsks DEF GraphCall, ListAsks, GraphAsks
      <4> QED
        BY <1>5, <2>2, <4>1, IdleAsks DEF ListAnswer, Opening, Leave
    <3> QED
      BY <1>1, <1>5, <3>1, <3>2, <3>3, ListArrives
  <2> QED
    BY <2>1, <2>2
<1> QED
  BY <1>3, <1>4, <1>5 DEF Settle

-----------------------------------------------------------------------------
(* A request is served, refused or lost. *)

Turn(r, st, says) == [r EXCEPT !.state = st, !.says = says]

LEMMA SameRequest ==
    ASSUME NEW r, Labelled(r), NEW st, NEW says
    PROVE  LET x == Turn(r, st, says)
           IN Labelled(x) /\ x.by = r.by /\ x.do = r.do /\ x.state = st /\ x.says = says
<1> SUFFICES ASSUME NEW x, x = [r EXCEPT !.state = st, !.says = says]
             PROVE  Labelled(x) /\ x.by = r.by /\ x.do = r.do /\ x.state = st /\ x.says = says
  BY DEF Turn
<1>1. r = [by |-> r.by, do |-> r.do, was |-> r.was, state |-> r.state, says |-> r.says]
  BY DEF Labelled
<1>2. x = [by |-> x.by, do |-> x.do, was |-> x.was, state |-> x.state, says |-> x.says]
  BY <1>1
<1>3. x.by = r.by /\ x.do = r.do /\ x.state = st /\ x.says = says
  BY <1>1
<1> QED
  BY <1>2, <1>3 DEF Labelled

\* What becomes of it takes its place.
Turned(r, x) ==
    /\ Labelled(x) /\ x.by = r.by /\ x.do = r.do
    /\ IsABag(inflight') /\ \A y \in Asked' : Labelled(y)
    /\ Asked' \subseteq Asked \cup {x} /\ (Asked \ {r}) \cup {x} \subseteq Asked'
    /\ inflight[r] = 1 /\ r # x => r \notin Asked'
    /\ x \notin Asked \/ (x = r /\ inflight[r] = 1) => inflight'[x] = 1
    /\ \A y \in Asked \ {r, x} : inflight'[y] = inflight[y]

LEMMA BecomesAnother ==
    ASSUME Wired, NEW r \in Asked, NEW st, NEW says, NEW x, x = Turn(r, st, says), Becomes(r, x)
    PROVE  Turned(r, x) /\ x.state = st /\ x.says = says
<1>1. Labelled(x) /\ x.by = r.by /\ x.do = r.do /\ x.state = st /\ x.says = says
  BY SameRequest DEF Wired
<1>2. Swapped(inflight, r, {x}, inflight')
  BY InflightSwapped DEF Becomes
<1>3. /\ Asked' \subseteq Asked \cup {x} /\ (Asked \ {r}) \cup {x} \subseteq Asked'
      /\ inflight[r] = 1 /\ r # x => r \notin Asked'
      /\ x \notin Asked \/ (x = r /\ inflight[r] = 1) => inflight'[x] = 1
      /\ \A y \in Asked \ {r, x} : inflight'[y] = inflight[y]
      /\ IsABag(inflight')
  BY <1>2 DEF Swapped, Asked, BagToSet
<1>4. \A y \in Asked' : Labelled(y)
  BY <1>1, <1>3 DEF Wired
<1> QED
  BY <1>1, <1>3, <1>4 DEF Turned

\* While nothing is done about maps, a request may be served, refused or lost.
LEMMA TurningKeepsPicker ==
    ASSUME PickerInv, NEW r \in Asked, NEW x, Turned(r, x), UNCHANGED <<list, inbox>>,
           "list" \notin off' => /\ "list" \notin off
                                 /\ r.do.op = "listMaps" => /\ x.state # "failed" /\ maps' = maps
                                                            /\ x.state = "answered" => x.says = maps
                                 /\ \/ maps' = maps /\ (r.do.op = "createMap" => ~Telling(r))
                                    \/ r.do.op = "createMap" /\ x.state = "answered"
    PROVE  PickerInv'
<1>1. Wired'
  BY DEF PickerInv, Wired, Turned
<1>2. ASSUME "list" \notin off' PROVE ListKnown'
  <2>1. ListKnown
    BY <1>2 DEF PickerInv
  <2>2. AloneInMaking'
    <3> SUFFICES ASSUME NEW y \in Asked', y.do.op = "createMap" PROVE Alone(y)'
      BY DEF AloneInMaking
    <3>1. CASE y = x
      <4>1. r.do.op = "createMap" /\ Alone(r)
        BY <2>1, <3>1 DEF Turned, ListKnown, AloneInMaking
      <4>2. inflight'[x] = 1
        BY <4>1, <3>1 DEF Turned, Alone
      <4>3. \A s \in Asked' \ {x} : s.do.op \notin {"createMap", "listMaps"}
        BY <4>1 DEF Turned, Alone
      <4> QED
        BY <3>1, <4>1, <4>2, <4>3 DEF Alone
    <3>2. CASE y # x
      <4>1. y \in Asked /\ Alone(y)
        BY <2>1, <3>2 DEF Turned, ListKnown, AloneInMaking
      <4>2. y # r
        <5> SUFFICES ASSUME y = r PROVE FALSE
          OBVIOUS
        <5> QED
          BY <3>2, <4>1 DEF Turned, Alone
      <4>3. r.do.op \notin {"createMap", "listMaps"}
        BY <4>1, <4>2 DEF Alone
      <4> QED
        BY <3>2, <4>1, <4>2, <4>3 DEF Turned, Alone
    <3> QED
      BY <3>1, <3>2
  <2>3. Fresh'
    <3>1. CASE maps' = maps
      BY <1>2, <2>1, <3>1 DEF Turned, ListKnown, Fresh
    <3>2. CASE r.do.op = "createMap"
      BY <2>1, <3>2 DEF Turned, ListKnown, Fresh, AloneInMaking, Alone
    <3> QED
      BY <1>2, <3>1, <3>2
  <2>4. Coming'
    <3>1. CASE r.do.op = "createMap" /\ x.state = "answered"
      BY <3>1 DEF Turned, Coming, Telling
    <3>2. CASE maps' = maps /\ (r.do.op = "createMap" => ~Telling(r))
      <4>1. Telling(r) => Telling(x)
        BY <1>2, <3>2 DEF Turned, Telling
      <4>2. \A y \in Asked : Telling(y) => y \in Asked' \/ y = r
        BY DEF Turned
      <4> QED
        BY <2>1, <3>2, <4>1, <4>2 DEF ListKnown, Coming, Turned
    <3> QED
      BY <1>2, <3>1, <3>2
  <2> QED
    BY <2>2, <2>3, <2>4 DEF ListKnown
<1> QED
  BY <1>1, <1>2 DEF PickerInv

LEMMA OutcomeKeepsPicker ==
    ASSUME PickerInv, NEW r \in Asked, Outcome(r)
    PROVE  PickerInv'
<1>1. Labelled(r) /\ Wired
  BY DEF PickerInv, Wired
<1>2. CASE Serve(r)
  <2> DEFINE x == Turn(r, "answered", Told(r.do))
  <2>1. Becomes(r, x) /\ UNCHANGED <<list, inbox, off>> /\ r.state = "waiting"
    BY <1>2 DEF Serve, Answer, Turn, tab
  <2>2. Turned(r, x) /\ x.state = "answered" /\ x.says = Told(r.do)
    BY <1>1, <2>1, BecomesAnother
  <2> HIDE DEF x
  <2>3. r.do.op = "listMaps" => maps' = maps /\ Told(r.do) = maps
    BY <1>2 DEF Serve, Perform, tables, Told
  <2>4. r.do.op # "createMap" => maps' = maps
    <3>1. CASE UNCHANGED tables
      BY <3>1 DEF tables
    <3>2. CASE Perform(r.do)
      BY <1>1, <3>2, MapsKept DEF Labelled
    <3> QED
      BY <1>2, <3>1, <3>2 DEF Serve
  <2> QED
    BY <2>1, <2>2, <2>3, <2>4, TurningKeepsPicker
<1>3. CASE ServeUndo(r)
  <2>1. PICK says : Answer(r, says) /\ ((says = FALSE /\ UNCHANGED <<tables, off>>)
                                         \/ off' = IF maps' = maps THEN off ELSE off \cup {"list", "graph"})
    BY <1>3 DEF ServeUndo
  <2> DEFINE x == Turn(r, "answered", says)
  <2>2. Becomes(r, x) /\ UNCHANGED <<list, inbox>> /\ r.do.op = "undo"
    BY <1>3, <2>1 DEF ServeUndo, Answer, Turn, tab
  <2>3. Turned(r, x)
    BY <1>1, <2>2, BecomesAnother
  <2> HIDE DEF x
  <2>4. "list" \notin off' => maps' = maps /\ "list" \notin off
    BY <2>1 DEF tables
  <2> QED
    BY <2>2, <2>3, <2>4, TurningKeepsPicker
<1>4. CASE Refuse(r) \/ LoseAnswer(r)
  <2> DEFINE x == Turn(r, "failed", Nothing)
  <2>1. Becomes(r, x) /\ UNCHANGED <<list, inbox, maps>>
    BY <1>4 DEF Refuse, LoseAnswer, Fail, Turn, tab, tables
  <2>2. Turned(r, x)
    BY <1>1, <2>1, BecomesAnother
  <2> HIDE DEF x
  <2>3. CASE Refuse(r)
    <3>1. r.do.op = "listMaps" => "list" \in OffWithout(r)
      BY <1>1 DEF Labelled, ListAsks, OffWithout
    <3>2. r.state = "waiting" /\ off' = off \cup OffWithout(r)
      BY <2>3 DEF Refuse
    <3>3. r.do.op = "createMap" => ~Telling(r)
      BY <3>2 DEF Telling
    <3> QED
      BY <2>1, <2>2, <3>1, <3>2, <3>3, TurningKeepsPicker
  <2>4. CASE LoseAnswer(r)
    BY <2>1, <2>2, <2>4, TurningKeepsPicker DEF LoseAnswer
  <2> QED
    BY <1>4, <2>3, <2>4
<1> QED
  BY <1>2, <1>3, <1>4 DEF Outcome

-----------------------------------------------------------------------------
(* Events are read, and others make their changes. *)

LEMMA ReadingKeepsPicker ==
    ASSUME PickerInv, ApplyEvent
    PROVE  PickerInv'
<1>1. /\ inbox # <<>> /\ inbox' = Tail(inbox)
      /\ UNCHANGED <<maps, list, off>>
      /\ \E S : /\ inflight' = inflight (+) SetToBag(S)
                /\ \A x \in S : Labelled(x) /\ x.do.op # "createMap" /\ x.state = "waiting"
                /\ \/ Head(inbox).kind \in MapNews /\ \E x \in S : x.do.op = "listMaps"
                   \/ Head(inbox).kind \notin MapNews /\ \A x \in S : x.do.op # "listMaps"
  <2> DEFINE e == Head(inbox)
  <2>1. PICK b : /\ inflight' = inflight (+) b
                 /\ \/ e.kind \notin MapNews /\ b \in {EmptyBag, ReloadAsk}
                    \/ e.kind \in MapNews /\ b = Ask("listMaps", ListCall)
    BY DEF ApplyEvent, ReadAddition, ReadUpdate, ReadMove, ReadRemoval, ReadNews, Reads, MapNews
  <2>2. CASE e.kind \in MapNews
    <3> DEFINE x == Request("listMaps", ListCall, Nothing)
    <3>1. Labelled(x) /\ x.do.op = "listMaps" /\ x.state = "waiting"
      BY LabelledRequest DEF ListCall, ListAsks, GraphAsks
    <3>2. b = SetToBag({x})
      BY <2>1, <2>2 DEF Ask, Keeping
    <3> HIDE DEF x
    <3> QED
      BY <2>1, <2>2, <3>1, <3>2 DEF ApplyEvent, ReadAddition, ReadUpdate, ReadMove, ReadRemoval,
           ReadNews, Reads, tables
  <2>3. CASE e.kind \notin MapNews
    <3> DEFINE x == Request("reload", GraphCall(mapId), Nothing)
    <3>1. Labelled(x) /\ x.do.op = "graph" /\ x.state = "waiting"
      BY LabelledRequest DEF GraphCall, ListAsks, GraphAsks
    <3>2. b = SetToBag({}) \/ b = SetToBag({x})
      BY <2>1, <2>3 DEF ReloadAsk, Ask, Keeping, EmptyBag
    <3> HIDE DEF x
    <3>3. PICK S \in {{}, {x}} : b = SetToBag(S)
      BY <3>2
    <3>4. \A y \in S : Labelled(y) /\ y.do.op \notin {"createMap", "listMaps"} /\ y.state = "waiting"
      BY <3>1
    <3> QED
      BY <2>1, <2>3, <3>3, <3>4 DEF ApplyEvent, ReadAddition, ReadUpdate, ReadMove, ReadRemoval,
           ReadNews, Reads, tables
  <2> QED
    BY <2>2, <2>3
<1>2. PICK S : /\ inflight' = inflight (+) SetToBag(S)
               /\ \A x \in S : Labelled(x) /\ x.do.op # "createMap" /\ x.state = "waiting"
               /\ \/ Head(inbox).kind \in MapNews /\ \E x \in S : x.do.op = "listMaps"
                  \/ Head(inbox).kind \notin MapNews /\ \A x \in S : x.do.op # "listMaps"
  BY <1>1
<1>3. /\ IsABag(inflight') /\ Asked' = Asked \cup S
      /\ \A x \in Asked \ S : inflight'[x] = inflight[x]
  BY <1>2 DEF PickerInv, Wired, Asked, BagToSet, IsABag, SetToBag, (+)
<1>4. /\ IsSeq(inbox') /\ Range(inbox') \subseteq Range(inbox)
      /\ Range(inbox) \subseteq Range(inbox') \cup {Head(inbox)}
      /\ Head(inbox) \in Range(inbox)
  BY <1>1, InboxSeq DEF PickerInv, Wired
<1>5. Wired'
  BY <1>2, <1>3, <1>4 DEF PickerInv, Wired
<1>6. ASSUME "list" \notin off' PROVE ListKnown'
  <2>1. ListKnown /\ maps' = maps /\ list' = list
    BY <1>1, <1>6 DEF PickerInv
  <2>2. Fresh'
    BY <1>2, <1>3, <2>1 DEF ListKnown, Fresh
  <2>3. AloneInMaking'
    <3> SUFFICES ASSUME NEW r \in Asked', r.do.op = "createMap" PROVE Alone(r)'
      BY DEF AloneInMaking
    <3>1. r \in Asked \ S /\ Alone(r)
      BY <1>2, <1>3, <2>1 DEF ListKnown, AloneInMaking
    <3>2. \A x \in S : x.do.op \notin {"createMap", "listMaps"}
      BY <1>2, <1>4, <3>1 DEF Alone
    <3> QED
      BY <1>3, <1>4, <3>1, <3>2 DEF Alone
  <2>4. Coming'
    <3>1. \A x \in S : x.do.op = "listMaps" => Telling(x)
      BY <1>2 DEF Telling
    <3> QED
      BY <1>2, <1>3, <1>4, <2>1, <3>1 DEF ListKnown, Coming
  <2> QED
    BY <2>2, <2>3, <2>4 DEF ListKnown
<1> QED
  BY <1>5, <1>6 DEF PickerInv

LEMMA OthersKeepPicker ==
    ASSUME PickerInv, NEW q, OtherTab(q)
    PROVE  PickerInv'
<1>1. /\ UNCHANGED <<list, inflight>> /\ inbox' = inbox \o Events(q)
      /\ off' = off \cup Untold(q) /\ Perform(q)
  BY DEF OtherTab, Others, tab
<1>2. Wired'
  BY <1>1, EventsAreSeq, JoinedSeq DEF PickerInv, Wired, Asked
<1>3. ASSUME "list" \notin off' PROVE ListKnown'
  <2>1. ListKnown /\ Quiet
    BY <1>1, <1>3 DEF PickerInv, Untold
  <2>2. Asked = {} /\ Asked' = {} /\ Range(inbox) = {} /\ inbox = <<>>
    BY <1>1, <2>1, QuietIsEmpty DEF Asked, Quiet
  <2>3. Fresh' /\ AloneInMaking'
    BY <2>2 DEF Fresh, AloneInMaking
  <2>4. Coming'
    <3>1. CASE maps' = maps
      BY <1>1, <2>1, <2>2, <3>1 DEF ListKnown, Coming
    <3>2. CASE maps' # maps
      <4>1. PICK e : e.kind \in MapNews /\ Events(q) = <<e>>
        BY <1>1, <3>2, NewsOfMaps
      <4>2. inbox' = <<e>>
        BY <1>1, <2>2, <4>1, SingleSeq
      <4>3. e \in Range(inbox')
        BY <4>2 DEF Range
      <4> QED
        BY <4>1, <4>3 DEF Coming
    <3> QED
      BY <3>1, <3>2
  <2> QED
    BY <2>3, <2>4 DEF ListKnown
<1> QED
  BY <1>2, <1>3 DEF PickerInv

LEMMA ElsewhereKeepsPicker ==
    ASSUME PickerInv, NEW q, Elsewhere(q)
    PROVE  PickerInv'
<1> DEFINE e == [kind |-> "graph.invalidated", map |-> Nil, what |-> Nil]
<1>1. /\ UNCHANGED <<list, inflight>> /\ inbox' = Append(inbox, e)
      /\ "list" \notin off' => maps' = maps /\ "list" \notin off
  BY DEF Elsewhere, Others, tab
<1>2. e.kind \notin MapNews
  BY DEF MapNews
<1> HIDE DEF e
<1>3. IsSeq(inbox') /\ Range(inbox') = Range(inbox) \cup {e}
  BY <1>1, InboxSeq DEF PickerInv, Wired
<1>4. Wired' /\ Asked' = Asked
  BY <1>1, <1>3 DEF PickerInv, Wired, Asked
<1>5. ASSUME "list" \notin off' PROVE ListKnown'
  <2>1. ListKnown /\ maps' = maps
    BY <1>1, <1>5 DEF PickerInv
  <2>2. Fresh' /\ Coming'
    BY <1>1, <1>3, <1>4, <2>1 DEF ListKnown, Fresh, Coming
  <2>3. AloneInMaking'
    BY <1>1, <1>2, <1>3, <1>4, <2>1 DEF ListKnown, AloneInMaking, Alone
  <2> QED
    BY <2>1, <2>2, <2>3 DEF ListKnown
<1> QED
  BY <1>4, <1>5 DEF PickerInv

LEMMA PickerInvStep ==
    ASSUME PickerInv, [Next]_vars
    PROVE  PickerInv'
<1>1. CASE UNCHANGED vars
  BY <1>1 DEF vars, tab, wire, tables, PickerInv, Wired, ListKnown, Fresh, AloneInMaking, Alone,
              Coming, Asked
<1>2. CASE Next
  BY <1>2, UserKeepsPicker, OutcomeKeepsPicker, SettleKeepsPicker, ReadingKeepsPicker,
     OthersKeepPicker, ElsewhereKeepsPicker DEF Next
<1> QED
  BY <1>1, <1>2

LEMMA PickerInvAtFirst == Init => PickerInv
<1> SUFFICES ASSUME Init PROVE PickerInv
  OBVIOUS
<1> DEFINE q == Request("bootstrap", ListCall, Nothing)
<1>1. Labelled(q) /\ q.do.op = "listMaps" /\ q.state = "waiting"
  BY LabelledRequest DEF ListCall, ListAsks, GraphAsks
<1>2. inflight = SetToBag({q})
  BY DEF Init, Ask, Keeping
<1> HIDE DEF q
<1>3. IsABag(inflight) /\ Asked = {q}
  BY <1>2 DEF IsABag, SetToBag, BagToSet, Asked
<1>4. IsSeq(inbox)
  <2>1. <<>> \in Seq({})
    OBVIOUS
  <2> QED
    BY <2>1, SeqIsSeq DEF Init
<1>5. Fresh /\ AloneInMaking /\ Coming
  BY <1>1, <1>3 DEF Fresh, AloneInMaking, Coming, Telling
<1> QED
  BY <1>1, <1>3, <1>4, <1>5 DEF PickerInv, Wired, ListKnown

\* PickerInStep: in whatever order lists are asked for and answered and maps
\* come and go, the picker that nothing is under way for offers the maps there
\* are, unless an answer was lost or the changes overlapped.
THEOREM PickerRight == Spec => []PickerInStep
<1>1. PickerInv => PickerInStep
  <2> SUFFICES ASSUME PickerInv, Quiet, "list" \notin off PROVE list = maps
    BY DEF PickerInStep
  <2>1. Asked = {} /\ Range(inbox) = {}
    BY QuietIsEmpty
  <2> QED
    BY <2>1 DEF PickerInv, ListKnown, Coming
<1>2. PickerInv /\ [Next]_vars => PickerInv'
  BY PickerInvStep
<1> QED
  BY <1>1, <1>2, PickerInvAtFirst, PTL DEF Spec

-----------------------------------------------------------------------------
(* What a refusal leaves on the screen.  Every screen, and every graph that *)
(* is answered, has the four parts a screen has.                            *)

Framed(s) == s = [of |-> s.of, nodes |-> s.nodes, edges |-> s.edges, groups |-> s.groups]

FramedInv ==
    /\ Wired
    /\ Framed(screen)
    /\ \A r \in Asked : r.do.op = "graph" /\ r.state = "answered" => Framed(r.says)

LEMMA FramesKept ==
    ASSUME NEW s, Framed(s)
    PROVE  /\ \A n, c : Framed(WithCard(s, n, c)) /\ Framed(Rewritten(s, n, c))
           /\ \A es : Framed(WithEdges(s, es))
           /\ \A e : Framed(WithoutEdge(s, e))
           /\ \A g, c : Framed(WithGroup(s, g, c))
           /\ \A g : Framed(WithoutGroup(s, g))
           /\ \A told : Framed(Merged(s, told)) /\ Framed(Rewrites(s, told))
           /\ \A n : Framed(DropNode(s, n))
           /\ Framed(LaidOut(s))
           /\ \A g, d : Framed(Shifted(s, g, d))
<1>1. \A x : Framed([s EXCEPT !.nodes = x]) /\ Framed([s EXCEPT !.edges = x])
             /\ Framed([s EXCEPT !.groups = x])
  BY DEF Framed
<1>2. \A x, y : Framed([s EXCEPT !.nodes = x, !.edges = y])
                /\ Framed([s EXCEPT !.nodes = x, !.groups = y])
  <2> SUFFICES ASSUME NEW x, NEW y, NEW t,
                      t \in {[s EXCEPT !.nodes = x, !.edges = y], [s EXCEPT !.nodes = x, !.groups = y]}
               PROVE  Framed(t)
    OBVIOUS
  <2>1. t \in {[of |-> s.of, nodes |-> x, edges |-> y, groups |-> s.groups],
               [of |-> s.of, nodes |-> x, edges |-> s.edges, groups |-> y]}
    BY DEF Framed
  <2> QED
    BY <2>1 DEF Framed
<1>3. \A n, c : Framed(WithCard(s, n, c)) /\ Framed(Rewritten(s, n, c))
  BY <1>1 DEF WithCard, Rewritten
<1>4. \A t : Framed(t) => \A es : Framed(WithEdges(t, es))
  BY DEF Framed, WithEdges
<1>5. /\ \A e : Framed(WithoutEdge(s, e))
      /\ \A g, c : Framed(WithGroup(s, g, c))
      /\ \A g : Framed(WithoutGroup(s, g))
  BY <1>1 DEF WithoutEdge, WithGroup, WithoutGroup
<1>6. \A told : Framed(Merged(s, told)) /\ Framed(Rewrites(s, told))
  BY <1>1, <1>2, <1>4 DEF Merged, Rewrites
<1>7. /\ \A n : Framed(DropNode(s, n))
      /\ Framed(LaidOut(s))
      /\ \A g, d : Framed(Shifted(s, g, d))
  BY <1>1, <1>2 DEF DropNode, LaidOut, Shifted
<1> QED
  BY <1>3, <1>4, <1>5, <1>6, <1>7

LEMMA ServedFrames == /\ Framed(Nothing) /\ \A m : Framed(Graph(m))
BY DEF Framed, Nothing, Graph

\* Requests that have just been sent.
Sent(b) == \E S : b = SetToBag(S) /\ \A r \in S : Labelled(r) /\ r.state = "waiting"

LEMMA AsksAreSent ==
    /\ \A b : Idle(b) => Sent(b)
    /\ \A b : Making(b) => Sent(b)
    /\ \A m : Sent(Keeping("newMap", ListCall, m))
<1>1. \A b : Idle(b) => Sent(b)
  BY DEF Idle, Sent
<1>2. \A r : Labelled(r) /\ r.state = "waiting" => Sent(SetToBag({r}))
  <2> SUFFICES ASSUME NEW r, Labelled(r), r.state = "waiting" PROVE Sent(SetToBag({r}))
    OBVIOUS
  <2>1. \A x \in {r} : Labelled(x) /\ x.state = "waiting"
    OBVIOUS
  <2> QED
    BY <2>1 DEF Sent
<1>3. ASSUME NEW m
      PROVE  /\ Labelled(Request("newMap", ListCall, m))
             /\ Request("newMap", ListCall, m).state = "waiting"
  <2>1. ListCall.op = "listMaps"
    BY DEF ListCall
  <2> QED
    BY <2>1, LabelledRequest DEF ListAsks, GraphAsks
<1> QED
  BY <1>1, <1>2, <1>3 DEF Making, Keeping

LEMMA SentIsFramed ==
    ASSUME FramedInv, Framed(screen'), IsSeq(inbox'), NEW b, Sent(b),
           \/ inflight' = inflight (+) b
           \/ \E r \in Asked : inflight' = inflight (-) SetToBag({r}) (+) b
    PROVE  FramedInv'
<1>1. PICK S : b = SetToBag(S) /\ \A r \in S : Labelled(r) /\ r.state = "waiting"
  BY DEF Sent
<1>2. IsABag(inflight') /\ Asked' \subseteq Asked \cup S
  <2>1. CASE inflight' = inflight (+) b
    BY <1>1, <2>1 DEF FramedInv, Wired, Asked, BagToSet, IsABag, SetToBag, (+)
  <2>2. ASSUME NEW r \in Asked, inflight' = inflight (-) SetToBag({r}) (+) b
        PROVE  IsABag(inflight') /\ Asked' \subseteq Asked \cup S
    <3>1. Swapped(inflight, r, S, inflight')
      BY <1>1, <2>2, InflightSwapped DEF FramedInv
    <3> QED
      BY <3>1 DEF Swapped, Asked, BagToSet
  <2> QED
    BY <2>1, <2>2
<1> QED
  BY <1>1, <1>2 DEF FramedInv, Wired

LEMMA UserKeepsFrames ==
    ASSUME FramedInv, User
    PROVE  FramedInv'
<1>1. PICK b : Sent(b) /\ inflight' = inflight (+) b
  BY UserAsks, AsksAreSent
<1>2. Framed(screen')
  <2> USE FramesKept DEF FramedInv, Show, Send
  <2>1. CASE EditNode
    <3>1. ASSUME NEW n, NEW t, CommitTitle(n, t) PROVE Framed(screen')
      <4>1. screen' = [screen EXCEPT !.nodes[n].title = t]
        BY <3>1 DEF CommitTitle
      <4> QED
        BY <4>1 DEF Framed
    <3>2. ASSUME NEW n, NEW pos, MoveNode(n, pos) PROVE Framed(screen')
      <4>1. screen' = [screen EXCEPT !.nodes[n].pos = pos]
        BY <3>2 DEF MoveNode
      <4> QED
        BY <4>1 DEF Framed
    <3>3. ASSUME NEW n, RemoveShown(n) \/ \E ty, tg : PatchNode(n, ty, tg) PROVE Framed(screen')
      BY <3>3 DEF RemoveShown, PatchNode
    <3> QED
      BY <2>1, <3>1, <3>2, <3>3 DEF EditNode
  <2>2. CASE Connect
    BY <2>2 DEF Connect, CreateChild, InsertExisting, Link, Unlink
  <2>3. CASE EditSeveral
    BY <2>3 DEF EditSeveral, BulkUpdate, GroupSelection, UngroupSelected, RenameShown, DragGroup
  <2>4. CASE RunAutoLayout \/ UndoOrRedo
    BY <2>4 DEF RunAutoLayout, UndoOrRedo
  <2>5. CASE \E m \in Map : OpenMap(m) \/ NewMap(m)
    BY <2>5 DEF OpenMap, Opening, NewMap
  <2> QED
    BY <2>1, <2>2, <2>3, <2>4, <2>5 DEF User
<1>3. inbox' = inbox
  BY UserAsks DEF GestureParting
<1> QED
  BY <1>1, <1>2, <1>3, SentIsFramed DEF FramedInv, Wired

LEMMA SettleKeepsFrames ==
    ASSUME FramedInv, NEW r \in Asked, Settle(r)
    PROVE  FramedInv'
<1>1. Labelled(r)
  BY DEF FramedInv, Wired
<1>2. \E b : Sent(b) /\ inflight' = inflight (-) SetToBag({r}) (+) b
  <2>1. CASE GiveUp(r) \/ WrittenAnswer(r) \/ GraphAnswer(r)
    <3>1. \E b : Idle(b) /\ inflight' = inflight (-) SetToBag({r}) (+) b
      BY <2>1, IdleAsks DEF GiveUp, WrittenAnswer, GraphAnswer, PaintGraph, Paint, Drop, Leave
    <3> QED
      BY <3>1, AsksAreSent
  <2>2. CASE ListAnswer(r)
    <3>1. \A m : Idle(Ask("openMap", GraphCall(m)))
      BY IdleAsks DEF GraphCall, ListAsks, GraphAsks
    <3> QED
      BY <2>2, <3>1, IdleAsks, AsksAreSent DEF ListAnswer, Opening, Leave, Paint
  <2> QED
    BY <2>1, <2>2 DEF Settle
<1>3. Framed(screen')
  <2> USE FramesKept DEF FramedInv
  <2>1. CASE GiveUp(r)
    BY <2>1 DEF GiveUp, PutBack, RolledBack
  <2>2. CASE WrittenAnswer(r)
    BY <2>2 DEF WrittenAnswer, Paint, Drop
  <2>3. CASE ListAnswer(r)
    BY <2>3 DEF ListAnswer, Paint, Opening
  <2>4. CASE r.state = "answered" /\ GraphAnswer(r)
    <3>1. Framed(r.says)
      BY <1>1, <2>4 DEF Labelled, GraphAnswer, GraphAsks
    <3> QED
      BY <2>4, <3>1 DEF GraphAnswer, PaintGraph
  <2> QED
    BY <2>1, <2>2, <2>3, <2>4 DEF Settle
<1> QED
  BY <1>2, <1>3, SentIsFramed DEF Settle, FramedInv, Wired

LEMMA OutcomeKeepsFrames ==
    ASSUME FramedInv, NEW r \in Asked, Outcome(r)
    PROVE  FramedInv'
<1>1. Labelled(r) /\ Wired
  BY DEF FramedInv, Wired
<1>2. UNCHANGED <<screen, inbox>>
  BY DEF Outcome, Serve, ServeUndo, Refuse, LoseAnswer, Answer, Fail, tab
<1>3. PICK st, says : /\ Becomes(r, Turn(r, st, says))
                      /\ r.do.op = "graph" /\ st = "answered" => Framed(says)
  <2>1. CASE Serve(r)
    <3>1. r.do.op = "graph" => Told(r.do) = Graph(r.do.map)
      BY DEF Told
    <3> QED
      BY <2>1, <3>1, ServedFrames DEF Serve, Answer, Turn
  <2>2. CASE ServeUndo(r)
    BY <2>2 DEF ServeUndo, Answer, Turn
  <2>3. CASE Refuse(r) \/ LoseAnswer(r)
    <3>1. Becomes(r, Turn(r, "failed", Nothing))
      BY <2>3 DEF Refuse, LoseAnswer, Fail, Turn
    <3> QED
      BY <3>1
  <2> QED
    BY <2>1, <2>2, <2>3 DEF Outcome
<1> DEFINE x == Turn(r, st, says)
<1>4. Turned(r, x) /\ x.state = st /\ x.says = says
  BY <1>1, <1>3, BecomesAnother
<1> HIDE DEF x
<1> QED
  BY <1>2, <1>3, <1>4 DEF FramedInv, Wired, Turned

LEMMA ReadingKeepsFrames ==
    ASSUME FramedInv, ApplyEvent
    PROVE  FramedInv'
<1>1. PICK b : inflight' = inflight (+) b /\ b \in {EmptyBag, ReloadAsk, Ask("listMaps", ListCall)}
  BY DEF ApplyEvent, ReadAddition, ReadUpdate, ReadMove, ReadRemoval, ReadNews, Reads
<1>2. Sent(b)
  <2>1. Sent(EmptyBag) /\ Sent(ReloadAsk)
    BY IdleAsks, AsksAreSent
  <2>2. Sent(Ask("listMaps", ListCall))
    <3>1. /\ Labelled(Request("listMaps", ListCall, Nothing))
          /\ Request("listMaps", ListCall, Nothing).state = "waiting"
      BY LabelledRequest DEF ListCall, ListAsks, GraphAsks
    <3>2. \A x \in {Request("listMaps", ListCall, Nothing)} : Labelled(x) /\ x.state = "waiting"
      BY <3>1
    <3> QED
      BY <3>2 DEF Sent, Ask, Keeping
  <2> QED
    BY <1>1, <2>1, <2>2
<1>3. Framed(screen')
  <2> DEFINE e == Head(inbox)
  <2> USE FramesKept DEF FramedInv, Reads
  <2>1. CASE ReadAddition(e)
    BY <2>1 DEF ReadAddition
  <2>2. CASE ReadUpdate(e)
    BY <2>2 DEF ReadUpdate
  <2>3. CASE ReadMove(e)
    <3>1. screen' = [screen EXCEPT !.nodes[e.what.node].pos = e.what.pos] \/ screen' = screen
      BY <2>3 DEF ReadMove
    <3> QED
      BY <3>1 DEF Framed
  <2>4. CASE ReadRemoval(e) \/ ReadNews(e)
    BY <2>4 DEF ReadRemoval, ReadNews
  <2> QED
    BY <2>1, <2>2, <2>3, <2>4 DEF ApplyEvent
<1>4. IsSeq(inbox')
  BY InboxSeq DEF FramedInv, Wired, ApplyEvent, ReadAddition, ReadUpdate, ReadMove, ReadRemoval,
     ReadNews, Reads
<1> QED
  BY <1>1, <1>2, <1>3, <1>4, SentIsFramed

LEMMA OthersKeepFrames ==
    ASSUME FramedInv, NEW q, OtherTab(q) \/ Elsewhere(q)
    PROVE  FramedInv'
<1>1. UNCHANGED <<screen, inflight>>
  BY DEF OtherTab, Elsewhere, Others, tab
<1>2. IsSeq(inbox')
  BY EventsAreSeq, JoinedSeq, InboxSeq DEF FramedInv, Wired, OtherTab, Elsewhere
<1> QED
  BY <1>1, <1>2 DEF FramedInv, Wired, Asked

LEMMA FramesKeptByNext ==
    ASSUME FramedInv, Next
    PROVE  FramedInv'
<1>1. CASE User
  BY <1>1, UserKeepsFrames
<1>2. ASSUME NEW r \in Asked, Outcome(r) \/ Settle(r)
      PROVE  FramedInv'
  BY <1>2, OutcomeKeepsFrames, SettleKeepsFrames
<1>3. CASE ApplyEvent
  BY <1>3, ReadingKeepsFrames
<1>4. ASSUME NEW q, OtherTab(q) \/ Elsewhere(q)
      PROVE  FramedInv'
  BY <1>4, OthersKeepFrames
<1> QED
  BY <1>1, <1>2, <1>3, <1>4 DEF Next

LEMMA FramedInvHolds == Spec => []FramedInv
<1>1. Init => FramedInv
  <2> SUFFICES ASSUME Init PROVE FramedInv
    OBVIOUS
  <2>1. Wired
    BY PickerInvAtFirst DEF PickerInv
  <2>2. \A r \in Asked : r.state = "waiting"
    <3>1. Request("bootstrap", ListCall, Nothing).state = "waiting"
      BY DEF Request
    <3> QED
      BY <3>1 DEF Init, Ask, Keeping, Asked, BagToSet, SetToBag
  <2> QED
    BY <2>1, <2>2, ServedFrames DEF FramedInv, Init
<1>2. FramedInv /\ [Next]_vars => FramedInv'
  <2> SUFFICES ASSUME FramedInv, [Next]_vars PROVE FramedInv'
    OBVIOUS
  <2>1. CASE UNCHANGED vars
    BY <2>1 DEF vars, tab, wire, FramedInv, Wired, Asked
  <2>2. CASE Next
    BY <2>2, FramesKeptByNext
  <2> QED
    BY <2>1, <2>2
<1> QED
  BY <1>1, <1>2, PTL DEF Spec

\* RefusalAddsNothing: whatever happened since a write was shown, its failure
\* brings no card back that has gone, nor any other.
THEOREM RefusalsAddNothing == Spec => RefusalAddsNothing
<1> DEFINE Adds == \A r \in Asked : r.state = "failed" /\ GiveUp(r)
                                    => DOMAIN screen'.nodes \subseteq DOMAIN screen.nodes
<1>1. ASSUME FramedInv, NEW r \in Asked, GiveUp(r)
      PROVE  DOMAIN screen'.nodes \subseteq DOMAIN screen.nodes
  <2>1. screen' \in {screen, WithEdges(screen, {r.was}), RolledBack(r)}
    BY <1>1 DEF GiveUp, PutBack
  <2>2. WithEdges(screen, {r.was}).nodes = screen.nodes
    BY <1>1 DEF FramedInv, Framed, WithEdges
  <2>3. \A n, c : WithCard(screen, n, c).nodes = Put(screen.nodes, n, c)
    BY <1>1 DEF FramedInv, Framed, WithCard
  <2>4. \A n, c : n \in DOMAIN screen.nodes => DOMAIN Put(screen.nodes, n, c) = DOMAIN screen.nodes
    BY DEF Put
  <2> QED
    BY <2>1, <2>2, <2>3, <2>4 DEF RolledBack
<1>2. FramedInv => [Adds]_vars
  BY <1>1
<1> HIDE DEF Adds
<1>3. Spec => [][Adds]_vars
  BY <1>2, FramedInvHolds, PTL
<1> QED
  BY <1>3 DEF Adds, RefusalAddsNothing

-----------------------------------------------------------------------------
(* What the tables always are, whoever changes them.                       *)

Placings ==
    \A p \in DOMAIN places :
       /\ p = <<p[1], p[2]>> /\ p[2] \in DOMAIN nodes
       /\ places[p] = [pos |-> places[p].pos, group |-> places[p].group]
Joined ==
    \A e \in edges :
       /\ e = [id |-> e.id, map |-> e.map, source |-> e.source, target |-> e.target, rel |-> e.rel]
       /\ Placed(places, e.map, e.source) /\ Placed(places, e.map, e.target)
OneId == \A e, f \in edges : e.id = f.id => e = f
Named == \A g \in DOMAIN groups :
            g # Nil /\ groups[g] = [map |-> groups[g].map, title |-> groups[g].title]
Database == Placings /\ Joined /\ OneId /\ Named

LEMMA DatabaseAtFirst == Init => Database
<1> SUFFICES ASSUME Init PROVE Database
  OBVIOUS
<1>1. TypeOK /\ ForeignKeys /\ EndpointsPlaced /\ OneEdgePerClaim
  BY DEF Init
<1>2. Placings
  BY <1>1 DEF Placings, TypeOK, PlaceRow, ForeignKeys, PlacesRefer
<1>3. Joined /\ OneId
  BY <1>1 DEF Joined, OneId, TypeOK, EdgeRow, EndpointsPlaced, OneEdgePerClaim
<1>4. Named
  BY <1>1, NilAssumption DEF Named, TypeOK, GroupRow
<1> QED
  BY <1>2, <1>3, <1>4 DEF Database

\* A retype relabels edges and drops some; it moves none.
LEMMA RetypedEdges ==
    ASSUME Database, NEW n, NEW ty, NEW ti, NEW tg, UpdateNode(n, ty, ti, tg)
    PROVE  Joined' /\ OneId'
<1>1. UNCHANGED places
  BY DEF UpdateNode, ApplyEdit
<1>2. CASE UNCHANGED edges
  BY <1>1, <1>2 DEF Database, Joined, OneId
<1>3. CASE ~UNCHANGED edges
  <2>1. PICK type : type = TypeOf'
    OBVIOUS
  <2>2. PICK moved : moved = Relabelled(edges, type, n)
    OBVIOUS
  <2>3. PICK new : new \subseteq {Relabel(e, type) : e \in moved} /\ edges' = (edges \ moved) \cup new
    BY <1>3, <2>1, <2>2 DEF UpdateNode, ApplyEdit
  <2>4. moved \subseteq edges
    BY <2>2 DEF Relabelled
  <2>5. \A e \in edges : /\ Relabel(e, type) = [id |-> e.id, map |-> e.map, source |-> e.source,
                              target |-> e.target, rel |-> DefaultRelationship(type[e.source], type[e.target])]
    BY DEF Database, Joined, Relabel
  <2>6. \A f \in edges' : \E e \in edges :
           /\ f.id = e.id /\ f.map = e.map /\ f.source = e.source /\ f.target = e.target
           /\ f = [id |-> f.id, map |-> f.map, source |-> f.source, target |-> f.target, rel |-> f.rel]
           /\ (e \in moved /\ f = Relabel(e, type)) \/ (e \notin moved /\ e = f)
    BY <2>3, <2>4, <2>5 DEF Database, Joined
  <2>7. OneId'
    BY <2>6 DEF Database, OneId
  <2>8. Joined'
    BY <1>1, <2>6 DEF Database, Joined, Placed
  <2> QED
    BY <2>7, <2>8
<1> QED
  BY <1>2, <1>3

LEMMA LinkKeepsEdges ==
    ASSUME Database, NEW e, e \notin EdgeIds(edges), NEW link, link.id = e,
           link = [id |-> link.id, map |-> link.map, source |-> link.source, target |-> link.target, rel |-> link.rel],
           edges' = edges \cup {link}, DOMAIN places \subseteq DOMAIN places',
           Placed(places', link.map, link.source), Placed(places', link.map, link.target)
    PROVE  Joined' /\ OneId'
BY DEF Database, Joined, OneId, EdgeIds, Placed

LEMMA FewerEdges ==
    ASSUME Database, edges' \subseteq edges,
           \A e \in edges' : <<e.map, e.source>> \in DOMAIN places' /\ <<e.map, e.target>> \in DOMAIN places'
    PROVE  Joined' /\ OneId'
BY DEF Database, Joined, OneId, Placed

LEMMA NewEdgeIs ==
    ASSUME NEW e, NEW m, NEW s, NEW t, NEW r, NEW type
    PROVE  LET f == NewEdge(e, m, s, t, r, type)
           IN /\ f.id = e /\ f.map = m /\ f.source = s /\ f.target = t
              /\ f = [id |-> f.id, map |-> f.map, source |-> f.source, target |-> f.target, rel |-> f.rel]
BY DEF NewEdge

LEMMA DatabaseStep ==
    ASSUME Database, NEW q, Perform(q)
    PROVE  Database'
<1> USE DEF Database
<1>1. CASE q.op = "createNode"
  <2>1. PICK in, n, e : CreateNode(in, n, e)
    BY <1>1 DEF Perform
  <2>2. DOMAIN places \subseteq DOMAIN places' /\ DOMAIN nodes \subseteq DOMAIN nodes'
    BY <2>1 DEF CreateNode, Put
  <2>3. Placings'
    BY <2>1 DEF CreateNode, Put, Placings
  <2>4. CASE UNCHANGED edges
    BY <2>1, <2>2, <2>3, <2>4 DEF CreateNode, Joined, OneId, Named, Placed
  <2>5. CASE ~UNCHANGED edges
    <3>1. PICK s, t : /\ e \notin EdgeIds(edges)
                      /\ CanLink(edges, places', TypeOf', NewEdge(e, in.map, s, t, in.rel, TypeOf'))
                      /\ edges' = edges \cup {NewEdge(e, in.map, s, t, in.rel, TypeOf')}
      BY <2>1, <2>5 DEF CreateNode
    <3>2. PICK link : link = NewEdge(e, in.map, s, t, in.rel, TypeOf')
      OBVIOUS
    <3>3. Joined' /\ OneId'
      BY <2>2, <3>1, <3>2, NewEdgeIs, LinkKeepsEdges DEF CanLink
    <3> QED
      BY <2>1, <2>3, <3>3 DEF CreateNode, Named
  <2> QED
    BY <2>4, <2>5
<1>2. CASE q.op = "updateNode"
  <2>1. PICK n, ty, ti, tg : UpdateNode(n, ty, ti, tg)
    BY <1>2 DEF Perform
  <2>2. Joined' /\ OneId'
    BY <2>1, RetypedEdges
  <2> QED
    BY <2>1, <2>2 DEF UpdateNode, ApplyEdit, Placings, Named, Put
<1>3. CASE q.op = "bulkUpdate"
  BY <1>3 DEF Perform, BulkUpdateNodes, Placings, Joined, OneId, Named
<1>4. CASE q.op = "moveNode"
  <2>1. SetPlacement(q.map, q.node, q.pos, Keep)
    BY <1>4 DEF Perform
  <2>2. DOMAIN places' = DOMAIN places
    BY <2>1 DEF SetPlacement
  <2>3. Placings'
    BY <2>1, <2>2 DEF SetPlacement, Placings
  <2> QED
    BY <2>1, <2>2, <2>3 DEF SetPlacement, Joined, OneId, Named, Placed
<1>5. CASE q.op = "transclude"
  <2>1. PICK in, e : Transclude(in, e)
    BY <1>5 DEF Perform
  <2>2. DOMAIN places \subseteq DOMAIN places'
    BY <2>1 DEF Transclude, Put
  <2>3. Placings'
    BY <2>1 DEF Transclude, Put, Placings
  <2>4. CASE UNCHANGED edges
    BY <2>1, <2>2, <2>3, <2>4 DEF Transclude, Joined, OneId, Named, Placed
  <2>5. CASE ~UNCHANGED edges
    <3>1. PICK s, t : /\ e \notin EdgeIds(edges)
                      /\ CanLink(edges, places', TypeOf, NewEdge(e, in.map, s, t, in.rel, TypeOf))
                      /\ edges' = edges \cup {NewEdge(e, in.map, s, t, in.rel, TypeOf)}
      BY <2>1, <2>5 DEF Transclude
    <3>2. PICK link : link = NewEdge(e, in.map, s, t, in.rel, TypeOf)
      OBVIOUS
    <3>3. Joined' /\ OneId'
      BY <2>2, <3>1, <3>2, NewEdgeIs, LinkKeepsEdges DEF CanLink
    <3> QED
      BY <2>1, <2>3, <3>3 DEF Transclude, Named
  <2> QED
    BY <2>4, <2>5
<1>6. CASE q.op = "removeFromMap"
  <2>1. RemoveFromMap(q.map, q.node)
    BY <1>6 DEF Perform
  <2>2. Joined' /\ OneId'
    BY <2>1, FewerEdges DEF RemoveFromMap, Restrict, Touches, Joined, Placed
  <2> QED
    BY <2>1, <2>2 DEF RemoveFromMap, Restrict, Placings, Named
<1>7. CASE q.op = "deleteEverywhere"
  <2>1. DeleteNode(q.node)
    BY <1>7 DEF Perform
  <2>2. Joined' /\ OneId'
    BY <2>1, FewerEdges DEF DeleteNode, WithoutNode, Restrict, Touches, Joined, Placed
  <2> QED
    BY <2>1, <2>2 DEF DeleteNode, WithoutNode, Restrict, Placings, Named
<1>8. CASE q.op = "createEdge"
  <2>1. PICK m, s, t, r, e : CreateEdge(m, s, t, r, e)
    BY <1>8 DEF Perform
  <2>2. PICK link : link = NewEdge(e, m, s, t, r, TypeOf)
    OBVIOUS
  <2>3. Joined' /\ OneId'
    BY <2>1, <2>2, NewEdgeIs, LinkKeepsEdges DEF CreateEdge, CanLink
  <2> QED
    BY <2>1, <2>3 DEF CreateEdge, Placings, Named
<1>9. CASE q.op = "deleteEdge"
  BY <1>9 DEF Perform, DeleteEdge, Placings, Joined, OneId, Named
<1>10. CASE q.op \in {"createGroup", "renameGroup"}
  <2>1. (\E m, ti : CreateGroup(m, q.group, ti, q.ns) /\ q.group \in Group) \/ UpdateGroup(q.group, q.title)
    BY <1>10 DEF Perform
  <2>2. DOMAIN places' = DOMAIN places /\ UNCHANGED <<nodes, edges>>
    BY <2>1 DEF CreateGroup, UpdateGroup
  <2>3. Placings'
    <3>1. ASSUME NEW m, NEW ti, CreateGroup(m, q.group, ti, q.ns) PROVE Placings'
      <4>1. \A p \in DOMAIN places' : places'[p] \in {places[p], [places[p] EXCEPT !.group = q.group]}
        BY <3>1 DEF CreateGroup
      <4> QED
        BY <2>2, <4>1 DEF Placings
    <3>2. CASE UpdateGroup(q.group, q.title)
      BY <3>2 DEF UpdateGroup, Placings
    <3> QED
      BY <2>1, <3>1, <3>2
  <2>4. Named'
    BY <2>1, NilAssumption DEF CreateGroup, UpdateGroup, Named, Put
  <2> QED
    BY <2>2, <2>3, <2>4 DEF Joined, OneId, Placed
<1>11. CASE q.op \in {"moveGroup", "setGroupMembers", "deleteGroup"}
  <2>1. \/ MoveGroup(q.map, q.group, q.by) \/ SetGroupMembers(q.map, q.group, q.ns)
        \/ DeleteGroup(q.group)
    BY <1>11 DEF Perform
  <2>2. DOMAIN places' = DOMAIN places /\ UNCHANGED <<nodes, edges>>
    BY <2>1 DEF MoveGroup, SetGroupMembers, DeleteGroup, Ungrouped
  <2>3. Placings'
    BY <2>1, <2>2 DEF MoveGroup, SetGroupMembers, DeleteGroup, Ungrouped, Placings
  <2>4. Named'
    BY <2>1 DEF MoveGroup, SetGroupMembers, DeleteGroup, Named, Restrict
  <2> QED
    BY <2>2, <2>3, <2>4 DEF Joined, OneId, Placed
<1>12. CASE q.op = "createMap"
  BY <1>12 DEF Perform, CreateMap, Placings, Joined, OneId, Named
<1>13. CASE q.op = "deleteMap"
  <2>1. DeleteMap(q.map)
    BY <1>13 DEF Perform
  <2>2. DOMAIN places' = {p \in DOMAIN places : p[1] # q.map}
    BY <2>1 DEF DeleteMap, WithoutMap, Ungrouped, Restrict
  <2>3. \A p \in DOMAIN places' : places'[p] \in {places[p], [places[p] EXCEPT !.group = Nil]}
    BY <2>1, <2>2 DEF DeleteMap, WithoutMap, Ungrouped, Restrict
  <2>4. Placings'
    BY <2>1, <2>2, <2>3 DEF DeleteMap, Placings
  <2>5. Joined' /\ OneId'
    BY <2>1, <2>2, FewerEdges DEF DeleteMap, Joined, Placed
  <2> QED
    BY <2>1, <2>4, <2>5 DEF DeleteMap, Named, Restrict
<1> QED
  BY <1>1, <1>2, <1>3, <1>4, <1>5, <1>6, <1>7, <1>8, <1>9, <1>10, <1>11, <1>12, <1>13 DEF Perform

-----------------------------------------------------------------------------
(* What is painted is what is there.                                       *)

NodesShown(s) ==
    /\ \A n : n \in DOMAIN s.nodes <=> Placed(places, mapId, n)
    /\ \A n \in DOMAIN s.nodes : s.nodes[n] = Card(nodes[n], s.nodes[n].pos)
EdgesShown(s) == s.edges = {e \in edges : e.map = mapId}
\* A group is shown with its members, and maybe with some it has lost.
GroupsShown(s) ==
    /\ \A g : g \in DOMAIN s.groups <=> g \in GroupsOf(mapId)
    /\ \A g \in DOMAIN s.groups : s.groups[g].title = groups[g].title
    /\ \A g \in DOMAIN s.groups, p \in DOMAIN places :
          places[p].group = g => p[2] \in s.groups[g].members
PlacesShown(s) == \A n \in DOMAIN s.nodes : s.nodes[n].pos = places[<<mapId, n>>].pos

Shown(s) == s.of = mapId /\ NodesShown(s) /\ EdgesShown(s) /\ GroupsShown(s)
Mirrors(s) ==
    /\ Framed(s)
    /\ mapId # Nil => Shown(s) /\ ("places" \notin off => PlacesShown(s))

LEMMA GraphMirrors ==
    ASSUME Database, NEW s, s = Graph(mapId)
    PROVE  Mirrors(s) /\ Framed(s) /\ Shown(s) /\ PlacesShown(s)
<1>1. /\ s.of = mapId /\ s.edges = {e \in edges : e.map = mapId}
      /\ s.nodes = [n \in {p[2] : p \in {q \in DOMAIN places : q[1] = mapId}} |-> CardOn(mapId, n)]
      /\ s.groups = [g \in GroupsOf(mapId) |-> Saved(g)]
      /\ Framed(s)
  BY DEF Graph, Framed
<1>2. \A n : n \in DOMAIN s.nodes <=> Placed(places, mapId, n)
  <2>1. \A n : n \in DOMAIN s.nodes <=> \E p \in DOMAIN places : p[1] = mapId /\ p[2] = n
    BY <1>1
  <2>2. \A p \in DOMAIN places : p = <<p[1], p[2]>>
    BY DEF Database, Placings
  <2> QED
    BY <2>1, <2>2 DEF Placed
<1>3. \A n \in DOMAIN s.nodes : s.nodes[n] = Card(nodes[n], s.nodes[n].pos)
                                /\ s.nodes[n].pos = places[<<mapId, n>>].pos
  BY <1>1, <1>2 DEF CardOn, Card
<1>4. GroupsShown(s)
  BY <1>1 DEF GroupsShown, Saved, MemberNodes, Members
<1> QED
  BY <1>1, <1>2, <1>3, <1>4 DEF Mirrors, Shown, NodesShown, EdgesShown, PlacesShown

LEMMA MirrorsIsInStep ==
    ASSUME Database, Mirrors(screen)
    PROVE  ScreenInStep
<1> SUFFICES ASSUME mapId # Nil, "graph" \notin off, NEW true, true = Graph(mapId)
             PROVE  /\ screen.of = mapId /\ SameNodes(screen, true)
                    /\ screen.edges = true.edges /\ SameGroups(screen, true)
                    /\ "places" \notin off =>
                          \A n \in DOMAIN screen.nodes : screen.nodes[n].pos = true.nodes[n].pos
  BY DEF ScreenInStep
<1>1. Mirrors(true)
  BY GraphMirrors
<1>2. PICK s : s = screen
  OBVIOUS
<1>3. Shown(s) /\ Shown(true) /\ ("places" \notin off => PlacesShown(s) /\ PlacesShown(true))
  BY <1>1, <1>2 DEF Mirrors
<1>4. DOMAIN s.nodes = DOMAIN true.nodes
  <2>1. /\ DOMAIN s.nodes = {n \in DOMAIN s.nodes : Placed(places, mapId, n)}
        /\ \A n : n \in DOMAIN s.nodes <=> n \in DOMAIN true.nodes
    BY <1>3 DEF Shown, NodesShown
  <2> QED
    BY <2>1
<1>5. SameNodes(s, true)
  <2>1. \A n \in DOMAIN s.nodes : /\ s.nodes[n] = Card(nodes[n], s.nodes[n].pos)
                                  /\ true.nodes[n] = Card(nodes[n], true.nodes[n].pos)
    BY <1>3, <1>4 DEF Shown, NodesShown
  <2>2. \A row, a, b : [Card(row, a) EXCEPT !.pos = Nil] = [Card(row, b) EXCEPT !.pos = Nil]
    BY DEF Card
  <2> QED
    BY <1>4, <2>1, <2>2 DEF SameNodes
<1>6. SameGroups(s, true)
  <2>1. DOMAIN s.groups = DOMAIN true.groups
    <3>1. \A g : g \in DOMAIN s.groups <=> g \in DOMAIN true.groups
      BY <1>3 DEF Shown, GroupsShown
    <3> QED
      BY <3>1
  <2>2. \A g \in DOMAIN true.groups : true.groups[g].members = MemberNodes(places, g)
    BY DEF Graph, Saved
  <2> QED
    BY <1>3, <2>1, <2>2 DEF SameGroups, Shown, GroupsShown, MemberNodes, Members
<1>7. "places" \notin off => \A n \in DOMAIN s.nodes : s.nodes[n].pos = true.nodes[n].pos
  BY <1>3, <1>4 DEF PlacesShown
<1> QED
  BY <1>2, <1>3, <1>5, <1>6, <1>7 DEF Shown, EdgesShown

-----------------------------------------------------------------------------
(* What each way of painting changes.                                      *)

EdgesOver(es, told) == {e \in es : e.id \notin EdgeIds(told)} \cup told
EdgesBut(es, x)     == {f \in es : f.id # x}
EdgesOff(es, n)     == {e \in es : ~Touches(e, n)}
TidyNodes(s)        == [n \in DOMAIN s.nodes |-> [s.nodes[n] EXCEPT !.pos = Tidy]]
ShiftedNodes(s, g, d) ==
    [n \in DOMAIN s.nodes |-> IF n \in s.groups[g].members /\ s.nodes[n].pos # Nil
                              THEN [s.nodes[n] EXCEPT !.pos = @ + d] ELSE s.nodes[n]]
RewrittenNodes(s, told) ==
    Over([n \in DOMAIN told.nodes |-> [told.nodes[n] EXCEPT !.pos =
             IF n \in DOMAIN s.nodes THEN s.nodes[n].pos ELSE @]], s.nodes)

LEMMA MergedIs ==
    ASSUME NEW s, Framed(s), NEW told, NEW t, t = Merged(s, told)
    PROVE  /\ Framed(t) /\ t.of = s.of
           /\ t.nodes = Over(told.nodes, s.nodes) /\ t.groups = Over(told.groups, s.groups)
           /\ t.edges = EdgesOver(s.edges, told.edges)
<1>1. PICK x, y, u : /\ x = Over(told.nodes, s.nodes) /\ y = Over(told.groups, s.groups)
                     /\ u = [s EXCEPT !.nodes = x, !.groups = y]
  OBVIOUS
<1>2. u = [of |-> s.of, nodes |-> x, edges |-> s.edges, groups |-> y]
  BY <1>1 DEF Framed
<1>3. t = WithEdges(u, told.edges)
  BY <1>1, <1>2 DEF Merged, Framed
<1>4. t = [u EXCEPT !.edges = EdgesOver(s.edges, told.edges)]
  BY <1>2, <1>3 DEF WithEdges, EdgesOver
<1>5. PICK es : es = EdgesOver(s.edges, told.edges)
  OBVIOUS
<1>6. t = [of |-> s.of, nodes |-> x, edges |-> es, groups |-> y]
  BY <1>2, <1>4, <1>5
<1> QED
  BY <1>1, <1>5, <1>6 DEF Framed

LEMMA PaintedIs ==
    ASSUME NEW s, Framed(s), NEW t
    PROVE  /\ \A n, c : t = WithCard(s, n, c) =>
                 /\ Framed(t) /\ t.of = s.of /\ t.edges = s.edges /\ t.groups = s.groups
                 /\ t.nodes = Put(s.nodes, n, c)
           /\ \A e : t = WithoutEdge(s, e) =>
                 /\ Framed(t) /\ t.of = s.of /\ t.nodes = s.nodes /\ t.groups = s.groups
                 /\ t.edges = EdgesBut(s.edges, e)
           /\ \A es : t = WithEdges(s, es) =>
                 /\ Framed(t) /\ t.of = s.of /\ t.nodes = s.nodes /\ t.groups = s.groups
                 /\ t.edges = EdgesOver(s.edges, es)
           /\ \A g, c : t = WithGroup(s, g, c) =>
                 /\ Framed(t) /\ t.of = s.of /\ t.nodes = s.nodes /\ t.edges = s.edges
                 /\ t.groups = Put(s.groups, g, c)
           /\ \A g : t = WithoutGroup(s, g) =>
                 /\ Framed(t) /\ t.of = s.of /\ t.nodes = s.nodes /\ t.edges = s.edges
                 /\ t.groups = Restrict(s.groups, DOMAIN s.groups \ {g})
           /\ \A n : t = DropNode(s, n) =>
                 /\ Framed(t) /\ t.of = s.of /\ t.groups = s.groups
                 /\ t.nodes = Restrict(s.nodes, DOMAIN s.nodes \ {n})
                 /\ t.edges = EdgesOff(s.edges, n)
           /\ t = LaidOut(s) =>
                 /\ Framed(t) /\ t.of = s.of /\ t.edges = s.edges /\ t.groups = s.groups
                 /\ t.nodes = TidyNodes(s)
           /\ \A g, d : t = Shifted(s, g, d) =>
                 /\ Framed(t) /\ t.of = s.of /\ t.edges = s.edges /\ t.groups = s.groups
                 /\ t.nodes = ShiftedNodes(s, g, d)
           /\ \A told : t = Rewrites(s, told) =>
                 /\ Framed(t) /\ t.of = s.of /\ t.edges = s.edges /\ t.groups = s.groups
                 /\ t.nodes = RewrittenNodes(s, told)
<1>1. \A x : t = [s EXCEPT !.nodes = x] =>
         /\ Framed(t) /\ t.of = s.of /\ t.edges = s.edges /\ t.groups = s.groups /\ t.nodes = x
  BY DEF Framed
<1>2. \A x : t = [s EXCEPT !.edges = x] =>
         /\ Framed(t) /\ t.of = s.of /\ t.nodes = s.nodes /\ t.groups = s.groups /\ t.edges = x
  BY DEF Framed
<1>3. \A x : t = [s EXCEPT !.groups = x] =>
         /\ Framed(t) /\ t.of = s.of /\ t.nodes = s.nodes /\ t.edges = s.edges /\ t.groups = x
  BY DEF Framed
<1>4. ASSUME NEW n, t = DropNode(s, n)
      PROVE  /\ Framed(t) /\ t.of = s.of /\ t.groups = s.groups
             /\ t.nodes = Restrict(s.nodes, DOMAIN s.nodes \ {n})
             /\ t.edges = EdgesOff(s.edges, n)
  <2>1. PICK x, y : x = Restrict(s.nodes, DOMAIN s.nodes \ {n}) /\ y = EdgesOff(s.edges, n)
    OBVIOUS
  <2>2. t = [s EXCEPT !.nodes = x, !.edges = y]
    BY <1>4, <2>1 DEF DropNode, EdgesOff
  <2>3. t = [of |-> s.of, nodes |-> x, edges |-> y, groups |-> s.groups]
    BY <2>2 DEF Framed
  <2> QED
    BY <2>1, <2>3 DEF Framed
<1>5. \A n, c : t = WithCard(s, n, c) =>
                 /\ Framed(t) /\ t.of = s.of /\ t.edges = s.edges /\ t.groups = s.groups
                 /\ t.nodes = Put(s.nodes, n, c)
  BY <1>1 DEF WithCard
<1>6. /\ \A e : t = WithoutEdge(s, e) =>
                 /\ Framed(t) /\ t.of = s.of /\ t.nodes = s.nodes /\ t.groups = s.groups
                 /\ t.edges = EdgesBut(s.edges, e)
      /\ \A es : t = WithEdges(s, es) =>
                 /\ Framed(t) /\ t.of = s.of /\ t.nodes = s.nodes /\ t.groups = s.groups
                 /\ t.edges = EdgesOver(s.edges, es)
  BY <1>2 DEF WithoutEdge, WithEdges, EdgesBut, EdgesOver
<1>7. /\ \A g, c : t = WithGroup(s, g, c) =>
                 /\ Framed(t) /\ t.of = s.of /\ t.nodes = s.nodes /\ t.edges = s.edges
                 /\ t.groups = Put(s.groups, g, c)
      /\ \A g : t = WithoutGroup(s, g) =>
                 /\ Framed(t) /\ t.of = s.of /\ t.nodes = s.nodes /\ t.edges = s.edges
                 /\ t.groups = Restrict(s.groups, DOMAIN s.groups \ {g})
  BY <1>3 DEF WithGroup, WithoutGroup
<1>8. t = LaidOut(s) =>
                 /\ Framed(t) /\ t.of = s.of /\ t.edges = s.edges /\ t.groups = s.groups
                 /\ t.nodes = TidyNodes(s)
  BY <1>1 DEF LaidOut, TidyNodes
<1>9. \A g, d : t = Shifted(s, g, d) =>
                 /\ Framed(t) /\ t.of = s.of /\ t.edges = s.edges /\ t.groups = s.groups
                 /\ t.nodes = ShiftedNodes(s, g, d)
  BY <1>1 DEF Shifted, ShiftedNodes
<1>10. \A told : t = Rewrites(s, told) =>
                 /\ Framed(t) /\ t.of = s.of /\ t.edges = s.edges /\ t.groups = s.groups
                 /\ t.nodes = RewrittenNodes(s, told)
  BY <1>1 DEF Rewrites, RewrittenNodes
<1> QED
  BY <1>4, <1>5, <1>6, <1>7, <1>8, <1>9, <1>10

-----------------------------------------------------------------------------
(* What an answer tells, call by call.                                     *)

CardsTold(m, ns) == [n \in ns |-> CardOn(m, n)']

LEMMA NodesToldIs ==
    ASSUME NEW m, NEW ns, NEW told
    PROVE  /\ told = NodesTold(m, ns) => told.nodes = CardsTold(m, ns)
           /\ \A es : told = WithEdges(NodesTold(m, ns), es) =>
                 told.nodes = CardsTold(m, ns) /\ told.edges = es /\ told.groups = Empty
<1>1. PICK x : x = CardsTold(m, ns)
  OBVIOUS
<1>2. NodesTold(m, ns) = [of |-> Nil, nodes |-> x, edges |-> {}, groups |-> Empty]
  BY <1>1 DEF NodesTold, Nothing, CardsTold
<1>3. ASSUME told = NodesTold(m, ns)
      PROVE  told.nodes = CardsTold(m, ns)
  BY <1>1, <1>2, <1>3
<1>4. ASSUME NEW es, told = WithEdges(NodesTold(m, ns), es)
      PROVE  told.nodes = CardsTold(m, ns) /\ told.edges = es /\ told.groups = Empty
  <2>1. told = [of |-> Nil, nodes |-> x, edges |-> es, groups |-> Empty]
    BY <1>2, <1>4 DEF WithEdges
  <2> QED
    BY <1>1, <2>1
<1> QED
  BY <1>3, <1>4

LEMMA NothingToldIs ==
    ASSUME NEW told
    PROVE  /\ \A es : told = WithEdges(Nothing, es) =>
                 told.nodes = Empty /\ told.edges = es /\ told.groups = Empty
           /\ \A g, c : told = WithGroup(Nothing, g, c) =>
                 told.nodes = Empty /\ told.edges = {} /\ told.groups = Put(Empty, g, c)
BY DEF Nothing, WithEdges, WithGroup

LEMMA ToldIs ==
    ASSUME NEW q, NEW told, told = Told(q)
    PROVE  /\ q.op = "createNode" =>
                 /\ told.nodes = CardsTold(q.in.map, DOMAIN nodes' \ DOMAIN nodes)
                 /\ told.edges = edges' \ edges /\ told.groups = Empty
           /\ q.op = "transclude" =>
                 /\ told.nodes = CardsTold(q.in.map, {q.in.node})
                 /\ told.edges = edges' \ edges /\ told.groups = Empty
           /\ q.op = "updateNode" => told.nodes = CardsTold(Nil, {q.node})
           /\ q.op = "bulkUpdate" => told.nodes = CardsTold(Nil, q.ns)
           /\ q.op = "createEdge" =>
                 /\ told.nodes = Empty /\ told.edges = edges' \ edges /\ told.groups = Empty
           /\ q.op \in {"createGroup", "renameGroup"} =>
                 /\ told.nodes = Empty /\ told.edges = {}
                 /\ told.groups = Put(Empty, q.group, Saved(q.group)')
           /\ q.op = "graph" => told = Graph(q.map)
           /\ q.op = "listMaps" => told = maps
<1>1. CASE q.op = "createNode"
  <2>1. told = WithEdges(NodesTold(q.in.map, DOMAIN nodes' \ DOMAIN nodes), edges' \ edges)
    BY <1>1 DEF Told
  <2> QED
    BY <1>1, <2>1, NodesToldIs
<1>2. CASE q.op = "transclude"
  <2>1. told = WithEdges(NodesTold(q.in.map, {q.in.node}), edges' \ edges)
    BY <1>2 DEF Told
  <2> QED
    BY <1>2, <2>1, NodesToldIs
<1>3. CASE q.op = "updateNode"
  <2>1. told = NodesTold(Nil, {q.node})
    BY <1>3 DEF Told
  <2> QED
    BY <1>3, <2>1, NodesToldIs
<1>4. CASE q.op = "bulkUpdate"
  <2>1. told = NodesTold(Nil, q.ns)
    BY <1>4 DEF Told
  <2> QED
    BY <1>4, <2>1, NodesToldIs
<1>5. CASE q.op = "createEdge"
  <2>1. told = WithEdges(Nothing, edges' \ edges)
    BY <1>5 DEF Told
  <2> QED
    BY <1>5, <2>1, NothingToldIs
<1>6. CASE q.op \in {"createGroup", "renameGroup"}
  <2>1. PICK c : c = Saved(q.group)'
    OBVIOUS
  <2>2. told = WithGroup(Nothing, q.group, c)
    BY <1>6, <2>1 DEF Told
  <2> QED
    BY <1>6, <2>1, <2>2, NothingToldIs
<1>7. CASE q.op \in {"graph", "listMaps"}
  BY <1>7 DEF Told
<1> QED
  BY <1>1, <1>2, <1>3, <1>4, <1>5, <1>6, <1>7

-----------------------------------------------------------------------------
(* What each change of the tables asks of a screen that mirrored them.      *)

Held(s) ==
    /\ Database /\ Mirrors(s) /\ mapId' = mapId
    /\ "places" \notin off' => "places" \notin off

\* An edge of m has come, or none has.
Linked(m) ==
    \/ edges' = edges
    \/ \E link : link.id \notin EdgeIds(edges) /\ link.map = m /\ edges' = edges \cup {link}

LEMMA EdgesAdded ==
    ASSUME NEW m, Linked(m), NEW s, EdgesShown(s)
    PROVE  /\ m = mapId => EdgesOver(s.edges, edges' \ edges)
                             = {e \in edges' : e.map = mapId}
           /\ m # mapId => s.edges = {e \in edges' : e.map = mapId}
<1>1. CASE edges' = edges
  BY <1>1 DEF EdgesShown, EdgesOver, EdgeIds
<1>2. ASSUME NEW link, link.id \notin EdgeIds(edges), link.map = m, edges' = edges \cup {link}
      PROVE  /\ m = mapId => EdgesOver(s.edges, edges' \ edges)
                             = {e \in edges' : e.map = mapId}
             /\ m # mapId => s.edges = {e \in edges' : e.map = mapId}
  <2>1. edges' \ edges = {link} /\ EdgeIds({link}) = {link.id}
    BY <1>2 DEF EdgeIds
  <2>2. \A e \in edges : e.id # link.id
    BY <1>2 DEF EdgeIds
  <2> QED
    BY <1>2, <2>1, <2>2 DEF EdgesShown, EdgesOver
<1> QED
  BY <1>1, <1>2 DEF Linked

LEMMA ShownAreNodes ==
    ASSUME NEW s, Database, NodesShown(s)
    PROVE  \A n \in DOMAIN s.nodes : <<mapId, n>> \in DOMAIN places /\ n \in DOMAIN nodes
<1>1. \A n : <<mapId, n>>[2] = n
  OBVIOUS
<1> QED
  BY <1>1 DEF Database, Placings, NodesShown, Placed

\* Nodes come to m, or are there already, and maybe an edge.
Added(m, ns) ==
    /\ Linked(m) /\ UNCHANGED groups
    /\ \A n \in DOMAIN nodes : n \in DOMAIN nodes' /\ nodes'[n] = nodes[n]
    /\ DOMAIN places' = DOMAIN places \cup {<<m, n>> : n \in ns}
    /\ \A p \in DOMAIN places : places'[p] = places[p]
    /\ \A p \in DOMAIN places' : p \in DOMAIN places \/ places'[p].group = Nil

\* They are merged into the screen.
AddedTo(s, t, m, ns) ==
    /\ Framed(t) /\ t.of = s.of
    /\ DOMAIN t.nodes = DOMAIN s.nodes \cup ns
    /\ \A n \in DOMAIN s.nodes \ ns : t.nodes[n] = s.nodes[n]
    /\ \A n \in ns : t.nodes[n] = CardOn(m, n)'
    /\ t.edges = EdgesOver(s.edges, edges' \ edges)
    /\ DOMAIN t.groups = DOMAIN s.groups
    /\ \A g \in DOMAIN s.groups : t.groups[g] = s.groups[g]

LEMMA CardPos == \A row, pos : Card(row, pos).pos = pos
BY DEF Card

LEMMA AddedIsPainted ==
    ASSUME NEW s, Held(s), NEW m, NEW ns, Added(m, ns)
    PROVE  /\ m = mapId => \A t : AddedTo(s, t, m, ns) => Mirrors(t)'
           /\ m # mapId => Mirrors(s)'
<1>1. /\ \A p \in DOMAIN places : p = <<p[1], p[2]>>
      /\ \A g \in DOMAIN groups : g # Nil
      /\ \A x, y, n : <<x, n>> = <<y, n>> => x = y
      /\ \A x, n : <<x, n>> \in DOMAIN places' <=> <<x, n>> \in DOMAIN places \/ (x = m /\ n \in ns)
  <2>1. \A x, n : <<x, n>> \in {<<m, k>> : k \in ns} <=> x = m /\ n \in ns
    OBVIOUS
  <2> QED
    BY <2>1 DEF Added, Held, Database, Placings, Named
<1>2. CASE mapId = Nil
  BY <1>2 DEF Held, Mirrors, AddedTo
<1>3. ASSUME mapId # Nil PROVE Framed(s) /\ Shown(s) /\ ("places" \notin off' => PlacesShown(s))
  BY <1>3 DEF Held, Mirrors
<1>4. ASSUME mapId # Nil, m = mapId, NEW t, AddedTo(s, t, m, ns)
      PROVE  Mirrors(t)'
  <2>1. \A n \in ns : t.nodes[n] = Card(nodes'[n], places'[<<mapId, n>>].pos)
    BY <1>1, <1>4 DEF AddedTo, CardOn, Placed
  <2>2. \A n : n \in DOMAIN t.nodes <=> <<mapId, n>> \in DOMAIN places'
    BY <1>1, <1>3, <1>4 DEF NodesShown, Shown, Placed, AddedTo
  <2>3. \A n \in DOMAIN t.nodes : t.nodes[n] = Card(nodes'[n], t.nodes[n].pos)
    <3>1. ASSUME NEW n \in ns PROVE t.nodes[n] = Card(nodes'[n], t.nodes[n].pos)
      <4>1. PICK row, pos : row = nodes'[n] /\ pos = places'[<<mapId, n>>].pos
        OBVIOUS
      <4>2. t.nodes[n] = Card(row, pos) /\ Card(row, pos).pos = pos
        BY <2>1, <4>1, CardPos
      <4> QED
        BY <4>1, <4>2
    <3>2. \A n \in DOMAIN s.nodes : s.nodes[n] = Card(nodes[n], s.nodes[n].pos) /\ n \in DOMAIN nodes
      BY <1>3, <1>4, ShownAreNodes DEF NodesShown, Held, Mirrors, Shown
    <3> QED
      BY <1>4, <3>1, <3>2 DEF AddedTo, Added
  <2>4. NodesShown(t)'
    BY <1>4, <2>2, <2>3 DEF NodesShown, Placed, Held
  <2>5. EdgesShown(t)'
    BY <1>3, <1>4, EdgesAdded DEF Added, AddedTo, Held, Shown, EdgesShown
  <2>6. GroupsShown(t)'
    BY <1>1, <1>3, <1>4 DEF GroupsShown, Held, Shown, GroupsOf, AddedTo, Added
  <2>7. "places" \notin off' => PlacesShown(t)'
    <3>1. ASSUME "places" \notin off', NEW n \in DOMAIN t.nodes
          PROVE  t.nodes[n].pos = places'[<<mapId, n>>].pos
      <4>1. CASE n \in ns
        BY <2>1, <4>1, CardPos
      <4>2. CASE n \notin ns
        BY <1>3, <1>4, <3>1, <4>2 DEF AddedTo, Added, PlacesShown, Shown, NodesShown, Placed
      <4> QED
        BY <4>1, <4>2
    <3> QED
      BY <1>4, <3>1 DEF PlacesShown, Held
  <2> QED
    BY <1>3, <1>4, <2>4, <2>5, <2>6, <2>7 DEF Mirrors, Shown, Held, AddedTo
<1>5. ASSUME mapId # Nil, m # mapId
      PROVE  Mirrors(s)'
  <2>1. NodesShown(s)'
    <3>1. \A n \in DOMAIN s.nodes : s.nodes[n] = Card(nodes[n], s.nodes[n].pos) /\ n \in DOMAIN nodes
      BY <1>3, <1>5, ShownAreNodes DEF NodesShown, Held, Mirrors, Shown
    <3> QED
      BY <1>1, <1>3, <1>5, <3>1 DEF NodesShown, Held, Shown, Placed, Added
  <2>2. EdgesShown(s)'
    BY <1>3, <1>5, EdgesAdded DEF Added, Held, Shown, EdgesShown
  <2>3. GroupsShown(s)'
    BY <1>1, <1>3, <1>5 DEF GroupsShown, Held, Shown, GroupsOf, Added
  <2>4. "places" \notin off' => PlacesShown(s)'
    BY <1>3, <1>5 DEF PlacesShown, Held, Shown, NodesShown, Placed, Added
  <2> QED
    BY <1>3, <1>5, <2>1, <2>2, <2>3, <2>4 DEF Mirrors, Shown, Held
<1> QED
  BY <1>2, <1>4, <1>5

LEMMA WhatIsAdded ==
    ASSUME Database
    PROVE  /\ \A in, n, e : CreateNode(in, n, e) =>
                 Added(in.map, {n}) /\ DOMAIN nodes' \ DOMAIN nodes = {n}
           /\ \A in, e : Transclude(in, e) => Added(in.map, {in.node})
           /\ \A m, a, b, r, e : CreateEdge(m, a, b, r, e) => Added(m, {})
<1>1. ASSUME NEW in, NEW n, NEW e, CreateNode(in, n, e)
      PROVE  Added(in.map, {n}) /\ DOMAIN nodes' \ DOMAIN nodes = {n}
  <2>1. Linked(in.map)
    <3>1. CASE edges' = edges
      BY <3>1 DEF Linked
    <3>2. CASE edges' # edges
      <4>1. PICK a, b : /\ e \notin EdgeIds(edges)
                        /\ edges' = edges \cup {NewEdge(e, in.map, a, b, in.rel, TypeOf')}
        BY <1>1, <3>2 DEF CreateNode
      <4> QED
        BY <4>1, NewEdgeIs DEF Linked
    <3> QED
      BY <3>1, <3>2
  <2>2. /\ UNCHANGED groups /\ DOMAIN nodes' \ DOMAIN nodes = {n}
        /\ \A x \in DOMAIN nodes : x \in DOMAIN nodes' /\ nodes'[x] = nodes[x]
        /\ DOMAIN places' = DOMAIN places \cup {<<in.map, n>>}
        /\ \A p \in DOMAIN places : p[2] # n
        /\ \A p \in DOMAIN places' : IF p = <<in.map, n>> THEN places'[p].group = Nil ELSE places'[p] = places[p]
    BY <1>1 DEF CreateNode, Put, Database, Placings
  <2>3. <<in.map, n>>[2] = n /\ {<<in.map, x>> : x \in {n}} = {<<in.map, n>>}
    OBVIOUS
  <2> QED
    BY <2>1, <2>2, <2>3 DEF Added
<1>2. ASSUME NEW in, NEW e, Transclude(in, e)
      PROVE  Added(in.map, {in.node})
  <2>1. Linked(in.map)
    <3>1. CASE edges' = edges
      BY <3>1 DEF Linked
    <3>2. CASE edges' # edges
      <4>1. PICK a, b : /\ e \notin EdgeIds(edges)
                        /\ edges' = edges \cup {NewEdge(e, in.map, a, b, in.rel, TypeOf)}
        BY <1>2, <3>2 DEF Transclude
      <4> QED
        BY <4>1, NewEdgeIs DEF Linked
    <3> QED
      BY <3>1, <3>2
  <2>2. /\ UNCHANGED <<groups, nodes>>
        /\ DOMAIN places' = DOMAIN places \cup {<<in.map, in.node>>}
        /\ \A p \in DOMAIN places : places'[p] = places[p]
        /\ \A p \in DOMAIN places' : p \in DOMAIN places \/ places'[p].group = Nil
    BY <1>2 DEF Transclude, Put, Placed
  <2>3. {<<in.map, x>> : x \in {in.node}} = {<<in.map, in.node>>}
    OBVIOUS
  <2> QED
    BY <2>1, <2>2, <2>3 DEF Added
<1>3. ASSUME NEW m, NEW a, NEW b, NEW r, NEW e, CreateEdge(m, a, b, r, e)
      PROVE  Added(m, {})
  <2>1. PICK link : /\ link = NewEdge(e, m, a, b, r, TypeOf) /\ e \notin EdgeIds(edges)
                    /\ edges' = edges \cup {link} /\ UNCHANGED <<nodes, places, groups>>
    BY <1>3 DEF CreateEdge
  <2>2. link.id = e /\ link.map = m
    BY <2>1, NewEdgeIs
  <2> QED
    BY <2>1, <2>2 DEF Added, Linked
<1> QED
  BY <1>1, <1>2, <1>3

LEMMA MergedAdds ==
    ASSUME NEW s, Framed(s), NEW told, told.edges = edges' \ edges, told.groups = Empty,
           NEW m, NEW ns, told.nodes = CardsTold(m, ns) \/ (ns = {} /\ told.nodes = Empty),
           NEW t, t = Merged(s, told)
    PROVE  AddedTo(s, t, m, ns)
<1>1. /\ Framed(t) /\ t.of = s.of
      /\ t.nodes = Over(told.nodes, s.nodes) /\ t.groups = Over(told.groups, s.groups)
      /\ t.edges = EdgesOver(s.edges, told.edges)
  BY MergedIs
<1>2. DOMAIN told.nodes = ns /\ \A n \in ns : told.nodes[n] = CardOn(m, n)'
  BY DEF CardsTold, Empty
<1> QED
  BY <1>1, <1>2 DEF AddedTo, Over, Empty

\* The nodes and the edge are told one after the other.
LEMMA MergedTwiceAdds ==
    ASSUME NEW s, Framed(s), NEW first, NEW second, NEW m, NEW ns,
           first.nodes = CardsTold(m, ns), first.edges = {}, first.groups = Empty,
           second.nodes = Empty, second.edges = edges' \ edges, second.groups = Empty,
           NEW t, t = Merged(s, first), NEW u, u = Merged(t, second)
    PROVE  AddedTo(s, u, m, ns)
<1>1. /\ Framed(t) /\ t.of = s.of
      /\ t.nodes = Over(first.nodes, s.nodes) /\ t.groups = Over(first.groups, s.groups)
      /\ t.edges = EdgesOver(s.edges, first.edges)
  BY MergedIs
<1>2. /\ Framed(u) /\ u.of = t.of
      /\ u.nodes = Over(second.nodes, t.nodes) /\ u.groups = Over(second.groups, t.groups)
      /\ u.edges = EdgesOver(t.edges, second.edges)
  <2>1. Framed(t)
    BY <1>1
  <2> QED
    BY <2>1, MergedIs
<1>3. DOMAIN first.nodes = ns /\ \A n \in ns : first.nodes[n] = CardOn(m, n)'
  BY DEF CardsTold
<1>4. t.edges = s.edges
  BY <1>1 DEF EdgesOver, EdgeIds
<1>5. /\ DOMAIN t.nodes = ns \cup DOMAIN s.nodes /\ DOMAIN u.nodes = DOMAIN t.nodes
      /\ \A n \in DOMAIN t.nodes : u.nodes[n] = t.nodes[n]
                                   /\ t.nodes[n] = IF n \in ns THEN CardOn(m, n)' ELSE s.nodes[n]
  BY <1>1, <1>2, <1>3 DEF Over, Empty
<1>6. /\ DOMAIN t.groups = DOMAIN s.groups /\ DOMAIN u.groups = DOMAIN t.groups
      /\ \A g \in DOMAIN s.groups : t.groups[g] = s.groups[g] /\ u.groups[g] = t.groups[g]
  BY <1>1, <1>2 DEF Over, Empty
<1> QED
  BY <1>1, <1>2, <1>4, <1>5, <1>6 DEF AddedTo

\* Rows of nodes have changed and nothing else.
Edited(ns) ==
    /\ DOMAIN nodes' = DOMAIN nodes
    /\ \A n \in DOMAIN nodes \ ns : nodes'[n] = nodes[n]
    /\ UNCHANGED <<places, edges, groups>>

\* The cards of ns are written anew, in their places.
EditedTo(s, t, ns) ==
    /\ Framed(t) /\ t.of = s.of /\ t.edges = s.edges /\ t.groups = s.groups
    /\ DOMAIN t.nodes = DOMAIN s.nodes
    /\ \A n \in DOMAIN s.nodes :
          t.nodes[n] = IF n \in ns THEN Card(nodes'[n], s.nodes[n].pos) ELSE s.nodes[n]

LEMMA EditedIsPainted ==
    ASSUME NEW s, Held(s), NEW ns, Edited(ns), NEW t, EditedTo(s, t, ns)
    PROVE  Mirrors(t)'
<1>1. CASE mapId = Nil
  BY <1>1 DEF Held, Mirrors, EditedTo
<1>2. CASE mapId # Nil
  <2>1. Framed(s) /\ Shown(s) /\ ("places" \notin off' => PlacesShown(s))
    BY <1>2 DEF Held, Mirrors
  <2>2. \A n \in DOMAIN s.nodes : s.nodes[n] = Card(nodes[n], s.nodes[n].pos) /\ n \in DOMAIN nodes
    BY <2>1, ShownAreNodes DEF NodesShown, Held, Shown
  <2>3. \A n \in DOMAIN s.nodes : t.nodes[n].pos = s.nodes[n].pos
    BY CardPos DEF EditedTo
  <2>4. \A n \in DOMAIN t.nodes : t.nodes[n] = Card(nodes'[n], t.nodes[n].pos)
    BY <2>2, <2>3 DEF EditedTo, Edited
  <2>5. NodesShown(t)'
    BY <2>1, <2>4 DEF NodesShown, Placed, Held, Shown, Edited, EditedTo
  <2>6. EdgesShown(t)' /\ GroupsShown(t)'
    BY <2>1 DEF EdgesShown, GroupsShown, GroupsOf, Held, Shown, Edited, EditedTo
  <2>7. "places" \notin off' => PlacesShown(t)'
    BY <2>1, <2>3 DEF PlacesShown, Held, Edited, EditedTo
  <2> QED
    BY <2>1, <2>5, <2>6, <2>7 DEF Mirrors, Shown, Held, EditedTo
<1> QED
  BY <1>1, <1>2

LEMMA CardMoved ==
    ASSUME NEW c, NEW row, NEW a, c = Card(row, a), NEW b, NEW d, d = [c EXCEPT !.pos = b]
    PROVE  d = Card(row, b) /\ d.pos = b
BY DEF Card

LEMMA MovedIsPainted ==
    ASSUME NEW s, Held(s), NEW m, NEW n, NEW pos, SetPlacement(m, n, pos, Keep)
    PROVE  /\ m = mapId /\ n \in DOMAIN s.nodes =>
                 \A t : t = [s EXCEPT !.nodes[n].pos = pos] => Mirrors(t)'
           /\ m # mapId \/ n \notin DOMAIN s.nodes => Mirrors(s)'
<1>1. /\ UNCHANGED <<nodes, edges, groups>> /\ DOMAIN places' = DOMAIN places
      /\ <<m, n>> \in DOMAIN places
      /\ places'[<<m, n>>].pos = pos
      /\ \A p \in DOMAIN places : places'[p].group = places[p].group
                                  /\ (p # <<m, n>> => places'[p].pos = places[p].pos)
  BY DEF SetPlacement, Placed
<1>2. CASE mapId = Nil
  BY <1>2 DEF Held, Mirrors, Framed
<1>3. ASSUME mapId # Nil
      PROVE  Framed(s) /\ Shown(s) /\ ("places" \notin off' => PlacesShown(s))
  BY <1>3 DEF Held, Mirrors
<1>4. ASSUME mapId # Nil, m = mapId, n \in DOMAIN s.nodes, NEW t, t = [s EXCEPT !.nodes[n].pos = pos]
      PROVE  Mirrors(t)'
  <2>1. /\ Framed(t) /\ t.of = s.of /\ t.edges = s.edges /\ t.groups = s.groups
        /\ t.nodes = [s.nodes EXCEPT ![n].pos = pos]
    BY <1>3, <1>4 DEF Framed
  <2>2. /\ DOMAIN t.nodes = DOMAIN s.nodes
        /\ \A x \in DOMAIN s.nodes : t.nodes[x] = IF x = n THEN [s.nodes[n] EXCEPT !.pos = pos] ELSE s.nodes[x]
    BY <1>4, <2>1
  <2>3. t.nodes[n] = Card(nodes[n], pos) /\ t.nodes[n].pos = pos
    <3>1. s.nodes[n] = Card(nodes[n], s.nodes[n].pos)
      BY <1>3, <1>4 DEF Shown, NodesShown
    <3>2. t.nodes[n] = [s.nodes[n] EXCEPT !.pos = pos]
      BY <1>4, <2>2
    <3> QED
      BY <3>1, <3>2, CardMoved
  <2>4. \A x \in DOMAIN t.nodes : t.nodes[x] = Card(nodes[x], t.nodes[x].pos)
    BY <1>3, <1>4, <2>2, <2>3 DEF Shown, NodesShown
  <2>5. NodesShown(t)' /\ EdgesShown(t)' /\ GroupsShown(t)'
    BY <1>1, <1>3, <1>4, <2>1, <2>2, <2>4 DEF NodesShown, EdgesShown, GroupsShown, GroupsOf, Placed, Held, Shown
  <2>6. "places" \notin off' => PlacesShown(t)'
    <3>1. ASSUME "places" \notin off', NEW x \in DOMAIN t.nodes
          PROVE  t.nodes[x].pos = places'[<<mapId, x>>].pos
      <4>1. CASE x = n
        BY <1>1, <1>4, <2>3, <4>1
      <4>2. CASE x # n
        <5>1. <<mapId, x>> # <<mapId, n>> /\ <<mapId, x>> \in DOMAIN places
          BY <1>3, <1>4, <2>2, <4>2 DEF Shown, NodesShown, Placed
        <5> QED
          BY <1>1, <1>3, <1>4, <2>2, <3>1, <4>2, <5>1 DEF PlacesShown
      <4> QED
        BY <4>1, <4>2
    <3> QED
      BY <3>1 DEF PlacesShown, Held
  <2> QED
    BY <1>3, <1>4, <2>1, <2>5, <2>6 DEF Mirrors, Shown, Held
<1>5. ASSUME mapId # Nil, m # mapId \/ n \notin DOMAIN s.nodes
      PROVE  Mirrors(s)'
  <2>1. m # mapId
    BY <1>1, <1>3, <1>5 DEF Shown, NodesShown, Placed
  <2>2. \A x : <<mapId, x>> # <<m, n>>
    BY <2>1
  <2>3. NodesShown(s)' /\ EdgesShown(s)' /\ GroupsShown(s)'
    BY <1>1, <1>3, <1>5 DEF NodesShown, EdgesShown, GroupsShown, GroupsOf, Placed, Held, Shown
  <2>4. "places" \notin off' => PlacesShown(s)'
    BY <1>1, <1>3, <1>5, <2>2 DEF PlacesShown, Held, Shown, NodesShown, Placed
  <2> QED
    BY <1>3, <1>5, <2>3, <2>4 DEF Mirrors, Shown, Held
<1> QED
  BY <1>2, <1>4, <1>5

\* A node has gone, from the open map or altogether, or was not on it.
LEMMA RemovedIsPainted ==
    ASSUME NEW s, Held(s), NEW m, NEW n,
           \/ DeleteNode(n)
           \/ RemoveFromMap(m, n) /\ (m = mapId \/ n \notin DOMAIN s.nodes),
           NEW t, t = DropNode(s, n)
    PROVE  Mirrors(t)'
<1>1. /\ Framed(t) /\ t.of = s.of /\ t.groups = s.groups
      /\ t.nodes = Restrict(s.nodes, DOMAIN s.nodes \ {n})
      /\ t.edges = EdgesOff(s.edges, n)
  BY PaintedIs DEF Held, Mirrors
<1>2. CASE mapId = Nil
  BY <1>1, <1>2 DEF Held, Mirrors
<1>3. CASE mapId # Nil
  <2>1. Framed(s) /\ Shown(s) /\ ("places" \notin off' => PlacesShown(s))
    BY <1>3 DEF Held, Mirrors
  <2>2. /\ DOMAIN t.nodes = DOMAIN s.nodes \ {n}
        /\ \A x \in DOMAIN t.nodes : t.nodes[x] = s.nodes[x]
    BY <1>1 DEF Restrict
  <2>3. \A x : <<mapId, x>>[2] = x /\ <<mapId, x>>[1] = mapId
    OBVIOUS
  <2>4. /\ UNCHANGED groups
        /\ \A p \in DOMAIN places' : p \in DOMAIN places /\ places'[p] = places[p]
        /\ \A x \in DOMAIN nodes \ {n} : nodes'[x] = nodes[x]
    BY DEF DeleteNode, RemoveFromMap, WithoutNode, Restrict
  <2>5. \A x : <<mapId, x>> \in DOMAIN places' <=> <<mapId, x>> \in DOMAIN places /\ x # n
    <3>1. CASE DeleteNode(n)
      BY <2>3, <3>1 DEF DeleteNode, WithoutNode, Restrict
    <3>2. CASE RemoveFromMap(m, n) /\ m = mapId
      BY <2>3, <3>2 DEF RemoveFromMap, Restrict
    <3>3. CASE RemoveFromMap(m, n) /\ n \notin DOMAIN s.nodes
      BY <2>1, <2>3, <3>3 DEF RemoveFromMap, Restrict, Shown, NodesShown, Placed
    <3> QED
      BY <3>1, <3>2, <3>3
  <2>6. \A x \in DOMAIN s.nodes : s.nodes[x] = Card(nodes[x], s.nodes[x].pos) /\ x \in DOMAIN nodes
    BY <2>1, ShownAreNodes DEF NodesShown, Held, Shown
  <2>7. NodesShown(t)'
    BY <2>1, <2>2, <2>4, <2>5, <2>6 DEF NodesShown, Shown, Placed, Held
  <2>8. EdgesShown(t)'
    <3>1. \A e \in edges : e.map = mapId => (e \in edges' <=> ~Touches(e, n))
      <4>1. CASE DeleteNode(n)
        BY <4>1 DEF DeleteNode
      <4>2. CASE RemoveFromMap(m, n) /\ m = mapId
        BY <4>2 DEF RemoveFromMap
      <4>3. CASE RemoveFromMap(m, n) /\ n \notin DOMAIN s.nodes /\ m # mapId
        <5>1. \A e \in edges : e.map = mapId => ~Touches(e, n)
          BY <2>1, <4>3 DEF Held, Database, Joined, Placed, Touches, Shown, NodesShown
        <5> QED
          BY <4>3, <5>1 DEF RemoveFromMap
      <4> QED
        BY <4>1, <4>2, <4>3
    <3>2. edges' \subseteq edges
      BY DEF DeleteNode, RemoveFromMap
    <3> QED
      BY <1>1, <2>1, <3>1, <3>2 DEF EdgesShown, EdgesOff, Shown, Held
  <2>9. GroupsShown(t)'
    BY <1>1, <2>1, <2>4 DEF GroupsShown, GroupsOf, Held, Shown
  <2>10. "places" \notin off' => PlacesShown(t)'
    BY <2>1, <2>2, <2>4, <2>5 DEF PlacesShown, Held, Shown, NodesShown, Placed
  <2> QED
    BY <1>1, <2>1, <2>7, <2>8, <2>9, <2>10 DEF Mirrors, Shown, Held
<1> QED
  BY <1>2, <1>3

LEMMA CutIsPainted ==
    ASSUME NEW s, Held(s), NEW e, DeleteEdge(e), NEW t, t = WithoutEdge(s, e)
    PROVE  Mirrors(t)'
<1>1. /\ Framed(t) /\ t.of = s.of /\ t.nodes = s.nodes /\ t.groups = s.groups
      /\ t.edges = EdgesBut(s.edges, e)
  BY PaintedIs DEF Held, Mirrors
<1>2. UNCHANGED <<nodes, places, groups>> /\ edges' = {f \in edges : f.id # e}
  BY DEF DeleteEdge
<1> QED
  BY <1>1, <1>2 DEF Mirrors, Shown, NodesShown, EdgesShown, EdgesBut, GroupsShown, GroupsOf,
     PlacesShown, Placed, Held

-----------------------------------------------------------------------------
\* Cards are put into groups or taken out, and nothing else.
Regrouped ==
    /\ UNCHANGED <<nodes, edges>>
    /\ DOMAIN places' = DOMAIN places
    /\ \A p \in DOMAIN places : places'[p].pos = places[p].pos

LEMMA RegroupedIsPainted ==
    ASSUME NEW s, Held(s), Regrouped, NEW t, Framed(t), t.of = s.of, t.nodes = s.nodes, t.edges = s.edges,
           mapId # Nil => GroupsShown(t)'
    PROVE  Mirrors(t)'
<1>1. CASE mapId = Nil
  BY <1>1 DEF Held, Mirrors
<1>2. CASE mapId # Nil
  <2>1. Framed(s) /\ Shown(s) /\ ("places" \notin off' => PlacesShown(s))
    BY <1>2 DEF Held, Mirrors
  <2>2. NodesShown(t)' /\ EdgesShown(t)'
    BY <2>1 DEF NodesShown, EdgesShown, Placed, Shown, Regrouped, Held
  <2>3. "places" \notin off' => PlacesShown(t)'
    BY <2>1 DEF PlacesShown, Regrouped, Held, Shown, NodesShown, Placed
  <2> QED
    BY <1>2, <2>1, <2>2, <2>3 DEF Mirrors, Shown, Held
<1> QED
  BY <1>1, <1>2

\* One group is written, and the others have gained nobody.
Saving(g) ==
    /\ Regrouped
    /\ DOMAIN groups' = DOMAIN groups \cup {g}
    /\ \A h \in DOMAIN groups \ {g} : groups'[h] = groups[h]
    /\ g \in DOMAIN groups => groups'[g].map = groups[g].map
    /\ \A p \in DOMAIN places : \A h \in DOMAIN groups \ {g} : places'[p].group = h => places[p].group = h

LEMMA SavedIsPainted ==
    ASSUME NEW s, Held(s), NEW g, Saving(g), NEW told, told.nodes = Empty, told.edges = {},
           told.groups = Put(Empty, g, Saved(g)')
    PROVE  /\ groups'[g].map = mapId => \A t : t = Merged(s, told) => Mirrors(t)'
           /\ groups'[g].map # mapId => Mirrors(s)'
<1>1. mapId # Nil => Shown(s)
  BY DEF Held, Mirrors
<1>2. ASSUME groups'[g].map = mapId, NEW t, t = Merged(s, told)
      PROVE  Mirrors(t)'
  <2>1. /\ Framed(t) /\ t.of = s.of
        /\ t.nodes = Over(told.nodes, s.nodes) /\ t.groups = Over(told.groups, s.groups)
        /\ t.edges = EdgesOver(s.edges, told.edges)
    <3>1. Framed(s)
      BY DEF Held, Mirrors
    <3> QED
      BY <1>2, <3>1, MergedIs
  <2>2. t.edges = s.edges
    BY <2>1 DEF EdgesOver, EdgeIds
  <2>3. DOMAIN t.nodes = DOMAIN s.nodes /\ \A n \in DOMAIN s.nodes : t.nodes[n] = s.nodes[n]
    BY <2>1 DEF Over, Empty
  <2>4. PICK row : row = Saved(g)'
    OBVIOUS
  <2>5. row.title = groups'[g].title /\ row.members = {p[2] : p \in {q \in DOMAIN places' : places'[q].group = g}}
    BY <2>4 DEF Saved, MemberNodes, Members
  <2>6. /\ DOMAIN t.groups = DOMAIN s.groups \cup {g} /\ t.groups[g] = row
        /\ \A h \in DOMAIN s.groups \ {g} : t.groups[h] = s.groups[h]
    BY <2>1, <2>4 DEF Over, Put, Empty
  <2>7. mapId # Nil => GroupsShown(t)'
    <3>1. \A p \in DOMAIN places' : places'[p].group = g => p[2] \in t.groups[g].members
      BY <2>5, <2>6
    <3>2. mapId # Nil => \A h : h \in DOMAIN t.groups <=> h \in DOMAIN groups' /\ groups'[h].map = mapId
      BY <1>1, <1>2, <2>6 DEF Shown, GroupsShown, GroupsOf, Saving
    <3>3. mapId # Nil => \A h \in DOMAIN t.groups : t.groups[h].title = groups'[h].title
      BY <1>1, <2>5, <2>6 DEF Shown, GroupsShown, GroupsOf, Saving
    <3>4. mapId # Nil => \A h \in DOMAIN t.groups \ {g}, p \in DOMAIN places' :
                            places'[p].group = h => p[2] \in t.groups[h].members
      BY <1>1, <2>6 DEF Shown, GroupsShown, GroupsOf, Saving, Regrouped
    <3> QED
      BY <3>1, <3>2, <3>3, <3>4 DEF GroupsShown, GroupsOf, Held
  <2>8. PICK u : u = [of |-> s.of, nodes |-> s.nodes, edges |-> s.edges, groups |-> t.groups]
    OBVIOUS
  <2>9. Framed(u) /\ u.of = s.of /\ u.nodes = s.nodes /\ u.edges = s.edges /\ u.groups = t.groups
    BY <2>8 DEF Framed
  <2>10. Mirrors(u)'
    <3>1. mapId # Nil => GroupsShown(u)'
      BY <2>7, <2>9 DEF GroupsShown
    <3> QED
      BY <2>9, <3>1, RegroupedIsPainted DEF Saving
  <2> QED
    BY <2>1, <2>2, <2>3, <2>9, <2>10 DEF Mirrors, Shown, NodesShown, EdgesShown, GroupsShown, PlacesShown
<1>3. ASSUME groups'[g].map # mapId
      PROVE  Mirrors(s)'
  <2>1. mapId # Nil => GroupsShown(s)'
    BY <1>1, <1>3 DEF Shown, GroupsShown, GroupsOf, Saving, Regrouped, Held
  <2> QED
    BY <2>1, RegroupedIsPainted DEF Saving, Held, Mirrors
<1> QED
  BY <1>2, <1>3

\* One group has gone.
Ungrouping(g) ==
    /\ Regrouped
    /\ DOMAIN groups' = DOMAIN groups \ {g}
    /\ \A h \in DOMAIN groups' : groups'[h] = groups[h]
    /\ \A p \in DOMAIN places : \A h \in DOMAIN groups' : places'[p].group = h => places[p].group = h

LEMMA UngroupedIsPainted ==
    ASSUME NEW s, Held(s), NEW g, Ungrouping(g), NEW t, t = WithoutGroup(s, g)
    PROVE  Mirrors(t)'
<1>1. /\ Framed(t) /\ t.of = s.of /\ t.nodes = s.nodes /\ t.edges = s.edges
      /\ t.groups = Restrict(s.groups, DOMAIN s.groups \ {g})
  <2>1. PICK gs : gs = Restrict(s.groups, DOMAIN s.groups \ {g})
    OBVIOUS
  <2>2. t = [s EXCEPT !.groups = gs] /\ Framed(s)
    BY <2>1 DEF WithoutGroup, Held, Mirrors
  <2> QED
    BY <2>1, <2>2 DEF Framed
<1>2. mapId # Nil => Shown(s)
  BY DEF Held, Mirrors
<1>3. DOMAIN t.groups = DOMAIN s.groups \ {g} /\ \A h \in DOMAIN t.groups : t.groups[h] = s.groups[h]
  BY <1>1 DEF Restrict
<1>4. mapId # Nil => GroupsShown(t)'
  BY <1>2, <1>3 DEF Shown, GroupsShown, GroupsOf, Ungrouping, Regrouped, Held
<1> QED
  BY <1>1, <1>4, RegroupedIsPainted DEF Ungrouping

LEMMA WhatIsGrouped ==
    ASSUME Database
    PROVE  /\ \A m, g, ti, ns : g # Nil /\ CreateGroup(m, g, ti, ns) => Saving(g) /\ groups'[g].map = m
           /\ \A g, ti : UpdateGroup(g, ti) => Saving(g)
           /\ \A m, g, ns : g \in DOMAIN groups /\ ns # {} /\ SetGroupMembers(m, g, ns) => Saving(g)
           /\ \A m, g : SetGroupMembers(m, g, {}) => Ungrouping(g)
           /\ \A g : DeleteGroup(g) => Ungrouping(g)
<1>1. ASSUME NEW m, NEW g, NEW ti, NEW ns, g # Nil, CreateGroup(m, g, ti, ns)
      PROVE  Saving(g) /\ groups'[g].map = m
  <2>1. \A p \in DOMAIN places : places'[p] \in {places[p], [places[p] EXCEPT !.group = g]}
    BY <1>1 DEF CreateGroup
  <2>2. \A p \in DOMAIN places : /\ places'[p].pos = places[p].pos
                                 /\ places'[p].group \in {places[p].group, g}
    BY <2>1 DEF Database, Placings
  <2>3. DOMAIN places' = DOMAIN places /\ UNCHANGED <<nodes, edges>>
        /\ g \notin DOMAIN groups /\ groups' = Put(groups, g, [map |-> m, title |-> ti])
    BY <1>1 DEF CreateGroup
  <2> QED
    BY <2>2, <2>3 DEF Saving, Regrouped, Put
<1>2. ASSUME NEW g, NEW ti, UpdateGroup(g, ti)
      PROVE  Saving(g)
  BY <1>2 DEF UpdateGroup, Saving, Regrouped, Database, Named
<1>3. ASSUME NEW m, NEW g, NEW ns, SetGroupMembers(m, g, ns)
      PROVE  /\ DOMAIN places' = DOMAIN places
             /\ \A p \in DOMAIN places : /\ places'[p].pos = places[p].pos
                                         /\ places'[p].group \in {places[p].group, g, Nil}
  <2>1. DOMAIN places' = DOMAIN places
        /\ \A p \in DOMAIN places : places'[p] \in {places[p], [places[p] EXCEPT !.group = g],
                                                  [places[p] EXCEPT !.group = Nil]}
    BY <1>3 DEF SetGroupMembers, Ungrouped
  <2> QED
    BY <2>1 DEF Database, Placings
<1>4. ASSUME NEW m, NEW g, NEW ns, g \in DOMAIN groups, ns # {}, SetGroupMembers(m, g, ns)
      PROVE  Saving(g)
  <2>1. UNCHANGED <<nodes, edges, groups>>
    BY <1>4 DEF SetGroupMembers
  <2>2. DOMAIN places' = DOMAIN places
        /\ \A p \in DOMAIN places : /\ places'[p].pos = places[p].pos
                                    /\ places'[p].group \in {places[p].group, g, Nil}
    BY <1>3, <1>4
  <2> QED
    BY <1>4, <2>1, <2>2 DEF Saving, Regrouped, Database, Named
<1>5. ASSUME NEW m, NEW g, SetGroupMembers(m, g, {})
      PROVE  Ungrouping(g)
  <2>1. groups' = Restrict(groups, DOMAIN groups \ {g}) /\ UNCHANGED <<nodes, edges>>
    BY <1>5 DEF SetGroupMembers
  <2> QED
    BY <1>3, <1>5, <2>1 DEF Ungrouping, Regrouped, Restrict, Database, Named
<1>6. ASSUME NEW g, DeleteGroup(g)
      PROVE  Ungrouping(g)
  <2>1. DOMAIN places' = DOMAIN places
        /\ \A p \in DOMAIN places : places'[p] \in {places[p], [places[p] EXCEPT !.group = Nil]}
    BY <1>6 DEF DeleteGroup, Ungrouped
  <2>2. \A p \in DOMAIN places : /\ places'[p].pos = places[p].pos
                                 /\ places'[p].group \in {places[p].group, Nil}
    BY <2>1 DEF Database, Placings
  <2>3. groups' = Restrict(groups, DOMAIN groups \ {g}) /\ UNCHANGED <<nodes, edges>>
    BY <1>6 DEF DeleteGroup
  <2> QED
    BY <2>1, <2>2, <2>3 DEF Ungrouping, Regrouped, Restrict, Database, Named
<1> QED
  BY <1>1, <1>2, <1>4, <1>5, <1>6

\* The members that are shown and those there are move alike.
LEMMA DraggedIsPainted ==
    ASSUME NEW s, Held(s), NEW g, NEW d, MoveGroup(mapId, g, d), g \in DOMAIN s.groups,
           "places" \notin off' => s.groups[g].members \subseteq MemberNodes(places, g),
           NEW t, t = Shifted(s, g, d)
    PROVE  Mirrors(t)'
<1>1. /\ Framed(t) /\ t.of = s.of /\ t.edges = s.edges /\ t.groups = s.groups
      /\ t.nodes = ShiftedNodes(s, g, d)
  BY PaintedIs DEF Held, Mirrors
<1>2. CASE mapId = Nil
  BY <1>1, <1>2 DEF Held, Mirrors
<1>3. CASE mapId # Nil
  <2>1. Framed(s) /\ Shown(s) /\ ("places" \notin off' => PlacesShown(s))
    BY <1>3 DEF Held, Mirrors
  <2>2. /\ UNCHANGED <<nodes, edges, groups>> /\ DOMAIN places' = DOMAIN places
        /\ \A p \in DOMAIN places : places'[p] =
              IF p[1] = mapId /\ p[2] \in MemberNodes(places, g) /\ places[p].pos # Nil
              THEN [places[p] EXCEPT !.pos = @ + d] ELSE places[p]
    BY DEF MoveGroup
  <2>3. \A p \in DOMAIN places :
           /\ places'[p].group = places[p].group
           /\ places'[p].pos = IF p[1] = mapId /\ p[2] \in MemberNodes(places, g) /\ places[p].pos # Nil
                               THEN places[p].pos + d ELSE places[p].pos
    BY <2>2 DEF Held, Database, Placings
  <2>4. ASSUME NEW n \in DOMAIN s.nodes
        PROVE  /\ t.nodes[n] = Card(nodes[n], t.nodes[n].pos)
               /\ t.nodes[n].pos = IF n \in s.groups[g].members /\ s.nodes[n].pos # Nil
                                   THEN s.nodes[n].pos + d ELSE s.nodes[n].pos
    <3>1. s.nodes[n] = Card(nodes[n], s.nodes[n].pos)
      BY <2>1 DEF Shown, NodesShown
    <3>2. CASE n \in s.groups[g].members /\ s.nodes[n].pos # Nil
      <4>1. t.nodes[n] = [s.nodes[n] EXCEPT !.pos = s.nodes[n].pos + d]
        BY <1>1, <3>2 DEF ShiftedNodes
      <4> QED
        BY <3>1, <3>2, <4>1, CardMoved
    <3>3. CASE ~(n \in s.groups[g].members /\ s.nodes[n].pos # Nil)
      <4>1. t.nodes[n] = s.nodes[n]
        BY <1>1, <3>3 DEF ShiftedNodes
      <4> QED
        BY <3>1, <3>3, <4>1
    <3> QED
      BY <3>2, <3>3
  <2>5. DOMAIN t.nodes = DOMAIN s.nodes
    BY <1>1 DEF ShiftedNodes
  <2>6. NodesShown(t)' /\ EdgesShown(t)' /\ GroupsShown(t)'
    BY <1>1, <2>1, <2>2, <2>3, <2>4, <2>5 DEF NodesShown, EdgesShown, GroupsShown, GroupsOf, Placed, Held, Shown
  <2>7. "places" \notin off' => PlacesShown(t)'
    <3> SUFFICES ASSUME "places" \notin off', NEW n \in DOMAIN s.nodes
                 PROVE  t.nodes[n].pos = places'[<<mapId, n>>].pos
      BY <2>5 DEF PlacesShown, Held
    <3>1. PICK p : p = <<mapId, n>>
      OBVIOUS
    <3>2. p \in DOMAIN places /\ p[1] = mapId /\ p[2] = n /\ s.nodes[n].pos = places[p].pos
      BY <2>1, <3>1 DEF Shown, NodesShown, Placed, PlacesShown
    <3>3. n \in s.groups[g].members <=> n \in MemberNodes(places, g)
      BY <2>1 DEF Shown, GroupsShown, MemberNodes, Members
    <3> QED
      BY <2>3, <2>4, <3>1, <3>2, <3>3
  <2> QED
    BY <1>1, <2>1, <2>6, <2>7 DEF Mirrors, Shown, Held
<1> QED
  BY <1>2, <1>3

LEMMA MapsArePainted ==
    ASSUME NEW s, Held(s), NEW m, CreateMap(m) \/ (DeleteMap(m) /\ m # mapId) \/ UNCHANGED tables
    PROVE  Mirrors(s)'
<1>1. CASE mapId = Nil
  BY <1>1 DEF Held, Mirrors
<1>2. CASE mapId # Nil /\ UNCHANGED <<nodes, places, edges, groups>>
  BY <1>2 DEF Mirrors, Shown, NodesShown, EdgesShown, GroupsShown, GroupsOf, PlacesShown, Placed, Held
<1>3. CASE mapId # Nil /\ DeleteMap(m) /\ m # mapId
  <2>1. Framed(s) /\ Shown(s) /\ ("places" \notin off' => PlacesShown(s))
    BY <1>3 DEF Held, Mirrors
  <2>2. /\ UNCHANGED nodes /\ edges' = {e \in edges : e.map # m}
        /\ DOMAIN groups' = DOMAIN groups \ GroupsOf(m)
        /\ \A g \in DOMAIN groups' : groups'[g] = groups[g]
        /\ DOMAIN places' = {p \in DOMAIN places : p[1] # m}
        /\ \A p \in DOMAIN places' : places'[p] \in {places[p], [places[p] EXCEPT !.group = Nil]}
    BY <1>3 DEF DeleteMap, WithoutMap, Ungrouped, Restrict
  <2>3. \A p \in DOMAIN places' : /\ places'[p].pos = places[p].pos
                                  /\ places'[p].group \in {places[p].group, Nil}
    BY <2>2 DEF Held, Database, Placings
  <2>4. \A n : <<mapId, n>> \in DOMAIN places' <=> <<mapId, n>> \in DOMAIN places
    <3>1. \A n : <<mapId, n>>[1] = mapId
      OBVIOUS
    <3> QED
      BY <1>3, <2>2, <3>1
  <2>5. NodesShown(s)' /\ EdgesShown(s)'
    BY <1>3, <2>1, <2>2, <2>4 DEF NodesShown, EdgesShown, Placed, Shown, Held
  <2>6. GroupsShown(s)'
    <3>1. \A g : g \in DOMAIN s.groups <=> g \in DOMAIN groups' /\ groups'[g].map = mapId
      BY <1>3, <2>1, <2>2 DEF GroupsShown, GroupsOf, Shown
    <3>2. \A g \in DOMAIN groups : g # Nil
      BY DEF Held, Database, Named
    <3> QED
      BY <2>1, <2>2, <2>3, <3>1, <3>2 DEF GroupsShown, GroupsOf, Shown, Held
  <2>7. "places" \notin off' => PlacesShown(s)'
    BY <2>1, <2>3, <2>4 DEF PlacesShown, Placed, Shown, NodesShown, Held
  <2> QED
    BY <1>3, <2>1, <2>5, <2>6, <2>7 DEF Mirrors, Shown, Held
<1> QED
  BY <1>1, <1>2, <1>3 DEF CreateMap, tables

\* Where cards are is not asked for any more.
LEMMA LaidOutIsPainted ==
    ASSUME NEW s, Mirrors(s)', "places" \in off', NEW t, t = LaidOut(s)
    PROVE  Mirrors(t)'
<1>1. Framed(s) /\ (mapId' # Nil => Shown(s)')
  BY DEF Mirrors
<1>2. /\ Framed(t) /\ t.of = s.of /\ t.edges = s.edges /\ t.groups = s.groups
      /\ t.nodes = TidyNodes(s)
  BY <1>1, PaintedIs
<1>3. DOMAIN t.nodes = DOMAIN s.nodes /\ \A n \in DOMAIN s.nodes : t.nodes[n] = [s.nodes[n] EXCEPT !.pos = Tidy]
  BY <1>2 DEF TidyNodes
<1>4. ASSUME mapId' # Nil, NEW n \in DOMAIN t.nodes
      PROVE  t.nodes[n] = Card(nodes'[n], t.nodes[n].pos)
  <2>1. s.nodes[n] = Card(nodes'[n], s.nodes[n].pos)
    BY <1>1, <1>3, <1>4 DEF Shown, NodesShown
  <2>2. t.nodes[n] = [s.nodes[n] EXCEPT !.pos = Tidy]
    BY <1>3, <1>4
  <2>3. t.nodes[n] = Card(nodes'[n], Tidy) /\ t.nodes[n].pos = Tidy
    BY <2>1, <2>2, CardMoved
  <2> QED
    BY <2>3
<1>5. mapId' # Nil => NodesShown(t)' /\ EdgesShown(t)' /\ GroupsShown(t)'
  BY <1>1, <1>2, <1>3, <1>4 DEF Shown, NodesShown, EdgesShown, GroupsShown
<1> QED
  BY <1>1, <1>2, <1>5 DEF Mirrors, Shown

-----------------------------------------------------------------------------
(* What is under way: while nothing overlaps there is one thing at a time.  *)

\* A request that is sent before anything of it is shown.
AsksFirst(r) ==
    \/ r.by = "createChild" /\ r.do.op = "createNode" /\ r.do.in.map = mapId
    \/ r.by = "insertExisting" /\ r.do.op = "transclude" /\ r.do.in.map = mapId
    \/ r.by = "link" /\ r.do.op = "createEdge" /\ r.do.map = mapId
    \/ r.by = "renameGroup" /\ r.do.op = "renameGroup" /\ r.do.group \in DOMAIN screen.groups
    \/ r.by = "patchNode" /\ r.do.op = "updateNode" /\ r.do.title = Keep
       /\ r.do.node \in DOMAIN screen.nodes /\ r.was = screen.nodes[r.do.node]
    \/ r.by = "bulkUpdate" /\ r.do.op = "bulkUpdate" /\ r.do.ns \subseteq DOMAIN screen.nodes
    \/ r.by = "dropNode" /\ (r.do = RemoveCall(mapId, r.do.node) \/ r.do.op = "deleteEverywhere")
    \/ r.by = "groupSelection" /\ r.do.op = "createGroup"
    \/ r.by = "undo" /\ r.do.op = "undo"
    \/ r.by = "createMap" /\ r.do.op = "createMap"
    \/ r.by \in ListAsks /\ r.do.op = "listMaps"

\* A request for what is shown already: s is what the screen was before.
AsksAfter(r, s) ==
    \/ /\ r.by = "commitTitle"
       /\ \E n \in DOMAIN s.nodes, t \in Title :
             /\ r.do = UpdateCall(n, Keep, t, Keep) /\ r.was = s.nodes[n]
             /\ screen = [s EXCEPT !.nodes[n].title = t]
    \/ /\ r.by = "unlink" /\ r.was \in s.edges /\ r.do = UnlinkCall(r.was.id)
       /\ screen = WithoutEdge(s, r.was.id)
    \/ /\ r.by = "deleteGroup" /\ r.do.op = "deleteGroup"
       /\ screen = WithoutGroup(s, r.do.group)
    \/ /\ r.by = "commitGroupMove" /\ r.do = DragCall(mapId, r.do.group, r.do.by)
       /\ r.do.group \in DOMAIN s.groups
       /\ screen = Shifted(s, r.do.group, r.do.by)
       /\ "places" \notin off =>
             s.groups[r.do.group].members \subseteq MemberNodes(places, r.do.group)

Asks(r, s) == (screen = s /\ AsksFirst(r)) \/ AsksAfter(r, s)
Waits(r)   == r.state = "waiting" /\ \E s : Mirrors(s) /\ Asks(r, s)

\* What an answer is painted as, by whoever asked.
Painted(r) ==
    CASE r.by \in {"createChild", "insertExisting", "link", "renameGroup"} ->
           Merged(screen, r.says)
      [] r.by = "patchNode" ->
           WithCard(screen, r.do.node, [r.says.nodes[r.do.node] EXCEPT !.pos = r.was.pos])
      [] r.by = "bulkUpdate" -> Rewrites(screen, r.says)
      [] r.by = "dropNode" -> DropNode(screen, r.do.node)
      [] OTHER -> screen
\* Or everything is asked for again.
Reloads(r) ==
    \/ r.by = "groupSelection"
    \/ r.by = "undo" /\ r.says = TRUE
    \/ r.by = "patchNode" /\ Retypes(r)
Answered(r) ==
    /\ r.state = "answered" /\ r.by \notin GraphAsks
    /\ Reloads(r) \/ (r.by # "groupSelection" /\ Mirrors(Painted(r)))
Failed(r) == r.state = "failed" /\ (r.by = "commitGroupMove" \/ Mirrors(PutBack(r)))

Reading(r) ==
    /\ r.by \in GraphAsks /\ r.do = GraphCall(mapId)
    /\ r.state = "waiting" \/ (r.state = "answered" /\ r.says = Graph(mapId))

Only(r) == Asked = {r} /\ inflight[r] = 1

\* One request is under way: it waits and what is shown is what it asks for, it
\* has been answered or has failed and painting or putting back will be right, or
\* it reads the whole graph.
Pending ==
    /\ inbox = <<>>
    /\ \E r : Only(r) /\ (Waits(r) \/ Answered(r) \/ Failed(r) \/ Reading(r))

\* Cards have been moved on the screen, and are being moved in the tables.
MovesTo(r, n) == r.do = MoveCall(mapId, n, screen.nodes[n].pos)
Moves(r) ==
    /\ r.by \in {"moveNode", "runAutoLayout"} /\ r.do.op = "moveNode"
    /\ mapId # Nil =>
          \E n \in DOMAIN screen.nodes : MovesTo(r, n) /\ screen.nodes[n].pos # Keep
PlacesComing ==
    \A n \in DOMAIN screen.nodes :
       \/ screen.nodes[n].pos = places[<<mapId, n>>].pos
       \/ \E r \in Asked : r.state = "waiting" /\ MovesTo(r, n)
Moving ==
    /\ inbox = <<>>
    /\ \A r \in Asked : Moves(r)
    /\ mapId # Nil => Shown(screen) /\ ("places" \notin off => PlacesComing)

\* What an event makes of a screen.
Heard(s, e) ==
    CASE e.kind \in {"node.created", "node.transcluded", "edge.created", "group.saved"} ->
           IF ~Concerns(e) THEN s
           ELSE IF e.kind = "node.created" /\ Unplaced(e.what) THEN LaidOut(Merged(s, e.what))
           ELSE Merged(s, e.what)
      [] e.kind = "node.updated" ->
           LET n == CHOOSE n \in DOMAIN e.what.nodes : TRUE
           IN IF n \in DOMAIN s.nodes THEN Rewritten(s, n, e.what.nodes[n]) ELSE s
      [] e.kind = "node.moved" ->
           IF Concerns(e) /\ e.what.node \in DOMAIN s.nodes
           THEN [s EXCEPT !.nodes[e.what.node].pos = e.what.pos] ELSE s
      [] e.kind \in {"node.deleted", "node.removedFromMap"} -> DropNode(s, e.what)
      [] e.kind = "edge.deleted" -> WithoutEdge(s, e.what)
      [] e.kind = "group.deleted" -> WithoutGroup(s, e.what)
      [] OTHER -> s
HearsOne(e) == inbox = <<e>> /\ (e.kind = "graph.invalidated" \/ Mirrors(Heard(screen, e)))
HearsTwo(a, b) ==
    /\ inbox = <<a, b>> /\ a.kind = "node.transcluded" /\ b.kind = "edge.created"
    /\ Mirrors(Heard(Heard(screen, a), b))
Hearing == Asked = {} /\ ((\E e : HearsOne(e)) \/ (\E a, b : HearsTwo(a, b)))

\* The screen is right, or will be when what is under way is done.
ScreenInv ==
    /\ FramedInv /\ Database
    /\ "graph" \notin off => Moving \/ Pending \/ Hearing

LEMMA QuietMirrors ==
    ASSUME ScreenInv, "graph" \notin off, Asked = {}, inbox = <<>>
    PROVE  Mirrors(screen)
<1>1. ~Pending
  BY DEF Pending, Only
<1>2. ~Hearing
  <2>1. \A e : <<e>> # <<>>
    OBVIOUS
  <2>2. \A a, b : <<a, b>> # <<>>
    OBVIOUS
  <2> QED
    BY <2>1, <2>2 DEF Hearing, HearsOne, HearsTwo
<1>3. Moving
  BY <1>1, <1>2 DEF ScreenInv
<1> QED
  BY <1>3 DEF Moving, Mirrors, PlacesComing, PlacesShown, ScreenInv, FramedInv

LEMMA MirrorsMoves ==
    ASSUME FramedInv', Mirrors(screen)', Asked' = {}, inbox' = <<>>
    PROVE  Moving'
BY DEF Moving, Mirrors, PlacesComing, PlacesShown

-----------------------------------------------------------------------------
(* One request at a time.                                                  *)

LEMMA RequestIs ==
    ASSUME NEW by, NEW q, NEW was, NEW r, r = Request(by, q, was)
    PROVE  r.by = by /\ r.do = q /\ r.was = was /\ r.state = "waiting"
BY DEF Request

LEMMA AskedAlone ==
    ASSUME Wired, Asked = {}, NEW r, inflight' = inflight (+) SetToBag({r})
    PROVE  Only(r)'
<1>1. IsABag(inflight) /\ DOMAIN inflight = {}
  BY DEF Wired, Asked, BagToSet
<1>2. PICK b, S : b = inflight /\ S = {r}
  OBVIOUS
<1>3. PICK c : c = b (+) SetToBag(S)
  OBVIOUS
<1>4. DOMAIN c = DOMAIN b \cup S /\ \A x \in S \ DOMAIN b : c[x] = 1
  BY <1>1, <1>2, <1>3 DEF IsABag, SetToBag, (+)
<1> QED
  BY <1>1, <1>2, <1>3, <1>4 DEF Only, Asked, BagToSet

LEMMA AskedMany ==
    ASSUME Wired, Asked = {}, NEW S, inflight' = inflight (+) SetToBag(S)
    PROVE  Asked' = S
<1>1. IsABag(inflight) /\ DOMAIN inflight = {}
  BY DEF Wired, Asked, BagToSet
<1>2. PICK b : b = inflight
  OBVIOUS
<1>3. DOMAIN (b (+) SetToBag(S)) = DOMAIN b \cup S
  BY <1>1, <1>2, MoreAsked
<1> QED
  BY <1>1, <1>2, <1>3 DEF Asked, BagToSet

LEMMA OnlyLeaves ==
    ASSUME Wired, NEW r, Only(r), NEW S, r \notin S, inflight' = inflight (-) SetToBag({r}) (+) SetToBag(S)
    PROVE  Asked' = S /\ \A x : S = {x} => Only(x)'
<1>1. r \in Asked /\ inflight[r] = 1 /\ Asked = {r}
  BY DEF Only
<1>2. Swapped(inflight, r, S, inflight')
  BY <1>1, InflightSwapped
<1> QED
  BY <1>1, <1>2 DEF Swapped, Asked, BagToSet, Only

LEMMA OnlyTurns ==
    ASSUME Wired, NEW r, Only(r), NEW st, NEW says, NEW x, x = Turn(r, st, says), Becomes(r, x)
    PROVE  /\ Only(x)' /\ Labelled(x)
           /\ x.by = r.by /\ x.do = r.do /\ x.was = r.was /\ x.state = st /\ x.says = says
<1>1. r \in Asked
  BY DEF Only
<1>2. Turned(r, x) /\ x.state = st /\ x.says = says
  BY <1>1, BecomesAnother
<1>3. Only(x)' /\ Labelled(x) /\ x.by = r.by /\ x.do = r.do
  BY <1>2 DEF Turned, Only
<1>4. r = [by |-> r.by, do |-> r.do, was |-> r.was, state |-> r.state, says |-> r.says]
  BY <1>1 DEF Wired, Labelled
<1>5. x.was = r.was
  BY <1>4 DEF Turn
<1> QED
  BY <1>2, <1>3, <1>5

\* The bag that holds one request once.
LEMMA OnlyIsBag ==
    ASSUME Wired, NEW r, inflight = SetToBag({r})
    PROVE  Only(r)
BY DEF Only, Asked, BagToSet, SetToBag

LEMMA BagOfOnly ==
    ASSUME Wired, NEW r, Only(r)
    PROVE  inflight = SetToBag({r})
<1>1. inflight = [x \in {r} |-> inflight[x]]
  BY DEF Wired, IsABag, Only, Asked, BagToSet
<1>2. SetToBag({r}) = [x \in {r} |-> 1]
  BY DEF SetToBag
<1> QED
  BY <1>1, <1>2 DEF Only

\* A reload, or nothing to reload.
LEMMA ReloadBag ==
    /\ mapId = Nil => ReloadAsk = SetToBag({})
    /\ mapId # Nil => \E r : /\ ReloadAsk = SetToBag({r}) /\ r.by = "reload"
                             /\ r.do = GraphCall(mapId) /\ r.state = "waiting"
<1>1. EmptyBag = SetToBag({})
  BY DEF SetToBag, EmptyBag
<1>2. PICK r : r = Request("reload", GraphCall(mapId), Nothing)
  OBVIOUS
<1>3. ReloadAsk = IF mapId = Nil THEN EmptyBag ELSE SetToBag({r})
  BY <1>2 DEF ReloadAsk, Ask, Keeping
<1>4. r.by = "reload" /\ r.do = GraphCall(mapId) /\ r.state = "waiting"
  BY <1>2, RequestIs
<1> QED
  BY <1>1, <1>3, <1>4

\* A reload begins where nothing else is under way; with no map there is nothing to be right.
LEMMA ReloadBegins ==
    ASSUME FramedInv', inbox' = <<>>, UNCHANGED mapId,
           \A S : ReloadAsk = SetToBag(S) /\ (\A x \in S : x.state = "waiting")
                  => Asked' = S /\ \A x : S = {x} => Only(x)'
    PROVE  Moving' \/ Pending'
<1>1. CASE mapId = Nil
  <2>1. Asked' = {}
    BY <1>1, ReloadBag
  <2> QED
    BY <1>1, <2>1 DEF Moving
<1>2. CASE mapId # Nil
  <2>1. PICK r : /\ ReloadAsk = SetToBag({r}) /\ r.by = "reload"
                 /\ r.do = GraphCall(mapId) /\ r.state = "waiting"
    BY <1>2, ReloadBag
  <2>2. Only(r)'
    BY <2>1
  <2>3. Reading(r)'
    BY <2>1 DEF Reading, GraphAsks
  <2> QED
    BY <2>2, <2>3 DEF Pending
<1> QED
  BY <1>1, <1>2

-----------------------------------------------------------------------------
(* What the user does, begun when all is quiet.                            *)

LEMMA BeginsQuiet ==
    ASSUME ScreenInv, NEW parts, GestureParting(parts), "graph" \notin off', NEW s, s = screen
    PROVE  /\ "graph" \notin off /\ Asked = {} /\ inbox = <<>> /\ inbox' = <<>>
           /\ Mirrors(s) /\ UNCHANGED tables
           /\ mapId' = mapId => Held(s) /\ Mirrors(s)'
<1>1. Quiet /\ "graph" \notin off /\ inbox' = inbox /\ UNCHANGED tables
      /\ ("places" \notin off' => "places" \notin off)
  BY DEF GestureParting
<1>2. Asked = {} /\ inbox = <<>>
  BY <1>1, QuietIsEmpty DEF Quiet
<1>3. Mirrors(s)
  BY <1>1, <1>2, QuietMirrors
<1>4. mapId' = mapId => Held(s)
  BY <1>1, <1>3 DEF Held, ScreenInv
<1>5. mapId' = mapId => Mirrors(s)'
  BY <1>1, <1>4, MapsArePainted
<1> QED
  BY <1>1, <1>2, <1>3, <1>4, <1>5

LEMMA BeginsAlone ==
    ASSUME ScreenInv, NEW parts, GestureParting(parts), "graph" \notin off', UNCHANGED mapId,
           NEW s, s = screen, NEW r, inflight' = inflight (+) SetToBag({r}),
           r.state = "waiting", (screen' = screen /\ AsksFirst(r)') \/ AsksAfter(r, s)'
    PROVE  Pending'
<1>1. Asked = {} /\ inbox' = <<>> /\ Mirrors(s)'
  BY BeginsQuiet
<1>2. Only(r)'
  BY <1>1, AskedAlone DEF ScreenInv, FramedInv
<1>3. Waits(r)'
  BY <1>1 DEF Waits, Asks
<1> QED
  BY <1>1, <1>2, <1>3 DEF Pending

\* Cards that are sent where the screen has them.
LEMMA SentMoves ==
    ASSUME ScreenInv, NEW parts, GestureParting(parts), "graph" \notin off', UNCHANGED mapId,
           NEW n \in DOMAIN screen.nodes, NEW pos \in Position, MoveNode(n, pos)
    PROVE  Moving'
<1>1. PICK s, t : s = screen /\ t = [s EXCEPT !.nodes[n].pos = pos]
  OBVIOUS
<1>2. PICK r : r = Request("moveNode", MoveCall(mapId, n, pos), Nothing)
  OBVIOUS
<1>3. screen' = t /\ inflight' = inflight (+) SetToBag({r})
  BY <1>1, <1>2 DEF MoveNode, Show, Ask, Keeping
<1>4. r.by = "moveNode" /\ r.do = MoveCall(mapId, n, pos) /\ r.state = "waiting"
  BY <1>2, RequestIs
<1>5. Asked = {} /\ inbox' = <<>> /\ Mirrors(s)'
  BY <1>1, BeginsQuiet
<1>6. Asked' = {r}
  BY <1>3, <1>5, AskedAlone DEF ScreenInv, FramedInv, Only
<1>7. mapId' # Nil => Shown(s)' /\ ("places" \notin off' => PlacesShown(s)')
  BY <1>5 DEF Mirrors
<1>8. /\ Framed(t) /\ t.of = s.of /\ t.edges = s.edges /\ t.groups = s.groups
      /\ t.nodes = [s.nodes EXCEPT ![n].pos = pos]
  BY <1>1 DEF ScreenInv, FramedInv, Framed
<1>9. /\ DOMAIN t.nodes = DOMAIN s.nodes
      /\ \A k \in DOMAIN s.nodes : k # n => t.nodes[k] = s.nodes[k]
      /\ t.nodes[n] = [s.nodes[n] EXCEPT !.pos = pos]
  BY <1>1, <1>8
<1>10. ASSUME mapId' # Nil
       PROVE  Shown(t)' /\ t.nodes[n].pos = pos
  <2>1. \A k \in DOMAIN s.nodes : s.nodes[k] = Card(nodes'[k], s.nodes[k].pos)
    BY <1>7, <1>10 DEF Shown, NodesShown
  <2>2. t.nodes[n] = Card(nodes'[n], pos) /\ t.nodes[n].pos = pos
    <3>1. s.nodes[n] = Card(nodes'[n], s.nodes[n].pos)
      BY <1>1, <2>1
    <3> QED
      BY <1>9, <3>1, CardMoved
  <2>3. \A k \in DOMAIN t.nodes : t.nodes[k] = Card(nodes'[k], t.nodes[k].pos)
    BY <1>9, <2>1, <2>2
  <2> QED
    BY <1>7, <1>8, <1>9, <1>10, <2>2, <2>3 DEF Shown, NodesShown, EdgesShown, GroupsShown
<1>11. pos # Keep
  BY NilAssumption
<1>12. mapId' # Nil => MovesTo(r, n)' /\ t.nodes[n].pos # Keep
  BY <1>1, <1>3, <1>4, <1>10, <1>11 DEF MovesTo
<1>13. Moves(r)'
  BY <1>1, <1>3, <1>4, <1>9, <1>12 DEF Moves, MoveCall
<1>14. mapId' # Nil /\ "places" \notin off' => PlacesComing'
  <2> SUFFICES ASSUME mapId' # Nil, "places" \notin off', NEW k \in DOMAIN t.nodes
               PROVE  \/ t.nodes[k].pos = places'[<<mapId', k>>].pos
                      \/ \E y \in Asked' : y.state = "waiting" /\ MovesTo(y, k)'
    BY <1>3 DEF PlacesComing
  <2>1. CASE k = n
    BY <1>4, <1>6, <1>12, <2>1
  <2>2. CASE k # n
    BY <1>7, <1>9, <2>2 DEF PlacesShown
  <2> QED
    BY <2>1, <2>2
<1> QED
  BY <1>3, <1>5, <1>6, <1>10, <1>13, <1>14 DEF Moving

\* Everything is laid out, and each card sent to its place.
LayoutSent(s) ==
    {Request("runAutoLayout", MoveCall(mapId, n, Tidy), Nothing) : n \in DOMAIN s.nodes}

LEMMA LayoutMoves ==
    ASSUME NEW s, Framed(s), mapId' # Nil => Shown(s)', UNCHANGED mapId,
           NEW t, t = LaidOut(s), screen' = t, inbox' = <<>>, Asked' = LayoutSent(s)
    PROVE  Moving'
<1>1. /\ Framed(t) /\ t.of = s.of /\ t.edges = s.edges /\ t.groups = s.groups
      /\ t.nodes = TidyNodes(s)
  BY PaintedIs
<1>2. /\ DOMAIN t.nodes = DOMAIN s.nodes
      /\ \A n \in DOMAIN s.nodes : t.nodes[n] = [s.nodes[n] EXCEPT !.pos = Tidy]
  BY <1>1 DEF TidyNodes
<1>3. Tidy # Keep
  BY NilAssumption, TidyAssumption
<1>4. ASSUME mapId' # Nil
      PROVE  /\ Shown(t)' /\ \A n \in DOMAIN t.nodes : t.nodes[n].pos = Tidy
  <2>1. \A n \in DOMAIN s.nodes : s.nodes[n] = Card(nodes'[n], s.nodes[n].pos)
    BY <1>4 DEF Shown, NodesShown
  <2>2. ASSUME NEW n \in DOMAIN t.nodes
        PROVE  t.nodes[n] = Card(nodes'[n], Tidy) /\ t.nodes[n].pos = Tidy
    <3>1. /\ s.nodes[n] = Card(nodes'[n], s.nodes[n].pos)
          /\ t.nodes[n] = [s.nodes[n] EXCEPT !.pos = Tidy]
      BY <1>2, <2>1
    <3> QED
      BY <3>1, CardMoved
  <2> QED
    BY <1>1, <1>2, <1>4, <2>2 DEF Shown, NodesShown, EdgesShown, GroupsShown
<1>5. \A n \in DOMAIN t.nodes :
         \E r \in Asked' : r.by = "runAutoLayout" /\ r.do = MoveCall(mapId', n, Tidy) /\ r.state = "waiting"
  <2> SUFFICES ASSUME NEW n \in DOMAIN t.nodes
               PROVE  \E r \in Asked' : r.by = "runAutoLayout" /\ r.do = MoveCall(mapId', n, Tidy)
                                        /\ r.state = "waiting"
    OBVIOUS
  <2>1. PICK r : r = Request("runAutoLayout", MoveCall(mapId, n, Tidy), Nothing)
    OBVIOUS
  <2>2. r \in Asked'
    BY <1>2, <2>1 DEF LayoutSent
  <2>3. r.by = "runAutoLayout" /\ r.do = MoveCall(mapId, n, Tidy) /\ r.state = "waiting"
    BY <2>1, RequestIs
  <2> QED
    BY <2>2, <2>3
<1>6. ASSUME NEW r \in Asked'
      PROVE  Moves(r)'
  <2>1. PICK n \in DOMAIN s.nodes : r = Request("runAutoLayout", MoveCall(mapId, n, Tidy), Nothing)
    BY <1>6 DEF LayoutSent
  <2>2. r.by = "runAutoLayout" /\ r.do = MoveCall(mapId, n, Tidy)
    BY <2>1, RequestIs
  <2>3. n \in DOMAIN t.nodes /\ (mapId' # Nil => MovesTo(r, n)' /\ t.nodes[n].pos # Keep)
    BY <1>2, <1>3, <1>4, <2>2 DEF MovesTo
  <2> QED
    BY <2>2, <2>3 DEF Moves, MoveCall
<1>7. mapId' # Nil => PlacesComing'
  BY <1>4, <1>5 DEF PlacesComing, MovesTo
<1> QED
  BY <1>4, <1>6, <1>7 DEF Moving

LEMMA UserBegins ==
    ASSUME ScreenInv, User, "graph" \notin off'
    PROVE  Moving' \/ Pending'
<1>1. PICK s : s = screen
  OBVIOUS
<1>2. ASSUME EditNode
      PROVE  Moving' \/ Pending'
  <2>1. ASSUME NEW n \in DOMAIN screen.nodes, NEW ti \in Title, CommitTitle(n, ti)
        PROVE  Pending'
    <3>1. PICK r : r = Request("commitTitle", UpdateCall(n, Keep, ti, Keep), s.nodes[n])
      OBVIOUS
    <3>2. r.by = "commitTitle" /\ r.do = UpdateCall(n, Keep, ti, Keep) /\ r.was = s.nodes[n]
          /\ r.state = "waiting"
      BY <3>1, RequestIs
    <3>3. /\ GestureParting({}) /\ UNCHANGED mapId /\ inflight' = inflight (+) SetToBag({r})
          /\ screen' = [s EXCEPT !.nodes[n].title = ti]
      BY <1>1, <2>1, <3>1 DEF CommitTitle, Gesture, Show, Keeping
    <3>4. AsksAfter(r, s)'
      BY <1>1, <3>2, <3>3 DEF AsksAfter
    <3> QED
      BY <1>1, <1>2, <3>2, <3>3, <3>4, BeginsAlone
  <2>2. ASSUME NEW n \in DOMAIN screen.nodes, NEW pos \in Position, MoveNode(n, pos)
        PROVE  Moving'
    <3>1. GestureParting({}) /\ UNCHANGED mapId
      BY <2>2 DEF MoveNode, Gesture, Show
    <3> QED
      BY <2>2, <3>1, SentMoves
  <2>3. ASSUME NEW n \in DOMAIN screen.nodes, NEW ty, NEW tg, PatchNode(n, ty, tg)
        PROVE  Pending'
    <3>1. PICK r : r = Request("patchNode", UpdateCall(n, ty, Keep, tg), s.nodes[n])
      OBVIOUS
    <3>2. r.by = "patchNode" /\ r.do = UpdateCall(n, ty, Keep, tg) /\ r.was = s.nodes[n]
          /\ r.state = "waiting"
      BY <3>1, RequestIs
    <3>3. /\ GestureParting({}) /\ UNCHANGED mapId /\ inflight' = inflight (+) SetToBag({r})
          /\ screen' = screen
      BY <1>1, <2>3, <3>1 DEF PatchNode, Gesture, Send, Show, Keeping
    <3>4. AsksFirst(r)'
      BY <1>1, <2>3, <3>2, <3>3 DEF AsksFirst, UpdateCall
    <3> QED
      BY <1>1, <1>2, <3>2, <3>3, <3>4, BeginsAlone
  <2>4. ASSUME NEW n \in DOMAIN screen.nodes, RemoveShown(n)
        PROVE  Pending'
    <3>1. PICK q \in {RemoveCall(mapId, n), DeleteCall(n)} : Send(Ask("dropNode", q))
      BY <2>4 DEF RemoveShown
    <3>2. PICK r : r = Request("dropNode", q, Nothing)
      OBVIOUS
    <3>3. r.by = "dropNode" /\ r.do = q /\ r.state = "waiting"
      BY <3>2, RequestIs
    <3>4. /\ GestureParting({}) /\ UNCHANGED mapId /\ inflight' = inflight (+) SetToBag({r})
          /\ screen' = screen
      BY <2>4, <3>1, <3>2 DEF RemoveShown, Gesture, Send, Show, Ask, Keeping
    <3>5. AsksFirst(r)'
      BY <3>1, <3>3, <3>4 DEF AsksFirst, RemoveCall, DeleteCall
    <3> QED
      BY <1>1, <1>2, <3>3, <3>4, <3>5, BeginsAlone
  <2> QED
    BY <1>2, <2>1, <2>2, <2>3, <2>4 DEF EditNode
<1>3. ASSUME NEW by, NEW q, Gesture, Send(Ask(by, q)),
             \A r : r.by = by /\ r.do = q /\ mapId' = mapId /\ screen' = screen => AsksFirst(r)'
      PROVE  Pending'
  <2>1. PICK r : r = Request(by, q, Nothing)
    OBVIOUS
  <2>2. r.by = by /\ r.do = q /\ r.state = "waiting"
    BY <2>1, RequestIs
  <2>3. /\ GestureParting({}) /\ UNCHANGED mapId /\ inflight' = inflight (+) SetToBag({r})
        /\ screen' = screen
    BY <1>3, <2>1 DEF Gesture, Send, Show, Ask, Keeping
  <2>4. AsksFirst(r)'
    BY <1>3, <2>2, <2>3
  <2> QED
    BY <1>1, <2>2, <2>3, <2>4, BeginsAlone
<1>4. ASSUME Connect
      PROVE  Pending'
  <2>1. ASSUME NEW p, NEW ty, CreateChild(p, ty)
        PROVE  Pending'
    <3>1. Gesture /\ Send(Ask("createChild", CreateNodeCall(mapId, ty, p, Beside)))
      BY <2>1 DEF CreateChild
    <3>2. \A r : r.by = "createChild" /\ r.do = CreateNodeCall(mapId, ty, p, Beside) /\ mapId' = mapId
                 => AsksFirst(r)'
      BY DEF AsksFirst, CreateNodeCall
    <3> QED
      BY <1>3, <3>1, <3>2
  <2>2. ASSUME NEW p, NEW n, InsertExisting(n, p)
        PROVE  Pending'
    <3>1. Gesture /\ Send(Ask("insertExisting", InsertCall(mapId, n, p, Beside)))
      BY <2>2 DEF InsertExisting
    <3>2. \A r : r.by = "insertExisting" /\ r.do = InsertCall(mapId, n, p, Beside) /\ mapId' = mapId
                 => AsksFirst(r)'
      BY DEF AsksFirst, InsertCall
    <3> QED
      BY <1>3, <3>1, <3>2
  <2>3. ASSUME NEW a, NEW b, Link(a, b)
        PROVE  Pending'
    <3>1. Gesture /\ Send(Ask("link", LinkCall(mapId, a, b)))
      BY <2>3 DEF Link
    <3>2. \A r : r.by = "link" /\ r.do = LinkCall(mapId, a, b) /\ mapId' = mapId => AsksFirst(r)'
      BY DEF AsksFirst, LinkCall
    <3> QED
      BY <1>3, <3>1, <3>2
  <2>4. ASSUME NEW e \in screen.edges, Unlink(e)
        PROVE  Pending'
    <3>1. PICK r : r = Request("unlink", UnlinkCall(e.id), e)
      OBVIOUS
    <3>2. r.by = "unlink" /\ r.do = UnlinkCall(e.id) /\ r.was = e /\ r.state = "waiting"
      BY <3>1, RequestIs
    <3>3. /\ GestureParting({}) /\ UNCHANGED mapId /\ inflight' = inflight (+) SetToBag({r})
          /\ screen' = WithoutEdge(s, e.id)
      BY <1>1, <2>4, <3>1 DEF Unlink, Gesture, Show, Keeping
    <3>4. AsksAfter(r, s)'
      BY <1>1, <2>4, <3>2, <3>3 DEF AsksAfter
    <3> QED
      BY <1>1, <3>2, <3>3, <3>4, BeginsAlone
  <2> QED
    BY <1>4, <2>1, <2>2, <2>3, <2>4 DEF Connect
<1>5. ASSUME EditSeveral
      PROVE  Pending'
  <2>1. ASSUME NEW ns, BulkUpdate(ns)
        PROVE  Pending'
    <3>1. Gesture /\ Send(Ask("bulkUpdate", BulkCall(ns, Tag))) /\ ns \subseteq DOMAIN screen.nodes
      BY <2>1 DEF BulkUpdate
    <3>2. \A r : r.by = "bulkUpdate" /\ r.do = BulkCall(ns, Tag) /\ screen' = screen => AsksFirst(r)'
      BY <3>1 DEF AsksFirst, BulkCall
    <3> QED
      BY <1>3, <3>1, <3>2
  <2>2. ASSUME NEW g, NEW ns, GroupSelection(g, ns)
        PROVE  Pending'
    <3>1. Gesture /\ Send(Ask("groupSelection", GroupCall(mapId, g, ns)))
      BY <2>2 DEF GroupSelection
    <3>2. \A r : r.by = "groupSelection" /\ r.do = GroupCall(mapId, g, ns) => AsksFirst(r)'
      BY DEF AsksFirst, GroupCall
    <3> QED
      BY <1>3, <3>1, <3>2
  <2>3. ASSUME NEW g, UngroupSelected(g)
        PROVE  Pending'
    <3>1. PICK r : r = Request("deleteGroup", UngroupCall(g), Nothing)
      OBVIOUS
    <3>2. r.by = "deleteGroup" /\ r.do = UngroupCall(g) /\ r.state = "waiting"
      BY <3>1, RequestIs
    <3>3. /\ GestureParting({}) /\ UNCHANGED mapId /\ inflight' = inflight (+) SetToBag({r})
          /\ screen' = WithoutGroup(s, g)
      BY <1>1, <2>3, <3>1 DEF UngroupSelected, Gesture, Show, Ask, Keeping
    <3>4. AsksAfter(r, s)'
      BY <1>1, <3>2, <3>3 DEF AsksAfter, UngroupCall
    <3> QED
      BY <1>1, <3>2, <3>3, <3>4, BeginsAlone
  <2>4. ASSUME NEW g \in DOMAIN screen.groups, NEW ti, RenameShown(g, ti)
        PROVE  Pending'
    <3>1. Gesture /\ Send(Ask("renameGroup", RenameCall(g, ti)))
      BY <2>4 DEF RenameShown
    <3>2. \A r : r.by = "renameGroup" /\ r.do = RenameCall(g, ti) /\ screen' = screen => AsksFirst(r)'
      BY <2>4 DEF AsksFirst, RenameCall
    <3> QED
      BY <1>3, <3>1, <3>2
  <2>5. ASSUME NEW g, NEW d, DragGroup(g, d)
        PROVE  Pending'
    <3>1. PICK r : r = Request("commitGroupMove", DragCall(mapId, g, d), Nothing)
      OBVIOUS
    <3>2. r.by = "commitGroupMove" /\ r.do = DragCall(mapId, g, d) /\ r.state = "waiting"
      BY <3>1, RequestIs
    <3>3. PICK parts : /\ parts = (IF screen.groups[g].members \subseteq MemberNodes(places, g)
                                   THEN {} ELSE {"places"})
                       /\ GestureParting(parts)
      BY <2>5 DEF DragGroup
    <3>4. /\ UNCHANGED mapId /\ inflight' = inflight (+) SetToBag({r})
          /\ screen' = Shifted(s, g, d) /\ g \in DOMAIN s.groups
      BY <1>1, <2>5, <3>1 DEF DragGroup, Show, Ask, Keeping
    <3>5. "places" \notin off' => s.groups[g].members \subseteq MemberNodes(places', g)
      BY <1>1, <3>3 DEF GestureParting, tables
    <3>6. AsksAfter(r, s)'
      BY <1>1, <3>2, <3>4, <3>5 DEF AsksAfter, DragCall
    <3> QED
      BY <1>1, <3>2, <3>3, <3>4, <3>6, BeginsAlone
  <2> QED
    BY <1>5, <2>1, <2>2, <2>3, <2>4, <2>5 DEF EditSeveral
<1>6. ASSUME RunAutoLayout
      PROVE  Moving'
  <2>1. PICK t : t = LaidOut(s)
    OBVIOUS
  <2>2. /\ GestureParting({}) /\ UNCHANGED mapId /\ screen' = t
        /\ inflight' = inflight (+) SetToBag(LayoutSent(s))
    BY <1>1, <1>6, <2>1 DEF RunAutoLayout, Gesture, Show, LayoutAsks, LayoutSent
  <2>3. Asked = {} /\ inbox' = <<>> /\ Mirrors(s)'
    BY <1>1, <2>2, BeginsQuiet
  <2>4. Asked' = LayoutSent(s)
    BY <2>2, <2>3, AskedMany DEF ScreenInv, FramedInv
  <2>5. Framed(s) /\ (mapId' # Nil => Shown(s)')
    BY <2>3 DEF Mirrors
  <2> QED
    BY <2>1, <2>2, <2>3, <2>4, <2>5, LayoutMoves
<1>7. ASSUME UndoOrRedo
      PROVE  Pending'
  <2>1. Gesture /\ Send(Ask("undo", UndoCall))
    BY <1>7 DEF UndoOrRedo
  <2>2. \A r : r.by = "undo" /\ r.do = UndoCall => AsksFirst(r)'
    BY DEF AsksFirst, UndoCall
  <2> QED
    BY <1>3, <2>1, <2>2
<1>8. ASSUME NEW m, NewMap(m)
      PROVE  Pending'
  <2>1. Gesture /\ Send(Ask("createMap", CreateMapCall(m)))
    BY <1>8 DEF NewMap
  <2>2. \A r : r.by = "createMap" /\ r.do = CreateMapCall(m) => AsksFirst(r)'
    BY DEF AsksFirst, CreateMapCall
  <2> QED
    BY <1>3, <2>1, <2>2
<1>9. ASSUME NEW m, OpenMap(m)
      PROVE  Pending'
  <2>1. PICK r : r = Request("openMap", GraphCall(m), Nothing)
    OBVIOUS
  <2>2. r.by = "openMap" /\ r.do = GraphCall(m) /\ r.state = "waiting"
    BY <2>1, RequestIs
  <2>3. /\ GestureParting({}) /\ mapId' = m /\ inflight' = inflight (+) SetToBag({r})
    BY <1>9, <2>1 DEF OpenMap, Gesture, Opening, Ask, Keeping
  <2>4. Asked = {} /\ inbox' = <<>>
    BY <1>1, <2>3, BeginsQuiet
  <2>5. Only(r)'
    BY <2>3, <2>4, AskedAlone DEF ScreenInv, FramedInv
  <2>6. Reading(r)'
    BY <2>2, <2>3 DEF Reading, GraphAsks
  <2> QED
    BY <2>4, <2>5, <2>6 DEF Pending
<1> QED
  BY <1>2, <1>4, <1>5, <1>6, <1>7, <1>8, <1>9 DEF User

-----------------------------------------------------------------------------
(* What a call brings about, and what becomes of the screen that is told.  *)

LEMMA MergingIsPainted ==
    ASSUME NEW s, Held(s), NEW q, Perform(q), NEW told, told = Told(q), NEW t, t = Merged(s, told)
    PROVE  /\ q.op \in {"createNode", "transclude"} =>
                 (q.in.map = mapId => Mirrors(t)') /\ (q.in.map # mapId => Mirrors(s)')
           /\ q.op = "createEdge" =>
                 (q.map = mapId => Mirrors(t)') /\ (q.map # mapId => Mirrors(s)')
           /\ q.op \in {"createGroup", "renameGroup"} =>
                 /\ groups'[q.group].map = mapId => Mirrors(t)'
                 /\ groups'[q.group].map # mapId => Mirrors(s)'
<1>1. Database /\ Framed(s)
  BY DEF Held, Mirrors
<1>2. ASSUME NEW m, NEW ns, Added(m, ns), told.edges = edges' \ edges, told.groups = Empty,
             told.nodes = CardsTold(m, ns) \/ (ns = {} /\ told.nodes = Empty)
      PROVE  (m = mapId => Mirrors(t)') /\ (m # mapId => Mirrors(s)')
  <2>1. AddedTo(s, t, m, ns)
    BY <1>1, <1>2, MergedAdds
  <2> QED
    BY <1>2, <2>1, AddedIsPainted
<1>3. CASE q.op = "createNode"
  <2>1. PICK n : CreateNode(q.in, n, NewEdgeId)
    BY <1>3 DEF Perform
  <2>2. Added(q.in.map, {n}) /\ DOMAIN nodes' \ DOMAIN nodes = {n}
    BY <1>1, <2>1, WhatIsAdded
  <2>3. /\ told.nodes = CardsTold(q.in.map, DOMAIN nodes' \ DOMAIN nodes)
        /\ told.edges = edges' \ edges /\ told.groups = Empty
    BY <1>3, ToldIs
  <2>4. told.nodes = CardsTold(q.in.map, {n})
    BY <2>2, <2>3
  <2> QED
    BY <1>2, <1>3, <2>2, <2>3, <2>4
<1>4. CASE q.op = "transclude"
  <2>1. Transclude(q.in, NewEdgeId)
    BY <1>4 DEF Perform
  <2>2. Added(q.in.map, {q.in.node})
    BY <1>1, <2>1, WhatIsAdded
  <2>3. /\ told.nodes = CardsTold(q.in.map, {q.in.node})
        /\ told.edges = edges' \ edges /\ told.groups = Empty
    BY <1>4, ToldIs
  <2> QED
    BY <1>2, <1>4, <2>2, <2>3
<1>5. CASE q.op = "createEdge"
  <2>1. CreateEdge(q.map, q.source, q.target, NoRelationship, NewEdgeId)
    BY <1>5 DEF Perform
  <2>2. Added(q.map, {})
    BY <1>1, <2>1, WhatIsAdded
  <2>3. told.nodes = Empty /\ told.edges = edges' \ edges /\ told.groups = Empty
    BY <1>5, ToldIs
  <2> QED
    BY <1>2, <1>5, <2>2, <2>3
<1>6. CASE q.op \in {"createGroup", "renameGroup"}
  <2>1. Saving(q.group)
    <3>1. CASE q.op = "createGroup"
      <4>1. q.group \in Group /\ \E ti : CreateGroup(q.map, q.group, ti, q.ns)
        BY <3>1 DEF Perform
      <4>2. q.group # Nil
        BY <4>1, NilAssumption
      <4> QED
        BY <1>1, <4>1, <4>2, WhatIsGrouped
    <3>2. CASE q.op = "renameGroup"
      <4>1. UpdateGroup(q.group, q.title)
        BY <3>2 DEF Perform
      <4> QED
        BY <1>1, <4>1, WhatIsGrouped
    <3> QED
      BY <1>6, <3>1, <3>2
  <2>2. /\ told.nodes = Empty /\ told.edges = {}
        /\ told.groups = Put(Empty, q.group, Saved(q.group)')
    BY <1>6, ToldIs
  <2>3. PICK g : g = q.group
    OBVIOUS
  <2>4. Saving(g) /\ told.groups = Put(Empty, g, Saved(g)')
    BY <2>1, <2>2, <2>3
  <2> QED
    BY <1>6, <2>2, <2>3, <2>4, SavedIsPainted
<1> QED
  BY <1>3, <1>4, <1>5, <1>6

LEMMA CardsToldAre ==
    ASSUME NEW m, NEW ns, NEW cards, cards = CardsTold(m, ns)
    PROVE  /\ DOMAIN cards = ns
           /\ \A n \in ns : \A pos : [cards[n] EXCEPT !.pos = pos] = Card(nodes'[n], pos)
<1>1. ASSUME NEW n \in ns, NEW pos, NEW c, c = [cards[n] EXCEPT !.pos = pos]
      PROVE  c = Card(nodes'[n], pos)
  <2>1. PICK row, a : row = nodes'[n] /\ cards[n] = Card(row, a)
    BY DEF CardsTold, CardOn
  <2>2. c = [cards[n] EXCEPT !.pos = pos]
    BY <1>1
  <2> QED
    BY <2>1, <2>2, CardMoved
<1> QED
  BY <1>1 DEF CardsTold

\* A row that is written anew, its type as it was.
LEMMA WhatIsEdited ==
    ASSUME NEW q, Perform(q)
    PROVE  /\ q.op = "updateNode" /\ edges' = edges => Edited({q.node})
           /\ q.op = "updateNode" /\ q.type \in {Keep, nodes[q.node].type} => edges' = edges
           /\ q.op = "updateNode" =>
                 /\ q.node \in DOMAIN nodes
                 /\ nodes'[q.node] = [type  |-> Or(q.type, nodes[q.node].type),
                                      title |-> Or(q.title, nodes[q.node].title),
                                      tags  |-> Or(q.tags, nodes[q.node].tags)]
           /\ q.op = "bulkUpdate" => Edited(q.ns)
<1>1. CASE q.op = "updateNode"
  <2>1. PICK row : row = nodes[q.node]
    OBVIOUS
  <2>2. /\ q.node \in DOMAIN nodes
        /\ UpdateNode(q.node, Or(q.type, row.type), Or(q.title, row.title), Or(q.tags, row.tags))
    BY <1>1, <2>1 DEF Perform
  <2>3. /\ DOMAIN nodes' = DOMAIN nodes
        /\ \A n \in DOMAIN nodes \ {q.node} : nodes'[n] = nodes[n]
        /\ nodes'[q.node] = [type  |-> Or(q.type, row.type),
                             title |-> Or(q.title, row.title), tags |-> Or(q.tags, row.tags)]
        /\ (Or(q.type, row.type) = row.type => edges' = edges)
        /\ UNCHANGED <<places, groups>>
    BY <2>1, <2>2 DEF UpdateNode, ApplyEdit
  <2> QED
    BY <1>1, <2>1, <2>2, <2>3 DEF Edited, Or
<1>2. CASE q.op = "bulkUpdate"
  <2>1. BulkUpdateNodes(q.ns, q.add, {})
    BY <1>2 DEF Perform
  <2> QED
    BY <1>2, <2>1 DEF BulkUpdateNodes, Edited
<1> QED
  BY <1>1, <1>2

\* The edits of one node, and of several, as they are painted when answered.
LEMMA EditingIsPainted ==
    ASSUME NEW s, Held(s), NEW q, Perform(q), NEW told, told = Told(q), NEW t
    PROVE  /\ q.op = "updateNode" /\ q.node \in DOMAIN s.nodes /\ edges' = edges
              /\ t = WithCard(s, q.node, [told.nodes[q.node] EXCEPT !.pos = s.nodes[q.node].pos])
              => Mirrors(t)'
           /\ q.op = "updateNode" /\ q.node \notin DOMAIN s.nodes /\ edges' = edges => Mirrors(s)'
           /\ q.op = "bulkUpdate" /\ q.ns \subseteq DOMAIN s.nodes /\ t = Rewrites(s, told)
              => Mirrors(t)'
<1>1. Framed(s)
  BY DEF Held, Mirrors
<1>2. ASSUME q.op = "updateNode", q.node \in DOMAIN s.nodes, edges' = edges,
             t = WithCard(s, q.node, [told.nodes[q.node] EXCEPT !.pos = s.nodes[q.node].pos])
      PROVE  Mirrors(t)'
  <2>1. PICK n, c : n = q.node /\ c = [told.nodes[n] EXCEPT !.pos = s.nodes[n].pos]
    OBVIOUS
  <2>2. told.nodes = CardsTold(Nil, {n})
    BY <1>2, <2>1, ToldIs
  <2>3. PICK cards : cards = CardsTold(Nil, {n})
    OBVIOUS
  <2>4. \A k \in {n} : \A pos : [cards[k] EXCEPT !.pos = pos] = Card(nodes'[k], pos)
    BY <2>3, CardsToldAre
  <2>5. c = Card(nodes'[n], s.nodes[n].pos)
    BY <2>1, <2>2, <2>3, <2>4
  <2>6. t = WithCard(s, n, c)
    BY <1>2, <2>1
  <2>7. /\ Framed(t) /\ t.of = s.of /\ t.edges = s.edges /\ t.groups = s.groups
        /\ t.nodes = Put(s.nodes, n, c)
    BY <1>1, <2>6, PaintedIs
  <2>8. EditedTo(s, t, {n})
    BY <1>2, <2>1, <2>5, <2>7 DEF EditedTo, Put
  <2>9. Edited({n})
    BY <1>2, <2>1, WhatIsEdited
  <2> QED
    BY <2>8, <2>9, EditedIsPainted
<1>3. ASSUME q.op = "updateNode", q.node \notin DOMAIN s.nodes, edges' = edges
      PROVE  Mirrors(s)'
  <2>1. PICK n : n = q.node
    OBVIOUS
  <2>2. EditedTo(s, s, {n})
    BY <1>1, <1>3, <2>1 DEF EditedTo
  <2>3. Edited({n})
    BY <1>3, <2>1, WhatIsEdited
  <2> QED
    BY <2>2, <2>3, EditedIsPainted
<1>4. ASSUME q.op = "bulkUpdate", q.ns \subseteq DOMAIN s.nodes, t = Rewrites(s, told)
      PROVE  Mirrors(t)'
  <2>1. PICK ns : ns = q.ns
    OBVIOUS
  <2>2. told.nodes = CardsTold(Nil, ns)
    BY <1>4, <2>1, ToldIs
  <2>3. PICK cards : cards = CardsTold(Nil, ns)
    OBVIOUS
  <2>4. DOMAIN cards = ns /\ \A n \in ns : \A pos : [cards[n] EXCEPT !.pos = pos] = Card(nodes'[n], pos)
    BY <2>3, CardsToldAre
  <2>5. /\ Framed(t) /\ t.of = s.of /\ t.edges = s.edges /\ t.groups = s.groups
        /\ t.nodes = RewrittenNodes(s, told)
    BY <1>1, <1>4, PaintedIs
  <2>6. /\ DOMAIN t.nodes = DOMAIN s.nodes
        /\ \A n \in DOMAIN s.nodes \ ns : t.nodes[n] = s.nodes[n]
        /\ \A n \in ns : t.nodes[n] = [cards[n] EXCEPT !.pos = s.nodes[n].pos]
    BY <1>4, <2>1, <2>2, <2>3, <2>4, <2>5 DEF RewrittenNodes, Over
  <2>7. EditedTo(s, t, ns)
    BY <1>4, <2>1, <2>4, <2>5, <2>6 DEF EditedTo
  <2>8. Edited(ns)
    BY <1>4, <2>1, WhatIsEdited
  <2> QED
    BY <2>7, <2>8, EditedIsPainted
<1> QED
  BY <1>2, <1>3, <1>4

\* What is painted mirrors the tables when what it comes to does.
LEMMA SameMirrors ==
    ASSUME NEW t, Mirrors(t)'
    PROVE  /\ \A r : t = Painted(r)' => Mirrors(Painted(r))'
           /\ \A r : t = PutBack(r)' => Mirrors(PutBack(r))'
           /\ \A e : t = Heard(screen, e)' => Mirrors(Heard(screen, e))'
           /\ t = screen' => Mirrors(screen)'
BY DEF Mirrors, Shown, NodesShown, EdgesShown, GroupsShown, PlacesShown

\* A request that waits is done by the server, and what it answers is right to paint.
LEMMA ServedIsRight ==
    ASSUME ScreenInv, NEW s, Mirrors(s), NEW r, Labelled(r), Asks(r, s),
           UNCHANGED <<mapId, screen, off>>,
           \/ r.do.op = "listMaps" /\ UNCHANGED tables
           \/ Perform(r.do),
           NEW told, told = Told(r.do),
           NEW x, x.by = r.by, x.do = r.do, x.was = r.was, x.says = told, x.state = "answered"
    PROVE  Answered(x)'
<1> USE DEF GraphAsks, ListAsks
<1>1. Held(s) /\ Framed(s) /\ Database
  BY DEF ScreenInv, Held, Mirrors
<1>2. PICK q : q = r.do
  OBVIOUS
<1>3. Perform(q) \/ (q.op = "listMaps" /\ UNCHANGED tables)
  BY <1>2
<1>4. ASSUME NEW t, Mirrors(t)', t = Painted(x)', x.by \notin GraphAsks, x.by # "groupSelection"
      PROVE  Answered(x)'
  BY <1>4, SameMirrors DEF Answered
<1>5. ASSUME screen = s, AsksFirst(r)
      PROVE  Answered(x)'
  <2>1. CASE r.by \in {"createChild", "insertExisting", "link", "renameGroup"}
    <3>1. PICK t : t = Merged(s, told)
      OBVIOUS
    <3>2. t = Painted(x)'
      BY <1>5, <2>1, <3>1 DEF Painted
    <3>3. Perform(q)
      BY <1>2, <1>3, <1>5, <2>1 DEF AsksFirst
    <3>4. /\ q.op \in {"createNode", "transclude"} =>
                 (q.in.map = mapId => Mirrors(t)') /\ (q.in.map # mapId => Mirrors(s)')
          /\ q.op = "createEdge" =>
                 (q.map = mapId => Mirrors(t)') /\ (q.map # mapId => Mirrors(s)')
          /\ q.op \in {"createGroup", "renameGroup"} =>
                 /\ groups'[q.group].map = mapId => Mirrors(t)'
                 /\ groups'[q.group].map # mapId => Mirrors(s)'
      BY <1>1, <1>2, <3>1, <3>3, MergingIsPainted
    <3>5. Mirrors(t)'
      <4>1. CASE r.by # "renameGroup"
        BY <1>2, <1>5, <2>1, <3>4, <4>1 DEF AsksFirst
      <4>2. CASE r.by = "renameGroup" /\ mapId # Nil
        <5>1. q.op = "renameGroup" /\ q.group \in DOMAIN s.groups
          BY <1>2, <1>5, <4>2 DEF AsksFirst
        <5>2. groups[q.group].map = mapId
          BY <1>1, <4>2, <5>1 DEF Held, Mirrors, Shown, GroupsShown, GroupsOf
        <5>3. q.group \in DOMAIN groups /\ Saving(q.group)
          <6>1. UpdateGroup(q.group, q.title)
            BY <3>3, <5>1 DEF Perform
          <6> QED
            BY <1>1, <6>1, WhatIsGrouped DEF UpdateGroup
        <5>4. groups'[q.group].map = groups[q.group].map
          BY <5>3 DEF Saving
        <5> QED
          BY <3>4, <5>1, <5>2, <5>4
      <4>3. CASE mapId = Nil
        <5>1. Framed(t)
          BY <1>1, <3>1, MergedIs
        <5> QED
          BY <4>3, <5>1 DEF Mirrors
      <4> QED
        BY <4>1, <4>2, <4>3
    <3> QED
      BY <1>4, <2>1, <3>2, <3>5
  <2>2. CASE r.by = "patchNode"
    <3>1. /\ q.op = "updateNode" /\ q.title = Keep /\ q.node \in DOMAIN s.nodes
          /\ r.was = s.nodes[q.node]
      BY <1>2, <1>5, <2>2 DEF AsksFirst
    <3>2. Perform(q)
      BY <1>3, <3>1
    <3>3. PICK t : t = WithCard(s, q.node, [told.nodes[q.node] EXCEPT !.pos = s.nodes[q.node].pos])
      OBVIOUS
    <3>4. t = Painted(x)'
      BY <1>2, <1>5, <2>2, <3>1, <3>3 DEF Painted
    <3>5. CASE Retypes(x)
      BY <2>2, <3>5 DEF Answered, Reloads, Retypes
    <3>6. CASE ~Retypes(x) /\ mapId # Nil
      <4>1. q.type \in {Keep, s.nodes[q.node].type}
        BY <1>2, <3>1, <3>6 DEF Retypes
      <4>2. s.nodes[q.node].type = nodes[q.node].type
        <5>1. PICK c, row : c = s.nodes[q.node] /\ row = nodes[q.node]
          OBVIOUS
        <5>2. c = Card(row, c.pos)
          BY <1>1, <3>1, <3>6, <5>1 DEF Held, Mirrors, Shown, NodesShown
        <5>3. c.type = row.type
          BY <5>2 DEF Card
        <5> QED
          BY <5>1, <5>3
      <4>3. edges' = edges
        BY <3>1, <3>2, <4>1, <4>2, WhatIsEdited
      <4>4. Mirrors(t)'
        BY <1>1, <1>2, <3>1, <3>2, <3>3, <4>3, EditingIsPainted
      <4> QED
        BY <1>4, <2>2, <3>4, <4>4
    <3>7. CASE mapId = Nil
      <4>1. Framed(t)
        BY <1>1, <3>3, FramesKept
      <4>2. Mirrors(t)'
        BY <3>7, <4>1 DEF Mirrors
      <4> QED
        BY <1>4, <2>2, <3>4, <4>2
    <3> QED
      BY <3>5, <3>6, <3>7
  <2>3. CASE r.by = "bulkUpdate"
    <3>1. q.op = "bulkUpdate" /\ q.ns \subseteq DOMAIN s.nodes
      BY <1>2, <1>5, <2>3 DEF AsksFirst
    <3>2. PICK t : t = Rewrites(s, told)
      OBVIOUS
    <3>3. t = Painted(x)'
      BY <1>5, <2>3, <3>2 DEF Painted
    <3>4. Mirrors(t)'
      BY <1>1, <1>2, <1>3, <3>1, <3>2, EditingIsPainted
    <3> QED
      BY <1>4, <2>3, <3>3, <3>4
  <2>4. CASE r.by = "dropNode"
    <3>1. PICK t, n : n = q.node /\ t = DropNode(s, n)
      OBVIOUS
    <3>2. t = Painted(x)'
      BY <1>2, <1>5, <2>4, <3>1 DEF Painted
    <3>3. DeleteNode(n) \/ RemoveFromMap(mapId, n)
      BY <1>2, <1>3, <1>5, <2>4, <3>1 DEF AsksFirst, Perform, RemoveCall
    <3>4. PICK m : m = mapId
      OBVIOUS
    <3>5. Mirrors(t)'
      BY <1>1, <3>1, <3>3, <3>4, RemovedIsPainted
    <3> QED
      BY <1>4, <2>4, <3>2, <3>5
  <2>5. CASE r.by = "groupSelection"
    BY <2>5 DEF Answered, Reloads
  <2>6. CASE r.by \in {"undo", "createMap"} \cup ListAsks
    <3>1. s = Painted(x)'
      BY <1>5, <2>6 DEF Painted
    <3>2. (\E m : CreateMap(m)) \/ UNCHANGED tables
      BY <1>2, <1>3, <1>5, <2>6 DEF AsksFirst, Perform
    <3>3. Mirrors(s)'
      BY <1>1, <3>2, MapsArePainted
    <3> QED
      BY <1>4, <2>6, <3>1, <3>3
  <2> QED
    BY <1>5, <2>1, <2>2, <2>3, <2>4, <2>5, <2>6 DEF AsksFirst
<1>6. ASSUME AsksAfter(r, s)
      PROVE  Answered(x)'
  <2>1. PICK t : t = screen
    OBVIOUS
  <2>2. r.by \in {"commitTitle", "unlink", "deleteGroup", "commitGroupMove"} /\ q.op # "listMaps"
    <3>1. /\ r.by \in {"commitTitle", "unlink", "deleteGroup", "commitGroupMove"}
          /\ \/ \E n, ti : q = UpdateCall(n, Keep, ti, Keep)
             \/ \E e : q = UnlinkCall(e)
             \/ q.op = "deleteGroup"
             \/ \E g, d : q = DragCall(mapId, g, d)
      BY <1>2, <1>6 DEF AsksAfter
    <3> QED
      BY <3>1 DEF UpdateCall, UnlinkCall, DragCall
  <2>3. t = Painted(x)'
    BY <2>1, <2>2 DEF Painted
  <2>4. CASE r.by = "commitTitle"
    <3>1. PICK n \in DOMAIN s.nodes, ti \in Title :
             q = UpdateCall(n, Keep, ti, Keep) /\ t = [s EXCEPT !.nodes[n].title = ti]
      BY <1>2, <1>6, <2>1, <2>4 DEF AsksAfter
    <3>2. /\ q.op = "updateNode" /\ q.node = n /\ q.type = Keep /\ q.title = ti /\ q.tags = Keep
          /\ ti # Keep
      BY <3>1, KeepAssumption DEF UpdateCall
    <3>3. /\ Edited({n}) /\ n \in DOMAIN nodes
          /\ nodes'[n] = [type |-> nodes[n].type, title |-> ti, tags |-> nodes[n].tags]
      BY <1>3, <3>2, WhatIsEdited DEF Or
    <3>4. /\ Framed(t) /\ t.of = s.of /\ t.edges = s.edges /\ t.groups = s.groups
          /\ t.nodes = [s.nodes EXCEPT ![n].title = ti]
      BY <1>1, <3>1 DEF Framed
    <3>5. CASE mapId = Nil
      <4>1. Mirrors(t)'
        BY <3>4, <3>5 DEF Mirrors
      <4> QED
        BY <1>4, <2>2, <2>3, <4>1
    <3>6. CASE mapId # Nil
      <4>1. PICK c, row, a : c = s.nodes[n] /\ row = nodes[n] /\ a = c.pos
        OBVIOUS
      <4>2. c = Card(row, a)
        BY <1>1, <3>6, <4>1 DEF Held, Mirrors, Shown, NodesShown
      <4>3. [c EXCEPT !.title = ti] = Card([type |-> row.type, title |-> ti, tags |-> row.tags], a)
        BY <4>2 DEF Card
      <4>4. t.nodes[n] = Card(nodes'[n], s.nodes[n].pos)
        BY <3>3, <3>4, <4>1, <4>3
      <4>5. EditedTo(s, t, {n})
        BY <3>4, <4>4 DEF EditedTo
      <4>6. Mirrors(t)'
        BY <1>1, <3>3, <4>5, EditedIsPainted
      <4> QED
        BY <1>4, <2>2, <2>3, <4>6
    <3> QED
      BY <3>5, <3>6
  <2>5. CASE r.by = "unlink"
    <3>1. PICK e : e = r.was.id
      OBVIOUS
    <3>2. DeleteEdge(e) /\ t = WithoutEdge(s, e)
      BY <1>2, <1>3, <1>6, <2>1, <2>5, <3>1 DEF AsksAfter, Perform, UnlinkCall
    <3>3. Mirrors(t)'
      BY <1>1, <3>2, CutIsPainted
    <3> QED
      BY <1>4, <2>2, <2>3, <3>3
  <2>6. CASE r.by = "deleteGroup"
    <3>1. PICK g : g = q.group
      OBVIOUS
    <3>2. DeleteGroup(g) /\ t = WithoutGroup(s, g)
      BY <1>2, <1>3, <1>6, <2>1, <2>6, <3>1 DEF AsksAfter, Perform
    <3>3. Ungrouping(g)
      BY <1>1, <3>2, WhatIsGrouped
    <3>4. Mirrors(t)'
      BY <1>1, <3>2, <3>3, UngroupedIsPainted
    <3> QED
      BY <1>4, <2>2, <2>3, <3>4
  <2>7. CASE r.by = "commitGroupMove"
    <3>1. PICK g, d : g = q.group /\ d = q.by
      OBVIOUS
    <3>2. /\ q = DragCall(mapId, g, d) /\ g \in DOMAIN s.groups /\ t = Shifted(s, g, d)
          /\ "places" \notin off => s.groups[g].members \subseteq MemberNodes(places, g)
      BY <1>2, <1>6, <2>1, <2>7, <3>1 DEF AsksAfter
    <3>3. MoveGroup(mapId, g, d)
      BY <1>3, <2>2, <3>2 DEF Perform, DragCall
    <3>4. Mirrors(t)'
      BY <1>1, <3>2, <3>3, DraggedIsPainted
    <3> QED
      BY <1>4, <2>2, <2>3, <3>4
  <2> QED
    BY <2>2, <2>4, <2>5, <2>6, <2>7
<1> QED
  BY <1>5, <1>6 DEF Asks

-----------------------------------------------------------------------------
(* What becomes of what is under way.                                      *)

LEMMA SameGraph ==
    ASSUME UNCHANGED tables
    PROVE  \A m : Graph(m)' = Graph(m)
BY DEF Graph, GroupsOf, Saved, CardOn, MemberNodes, Members, Placed, tables

LEMMA AlikeMirrors ==
    ASSUME NEW s, Mirrors(s)', NEW t, Framed(t), t.of = s.of, t.edges = s.edges,
           DOMAIN t.nodes = DOMAIN s.nodes, \A n \in DOMAIN s.nodes : t.nodes[n] = s.nodes[n],
           DOMAIN t.groups = DOMAIN s.groups, \A g \in DOMAIN s.groups : t.groups[g] = s.groups[g]
    PROVE  Mirrors(t)'
BY DEF Mirrors, Shown, NodesShown, EdgesShown, GroupsShown, PlacesShown

\* What is refused is put back as it was.
LEMMA RefusedIsRight ==
    ASSUME ScreenInv, NEW s, Mirrors(s), NEW r, Asks(r, s), UNCHANGED <<mapId, screen, tables>>,
           "places" \notin off' => "places" \notin off, r.by # "deleteGroup",
           NEW x, x.by = r.by, x.do = r.do, x.was = r.was, x.state = "failed"
    PROVE  Failed(x)'
<1>1. Held(s) /\ Framed(s) /\ Database /\ Framed(screen)
  BY DEF ScreenInv, FramedInv, Held, Mirrors
<1>2. Mirrors(s)'
  BY <1>1, MapsArePainted
<1>3. ASSUME NEW t, Mirrors(t)', t = PutBack(x)'
      PROVE  Failed(x)'
  BY <1>3, SameMirrors DEF Failed
<1>4. CASE screen = s /\ AsksFirst(r)
  <2>1. s = PutBack(x)'
    BY <1>4 DEF PutBack, AsksFirst, ListAsks
  <2> QED
    BY <1>2, <1>3, <2>1
<1>5. CASE r.by = "commitTitle" /\ AsksAfter(r, s)
  <2>1. PICK n \in DOMAIN s.nodes, ti \in Title :
           /\ r.do = UpdateCall(n, Keep, ti, Keep) /\ r.was = s.nodes[n]
           /\ screen = [s EXCEPT !.nodes[n].title = ti]
    BY <1>5 DEF AsksAfter
  <2>2. PICK u, c, t : u = screen /\ c = s.nodes[n] /\ t = WithCard(u, n, c)
    OBVIOUS
  <2>3. /\ u.of = s.of /\ u.edges = s.edges /\ u.groups = s.groups
        /\ u.nodes = [s.nodes EXCEPT ![n].title = ti] /\ Framed(u)
    BY <1>1, <2>1, <2>2 DEF Framed
  <2>4. t = PutBack(x)'
    BY <1>5, <2>1, <2>2, <2>3 DEF PutBack, RolledBack, UpdateCall
  <2>5. /\ Framed(t) /\ t.of = u.of /\ t.edges = u.edges /\ t.groups = u.groups
        /\ t.nodes = Put(u.nodes, n, c)
    BY <2>2, <2>3, PaintedIs
  <2>6. DOMAIN t.nodes = DOMAIN s.nodes /\ \A k \in DOMAIN s.nodes : t.nodes[k] = s.nodes[k]
    BY <2>1, <2>2, <2>3, <2>5 DEF Put
  <2>7. Mirrors(t)'
    BY <1>2, <2>3, <2>5, <2>6, AlikeMirrors
  <2> QED
    BY <1>3, <2>4, <2>7
<1>6. CASE r.by = "unlink" /\ AsksAfter(r, s)
  <2>1. r.was \in s.edges /\ screen = WithoutEdge(s, r.was.id)
    BY <1>6 DEF AsksAfter
  <2>2. PICK u, e, es, t : u = screen /\ e = r.was /\ es = {e} /\ t = WithEdges(u, es)
    OBVIOUS
  <2>3. /\ u.of = s.of /\ u.nodes = s.nodes /\ u.groups = s.groups /\ Framed(u)
        /\ u.edges = EdgesBut(s.edges, e.id)
    BY <1>1, <2>1, <2>2, PaintedIs
  <2>4. t = PutBack(x)'
    BY <1>6, <2>2 DEF PutBack
  <2>5. /\ Framed(t) /\ t.of = u.of /\ t.nodes = u.nodes /\ t.groups = u.groups
        /\ t.edges = EdgesOver(u.edges, es)
    BY <2>2, <2>3, PaintedIs
  <2>6. CASE mapId = Nil
    <3>1. Mirrors(t)'
      BY <2>5, <2>6 DEF Mirrors
    <3> QED
      BY <1>3, <2>4, <3>1
  <2>7. CASE mapId # Nil
    <3>1. s.edges \subseteq edges /\ \A f, h \in edges : f.id = h.id => f = h
      BY <1>1, <2>7 DEF Held, Mirrors, Shown, EdgesShown, Database, OneId
    <3>2. \A f \in s.edges : f.id = e.id => f = e
      BY <2>1, <2>2, <3>1
    <3>3. t.edges = s.edges
      <4>1. EdgeIds(es) = {e.id}
        BY <2>2 DEF EdgeIds
      <4>2. t.edges = {f \in {h \in s.edges : h.id # e.id} : f.id \notin {e.id}} \cup {e}
        BY <2>2, <2>3, <2>5, <4>1 DEF EdgesOver, EdgesBut
      <4> QED
        BY <2>1, <2>2, <3>2, <4>2
    <3>4. Mirrors(t)'
      BY <1>2, <2>3, <2>5, <3>3, AlikeMirrors
    <3> QED
      BY <1>3, <2>4, <3>4
  <2> QED
    BY <2>6, <2>7
<1>7. CASE r.by = "commitGroupMove"
  BY <1>7 DEF Failed
<1> QED
  BY <1>4, <1>5, <1>6, <1>7 DEF Asks, AsksAfter

\* A move is made, or is not, and the others are still to come.
LEMMA OutcomeWhenMoving ==
    ASSUME ScreenInv, Moving, NEW r \in Asked, Outcome(r), "graph" \notin off'
    PROVE  Moving'
<1>1. Wired /\ Labelled(r) /\ Moves(r) /\ UNCHANGED <<mapId, screen, inbox>>
  BY DEF ScreenInv, FramedInv, Wired, Moving, Outcome, Serve, ServeUndo, Refuse, LoseAnswer, Fail, tab
<1>2. ASSUME NEW x, x.by = r.by, x.do = r.do, Turned(r, x)
      PROVE  /\ \A y \in Asked' : Moves(y)'
             /\ \A y \in Asked : y # r => y \in Asked'
  BY <1>1, <1>2 DEF Moving, Moves, MovesTo, Turned
<1>3. ASSUME UNCHANGED <<nodes, edges, groups>>, DOMAIN places' = DOMAIN places,
             \A p \in DOMAIN places : places'[p].group = places[p].group, mapId # Nil
      PROVE  Shown(screen)'
  BY <1>1, <1>3 DEF Moving, Shown, NodesShown, EdgesShown, GroupsShown, GroupsOf, Placed
<1>4. CASE Serve(r)
  <2>1. PICK told : told = Told(r.do)
    OBVIOUS
  <2>2. PICK x : x = Turn(r, "answered", told)
    OBVIOUS
  <2>3. r.state = "waiting" /\ Becomes(r, x) /\ UNCHANGED off
    BY <1>4, <2>1, <2>2 DEF Serve, Answer, Turn
  <2>4. x.by = r.by /\ x.do = r.do /\ Turned(r, x)
    BY <1>1, <2>2, <2>3, BecomesAnother DEF Turned
  <2>5. SetPlacement(r.do.map, r.do.node, r.do.pos, Keep)
    BY <1>1, <1>4 DEF Serve, Moves, Perform
  <2>6. PICK m, n, pos : m = r.do.map /\ n = r.do.node /\ pos = r.do.pos
    OBVIOUS
  <2>7. /\ UNCHANGED <<nodes, edges, groups>> /\ DOMAIN places' = DOMAIN places
        /\ <<m, n>> \in DOMAIN places
        /\ places'[<<m, n>>].pos = IF pos = Keep THEN places[<<m, n>>].pos ELSE pos
        /\ \A p \in DOMAIN places : /\ places'[p].group = places[p].group
                                    /\ p # <<m, n>> => places'[p] = places[p]
    BY <2>5, <2>6 DEF SetPlacement, Placed
  <2>8. mapId # Nil => Shown(screen)'
    BY <1>3, <2>7
  <2>9. ASSUME mapId # Nil, "places" \notin off', NEW k \in DOMAIN screen.nodes
        PROVE  \/ screen.nodes[k].pos = places'[<<mapId, k>>].pos
               \/ \E y \in Asked' : y.state = "waiting" /\ MovesTo(y, k)
    <3>1. m = mapId /\ n \in DOMAIN screen.nodes /\ pos = screen.nodes[n].pos /\ pos # Keep
      <4>1. PICK i \in DOMAIN screen.nodes : MovesTo(r, i) /\ screen.nodes[i].pos # Keep
        BY <1>1, <2>9 DEF Moves
      <4>2. m = mapId /\ n = i /\ pos = screen.nodes[i].pos
        BY <2>6, <4>1 DEF MovesTo, MoveCall
      <4> QED
        BY <4>1, <4>2
    <3>2. CASE k = n
      BY <2>7, <3>1, <3>2
    <3>3. CASE k # n
      <4>1. <<mapId, k>> # <<m, n>>
        BY <3>3
      <4>2. <<mapId, k>> \in DOMAIN places
        BY <2>9 DEF Moving, Shown, NodesShown, Placed
      <4>3. places'[<<mapId, k>>] = places[<<mapId, k>>]
        BY <2>7, <4>1, <4>2
      <4>4. \A y : MovesTo(y, k) => y # r
        BY <2>6, <3>3 DEF MovesTo, MoveCall
      <4>5. \/ screen.nodes[k].pos = places[<<mapId, k>>].pos
            \/ \E y \in Asked : y.state = "waiting" /\ MovesTo(y, k)
        BY <2>3, <2>9 DEF Moving, PlacesComing
      <4> QED
        BY <1>2, <2>4, <4>3, <4>4, <4>5
    <3> QED
      BY <3>2, <3>3
  <2>10. mapId # Nil /\ "places" \notin off' => PlacesComing'
    BY <1>1, <2>9 DEF PlacesComing, MovesTo
  <2> QED
    BY <1>1, <1>2, <2>4, <2>8, <2>10 DEF Moving
<1>5. CASE Refuse(r)
  <2>1. PICK x : x = Turn(r, "failed", Nothing)
    OBVIOUS
  <2>2. Becomes(r, x) /\ UNCHANGED tables /\ "places" \in off'
    BY <1>1, <1>5, <2>1 DEF Refuse, Fail, Turn, Moves, OffWithout
  <2>3. x.by = r.by /\ x.do = r.do /\ Turned(r, x)
    BY <1>1, <2>1, <2>2, BecomesAnother DEF Turned
  <2>4. mapId # Nil => Shown(screen)'
    BY <1>3, <2>2 DEF tables
  <2> QED
    BY <1>1, <1>2, <2>2, <2>3, <2>4 DEF Moving
<1>6. ~ServeUndo(r) /\ ~LoseAnswer(r)
  BY <1>1 DEF ServeUndo, LoseAnswer, Moves
<1> QED
  BY <1>4, <1>5, <1>6 DEF Outcome

LEMMA OutcomeWhenPending ==
    ASSUME ScreenInv, NEW r, Only(r), inbox = <<>>, Outcome(r), "graph" \notin off',
           Waits(r) \/ Answered(r) \/ Failed(r) \/ Reading(r)
    PROVE  Pending'
<1> USE DEF GraphAsks, ListAsks
<1>1. /\ Wired /\ Labelled(r) /\ r \in Asked /\ UNCHANGED <<mapId, screen, inbox>>
      /\ ("places" \notin off' => "places" \notin off) /\ ~LoseAnswer(r)
  BY DEF ScreenInv, FramedInv, Wired, Only, Outcome, Serve, ServeUndo, Refuse, LoseAnswer, Fail, tab
<1>2. r.state = "waiting"
  BY <1>1 DEF Outcome, Serve, ServeUndo, Refuse
<1>3. ASSUME NEW x, Only(x)', Answered(x)' \/ Failed(x)' \/ Reading(x)'
      PROVE  Pending'
  BY <1>1, <1>3 DEF Pending
<1>4. CASE Serve(r)
  <2>1. PICK told : told = Told(r.do)
    OBVIOUS
  <2>2. PICK x : x = Turn(r, "answered", told)
    OBVIOUS
  <2>3. Becomes(r, x) /\ UNCHANGED off
    BY <1>4, <2>1, <2>2 DEF Serve, Answer, Turn
  <2>4. /\ Only(x)' /\ x.by = r.by /\ x.do = r.do /\ x.was = r.was /\ x.state = "answered"
        /\ x.says = told
    BY <1>1, <2>2, <2>3, OnlyTurns
  <2>5. \/ r.do.op = "listMaps" /\ UNCHANGED tables
        \/ r.do.op = "graph" /\ UNCHANGED tables
        \/ Perform(r.do)
    BY <1>4 DEF Serve
  <2>6. CASE Waits(r)
    <3>1. PICK s : Mirrors(s) /\ Asks(r, s)
      BY <2>6 DEF Waits
    <3>2. r.do.op # "graph"
      BY <1>1, <3>1 DEF Labelled, Asks, AsksFirst, AsksAfter
    <3>3. Answered(x)'
      BY <1>1, <2>1, <2>3, <2>4, <2>5, <3>1, <3>2, ServedIsRight
    <3> QED
      BY <1>3, <2>4, <3>3
  <2>7. CASE Reading(r)
    <3>1. r.do = GraphCall(mapId) /\ r.do.op = "graph" /\ r.do.map = mapId
      BY <2>7 DEF Reading, GraphCall
    <3>2. UNCHANGED tables
      BY <2>5, <3>1 DEF Perform
    <3>3. told = Graph(mapId)
      BY <2>1, <3>1, ToldIs
    <3>4. told = Graph(mapId)'
      BY <1>1, <3>2, <3>3, SameGraph
    <3>5. Reading(x)'
      BY <1>1, <2>4, <2>7, <3>1, <3>4 DEF Reading
    <3> QED
      BY <1>3, <2>4, <3>5
  <2> QED
    BY <1>2, <2>6, <2>7 DEF Answered, Failed
<1>5. CASE ServeUndo(r)
  <2>1. PICK b \in {TRUE, FALSE} : /\ Answer(r, b)
                                   /\ b = FALSE => UNCHANGED tables
    BY <1>5 DEF ServeUndo
  <2>2. PICK x : x = Turn(r, "answered", b)
    OBVIOUS
  <2>3. Becomes(r, x)
    BY <2>1, <2>2 DEF Answer, Turn
  <2>4. /\ Only(x)' /\ x.by = r.by /\ x.do = r.do /\ x.was = r.was /\ x.state = "answered"
        /\ x.says = b
    BY <1>1, <2>2, <2>3, OnlyTurns
  <2>5. r.do.op = "undo"
    BY <1>5 DEF ServeUndo
  <2>6. ~Reading(r)
    BY <1>1, <2>5 DEF Reading, Labelled
  <2>7. PICK s : Mirrors(s) /\ Asks(r, s)
    BY <1>2, <2>6 DEF Waits, Answered, Failed
  <2>8. r.by = "undo" /\ screen = s
    <3>1. /\ \A m, n : RemoveCall(m, n).op # "undo"
          /\ \A n, ty, ti, tg : UpdateCall(n, ty, ti, tg).op # "undo"
          /\ \A e : UnlinkCall(e).op # "undo" /\ \A m, g, d : DragCall(m, g, d).op # "undo"
      BY DEF RemoveCall, UpdateCall, UnlinkCall, DragCall
    <3>2. ~AsksAfter(r, s)
      BY <2>5, <3>1 DEF AsksAfter
    <3> QED
      BY <2>5, <2>7, <3>1, <3>2 DEF Asks, AsksFirst
  <2>9. CASE b = TRUE
    BY <1>3, <2>4, <2>8, <2>9 DEF Answered, Reloads
  <2>10. CASE b = FALSE
    <3>1. Held(s)
      BY <1>1, <2>7 DEF Held, ScreenInv
    <3>2. Mirrors(s)'
      BY <2>1, <2>10, <3>1, MapsArePainted
    <3>3. s = Painted(x)'
      BY <1>1, <2>4, <2>8 DEF Painted
    <3>4. Mirrors(Painted(x))'
      BY <3>2, <3>3, SameMirrors
    <3>5. Answered(x)'
      BY <2>4, <2>8, <3>4 DEF Answered
    <3> QED
      BY <1>3, <2>4, <3>5
  <2> QED
    BY <2>9, <2>10
<1>6. CASE Refuse(r)
  <2>1. PICK x : x = Turn(r, "failed", Nothing)
    OBVIOUS
  <2>2. Becomes(r, x) /\ UNCHANGED tables /\ r.by \notin {"openMap", "reload", "deleteGroup"}
    BY <1>6, <2>1 DEF Refuse, Fail, Turn, OffWithout
  <2>3. Only(x)' /\ x.by = r.by /\ x.do = r.do /\ x.was = r.was /\ x.state = "failed"
    BY <1>1, <2>1, <2>2, OnlyTurns
  <2>4. PICK s : Mirrors(s) /\ Asks(r, s)
    BY <1>2, <2>2 DEF Waits, Answered, Failed, Reading
  <2>5. Failed(x)'
    BY <1>1, <2>2, <2>3, <2>4, RefusedIsRight
  <2> QED
    BY <1>3, <2>3, <2>5
<1> QED
  BY <1>1, <1>4, <1>5, <1>6 DEF Outcome

-----------------------------------------------------------------------------
(* The function that asked goes on.                                        *)

LEMMA StillMirrors ==
    ASSUME Database, NEW t, Mirrors(t), UNCHANGED <<tables, mapId>>,
           "places" \notin off' => "places" \notin off
    PROVE  Mirrors(t)'
<1>1. Held(t)
  BY DEF Held
<1> QED
  BY <1>1, MapsArePainted

\* The screen is right and nothing is under way.
LEMMA AllSettled ==
    ASSUME FramedInv', NEW t, Mirrors(t)', screen' = t, Asked' = {}, inbox' = <<>>
    PROVE  Moving'
<1>1. Mirrors(screen)'
  BY SameMirrors
<1> QED
  BY <1>1, MirrorsMoves

LEMMA GraphIsRight ==
    ASSUME ScreenInv, NEW r \in Asked, Settle(r), PutsRight(r)
    PROVE  Moving'
<1> USE DEF GraphAsks
<1>1. /\ Wired /\ Labelled(r) /\ r.by \in GraphAsks /\ Database /\ UNCHANGED <<tables, inbox>>
      /\ Only(r) /\ inbox' = <<>>
  BY OnlyIsBag DEF ScreenInv, FramedInv, Wired, Labelled, Settle, PutsRight
<1>2. PICK g : g = r.says
  OBVIOUS
<1>3. PaintGraph(r, g)
  BY <1>1, <1>2 DEF Settle, PutsRight, WrittenAnswer, ListAnswer, GraphAnswer
<1>4. UNCHANGED mapId
  BY <1>3 DEF PaintGraph
<1>5. Framed(g) /\ Shown(g) /\ PlacesShown(g)
  BY <1>1, <1>2, GraphMirrors DEF PutsRight
<1>6. Mirrors(g)' /\ Shown(g)'
  BY <1>1, <1>4, <1>5 DEF Mirrors, Shown, NodesShown, EdgesShown, GroupsShown, GroupsOf, PlacesShown,
                          Placed, tables
<1>7. CASE Unplaced(g)
  <2>1. PICK t, S : t = LaidOut(g) /\ S = LayoutSent(g)
    OBVIOUS
  <2>2. screen' = t /\ inflight' = inflight (-) SetToBag({r}) (+) SetToBag(S)
    BY <1>3, <1>7, <2>1 DEF PaintGraph, Leave, LayoutAsks, LayoutSent
  <2>3. r \notin S
    BY <1>1, <2>1, RequestIs DEF LayoutSent
  <2>4. Asked' = S
    BY <1>1, <2>2, <2>3, OnlyLeaves
  <2>5. Asked' = LayoutSent(g)
    BY <2>1, <2>4
  <2> QED
    BY <1>1, <1>4, <1>5, <1>6, <2>1, <2>2, <2>5, LayoutMoves
<1>8. CASE ~Unplaced(g)
  <2>1. screen' = g /\ inflight' = inflight (-) SetToBag({r}) (+) SetToBag({})
    BY <1>3, <1>8 DEF PaintGraph, Leave, EmptyBag, SetToBag
  <2>2. Asked' = {}
    BY <1>1, <2>1, OnlyLeaves
  <2>3. FramedInv'
    BY SettleKeepsFrames DEF ScreenInv
  <2> QED
    BY <1>1, <1>6, <2>1, <2>2, <2>3, AllSettled
<1> QED
  BY <1>7, <1>8

LEMMA SettleWhenMoving ==
    ASSUME ScreenInv, Moving, NEW r \in Asked, Settle(r)
    PROVE  Moving'
<1>0. EmptyBag = SetToBag({})
  BY DEF EmptyBag, SetToBag
<1>1. Wired /\ Moves(r) /\ r.do.op # "graph"
  BY DEF ScreenInv, FramedInv, Moving, Moves
<1>2. /\ UNCHANGED <<tables, mapId, screen, inbox, off>> /\ r.state # "waiting"
      /\ inflight' = inflight (-) SetToBag({r}) (+) SetToBag({})
  <2>1. UNCHANGED <<tables, inbox, off>> /\ r.state # "waiting"
    BY <1>1 DEF Settle, PutsRight
  <2>2. CASE GiveUp(r)
    BY <1>1, <1>0, <2>1, <2>2 DEF GiveUp, PutBack, Leave, Moves
  <2>3. CASE ~GiveUp(r)
    <3>1. Drop(r)
      BY <1>1, <2>3 DEF Settle, WrittenAnswer, ListAnswer, GraphAnswer, Moves
    <3> QED
      BY <1>0, <2>1, <3>1 DEF Drop, Paint, Leave
  <2> QED
    BY <2>1, <2>2, <2>3
<1>3. Swapped(inflight, r, {}, inflight')
  BY <1>1, <1>2, InflightSwapped
<1>4. Asked' \subseteq Asked /\ Asked \ {r} \subseteq Asked'
  BY <1>3 DEF Swapped, Asked, BagToSet
<1>5. \A y \in Asked' : Moves(y)'
  BY <1>2, <1>4 DEF Moving, Moves, MovesTo
<1>6. mapId # Nil => Shown(screen)'
  BY <1>2 DEF Moving, Shown, NodesShown, EdgesShown, GroupsShown, GroupsOf, Placed, tables
<1>7. mapId # Nil /\ "places" \notin off => PlacesComing'
  BY <1>2, <1>4 DEF Moving, PlacesComing, MovesTo, tables
<1> QED
  BY <1>2, <1>5, <1>6, <1>7 DEF Moving

LEMMA SettleWhenPending ==
    ASSUME ScreenInv, NEW r, Only(r), inbox = <<>>, Settle(r), ~PutsRight(r),
           Waits(r) \/ Answered(r) \/ Failed(r) \/ Reading(r)
    PROVE  Moving' \/ Pending'
<1> USE DEF GraphAsks, ListAsks
<1>1. /\ Wired /\ Database /\ Labelled(r) /\ r \in Asked /\ r.state # "waiting"
      /\ UNCHANGED <<tables, inbox, off>> /\ inbox' = <<>>
  BY DEF ScreenInv, FramedInv, Wired, Only, Settle
<1>2. FramedInv'
  BY <1>1, SettleKeepsFrames DEF ScreenInv
<1>3. EmptyBag = SetToBag({})
  BY DEF EmptyBag, SetToBag
<1>4. ASSUME NEW t, Mirrors(t), screen' = t, UNCHANGED mapId, Leave(r, EmptyBag)
      PROVE  Moving'
  <2>1. Mirrors(t)'
    BY <1>1, <1>4, StillMirrors
  <2>2. inflight' = inflight (-) SetToBag({r}) (+) SetToBag({})
    BY <1>3, <1>4 DEF Leave
  <2>3. Asked' = {}
    BY <1>1, <2>2, OnlyLeaves
  <2> QED
    BY <1>1, <1>2, <1>4, <2>1, <2>3, AllSettled
<1>5. ASSUME UNCHANGED mapId, Leave(r, ReloadAsk)
      PROVE  Moving' \/ Pending'
  <2>1. ASSUME NEW S, ReloadAsk = SetToBag(S), \A x \in S : x.state = "waiting"
        PROVE  Asked' = S /\ \A x : S = {x} => Only(x)'
    <3>1. inflight' = inflight (-) SetToBag({r}) (+) SetToBag(S) /\ r \notin S
      BY <1>1, <1>5, <2>1 DEF Leave
    <3> QED
      BY <1>1, <3>1, OnlyLeaves
  <2> QED
    BY <1>1, <1>2, <1>5, <2>1, ReloadBegins
<1>6. ASSUME NEW m, Opening(m, inflight (-) SetToBag({r}))
      PROVE  Pending'
  <2>1. PICK x : x = Request("openMap", GraphCall(m), Nothing)
    OBVIOUS
  <2>2. x.by = "openMap" /\ x.do = GraphCall(m) /\ x.state = "waiting"
    BY <2>1, RequestIs
  <2>3. PICK S : S = {x}
    OBVIOUS
  <2>4. mapId' = m /\ inflight' = inflight (-) SetToBag({r}) (+) SetToBag(S) /\ r \notin S
    BY <1>1, <1>6, <2>1, <2>2, <2>3 DEF Opening, Ask, Keeping
  <2>5. Only(x)'
    BY <1>1, <2>3, <2>4, OnlyLeaves
  <2>6. Reading(x)'
    BY <2>2, <2>4 DEF Reading
  <2> QED
    BY <1>1, <2>5, <2>6 DEF Pending
<1>7. CASE Failed(r)
  <2>1. GiveUp(r)
    BY <1>7 DEF Settle, Failed
  <2>2. CASE r.by = "commitGroupMove"
    BY <1>5, <2>1, <2>2 DEF GiveUp
  <2>3. CASE r.by # "commitGroupMove"
    <3>1. PICK t : t = PutBack(r)
      OBVIOUS
    <3>2. Mirrors(t)
      BY <1>7, <2>3, <3>1 DEF Failed
    <3> QED
      BY <1>4, <2>1, <2>3, <3>1, <3>2 DEF GiveUp
  <2> QED
    BY <2>2, <2>3
<1>8. CASE Answered(r)
  <2>1. WrittenAnswer(r) \/ ListAnswer(r)
    BY <1>8 DEF Answered, Settle, GraphAnswer
  <2>2. CASE Reloads(r)
    <3>1. r.by \in {"groupSelection", "undo", "patchNode"} /\ WrittenAnswer(r)
      BY <2>1, <2>2 DEF Reloads, ListAnswer
    <3>2. UNCHANGED mapId /\ Leave(r, ReloadAsk)
      BY <2>2, <3>1 DEF Reloads, WrittenAnswer, Paint
    <3> QED
      BY <1>5, <3>2
  <2>3. CASE ~Reloads(r)
    <3>1. PICK t : t = Painted(r)
      OBVIOUS
    <3>2. Mirrors(t) /\ r.by # "groupSelection"
      BY <1>8, <2>3, <3>1 DEF Answered
    <3>3. CASE WrittenAnswer(r)
      <4>1. screen' = t /\ Leave(r, EmptyBag) /\ UNCHANGED mapId
        BY <2>3, <3>1, <3>2, <3>3 DEF WrittenAnswer, Drop, Paint, Painted, Reloads
      <4> QED
        BY <1>4, <3>2, <4>1
    <3>4. CASE r.by = "listMaps"
      <4>1. screen' = t /\ Leave(r, EmptyBag) /\ UNCHANGED mapId
        BY <2>1, <3>1, <3>4 DEF WrittenAnswer, ListAnswer, Painted
      <4> QED
        BY <1>4, <3>2, <4>1
    <3>5. CASE r.by = "bootstrap"
      <4>1. \/ screen' = t /\ Leave(r, EmptyBag) /\ UNCHANGED mapId
            \/ \E m : Opening(m, inflight (-) SetToBag({r}))
        BY <2>1, <3>1, <3>5 DEF WrittenAnswer, ListAnswer, Painted
      <4> QED
        BY <1>4, <1>6, <3>2, <4>1
    <3>6. CASE r.by = "newMap"
      <4>1. Opening(r.was, inflight (-) SetToBag({r}))
        BY <2>1, <3>6 DEF WrittenAnswer, ListAnswer
      <4> QED
        BY <1>6, <4>1
    <3>7. CASE r.by = "createMap"
      <4>1. PICK x : x = Request("newMap", ListCall, r.do.map)
        OBVIOUS
      <4>2. x.by = "newMap" /\ x.do = ListCall /\ x.state = "waiting"
        BY <4>1, RequestIs
      <4>3. PICK S : S = {x}
        OBVIOUS
      <4>4. /\ screen' = t /\ UNCHANGED mapId /\ screen = t
            /\ inflight' = inflight (-) SetToBag({r}) (+) SetToBag(S) /\ r \notin S
        BY <1>1, <2>1, <3>1, <3>7, <4>1, <4>2, <4>3
        DEF WrittenAnswer, ListAnswer, Paint, Painted, Leave, Keeping
      <4>5. Only(x)'
        BY <1>1, <4>3, <4>4, OnlyLeaves
      <4>6. Mirrors(t)'
        BY <1>1, <3>2, <4>4, StillMirrors
      <4>7. AsksFirst(x)'
        BY <4>2 DEF AsksFirst, ListCall
      <4>8. Waits(x)'
        BY <4>2, <4>4, <4>6, <4>7 DEF Waits, Asks
      <4> QED
        BY <1>1, <4>5, <4>8 DEF Pending
    <3> QED
      BY <2>1, <3>3, <3>4, <3>5, <3>6, <3>7 DEF ListAnswer
  <2> QED
    BY <2>2, <2>3
<1>9. ~Waits(r) /\ ~Reading(r)
  <2>1. ~Waits(r)
    BY <1>1 DEF Waits
  <2>2. inflight = SetToBag({r})
    BY <1>1, BagOfOnly
  <2>3. ~Reading(r)
    BY <1>1, <2>2 DEF Reading, PutsRight, GraphCall
  <2> QED
    BY <2>1, <2>3
<1> QED
  BY <1>7, <1>8, <1>9

-----------------------------------------------------------------------------
(* Events are read.                                                        *)

LEMMA HeardOf ==
    ASSUME NEW s, NEW e
    PROVE  /\ e.kind \in {"node.created", "node.transcluded", "edge.created", "group.saved"} =>
                 Heard(s, e) = IF ~Concerns(e) THEN s
                               ELSE IF e.kind = "node.created" /\ Unplaced(e.what)
                               THEN LaidOut(Merged(s, e.what)) ELSE Merged(s, e.what)
           /\ e.kind = "node.updated" =>
                 LET n == CHOOSE n \in DOMAIN e.what.nodes : TRUE
                 IN Heard(s, e) = IF n \in DOMAIN s.nodes THEN Rewritten(s, n, e.what.nodes[n]) ELSE s
           /\ e.kind = "node.moved" =>
                 Heard(s, e) = IF Concerns(e) /\ e.what.node \in DOMAIN s.nodes
                               THEN [s EXCEPT !.nodes[e.what.node].pos = e.what.pos] ELSE s
           /\ e.kind \in {"node.deleted", "node.removedFromMap"} => Heard(s, e) = DropNode(s, e.what)
           /\ e.kind = "edge.deleted" => Heard(s, e) = WithoutEdge(s, e.what)
           /\ e.kind = "group.deleted" => Heard(s, e) = WithoutGroup(s, e.what)
           /\ e.kind \in MapNews \cup {"graph.invalidated"} => Heard(s, e) = s
BY DEF Heard, MapNews

LEMMA HeardAlike ==
    ASSUME UNCHANGED mapId, NEW s, screen' = s, NEW e
    PROVE  Heard(screen, e)' = Heard(s, e)
BY DEF Heard, Concerns

LEMMA HeardIs ==
    ASSUME ApplyEvent, NEW e, e = Head(inbox)
    PROVE  /\ inbox' = Tail(inbox) /\ UNCHANGED <<tables, mapId, off>>
           /\ screen' = Heard(screen, e)
           /\ \/ e.kind = "graph.invalidated" /\ inflight' = inflight (+) ReloadAsk
              \/ e.kind \in MapNews /\ inflight' = inflight (+) Ask("listMaps", ListCall)
              \/ inflight' = inflight (+) EmptyBag /\ e.kind # "graph.invalidated"
<1>1. UNCHANGED <<tables, mapId, off>>
  BY DEF ApplyEvent
<1>2. ReadAddition(e) \/ ReadUpdate(e) \/ ReadMove(e) \/ ReadRemoval(e) \/ ReadNews(e)
  BY DEF ApplyEvent
<1>3. PICK s : s = screen
  OBVIOUS
<1>4. CASE ReadAddition(e)
  <2>1. /\ e.kind \in {"node.created", "node.transcluded", "edge.created", "group.saved"}
        /\ inbox' = Tail(inbox) /\ inflight' = inflight (+) EmptyBag
        /\ screen' = IF ~Concerns(e) THEN s
                     ELSE IF e.kind = "node.created" /\ Unplaced(e.what)
                     THEN LaidOut(Merged(s, e.what)) ELSE Merged(s, e.what)
    BY <1>3, <1>4 DEF ReadAddition, Reads
  <2> QED
    BY <1>1, <1>3, <2>1, HeardOf
<1>5. CASE ReadUpdate(e)
  <2>1. PICK n : n = CHOOSE x \in DOMAIN e.what.nodes : TRUE
    OBVIOUS
  <2>2. /\ e.kind = "node.updated" /\ inbox' = Tail(inbox) /\ inflight' = inflight (+) EmptyBag
        /\ screen' = IF n \in DOMAIN s.nodes THEN Rewritten(s, n, e.what.nodes[n]) ELSE s
    BY <1>3, <1>5, <2>1 DEF ReadUpdate, Reads
  <2>3. Heard(s, e) = IF n \in DOMAIN s.nodes THEN Rewritten(s, n, e.what.nodes[n]) ELSE s
    BY <2>1, <2>2 DEF Heard
  <2> QED
    BY <1>1, <1>3, <2>2, <2>3
<1>6. CASE ReadMove(e)
  <2>1. PICK t : t = [s EXCEPT !.nodes[e.what.node].pos = e.what.pos]
    OBVIOUS
  <2>2. /\ e.kind = "node.moved" /\ inbox' = Tail(inbox) /\ inflight' = inflight (+) EmptyBag
        /\ screen' = IF Concerns(e) /\ e.what.node \in DOMAIN s.nodes THEN t ELSE s
    BY <1>3, <1>6, <2>1 DEF ReadMove, Reads
  <2>3. Heard(s, e) = IF Concerns(e) /\ e.what.node \in DOMAIN s.nodes THEN t ELSE s
    BY <2>1, <2>2 DEF Heard
  <2> QED
    BY <1>1, <1>3, <2>2, <2>3
<1>7. CASE ReadRemoval(e)
  <2>1. /\ inbox' = Tail(inbox) /\ inflight' = inflight (+) EmptyBag
        /\ \/ e.kind \in {"node.deleted", "node.removedFromMap"} /\ screen' = DropNode(s, e.what)
           \/ e.kind = "edge.deleted" /\ screen' = WithoutEdge(s, e.what)
           \/ e.kind = "group.deleted" /\ screen' = WithoutGroup(s, e.what)
    BY <1>3, <1>7 DEF ReadRemoval, Reads
  <2> QED
    BY <1>1, <1>3, <2>1, HeardOf
<1>8. CASE ReadNews(e)
  <2>1. /\ inbox' = Tail(inbox) /\ screen' = s
        /\ \/ e.kind = "graph.invalidated" /\ inflight' = inflight (+) ReloadAsk
           \/ e.kind \in MapNews /\ inflight' = inflight (+) Ask("listMaps", ListCall)
    BY <1>3, <1>8 DEF ReadNews, Reads, MapNews
  <2> QED
    BY <1>1, <1>3, <2>1, HeardOf
<1> QED
  BY <1>2, <1>4, <1>5, <1>6, <1>7, <1>8

LEMMA ReadingInStep ==
    ASSUME ScreenInv, ApplyEvent, "graph" \notin off'
    PROVE  Moving' \/ Pending' \/ Hearing'
<1>1. Hearing /\ Wired /\ Database
  BY DEF ScreenInv, FramedInv, ApplyEvent, Moving, Pending
<1>2. FramedInv'
  BY ReadingKeepsFrames DEF ScreenInv
<1>3. ASSUME NEW S, inflight' = inflight (+) SetToBag(S)
      PROVE  Asked' = S /\ \A x : S = {x} => Only(x)'
  BY <1>1, <1>3, AskedMany, AskedAlone DEF Hearing
<1>4. ASSUME NEW e, HearsOne(e)
      PROVE  Moving' \/ Pending'
  <2>1. /\ inbox' = <<>> /\ UNCHANGED <<tables, mapId, off>>
        /\ screen' = Heard(screen, e)
        /\ \/ e.kind = "graph.invalidated" /\ inflight' = inflight (+) ReloadAsk
           \/ e.kind \in MapNews /\ inflight' = inflight (+) Ask("listMaps", ListCall)
           \/ inflight' = inflight (+) EmptyBag /\ e.kind # "graph.invalidated"
    <3>1. e = Head(inbox) /\ Tail(inbox) = <<>>
      BY <1>4 DEF HearsOne
    <3> QED
      BY <3>1, HeardIs
  <2>2. CASE e.kind = "graph.invalidated" /\ inflight' = inflight (+) ReloadAsk
    <3>1. ASSUME NEW S, ReloadAsk = SetToBag(S)
          PROVE  Asked' = S /\ \A x : S = {x} => Only(x)'
      BY <1>3, <2>2, <3>1
    <3> QED
      BY <1>2, <2>1, <3>1, ReloadBegins
  <2>3. ASSUME e.kind # "graph.invalidated"
        PROVE  \E t : Mirrors(t)' /\ screen' = t
    <3>1. PICK t : t = Heard(screen, e)
      OBVIOUS
    <3>2. Mirrors(t)
      BY <1>4, <2>3, <3>1 DEF HearsOne
    <3>3. Mirrors(t)'
      BY <1>1, <2>1, <3>2, StillMirrors
    <3> QED
      BY <2>1, <3>1, <3>3
  <2>4. CASE e.kind \in MapNews /\ inflight' = inflight (+) Ask("listMaps", ListCall)
    <3>1. PICK x : x = Request("listMaps", ListCall, Nothing)
      OBVIOUS
    <3>2. x.by = "listMaps" /\ x.do = ListCall /\ x.state = "waiting"
      BY <3>1, RequestIs
    <3>3. PICK S : S = {x}
      OBVIOUS
    <3>4. Only(x)'
      BY <1>3, <2>4, <3>1, <3>3 DEF Ask, Keeping
    <3>5. AsksFirst(x)'
      BY <3>2 DEF AsksFirst, ListAsks, ListCall
    <3>6. PICK t : Mirrors(t)' /\ screen' = t
      BY <2>3, <2>4 DEF MapNews
    <3>7. Waits(x)'
      BY <3>2, <3>5, <3>6 DEF Waits, Asks
    <3> QED
      BY <2>1, <3>4, <3>7 DEF Pending
  <2>5. CASE inflight' = inflight (+) EmptyBag /\ e.kind # "graph.invalidated"
    <3>1. PICK t : Mirrors(t)' /\ screen' = t
      BY <2>3, <2>5
    <3>2. EmptyBag = SetToBag({})
      BY DEF EmptyBag, SetToBag
    <3>3. Asked' = {}
      BY <1>3, <2>5, <3>2
    <3> QED
      BY <1>2, <2>1, <3>1, <3>3, AllSettled
  <2> QED
    BY <2>1, <2>2, <2>4, <2>5
<1>5. ASSUME NEW a, NEW b, HearsTwo(a, b)
      PROVE  Hearing'
  <2>1. a = Head(inbox) /\ Tail(inbox) = <<b>> /\ a.kind = "node.transcluded"
    BY <1>5 DEF HearsTwo
  <2>2. /\ inbox' = <<b>> /\ UNCHANGED <<tables, mapId, off>>
        /\ screen' = Heard(screen, a) /\ inflight' = inflight (+) EmptyBag
    BY <2>1, HeardIs DEF MapNews
  <2>3. EmptyBag = SetToBag({})
    BY DEF EmptyBag, SetToBag
  <2>4. Asked' = {}
    BY <1>3, <2>2, <2>3
  <2>5. PICK u, t : u = Heard(screen, a) /\ t = Heard(u, b)
    OBVIOUS
  <2>6. Mirrors(t)
    BY <1>5, <2>5 DEF HearsTwo
  <2>7. Mirrors(t)'
    BY <1>1, <2>2, <2>6, StillMirrors
  <2>8. t = Heard(screen, b)'
    BY <2>2, <2>5, HeardAlike
  <2>9. Mirrors(Heard(screen, b))'
    BY <2>7, <2>8, SameMirrors
  <2>10. HearsOne(b)'
    BY <2>2, <2>9 DEF HearsOne
  <2> QED
    BY <2>4, <2>10 DEF Hearing
<1> QED
  BY <1>1, <1>4, <1>5 DEF Hearing

-----------------------------------------------------------------------------
(* What others do, and what is heard of it.                                *)

LEMMA PairSeq ==
    ASSUME NEW a, NEW b
    PROVE  <<a>> \o <<b>> = <<a, b>>
<1>1. <<a>> \in Seq({a, b}) /\ <<a, b>> \in Seq({a, b})
  OBVIOUS
<1>2. PICK x, y : x = <<a>> /\ y = <<a, b>>
  OBVIOUS
<1>3. PICK z : z = Append(x, b)
  OBVIOUS
<1>4. z \in Seq({a, b}) /\ Len(z) = 2 /\ z[1] = a /\ z[2] = b
  BY <1>1, <1>2, <1>3
<1>5. Len(y) = 2 /\ y[1] = a /\ y[2] = b /\ y \in Seq({a, b})
  BY <1>1, <1>2
<1>6. z = y
  BY <1>4, <1>5, SeqEqual
<1>7. z = x \o <<b>>
  BY <1>1, <1>2, <1>3, AppendIsConcat
<1> QED
  BY <1>2, <1>6, <1>7

LEMMA TransclusionIsHeard ==
    ASSUME NEW s, Held(s), NEW q, q.op = "transclude", Perform(q), NEW told, told = Told(q),
           NEW first, first = [told EXCEPT !.edges = {}], NEW t, t = Merged(s, first)
    PROVE  /\ q.in.map # mapId => Mirrors(s)'
           /\ q.in.map = mapId /\ edges' \ edges = {} => Mirrors(t)'
           /\ q.in.map = mapId => \A second, u : second = WithEdges(Nothing, edges' \ edges)
                                                 /\ u = Merged(t, second) => Mirrors(u)'
<1>1. Database /\ Framed(s)
  BY DEF Held, Mirrors
<1>2. PICK m, ns : m = q.in.map /\ ns = {q.in.node}
  OBVIOUS
<1>3. Added(m, ns)
  <2>1. Transclude(q.in, NewEdgeId)
    BY DEF Perform
  <2> QED
    BY <1>1, <1>2, <2>1, WhatIsAdded
<1>4. told.nodes = CardsTold(m, ns) /\ told.groups = Empty
  <2>1. /\ told.nodes = CardsTold(q.in.map, {q.in.node}) /\ told.groups = Empty
    BY ToldIs
  <2> QED
    BY <1>2, <2>1
<1>5. Framed(told)
  <2>1. PICK x, es : x = NodesTold(m, ns) /\ es = edges' \ edges
    OBVIOUS
  <2>2. Framed(x)
    <3>1. PICK cards : cards = CardsTold(m, ns)
      OBVIOUS
    <3>2. x = [of |-> Nil, nodes |-> cards, edges |-> {}, groups |-> Empty]
      BY <2>1, <3>1 DEF NodesTold, Nothing, CardsTold
    <3> QED
      BY <3>2 DEF Framed
  <2>3. told = WithEdges(x, es)
    BY <1>2, <2>1 DEF Told
  <2> QED
    BY <2>2, <2>3, FramesKept
<1>6. first.nodes = CardsTold(m, ns) /\ first.edges = {} /\ first.groups = Empty
  BY <1>4, <1>5 DEF Framed
<1>7. q.in.map # mapId => Mirrors(s)'
  BY <1>2, <1>3, AddedIsPainted
<1>8. ASSUME q.in.map = mapId, edges' \ edges = {}
      PROVE  Mirrors(t)'
  <2>1. first.edges = edges' \ edges
    BY <1>6, <1>8
  <2>2. AddedTo(s, t, m, ns)
    BY <1>1, <1>6, <2>1, MergedAdds
  <2> QED
    BY <1>2, <1>3, <1>8, <2>2, AddedIsPainted
<1>9. ASSUME q.in.map = mapId, NEW second, second = WithEdges(Nothing, edges' \ edges),
             NEW u, u = Merged(t, second)
      PROVE  Mirrors(u)'
  <2>1. PICK es : es = edges' \ edges
    OBVIOUS
  <2>2. second.nodes = Empty /\ second.edges = es /\ second.groups = Empty
    BY <1>9, <2>1, NothingToldIs
  <2>3. AddedTo(s, u, m, ns)
    BY <1>1, <1>6, <1>9, <2>1, <2>2, MergedTwiceAdds
  <2> QED
    BY <1>2, <1>3, <1>9, <2>3, AddedIsPainted
<1> QED
  BY <1>7, <1>8, <1>9

\* A card that comes without a place was made without one.
LEMMA ToldUnplaced ==
    ASSUME NEW q, q.op = "createNode", Perform(q), Database, NEW told, told = Told(q), Unplaced(told)
    PROVE  q.in.pos = Nil
<1>1. PICK n : CreateNode(q.in, n, NewEdgeId)
  BY DEF Perform
<1>2. DOMAIN nodes' \ DOMAIN nodes = {n}
  BY <1>1, WhatIsAdded
<1>3. told.nodes = CardsTold(q.in.map, DOMAIN nodes' \ DOMAIN nodes)
  BY ToldIs
<1>4. PICK m, cards : m = q.in.map /\ cards = CardsTold(m, {n})
  OBVIOUS
<1>5. told.nodes = cards
  BY <1>2, <1>3, <1>4
<1>6. places' = Put(places, <<m, n>>, [pos |-> q.in.pos, group |-> Nil])
  BY <1>1, <1>4 DEF CreateNode
<1>7. Placed(places', m, n) /\ places'[<<m, n>>].pos = q.in.pos
  BY <1>6 DEF Placed, Put
<1>8. cards[n] = Card(nodes'[n], q.in.pos) /\ DOMAIN cards = {n}
  BY <1>4, <1>7 DEF CardsTold, CardOn
<1>9. cards[n].pos = q.in.pos
  BY <1>8, CardPos
<1> QED
  BY <1>5, <1>8, <1>9 DEF Unplaced

LEMMA OthersInStep ==
    ASSUME ScreenInv, NEW q, OtherTab(q), "graph" \notin off'
    PROVE  Hearing'
<1>1. /\ Perform(q) /\ Quiet /\ "graph" \notin off /\ UNCHANGED <<mapId, screen, inflight>>
      /\ ("places" \notin off' => "places" \notin off)
      /\ inbox' = inbox \o Events(q) /\ off' = off \cup Untold(q)
  BY DEF OtherTab, Others, Untold, tab
<1>2. /\ q.op = "updateNode" => edges' = edges
      /\ q.op = "deleteMap" => q.map # mapId
      /\ q.op = "removeFromMap" => q.map = mapId \/ q.node \notin DOMAIN screen.nodes
      /\ q.op = "createNode" /\ q.in.map = mapId /\ q.in.pos = Nil => "places" \in off'
  BY <1>1 DEF Untold
<1>3. Asked = {} /\ Asked' = {} /\ inbox = <<>>
  BY <1>1, QuietIsEmpty DEF Quiet, Asked
<1>4. PICK s : s = screen
  OBVIOUS
<1>5. Held(s) /\ Database /\ Framed(s)
  BY <1>1, <1>3, <1>4, QuietMirrors DEF Held, ScreenInv, Mirrors
<1>6. PICK told : told = Told(q)
  OBVIOUS
<1>7. ASSUME NEW e, Events(q) = <<e>>, NEW t, t = Heard(s, e), Mirrors(t)'
      PROVE  Hearing'
  <2>1. inbox' = <<e>>
    BY <1>1, <1>3, <1>7, SingleSeq
  <2>2. t = Heard(screen, e)'
    BY <1>1, <1>4, <1>7, HeardAlike
  <2>3. Mirrors(Heard(screen, e))'
    BY <1>7, <2>2, SameMirrors
  <2>4. HearsOne(e)'
    BY <2>1, <2>3 DEF HearsOne
  <2> QED
    BY <1>3, <2>4 DEF Hearing
<1>8. CASE q.op = "createNode"
  <2>1. PICK e, t : /\ e = [kind |-> "node.created", map |-> q.in.map, what |-> told]
                    /\ t = Heard(s, e)
    OBVIOUS
  <2>2. Events(q) = <<e>>
    BY <1>6, <1>8, <2>1 DEF Events, Event
  <2>3. PICK u : u = Merged(s, told)
    OBVIOUS
  <2>4. (q.in.map = mapId => Mirrors(u)') /\ (q.in.map # mapId => Mirrors(s)')
    BY <1>1, <1>5, <1>6, <1>8, <2>3, MergingIsPainted
  <2>5. t = IF q.in.map # mapId THEN s ELSE IF Unplaced(told) THEN LaidOut(u) ELSE u
    <3>1. e.kind = "node.created" /\ e.map = q.in.map /\ e.what = told /\ t = Heard(s, e)
      BY <2>1
    <3> QED
      BY <2>3, <3>1 DEF Heard, Concerns
  <2>6. Unplaced(told) /\ q.in.map = mapId => "places" \in off'
    BY <1>1, <1>2, <1>5, <1>6, <1>8, ToldUnplaced
  <2>7. Mirrors(t)'
    BY <2>4, <2>5, <2>6, LaidOutIsPainted
  <2> QED
    BY <1>7, <2>1, <2>2, <2>7
<1>9. CASE q.op = "transclude"
  <2>1. PICK first, second : /\ first = [told EXCEPT !.edges = {}]
                             /\ second = WithEdges(Nothing, edges' \ edges)
    OBVIOUS
  <2>2. PICK a, b : /\ a = [kind |-> "node.transcluded", map |-> q.in.map, what |-> first]
                    /\ b = [kind |-> "edge.created", map |-> q.in.map, what |-> second]
    OBVIOUS
  <2>3. PICK t, u : t = Heard(s, a) /\ u = Heard(t, b)
    OBVIOUS
  <2>4. /\ q.in.map # mapId => t = s /\ u = s
        /\ q.in.map = mapId => t = Merged(s, first) /\ u = Merged(t, second)
    <3>1. a.kind = "node.transcluded" /\ a.map = q.in.map /\ a.what = first
      BY <2>2
    <3>2. b.kind = "edge.created" /\ b.map = q.in.map /\ b.what = second
      BY <2>2
    <3>3. t = IF q.in.map = mapId THEN Merged(s, first) ELSE s
      BY <2>3, <3>1 DEF Heard, Concerns
    <3>4. u = IF q.in.map = mapId THEN Merged(t, second) ELSE t
      BY <2>3, <3>2 DEF Heard, Concerns
    <3> QED
      BY <3>3, <3>4
  <2>5. PICK x : x = Merged(s, first)
    OBVIOUS
  <2>6. /\ q.in.map # mapId => Mirrors(s)'
        /\ q.in.map = mapId /\ edges' \ edges = {} => Mirrors(x)'
        /\ q.in.map = mapId => \A c, y : c = WithEdges(Nothing, edges' \ edges)
                                         /\ y = Merged(x, c) => Mirrors(y)'
    BY <1>1, <1>5, <1>6, <1>9, <2>1, <2>5, TransclusionIsHeard
  <2>7. CASE edges' \ edges = {}
    <3>1. Events(q) = <<a>>
      <4>1. Events(q) = <<a>> \o <<>>
        BY <1>6, <1>9, <2>1, <2>2, <2>7 DEF Events, Event
      <4> QED
        BY <4>1
    <3>2. Mirrors(t)'
      BY <2>4, <2>5, <2>6, <2>7
    <3> QED
      BY <1>7, <2>3, <3>1, <3>2
  <2>8. CASE edges' \ edges # {}
    <3>1. Events(q) = <<a>> \o <<b>>
      <4>1. Events(q) = Event("node.transcluded", q.in.map, first)
                        \o Event("edge.created", q.in.map, second)
        BY <1>6, <1>9, <2>1, <2>8 DEF Events
      <4>2. Event("node.transcluded", q.in.map, first) = <<a>> /\ Event("edge.created", q.in.map, second) = <<b>>
        BY <2>2 DEF Event
      <4> QED
        BY <4>1, <4>2
    <3>2. inbox' = <<a, b>>
      <4>1. <<a>> \o <<b>> = <<a, b>>
        BY PairSeq
      <4>2. PICK both : both = <<a, b>>
        OBVIOUS
      <4>3. both \in Seq({a, b})
        BY <4>2
      <4>4. <<>> \o both = both
        BY <4>3
      <4> QED
        BY <1>1, <1>3, <3>1, <4>1, <4>2, <4>4
    <3>3. Mirrors(u)'
      BY <2>1, <2>4, <2>5, <2>6
    <3>4. u = Heard(Heard(screen, a), b)'
      <4>1. Heard(screen, a)' = t
        BY <1>1, <1>4, <2>3, HeardAlike
      <4> QED
        BY <1>1, <2>2, <2>3, <4>1 DEF Heard, Concerns
    <3>5. HearsTwo(a, b)'
      BY <2>2, <3>2, <3>3, <3>4 DEF HearsTwo
    <3> QED
      BY <1>3, <3>5 DEF Hearing
  <2> QED
    BY <2>7, <2>8
<1>10. CASE q.op = "updateNode"
  <2>1. PICK e, t : e = [kind |-> "node.updated", map |-> Nil, what |-> told] /\ t = Heard(s, e)
    OBVIOUS
  <2>2. Events(q) = <<e>>
    BY <1>6, <1>10, <2>1 DEF Events, Event
  <2>3. PICK n : n = q.node
    OBVIOUS
  <2>4. DOMAIN told.nodes = {n}
    <3>1. told.nodes = CardsTold(Nil, {n})
      BY <1>6, <1>10, <2>3, ToldIs
    <3> QED
      BY <3>1 DEF CardsTold
  <2>5. PICK k : k = CHOOSE i \in DOMAIN e.what.nodes : TRUE
    OBVIOUS
  <2>6. t = IF n \in DOMAIN s.nodes THEN Rewritten(s, n, told.nodes[n]) ELSE s
    <3>1. e.kind = "node.updated" /\ e.what = told /\ t = Heard(s, e)
      BY <2>1
    <3>2. k \in DOMAIN e.what.nodes
      BY <2>4, <2>5, <3>1
    <3>3. k = n
      BY <2>4, <3>1, <3>2
    <3>4. t = IF k \in DOMAIN s.nodes THEN Rewritten(s, k, e.what.nodes[k]) ELSE s
      BY <2>5, <3>1 DEF Heard
    <3> QED
      BY <3>1, <3>3, <3>4
  <2>7. CASE n \in DOMAIN s.nodes
    <3>1. t = WithCard(s, n, [told.nodes[n] EXCEPT !.pos = s.nodes[n].pos])
      BY <2>6, <2>7 DEF Rewritten
    <3>2. Mirrors(t)'
      BY <1>1, <1>2, <1>5, <1>6, <1>10, <2>3, <2>7, <3>1, EditingIsPainted
    <3> QED
      BY <1>7, <2>1, <2>2, <3>2
  <2>8. CASE n \notin DOMAIN s.nodes
    <3>1. Mirrors(t)'
      BY <1>1, <1>2, <1>5, <1>6, <1>10, <2>3, <2>6, <2>8, EditingIsPainted
    <3> QED
      BY <1>7, <2>1, <2>2, <3>1
  <2> QED
    BY <2>7, <2>8
<1>11. CASE q.op = "moveNode"
  <2>1. PICK m, n, pos : m = q.map /\ n = q.node /\ pos = q.pos
    OBVIOUS
  <2>2. PICK e, t : /\ e = [kind |-> "node.moved", map |-> m, what |-> [node |-> n, pos |-> pos]]
                    /\ t = Heard(s, e)
    OBVIOUS
  <2>3. Events(q) = <<e>>
    BY <1>11, <2>1, <2>2 DEF Events, Event
  <2>4. SetPlacement(m, n, pos, Keep)
    BY <1>1, <1>11, <2>1 DEF Perform
  <2>5. PICK u : u = [s EXCEPT !.nodes[n].pos = pos]
    OBVIOUS
  <2>6. t = IF m = mapId /\ n \in DOMAIN s.nodes THEN u ELSE s
    BY <2>2, <2>5 DEF Heard, Concerns
  <2>7. /\ m = mapId /\ n \in DOMAIN s.nodes => \A x : x = [s EXCEPT !.nodes[n].pos = pos] => Mirrors(x)'
        /\ m # mapId \/ n \notin DOMAIN s.nodes => Mirrors(s)'
    BY <1>5, <2>4, MovedIsPainted
  <2>8. Mirrors(t)'
    BY <2>5, <2>6, <2>7
  <2> QED
    BY <1>7, <2>2, <2>3, <2>8
<1>12. CASE q.op \in {"removeFromMap", "deleteEverywhere"}
  <2>1. PICK e, t : /\ \/ /\ q.op = "removeFromMap"
                          /\ e = [kind |-> "node.removedFromMap", map |-> q.map, what |-> q.node]
                       \/ /\ q.op = "deleteEverywhere"
                          /\ e = [kind |-> "node.deleted", map |-> Nil, what |-> q.node]
                    /\ t = Heard(s, e)
    BY <1>12
  <2>2. Events(q) = <<e>>
    BY <1>12, <2>1 DEF Events, Event
  <2>3. PICK m, n : m = q.map /\ n = q.node
    OBVIOUS
  <2>4. t = DropNode(s, n)
    <3>1. e.kind \in {"node.deleted", "node.removedFromMap"} /\ e.what = n /\ t = Heard(s, e)
      BY <2>1, <2>3
    <3> QED
      BY <3>1 DEF Heard
  <2>5. DeleteNode(n) \/ (RemoveFromMap(m, n) /\ (m = mapId \/ n \notin DOMAIN s.nodes))
    BY <1>1, <1>2, <1>4, <1>12, <2>3 DEF Perform
  <2>6. Mirrors(t)'
    BY <1>5, <2>4, <2>5, RemovedIsPainted
  <2> QED
    BY <1>7, <2>1, <2>2, <2>6
<1>13. CASE q.op = "createEdge"
  <2>1. PICK e, t : e = [kind |-> "edge.created", map |-> q.map, what |-> told] /\ t = Heard(s, e)
    OBVIOUS
  <2>2. Events(q) = <<e>>
    BY <1>6, <1>13, <2>1 DEF Events, Event
  <2>3. PICK u : u = Merged(s, told)
    OBVIOUS
  <2>4. t = IF q.map # mapId THEN s ELSE u
    <3>1. e.kind = "edge.created" /\ e.map = q.map /\ e.what = told /\ t = Heard(s, e)
      BY <2>1
    <3> QED
      BY <2>3, <3>1 DEF Heard, Concerns
  <2>5. (q.map = mapId => Mirrors(u)') /\ (q.map # mapId => Mirrors(s)')
    BY <1>1, <1>5, <1>6, <1>13, <2>3, MergingIsPainted
  <2>6. Mirrors(t)'
    BY <2>4, <2>5
  <2> QED
    BY <1>7, <2>1, <2>2, <2>6
<1>14. CASE q.op = "deleteEdge"
  <2>1. PICK x : x = q.edge
    OBVIOUS
  <2>2. PICK e, t : e = [kind |-> "edge.deleted", map |-> Nil, what |-> x] /\ t = Heard(s, e)
    OBVIOUS
  <2>3. Events(q) = <<e>> /\ DeleteEdge(x)
    BY <1>1, <1>14, <2>1, <2>2 DEF Events, Event, Perform
  <2>4. t = WithoutEdge(s, x)
    <3>1. e.kind = "edge.deleted" /\ e.what = x /\ t = Heard(s, e)
      BY <2>2
    <3> QED
      BY <3>1 DEF Heard
  <2>5. Mirrors(t)'
    BY <1>5, <2>3, <2>4, CutIsPainted
  <2> QED
    BY <1>7, <2>2, <2>3, <2>5
<1>15. CASE q.op \in {"createGroup", "renameGroup"}
  <2>1. PICK m, e, t : /\ e = [kind |-> "group.saved", map |-> m, what |-> told]
                       /\ m = groups'[q.group].map /\ t = Heard(s, e)
    OBVIOUS
  <2>2. Events(q) = <<e>>
    BY <1>6, <1>15, <2>1 DEF Events, Event
  <2>3. PICK u : u = Merged(s, told)
    OBVIOUS
  <2>4. t = IF m # mapId THEN s ELSE u
    <3>1. e.kind = "group.saved" /\ e.map = m /\ e.what = told /\ t = Heard(s, e)
      BY <2>1
    <3> QED
      BY <2>3, <3>1 DEF Heard, Concerns
  <2>5. (m = mapId => Mirrors(u)') /\ (m # mapId => Mirrors(s)')
    BY <1>1, <1>5, <1>6, <1>15, <2>1, <2>3, MergingIsPainted
  <2>6. Mirrors(t)'
    BY <2>4, <2>5
  <2> QED
    BY <1>7, <2>1, <2>2, <2>6
<1>16. CASE q.op = "setGroupMembers" /\ q.ns # {}
  <2>1. PICK g, c, m : g = q.group /\ c = Saved(g)' /\ m = groups'[g].map
    OBVIOUS
  <2>2. PICK said, e, t : /\ said = WithGroup(Nothing, g, c)
                          /\ e = [kind |-> "group.saved", map |-> m, what |-> said]
                          /\ t = Heard(s, e)
    OBVIOUS
  <2>3. Events(q) = <<e>>
    BY <1>16, <2>1, <2>2 DEF Events, Event
  <2>4. PICK u : u = Merged(s, said)
    OBVIOUS
  <2>5. t = IF m # mapId THEN s ELSE u
    <3>1. e.kind = "group.saved" /\ e.map = m /\ e.what = said /\ t = Heard(s, e)
      BY <2>2
    <3> QED
      BY <2>4, <3>1 DEF Heard, Concerns
  <2>6. Saving(g)
    <3>1. g \in DOMAIN groups /\ q.ns # {} /\ SetGroupMembers(q.map, g, q.ns)
      BY <1>1, <1>16, <2>1 DEF Perform
    <3> QED
      BY <1>5, <3>1, WhatIsGrouped
  <2>7. said.nodes = Empty /\ said.edges = {} /\ said.groups = Put(Empty, g, c)
    BY <2>2, NothingToldIs
  <2>8. said.groups = Put(Empty, g, Saved(g)')
    BY <2>1, <2>7
  <2>9. (m = mapId => Mirrors(u)') /\ (m # mapId => Mirrors(s)')
    BY <1>5, <2>1, <2>4, <2>6, <2>7, <2>8, SavedIsPainted
  <2>10. Mirrors(t)'
    BY <2>5, <2>9
  <2> QED
    BY <1>7, <2>2, <2>3, <2>10
<1>17. CASE q.op = "deleteGroup" \/ (q.op = "setGroupMembers" /\ q.ns = {})
  <2>1. PICK g, m : g = q.group /\ m = IF q.op = "deleteGroup" THEN Nil ELSE q.map
    OBVIOUS
  <2>2. PICK e, t : e = [kind |-> "group.deleted", map |-> m, what |-> g] /\ t = Heard(s, e)
    OBVIOUS
  <2>3. Events(q) = <<e>>
    <3>1. Events(q) = Event("group.deleted", m, g)
      BY <1>17, <2>1 DEF Events
    <3> QED
      BY <2>2, <3>1 DEF Event
  <2>4. t = WithoutGroup(s, g)
    <3>1. e.kind = "group.deleted" /\ e.what = g /\ t = Heard(s, e)
      BY <2>2
    <3> QED
      BY <3>1 DEF Heard
  <2>5. DeleteGroup(g) \/ SetGroupMembers(q.map, g, {})
    BY <1>1, <1>17, <2>1 DEF Perform
  <2>6. Ungrouping(g)
    BY <1>5, <2>5, WhatIsGrouped
  <2>7. Mirrors(t)'
    BY <1>5, <2>4, <2>6, UngroupedIsPainted
  <2> QED
    BY <1>7, <2>2, <2>3, <2>7
<1>18. CASE q.op \in {"createMap", "deleteMap"}
  <2>1. PICK m, kind : /\ m = q.map
                       /\ kind = IF q.op = "createMap" THEN "map.created" ELSE "map.deleted"
    OBVIOUS
  <2>2. PICK e : e = [kind |-> kind, map |-> m, what |-> Nil]
    OBVIOUS
  <2>3. Events(q) = <<e>>
    BY <1>18, <2>1, <2>2 DEF Events, Event
  <2>4. s = Heard(s, e)
    <3>1. e.kind \in {"map.created", "map.deleted"}
      BY <2>1, <2>2
    <3> QED
      BY <3>1 DEF Heard
  <2>5. CreateMap(m) \/ (DeleteMap(m) /\ m # mapId)
    BY <1>1, <1>2, <1>18, <2>1 DEF Perform
  <2>6. Mirrors(s)'
    BY <1>5, <2>5, MapsArePainted
  <2> QED
    BY <1>7, <2>3, <2>4, <2>6
<1>19. CASE q.op \in {"bulkUpdate", "moveGroup"}
  <2>1. PICK e : e = [kind |-> "graph.invalidated", map |-> Nil, what |-> Nil]
    OBVIOUS
  <2>2. Events(q) = <<e>>
    BY <1>19, <2>1 DEF Events, Event
  <2>3. inbox' = <<e>>
    BY <1>1, <1>3, <2>2, SingleSeq
  <2>4. HearsOne(e)'
    BY <2>1, <2>3 DEF HearsOne
  <2> QED
    BY <1>3, <2>4 DEF Hearing
<1> QED
  BY <1>1, <1>8, <1>9, <1>10, <1>11, <1>12, <1>13, <1>14, <1>15, <1>16, <1>17, <1>18, <1>19 DEF Perform

LEMMA ElsewhereInStep ==
    ASSUME ScreenInv, NEW q, Elsewhere(q), "graph" \notin off'
    PROVE  Hearing'
<1>1. PICK e : e = [kind |-> "graph.invalidated", map |-> Nil, what |-> Nil]
  OBVIOUS
<1>2. Quiet /\ UNCHANGED inflight /\ inbox' = Append(inbox, e)
  BY <1>1 DEF Elsewhere, Others
<1>3. inbox' = <<e>> /\ Asked' = {}
  BY <1>2, QuietIsEmpty DEF Quiet, Asked
<1>4. HearsOne(e)'
  BY <1>1, <1>3 DEF HearsOne
<1> QED
  BY <1>3, <1>4 DEF Hearing

LEMMA DatabaseKept ==
    ASSUME Database, Next
    PROVE  Database'
<1>1. ASSUME UNCHANGED tables
      PROVE  Database'
  BY <1>1 DEF tables, Database, Placings, Joined, OneId, Named, Placed
<1>2. CASE User
  BY <1>1, <1>2, UserAsks DEF GestureParting
<1>3. ASSUME NEW r, Outcome(r)
      PROVE  Database'
  <2>1. (\E q : Perform(q)) \/ UNCHANGED tables
    BY <1>3 DEF Outcome, Serve, ServeUndo, Refuse, LoseAnswer, Fail
  <2> QED
    BY <1>1, <2>1, DatabaseStep
<1>4. ASSUME NEW r, Settle(r)
      PROVE  Database'
  BY <1>1, <1>4 DEF Settle
<1>5. CASE ApplyEvent
  BY <1>1, <1>5 DEF ApplyEvent
<1>6. ASSUME NEW q, OtherTab(q) \/ Elsewhere(q)
      PROVE  Database'
  BY <1>6, DatabaseStep DEF OtherTab, Elsewhere
<1> QED
  BY <1>2, <1>3, <1>4, <1>5, <1>6 DEF Next

\* While nothing happens, what is under way stays under way.
LEMMA PendingStays ==
    ASSUME Database, Pending, UNCHANGED vars
    PROVE  Pending'
<1>1. /\ UNCHANGED <<tables, mapId, screen, inflight, inbox, off>>
      /\ UNCHANGED <<maps, nodes, places, edges, groups>>
      /\ ("places" \notin off' => "places" \notin off) /\ Asked' = Asked
  BY DEF vars, tab, wire, tables, Asked
<1>2. PICK r : /\ inbox = <<>> /\ Only(r)
               /\ Waits(r) \/ Answered(r) \/ Failed(r) \/ Reading(r)
  BY DEF Pending
<1>3. Only(r)' /\ inbox' = <<>>
  BY <1>1, <1>2 DEF Only
<1>4. PICK now : now = screen
  OBVIOUS
<1>5. CASE Waits(r)
  <2>1. PICK s : Mirrors(s) /\ Asks(r, s) /\ r.state = "waiting"
    BY <1>5 DEF Waits
  <2>2. Mirrors(s)'
    BY <1>1, <2>1, StillMirrors
  <2>3. AsksFirst(r) => AsksFirst(r)'
    BY <1>1 DEF AsksFirst
  <2>4. AsksAfter(r, s) => AsksAfter(r, s)'
    BY <1>1 DEF AsksAfter
  <2>5. Waits(r)'
    BY <1>1, <2>1, <2>2, <2>3, <2>4 DEF Waits, Asks
  <2> QED
    BY <1>3, <2>5 DEF Pending
<1>6. CASE Answered(r)
  <2>1. PICK t : t = Painted(r)
    OBVIOUS
  <2>2. t = Painted(r)'
    BY <1>1, <1>4, <2>1 DEF Painted
  <2>3. Mirrors(t) => Mirrors(Painted(r))'
    BY <1>1, <2>2, StillMirrors, SameMirrors
  <2>4. Answered(r)'
    BY <1>1, <1>6, <2>1, <2>3 DEF Answered, Reloads, Retypes
  <2> QED
    BY <1>3, <2>4 DEF Pending
<1>7. CASE Failed(r)
  <2>1. PICK t : t = PutBack(r)
    OBVIOUS
  <2>2. t = PutBack(r)'
    BY <1>1, <1>4, <2>1 DEF PutBack, RolledBack
  <2>3. Mirrors(t) => Mirrors(PutBack(r))'
    BY <1>1, <2>2, StillMirrors, SameMirrors
  <2>4. Failed(r)'
    BY <1>1, <1>7, <2>1, <2>3 DEF Failed
  <2> QED
    BY <1>3, <2>4 DEF Pending
<1>8. CASE Reading(r)
  <2>1. Reading(r)'
    BY <1>1, <1>8, SameGraph DEF Reading
  <2> QED
    BY <1>3, <2>1 DEF Pending
<1> QED
  BY <1>2, <1>5, <1>6, <1>7, <1>8

LEMMA HearingStays ==
    ASSUME Database, Hearing, UNCHANGED vars
    PROVE  Hearing'
<1>1. /\ UNCHANGED <<tables, mapId, screen, inflight, inbox, off>> /\ Asked' = Asked
      /\ ("places" \notin off' => "places" \notin off)
  BY DEF vars, tab, wire, Asked
<1>2. PICK s : s = screen
  OBVIOUS
<1>3. ASSUME NEW e, HearsOne(e)
      PROVE  HearsOne(e)'
  <2>1. PICK t : t = Heard(s, e)
    OBVIOUS
  <2>2. t = Heard(screen, e)'
    BY <1>1, <1>2, <2>1, HeardAlike
  <2>3. Mirrors(Heard(screen, e)) => Mirrors(t)
    BY <1>2, <2>1
  <2>4. Mirrors(t) => Mirrors(Heard(screen, e))'
    BY <1>1, <2>2, StillMirrors, SameMirrors
  <2> QED
    BY <1>1, <1>3, <2>3, <2>4 DEF HearsOne
<1>4. ASSUME NEW a, NEW b, HearsTwo(a, b)
      PROVE  HearsTwo(a, b)'
  <2>1. PICK t, u : t = Heard(s, a) /\ u = Heard(t, b)
    OBVIOUS
  <2>2. t = Heard(screen, a)'
    BY <1>1, <1>2, <2>1, HeardAlike
  <2>3. u = Heard(Heard(screen, a), b)'
    <3>1. a.kind = "node.transcluded" /\ b.kind = "edge.created"
      BY <1>4 DEF HearsTwo
    <3>2. Heard(screen, a)' = t
      BY <2>2
    <3> QED
      BY <1>1, <2>1, <3>1, <3>2 DEF Heard, Concerns
  <2>4. Mirrors(u)
    BY <1>2, <1>4, <2>1 DEF HearsTwo
  <2>5. Mirrors(u)'
    BY <1>1, <2>4, StillMirrors
  <2>6. Mirrors(Heard(Heard(screen, a), b))'
    BY <2>3, <2>5 DEF Mirrors, Shown, NodesShown, EdgesShown, GroupsShown, PlacesShown
  <2> QED
    BY <1>1, <1>4, <2>6 DEF HearsTwo
<1> QED
  BY <1>1, <1>3, <1>4 DEF Hearing

LEMMA StutterInStep ==
    ASSUME ScreenInv, UNCHANGED vars
    PROVE  ScreenInv'
<1>1. Database'
  BY DEF ScreenInv, vars, tables, Database, Placings, Joined, OneId, Named, Placed
<1>2. FramedInv'
  BY DEF ScreenInv, vars, tab, wire, FramedInv, Wired, Asked
<1>3. Moving => Moving'
  BY DEF vars, tables, tab, wire, Moving, Moves, MovesTo, PlacesComing, Asked, Shown, NodesShown,
     EdgesShown, GroupsShown, GroupsOf, Placed
<1>4. off' = off
  BY DEF vars
<1> QED
  BY <1>1, <1>2, <1>3, <1>4, PendingStays, HearingStays DEF ScreenInv

LEMMA ScreenInvStep ==
    ASSUME ScreenInv, [Next]_vars
    PROVE  ScreenInv'
<1>1. CASE Next
  <2>1. FramedInv' /\ Database'
    BY <1>1, DatabaseKept, FramesKeptByNext DEF ScreenInv
  <2>2. ASSUME "graph" \notin off'
        PROVE  Moving' \/ Pending' \/ Hearing'
    <3>1. CASE User
      BY <2>2, <3>1, UserBegins
    <3>2. ASSUME NEW r \in Asked, Outcome(r)
          PROVE  Moving' \/ Pending'
      <4>1. "graph" \notin off
        BY <2>2, <3>2 DEF Outcome, Serve, ServeUndo, Refuse, LoseAnswer
      <4>2. Moving \/ Pending
        BY <3>2, <4>1 DEF ScreenInv, Hearing
      <4>3. CASE Moving
        BY <2>2, <3>2, <4>3, OutcomeWhenMoving
      <4>4. CASE Pending
        <5>1. /\ inbox = <<>> /\ Only(r)
              /\ Waits(r) \/ Answered(r) \/ Failed(r) \/ Reading(r)
          BY <3>2, <4>4 DEF Pending, Only
        <5> QED
          BY <2>2, <3>2, <5>1, OutcomeWhenPending
      <4> QED
        BY <4>2, <4>3, <4>4
    <3>3. ASSUME NEW r \in Asked, Settle(r)
          PROVE  Moving' \/ Pending'
      <4>1. CASE PutsRight(r)
        BY <3>3, <4>1, GraphIsRight
      <4>2. CASE ~PutsRight(r)
        <5>1. "graph" \notin off
          BY <2>2, <3>3, <4>2 DEF Settle
        <5>2. Moving \/ Pending
          BY <3>3, <5>1 DEF ScreenInv, Hearing
        <5>3. CASE Moving
          BY <3>3, <5>3, SettleWhenMoving
        <5>4. CASE Pending
          <6>1. /\ inbox = <<>> /\ Only(r)
                /\ Waits(r) \/ Answered(r) \/ Failed(r) \/ Reading(r)
            BY <3>3, <5>4 DEF Pending, Only
          <6> QED
            BY <3>3, <4>2, <6>1, SettleWhenPending
        <5> QED
          BY <5>2, <5>3, <5>4
      <4> QED
        BY <4>1, <4>2
    <3>4. CASE ApplyEvent
      BY <2>2, <3>4, ReadingInStep
    <3>5. ASSUME NEW q, OtherTab(q) \/ Elsewhere(q)
          PROVE  Hearing'
      BY <2>2, <3>5, OthersInStep, ElsewhereInStep
    <3> QED
      BY <1>1, <3>1, <3>2, <3>3, <3>4, <3>5 DEF Next
  <2> QED
    BY <2>1, <2>2 DEF ScreenInv
<1>2. CASE UNCHANGED vars
  BY <1>2, StutterInStep
<1> QED
  BY <1>1, <1>2

LEMMA ScreenInvAtFirst == Init => ScreenInv
<1> SUFFICES ASSUME Init PROVE ScreenInv
  OBVIOUS
<1>1. PICK r : r = Request("bootstrap", ListCall, Nothing)
  OBVIOUS
<1>2. r.by = "bootstrap" /\ r.do = ListCall /\ r.state = "waiting"
  BY <1>1, RequestIs
<1>3. inflight = SetToBag({r}) /\ inbox = <<>> /\ mapId = Nil /\ screen = Nothing
  BY <1>1 DEF Init, Ask, Keeping
<1>4. Wired
  BY PickerInvAtFirst DEF PickerInv
<1>5. Only(r)
  BY <1>3, <1>4, OnlyIsBag
<1>6. FramedInv
  BY <1>2, <1>3, <1>4, <1>5, ServedFrames DEF FramedInv, Only
<1>7. Mirrors(screen)
  BY <1>3, <1>6 DEF FramedInv, Mirrors
<1>8. AsksFirst(r)
  BY <1>2 DEF AsksFirst, ListAsks, ListCall
<1>9. Pending
  BY <1>2, <1>3, <1>5, <1>7, <1>8 DEF Pending, Waits, Asks
<1> QED
  BY <1>6, <1>9, DatabaseAtFirst DEF ScreenInv

\* ScreenInStep: once everything the tab asked for is settled and every event is
\* read, its screen shows the cards, the links and the groups the tables hold for
\* the open map, and the cards in their places: whatever it drew before the server
\* answered, merged, rolled back, heard of or loaded again came to what the server
\* did.  Not while changes overlapped, a read failed or nobody told of a change.
THEOREM ScreenFollows == Spec => []ScreenInStep
<1>1. ScreenInv => ScreenInStep
  <2> SUFFICES ASSUME ScreenInv, Quiet, "graph" \notin off
               PROVE  ScreenInStep
    BY DEF ScreenInStep
  <2>1. Asked = {} /\ inbox = <<>>
    BY QuietIsEmpty DEF Quiet
  <2> QED
    BY <2>1, QuietMirrors, MirrorsIsInStep DEF ScreenInv
<1>2. ScreenInv /\ [Next]_vars => ScreenInv'
  BY ScreenInvStep
<1> QED
  BY <1>1, <1>2, ScreenInvAtFirst, PTL DEF Spec
=============================================================================
