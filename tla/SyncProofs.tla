----------------------------- MODULE SyncProofs ----------------------------
(***************************************************************************)
(* Every phone hears of every commit, for any number of tabs, sockets and  *)
(* commits and for buffers of any size: what a full buffer loses, another  *)
(* event that is still in it makes up for.                                 *)
(***************************************************************************)
EXTENDS Sync, SequenceTheorems, TLAPS

\* The events there can be about the first n versions.
About(n) == {Hello, Invalidated} \cup {Updated(v) : v \in 0..n}

\* SyncTypeOK, strengthened: nothing tells of a version that is not there yet.
Typed ==
    /\ SyncTypeOK
    /\ events \in Seq(About(db))
    /\ send \in [Conn -> Seq(About(db))]
    /\ outside <= db

\* A socket that its tab has not come to yet is untouched.
Ahead == \A t \in Tab : \A k \in 1..MaxConns : k > attempt[t] => stage[<<t, k>>] = "new"

\* A tab whose socket works, and the hub knows it.
Connected(t) == ConnOf(t) \in clients /\ stage[ConnOf(t)] = "open"

\* The newest version has reached the tab, or is being brought to it; or an
\* event is under way, or due, that will make it ask; or it is not connected,
\* and will be greeted.
Informed(t) ==
    \/ seen[t] = db \/ db \in answers[t] \/ asked[t] > 0
    \/ publishing # {} \/ outside # known \/ events # <<>>
    \/ ~ Connected(t)
    \/ send[ConnOf(t)] # <<>>

SyncInv == Typed /\ Ahead /\ \A t \in Phone : Informed(t)

-----------------------------------------------------------------------------
(* Messages, buffers and sockets. *)

LEMMA LargerOfTwo ==
    ASSUME NEW a \in Nat, NEW b \in Nat
    PROVE  Max({a, b}) = IF a >= b THEN a ELSE b
<1>1. \A x \in {a, b} : (\A y \in {a, b} : x >= y) <=> x = (IF a >= b THEN a ELSE b)
  OBVIOUS
<1>2. \E x \in {a, b} : \A y \in {a, b} : x >= y
  BY <1>1
<1> QED
  BY <1>1, <1>2 DEF Max

LEMMA SeqGrows ==
    ASSUME NEW S, NEW T, S \subseteq T, NEW s \in Seq(S)
    PROVE  s \in Seq(T)
OBVIOUS

\* Whatever is in a buffer stays right as versions are added.
LEMMA AboutMore ==
    ASSUME NEW m \in Nat, NEW n \in Nat, m <= n
    PROVE  /\ About(m) \subseteq About(n)
           /\ Seq(About(m)) \subseteq Seq(About(n))
<1>1. 0..m \subseteq 0..n
  OBVIOUS
<1>2. About(m) \subseteq About(n)
  BY <1>1 DEF About
<1> QED
  BY <1>2, SeqGrows

LEMMA AboutAll == About(MaxCommits) = Message
BY DEF About, Message, Version

LEMMA VersionOfAbout ==
    ASSUME NEW n \in Nat, NEW m \in About(n)
    PROVE  m.type = "node.updated" => m.version \in 0..n
BY DEF About, Hello, Invalidated, Updated

LEMMA ConnOfIsConn ==
    ASSUME Typed, NEW t \in Tab
    PROVE  ConnOf(t) \in Conn
BY ConnsAreTabs DEF Typed, SyncTypeOK, ConnOf

\* With room for one event at least, publishing leaves something to fan out.
LEMMA BufferedKeeps ==
    ASSUME Typed, NEW m \in About(db)
    PROVE  /\ Buffered(m) \in Seq(About(db))
           /\ Len(Buffered(m)) <= EventsCap
           /\ Buffered(m) # <<>>
<1>1. events \in Seq(About(db)) /\ Len(events) \in Nat /\ Len(events) <= EventsCap
  BY DEF Typed, SyncTypeOK
<1>2. CASE Len(events) < EventsCap
  <2>1. Buffered(m) = Append(events, m)
    BY <1>2 DEF Buffered
  <2>2. Append(events, m) \in Seq(About(db)) /\ Len(Append(events, m)) = Len(events) + 1
    BY <1>1
  <2> QED
    BY <2>1, <2>2, <1>1, <1>2, BuffersHaveRoom, EmptySeq
<1>3. CASE ~ (Len(events) < EventsCap)
  BY <1>1, <1>3, BuffersHaveRoom, EmptySeq DEF Buffered
<1> QED
  BY <1>2, <1>3

-----------------------------------------------------------------------------
(* Types. *)

\* The three parts of Typed, by what they are about.
TypedHub ==
    /\ stage \in [Conn -> {"new", "joining", "open", "cut", "closed"}]
    /\ clients \subseteq Conn /\ dropped \subseteq clients
    /\ events \in Seq(About(db)) /\ Len(events) <= EventsCap
    /\ send \in [Conn -> Seq(About(db))]
    /\ \A c \in Conn : Len(send[c]) <= SendCap

TypedServer ==
    /\ db \in Version /\ outside \in 0..db /\ known \in 0..outside
    /\ publishing \subseteq 1..db

TypedTabs ==
    /\ attempt \in [Tab -> 1..MaxConns]
    /\ asked \in [Tab -> Nat]
    /\ answers \in [Tab -> SUBSET (0..db)]
    /\ view \in [Tab -> 0..db] /\ seen \in [Tab -> 0..db]

LEMMA TypedInParts == Typed <=> TypedHub /\ TypedServer /\ TypedTabs
<1>1. ASSUME Typed PROVE TypedHub /\ TypedServer /\ TypedTabs
  BY <1>1, SomeSocket DEF Typed, SyncTypeOK, TypedHub, TypedServer, TypedTabs, Version
<1>2. ASSUME TypedHub, TypedServer, TypedTabs PROVE Typed
  <2>1. db \in Nat /\ db <= MaxCommits /\ outside \in Version
    BY <1>2, SomeSocket DEF TypedServer, Version
  <2>2. Seq(About(db)) \subseteq Seq(Message)
    BY <2>1, AboutMore, AboutAll, SomeSocket
  <2> QED
    BY <1>2, <2>1, <2>2 DEF Typed, SyncTypeOK, TypedHub, TypedServer, TypedTabs
<1> QED
  BY <1>1, <1>2

LEMMA TypedNext == TypedHub' /\ TypedServer' /\ TypedTabs' => Typed'
BY TypedInParts, PTL

LEMMA InitTyped == InitSync => Typed
<1> SUFFICES ASSUME InitSync PROVE TypedHub /\ TypedServer /\ TypedTabs
  BY TypedInParts
<1>1. TypedHub
  BY BuffersHaveRoom, EmptySeq DEF InitSync, InitHub, TypedHub
<1>2. TypedServer /\ TypedTabs
  BY SomeSocket DEF InitSync, TypedServer, TypedTabs, Version
<1> QED
  BY <1>1, <1>2

\* A commit: everything that was right about fewer versions is about more.
LEMMA CommitKeepsTypes ==
    ASSUME Typed, db < MaxCommits, db' = db + 1, UNCHANGED <<hub, known, tabs>>,
           \/ outside' = outside /\ publishing' = publishing \cup {db + 1}
           \/ outside' = outside + 1 /\ publishing' = publishing
    PROVE  Typed'
<1> USE TypedInParts, TypedNext
<1>0. /\ TypedHub /\ TypedServer /\ TypedTabs
      /\ db \in Nat /\ db' \in Nat /\ db <= db' /\ db' <= MaxCommits
      /\ outside \in Nat /\ known \in Nat
  BY SomeSocket DEF TypedServer, Version
<1>1. Seq(About(db)) \subseteq Seq(About(db')) /\ 0..db \subseteq 0..db' /\ 1..db \subseteq 1..db'
  BY <1>0, AboutMore
<1>2. TypedHub'
  BY <1>0, <1>1 DEF TypedHub, hub
<1>3. TypedServer'
  <2>1. db' \in Version /\ outside' \in 0..db' /\ known' \in 0..outside'
    BY <1>0, SomeSocket DEF TypedServer, Version
  <2>2. publishing \subseteq 1..db' /\ db + 1 \in 1..db'
    BY <1>0, <1>1 DEF TypedServer
  <2> QED
    BY <2>1, <2>2 DEF TypedServer
<1>4. TypedTabs'
  BY <1>0, <1>1 DEF TypedTabs, tabs
<1> QED
  BY <1>2, <1>3, <1>4

\* The server announces: Publish and Poll.
LEMMA AnnounceKeepsTypes ==
    ASSUME Typed, NEW m \in About(db), events' = Buffered(m), known' = outside,
           publishing' \subseteq publishing,
           UNCHANGED <<stage, clients, dropped, send, db, outside, tabs>>
    PROVE  Typed'
<1> USE TypedInParts, TypedNext
<1>1. TypedHub'
  BY BufferedKeeps DEF TypedHub
<1>2. TypedServer' /\ TypedTabs'
  BY SomeSocket DEF TypedServer, TypedTabs, tabs, Version
<1> QED
  BY <1>1, <1>2

\* The hub's own steps.
LEMMA HubKeepsTypes ==
    ASSUME Typed, UNCHANGED <<server, tabs>>,
           \/ FanOut
           \/ \E c \in Conn : \/ Upgrade(c) \/ Register(c, Hello) \/ Deliver(c)
                              \/ Cut(c) \/ Close(c) \/ Unregister(c)
    PROVE  Typed'
<1> USE TypedInParts, TypedNext
<1>1. TypedServer' /\ TypedTabs' /\ db' = db
  BY DEF TypedServer, TypedTabs, server, tabs
<1>2. TypedHub /\ \A c \in Conn : send[c] \in Seq(About(db)) /\ Len(send[c]) \in Nat
  BY DEF TypedHub
<1>3. ASSUME FanOut PROVE TypedHub'
  <2>1. /\ Head(events) \in About(db)
        /\ Tail(events) \in Seq(About(db)) /\ Len(Tail(events)) <= EventsCap
    BY <1>2, <1>3, BuffersHaveRoom, HeadTailProperties DEF FanOut, TypedHub
  <2>2. ASSUME NEW c \in Conn
        PROVE  LET s == IF c \in clients /\ Len(send[c]) < SendCap
                        THEN Append(send[c], Head(events)) ELSE send[c]
               IN  s \in Seq(About(db)) /\ Len(s) <= SendCap
    BY <1>2, <2>1, BuffersHaveRoom, AppendProperties DEF TypedHub
  <2>3. /\ send' \in [Conn -> Seq(About(db))]
        /\ \A c \in Conn : Len(send'[c]) <= SendCap
    BY <1>3, <2>2 DEF FanOut
  <2>4. clients' \subseteq Conn /\ dropped' \subseteq clients'
    BY <1>2, <1>3 DEF FanOut, TypedHub
  <2> QED
    BY <1>1, <1>2, <1>3, <2>1, <2>3, <2>4 DEF FanOut, TypedHub
<1>4. ASSUME NEW c \in Conn, Register(c, Hello) PROVE TypedHub'
  <2>1. Hello \in About(db)
    BY DEF About
  <2> QED
    BY <1>1, <1>2, <1>4, <2>1, BufferedKeeps DEF Register, TypedHub
<1>5. ASSUME NEW c \in Conn, Deliver(c) PROVE TypedHub'
  <2>1. Tail(send[c]) \in Seq(About(db)) /\ Len(Tail(send[c])) <= SendCap
    BY <1>2, <1>5, BuffersHaveRoom, HeadTailProperties DEF Deliver, TypedHub
  <2> QED
    BY <1>1, <1>2, <1>5, <2>1 DEF Deliver, TypedHub
<1>6. ASSUME NEW c \in Conn, Upgrade(c) \/ Cut(c) \/ Close(c) PROVE TypedHub'
  BY <1>1, <1>2, <1>6 DEF Upgrade, Cut, Close, TypedHub
<1>7. ASSUME NEW c \in Conn, Unregister(c) PROVE TypedHub'
  BY <1>1, <1>2, <1>7, BuffersHaveRoom, EmptySeq DEF Unregister, TypedHub
<1> QED
  BY <1>1, <1>3, <1>4, <1>5, <1>6, <1>7

\* What a browser does with an event, an answer or a socket that has closed.
LEMMA BrowserKeepsTypes ==
    ASSUME Typed, NEW t \in Tab,
           Receive(t) \/ Answer(t) \/ Reconnect(t) \/ \E v \in Version : Apply(t, v)
    PROVE  Typed'
<1> USE TypedInParts, TypedNext
<1>0. /\ TypedHub /\ TypedServer /\ TypedTabs /\ db \in Nat
      /\ seen[t] \in Nat /\ seen[t] <= db /\ view[t] \in 0..db
  BY SomeSocket DEF TypedServer, TypedTabs, Version
<1>1. TypedServer' /\ db' = db
  BY <1>0 DEF TypedServer, Receive, Answer, Reconnect, Apply, server
<1>2. CASE Receive(t)
  <2> DEFINE c == ConnOf(t)  m == Head(send[c])
  <2>1. /\ c \in Conn /\ send[c] \in Seq(About(db)) /\ send[c] # <<>> /\ Len(send[c]) <= SendCap
        /\ m \in About(db) /\ Tail(send[c]) \in Seq(About(db)) /\ Len(Tail(send[c])) <= SendCap
    BY <1>0, <1>2, ConnOfIsConn, BuffersHaveRoom, HeadTailProperties
       DEF Receive, Deliver, TypedHub
  <2>2. Shown(t, m) \in 0..db
    BY <1>0, <2>1, VersionOfAbout DEF Shown
  <2>3. Max({seen[t], Shown(t, m)}) \in 0..db
    BY <1>0, <2>2, LargerOfTwo
  <2>4. TypedHub'
    BY <1>0, <1>1, <1>2, <2>1 DEF Receive, Deliver, TypedHub
  <2>5. TypedTabs'
    BY <1>0, <1>1, <1>2, <2>2, <2>3 DEF Receive, TypedTabs
  <2> QED
    BY <1>1, <2>4, <2>5
<1>3. CASE Answer(t)
  BY <1>0, <1>1, <1>3 DEF Answer, TypedHub, TypedTabs, hub
<1>4. CASE Reconnect(t)
  BY <1>0, <1>1, <1>4, SomeSocket DEF Reconnect, TypedHub, TypedTabs, hub
<1>5. CASE \E v \in Version : Apply(t, v)
  <2>1. PICK v \in Version : Apply(t, v)
    BY <1>5
  <2>2. v \in 0..db
    BY <1>0, <2>1 DEF Apply, TypedTabs
  <2>3. Max({seen[t], v}) \in 0..db
    BY <1>0, <2>2, LargerOfTwo
  <2> QED
    BY <1>0, <1>1, <2>1, <2>2, <2>3 DEF Apply, TypedHub, TypedTabs, hub
<1> QED
  BY <1>2, <1>3, <1>4, <1>5

LEMMA TypedStep == SyncInv /\ [Next]_vars => Typed'
<1> SUFFICES ASSUME Typed, [Next]_vars PROVE Typed'
  BY DEF SyncInv
<1> USE DEF Typed
<1>1. CASE Commit
  BY <1>1, CommitKeepsTypes DEF Commit
<1>2. CASE CommitOutside
  BY <1>2, CommitKeepsTypes DEF CommitOutside
<1>3. CASE Poll
  <2>1. Invalidated \in About(db)
    BY DEF About
  <2> QED
    BY <1>3, <2>1, AnnounceKeepsTypes DEF Poll
<1>4. ASSUME NEW v \in Version, Publish(v) PROVE Typed'
  <2>1. v \in 0..db
    BY <1>4, SomeSocket DEF Publish, SyncTypeOK, Version
  <2>2. Updated(v) \in About(db)
    BY <2>1 DEF About
  <2> QED
    BY <1>4, <2>2, AnnounceKeepsTypes DEF Publish
<1>5. CASE HubStep
  BY <1>5, HubKeepsTypes DEF HubStep, Fan, Shut, Leave
<1>6. ASSUME NEW t \in Tab, Dial(t) \/ Greet(t) \/ Fail(t) PROVE Typed'
  BY <1>6, ConnOfIsConn, HubKeepsTypes DEF Dial, Greet, Fail
<1>7. ASSUME NEW t \in Tab, Receive(t) \/ Reconnect(t) \/ Answer(t) \/ \E v \in Version : Apply(t, v)
      PROVE  Typed'
  BY <1>7, BrowserKeepsTypes
<1>8. CASE UNCHANGED vars
  BY <1>8 DEF vars, hub, server, tabs, SyncTypeOK, ConnOf
<1> QED
  BY <1>1, <1>2, <1>3, <1>4, <1>5, <1>6, <1>7, <1>8 DEF Next, TabStep

-----------------------------------------------------------------------------
(* Sockets to come. *)

LEMMA AheadStep == SyncInv /\ [Next]_vars => Ahead'
<1> SUFFICES ASSUME Typed, Ahead, [Next]_vars PROVE Ahead'
  BY DEF SyncInv
<1>0. /\ attempt \in [Tab -> 1..MaxConns]
      /\ stage \in [Conn -> {"new", "joining", "open", "cut", "closed"}]
  BY DEF Typed, SyncTypeOK
<1>1. ASSUME NEW t \in Tab, Dial(t) \/ Greet(t) \/ Receive(t) \/ Fail(t), attempt' = attempt
      PROVE  Ahead'
  <2>1. \A u \in Tab : \A k \in 1..MaxConns : k > attempt[u] =>
           <<u, k>> # ConnOf(t) /\ <<u, k>> \in Conn
    BY <1>0, SomeSocket, ConnsAreTabs DEF ConnOf
  <2>2. \A c \in Conn : c # ConnOf(t) => stage'[c] = stage[c]
    BY <1>0, <1>1 DEF Dial, Greet, Receive, Fail, Upgrade, Register, Deliver, Cut
  <2> QED
    BY <1>1, <2>1, <2>2 DEF Ahead
<1>2. ASSUME NEW t \in Tab, Reconnect(t) PROVE Ahead'
  <2>1. \A u \in Tab : attempt'[u] \in Nat /\ attempt'[u] >= attempt[u]
    BY <1>0, <1>2, SomeSocket DEF Reconnect
  <2>2. stage' = stage
    BY <1>2 DEF Reconnect, hub
  <2> QED
    BY <1>0, <2>1, <2>2, SomeSocket DEF Ahead
<1>3. ASSUME NEW c \in Conn, Shut(c) PROVE Ahead'
  BY <1>0, <1>3, ConnsAreTabs DEF Ahead, Shut, Close, tabs
<1>4. ASSUME UNCHANGED <<stage, attempt>> PROVE Ahead'
  BY <1>4 DEF Ahead
<1>5. ASSUME NEW t \in Tab, Answer(t) \/ \E v \in Version : Apply(t, v) PROVE UNCHANGED <<stage, attempt>>
  BY <1>5 DEF Answer, Apply, hub
<1>6. ASSUME NEW c \in Conn, Leave(c) PROVE UNCHANGED <<stage, attempt>>
  BY <1>6 DEF Leave, Unregister, tabs
<1>7. ASSUME \/ Commit \/ CommitOutside \/ Poll \/ Fan \/ UNCHANGED vars
             \/ \E v \in Version : Publish(v)
      PROVE  UNCHANGED <<stage, attempt>>
  BY <1>7 DEF Commit, CommitOutside, Poll, Publish, Fan, FanOut, vars, hub, tabs
<1>8. \A t \in Tab : Dial(t) \/ Greet(t) \/ Receive(t) \/ Fail(t) => attempt' = attempt
  BY DEF Dial, Greet, Receive, Fail, tabs
<1> QED
  BY <1>1, <1>2, <1>3, <1>4, <1>5, <1>6, <1>7, <1>8 DEF Next, HubStep, TabStep

-----------------------------------------------------------------------------
(* Hearing of what is committed. *)

\* A step of the server or the hub, as a phone's screen sees it.
LEMMA ServerKeepsInformed ==
    ASSUME SyncInv, NEW t \in Phone, UNCHANGED tabs,
           \/ Commit \/ CommitOutside \/ Poll \/ \E v \in Version : Publish(v)
    PROVE  Informed(t)'
<1>0. Typed /\ Informed(t) /\ t \in Tab /\ ConnOf(t)' = ConnOf(t)
  BY DEF SyncInv, Tab, tabs, ConnOf
<1>1. CASE Commit
  BY <1>1 DEF Commit, Informed
<1>2. CASE CommitOutside
  <2>1. outside' # known'
    BY <1>0, <1>2, SomeSocket DEF CommitOutside, Typed, SyncTypeOK, Version
  <2> QED
    BY <2>1 DEF Informed
<1>3. CASE Poll
  <2>1. Invalidated \in About(db)
    BY DEF About
  <2>2. events' # <<>>
    BY <1>0, <1>3, <2>1, BufferedKeeps DEF Poll
  <2> QED
    BY <2>2 DEF Informed
<1>4. CASE \E v \in Version : Publish(v)
  <2>1. PICK v \in Version : Publish(v)
    BY <1>4
  <2>2. v \in 0..db
    BY <1>0, <2>1, SomeSocket DEF Publish, Typed, SyncTypeOK, Version
  <2>3. Updated(v) \in About(db)
    BY <2>2 DEF About
  <2>4. events' # <<>>
    BY <1>0, <2>1, <2>3, BufferedKeeps DEF Publish
  <2> QED
    BY <2>4 DEF Informed
<1> QED
  BY <1>1, <1>2, <1>3, <1>4

\* The hub takes an event out of its buffer: a phone it knows has it in its
\* own, or has a full buffer, which will make it ask as well.
LEMMA HubKeepsInformed ==
    ASSUME SyncInv, NEW t \in Phone, HubStep
    PROVE  Informed(t)'
<1>0. /\ Typed /\ Informed(t) /\ t \in Tab /\ UNCHANGED <<server, tabs>>
      /\ ConnOf(t)' = ConnOf(t) /\ ConnOf(t) \in Conn
  BY ConnOfIsConn DEF SyncInv, Tab, HubStep, Fan, Shut, Leave, tabs, ConnOf
<1>1. CASE Fan
  <2>1. CASE ConnOf(t) \in clients
    <3>1. send[ConnOf(t)] \in Seq(About(db)) /\ Len(send[ConnOf(t)]) \in Nat
      BY <1>0 DEF Typed
    <3>2. send'[ConnOf(t)] # <<>>
      <4>1. CASE Len(send[ConnOf(t)]) < SendCap
        <5>1. Head(events) \in About(db)
          BY <1>0, <1>1, HeadTailProperties DEF Fan, FanOut, Typed
        <5> QED
          BY <1>0, <1>1, <2>1, <3>1, <4>1, <5>1, AppendProperties DEF Fan, FanOut
      <4>2. CASE ~ (Len(send[ConnOf(t)]) < SendCap)
        BY <1>0, <1>1, <2>1, <3>1, <4>2, BuffersHaveRoom, EmptySeq DEF Fan, FanOut
      <4> QED
        BY <4>1, <4>2
    <3> QED
      BY <1>0, <3>2 DEF Informed
  <2>2. CASE ConnOf(t) \notin clients
    BY <1>0, <1>1, <2>2 DEF Fan, FanOut, Informed, Connected
  <2> QED
    BY <2>1, <2>2
<1>2. ASSUME NEW c \in Conn, Shut(c) PROVE Informed(t)'
  <2>1. /\ UNCHANGED <<clients, events, send>>
        /\ stage' = [stage EXCEPT ![c] = "closed"]
    BY <1>2 DEF Shut, Close
  <2>2. Connected(t)' => Connected(t)
    BY <1>0, <2>1 DEF Connected, Typed, SyncTypeOK
  <2> QED
    BY <1>0, <2>1, <2>2 DEF Informed, server, tabs
<1>3. ASSUME NEW c \in Conn, Leave(c) PROVE Informed(t)'
  <2>1. /\ UNCHANGED <<stage, events>> /\ clients' \subseteq clients
        /\ stage[c] = "closed" /\ send' = [send EXCEPT ![c] = <<>>]
    BY <1>3 DEF Leave, Unregister
  <2>2. Connected(t)' => Connected(t) /\ send'[ConnOf(t)] = send[ConnOf(t)]
    BY <1>0, <2>1 DEF Connected, Typed
  <2> QED
    BY <1>0, <2>1, <2>2 DEF Informed, server, tabs
<1> QED
  BY <1>1, <1>2, <1>3 DEF HubStep

\* A step of one tab.  A phone that receives anything asks; one that is
\* answered is answered with the newest; one that applies the newest has
\* seen it.
LEMMA TabKeepsInformed ==
    ASSUME SyncInv, NEW t \in Phone, NEW u \in Tab, TabStep(u) \/ Fail(u)
    PROVE  Informed(t)'
<1>0. /\ Typed /\ Ahead /\ Informed(t) /\ t \in Tab /\ UNCHANGED server
      /\ ConnOf(t) \in Conn /\ ConnOf(u) \in Conn /\ db \in Nat
      /\ u # t => ConnOf(u) # ConnOf(t)
  <2>1. Typed /\ Ahead /\ Informed(t) /\ t \in Tab
    BY DEF SyncInv, Tab
  <2>2. UNCHANGED server
    BY DEF TabStep, Fail, Dial, Greet, Receive, Reconnect, Answer, Apply
  <2>3. db \in Nat
    BY <2>1, SomeSocket DEF Typed, SyncTypeOK, Version
  <2>4. u # t => ConnOf(u) # ConnOf(t)
    BY DEF ConnOf
  <2> QED
    BY <2>1, <2>2, <2>3, <2>4, ConnOfIsConn
<1>1. CASE Dial(u)
  <2>1. /\ UNCHANGED <<clients, events, send, server, tabs>>
        /\ stage' = [stage EXCEPT ![ConnOf(u)] = "joining"]
    BY <1>1 DEF Dial, Upgrade
  <2>2. ConnOf(t)' = ConnOf(t) /\ (Connected(t)' => Connected(t))
    BY <1>0, <2>1 DEF Connected, Typed, SyncTypeOK, tabs, ConnOf
  <2> QED
    BY <1>0, <2>1, <2>2 DEF Informed, server, tabs
<1>2. CASE Greet(u)
  <2>1. Hello \in About(db)
    BY DEF About
  <2>2. events' # <<>>
    BY <1>0, <1>2, <2>1, BufferedKeeps DEF Greet, Register
  <2> QED
    BY <2>2 DEF Informed
<1>3. CASE Fail(u)
  <2>1. /\ UNCHANGED <<clients, events, send, server, tabs>>
        /\ stage' = [stage EXCEPT ![ConnOf(u)] = "cut"]
    BY <1>3 DEF Fail, Cut
  <2>2. ConnOf(t)' = ConnOf(t) /\ (Connected(t)' => Connected(t))
    BY <1>0, <2>1 DEF Connected, Typed, SyncTypeOK, tabs, ConnOf
  <2> QED
    BY <1>0, <2>1, <2>2 DEF Informed, server, tabs
<1>4. CASE Receive(u)
  <2>1. CASE u = t
    <3>1. asked'[t] > 0
      BY <1>0, <1>4, <2>1 DEF Receive, Refetches, Typed, SyncTypeOK
    <3> QED
      BY <3>1 DEF Informed
  <2>2. CASE u # t
    <3>1. /\ UNCHANGED <<clients, events, stage, server, attempt, answers>>
          /\ send' = [send EXCEPT ![ConnOf(u)] = Tail(@)]
          /\ asked'[t] = asked[t] /\ seen'[t] = seen[t]
      BY <1>0, <1>4, <2>2 DEF Receive, Deliver, Typed, SyncTypeOK
    <3>2. ConnOf(t)' = ConnOf(t) /\ send'[ConnOf(t)] = send[ConnOf(t)]
      BY <1>0, <2>2, <3>1 DEF Typed, ConnOf
    <3> QED
      BY <1>0, <3>1, <3>2 DEF Informed, Connected, server
  <2> QED
    BY <2>1, <2>2
<1>5. CASE Reconnect(u)
  <2>1. /\ UNCHANGED <<hub, server, asked, answers, seen>>
        /\ attempt' = [attempt EXCEPT ![u] = @ + 1] /\ attempt[u] < MaxConns
    BY <1>5 DEF Reconnect
  <2>2. CASE u = t
    <3>1. attempt'[t] = attempt[t] + 1 /\ attempt[t] + 1 \in 1..MaxConns /\ attempt[t] \in Nat
      BY <1>0, <2>1, <2>2, SomeSocket DEF Typed, SyncTypeOK
    <3>2. stage'[ConnOf(t)'] = "new"
      BY <1>0, <2>1, <3>1 DEF Ahead, ConnOf, hub
    <3> QED
      BY <3>2 DEF Informed, Connected
  <2>3. CASE u # t
    <3>1. ConnOf(t)' = ConnOf(t)
      BY <1>0, <2>1, <2>3 DEF Typed, SyncTypeOK, ConnOf
    <3> QED
      BY <1>0, <2>1, <3>1 DEF Informed, Connected, server, hub
  <2> QED
    BY <2>2, <2>3
<1>6. CASE Answer(u)
  <2>1. /\ UNCHANGED <<hub, server, attempt, seen>>
        /\ asked' = [asked EXCEPT ![u] = @ - 1]
        /\ answers' = [answers EXCEPT ![u] = @ \cup {db}]
    BY <1>6 DEF Answer
  <2>2. ConnOf(t)' = ConnOf(t)
    BY <2>1 DEF ConnOf
  <2>3. CASE u = t
    BY <1>0, <2>1, <2>3 DEF Informed, Typed, SyncTypeOK, server
  <2>4. CASE u # t
    <3>1. asked'[t] = asked[t] /\ answers'[t] = answers[t]
      BY <1>0, <2>1, <2>4 DEF Typed, SyncTypeOK
    <3> QED
      BY <1>0, <2>1, <2>2, <3>1 DEF Informed, Connected, server, hub
  <2> QED
    BY <2>3, <2>4
<1>7. ASSUME NEW v \in Version, Apply(u, v) PROVE Informed(t)'
  <2>1. /\ UNCHANGED <<hub, server, attempt, asked>>
        /\ answers' = [answers EXCEPT ![u] = @ \ {v}] /\ v \in answers[u]
        /\ seen' = [seen EXCEPT ![u] = Max({@, v})]
    BY <1>7 DEF Apply
  <2>2. ConnOf(t)' = ConnOf(t)
    BY <2>1 DEF ConnOf
  <2>3. CASE u = t
    <3>1. seen[t] \in 0..db /\ v \in 0..db
      <4>1. seen \in [Tab -> 0..db] /\ answers \in [Tab -> SUBSET (0..db)]
        BY <1>0 DEF Typed, SyncTypeOK
      <4>2. answers[t] \in SUBSET (0..db) /\ v \in answers[t]
        BY <1>0, <2>1, <2>3, <4>1
      <4>3. seen[t] \in 0..db
        BY <1>0, <4>1
      <4> QED
        BY <4>2, <4>3
    <3>2. seen'[t] = IF seen[t] >= v THEN seen[t] ELSE v
      <4>1. seen[t] \in Nat /\ v \in Nat
        BY <1>0, <3>1
      <4>2. seen'[t] = Max({seen[t], v})
        BY <1>0, <2>1, <2>3 DEF Typed, SyncTypeOK
      <4> QED
        BY <4>1, <4>2, LargerOfTwo
    <3>3. (seen[t] = db => seen'[t] = db) /\ (v = db => seen'[t] = db)
      BY <3>1, <3>2, <1>0
    <3>4. v # db => (db \in answers[t] => db \in answers'[t])
      BY <1>0, <2>1, <2>3 DEF Typed, SyncTypeOK
    <3> QED
      BY <1>0, <2>1, <2>2, <3>3, <3>4 DEF Informed, Connected, server, hub
  <2>4. CASE u # t
    <3>1. seen'[t] = seen[t] /\ answers'[t] = answers[t]
      BY <1>0, <2>1, <2>4 DEF Typed, SyncTypeOK
    <3> QED
      BY <1>0, <2>1, <2>2, <3>1 DEF Informed, Connected, server, hub
  <2> QED
    BY <2>3, <2>4
<1> QED
  BY <1>1, <1>2, <1>3, <1>4, <1>5, <1>6, <1>7 DEF TabStep

LEMMA InformedStep == SyncInv /\ [Next]_vars => \A t \in Phone : Informed(t)'
<1> SUFFICES ASSUME SyncInv, [Next]_vars, NEW t \in Phone PROVE Informed(t)'
  OBVIOUS
<1>1. CASE Commit \/ CommitOutside \/ Poll \/ \E v \in Version : Publish(v)
  <2>1. UNCHANGED tabs
    BY <1>1 DEF Commit, CommitOutside, Poll, Publish
  <2> QED
    BY <1>1, <2>1, ServerKeepsInformed
<1>2. CASE UNCHANGED vars
  BY <1>2 DEF SyncInv, Informed, Connected, ConnOf, vars, hub, server, tabs
<1> QED
  BY <1>1, <1>2, HubKeepsInformed, TabKeepsInformed DEF Next

LEMMA InitSyncInv == InitSync => SyncInv
<1> SUFFICES ASSUME InitSync PROVE SyncInv
  OBVIOUS
<1>1. Typed
  BY InitTyped
<1>2. Ahead
  BY ConnsAreTabs, SomeSocket DEF InitSync, InitHub, Ahead
<1>3. \A t \in Phone : Informed(t)
  BY DEF InitSync, Informed, Tab
<1> QED
  BY <1>1, <1>2, <1>3 DEF SyncInv

LEMMA SyncInvariant == Spec => []SyncInv
<1>1. SyncInv /\ [Next]_vars => SyncInv'
  <2>1. SyncInv /\ [Next]_vars => (\A t \in Phone : Informed(t))'
    BY InformedStep
  <2> QED
    BY <2>1, TypedStep, AheadStep DEF SyncInv
<1> QED
  BY <1>1, InitSyncInv, PTL DEF Spec

\* Whatever order events, answers and failures of sockets come in, buffers
\* stay within their size and no screen shows a version that is not there.
THEOREM SyncTyped == Spec => []SyncTypeOK
<1>1. SyncInv => SyncTypeOK
  BY DEF SyncInv, Typed
<1> QED
  BY <1>1, SyncInvariant, PTL

\* However many events full buffers lose and however often sockets fail, a
\* phone has been given the newest version once nothing is under way.
THEOREM PhonesHear == Spec => []PhonesHearOfEverything
<1>1. SyncInv => PhonesHearOfEverything
  <2> SUFFICES ASSUME SyncInv, Quiet, NEW t \in Phone PROVE seen[t] = db
    BY DEF PhonesHearOfEverything
  <2> QED
    BY DEF SyncInv, Informed, Connected, Quiet, Tab
<1> QED
  BY <1>1, SyncInvariant, PTL
=============================================================================
