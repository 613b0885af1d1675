------------------------------- MODULE Sync --------------------------------
(***************************************************************************)
(* How the screens follow the database: what a handler of                  *)
(* internal/server/api.go publishes after its commit, what the watcher of  *)
(* internal/server/server.go announces when another process has committed, *)
(* what the hub makes of both, and what a browser does with what reaches   *)
(* it (web/src/ws.ts, web/src/store/useGraph.ts, web/src/mobile).          *)
(*                                                                         *)
(* The data is one node everybody looks at: its version counts the commits *)
(* to it.  The tabs here only watch; those who write are others.  Roster   *)
(* events are left to Presence.                                            *)
(***************************************************************************)
EXTENDS Hub, FiniteSetsExt

CONSTANTS
    Desktop, Phone,   \* the tabs of either kind
    MaxCommits,       \* bounds the commits to the node
    MaxConns          \* bounds the sockets a tab opens

Tab == Desktop \cup Phone
Version == 0..MaxCommits

ASSUME ConnsAreTabs == Conn = Tab \X (1..MaxConns)
ASSUME SomeSocket   == MaxConns \in Nat \ {0} /\ MaxCommits \in Nat

VARIABLES
    db,           \* the version in the database
    outside,      \* commits by other processes: PRAGMA data_version
    known,        \* knownVersion: the data_version the server has allowed for
    publishing,   \* versions a handler has committed and not yet published
    attempt,      \* the number of the tab's socket
    asked,        \* GETs of the graph that the server has not yet answered
    answers,      \* versions in answers on their way to the tab
    view,         \* the version on the tab's screen
    seen          \* the newest version it was ever given, for the properties

server == <<db, outside, known, publishing>>
tabs   == <<attempt, asked, answers, view, seen>>
vars   == <<hub, server, tabs>>

Hello       == [type |-> "hello", version |-> 0]
Invalidated == [type |-> "graph.invalidated", version |-> 0]
Updated(v)  == [type |-> "node.updated", version |-> v]
Message     == {Hello, Invalidated} \cup {Updated(v) : v \in Version}

ConnOf(t) == <<t, attempt[t]>>

InitSync ==
    /\ InitHub
    /\ db = 0 /\ outside = 0 /\ known = 0 /\ publishing = {}
    /\ attempt = [t \in Tab |-> 1]
    /\ asked = [t \in Tab |-> 1]   \* the first GET leaves as the tab opens
    /\ answers = [t \in Tab |-> {}]
    /\ view = [t \in Tab |-> 0]
    /\ seen = [t \in Tab |-> 0]

-----------------------------------------------------------------------------
(* The server. *)

Commit ==
    /\ db < MaxCommits
    /\ db' = db + 1
    /\ publishing' = publishing \cup {db + 1}
    /\ UNCHANGED <<hub, outside, known, tabs>>

\* publish: the baseline moves to whatever data_version is now, and the event
\* is broadcast.  Handlers publish in any order.
Publish(v) ==
    /\ v \in publishing
    /\ publishing' = publishing \ {v}
    /\ known' = outside
    /\ events' = Buffered(Updated(v))
    /\ UNCHANGED <<stage, clients, dropped, send, db, outside, tabs>>

\* Another process commits.
CommitOutside ==
    /\ db < MaxCommits
    /\ db' = db + 1
    /\ outside' = outside + 1
    /\ UNCHANGED <<hub, known, publishing, tabs>>

\* WatchExternalChanges, at a tick that finds data_version changed.
Poll ==
    /\ outside # known
    /\ known' = outside
    /\ events' = Buffered(Invalidated)
    /\ UNCHANGED <<stage, clients, dropped, send, db, outside, publishing, tabs>>

\* GET /api/graph.
Answer(t) ==
    /\ asked[t] > 0
    /\ asked' = [asked EXCEPT ![t] = @ - 1]
    /\ answers' = [answers EXCEPT ![t] = @ \cup {db}]
    /\ UNCHANGED <<hub, server, attempt, view, seen>>

-----------------------------------------------------------------------------
(* The browser. *)

\* Mutant of Refetches: a greeting is no change.
RefetchesOnChange(t, m) == (t \in Phone /\ m # Hello) \/ m = Invalidated

\* A phone asks for the whole graph again, whatever the event; a desktop only
\* when it is told that its graph is invalid.
Refetches(t, m) == t \in Phone \/ m = Invalidated

\* What applyEvent shows of an event.
Shown(t, m) == IF t \in Desktop /\ m.type = "node.updated" THEN m.version ELSE view[t]

Receive(t) ==
    /\ Deliver(ConnOf(t))
    /\ LET m == Head(send[ConnOf(t)])
       IN /\ asked' = [asked EXCEPT ![t] = @ + (IF Refetches(t, m) THEN 1 ELSE 0)]
          /\ view' = [view EXCEPT ![t] = Shown(t, m)]
          /\ seen' = [seen EXCEPT ![t] = Max({@, Shown(t, m)})]
    /\ UNCHANGED <<server, attempt, answers>>

\* An answer arrives and replaces the screen, be it older than what is there:
\* nothing keeps answers in the order of their requests.
Apply(t, v) ==
    /\ v \in answers[t]
    /\ answers' = [answers EXCEPT ![t] = @ \ {v}]
    /\ view' = [view EXCEPT ![t] = v]
    /\ seen' = [seen EXCEPT ![t] = Max({@, v})]
    /\ UNCHANGED <<hub, server, attempt, asked>>

\* The socket has closed: another is opened, and nothing is asked for.
Reconnect(t) ==
    /\ stage[ConnOf(t)] \in {"cut", "closed"}
    /\ attempt[t] < MaxConns
    /\ attempt' = [attempt EXCEPT ![t] = @ + 1]
    /\ UNCHANGED <<hub, server, asked, answers, view, seen>>

Dial(t)  == Upgrade(ConnOf(t)) /\ UNCHANGED <<server, tabs>>
Greet(t) == Register(ConnOf(t), Hello) /\ UNCHANGED <<server, tabs>>
Fan      == FanOut /\ UNCHANGED <<server, tabs>>
\* Bounded: a tab's last socket stays.
Fail(t)  == attempt[t] < MaxConns /\ Cut(ConnOf(t)) /\ UNCHANGED <<server, tabs>>
Shut(c)  == Close(c) /\ UNCHANGED <<server, tabs>>
Leave(c) == Unregister(c) /\ UNCHANGED <<server, tabs>>

HubStep == Fan \/ \E c \in Conn : Shut(c) \/ Leave(c)
TabStep(t) ==
    \/ Dial(t) \/ Greet(t) \/ Receive(t) \/ Reconnect(t)
    \/ Answer(t) \/ \E v \in Version : Apply(t, v)

Next ==
    \/ Commit \/ CommitOutside \/ Poll \/ \E v \in Version : Publish(v)
    \/ HubStep
    \/ \E t \in Tab : TabStep(t) \/ Fail(t)

\* Nobody has to write, and no socket has to fail.  Everything else that can
\* go on does: goroutines are scheduled, the ticker ticks, requests are
\* answered, and a socket that takes nothing is cut by its deadline.
Fairness ==
    /\ WF_vars(Fan) /\ WF_vars(Poll)
    /\ \A v \in Version : WF_vars(Publish(v))
    /\ \A c \in Conn : WF_vars(Shut(c)) /\ WF_vars(Leave(c))
    /\ \A t \in Tab :
          /\ WF_vars(Dial(t)) /\ WF_vars(Greet(t)) /\ WF_vars(Reconnect(t))
          /\ WF_vars(Receive(t)) /\ WF_vars(Answer(t))
          /\ \A v \in Version : WF_vars(Apply(t, v))

Spec == InitSync /\ [][Next]_vars /\ Fairness

-----------------------------------------------------------------------------
SyncTypeOK ==
    /\ stage \in [Conn -> {"new", "joining", "open", "cut", "closed"}]
    /\ clients \subseteq Conn /\ dropped \subseteq clients
    /\ events \in Seq(Message) /\ Len(events) <= EventsCap
    /\ \A c \in Conn : send[c] \in Seq(Message) /\ Len(send[c]) <= SendCap
    /\ db \in Version /\ outside \in Version /\ known \in 0..outside
    /\ publishing \subseteq 1..db
    /\ attempt \in [Tab -> 1..MaxConns]
    /\ asked \in [Tab -> Nat]
    /\ answers \in [Tab -> SUBSET (0..db)]
    /\ view \in [Tab -> 0..db] /\ seen \in [Tab -> 0..db]

\* Nothing is on its way, and every tab is connected.
Quiet ==
    /\ publishing = {} /\ outside = known /\ events = <<>> /\ dropped = {}
    /\ \A t \in Tab :
          /\ ConnOf(t) \in clients /\ stage[ConnOf(t)] = "open"
          /\ send[ConnOf(t)] = <<>> /\ asked[t] = 0 /\ answers[t] = {}

\* A phone may sleep, fall behind, be dropped and come back, and other
\* processes may write: once all is quiet it has been given the newest
\* version.  (The last answer to arrive may still be an older one.)
PhonesHearOfEverything == Quiet => \A t \in Phone : seen[t] = db

\* Whoever is dropped is let go of, and has a socket in working order again
\* (or has used up the sockets of the instance).
DroppedComeBack ==
    \A c \in Conn :
       c \in dropped ~> /\ c \notin clients
                        /\ \/ ConnOf(c[1]) \in clients
                           \/ attempt[c[1]] = MaxConns /\ stage[ConnOf(c[1])] = "closed"

\* "It will reconnect and refetch": a tab that had to connect again shows,
\* once all is quiet, what is in the database.
ReconnectingRefetches ==
    Quiet => \A t \in Tab : attempt[t] > 1 => view[t] = db
=============================================================================
