------------------------------ MODULE Presence -----------------------------
(***************************************************************************)
(* Who is here and what they hold open: internal/server/presence.go, the   *)
(* presence frames of internal/server/hub.go and web/src/ws.ts.            *)
(*                                                                         *)
(* One tab has one client id and, when the network fails it, another       *)
(* socket: the server may learn of the death of the first after the second *)
(* has joined.  Names, colours, selections and the map in view are left    *)
(* out: no lock depends on them.                                           *)
(***************************************************************************)
EXTENDS Naturals, Sequences

CONSTANTS
    Client,      \* ids of tabs
    Node,
    Nil,
    MaxConns,    \* bounds the sockets a tab opens
    MaxFrames    \* bounds the frames on their way in a socket

ASSUME NilIsNoNode == Nil \notin Node
ASSUME ConnsAllowed == MaxConns \in Nat \ {0}

VARIABLES
    stage,       \* of a socket: new, open, dead (the server does not know), left
    frames,      \* what the browser has sent and the server not read
    attempt,     \* the number of the tab's socket
    last,        \* the node of the frame to send again, if that was "editing"
    here,        \* the ids in byID
    editing,     \* Participant.Editing, of those here
    fresh        \* whether the lock is younger than LockIdle

browser == <<frames, attempt, last>>
roster  == <<here, editing, fresh>>
vars    == <<stage, browser, roster>>

Socket == Client \X (1..MaxConns)
Mine(i) == <<i, attempt[i]>>

Frame == {[type |-> "editing", node |-> n] : n \in Node}
         \cup {[type |-> "done", node |-> Nil]}

Init ==
    /\ stage = [s \in Socket |-> "new"]
    /\ frames = [s \in Socket |-> <<>>]
    /\ attempt = [i \in Client |-> 1]
    /\ last = [i \in Client |-> Nil]
    /\ here = {}
    /\ editing = [i \in Client |-> Nil]
    /\ fresh = [i \in Client |-> FALSE]

-----------------------------------------------------------------------------
(* The roster. *)

\* Holder: a lock that has not been touched for LockIdle is nobody's.
Holds(i, n) == i \in here /\ editing[i] = n /\ fresh[i]

\* Mutant of Blocked: a lock that went stale and was never let go still counts
\* for its holder, who may renew it.
BlockedUnlessMine(i, n) == editing[i] # n /\ \E j \in Client \ {i} : Holds(j, n)

\* Somebody else holds the node.
Blocked(i, n) == \E j \in Client \ {i} : Holds(j, n)

\* Mutant of Lock: whoever asks may hold, here or not.
LockAnyone(i, n) ==
    IF Blocked(i, n) THEN UNCHANGED roster
    ELSE /\ editing' = [editing EXCEPT ![i] = n]
         /\ fresh' = [fresh EXCEPT ![i] = TRUE]
         /\ UNCHANGED here

\* Lock.  An id that is not here is told that it may, and holds nothing.
Lock(i, n) ==
    IF Blocked(i, n) \/ i \notin here
    THEN UNCHANGED roster
    ELSE /\ editing' = [editing EXCEPT ![i] = n]
         /\ fresh' = [fresh EXCEPT ![i] = TRUE]
         /\ UNCHANGED here

\* The age of no lock is nobody's business.
Unlock(i) ==
    /\ editing' = [editing EXCEPT ![i] = Nil]
    /\ fresh' = [fresh EXCEPT ![i] = FALSE]
    /\ UNCHANGED here

\* handleWS: one that is here already keeps what it holds.
Join(s) ==
    /\ stage[s] = "new" /\ s = Mine(s[1])
    /\ stage' = [stage EXCEPT ![s] = "open"]
    /\ here' = here \cup {s[1]}
    \* onopen sends the last frame again.
    /\ frames' = [frames EXCEPT ![s] =
                     IF last[s[1]] = Nil THEN <<>>
                     ELSE <<[type |-> "editing", node |-> last[s[1]]]>>]
    /\ UNCHANGED <<attempt, last, editing, fresh>>

\* readLoop: one frame.  The server reads what a dead socket had sent.
Handle(s) ==
    /\ stage[s] \in {"open", "dead"}
    /\ frames[s] # <<>>
    /\ frames' = [frames EXCEPT ![s] = Tail(@)]
    /\ IF Head(frames[s]).type = "editing"
       THEN Lock(s[1], Head(frames[s]).node) ELSE Unlock(s[1])
    /\ UNCHANGED <<stage, attempt, last>>

\* Mutants of Leave: an id that holds something stays; its socket is kept until
\* it lets go.
LeaveUnlessEditing(s) ==
    /\ stage[s] = "dead"
    /\ stage' = [stage EXCEPT ![s] = "left"]
    /\ frames' = [frames EXCEPT ![s] = <<>>]
    /\ here' = IF editing[s[1]] = Nil THEN here \ {s[1]} ELSE here
    /\ UNCHANGED <<attempt, last, editing, fresh>>

LeaveOnceDone(s) ==
    /\ stage[s] = "dead" /\ editing[s[1]] = Nil
    /\ stage' = [stage EXCEPT ![s] = "left"]
    /\ frames' = [frames EXCEPT ![s] = <<>>]
    /\ here' = here \ {s[1]}
    /\ UNCHANGED <<attempt, last, editing, fresh>>

\* readLoop ends: the id goes, and all it held, whatever its other sockets.
Leave(s) ==
    /\ stage[s] = "dead"
    /\ stage' = [stage EXCEPT ![s] = "left"]
    /\ frames' = [frames EXCEPT ![s] = <<>>]
    /\ here' = here \ {s[1]}
    /\ editing' = [editing EXCEPT ![s[1]] = Nil]
    /\ fresh' = [fresh EXCEPT ![s[1]] = FALSE]
    /\ UNCHANGED <<attempt, last>>

\* LockIdle passes.
Expire(i) ==
    /\ fresh[i]
    /\ fresh' = [fresh EXCEPT ![i] = FALSE]
    /\ UNCHANGED <<stage, browser, here, editing>>

-----------------------------------------------------------------------------
(* The tab. *)

\* Dropped while the socket is down.
Sent(i, f) ==
    [frames EXCEPT ![Mine(i)] = IF stage[Mine(i)] = "open" THEN Append(@, f) ELSE @]

HasRoom(i) == stage[Mine(i)] = "open" => Len(frames[Mine(i)]) < MaxFrames

\* The tab refuses an editor on a node it knows to be held; what it knows may
\* be old, so it may also open one.  The editor of a node just created opens
\* without a frame, and one that toggleSelected closes goes without a frame:
\* for the server nothing happens, and an "editing" can follow an "editing".
BeginEdit(i, n) ==
    /\ HasRoom(i)
    /\ last' = [last EXCEPT ![i] = n]
    /\ frames' = Sent(i, [type |-> "editing", node |-> n])
    /\ UNCHANGED <<stage, attempt, roster>>

\* commitTitle, cancelEdit, or selecting something, an editor open or not.
EndEdit(i) ==
    /\ HasRoom(i)
    /\ last' = [last EXCEPT ![i] = Nil]
    /\ frames' = Sent(i, [type |-> "done", node |-> Nil])
    /\ UNCHANGED <<stage, attempt, roster>>

\* openMap: the frame that says so is now the one to send again.
OpenMap(i) ==
    /\ last[i] # Nil
    /\ last' = [last EXCEPT ![i] = Nil]
    /\ UNCHANGED <<stage, frames, attempt, roster>>

\* The socket dies, or the tab is closed; the server finds out by and by.
Die(s) ==
    /\ stage[s] = "open"
    /\ stage' = [stage EXCEPT ![s] = "dead"]
    /\ UNCHANGED <<browser, roster>>

Reconnect(i) ==
    /\ stage[Mine(i)] \in {"dead", "left"}
    /\ attempt[i] < MaxConns
    /\ attempt' = [attempt EXCEPT ![i] = @ + 1]
    /\ UNCHANGED <<stage, frames, last, roster>>

-----------------------------------------------------------------------------
TabStep(i) ==
    \/ \E n \in Node : BeginEdit(i, n)
    \/ EndEdit(i) \/ OpenMap(i) \/ Reconnect(i)
SocketStep(s) == Join(s) \/ Handle(s) \/ Leave(s) \/ Die(s)

Next ==
    \/ \E i \in Client : TabStep(i) \/ Expire(i)
    \/ \E s \in Socket : SocketStep(s)

\* A read loop reads what has come, and ends when its socket is dead: the
\* read deadline sees to it.  Time need not pass, nor anybody type.
Fairness == \A s \in Socket : WF_vars(Handle(s)) /\ WF_vars(Leave(s))

Spec == Init /\ [][Next]_vars /\ Fairness

-----------------------------------------------------------------------------
\* Types; a lock has an age only while there is one, and belongs to somebody
\* on the roster.
TypeOK ==
    /\ stage \in [Socket -> {"new", "open", "dead", "left"}]
    /\ frames \in [Socket -> Seq(Frame)]
    /\ attempt \in [Client -> 1..MaxConns]
    /\ last \in [Client -> Node \cup {Nil}]
    /\ here \subseteq Client
    /\ editing \in [Client -> Node \cup {Nil}]
    /\ fresh \in [Client -> BOOLEAN]
    /\ \A i \in Client : /\ fresh[i] => editing[i] # Nil
                         /\ editing[i] # Nil => i \in here

\* No two tabs hold one node, through expiry, renewal, and frames of an old
\* socket that are read late.
OneHolder == \A i, j \in Client, n \in Node : Holds(i, n) /\ Holds(j, n) => i = j

\* Nobody stays on the roster, or keeps a lock, after the last of its sockets
\* has ended, in whatever order they did.
NobodyLingers ==
    \A i \in Client :
       i \in here => \E k \in 1..MaxConns : stage[<<i, k>>] \in {"open", "dead"}

\* "Closing the tab always releases it": once all the sockets of a tab are
\* dead it holds nothing, unless it comes back.
ClosedTabFreesLock ==
    \A i \in Client :
       stage[Mine(i)] \in {"dead", "left"}
       ~> editing[i] = Nil \/ stage[Mine(i)] \in {"new", "open"}

\* A tab with a socket that works is on the roster.
ConnectedIsHere == \A i \in Client : stage[Mine(i)] = "open" => i \in here
=============================================================================
