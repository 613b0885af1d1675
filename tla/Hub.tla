-------------------------------- MODULE Hub --------------------------------
(***************************************************************************)
(* The hub of internal/server/hub.go: one goroutine that owns the set of   *)
(* clients, a bounded buffer of events to fan out, and for every client a  *)
(* bounded buffer that its write loop empties into its socket.  A client   *)
(* whose buffer is full loses the event and is dropped.                    *)
(*                                                                         *)
(* A connection is one socket: a tab that reconnects has another.  What is *)
(* abstracted: deadlines, pings and closing handshakes, which all end in a *)
(* socket that is cut.                                                     *)
(***************************************************************************)
EXTENDS Naturals, SequencesExt

CONSTANTS
    Conn,        \* the sockets that are ever opened
    EventsCap,   \* the room in the hub's buffer (256)
    SendCap      \* the room in a client's buffer (64)

ASSUME BuffersHaveRoom == EventsCap \in Nat \ {0} /\ SendCap \in Nat \ {0}

VARIABLES
    stage,       \* of a socket: new, joining, open, cut, closed
    clients,     \* the sockets the hub knows
    dropped,     \* sockets that a goroutine of the hub's is about to close
    events,      \* the hub's buffer
    send         \* a client's buffer

hub == <<stage, clients, dropped, events, send>>

InitHub ==
    /\ stage = [c \in Conn |-> "new"]
    /\ clients = {}
    /\ dropped = {}
    /\ events = <<>>
    /\ send = [c \in Conn |-> <<>>]

\* broadcast never waits: with the buffer full, the event is lost.
Buffered(m) == IF Len(events) < EventsCap THEN Append(events, m) ELSE events

\* The request is upgraded: the browser has its socket, the hub not yet.
Upgrade(c) ==
    /\ stage[c] = "new"
    /\ stage' = [stage EXCEPT ![c] = "joining"]
    /\ UNCHANGED <<clients, dropped, events, send>>

\* handleWS hands the socket to the hub, and then greets.
Register(c, hello) ==
    /\ stage[c] = "joining"
    /\ stage' = [stage EXCEPT ![c] = "open"]
    /\ clients' = clients \cup {c}
    /\ events' = Buffered(hello)
    /\ UNCHANGED <<dropped, send>>

\* Mutant of FanOut: room or no room.
FanOutRegardless ==
    /\ events # <<>>
    /\ events' = Tail(events)
    /\ send' = [c \in Conn |->
                   IF c \in clients THEN Append(send[c], Head(events)) ELSE send[c]]
    /\ UNCHANGED <<stage, clients, dropped>>

\* One event to everybody; those with no room are dropped, not waited for.
FanOut ==
    /\ events # <<>>
    /\ events' = Tail(events)
    /\ send' = [c \in Conn |->
                   IF c \in clients /\ Len(send[c]) < SendCap
                   THEN Append(send[c], Head(events)) ELSE send[c]]
    /\ dropped' = dropped \cup {c \in clients : Len(send[c]) = SendCap}
    /\ UNCHANGED <<stage, clients>>

\* writeLoop: an event reaches the browser.
Deliver(c) ==
    /\ stage[c] = "open"
    /\ send[c] # <<>>
    /\ send' = [send EXCEPT ![c] = Tail(@)]
    /\ UNCHANGED <<stage, clients, dropped, events>>

\* The network fails, the tab sleeps past a deadline or is closed.
Cut(c) ==
    /\ stage[c] = "open"
    /\ stage' = [stage EXCEPT ![c] = "cut"]
    /\ UNCHANGED <<clients, dropped, events, send>>

\* Mutant of Close: only the loops close.
CloseWhenCut(c) ==
    /\ stage[c] = "cut"
    /\ stage' = [stage EXCEPT ![c] = "closed"]
    /\ UNCHANGED <<clients, dropped, events, send>>

\* client.close, once: by a loop that found the socket cut, or by the
\* goroutine that drops the client.
Close(c) ==
    /\ \/ stage[c] = "cut"
       \/ stage[c] = "open" /\ c \in dropped
    /\ stage' = [stage EXCEPT ![c] = "closed"]
    /\ UNCHANGED <<clients, dropped, events, send>>

\* The hub hears of it; the client's channel is closed.
Unregister(c) ==
    /\ stage[c] = "closed"
    /\ c \in clients
    /\ clients' = clients \ {c}
    /\ dropped' = dropped \ {c}
    /\ send' = [send EXCEPT ![c] = <<>>]
    /\ UNCHANGED <<stage, events>>
=============================================================================
