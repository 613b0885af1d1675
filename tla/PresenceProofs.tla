--------------------------- MODULE PresenceProofs --------------------------
(***************************************************************************)
(* Proofs about Presence, for any number of tabs, nodes and sockets.       *)
(*                                                                         *)
(* Who holds what (TypeOK's last part, OneHolder) and who is on the roster *)
(* (NobodyLingers) are each inductive once the variables are known to be   *)
(* functions over the tabs and sockets.  What a queue of frames holds      *)
(* matters only in that an "editing" frame names a node.                   *)
(***************************************************************************)
EXTENDS Presence, TLAPS

LEMMA FramesAreFrames ==
    ASSUME NEW n \in Node
    PROVE  /\ [type |-> "editing", node |-> n] \in Frame
           /\ [type |-> "done", node |-> Nil] \in Frame
  BY DEF Frame

\* A frame is typed as its head says.
LEMMA HeadFrame ==
    ASSUME TypeOK, NEW s \in Socket, frames[s] # <<>>
    PROVE  /\ Head(frames[s]) \in Frame
           /\ Tail(frames[s]) \in Seq(Frame)
           /\ Head(frames[s]).type = "editing" => Head(frames[s]).node \in Node
  <1>1. frames[s] \in Seq(Frame)
    BY DEF TypeOK
  <1>2. Head(frames[s]) \in Frame /\ Tail(frames[s]) \in Seq(Frame)
    BY <1>1
  <1>3. QED
    BY <1>2 DEF Frame

LEMMA SocketParts ==
    ASSUME NEW s \in Socket
    PROVE  s[1] \in Client /\ s[2] \in 1..MaxConns /\ s = <<s[1], s[2]>>
  BY DEF Socket

\* Whatever the frame, the lock that results is well-formed, and its holder
\* the only one.
LEMMA LockIsSafe ==
    ASSUME TypeOK, OneHolder, NEW i \in Client, NEW n \in Node, Lock(i, n)
    PROVE  /\ here' = here
           /\ editing' \in [Client -> Node \cup {Nil}]
           /\ fresh' \in [Client -> BOOLEAN]
           /\ \A j \in Client : /\ fresh'[j] => editing'[j] # Nil
                                /\ editing'[j] # Nil => j \in here
           /\ OneHolder'
  BY NilIsNoNode DEF TypeOK, OneHolder, Lock, Holds, Blocked, roster

LEMMA UnlockIsSafe ==
    ASSUME TypeOK, OneHolder, NEW i \in Client, Unlock(i)
    PROVE  /\ here' = here
           /\ editing' \in [Client -> Node \cup {Nil}]
           /\ fresh' \in [Client -> BOOLEAN]
           /\ \A j \in Client : /\ fresh'[j] => editing'[j] # Nil
                                /\ editing'[j] # Nil => j \in here
           /\ OneHolder'
  BY NilIsNoNode DEF TypeOK, OneHolder, Unlock, Holds

Inv == TypeOK /\ OneHolder /\ NobodyLingers

LEMMA InitInv == Init => Inv
  <1>1. \A s \in Socket : <<>> \in Seq(Frame)
    OBVIOUS
  <1>2. QED
    BY <1>1, ConnsAllowed DEF Init, Inv, Mine, Socket, TypeOK, OneHolder, NobodyLingers, Holds

\* Every step keeps the types.
LEMMA TypeStep == Inv /\ [Next]_vars => TypeOK'
  <1> SUFFICES ASSUME Inv, [Next]_vars PROVE TypeOK'
    OBVIOUS
  <1> USE NilIsNoNode, ConnsAllowed DEF Inv
  <1>0. \A i \in Client : Mine(i) \in Socket
    BY DEF TypeOK, Mine, Socket
  <1>1. ASSUME NEW i \in Client, NEW n \in Node, BeginEdit(i, n) PROVE TypeOK'
    <2>1. frames' \in [Socket -> Seq(Frame)]
      BY <1>1, <1>0, FramesAreFrames DEF BeginEdit, Sent, TypeOK
    <2>2. QED
      BY <1>1, <2>1 DEF BeginEdit, TypeOK, roster
  <1>2. ASSUME NEW i \in Client, EndEdit(i) PROVE TypeOK'
    <2>1. [type |-> "done", node |-> Nil] \in Frame
      BY DEF Frame
    <2>2. frames' \in [Socket -> Seq(Frame)]
      BY <1>2, <1>0, <2>1 DEF EndEdit, Sent, TypeOK
    <2>3. QED
      BY <1>2, <2>2 DEF EndEdit, TypeOK, roster
  <1>3. ASSUME NEW i \in Client, Reconnect(i) PROVE TypeOK'
    BY <1>3 DEF Reconnect, TypeOK, roster
  <1>4. ASSUME NEW i \in Client, Expire(i) PROVE TypeOK'
    BY <1>4 DEF Expire, TypeOK, browser
  <1>5. ASSUME NEW s \in Socket, Join(s) PROVE TypeOK'
    <2>1. s[1] \in Client
      BY SocketParts
    <2>2. CASE last[s[1]] = Nil
      BY <1>5, <2>1, <2>2 DEF Join, TypeOK
    <2>3. CASE last[s[1]] # Nil
      <3>1. <<[type |-> "editing", node |-> last[s[1]]]>> \in Seq(Frame)
        BY <2>1, <2>3, FramesAreFrames DEF TypeOK
      <3>2. QED
        BY <1>5, <2>1, <2>3, <3>1 DEF Join, TypeOK
    <2>4. QED
      BY <2>2, <2>3
  <1>6. ASSUME NEW s \in Socket, Handle(s) PROVE TypeOK'
    <2>1. s[1] \in Client /\ Tail(frames[s]) \in Seq(Frame)
      BY <1>6, SocketParts, HeadFrame DEF Handle
    <2>2. CASE Head(frames[s]).type = "editing"
      BY <1>6, <2>1, <2>2, HeadFrame, LockIsSafe DEF Handle, TypeOK
    <2>3. CASE Head(frames[s]).type # "editing"
      BY <1>6, <2>1, <2>3, UnlockIsSafe DEF Handle, TypeOK
    <2>4. QED
      BY <2>2, <2>3
  <1>7. ASSUME NEW s \in Socket, Leave(s) PROVE TypeOK'
    <2>1. s[1] \in Client /\ <<>> \in Seq(Frame)
      BY SocketParts
    <2>2. QED
      BY <1>7, <2>1 DEF Leave, TypeOK
  <1>8. ASSUME NEW s \in Socket, Die(s) PROVE TypeOK'
    BY <1>8 DEF Die, TypeOK, browser, roster
  <1>9. ASSUME NEW i \in Client, OpenMap(i) PROVE TypeOK'
    BY <1>9 DEF OpenMap, TypeOK, roster
  <1>10. CASE UNCHANGED vars
    BY <1>10 DEF vars, browser, roster, TypeOK
  <1>11. QED
    BY <1>1, <1>2, <1>3, <1>4, <1>5, <1>6, <1>7, <1>8, <1>9, <1>10
       DEF Next, TabStep, SocketStep

\* Only a frame gives a lock, and Lock looks first.
LEMMA HolderStep == Inv /\ [Next]_vars => OneHolder'
  <1> SUFFICES ASSUME Inv, [Next]_vars PROVE OneHolder'
    OBVIOUS
  <1> USE DEF Inv
  <1>1. CASE UNCHANGED roster
    BY <1>1 DEF roster, OneHolder, Holds
  <1>2. ASSUME NEW i \in Client, Expire(i) PROVE OneHolder'
    BY <1>2 DEF Expire, OneHolder, Holds, TypeOK
  <1>3. ASSUME NEW s \in Socket, Join(s) PROVE OneHolder'
    \* A lock belongs to somebody on the roster, so joining brings none.
    BY <1>3, NilIsNoNode DEF Join, OneHolder, Holds, TypeOK
  <1>4. ASSUME NEW s \in Socket, Handle(s) PROVE OneHolder'
    BY <1>4, SocketParts, HeadFrame, LockIsSafe, UnlockIsSafe DEF Handle
  <1>5. ASSUME NEW s \in Socket, Leave(s) PROVE OneHolder'
    BY <1>5, SocketParts DEF Leave, OneHolder, Holds, TypeOK
  <1>6. QED
    BY <1>1, <1>2, <1>3, <1>4, <1>5
       DEF Next, TabStep, SocketStep, BeginEdit, EndEdit, OpenMap, Reconnect, Die, vars

\* An id is added with a socket that works and removed with any that ends.
LEMMA RosterStep == Inv /\ [Next]_vars => NobodyLingers'
  <1> SUFFICES ASSUME Inv, [Next]_vars PROVE NobodyLingers'
    OBVIOUS
  <1> USE DEF Inv
  <1>1. CASE UNCHANGED <<stage, here>>
    BY <1>1 DEF NobodyLingers
  <1>2. ASSUME NEW s \in Socket, Join(s) PROVE NobodyLingers'
    <2> SUFFICES ASSUME NEW i \in Client, i \in here'
                 PROVE  \E k \in 1..MaxConns : stage'[<<i, k>>] \in {"open", "dead"}
      BY DEF NobodyLingers
    <2>1. s[1] \in Client /\ s[2] \in 1..MaxConns /\ s = <<s[1], s[2]>>
      BY SocketParts
    <2>2. here' \ {s[1]} \subseteq here
      BY <1>2 DEF Join
    <2>3. CASE i = s[1]
      <3>1. stage'[<<i, s[2]>>] = "open"
        BY <1>2, <2>1, <2>3 DEF Join, TypeOK
      <3>2. QED
        BY <2>1, <3>1
    <2>4. CASE i # s[1]
      <3>1. PICK k \in 1..MaxConns : stage[<<i, k>>] \in {"open", "dead"}
        BY <2>2, <2>4 DEF NobodyLingers
      <3>2. <<i, k>> \in Socket /\ <<i, k>> # s
        BY <2>1, <2>4 DEF Socket
      <3>3. stage'[<<i, k>>] = stage[<<i, k>>]
        BY <1>2, <3>2 DEF Join, TypeOK
      <3>4. QED
        BY <3>1, <3>3
    <2>5. QED
      BY <2>3, <2>4
  <1>3. ASSUME NEW s \in Socket, Handle(s) PROVE NobodyLingers'
    BY <1>3, <1>1, SocketParts, HeadFrame, LockIsSafe, UnlockIsSafe DEF Handle
  <1>4. ASSUME NEW s \in Socket, Leave(s) PROVE NobodyLingers'
    <2> SUFFICES ASSUME NEW i \in Client, i \in here'
                 PROVE  \E k \in 1..MaxConns : stage'[<<i, k>>] \in {"open", "dead"}
      BY DEF NobodyLingers
    <2>1. s[1] \in Client /\ s[2] \in 1..MaxConns /\ s = <<s[1], s[2]>>
      BY SocketParts
    <2>2. here' \ {s[1]} \subseteq here /\ s[1] \notin here'
      BY <1>4 DEF Leave
    <2>3. CASE i = s[1]
      BY <2>2, <2>3
    <2>4. CASE i # s[1]
      <3>1. PICK k \in 1..MaxConns : stage[<<i, k>>] \in {"open", "dead"}
        BY <2>2, <2>4 DEF NobodyLingers
      <3>2. <<i, k>> \in Socket /\ <<i, k>> # s
        BY <2>1, <2>4 DEF Socket
      <3>3. stage'[<<i, k>>] = stage[<<i, k>>]
        BY <1>4, <3>2 DEF Leave, TypeOK
      <3>4. QED
        BY <3>1, <3>3
    <2>5. QED
      BY <2>3, <2>4
  <1>5. ASSUME NEW s \in Socket, Die(s) PROVE NobodyLingers'
    BY <1>5, SocketParts DEF Die, NobodyLingers, TypeOK, Socket, roster
  <1>6. QED
    BY <1>1, <1>2, <1>3, <1>4, <1>5
       DEF Next, TabStep, SocketStep, BeginEdit, EndEdit, OpenMap, Reconnect, Expire,
           vars, browser, roster

LEMMA InvHolds == Spec => []Inv
  <1>1. Init => Inv
    BY InitInv
  <1>2. Inv /\ [Next]_vars => Inv'
    BY TypeStep, HolderStep, RosterStep DEF Inv
  <1>3. QED
    BY <1>1, <1>2, PTL DEF Spec

\* Every lock that Lock ever hands out, and every frame, is well-formed; no
\* lock belongs to somebody who is not on the roster.
THEOREM PresenceTyped == Spec => []TypeOK
  <1>1. Inv => TypeOK
    BY DEF Inv
  <1>2. QED
    BY <1>1, InvHolds, PTL

\* No two tabs ever hold the same node, however their locks expire, are
\* renewed by a frame replayed on another socket, or are asked for by frames of
\* a socket that has died: presence.go's Lock.
THEOREM AtMostOneHolder == Spec => []OneHolder
  <1>1. Inv => OneHolder
    BY DEF Inv
  <1>2. QED
    BY <1>1, InvHolds, PTL

\* Nobody is on the roster without a socket that the server still serves, so
\* no lock outlives the last of its holder's sockets: hub.go's readLoop.
THEOREM RosterIsServed == Spec => []NobodyLingers
  <1>1. Inv => NobodyLingers
    BY DEF Inv
  <1>2. QED
    BY <1>1, InvHolds, PTL
=============================================================================
