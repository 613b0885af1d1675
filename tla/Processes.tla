----------------------------- MODULE Processes -----------------------------
(***************************************************************************)
(* The database is shared: the server has it open, and so has every        *)
(* command line that is run (internal/ops/ops.go).  Transactions exclude   *)
(* one another (_txlock=immediate, store.go:80), writeMu only the          *)
(* operations of one process; so what an edit read before its transaction  *)
(* can have been changed by another process when it writes.  All other     *)
(* operations read within their transaction.                               *)
(***************************************************************************)
EXTENDS Store

CONSTANT Process     \* those that edit a node; others come and go unnamed

VARIABLE read        \* process -> the node its edit is about and the row it
                     \* found, or Nil: current and before of UpdateNode

ReadRow == [node : Node, row : NodeRow]

\* GetNode, under the process's writeMu: it does nothing else meanwhile.
ReadNode(p, n) ==
    /\ read[p] = Nil
    /\ n \in DOMAIN nodes
    /\ read' = [read EXCEPT ![p] = [node |-> n, row |-> nodes[n]]]

\* The edit is over: written, or turned down because the grammar refuses the
\* retype or the type is not one.
Done(p) == read[p] # Nil /\ read' = [read EXCEPT ![p] = Nil]

WriteNode(p, ty, ti, tg) ==
    Done(p) /\ ApplyEdit(read[p].node, read[p].row, ty, ti, tg)

-----------------------------------------------------------------------------
InitShared == InitTables /\ read = [p \in Process |-> Nil]

EditStep ==
    \/ \E p \in Process, n \in Node : ReadNode(p, n) /\ UNCHANGED tables
    \/ \E p \in Process, ty \in Type, ti \in Title, tg \in SUBSET Tag :
          WriteNode(p, ty, ti, tg)
    \/ \E p \in Process : Done(p) /\ UNCHANGED tables

\* An operation of a process that is in the middle of no edit can come at any
\* moment: there is always one more command line.
NextShared == (NextTables /\ UNCHANGED read) \/ EditStep

SpecShared == InitShared /\ [][NextShared]_<<tables, read>>

-----------------------------------------------------------------------------
\* What the tables and the edits under way can hold.
SharedTypeOK ==
    /\ TypeOK
    /\ read \in [Process -> ReadRow \cup {Nil}]

\* An edit of n that names no other type than the one it read is written, but
\* somebody has changed the type since: theirs is overwritten.
TakesTypeBack(n) ==
    \E p \in Process :
       /\ read[p] # Nil /\ read'[p] = Nil
       /\ read[p].node = n /\ n \in DOMAIN nodes'
       /\ nodes'[n].type = read[p].row.type
       /\ nodes[n].type # read[p].row.type

\* No step leaves an edge behind, or adds one, that the grammar does not allow
\* for the types its ends now have: whatever is created, retyped, relabelled,
\* inserted on another map or deleted, and whatever edits are under way.  One
\* step is exempt, that of an edit whose row another process retyped after it
\* was read, and only at the edges of that node.
EdgesStayLegal ==
    [][\A e \in edges' :
          \/ Legal(e, TypeOf')
          \/ e \in edges /\ ~Legal(e, TypeOf)
          \/ TakesTypeBack(e.source) \/ TakesTypeBack(e.target)]_<<tables, read>>
=============================================================================
