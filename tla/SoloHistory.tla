---------------------------- MODULE SoloHistory -----------------------------
(***************************************************************************)
(* The journal of Journal, for one actor and while every change leaves an  *)
(* entry that says all there is to say of it, implements History.          *)
(***************************************************************************)
EXTENDS Journal, Sequences

Solo == CHOOSE a \in Actor : TRUE

\* The entries in force, or those undone, in the order of their ids.
InOrder(undone) ==
    LET isOne(i) == i \in DOMAIN log /\ log[i].undone = undone
        ids == SelectSeq([i \in 1 .. issued |-> i], isOne)
    IN [k \in DOMAIN ids |-> log[ids[k]]]

\* The state before each live entry: undo applied from the latest back to it.
Past ==
    LET live == InOrder(FALSE)
        before[i \in 1 .. Len(live) + 1] ==
            IF i > Len(live) THEN Tables ELSE Undoing(before[i + 1], live[i])
    IN [i \in DOMAIN live |-> before[i]]

\* The state after each undone entry: redo applied from the first up to it.
Future ==
    LET undone == InOrder(TRUE)
        after[i \in 0 .. Len(undone)] ==
            IF i = 0 THEN Tables ELSE Redoing(after[i - 1], undone[i])
    IN [i \in DOMAIN undone |-> after[i]]

H == INSTANCE History WITH past <- Past, present <- Tables, future <- Future,
                           made <- issued

\* Undo, repeated, walks back through the very states the actor's changes left
\* behind, and redo forth through them again.
ImplementsHistory == H!HistorySpec

\* An entry that says all there is to say of its change: not a retype that
\* dropped an edge because another said the same, nor the change of members
\* that emptied a group.
Complete(x) ==
    /\ EdgeIds(x.inverse.edges) = EdgeIds(x.forward.edges)
    /\ HasPayload(x.action, x.inverse) /\ HasPayload(x.action, x.forward)

\* The changes for which that is so.  Left out are maps created or deleted
\* (creating one leaves no entry, deleting one no redo tail cleared), a node's
\* first position (no entry), a change that folds into an entry while there is
\* something to redo, and an entry that does not say all there is to say.
SoloChange ==
    /\ ContentChange(Solo)
    /\ log' # log
    /\ Undone(Solo)' = {}
    /\ Complete(log'[Max(DOMAIN log')])

SoloNext == SoloChange \/ UndoOrRedo(Solo)
=============================================================================
