------------------------------ MODULE History -------------------------------
(***************************************************************************)
(* What Undo and Redo promise somebody who works alone, with nothing said  *)
(* of how: the states left behind, the state that is there, the states     *)
(* that were taken back, and how many changes were ever made.              *)
(***************************************************************************)
EXTENDS Integers, Sequences

VARIABLES past, present, future, made

history == <<past, present, future, made>>

\* A change is one step to go back by, and what was taken back is given up.
Do ==
    /\ past' = Append(past, present)
    /\ future' = <<>>
    /\ made' = made + 1

\* A change that carries on with the last one: no step of its own.
Amend ==
    /\ past # <<>>
    /\ future' = <<>>
    /\ UNCHANGED <<past, made>>

Back ==
    /\ past # <<>>
    /\ present' = past[Len(past)]
    /\ past' = SubSeq(past, 1, Len(past) - 1)
    /\ future' = <<present>> \o future
    /\ UNCHANGED made

Forth ==
    /\ future # <<>>
    /\ present' = Head(future)
    /\ past' = Append(past, present)
    /\ future' = Tail(future)
    /\ UNCHANGED made

HistoryInit == past = <<>> /\ future = <<>> /\ made = 0

HistoryNext == Do \/ Amend \/ Back \/ Forth

HistorySpec == HistoryInit /\ [][HistoryNext]_history
=============================================================================
