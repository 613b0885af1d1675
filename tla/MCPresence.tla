----------------------------- MODULE MCPresence ----------------------------
(* Instances of Presence for TLC. *)
EXTENDS Presence

CONSTANTS ann, ben, n1, n2

TwoClients == {ann, ben}
OneClient  == {ann}
OneNode    == {n1}
TwoNodes   == {n1, n2}
=============================================================================
