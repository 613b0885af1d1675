------------------------------- MODULE MCSync ------------------------------
(* Instances of Sync for TLC. *)
EXTENDS Sync

CONSTANTS desk, phone

OneDesk  == {desk}
OnePhone == {phone}
Sockets  == Tab \X (1..MaxConns)
=============================================================================
