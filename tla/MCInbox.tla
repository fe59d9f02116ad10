------------------------------ MODULE MCInbox ------------------------------
(* Two addresses and two messages, one of them sent to both.               *)
EXTENDS Inbox, TLC

CONSTANTS a, b, m1, m2

MCTo == m1 :> {a} @@ m2 :> {a, b}
=============================================================================
