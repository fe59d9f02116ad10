----------------------------- MODULE MCMessageApi -----------------------------
(* A small instance of MessageApi: two requests, or one and the janitor; two *)
(* servers on which the same id is another address's message.                *)
EXTENDS MessageApi

CONSTANTS r1, r2, a, b, s1, s2

TwoRequests  == {r1, r2}
TwoAddresses == {a, b}
TwoServers   == {s1, s2}
TwoIds       == {1, 2}
AnyTwo       == {TwoRequests, {r1, Janitor}}

TheirMail == [s \in TwoServers |->
    IF s = s1 THEN <<{a}, {a, b}>> ELSE <<{b}, {}>>]

(* A search for b also finds what is for a.                                  *)
LooksAlike == {<<b, a>>}
=============================================================================
