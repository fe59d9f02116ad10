---------------------------- MODULE MCMailRuntime ----------------------------
(* A small instance of MailRuntime: two API requests and one connection of  *)
(* the daemon, two servers.                                                 *)
EXTENDS MailRuntime, TLC

CONSTANTS r1, r2, mail, mail2, s1, s2

TwoRequests == {r1, r2}
TwoMails    == {mail, mail2}
OneMail     == {mail}
TwoServers  == {s1, s2}

(* To a server, any other key of the mail section, and one bound of a name's *)
(* length at a time: each bound is valid with the other's default.           *)
SomeChanges ==
    {[NoChange EXCEPT !.server = {s}] : s \in TwoServers \cup {Keep}}
    \cup {[NoChange EXCEPT !.min = {20}], [NoChange EXCEPT !.max = {10}]}

(* Two requests, two connections, or one of each.                            *)
AnyTwo == {TwoRequests, TwoMails, {r1, mail}}

Alike == Permutations(TwoRequests) \cup Permutations(TwoMails) \cup Permutations(TwoServers)
=============================================================================
