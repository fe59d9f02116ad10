--------------------------- MODULE MCPolicyDaemon ---------------------------
(* Four mails, two of them for the same new domain, and two connections.    *)
EXTENDS PolicyDaemon

CONSTANTS m1, m2, m3, m4, h1, h2, ours, theirs

AllMail     == {m1, m2, m3, m4}
TwoHandlers == {h1, h2}
TwoDomains  == {ours, theirs}
OurDomain   == {ours}

(* m1 is for our domain, m2 for someone else's, m3 for ours again,     *)
(* m4 for a recipient that has none.                                        *)
Recipients ==
    [m \in Mail |-> CASE m \in {m1, m3} -> {ours} [] m = m2 -> {theirs} [] m = m4 -> {}]
=============================================================================
