---------------------------- MODULE MCDomainSync ----------------------------
(* Small instances of DomainSync: two API requests at a time and one mail,  *)
(* two domains of which one may be provisioned, one or two servers.         *)
EXTENDS DomainSync

CONSTANTS r1, r2, mail, d1, d2, s1, s2

TwoRequests == {r1, r2}
OneHandler  == {mail}
TwoDomains  == {d1, d2}
OurDomain   == {d1}
OneServer   == {s1}
TwoServers  == {s1, s2}

(* A manual synchronisation against a public one.                            *)
BothSyncs ==
    [t \in ApiThread |-> IF t = r1 THEN {"manual"} ELSE {"public"}]

(* Any synchronisation against any change of the settings.                  *)
SyncAndSettings ==
    [t \in ApiThread |-> IF t = r1 THEN {"manual", "public"} ELSE {"settings"}]
=============================================================================
