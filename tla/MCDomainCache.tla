--------------------------- MODULE MCDomainCache ---------------------------
(* Small instances of DomainCache: two handler threads of the policy        *)
(* daemon and one thread of the API, on one file.                           *)
EXTENDS DomainCacheRefinement, TLC

CONSTANTS p1, p2, api, Policy, Api, d1, d2

TwoOneThreads   == {p1, p2, api}
OneOneThreads   == {p1, api}
BothProcesses   == {Policy, Api}
OneDomain       == {d1}
TwoDomains      == {d1, d2}

Placement == [t \in Thread |-> IF t = api THEN Api ELSE Policy]

(* Which process calls what in src/src/policy_daemon.py, api_server.py,     *)
(* api_auth.py and admin_api.py.                                            *)
AsDeployed ==
    [t \in Thread |-> IF t = api
                      THEN {"load", "domains", "generation", "replace"}
                      ELSE {"load", "contains", "add"}]

(* Every process writes as well as asks, as the tests of the class do.      *)
Mixed == [t \in Thread |-> {"contains", "generation", "add", "replace"}]

(* Writers only: the calls the atomic whitelist speaks of.                  *)
WritersOnly == [t \in Thread |-> Writing]

(* The daemon, which only adds, against synchronisations that remove.       *)
AddAgainstReplace ==
    [t \in Thread |-> IF t = api THEN {"replace"} ELSE {"load", "add"}]

HandlerSymmetry == Permutations({p1, p2})
=============================================================================
