----------------------- MODULE DomainCacheRefinement -----------------------
(* DomainCache implements AtomicWhitelist: a writing call takes effect when *)
(* os.replace() publishes its file, a refused one when it sees that the     *)
(* generation is not the expected one.                                      *)
EXTENDS DomainCache

requestOf ==
    [t \in Thread |-> [op     |-> IF op[t] \in Writing THEN op[t] ELSE "none",
                       arg    |-> IF op[t] \in Writing THEN arg[t] ELSE {},
                       expect |-> expect[t]]]

phaseOf ==
    [t \in Thread |-> IF op[t] \notin Writing THEN "none"
                      ELSE IF pc[t] = "sync" THEN "done"
                      ELSE IF pc[t] = "readback" THEN "refused"
                      ELSE "begun"]

Atomic == INSTANCE AtomicWhitelist WITH request <- requestOf, phase <- phaseOf

(* add() and replace() are linearizable and, once they have returned,       *)
(* durable: no interleaving of threads and processes, no error and no crash *)
(* makes the class do anything the atomic whitelist would not.              *)
ImplementsAtomicWhitelist == Atomic!Spec
=============================================================================
