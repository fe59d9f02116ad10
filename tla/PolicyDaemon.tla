---------------------------- MODULE PolicyDaemon ----------------------------
(***************************************************************************)
(* The policy daemon of src/src/policy_daemon.py between Postfix and       *)
(* Stalwart: every mail for an unknown domain is looked up in DNS, its     *)
(* domain is provisioned and cached, and Postfix is told what to do with   *)
(* the mail.  A deferred mail, and one whose connection closed without an  *)
(* answer, is offered again by the server that sends it.                   *)
(***************************************************************************)
EXTENDS FiniteSets

CONSTANTS
    Mail,       \* the mails
    RecipientOf,\* the domain of a mail's recipient, none if it has no "@"
    Handler,    \* the connections the daemon serves at a time
    Domain,     \* the domain names
    Ours        \* the domains whose MX record names the configured host

AtMostOne(S) == {{}} \cup {{x} : x \in S}

ASSUME RecipientAssumption == RecipientOf \in [Mail -> AtMostOne(Domain)]
ASSUME OursAssumption      == Ours \subseteq Domain

VARIABLES
    mail,       \* per mail: where it stands
    pc,         \* per handler: next step
    serving,    \* per handler: its mail
    cache,      \* the domains in the cache file
    stalwart,   \* the domains Stalwart serves
    booted,     \* the domains Stalwart listed for a starting daemon
    daemon,     \* "down", "merge" or "up"
    known       \* history: domains Stalwart has served

vars == <<mail, pc, serving, cache, stalwart, booted, daemon, known>>

TypeOK ==
    /\ mail \in [Mail -> {"queued", "offered", "accepted", "rejected"}]
    /\ pc \in [Handler -> {"idle", "contains", "mx", "provision", "add", "ok"}]
    /\ serving \in [Handler -> AtMostOne(Mail)]
    /\ cache \in SUBSET Domain
    /\ stalwart \in SUBSET Domain
    /\ booted \in SUBSET Domain
    /\ daemon \in {"down", "merge", "up"}
    /\ known \in SUBSET Domain

Init ==
    /\ mail = [m \in Mail |-> "queued"]
    /\ pc = [h \in Handler |-> "idle"]
    /\ serving = [h \in Handler |-> {}]
    /\ cache = {}
    /\ stalwart \in SUBSET (Domain \ Ours)
    /\ booted = {}
    /\ daemon = "down"
    /\ known = stalwart

-----------------------------------------------------------------------------
Wanted(h) == UNION {RecipientOf[m] : m \in serving[h]}

Goto(h, label) == pc' = [pc EXCEPT ![h] = label]

(* The handlers in H end and their mails become what Postfix makes of it.   *)
End(H, outcome) ==
    /\ pc'      = [h \in Handler |-> IF h \in H THEN "idle" ELSE pc[h]]
    /\ serving' = [h \in Handler |-> IF h \in H THEN {} ELSE serving[h]]
    /\ mail'    = [m \in Mail |-> IF \E h \in H : m \in serving[h] THEN outcome ELSE mail[m]]

Offer(h, m) ==
    /\ daemon = "up"
    /\ pc[h] = "idle"
    /\ mail[m] = "queued"
    /\ mail' = [mail EXCEPT ![m] = "offered"]
    /\ serving' = [serving EXCEPT ![h] = {m}]
    /\ Goto(h, "contains")
    /\ UNCHANGED <<cache, stalwart, booted, daemon, known>>

(* A recipient without a domain is rejected; a cached domain is accepted    *)
(* without asking anyone.                                                   *)
Contains(h) ==
    /\ pc[h] = "contains"
    /\ \/ Wanted(h) = {} /\ End({h}, "rejected")
       \/ /\ Wanted(h) # {}
          /\ Goto(h, IF Wanted(h) \subseteq cache THEN "ok" ELSE "mx")
          /\ UNCHANGED <<mail, serving>>
    /\ UNCHANGED <<cache, stalwart, booted, daemon, known>>

MatchesAny(h) == TRUE                   \* mutant: the MX record is not compared
MatchesNever(h) == FALSE                \* mutant: nor does it ever match
Matches(h) == Wanted(h) \subseteq Ours

(* mx_matches(): the records were found.                                    *)
MxAnswer(h) ==
    /\ pc[h] = "mx"
    /\ \/ Matches(h) /\ Goto(h, "provision") /\ UNCHANGED <<mail, serving>>
       \/ ~Matches(h) /\ End({h}, "rejected")
    /\ UNCHANGED <<cache, stalwart, booted, daemon, known>>

(* provision_domain(): a domain that exists already is as good as created.  *)
CreateNothing(h) == UNCHANGED <<stalwart, known>>       \* mutant: errors ignored
Create(h) ==
    /\ stalwart' = stalwart \cup Wanted(h)
    /\ known' = known \cup Wanted(h)

Provision(h) ==
    /\ pc[h] = "provision"
    /\ Create(h)
    /\ Goto(h, "add")
    /\ UNCHANGED <<mail, serving, cache, booted, daemon>>

Add(h) ==
    /\ pc[h] = "add"
    /\ cache' = cache \cup Wanted(h)
    /\ Goto(h, "ok")
    /\ UNCHANGED <<mail, serving, stalwart, booted, daemon, known>>

Accept(h) ==
    /\ pc[h] = "ok"
    /\ End({h}, "accepted")
    /\ UNCHANGED <<cache, stalwart, booted, daemon, known>>

DeferredForGood == "rejected"           \* mutant: a permanent answer
Deferred == "queued"

(* The DNS lookup or the call to Stalwart fails, the latter perhaps after   *)
(* Stalwart has created the domain: the mail is deferred.  add() may raise, *)
(* before the domain is cached or after it: then the connection closes, and *)
(* Postfix defers the mail too.                                             *)
Defer(h) ==
    /\ pc[h] \in {"mx", "provision", "add"}
    /\ \/ UNCHANGED <<stalwart, known>>
       \/ pc[h] = "provision" /\ Create(h)
    /\ \/ UNCHANGED cache
       \/ pc[h] = "add" /\ cache' = cache \cup Wanted(h)
    /\ End({h}, Deferred)
    /\ UNCHANGED <<booted, daemon>>

-----------------------------------------------------------------------------
(* main(): the list of Stalwart, when it answers, is merged into the cache. *)
Start ==
    /\ daemon = "down"
    /\ booted' \in {stalwart, {}}
    /\ daemon' = IF booted' = {} THEN "up" ELSE "merge"
    /\ UNCHANGED <<mail, pc, serving, cache, stalwart, known>>

Merge ==
    /\ daemon = "merge"
    /\ cache' = cache \cup booted
    /\ booted' = {}
    /\ daemon' = "up"
    /\ UNCHANGED <<mail, pc, serving, stalwart, known>>

(* The daemon dies; the mails it was asked about stay in the queue.         *)
Crash ==
    /\ End(Handler, "queued")
    /\ booted' = {}
    /\ daemon' = "down"
    /\ UNCHANGED <<cache, stalwart, known>>

(* The web API replaces the cache with what Stalwart lists.                 *)
Synchronise ==
    /\ stalwart # {}
    /\ cache' = stalwart
    /\ UNCHANGED <<mail, pc, serving, stalwart, booted, daemon, known>>

DomainRemoved(d) ==
    /\ stalwart' = stalwart \ {d}
    /\ UNCHANGED <<mail, pc, serving, cache, booted, daemon, known>>

Next ==
    \/ \E h \in Handler :
          \/ \E m \in Mail : Offer(h, m)
          \/ Contains(h) \/ MxAnswer(h) \/ Provision(h) \/ Add(h) \/ Accept(h) \/ Defer(h)
    \/ Start \/ Merge \/ Crash \/ Synchronise
    \/ \E d \in Domain : DomainRemoved(d)

Spec == Init /\ [][Next]_vars

(* The daemon is restarted, the sender retries, and a handler runs on.      *)
FairSpec ==
    /\ Spec
    /\ WF_vars(Start \/ Merge)
    /\ \A h \in Handler :
          /\ \A m \in Mail : WF_vars(Offer(h, m))
          /\ WF_vars(Contains(h) \/ MxAnswer(h) \/ Provision(h) \/ Add(h) \/ Accept(h))

-----------------------------------------------------------------------------
(* A mail for a domain that points at this server is never refused for      *)
(* good, whatever fails while it is handled.                                *)
OursNeverRejected ==
    \A m \in Mail : mail[m] = "rejected" => RecipientOf[m] \cap Ours = {}

(* Mail is accepted only for domains that Stalwart serves or has served:    *)
(* never before the domain exists, and never for a domain of someone else   *)
(* unless the operator of Stalwart has added it.                            *)
AcceptedMeansKnown ==
    /\ \A m \in Mail : mail[m] = "accepted" => RecipientOf[m] # {} /\ RecipientOf[m] \subseteq known
    /\ cache \subseteq known

(* The daemon makes Stalwart serve no domain that points elsewhere.         *)
ProvisionsOnlyOurs == [][stalwart' \subseteq stalwart \cup Ours]_vars

(* From some moment on lookups, Stalwart, the cache file and the daemon     *)
(* itself do not fail any more.                                             *)
Failure == Crash \/ \E h \in Handler : Defer(h)
FailuresEnd == <>[][~Failure]_vars

(* The first mail of a new domain is not lost: however often it was         *)
(* deferred or left unanswered, and whatever was left half done, it is      *)
(* accepted once the failures end.                                          *)
FirstMailIsAccepted ==
    FailuresEnd =>
        \A m \in Mail :
            RecipientOf[m] # {} /\ RecipientOf[m] \subseteq Ours => <>(mail[m] = "accepted")
=============================================================================
