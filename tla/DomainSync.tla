----------------------------- MODULE DomainSync -----------------------------
(***************************************************************************)
(* The domain whitelist of the whole system.  The policy daemon adds a     *)
(* domain to Stalwart and to the domain cache when its first mail arrives; *)
(* the web API replaces the cache with Stalwart's list when an             *)
(* administrator or a public request synchronises; an administrator may    *)
(* freeze the public whitelist or point the system at another server.      *)
(*                                                                         *)
(* The cache is used here through what DomainCache promises (see           *)
(* AtomicWhitelist): its operations are single steps on the file and its   *)
(* generation.  An API thread is one request; the admin lock of            *)
(* src/src/api_server.py is the only lock the requests share, so the steps *)
(* are cut at every read or write of the shared state outside it, and      *)
(* inside it where an error or a crash may come between two writes.        *)
(***************************************************************************)
EXTENDS Integers, Sequences, FiniteSets

CONSTANTS
    ApiThread,  \* the requests the web API serves at a time
    Handler,    \* the policy daemon's connection handlers
    NoThread,   \* owner of the free admin lock
    Domain,     \* the domain names
    Ours,       \* the domains whose MX record points at this server
    Server,     \* the Stalwart servers the configuration may name
    Allowed,    \* the kinds of request each API thread makes
    MaxGen,     \* bound on the generations of the cache file
    MaxClient   \* bound on the JMAP clients the API creates

Request == {"public", "manual", "settings"}

ASSUME OursAssumption    == Ours \subseteq Domain
ASSUME AllowedAssumption == Allowed \in [ApiThread -> SUBSET Request]
ASSUME BoundAssumption   == MaxGen \in Nat /\ MaxClient \in Nat \ {0}
ASSUME ThreadAssumption  == NoThread \notin ApiThread

Attempts == 3                           \* range(3) in refresh_domains()

VARIABLES
    stalwart,   \* per server: the domains it serves
    config,     \* the server named in config.json
    cache,      \* the cache file: its generation and its domains
    autoSync,   \* the setting auto_sync_domains
    frozen,     \* the table frozen_domains
    clients,    \* the servers of the JMAP clients the API has made; the last
                \* one is app.state.jmap
    adminLock,  \* owner of app.state.admin_lock
    pc,         \* per API thread: next step
    kind,       \* per API thread: the request it serves
    gen,        \* per API thread: generation read before the listing
    client,     \* per API thread: its JMAP client
    values,     \* per API thread: the list it got from Stalwart
    tries,      \* per API thread: attempts begun
    want,       \* per API thread: the settings being saved
    hpc,        \* per handler: next step
    domain,     \* per handler: domain of the recipient
    server,     \* per handler: the server of its client
    boot,       \* policy daemon: "list", "merge" or "up"
    booted,     \* policy daemon: the domains Stalwart listed at startup
    accepted    \* history: domains accepted on the server in force

api     == <<kind, gen, client, values, tries, want>>
policy  == <<hpc, domain, server, boot, booted>>
site    == <<autoSync, frozen>>
vars    == <<stalwart, config, cache, site, clients, adminLock, pc, api, policy, accepted>>

-----------------------------------------------------------------------------
NoGen  == -1
Jmap   == Len(clients)          \* the identity of app.state.jmap
InUse  == clients[Jmap]         \* the server it talks to

(* A settings request: at most one new server and one new auto_sync_domains.*)
AtMostOne(S) == {{}} \cup {{x} : x \in S}
Changes      == [server : AtMostOne(Server), auto : AtMostOne(BOOLEAN)]
NoChange     == [server |-> {}, auto |-> {}]

Label == {"idle", "generation", "list", "listing", "enter", "replace", "freeze",
          "config", "client", "copy", "save"}

TypeOK ==
    /\ stalwart \in [Server -> SUBSET Domain]
    /\ config \in Server
    /\ cache \in [gen : 0 .. MaxGen, set : SUBSET Domain]
    /\ autoSync \in BOOLEAN
    /\ frozen \in SUBSET Domain
    /\ clients \in Seq(Server) /\ Jmap \in 1 .. MaxClient
    /\ adminLock \in ApiThread \cup {NoThread}
    /\ pc \in [ApiThread -> Label]
    /\ kind \in [ApiThread -> Request \cup {"none"}]
    /\ gen \in [ApiThread -> NoGen .. MaxGen]
    /\ client \in [ApiThread -> 0 .. MaxClient]
    /\ values \in [ApiThread -> SUBSET Domain]
    /\ tries \in [ApiThread -> 0 .. Attempts]
    /\ want \in [ApiThread -> Changes]
    /\ hpc \in [Handler -> {"idle", "contains", "provision", "add"}]
    /\ domain \in [Handler -> AtMostOne(Domain)]
    /\ server \in [Handler -> AtMostOne(Server)]
    /\ boot \in {"list", "merge", "up"}
    /\ booted \in SUBSET Domain
    /\ accepted \in SUBSET Domain

Init ==
    /\ config \in Server
    /\ stalwart \in [Server -> SUBSET Domain]
    /\ cache = [gen |-> 0, set |-> stalwart[config]]
    /\ autoSync = TRUE
    /\ frozen = {}
    /\ clients = <<config>>
    /\ adminLock = NoThread
    /\ pc = [t \in ApiThread |-> "idle"]
    /\ kind = [t \in ApiThread |-> "none"]
    /\ gen = [t \in ApiThread |-> NoGen]
    /\ client = [t \in ApiThread |-> 0]
    /\ values = [t \in ApiThread |-> {}]
    /\ tries = [t \in ApiThread |-> 0]
    /\ want = [t \in ApiThread |-> NoChange]
    /\ hpc = [h \in Handler |-> "idle"]
    /\ domain = [h \in Handler |-> {}]
    /\ server = [h \in Handler |-> {}]
    /\ boot = "up"
    /\ booted = {}
    /\ accepted = {}

-----------------------------------------------------------------------------
(* Helpers.                                                                 *)

Goto(t, label) == pc' = [pc EXCEPT ![t] = label]
LockFree == adminLock = NoThread

(* The bound: what may write the cache file begins only if a generation is  *)
(* left for each of its writes.                                             *)
Writes == Cardinality({t \in ApiThread : kind[t] \in {"public", "manual"}})
          + Cardinality({h \in Handler : hpc[h] # "idle"})
          + IF boot = "up" THEN 0 ELSE 1
Room == cache.gen + Writes < MaxGen

(* The requests in T end, forget their locals and release the admin lock.   *)
End(T) ==
    /\ pc'     = [t \in ApiThread |-> IF t \in T THEN "idle" ELSE pc[t]]
    /\ kind'   = [t \in ApiThread |-> IF t \in T THEN "none" ELSE kind[t]]
    /\ gen'    = [t \in ApiThread |-> IF t \in T THEN NoGen ELSE gen[t]]
    /\ client' = [t \in ApiThread |-> IF t \in T THEN 0 ELSE client[t]]
    /\ values' = [t \in ApiThread |-> IF t \in T THEN {} ELSE values[t]]
    /\ tries'  = [t \in ApiThread |-> IF t \in T THEN 0 ELSE tries[t]]
    /\ want'   = [t \in ApiThread |-> IF t \in T THEN NoChange ELSE want[t]]
    /\ adminLock' = IF adminLock \in T THEN NoThread ELSE adminLock

-----------------------------------------------------------------------------
(* refresh_domains(): the manual one behind POST /sync-domains, the public  *)
(* one behind GET /domains and an address on an unknown domain.             *)

BeginPublic(t) ==
    /\ pc[t] = "idle" /\ "public" \in Allowed[t]
    /\ Room
    /\ autoSync                         \* else the request refreshes nothing
    /\ kind' = [kind EXCEPT ![t] = "public"]
    /\ Goto(t, "generation")
    /\ UNCHANGED <<stalwart, config, cache, site, clients, adminLock, gen, client,
                   values, tries, want, policy, accepted>>

BeginManual(t) ==
    /\ pc[t] = "idle" /\ "manual" \in Allowed[t]
    /\ Room
    /\ LockFree
    /\ kind' = [kind EXCEPT ![t] = "manual"]
    /\ client' = [client EXCEPT ![t] = Jmap]
    /\ Goto(t, "generation")
    /\ UNCHANGED <<stalwart, config, cache, site, clients, adminLock, gen,
                   values, tries, want, policy, accepted>>

ReadGeneration(t) ==
    /\ pc[t] = "generation"
    /\ gen' = [gen EXCEPT ![t] = cache.gen]
    /\ tries' = [tries EXCEPT ![t] = @ + 1]
    /\ Goto(t, IF kind[t] = "public" THEN "list" ELSE "listing")
    /\ UNCHANGED <<stalwart, config, cache, site, clients, adminLock, kind, client,
                   values, want, policy, accepted>>

(* The public refresh lists under the admin lock, if auto-sync is still on. *)
LockToList(t) ==
    /\ pc[t] = "list"
    /\ LockFree
    /\ IF autoSync
       THEN /\ adminLock' = t
            /\ client' = [client EXCEPT ![t] = Jmap]
            /\ Goto(t, "listing")
            /\ UNCHANGED <<kind, gen, values, tries, want>>
       ELSE End({t})
    /\ UNCHANGED <<stalwart, config, cache, site, clients, policy, accepted>>

UsableAny(list) == TRUE                 \* mutant: an empty list is published
Usable(list) == list # {}

(* list_domains(): an empty list is an error.                               *)
List(t) ==
    /\ pc[t] = "listing"
    /\ Usable(stalwart[clients[client[t]]])
    /\ values' = [values EXCEPT ![t] = stalwart[clients[client[t]]]]
    /\ adminLock' = IF adminLock = t THEN NoThread ELSE adminLock
    /\ Goto(t, "enter")
    /\ UNCHANGED <<stalwart, config, cache, site, clients, kind, gen, client,
                   tries, want, policy, accepted>>

(* Any exception ends the request and is recorded as a failed sync: reading *)
(* the generation, the listing, writing the cache file or the table.        *)
SyncFails(t) ==
    /\ pc[t] \in {"generation", "listing", "replace", "freeze"}
    /\ End({t})
    /\ UNCHANGED <<stalwart, config, cache, site, clients, policy, accepted>>

SameClientAny(t) == TRUE                \* mutant: the client is not compared
SameClient(t) == client[t] = Jmap

StillWantedAny(t) == TRUE               \* mutant: nor is the setting read again
StillWanted(t) == kind[t] = "public" => autoSync

(* The checks under the lock the list is published under.                   *)
Enter(t) ==
    /\ pc[t] = "enter"
    /\ LockFree
    /\ IF SameClient(t) /\ StillWanted(t)
       THEN /\ adminLock' = t
            /\ Goto(t, "replace")
            /\ UNCHANGED api
       ELSE End({t})
    /\ UNCHANGED <<stalwart, config, cache, site, clients, policy, accepted>>

SameGenerationAny(t) == TRUE            \* mutant: replace() without expectation
SameGeneration(t) == cache.gen = gen[t]

AttemptLeft(t) == tries[t] < Attempts

LockAfterRetryKept == adminLock         \* mutant: the next attempt keeps the lock
LockAfterRetry == NoThread

(* DomainCache.replace() with the expected generation.                      *)
Replace(t) ==
    /\ pc[t] = "replace"
    /\ IF SameGeneration(t)
       THEN /\ cache.gen < MaxGen
            /\ cache' = [gen |-> cache.gen + 1, set |-> values[t]]
            /\ Goto(t, "freeze")
            /\ UNCHANGED <<adminLock, api>>
       ELSE /\ UNCHANGED cache
            /\ IF AttemptLeft(t)
               THEN /\ Goto(t, "generation")
                    /\ values' = [values EXCEPT ![t] = {}]
                    /\ gen' = [gen EXCEPT ![t] = NoGen]
                    /\ adminLock' = LockAfterRetry
                    /\ UNCHANGED <<kind, client, tries, want>>
               ELSE End({t})
    /\ UNCHANGED <<stalwart, config, site, clients, policy, accepted>>

(* With auto-sync off the public list is the frozen one: it is replaced too.*)
Freeze(t) ==
    /\ pc[t] = "freeze"
    /\ frozen' = IF autoSync THEN frozen ELSE values[t]
    /\ End({t})
    /\ UNCHANGED <<stalwart, config, cache, autoSync, clients, policy, accepted>>

-----------------------------------------------------------------------------
(* PUT /settings: one critical section of the admin lock, which writes the  *)
(* configuration file, the client, the frozen table and the settings one    *)
(* after the other.                                                         *)

EnterSettings(t, c) ==
    /\ pc[t] = "idle" /\ "settings" \in Allowed[t]
    /\ LockFree
    /\ c.server # {} => Jmap < MaxClient
    /\ adminLock' = t
    /\ kind' = [kind EXCEPT ![t] = "settings"]
    /\ want' = [want EXCEPT ![t] = c]
    /\ Goto(t, IF c.server # {} THEN "config" ELSE "copy")
    /\ UNCHANGED <<stalwart, config, cache, site, clients, gen, client, values,
                   tries, policy, accepted>>

(* ConfigStore.update().                                                    *)
SaveConfig(t) ==
    /\ pc[t] = "config"
    /\ config' \in want[t].server
    /\ Goto(t, "client")
    /\ UNCHANGED <<stalwart, cache, site, clients, adminLock, api, policy, accepted>>

(* What was accepted on one server says nothing of another.                 *)
AcceptedOn(s) == IF s = InUse THEN accepted ELSE {}

NewClient(t) ==
    /\ pc[t] = "client"
    /\ Jmap < MaxClient
    /\ clients' = Append(clients, config)
    /\ accepted' = AcceptedOn(config)
    /\ Goto(t, "copy")
    /\ UNCHANGED <<stalwart, config, cache, site, adminLock, api, policy>>

(* Turning auto-sync off first copies the whitelist into the table.         *)
CopyWhitelist(t) ==
    /\ pc[t] = "copy"
    /\ frozen' = IF autoSync /\ want[t].auto = {FALSE} THEN cache.set ELSE frozen
    /\ Goto(t, "save")
    /\ UNCHANGED <<stalwart, config, cache, autoSync, clients, adminLock, api,
                   policy, accepted>>

SaveSettings(t) ==
    /\ pc[t] = "save"
    /\ autoSync' = IF want[t].auto = {} THEN autoSync ELSE FALSE \notin want[t].auto
    /\ End({t})
    /\ UNCHANGED <<stalwart, config, cache, frozen, clients, policy, accepted>>

(* A write fails: what was written before it stays, and update() may raise  *)
(* after the new configuration file is in place.                            *)
SettingsFail(t) ==
    /\ pc[t] \in {"config", "copy", "save"}
    /\ \/ UNCHANGED config
       \/ pc[t] = "config" /\ config' \in want[t].server
    /\ End({t})
    /\ UNCHANGED <<stalwart, cache, site, clients, policy, accepted>>

-----------------------------------------------------------------------------
(* The policy daemon: one mail for d per handler run.                       *)

BeginMail(h, d) ==
    /\ hpc[h] = "idle" /\ boot = "up"
    /\ Room
    /\ server' = [server EXCEPT ![h] = {config}]
    /\ domain' = [domain EXCEPT ![h] = {d}]
    /\ hpc' = [hpc EXCEPT ![h] = "contains"]
    /\ UNCHANGED <<stalwart, config, cache, site, clients, adminLock, pc, api,
                   boot, booted, accepted>>

EndMail(H) ==
    /\ hpc'    = [h \in Handler |-> IF h \in H THEN "idle" ELSE hpc[h]]
    /\ server' = [h \in Handler |-> IF h \in H THEN {} ELSE server[h]]
    /\ domain' = [h \in Handler |-> IF h \in H THEN {} ELSE domain[h]]

(* A cached domain is answered OK at once, one whose MX record names        *)
(* another server is rejected, a failed lookup is deferred.                 *)
LookUp(h) ==
    /\ hpc[h] = "contains"
    /\ \/ /\ domain[h] \cap cache.set = {}
          /\ domain[h] \subseteq Ours
          /\ hpc' = [hpc EXCEPT ![h] = "provision"]
          /\ UNCHANGED <<server, domain>>
       \/ EndMail({h})
    /\ UNCHANGED <<stalwart, config, cache, site, clients, adminLock, pc, api,
                   boot, booted, accepted>>

(* provision_domain(): creates the domain or finds that it exists; on an    *)
(* error, before or after Stalwart has done its part, the mail is deferred. *)
Provisioned(h) == [s \in Server |-> stalwart[s] \cup {d \in domain[h] : s \in server[h]}]

Provision(h) ==
    /\ hpc[h] = "provision"
    /\ \/ /\ stalwart' = Provisioned(h)
          /\ hpc' = [hpc EXCEPT ![h] = "add"]
          /\ UNCHANGED <<server, domain>>
       \/ /\ stalwart' \in {stalwart, Provisioned(h)}
          /\ EndMail({h})
    /\ UNCHANGED <<config, cache, site, clients, adminLock, pc, api,
                   boot, booted, accepted>>

CacheWith(S) ==
    /\ cache.gen < MaxGen
    /\ cache' = [gen |-> cache.gen + 1, set |-> cache.set \cup S]

(* DomainCache.add(), then the answer OK.                                   *)
Add(h) ==
    /\ hpc[h] = "add"
    /\ CacheWith(domain[h])
    /\ accepted' = IF server[h] = {InUse} /\ domain[h] \subseteq stalwart[InUse]
                   THEN accepted \cup domain[h] ELSE accepted
    /\ EndMail({h})
    /\ UNCHANGED <<stalwart, config, site, clients, adminLock, pc, api, boot, booted>>

(* add() raises, before the publication or after it: the connection closes  *)
(* without an answer.                                                       *)
AddFails(h) ==
    /\ hpc[h] = "add"
    /\ UNCHANGED cache \/ CacheWith(domain[h])
    /\ EndMail({h})
    /\ UNCHANGED <<stalwart, config, site, clients, adminLock, pc, api,
                   boot, booted, accepted>>

(* main(): what Stalwart lists, if it answers, is merged into the cache.    *)
BootList ==
    /\ boot = "list"
    /\ booted' \in {stalwart[config], {}}
    /\ boot' = IF booted' = {} THEN "up" ELSE "merge"
    /\ UNCHANGED <<stalwart, config, cache, site, clients, adminLock, pc, api,
                   hpc, domain, server, accepted>>

BootMerge ==
    /\ boot = "merge"
    /\ CacheWith(booted)
    /\ booted' = {}
    /\ boot' = "up"
    /\ UNCHANGED <<stalwart, config, site, clients, adminLock, pc, api, hpc, domain, server,
                   accepted>>

-----------------------------------------------------------------------------
(* Crashes and the operator of Stalwart.                                    *)

PolicyRestarts ==
    /\ cache.gen + Writes < MaxGen
    /\ EndMail(Handler)
    /\ boot' = "list"
    /\ booted' = {}
    /\ UNCHANGED <<stalwart, config, cache, site, clients, adminLock, pc, api, accepted>>

ApiRestarts ==
    /\ Jmap < MaxClient
    /\ clients' = Append(clients, config)
    /\ accepted' = AcceptedOn(config)
    /\ End(ApiThread)
    /\ UNCHANGED <<stalwart, config, cache, site, policy>>

DomainRemoved(s, d) ==
    /\ stalwart' = [stalwart EXCEPT ![s] = @ \ {d}]
    /\ accepted' = IF s = InUse THEN accepted \ {d} ELSE accepted
    /\ UNCHANGED <<config, cache, site, clients, adminLock, pc, api, policy>>

-----------------------------------------------------------------------------
Sync(t) ==
    \/ ReadGeneration(t) \/ LockToList(t) \/ List(t) \/ Enter(t) \/ Replace(t) \/ Freeze(t)

Settings(t) == SaveConfig(t) \/ NewClient(t) \/ CopyWhitelist(t) \/ SaveSettings(t)

Begin(t) ==
    \/ BeginPublic(t) \/ BeginManual(t)
    \/ \E c \in Changes : EnterSettings(t, c)

Handle(h) == LookUp(h) \/ Provision(h) \/ Add(h) \/ AddFails(h)

Next ==
    \/ \E t \in ApiThread :
          Begin(t) \/ Sync(t) \/ SyncFails(t) \/ Settings(t) \/ SettingsFail(t)
    \/ \E h \in Handler : (\E d \in Domain : BeginMail(h, d)) \/ Handle(h)
    \/ BootList \/ BootMerge \/ PolicyRestarts \/ ApiRestarts
    \/ \E s \in Server, d \in Domain : DomainRemoved(s, d)

Spec == Init /\ [][Next]_vars

(* Requests run to their end; Stalwart answers or times out.                *)
FairSpec ==
    Spec /\ \A t \in ApiThread :
              /\ WF_vars(Sync(t) \/ Settings(t) \/ SyncFails(t))

-----------------------------------------------------------------------------
(* A domain whose first mail was accepted stays in the cache, and so in the *)
(* public whitelist while auto-sync is on, until Stalwart loses it or the   *)
(* system is pointed at another server: no synchronisation publishes a list *)
(* that was made before the domain was provisioned.                         *)
AcceptedStayCached == accepted \subseteq cache.set

(* A published list comes from the client in use at that moment.            *)
PublishedByClientInUse ==
    [][\A t \in ApiThread :
         pc[t] = "replace" /\ pc'[t] = "freeze" => client[t] = Jmap]_vars

(* While auto-sync is off the public whitelist changes only by a manual     *)
(* synchronisation: not by mail, by public requests or by restarts.         *)
FrozenStaysFrozen ==
    [][~autoSync /\ ~autoSync' /\ frozen' # frozen =>
         \E t \in ApiThread : kind[t] = "manual" /\ pc[t] = "freeze"]_vars

(* No synchronisation empties the cache.                                    *)
NeverEmptied == [][cache.set # {} => cache'.set # {}]_vars

(* No request keeps the admin lock for ever.                                *)
AdminLockIsReleased == \A t \in ApiThread : adminLock = t ~> adminLock # t
=============================================================================
