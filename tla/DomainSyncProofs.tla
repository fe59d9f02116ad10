--------------------------- MODULE DomainSyncProofs ---------------------------
(* Proofs about DomainSync, for every number of requests and connections, all*)
(* domains and servers and every bound on the versions and the clients.      *)
EXTENDS DomainSync, TLAPS

Syncing == {"generation", "list", "listing", "enter", "replace", "freeze"}
Saves   == {"config", "client", "copy", "save"}

(* What a request has got by each of its steps.                              *)
Running ==
    \A t \in ApiThread :
        /\ pc[t] \in Syncing => kind[t] \in {"public", "manual"}
        /\ pc[t] \in Saves => kind[t] = "settings"
        /\ pc[t] = "idle" => tries[t] = 0
        /\ pc[t] = "generation" => tries[t] < Attempts
        /\ gen[t] <= cache.gen /\ client[t] <= Jmap
        /\ pc[t] \in Syncing /\ (kind[t] = "manual" \/ pc[t] \notin {"generation", "list"})
              => client[t] \in 1 .. Jmap
        /\ pc[t] \in {"enter", "replace", "freeze"} => values[t] # {}

(* What the admin lock keeps as it was checked.                              *)
LockedFor(t) ==
    /\ pc[t] \in {"replace", "freeze"} \cup Saves => adminLock = t
    /\ pc[t] \in {"replace", "freeze"} =>
          client[t] = Jmap /\ (kind[t] = "public" => autoSync)

Locked == \A t \in ApiThread : LockedFor(t)

(* A list that is still to be published, and may be, has what was accepted.  *)
Fresh ==
    /\ AcceptedStayCached
    /\ accepted \subseteq stalwart[InUse]
    /\ \A t \in ApiThread :
          pc[t] \in {"enter", "replace"} /\ gen[t] = cache.gen /\ client[t] = Jmap
              => accepted \subseteq values[t]

USE OursAssumption, BoundAssumption, ThreadAssumption
    DEF api, policy, site, NoGen, Attempts

-----------------------------------------------------------------------------
LEMMA Appended ==
    ASSUME TypeOK, NEW s \in Server
    PROVE  /\ Append(clients, s) \in Seq(Server)
           /\ Len(Append(clients, s)) = Jmap + 1
           /\ Append(clients, s)[Jmap + 1] = s
           /\ \A i \in 1 .. Jmap : Append(clients, s)[i] = clients[i]
BY DEF TypeOK, Jmap

LEMMA InUseType == TypeOK => InUse \in Server /\ \A i \in 1 .. Jmap : clients[i] \in Server
BY DEF TypeOK, InUse, Jmap

LEMMA EndType ==
    ASSUME TypeOK, NEW T \in SUBSET ApiThread, End(T)
    PROVE  /\ pc' \in [ApiThread -> Label]
           /\ kind' \in [ApiThread -> Request \cup {"none"}]
           /\ gen' \in [ApiThread -> NoGen .. MaxGen]
           /\ client' \in [ApiThread -> 0 .. MaxClient]
           /\ values' \in [ApiThread -> SUBSET Domain]
           /\ tries' \in [ApiThread -> 0 .. Attempts]
           /\ want' \in [ApiThread -> Changes]
           /\ adminLock' \in ApiThread \cup {NoThread}
<1>1. NoChange \in Changes
  BY DEF NoChange, Changes, AtMostOne
<1>2. QED
  BY <1>1 DEF End, TypeOK, Label

LEMMA EndMailType ==
    ASSUME TypeOK, NEW H \in SUBSET Handler, EndMail(H)
    PROVE  /\ hpc' \in [Handler -> {"idle", "contains", "provision", "add"}]
           /\ domain' \in [Handler -> AtMostOne(Domain)]
           /\ server' \in [Handler -> AtMostOne(Server)]
BY DEF EndMail, TypeOK, AtMostOne

LEMMA ServedType ==
    ASSUME TypeOK, NEW h \in Handler
    PROVE  domain[h] \in SUBSET Domain
<1>1. domain[h] \in AtMostOne(Domain)
  BY DEF TypeOK
<1>2. QED
  BY <1>1 DEF AtMostOne

LEMMA ProvisionedType ==
    ASSUME TypeOK, NEW h \in Handler
    PROVE  /\ Provisioned(h) \in [Server -> SUBSET Domain]
           /\ \A s \in Server : stalwart[s] \subseteq Provisioned(h)[s]
BY ServedType DEF TypeOK, Provisioned

(* The threads in T end: what Running says of the others is not disturbed.   *)
LEMMA EndRuns ==
    ASSUME TypeOK, Running, NEW T \in SUBSET ApiThread, End(T),
           cache'.gen >= cache.gen, Jmap' >= Jmap, cache'.gen \in Int, Jmap' \in Nat
    PROVE  Running'
BY DEF TypeOK, Running, End, Syncing, Saves

LEMMA SameClients == ASSUME UNCHANGED clients PROVE Jmap' = Jmap
BY DEF Jmap

LEMMA EndKeeps ==
    ASSUME TypeOK, Running, NEW t \in ApiThread, End({t}),
           UNCHANGED <<stalwart, cache, clients, policy, accepted>>,
           config' \in Server, autoSync' \in BOOLEAN, frozen' \in SUBSET Domain
    PROVE  (TypeOK /\ Running)'
<1>1. Jmap' = Jmap /\ Jmap \in Nat /\ cache.gen \in Int
  BY SameClients DEF TypeOK
<1>2. Running'
  BY <1>1, EndRuns
<1>3. QED
  BY <1>1, <1>2, EndType DEF TypeOK

LEMMA TypeInit == Init => TypeOK /\ Running
<1> SUFFICES ASSUME Init PROVE TypeOK /\ Running
  OBVIOUS
<1>1. clients \in Seq(Server) /\ Jmap = 1
  BY DEF Init, Jmap
<1>2. NoChange \in Changes /\ stalwart[config] \in SUBSET Domain
  BY DEF Init, NoChange, Changes, AtMostOne
<1>3. QED
  BY <1>1, <1>2 DEF Init, TypeOK, Running, Syncing, Saves, Label, Request, AtMostOne

-----------------------------------------------------------------------------
(* Every step, as one of a request, of a connection or of none.              *)
LEMMA TypeNext == TypeOK /\ Running /\ [Next]_vars => (TypeOK /\ Running)'
<1> SUFFICES ASSUME TypeOK, Running, [Next]_vars PROVE (TypeOK /\ Running)'
  OBVIOUS
<1> USE DEF Label, Request
<1> DEFINE Kept == (TypeOK /\ Running)'
<1>1. cache.gen \in 0 .. MaxGen /\ Jmap \in 1 .. MaxClient /\ cache.set \in SUBSET Domain
  BY DEF TypeOK
<1>2. ASSUME NEW t \in ApiThread, BeginPublic(t) PROVE Kept
  <2>1. Jmap' = Jmap
    BY <1>2, SameClients DEF BeginPublic
  <2>2. TypeOK'
    BY <1>2, <2>1, <1>1 DEF TypeOK, Goto, BeginPublic
  <2>3. Running'
    BY <1>2, <2>1, <1>1 DEF TypeOK, Running, Syncing, Saves, Goto, BeginPublic
  <2>4. QED
    BY <2>2, <2>3
<1>3. ASSUME NEW t \in ApiThread, BeginManual(t) PROVE Kept
  <2>1. Jmap' = Jmap
    BY <1>3, SameClients DEF BeginManual
  <2>2. TypeOK'
    BY <1>3, <2>1, <1>1 DEF TypeOK, Goto, BeginManual
  <2>3. Running'
    BY <1>3, <2>1, <1>1 DEF TypeOK, Running, Syncing, Saves, Goto, BeginManual
  <2>4. QED
    BY <2>2, <2>3
<1>4. ASSUME NEW t \in ApiThread, ReadGeneration(t) PROVE Kept
  <2>1. Jmap' = Jmap
    BY <1>4, SameClients DEF ReadGeneration
  <2>2. gen' \in [ApiThread -> NoGen .. MaxGen]
    BY <1>4, <1>1 DEF ReadGeneration, TypeOK
  <2>3. tries[t] \in 0 .. Attempts /\ tries[t] < Attempts
    BY <1>4 DEF ReadGeneration, TypeOK, Running
  <2>4. tries[t] + 1 \in 0 .. Attempts
    BY <2>3
  <2>5. tries' = [tries EXCEPT ![t] = tries[t] + 1]
    BY <1>4 DEF ReadGeneration
  <2>6. tries' \in [ApiThread -> 0 .. Attempts]
    BY <2>4, <2>5 DEF TypeOK
  <2>7. pc' \in [ApiThread -> Label]
    BY <1>4 DEF ReadGeneration, TypeOK, Goto
  <2>8. TypeOK'
    BY <1>4, <2>1, <2>2, <2>6, <2>7 DEF ReadGeneration, TypeOK
  <2>9. Running'
    BY <1>4, <2>1, <1>1 DEF TypeOK, Running, Syncing, Saves, Goto, ReadGeneration
  <2>10. QED
    BY <2>8, <2>9
<1>5. ASSUME NEW t \in ApiThread, LockToList(t) PROVE Kept
  <2>1. CASE autoSync
    <3>1. Jmap' = Jmap
      BY <1>5, <2>1, SameClients DEF LockToList
    <3>2. Jmap \in 0 .. MaxClient /\ client' = [client EXCEPT ![t] = Jmap]
      BY <1>5, <2>1, <1>1 DEF LockToList
    <3>3. client' \in [ApiThread -> 0 .. MaxClient]
      BY <3>2 DEF TypeOK
    <3>4. pc' \in [ApiThread -> Label] /\ adminLock' = t
      BY <1>5, <2>1 DEF LockToList, TypeOK, Goto
    <3>5. TypeOK'
      BY <1>5, <2>1, <3>1, <3>3, <3>4 DEF LockToList, TypeOK
    <3>6. Running'
      BY <1>5, <2>1, <3>1, <1>1 DEF TypeOK, Running, Syncing, Saves, Goto, LockToList
    <3>7. QED
      BY <3>5, <3>6
  <2>2. CASE ~autoSync
    BY <1>5, <2>2, EndKeeps DEF TypeOK, LockToList
  <2>3. QED
    BY <2>1, <2>2
<1>6. ASSUME NEW t \in ApiThread, List(t) PROVE Kept
  <2>1. client[t] \in 1 .. Jmap
    BY <1>6 DEF List, Running, Syncing
  <2>2. stalwart[clients[client[t]]] \in SUBSET Domain
    BY <2>1, InUseType DEF TypeOK
  <2>3. stalwart[clients[client[t]]] # {}
    BY <1>6 DEF List, Usable
  <2>4. Jmap' = Jmap
    BY <1>6, SameClients DEF List
  <2>5. TypeOK'
    BY <1>6, <2>2, <2>4 DEF List, TypeOK, Goto
  <2>6. Running'
    BY <1>6, <2>3, <2>4 DEF List, TypeOK, Running, Syncing, Saves, Goto
  <2>7. QED
    BY <2>5, <2>6
<1>7. ASSUME NEW t \in ApiThread, SyncFails(t) PROVE Kept
  BY <1>7, EndKeeps DEF TypeOK, SyncFails
<1>8. ASSUME NEW t \in ApiThread, Enter(t) PROVE Kept
  <2>1. CASE SameClient(t) /\ StillWanted(t)
    <3>1. Jmap' = Jmap
      BY <1>8, <2>1, SameClients DEF Enter
    <3>2. TypeOK'
      BY <1>8, <2>1, <3>1, <1>1 DEF TypeOK, Goto, Enter
    <3>3. Running'
      BY <1>8, <2>1, <3>1, <1>1 DEF TypeOK, Running, Syncing, Saves, Goto, Enter
    <3>4. QED
      BY <3>2, <3>3
  <2>2. CASE ~(SameClient(t) /\ StillWanted(t))
    BY <1>8, <2>2, EndKeeps DEF TypeOK, Enter
  <2>3. QED
    BY <2>1, <2>2
<1>9. ASSUME NEW t \in ApiThread, Replace(t) PROVE Kept
  <2>1. CASE SameGeneration(t)
    <3>1. Jmap' = Jmap /\ values[t] \in SUBSET Domain
      BY <1>9, SameClients DEF Replace, TypeOK
    <3>2. cache' = [gen |-> cache.gen + 1, set |-> values[t]] /\ cache'.gen = cache.gen + 1
      BY <1>9, <2>1 DEF Replace
    <3>3. pc' = [pc EXCEPT ![t] = "freeze"]
      BY <1>9, <2>1 DEF Replace, Goto
    <3>4. pc' \in [ApiThread -> Label]
      BY <3>3 DEF TypeOK
    <3>5. cache.gen < MaxGen
      BY <1>9, <2>1 DEF Replace
    <3>6. cache' \in [gen : 0 .. MaxGen, set : SUBSET Domain]
      BY <3>1, <3>2, <3>5, <1>1
    <3>7. TypeOK'
      BY <1>9, <2>1, <3>1, <3>4, <3>6 DEF TypeOK, Replace
    <3>8. Running'
      BY <1>9, <2>1, <3>1, <3>2, <1>1 DEF TypeOK, Running, Syncing, Saves, Goto, Replace
    <3>9. QED
      BY <3>7, <3>8
  <2>2. CASE ~SameGeneration(t) /\ AttemptLeft(t)
    <3>1. Jmap' = Jmap
      BY <1>9, <2>2, SameClients DEF Replace
    <3>2. NoGen \in NoGen .. MaxGen /\ gen' = [gen EXCEPT ![t] = NoGen]
      BY <1>9, <2>2 DEF Replace
    <3>3. gen' \in [ApiThread -> NoGen .. MaxGen]
      BY <3>2 DEF TypeOK
    <3>4. values' \in [ApiThread -> SUBSET Domain]
      BY <1>9, <2>2 DEF Replace, TypeOK
    <3>5. pc' \in [ApiThread -> Label] /\ adminLock' = NoThread
      BY <1>9, <2>2 DEF Replace, TypeOK, Goto, LockAfterRetry
    <3>6. TypeOK'
      BY <1>9, <2>2, <3>1, <3>3, <3>4, <3>5 DEF Replace, TypeOK
    <3>7. Running'
      BY <1>9, <2>2, <3>1, <1>1
         DEF TypeOK, Running, Syncing, Saves, Goto, Replace, AttemptLeft
    <3>8. QED
      BY <3>6, <3>7
  <2>3. CASE ~SameGeneration(t) /\ ~AttemptLeft(t)
    BY <1>9, <2>3, EndKeeps DEF TypeOK, Replace
  <2>4. QED
    BY <2>1, <2>2, <2>3
<1>10. ASSUME NEW t \in ApiThread, Freeze(t) PROVE Kept
  BY <1>10, EndKeeps DEF TypeOK, Freeze
<1>11. ASSUME NEW t \in ApiThread, NEW c \in Changes, EnterSettings(t, c) PROVE Kept
  <2>1. Jmap' = Jmap
    BY <1>11, SameClients DEF EnterSettings
  <2>2. TypeOK'
    BY <1>11, <2>1, <1>1 DEF TypeOK, Goto, EnterSettings
  <2>3. Running'
    BY <1>11, <2>1, <1>1 DEF TypeOK, Running, Syncing, Saves, Goto, EnterSettings
  <2>4. QED
    BY <2>2, <2>3
<1>12. ASSUME NEW t \in ApiThread, SaveConfig(t) PROVE Kept
  <2>1. want[t].server \in AtMostOne(Server)
    BY <1>12 DEF TypeOK, Changes
  <2>2. config' \in Server
    BY <1>12, <2>1 DEF SaveConfig, AtMostOne
  <2>3. Jmap' = Jmap
    BY <1>12, SameClients DEF SaveConfig
  <2>4. QED
    BY <1>12, <2>2, <2>3 DEF TypeOK, Running, Syncing, Saves, Goto, SaveConfig
<1>13. ASSUME NEW t \in ApiThread, NewClient(t) PROVE Kept
  <2>1. clients' \in Seq(Server) /\ Jmap' = Jmap + 1
    BY <1>13, Appended DEF NewClient, TypeOK, Jmap
  <2>2. accepted' \in SUBSET Domain
    BY <1>13 DEF NewClient, AcceptedOn, TypeOK
  <2>3. QED
    BY <1>13, <2>1, <2>2, <1>1 DEF TypeOK, Running, Syncing, Saves, Goto, NewClient
<1>14. ASSUME NEW t \in ApiThread, CopyWhitelist(t) PROVE Kept
  BY <1>14 DEF TypeOK, Running, Syncing, Saves, Jmap, Goto, CopyWhitelist
<1>15. ASSUME NEW t \in ApiThread, SaveSettings(t) PROVE Kept
  <2>1. autoSync' \in BOOLEAN
    BY <1>15 DEF SaveSettings, TypeOK
  <2>2. QED
    BY <1>15, <2>1, EndKeeps DEF TypeOK, SaveSettings
<1>16. ASSUME NEW t \in ApiThread, SettingsFail(t) PROVE Kept
  <2>1. want[t].server \in AtMostOne(Server)
    BY <1>16 DEF TypeOK, Changes
  <2>2. config' \in Server
    BY <1>16, <2>1 DEF SettingsFail, AtMostOne, TypeOK
  <2>3. QED
    BY <1>16, <2>2, EndKeeps DEF TypeOK, SettingsFail
<1>17. ASSUME NEW h \in Handler, NEW d \in Domain, BeginMail(h, d) PROVE Kept
  BY <1>17 DEF TypeOK, Running, Jmap, AtMostOne, BeginMail
<1>18. ASSUME NEW h \in Handler, LookUp(h) PROVE Kept
  BY <1>18, EndMailType DEF TypeOK, Running, Jmap, LookUp
<1>19. ASSUME NEW h \in Handler, Provision(h) PROVE Kept
  <2>1. Jmap' = Jmap /\ Running'
    BY <1>19, SameClients DEF Provision, Running, Jmap
  <2>2. stalwart' \in [Server -> SUBSET Domain]
    BY <1>19, ProvisionedType DEF Provision, TypeOK
  <2>3. TypeOK'
    BY <1>19, <2>1, <2>2, EndMailType DEF TypeOK, Provision
  <2>4. QED
    BY <2>1, <2>3
<1>20. ASSUME NEW h \in Handler, Add(h) PROVE Kept
  <2>1. domain[h] \in SUBSET Domain
    BY <1>20, ServedType
  <2>2. QED
    BY <1>20, <2>1, EndMailType DEF TypeOK, Running, Jmap, Add, CacheWith
<1>21. ASSUME NEW h \in Handler, AddFails(h) PROVE Kept
  <2>1. domain[h] \in SUBSET Domain
    BY <1>21, ServedType
  <2>2. cache' \in [gen : 0 .. MaxGen, set : SUBSET Domain] /\ cache'.gen >= cache.gen
    BY <1>21, <2>1 DEF TypeOK, AddFails, CacheWith
  <2>3. QED
    BY <1>21, <2>1, <2>2, EndMailType DEF TypeOK, Running, Jmap, AddFails
<1>22. ASSUME BootList PROVE Kept
  BY <1>22 DEF TypeOK, Running, Jmap, BootList
<1>23. ASSUME BootMerge PROVE Kept
  BY <1>23 DEF TypeOK, Running, Jmap, BootMerge, CacheWith
<1>24. ASSUME PolicyRestarts PROVE Kept
  BY <1>24, EndMailType DEF TypeOK, Running, Jmap, PolicyRestarts
<1>25. ASSUME ApiRestarts PROVE Kept
  <2>1. clients' \in Seq(Server) /\ Jmap' = Jmap + 1
    BY <1>25, Appended DEF ApiRestarts, TypeOK, Jmap
  <2>2. accepted' \in SUBSET Domain
    BY <1>25 DEF ApiRestarts, AcceptedOn, TypeOK
  <2>3. /\ End(ApiThread) /\ Jmap < MaxClient
        /\ UNCHANGED <<stalwart, config, cache, site, policy>>
    BY <1>25 DEF ApiRestarts
  <2>4. Running'
    BY <2>1, <2>3, <1>1, EndRuns
  <2>5. QED
    BY <2>1, <2>2, <2>3, <2>4, <1>1, EndType DEF TypeOK
<1>26. ASSUME NEW s \in Server, NEW d \in Domain, DomainRemoved(s, d) PROVE Kept
  BY <1>26 DEF TypeOK, Running, Jmap, DomainRemoved
<1>27. CASE UNCHANGED vars
  BY <1>27 DEF TypeOK, Running, Jmap, vars
<1>28. QED
  BY <1>2, <1>3, <1>4, <1>5, <1>6, <1>7, <1>8, <1>9, <1>10, <1>11, <1>12, <1>13, <1>14,
     <1>15, <1>16, <1>17, <1>18, <1>19, <1>20, <1>21, <1>22, <1>23, <1>24, <1>25, <1>26,
     <1>27 DEF Next, Begin, Sync, Settings, Handle

-----------------------------------------------------------------------------
(* A step of t keeps what the lock protects for every other request: it does *)
(* not take the lock from them, nor change client or setting without it.     *)
LEMMA LockedStep ==
    ASSUME TypeOK, Locked, NEW t \in ApiThread,
           \A u \in ApiThread \ {t} :
               pc'[u] = pc[u] /\ kind'[u] = kind[u] /\ client'[u] = client[u],
           adminLock' = adminLock \/ adminLock \in {t, NoThread},
           UNCHANGED <<clients, autoSync>> \/ adminLock = t,
           LockedFor(t)'
    PROVE  Locked'
<1>1. ASSUME NEW u \in ApiThread \ {t} PROVE LockedFor(u)'
  BY <1>1 DEF Locked, LockedFor, Jmap, Saves
<1>2. QED
  BY <1>1 DEF Locked

LEMMA LockedEnd ==
    ASSUME TypeOK, Locked, NEW t \in ApiThread, End({t}),
           UNCHANGED <<clients, autoSync>> \/ adminLock = t
    PROVE  Locked'
<1>1. LockedFor(t)'
  BY DEF LockedFor, End, Saves
<1>2. \A u \in ApiThread \ {t} :
          pc'[u] = pc[u] /\ kind'[u] = kind[u] /\ client'[u] = client[u]
  BY DEF End
<1>3. adminLock' = adminLock \/ adminLock \in {t, NoThread}
  BY DEF End
<1>4. QED
  BY <1>1, <1>2, <1>3, LockedStep

(* A step that no request takes.                                             *)
LEMMA LockedOther ==
    ASSUME Locked, UNCHANGED <<pc, kind, client, adminLock, clients, autoSync>>
    PROVE  Locked'
BY DEF Locked, LockedFor, Jmap

LEMMA LockedNext == TypeOK /\ Running /\ Locked /\ [Next]_vars => Locked'
<1> SUFFICES ASSUME TypeOK, Running, Locked, [Next]_vars PROVE Locked'
  OBVIOUS
<1>1. ASSUME NEW t \in ApiThread, BeginPublic(t) PROVE Locked'
  <2>1. LockedFor(t)'
    BY <1>1 DEF BeginPublic, LockedFor, Locked, TypeOK, Goto, Saves, Jmap
  <2>2. \A u \in ApiThread \ {t} :
           pc'[u] = pc[u] /\ kind'[u] = kind[u] /\ client'[u] = client[u]
    BY <1>1 DEF BeginPublic, TypeOK, Goto
  <2>3. QED
    BY <1>1, <2>1, <2>2, LockedStep DEF BeginPublic, LockFree, Locked, LockedFor, Saves
<1>2. ASSUME NEW t \in ApiThread, BeginManual(t) PROVE Locked'
  <2>1. LockedFor(t)'
    BY <1>2 DEF BeginManual, LockedFor, Locked, TypeOK, Goto, Saves, Jmap
  <2>2. \A u \in ApiThread \ {t} :
           pc'[u] = pc[u] /\ kind'[u] = kind[u] /\ client'[u] = client[u]
    BY <1>2 DEF BeginManual, TypeOK, Goto
  <2>3. QED
    BY <1>2, <2>1, <2>2, LockedStep DEF BeginManual, LockFree, Locked, LockedFor, Saves
<1>3. ASSUME NEW t \in ApiThread, ReadGeneration(t) PROVE Locked'
  <2>1. LockedFor(t)'
    BY <1>3 DEF ReadGeneration, LockedFor, Locked, TypeOK, Goto, Saves, Jmap
  <2>2. \A u \in ApiThread \ {t} :
           pc'[u] = pc[u] /\ kind'[u] = kind[u] /\ client'[u] = client[u]
    BY <1>3 DEF ReadGeneration, TypeOK, Goto
  <2>3. QED
    BY <1>3, <2>1, <2>2, LockedStep DEF ReadGeneration, LockFree, Locked, LockedFor, Saves
<1>4. ASSUME NEW t \in ApiThread, LockToList(t) PROVE Locked'
  <2>1. CASE autoSync
    <3>1. LockedFor(t)'
      BY <1>4, <2>1 DEF LockToList, LockedFor, Locked, TypeOK, Goto, Saves, Jmap
    <3>2. \A u \in ApiThread \ {t} :
             pc'[u] = pc[u] /\ kind'[u] = kind[u] /\ client'[u] = client[u]
      BY <1>4, <2>1 DEF LockToList, TypeOK, Goto
    <3>3. QED
      BY <1>4, <2>1, <3>1, <3>2, LockedStep
         DEF LockToList, LockFree, Locked, LockedFor, Saves
  <2>2. CASE ~autoSync
    BY <1>4, <2>2, LockedEnd DEF LockToList
  <2>3. QED
    BY <2>1, <2>2
<1>5. ASSUME NEW t \in ApiThread, List(t) PROVE Locked'
  <2>1. LockedFor(t)'
    BY <1>5 DEF List, LockedFor, Locked, TypeOK, Goto, Saves, Jmap
  <2>2. \A u \in ApiThread \ {t} :
           pc'[u] = pc[u] /\ kind'[u] = kind[u] /\ client'[u] = client[u]
    BY <1>5 DEF List, TypeOK, Goto
  <2>3. QED
    BY <1>5, <2>1, <2>2, LockedStep DEF List, LockFree, Locked, LockedFor, Saves
<1>6. ASSUME NEW t \in ApiThread, SyncFails(t) PROVE Locked'
  BY <1>6, LockedEnd DEF SyncFails
<1>7. ASSUME NEW t \in ApiThread, Enter(t) PROVE Locked'
  <2>1. CASE SameClient(t) /\ StillWanted(t)
    <3>1. LockedFor(t)'
      BY <1>7, <2>1
         DEF Enter, LockedFor, Locked, TypeOK, Goto, Saves, Jmap, SameClient, StillWanted
    <3>2. \A u \in ApiThread \ {t} :
             pc'[u] = pc[u] /\ kind'[u] = kind[u] /\ client'[u] = client[u]
      BY <1>7, <2>1 DEF Enter, TypeOK, Goto
    <3>3. QED
      BY <1>7, <2>1, <3>1, <3>2, LockedStep DEF Enter, LockFree, Locked, LockedFor, Saves
  <2>2. CASE ~(SameClient(t) /\ StillWanted(t))
    BY <1>7, <2>2, LockedEnd DEF Enter
  <2>3. QED
    BY <2>1, <2>2
<1>8. ASSUME NEW t \in ApiThread, Replace(t) PROVE Locked'
  <2>1. CASE SameGeneration(t)
    <3>1. LockedFor(t)'
      BY <1>8, <2>1 DEF Replace, LockedFor, Locked, TypeOK, Goto, Saves, Jmap
    <3>2. \A u \in ApiThread \ {t} :
             pc'[u] = pc[u] /\ kind'[u] = kind[u] /\ client'[u] = client[u]
      BY <1>8, <2>1 DEF Replace, TypeOK, Goto
    <3>3. QED
      BY <1>8, <2>1, <3>1, <3>2, LockedStep DEF Replace, LockFree, Locked, LockedFor, Saves
  <2>2. CASE ~SameGeneration(t) /\ AttemptLeft(t)
    <3>1. LockedFor(t)'
      BY <1>8, <2>2
         DEF Replace, LockedFor, Locked, TypeOK, Goto, Saves, Jmap, LockAfterRetry
    <3>2. \A u \in ApiThread \ {t} :
             pc'[u] = pc[u] /\ kind'[u] = kind[u] /\ client'[u] = client[u]
      BY <1>8, <2>2 DEF Replace, TypeOK, Goto
    <3>3. QED
      BY <1>8, <2>2, <3>1, <3>2, LockedStep DEF Replace, LockFree, Locked, LockedFor, Saves
  <2>3. CASE ~SameGeneration(t) /\ ~AttemptLeft(t)
    BY <1>8, <2>3, LockedEnd DEF Replace
  <2>4. QED
    BY <2>1, <2>2, <2>3
<1>9. ASSUME NEW t \in ApiThread, Freeze(t) PROVE Locked'
  BY <1>9, LockedEnd DEF Freeze
<1>10. ASSUME NEW t \in ApiThread, NEW c \in Changes, EnterSettings(t, c) PROVE Locked'
  <2>1. LockedFor(t)'
    BY <1>10 DEF EnterSettings, LockedFor, Locked, TypeOK, Goto, Saves, Jmap
  <2>2. \A u \in ApiThread \ {t} :
           pc'[u] = pc[u] /\ kind'[u] = kind[u] /\ client'[u] = client[u]
    BY <1>10 DEF EnterSettings, TypeOK, Goto
  <2>3. QED
    BY <1>10, <2>1, <2>2, LockedStep DEF EnterSettings, LockFree, Locked, LockedFor, Saves
<1>11. ASSUME NEW t \in ApiThread, SaveConfig(t) PROVE Locked'
  <2>1. LockedFor(t)'
    BY <1>11 DEF SaveConfig, LockedFor, Locked, TypeOK, Goto, Saves, Jmap
  <2>2. \A u \in ApiThread \ {t} :
           pc'[u] = pc[u] /\ kind'[u] = kind[u] /\ client'[u] = client[u]
    BY <1>11 DEF SaveConfig, TypeOK, Goto
  <2>3. QED
    BY <1>11, <2>1, <2>2, LockedStep DEF SaveConfig, LockFree, Locked, LockedFor, Saves
<1>12. ASSUME NEW t \in ApiThread, NewClient(t) PROVE Locked'
  <2>1. LockedFor(t)'
    BY <1>12 DEF NewClient, LockedFor, Locked, TypeOK, Goto, Saves, Jmap
  <2>2. \A u \in ApiThread \ {t} :
           pc'[u] = pc[u] /\ kind'[u] = kind[u] /\ client'[u] = client[u]
    BY <1>12 DEF NewClient, TypeOK, Goto
  <2>3. QED
    BY <1>12, <2>1, <2>2, LockedStep DEF NewClient, LockFree, Locked, LockedFor, Saves
<1>13. ASSUME NEW t \in ApiThread, CopyWhitelist(t) PROVE Locked'
  <2>1. LockedFor(t)'
    BY <1>13 DEF CopyWhitelist, LockedFor, Locked, TypeOK, Goto, Saves, Jmap
  <2>2. \A u \in ApiThread \ {t} :
           pc'[u] = pc[u] /\ kind'[u] = kind[u] /\ client'[u] = client[u]
    BY <1>13 DEF CopyWhitelist, TypeOK, Goto
  <2>3. QED
    BY <1>13, <2>1, <2>2, LockedStep DEF CopyWhitelist, LockFree, Locked, LockedFor, Saves
<1>14. ASSUME NEW t \in ApiThread, SaveSettings(t) PROVE Locked'
  <2>1. adminLock = t
    BY <1>14 DEF SaveSettings, Locked, LockedFor, Saves
  <2>2. QED
    BY <1>14, <2>1, LockedEnd DEF SaveSettings
<1>15. ASSUME NEW t \in ApiThread, SettingsFail(t) PROVE Locked'
  BY <1>15, LockedEnd DEF SettingsFail
<1>16. ASSUME NEW h \in Handler, NEW d \in Domain, BeginMail(h, d) PROVE Locked'
  BY <1>16, LockedOther DEF BeginMail
<1>17. ASSUME NEW h \in Handler, LookUp(h) PROVE Locked'
  BY <1>17, LockedOther DEF LookUp
<1>18. ASSUME NEW h \in Handler, Provision(h) PROVE Locked'
  BY <1>18, LockedOther DEF Provision
<1>19. ASSUME NEW h \in Handler, Add(h) PROVE Locked'
  BY <1>19, LockedOther DEF Add
<1>20. ASSUME NEW h \in Handler, AddFails(h) PROVE Locked'
  BY <1>20, LockedOther DEF AddFails
<1>21. ASSUME BootList PROVE Locked'
  BY <1>21, LockedOther DEF BootList
<1>22. ASSUME BootMerge PROVE Locked'
  BY <1>22, LockedOther DEF BootMerge
<1>23. ASSUME PolicyRestarts PROVE Locked'
  BY <1>23, LockedOther DEF PolicyRestarts
<1>24. ASSUME ApiRestarts PROVE Locked'
  BY <1>24 DEF ApiRestarts, End, Locked, LockedFor, Saves
<1>25. ASSUME NEW s \in Server, NEW d \in Domain, DomainRemoved(s, d) PROVE Locked'
  BY <1>25, LockedOther DEF DomainRemoved
<1>26. CASE UNCHANGED vars
  BY <1>26, LockedOther DEF vars
<1>27. QED
  BY <1>1, <1>2, <1>3, <1>4, <1>5, <1>6, <1>7, <1>8, <1>9, <1>10, <1>11, <1>12, <1>13,
     <1>14, <1>15, <1>16, <1>17, <1>18, <1>19, <1>20, <1>21, <1>22, <1>23, <1>24, <1>25,
     <1>26 DEF Next, Begin, Sync, Settings, Handle

-----------------------------------------------------------------------------
(* The part of Fresh about the lists the requests hold.                      *)
Held(t) ==
    pc[t] \in {"enter", "replace"} /\ gen[t] = cache.gen /\ client[t] = Jmap
        => accepted \subseteq values[t]

(* Nothing is forgotten by a step that leaves Stalwart, the cache, the client *)
(* and the history alone; t's own list is looked at where the lemma is used. *)
LEMMA FreshStep ==
    ASSUME Fresh, NEW t \in ApiThread, UNCHANGED <<stalwart, cache, clients, accepted>>,
           \A u \in ApiThread \ {t} :
               /\ pc'[u] = pc[u] /\ gen'[u] = gen[u]
               /\ client'[u] = client[u] /\ values'[u] = values[u],
           Held(t)'
    PROVE  Fresh'
<1>1. \A u \in ApiThread \ {t} : Held(u)'
  BY DEF Fresh, Held, Jmap
<1>2. QED
  BY <1>1 DEF Fresh, Held, AcceptedStayCached, InUse, Jmap

LEMMA FreshEnd ==
    ASSUME Fresh, NEW t \in ApiThread, End({t}),
           UNCHANGED <<stalwart, cache, clients, accepted>>
    PROVE  Fresh'
<1>1. Held(t)'
  BY DEF Held, End
<1>2. QED
  BY <1>1, FreshStep DEF End

LEMMA FreshOther ==
    ASSUME Fresh,
           UNCHANGED <<stalwart, cache, clients, accepted, pc, gen, client, values>>
    PROVE  Fresh'
BY DEF Fresh, AcceptedStayCached, InUse, Jmap

(* A write of the cache makes every version that was read an old one.        *)
LEMMA FreshWrite ==
    ASSUME TypeOK, Running, UNCHANGED <<pc, gen>>, cache'.gen = cache.gen + 1,
           (AcceptedStayCached /\ accepted \subseteq stalwart[InUse])'
    PROVE  Fresh'
BY DEF TypeOK, Running, Fresh

(* A new client makes every client that was taken an old one.                *)
LEMMA FreshClient ==
    ASSUME TypeOK, Running, Fresh, clients' = Append(clients, config),
           UNCHANGED <<stalwart, cache>>, accepted' = AcceptedOn(config),
           \A u \in ApiThread : pc'[u] = "idle" \/ client'[u] = client[u]
    PROVE  Fresh'
<1>1. Jmap' = Jmap + 1 /\ InUse' = config /\ Jmap \in Nat
  BY Appended DEF TypeOK, Jmap, InUse
<1>2. accepted' \subseteq accepted /\ accepted' \subseteq stalwart[config]
  BY DEF AcceptedOn, Fresh
<1>3. \A u \in ApiThread : client[u] # Jmap'
  BY <1>1 DEF Running, TypeOK
<1>4. QED
  BY <1>1, <1>2, <1>3 DEF Fresh, AcceptedStayCached

LEMMA FreshNext == TypeOK /\ Running /\ Locked /\ Fresh /\ [Next]_vars => Fresh'
<1> SUFFICES ASSUME TypeOK, Running, Locked, Fresh, [Next]_vars PROVE Fresh'
  OBVIOUS
<1>1. ASSUME NEW t \in ApiThread, BeginPublic(t) PROVE Fresh'
  <2>1. Held(t)'
    BY <1>1 DEF BeginPublic, Held, Fresh, TypeOK, Goto, Jmap
  <2>2. QED
    BY <1>1, <2>1, FreshStep DEF BeginPublic, TypeOK, Goto
<1>2. ASSUME NEW t \in ApiThread, BeginManual(t) PROVE Fresh'
  <2>1. Held(t)'
    BY <1>2 DEF BeginManual, Held, Fresh, TypeOK, Goto, Jmap
  <2>2. QED
    BY <1>2, <2>1, FreshStep DEF BeginManual, TypeOK, Goto
<1>3. ASSUME NEW t \in ApiThread, ReadGeneration(t) PROVE Fresh'
  <2>1. Held(t)'
    BY <1>3 DEF ReadGeneration, Held, Fresh, TypeOK, Goto, Jmap
  <2>2. QED
    BY <1>3, <2>1, FreshStep DEF ReadGeneration, TypeOK, Goto
<1>4. ASSUME NEW t \in ApiThread, LockToList(t) PROVE Fresh'
  <2>1. CASE autoSync
    <3>1. Held(t)'
      BY <1>4, <2>1 DEF LockToList, Held, Fresh, TypeOK, Goto, Jmap
    <3>2. QED
      BY <1>4, <2>1, <3>1, FreshStep DEF LockToList, TypeOK, Goto
  <2>2. CASE ~autoSync
    BY <1>4, <2>2, FreshEnd DEF LockToList
  <2>3. QED
    BY <2>1, <2>2
<1>5. ASSUME NEW t \in ApiThread, List(t) PROVE Fresh'
  <2>1. values'[t] = stalwart[clients[client[t]]]
    BY <1>5 DEF List, TypeOK
  <2>2. client'[t] = client[t] /\ Jmap' = Jmap /\ accepted' = accepted
    BY <1>5, SameClients DEF List
  <2>3. Held(t)'
    BY <2>1, <2>2 DEF Held, Fresh, InUse
  <2>4. QED
    BY <1>5, <2>3, FreshStep DEF List, TypeOK, Goto
<1>6. ASSUME NEW t \in ApiThread, SyncFails(t) PROVE Fresh'
  BY <1>6, FreshEnd DEF SyncFails
<1>7. ASSUME NEW t \in ApiThread, Enter(t) PROVE Fresh'
  <2>1. CASE SameClient(t) /\ StillWanted(t)
    <3>1. Held(t)'
      BY <1>7, <2>1 DEF Enter, Held, Fresh, TypeOK, Goto, Jmap
    <3>2. QED
      BY <1>7, <2>1, <3>1, FreshStep DEF Enter, TypeOK, Goto
  <2>2. CASE ~(SameClient(t) /\ StillWanted(t))
    BY <1>7, <2>2, FreshEnd DEF Enter
  <2>3. QED
    BY <2>1, <2>2
<1>8. ASSUME NEW t \in ApiThread, Replace(t) PROVE Fresh'
  <2>1. CASE SameGeneration(t)
    <3>1. client[t] = Jmap
      BY <1>8 DEF Replace, Locked, LockedFor
    <3>2. accepted \subseteq values[t]
      BY <1>8, <2>1, <3>1 DEF Replace, SameGeneration, Fresh
    <3>3. cache' = [gen |-> cache.gen + 1, set |-> values[t]]
      BY <1>8, <2>1 DEF Replace
    <3>4. \A u \in ApiThread : gen'[u] /= cache'.gen
      BY <1>8, <2>1, <3>3 DEF Replace, Running, TypeOK
    <3>5. InUse' = InUse /\ stalwart' = stalwart /\ accepted' = accepted
      BY <1>8 DEF Replace, InUse, Jmap
    <3>6. QED
      BY <3>2, <3>3, <3>4, <3>5 DEF Fresh, AcceptedStayCached
  <2>2. CASE ~SameGeneration(t) /\ AttemptLeft(t)
    <3>1. Held(t)'
      BY <1>8, <2>2 DEF Replace, Held, Fresh, TypeOK, Goto, Jmap
    <3>2. QED
      BY <1>8, <2>2, <3>1, FreshStep DEF Replace, TypeOK, Goto
  <2>3. CASE ~SameGeneration(t) /\ ~AttemptLeft(t)
    BY <1>8, <2>3, FreshEnd DEF Replace
  <2>4. QED
    BY <2>1, <2>2, <2>3
<1>9. ASSUME NEW t \in ApiThread, Freeze(t) PROVE Fresh'
  BY <1>9, FreshEnd DEF Freeze
<1>10. ASSUME NEW t \in ApiThread, NEW c \in Changes, EnterSettings(t, c) PROVE Fresh'
  <2>1. Held(t)'
    BY <1>10 DEF EnterSettings, Held, Fresh, TypeOK, Goto, Jmap
  <2>2. QED
    BY <1>10, <2>1, FreshStep DEF EnterSettings, TypeOK, Goto
<1>11. ASSUME NEW t \in ApiThread, SaveConfig(t) PROVE Fresh'
  <2>1. Held(t)'
    BY <1>11 DEF SaveConfig, Held, Fresh, TypeOK, Goto, Jmap
  <2>2. QED
    BY <1>11, <2>1, FreshStep DEF SaveConfig, TypeOK, Goto
<1>12. ASSUME NEW t \in ApiThread, NewClient(t) PROVE Fresh'
  BY <1>12, FreshClient DEF NewClient
<1>13. ASSUME NEW t \in ApiThread, CopyWhitelist(t) PROVE Fresh'
  <2>1. Held(t)'
    BY <1>13 DEF CopyWhitelist, Held, Fresh, TypeOK, Goto, Jmap
  <2>2. QED
    BY <1>13, <2>1, FreshStep DEF CopyWhitelist, TypeOK, Goto
<1>14. ASSUME NEW t \in ApiThread, SaveSettings(t) PROVE Fresh'
  BY <1>14, FreshEnd DEF SaveSettings
<1>15. ASSUME NEW t \in ApiThread, SettingsFail(t) PROVE Fresh'
  BY <1>15, FreshEnd DEF SettingsFail
<1>16. ASSUME NEW h \in Handler, NEW d \in Domain, BeginMail(h, d) PROVE Fresh'
  BY <1>16, FreshOther DEF BeginMail
<1>17. ASSUME NEW h \in Handler, LookUp(h) PROVE Fresh'
  BY <1>17, FreshOther DEF LookUp
<1>18. ASSUME NEW h \in Handler, Provision(h) PROVE Fresh'
  <2>1. \A s \in Server : stalwart[s] \subseteq stalwart'[s]
    BY <1>18, ProvisionedType DEF Provision
  <2>2. InUse \in Server /\ InUse' = InUse
    BY <1>18, InUseType DEF Provision, InUse, Jmap
  <2>3. QED
    BY <1>18, <2>1, <2>2 DEF Provision, Fresh, AcceptedStayCached, Jmap
<1>19. ASSUME NEW h \in Handler, Add(h) PROVE Fresh'
  <2>1. cache' = [gen |-> cache.gen + 1, set |-> cache.set \cup domain[h]] /\ InUse' = InUse
    BY <1>19 DEF Add, CacheWith, InUse, Jmap
  <2>2. (AcceptedStayCached /\ accepted \subseteq stalwart[InUse])'
    BY <1>19, <2>1 DEF Add, Fresh, AcceptedStayCached
  <2>3. QED
    BY <1>19, <2>1, <2>2, FreshWrite DEF Add
<1>20. ASSUME NEW h \in Handler, AddFails(h) PROVE Fresh'
  <2>1. CASE UNCHANGED cache
    BY <1>20, <2>1, FreshOther DEF AddFails
  <2>2. CASE CacheWith(domain[h])
    <3>1. cache' = [gen |-> cache.gen + 1, set |-> cache.set \cup domain[h]] /\ InUse' = InUse
      BY <1>20, <2>2 DEF AddFails, CacheWith, InUse, Jmap
    <3>2. (AcceptedStayCached /\ accepted \subseteq stalwart[InUse])'
      BY <1>20, <3>1 DEF AddFails, Fresh, AcceptedStayCached
    <3>3. QED
      BY <1>20, <3>1, <3>2, FreshWrite DEF AddFails
  <2>3. QED
    BY <1>20, <2>1, <2>2 DEF AddFails
<1>21. ASSUME BootList PROVE Fresh'
  BY <1>21, FreshOther DEF BootList
<1>22. ASSUME BootMerge PROVE Fresh'
  <2>1. cache' = [gen |-> cache.gen + 1, set |-> cache.set \cup booted] /\ InUse' = InUse
    BY <1>22 DEF BootMerge, CacheWith, InUse, Jmap
  <2>2. (AcceptedStayCached /\ accepted \subseteq stalwart[InUse])'
    BY <1>22, <2>1 DEF BootMerge, Fresh, AcceptedStayCached
  <2>3. QED
    BY <1>22, <2>1, <2>2, FreshWrite DEF BootMerge
<1>23. ASSUME PolicyRestarts PROVE Fresh'
  BY <1>23, FreshOther DEF PolicyRestarts
<1>24. ASSUME ApiRestarts PROVE Fresh'
  BY <1>24, FreshClient DEF ApiRestarts, End
<1>25. ASSUME NEW s \in Server, NEW d \in Domain, DomainRemoved(s, d) PROVE Fresh'
  <2>1. InUse' = InUse /\ Jmap' = Jmap /\ InUse \in Server
    BY <1>25, InUseType DEF DomainRemoved, InUse, Jmap
  <2>2. accepted' \subseteq accepted /\ accepted' \subseteq stalwart'[InUse]
    BY <1>25, <2>1 DEF DomainRemoved, Fresh, TypeOK
  <2>3. QED
    BY <1>25, <2>1, <2>2 DEF DomainRemoved, Fresh, AcceptedStayCached
<1>26. CASE UNCHANGED vars
  BY <1>26, FreshOther DEF vars
<1>27. QED
  BY <1>1, <1>2, <1>3, <1>4, <1>5, <1>6, <1>7, <1>8, <1>9, <1>10, <1>11, <1>12, <1>13,
     <1>14, <1>15, <1>16, <1>17, <1>18, <1>19, <1>20, <1>21, <1>22, <1>23, <1>24, <1>25,
     <1>26 DEF Next, Begin, Sync, Settings, Handle

-----------------------------------------------------------------------------
Inductive == TypeOK /\ Running /\ Locked /\ Fresh

LEMMA Invariant == Spec => []Inductive
<1>1. Init => Inductive
  BY TypeInit DEF Init, Inductive, Locked, LockedFor, Saves, Fresh, AcceptedStayCached
<1>2. Inductive /\ [Next]_vars => Inductive'
  BY TypeNext, LockedNext, FreshNext DEF Inductive
<1>3. QED
  BY <1>1, <1>2, PTL DEF Spec

(* Every variable keeps its type.                                           *)
THEOREM TypeCorrect == Spec => []TypeOK
BY Invariant, PTL DEF Inductive

(* A domain whose first mail was accepted stays in the cache whatever number *)
(* of requests synchronise it at that moment.                               *)
THEOREM AcceptedAreKept == Spec => []AcceptedStayCached
BY Invariant, PTL DEF Inductive, Fresh

(* A list is published only while the client it came from is in use.        *)
THEOREM ListsAreOfTheClient == Spec => PublishedByClientInUse
<1>1. Inductive => [\A t \in ApiThread :
         pc[t] = "replace" /\ pc'[t] = "freeze" => client[t] = Jmap]_vars
  BY DEF Inductive, Locked, LockedFor
<1>2. QED
  BY <1>1, Invariant, PTL DEF Spec, PublishedByClientInUse

(* A frozen whitelist is changed by a manual synchronisation alone.         *)
THEOREM FrozenIsKept == Spec => FrozenStaysFrozen
<1>1. Inductive /\ [Next]_vars =>
      [~autoSync /\ ~autoSync' /\ frozen' # frozen =>
         \E t \in ApiThread : kind[t] = "manual" /\ pc[t] = "freeze"]_vars
  <2> SUFFICES ASSUME Inductive, [Next]_vars, ~autoSync, frozen' # frozen
               PROVE  \E t \in ApiThread : kind[t] = "manual" /\ pc[t] = "freeze"
    OBVIOUS
  <2>1. ASSUME NEW t \in ApiThread, Freeze(t) PROVE kind[t] = "manual" /\ pc[t] = "freeze"
    BY <2>1 DEF Freeze, Inductive, Locked, LockedFor, Running, Syncing
  <2>2. ASSUME NEW t \in ApiThread, Begin(t) PROVE FALSE
    BY <2>2 DEF Begin, BeginPublic, BeginManual, EnterSettings
  <2>3. ASSUME NEW t \in ApiThread, Sync(t), ~Freeze(t) PROVE FALSE
    BY <2>3 DEF Sync, ReadGeneration, LockToList, List, Enter, Replace
  <2>4. ASSUME NEW t \in ApiThread, Settings(t) PROVE FALSE
    BY <2>4 DEF Settings, SaveConfig, NewClient, CopyWhitelist, SaveSettings
  <2>5. ASSUME NEW t \in ApiThread, SyncFails(t) \/ SettingsFail(t) PROVE FALSE
    BY <2>5 DEF SyncFails, SettingsFail
  <2>6. ASSUME NEW h \in Handler, (\E d \in Domain : BeginMail(h, d)) \/ Handle(h)
        PROVE  FALSE
    BY <2>6 DEF BeginMail, Handle, LookUp, Provision, Add, AddFails
  <2>7. QED
    BY <2>1, <2>2, <2>3, <2>4, <2>5, <2>6
       DEF Next, BootList, BootMerge, PolicyRestarts, ApiRestarts, DomainRemoved, vars
<1>2. QED
  BY <1>1, Invariant, PTL DEF Spec, FrozenStaysFrozen

(* No synchronisation publishes an empty list.                              *)
THEOREM CacheIsNeverEmptied == Spec => NeverEmptied
<1>1. Inductive /\ [Next]_vars => [cache.set # {} => cache'.set # {}]_vars
  <2> SUFFICES ASSUME Inductive, [Next]_vars, cache.set # {} PROVE cache'.set # {}
    OBVIOUS
  <2>1. ASSUME NEW t \in ApiThread, Replace(t) PROVE cache'.set # {}
    BY <2>1 DEF Replace, Inductive, Running
  <2>2. ASSUME NEW t \in ApiThread, Begin(t) PROVE cache' = cache
    BY <2>2 DEF Begin, BeginPublic, BeginManual, EnterSettings
  <2>3. ASSUME NEW t \in ApiThread, Sync(t), ~Replace(t) PROVE cache' = cache
    BY <2>3 DEF Sync, ReadGeneration, LockToList, List, Enter, Freeze
  <2>4. ASSUME NEW t \in ApiThread, Settings(t) PROVE cache' = cache
    BY <2>4 DEF Settings, SaveConfig, NewClient, CopyWhitelist, SaveSettings
  <2>5. ASSUME NEW t \in ApiThread, SyncFails(t) \/ SettingsFail(t) PROVE cache' = cache
    BY <2>5 DEF SyncFails, SettingsFail
  <2>6. ASSUME NEW h \in Handler, (\E d \in Domain : BeginMail(h, d)) \/ Handle(h)
        PROVE  cache'.set # {}
    BY <2>6 DEF BeginMail, Handle, LookUp, Provision, Add, AddFails, CacheWith
  <2>7. QED
    BY <2>1, <2>2, <2>3, <2>4, <2>5, <2>6
       DEF Next, BootList, BootMerge, CacheWith, PolicyRestarts, ApiRestarts, DomainRemoved,
           vars
<1>2. QED
  BY <1>1, Invariant, PTL DEF Spec, NeverEmptied
=============================================================================
