-------------------------- MODULE MailRuntimeProofs --------------------------
(* Proofs about MailRuntime, for every set of requests, connections,        *)
(* servers and changes of the settings, and every bound on the versions.    *)
EXTENDS MailRuntime, TLAPS

Saves == {"update", "replace", "sync", "client", "site"}

(* Who holds which lock at which step, and who serves what.                  *)
Locked ==
    \A t \in Thread :
        /\ pc[t] = "idle" <=> kind[t] = "none"
        /\ pc[t] \in Saves => kind[t] = "save"
        /\ pc[t] \in Saves \cup {"open", "load", "given"} /\ kind[t] # "read"
              => pairLock[Proc(t)] = t
        /\ pc[t] \in {"load", "replace", "sync"} => storeLock[Proc(t)] = t
        /\ kind[t] \in {"mail", "read", "save"} => t \in ApiThread
        /\ kind[t] = "policy" => t \in Handler

(* A thread that goes on with a configuration has been given one.            *)
Drafted ==
    \A t \in Thread : pc[t] \in {"given", "replace", "sync", "client"} => conf[t] \in Config

(* Nobody knows a version that has not been written.                         *)
Known ==
    /\ \A p \in Process :
          memory[p].mtime <= file.at /\ memory[p].config.at <= file.at /\ client[p].at <= file.at
    /\ \A t \in Thread : stat[t] <= file.at /\ conf[t].at <= file.at

(* What a save has just written is the file, or the edit since is noted.     *)
Remembered ==
    /\ MemoryAgrees
    /\ \A t \in Thread : pc[t] = "sync" => conf[t] = file \/ file.at \in unseen

(* The client of the API is one for c, or no client was built for c.         *)
Settled(c) == c.at \in orphans \/ client["api"].server = c.server

(* Outside a save, the client is settled with what the file, the memory and   *)
(* the holder of the lock have; a save settles it with what it has written.  *)
Paired ==
    /\ unseen \subseteq orphans
    /\ (\A t \in Thread : pc[t] \notin {"sync", "client"}) => Settled(file)
    /\ (\A t \in Thread : pc[t] # "client") => Settled(memory["api"].config)
    /\ \A t \in Thread : pc[t] \in {"sync", "client"} => conf[t] = file \/ file.at \in orphans
    /\ \A t \in Thread : pc[t] = "client" =>
          memory["api"].config = conf[t] \/ memory["api"].config.at \in orphans
    /\ \A t \in Thread : pc[t] = "given" /\ kind[t] = "mail" => Settled(conf[t])
    /\ PairsMatch

(* The configurations a client is made from are not older than the client.   *)
Ordered ==
    /\ memory["daemon"].config.at >= client["daemon"].at
    /\ \A t \in Thread : pc[t] = "given" /\ kind[t] = "policy" =>
          memory["daemon"].config.at >= conf[t].at /\ conf[t].at >= client["daemon"].at
    /\ \A t \in Thread : pc[t] \in {"sync", "client"} => conf[t].at >= client["api"].at

(* What a save will merge has been validated.                                *)
Validated ==
    /\ LengthsMeet
    /\ \A t \in Thread : pc[t] \in Saves => Acceptable(Merged(t))

(* A save about to replace the file has the last edit in what it writes.     *)
Edited ==
    /\ EditsAreKept
    /\ \A t \in Thread : pc[t] = "replace" => conf[t].base = edited \/ edited \in trampled

USE DEF locks, local, history

-----------------------------------------------------------------------------
(* Whose step it is.                                                        *)
LEMMA Moves ==
    ASSUME [Next]_vars, TypeOK
    PROVE  \/ \E t \in Thread : Step(t) /\ UNCHANGED crew
           \/ Edit /\ UNCHANGED crew
           \/ \E p \in Process : Restart(p) /\ UNCHANGED crew
           \/ UNCHANGED vars
BY RuntimeAssumption DEF Next, TypeOK, Process, Proc

LEMMA Values ==
    /\ \A t \in Thread : Proc(t) \in Process
    /\ \A t \in ApiThread : t \in Thread /\ Proc(t) = "api"
    /\ \A t \in Handler : t \in Thread /\ Proc(t) = "daemon"
    /\ "api" \in Process /\ "daemon" \in Process
    /\ MaxGen \in Nat /\ 0 \in Version /\ -1 \notin Version
    /\ \A v \in Version : v \in Int /\ v >= 0
    /\ NoConfig \notin Config /\ NoConfig.at = -1
    /\ NoChange \in Change
    /\ \A c \in Config : c.at \in Version /\ c.server \in Server /\ c.base \in Version
    /\ \A v \in Version, s \in Server, b \in Version :
          [at |-> v, server |-> s, base |-> b] \in Config
BY RuntimeAssumption DEF Thread, Process, Proc, Version, Config, NoConfig, NoChange, Change,
   AtMostOne

LEMMA Redated ==
    ASSUME NEW c \in Config, NEW v \in Version
    PROVE  LET d == [c EXCEPT !.at = v]
           IN  d \in Config /\ d.at = v /\ d.server = c.server /\ d.base = c.base
BY DEF Config

LEMMA Rehosted ==
    ASSUME NEW c \in Config, NEW s \in Server
    PROVE  LET d == [c EXCEPT !.server = s]
           IN  d \in Config /\ d.at = c.at /\ d.server = s /\ d.base = c.base
BY DEF Config

LEMMA MergedType ==
    ASSUME TypeOK, NEW t \in Thread
    PROVE  Merged(t) \in [min : Length, max : Length]
<1>1. want[t].min \in AtMostOne(Length) /\ want[t].max \in AtMostOne(Length)
      /\ site.min \in Length /\ site.max \in Length
  BY DEF TypeOK, Change
<1>2. ASSUME NEW W \in AtMostOne(Length), NEW d \in Length
      PROVE  Chosen(W, d) \in Length
  BY DEF Chosen, AtMostOne
<1>3. QED
  BY <1>1, <1>2 DEF Merged

LEMMA TypeInit == Init => TypeOK /\ Drafted
BY Values DEF Init, TypeOK, Drafted, Config, Length, Label, Kind, Process

LEMMA TypeNext == TypeOK /\ Drafted /\ [Next]_vars => (TypeOK /\ Drafted)'
<1> SUFFICES ASSUME TypeOK /\ Drafted, [Next]_vars PROVE (TypeOK /\ Drafted)'
  OBVIOUS
<1>1. ASSUME NEW t \in Thread, Enter(t), UNCHANGED crew PROVE (TypeOK /\ Drafted)'
  BY <1>1 DEF Enter, Goto, Take, TypeOK, Drafted, Label, Kind
<1>2. ASSUME NEW t \in Thread, EnterSave(t), UNCHANGED crew PROVE (TypeOK /\ Drafted)'
  <2>1. PICK c \in Changes : want' = [want EXCEPT ![t] = c]
    BY <1>2 DEF EnterSave
  <2>2. want' \in [Thread -> Change]
    BY <2>1, RuntimeAssumption DEF TypeOK
  <2>3. QED
    BY <1>2, <2>2 DEF EnterSave, Goto, Take, TypeOK, Drafted, Label, Kind
<1>3. ASSUME NEW t \in Thread, BeginRead(t), UNCHANGED crew PROVE (TypeOK /\ Drafted)'
  BY <1>3 DEF BeginRead, Goto, TypeOK, Drafted, Label, Kind
<1>4. ASSUME NEW t \in Thread, Stat(t), UNCHANGED crew PROVE (TypeOK /\ Drafted)'
  <2>1. CASE file.at = memory[Proc(t)].mtime
    BY <1>4, <2>1, Values DEF Stat, Goto, TypeOK, Drafted, Label
  <2>2. CASE file.at # memory[Proc(t)].mtime
    <3>1. file.at \in Version
      BY Values DEF TypeOK
    <3>2. /\ stat' = [stat EXCEPT ![t] = file.at]
          /\ pc' = [pc EXCEPT ![t] = "load"]
          /\ storeLock' = [storeLock EXCEPT ![Proc(t)] = t]
          /\ UNCHANGED <<file, memory, client, pairLock, site, kind, conf, jmap, want, history>>
      BY <1>4, <2>2 DEF Stat, Goto, Take
    <3>3. TypeOK'
      BY <1>4, <3>1, <3>2 DEF TypeOK, Label
    <3>4. Drafted'
      BY <3>2 DEF TypeOK, Drafted, Label
    <3>5. QED
      BY <3>3, <3>4
  <2>3. QED
    BY <2>1, <2>2
<1>5. ASSUME NEW t \in Thread, Load(t), UNCHANGED crew PROVE (TypeOK /\ Drafted)'
  BY <1>5 DEF Load, Goto, Free, TypeOK, Drafted, Label
<1>6. ASSUME NEW t \in Thread, LoadFails(t), UNCHANGED crew PROVE (TypeOK /\ Drafted)'
  BY <1>6, Values DEF LoadFails, End, Unlocked, Free, Goto, TypeOK, Drafted, Label, Kind
<1>7. ASSUME NEW t \in Thread, TakePair(t), UNCHANGED crew PROVE (TypeOK /\ Drafted)'
  BY <1>7, Values DEF TakePair, Goto, Free, TypeOK, Drafted, Label
<1>8. ASSUME NEW t \in Thread, Rebuild(t), UNCHANGED crew PROVE (TypeOK /\ Drafted)'
  BY <1>8, Values DEF Rebuild, Goto, Free, Built, TypeOK, Drafted, Label
<1>9. ASSUME NEW t \in Thread, Finish(t), UNCHANGED crew PROVE (TypeOK /\ Drafted)'
  BY <1>9, Values DEF Finish, End, Goto, TypeOK, Drafted, Label, Kind
<1>10. ASSUME NEW t \in Thread, Validate(t), UNCHANGED crew PROVE (TypeOK /\ Drafted)'
  BY <1>10 DEF Validate, Goto, TypeOK, Drafted, Label
<1>11. ASSUME NEW t \in Thread, Refuse(t), UNCHANGED crew PROVE (TypeOK /\ Drafted)'
  BY <1>11, Values DEF Refuse, End, Unlocked, Free, Goto, TypeOK, Drafted, Label, Kind
<1>12. ASSUME NEW t \in Thread, Update(t), UNCHANGED crew PROVE (TypeOK /\ Drafted)'
  <2>1. PICK s \in want[t].server :
          conf' = [conf EXCEPT ![t] = [file EXCEPT !.server = IF s = Keep THEN file.server ELSE s]]
    BY <1>12 DEF Update, Base
  <2>2. s \in Server \cup {Keep}
    BY <2>1 DEF TypeOK, Change, AtMostOne
  <2>3. conf'[t] \in Config /\ conf' \in [Thread -> Config \cup {NoConfig}]
    <3>1. [file EXCEPT !.server = IF s = Keep THEN file.server ELSE s] \in Config
      <4>1. (IF s = Keep THEN file.server ELSE s) \in Server /\ file \in Config
        BY <2>2, Values DEF TypeOK
      <4>2. QED
        BY <4>1, Rehosted
    <3>2. QED
      BY <2>1, <3>1 DEF TypeOK
  <2>4. QED
    BY <1>12, <2>1, <2>3 DEF Update, Goto, Take, TypeOK, Drafted, Label
<1>13. ASSUME NEW t \in Thread, Replace(t), UNCHANGED crew PROVE (TypeOK /\ Drafted)'
  <2>1. conf[t] \in Config
    BY <1>13 DEF Replace, Drafted
  <2>2. file.at + 1 \in Version
    BY <1>13, Values DEF Replace, TypeOK, Version
  <2>3. file' \in Config
    <3>1. file' = [conf[t] EXCEPT !.at = file.at + 1]
      BY <1>13 DEF Replace
    <3>2. QED
      BY <2>1, <2>2, <3>1, Redated
  <2>4. QED
    BY <1>13, <2>3 DEF Replace, Goto, TypeOK, Drafted, Label
<1>14. ASSUME NEW t \in Thread, Remember(t), UNCHANGED crew PROVE (TypeOK /\ Drafted)'
  <2>1. conf[t] \in Config
    BY <1>14 DEF Remember, Drafted
  <2>2. file.at \in Version
    BY Values DEF TypeOK
  <2>3. memory' \in [Process -> [mtime : Version \cup {-1}, config : Config]]
    BY <1>14, <2>1, <2>2 DEF Remember, Installed, TypeOK
  <2>4. QED
    BY <1>14, <2>3 DEF Remember, Goto, Free, TypeOK, Drafted, Label
<1>15. ASSUME NEW t \in Thread, UpdateFails(t), UNCHANGED crew PROVE (TypeOK /\ Drafted)'
  <2>1. pc[t] = "sync" => conf[t].at \in Version
    BY Values DEF Drafted
  <2>2. orphans' \subseteq Version
    BY <1>15, <2>1 DEF UpdateFails, TypeOK
  <2>3. QED
    BY <1>15, <2>2, Values
       DEF UpdateFails, End, Unlocked, Free, Goto, TypeOK, Drafted, Label, Kind
<1>16. ASSUME NEW t \in Thread, NewClient(t), UNCHANGED crew PROVE (TypeOK /\ Drafted)'
  BY <1>16 DEF NewClient, Goto, TypeOK, Drafted, Label
<1>17. ASSUME NEW t \in Thread, SaveSite(t), UNCHANGED crew PROVE (TypeOK /\ Drafted)'
  BY <1>17, MergedType DEF SaveSite, Goto, Free, TypeOK, Drafted, Label, Kind
<1>18. ASSUME NEW t \in Thread, SaveSiteFails(t), UNCHANGED crew PROVE (TypeOK /\ Drafted)'
  BY <1>18, Values DEF SaveSiteFails, End, Unlocked, Free, Goto, TypeOK, Drafted, Label, Kind
<1>19. ASSUME Edit, UNCHANGED crew PROVE (TypeOK /\ Drafted)'
  <2>1. file.at + 1 \in Version
    BY <1>19, Values DEF Edit, TypeOK, Version
  <2>2. file' \in Config /\ file'.at \in Version
    BY <1>19, <2>1, Values DEF Edit
  <2>3. QED
    BY <1>19, <2>2 DEF Edit, TypeOK, Drafted
<1>20. ASSUME NEW p \in Process, Restart(p), UNCHANGED crew PROVE (TypeOK /\ Drafted)'
  <2>1. file.at \in Version /\ file \in Config
    BY Values DEF TypeOK
  <2>2. /\ memory' \in [Process -> [mtime : Version \cup {-1}, config : Config]]
        /\ client' \in [Process -> Config]
        /\ pairLock' \in [Process -> Thread \cup {NoThread}]
        /\ storeLock' \in [Process -> Thread \cup {NoThread}]
    BY <1>20, <2>1 DEF Restart, TypeOK
  <2>3. /\ pc' \in [Thread -> Label] /\ kind' \in [Thread -> Kind]
        /\ stat' \in [Thread -> Version]
        /\ conf' \in [Thread -> Config \cup {NoConfig}]
        /\ jmap' \in [Thread -> Config \cup {NoConfig}]
        /\ want' \in [Thread -> Change]
    BY <1>20, Values DEF Restart, TypeOK, Label, Kind
  <2>4. Drafted'
    BY <1>20 DEF Restart, Drafted
  <2>5. QED
    BY <1>20, <2>2, <2>3, <2>4 DEF Restart, TypeOK
<1>21. CASE UNCHANGED vars
  BY <1>21 DEF vars, TypeOK, Drafted
<1>22. QED
  BY <1>1, <1>2, <1>3, <1>4, <1>5, <1>6, <1>7, <1>8, <1>9, <1>10, <1>11, <1>12,
     <1>13, <1>14, <1>15, <1>16, <1>17, <1>18, <1>19, <1>20, <1>21, Moves DEF Step

LEMMA LockedNext == TypeOK /\ Locked /\ [Next]_vars => Locked'
<1> SUFFICES ASSUME TypeOK /\ Locked, [Next]_vars PROVE Locked'
  OBVIOUS
<1>1. ASSUME NEW t \in Thread, Enter(t), UNCHANGED crew PROVE Locked'
  <2>1. /\ pc[t] = "idle" /\ pairLock[Proc(t)] = NoThread
        /\ kind' = [kind EXCEPT ![t] = IF t \in ApiThread THEN "mail" ELSE "policy"]
        /\ pairLock' = [pairLock EXCEPT ![Proc(t)] = t]
        /\ pc' = [pc EXCEPT ![t] = "open"]
        /\ UNCHANGED storeLock
    BY <1>1 DEF Enter, Goto, Take, PairFree
  <2>2. ASSUME NEW u \in Thread, pairLock[Proc(u)] = u
        PROVE  Proc(u) # Proc(t)
    BY <2>1, <2>2, RuntimeAssumption
  <2>3. t \in ApiThread \/ t \in Handler
    BY DEF Thread
  <2>4. QED
    BY <2>1, <2>2, <2>3, Values DEF TypeOK, Locked, Saves
<1>2. ASSUME NEW t \in Thread, EnterSave(t), UNCHANGED crew PROVE Locked'
  BY <1>2, Values, RuntimeAssumption DEF EnterSave, Goto, Take, PairFree, TypeOK, Locked
<1>3. ASSUME NEW t \in Thread, BeginRead(t), UNCHANGED crew PROVE Locked'
  BY <1>3 DEF BeginRead, Goto, TypeOK, Locked, Saves
<1>4. ASSUME NEW t \in Thread, Stat(t), UNCHANGED crew PROVE Locked'
  BY <1>4, Values, RuntimeAssumption DEF Stat, Goto, Take, StoreFree, TypeOK, Locked, Saves
<1>5. ASSUME NEW t \in Thread, Load(t), UNCHANGED crew PROVE Locked'
  BY <1>5 DEF Load, Goto, Free, TypeOK, Locked, Saves
<1>6. ASSUME NEW t \in Thread, LoadFails(t), UNCHANGED crew PROVE Locked'
  BY <1>6 DEF LoadFails, End, Unlocked, Free, Goto, TypeOK, Locked, Saves
<1>7. ASSUME NEW t \in Thread, TakePair(t), UNCHANGED crew PROVE Locked'
  BY <1>7 DEF TakePair, Goto, Free, TypeOK, Locked, Saves
<1>8. ASSUME NEW t \in Thread, Rebuild(t), UNCHANGED crew PROVE Locked'
  BY <1>8 DEF Rebuild, Goto, Free, TypeOK, Locked, Saves
<1>9. ASSUME NEW t \in Thread, Finish(t), UNCHANGED crew PROVE Locked'
  BY <1>9 DEF Finish, End, Goto, TypeOK, Locked, Saves
<1>10. ASSUME NEW t \in Thread, Validate(t), UNCHANGED crew PROVE Locked'
  BY <1>10 DEF Validate, Goto, Locked
<1>11. ASSUME NEW t \in Thread, Refuse(t), UNCHANGED crew PROVE Locked'
  BY <1>11 DEF Refuse, End, Unlocked, Free, Goto, TypeOK, Locked, Saves
<1>12. ASSUME NEW t \in Thread, Update(t), UNCHANGED crew PROVE Locked'
  BY <1>12, Values, RuntimeAssumption DEF Update, Goto, Take, StoreFree, TypeOK, Locked, Saves
<1>13. ASSUME NEW t \in Thread, Replace(t), UNCHANGED crew PROVE Locked'
  BY <1>13 DEF Replace, Goto, Locked, Saves
<1>14. ASSUME NEW t \in Thread, Remember(t), UNCHANGED crew PROVE Locked'
  BY <1>14 DEF Remember, Goto, Free, TypeOK, Locked, Saves
<1>15. ASSUME NEW t \in Thread, UpdateFails(t), UNCHANGED crew PROVE Locked'
  BY <1>15 DEF UpdateFails, End, Unlocked, Free, Goto, TypeOK, Locked, Saves
<1>16. ASSUME NEW t \in Thread, NewClient(t), UNCHANGED crew PROVE Locked'
  BY <1>16 DEF NewClient, Goto, Locked, Saves
<1>17. ASSUME NEW t \in Thread, SaveSite(t), UNCHANGED crew PROVE Locked'
  BY <1>17 DEF SaveSite, Goto, Free, TypeOK, Locked, Saves
<1>18. ASSUME NEW t \in Thread, SaveSiteFails(t), UNCHANGED crew PROVE Locked'
  BY <1>18 DEF SaveSiteFails, End, Unlocked, Free, Goto, TypeOK, Locked, Saves
<1>19. ASSUME Edit, UNCHANGED crew PROVE Locked'
  BY <1>19 DEF Edit, Locked
<1>20. ASSUME NEW p \in Process, Restart(p), UNCHANGED crew PROVE Locked'
  BY <1>20 DEF Restart, Locked, Saves
<1>21. CASE UNCHANGED vars
  BY <1>21 DEF vars, Locked
<1>22. QED
  BY <1>1, <1>2, <1>3, <1>4, <1>5, <1>6, <1>7, <1>8, <1>9, <1>10, <1>11, <1>12,
     <1>13, <1>14, <1>15, <1>16, <1>17, <1>18, <1>19, <1>20, <1>21, Moves DEF Step

LEMMA KnownNext == TypeOK /\ Drafted /\ Known /\ [Next]_vars => Known'
<1> SUFFICES ASSUME TypeOK /\ Drafted /\ Known, [Next]_vars PROVE Known'
  OBVIOUS
<1>1. ASSUME NEW t \in Thread, Enter(t), UNCHANGED crew PROVE Known'
  BY <1>1 DEF Enter, Known
<1>2. ASSUME NEW t \in Thread, EnterSave(t), UNCHANGED crew PROVE Known'
  BY <1>2 DEF EnterSave, Known
<1>3. ASSUME NEW t \in Thread, BeginRead(t), UNCHANGED crew PROVE Known'
  BY <1>3 DEF BeginRead, Known
<1>4. ASSUME NEW t \in Thread, Stat(t), UNCHANGED crew PROVE Known'
  BY <1>4, Values DEF Stat, Goto, StoreFree, TypeOK, Drafted, Known
<1>5. ASSUME NEW t \in Thread, Load(t), UNCHANGED crew PROVE Known'
  BY <1>5, Values DEF Load, TypeOK, Known
<1>6. ASSUME NEW t \in Thread, LoadFails(t), UNCHANGED crew PROVE Known'
  BY <1>6, Values DEF LoadFails, End, TypeOK, Known
<1>7. ASSUME NEW t \in Thread, TakePair(t), UNCHANGED crew PROVE Known'
  BY <1>7 DEF TakePair, Known
<1>8. ASSUME NEW t \in Thread, Rebuild(t), UNCHANGED crew PROVE Known'
  BY <1>8 DEF Rebuild, Built, Known
<1>9. ASSUME NEW t \in Thread, Finish(t), UNCHANGED crew PROVE Known'
  BY <1>9, Values DEF Finish, End, TypeOK, Known
<1>10. ASSUME NEW t \in Thread, Validate(t), UNCHANGED crew PROVE Known'
  BY <1>10 DEF Validate, Known
<1>11. ASSUME NEW t \in Thread, Refuse(t), UNCHANGED crew PROVE Known'
  BY <1>11, Values DEF Refuse, End, TypeOK, Known
<1>12. ASSUME NEW t \in Thread, Update(t), UNCHANGED crew PROVE Known'
  BY <1>12, Values DEF Update, Base, TypeOK, Known
<1>13. ASSUME NEW t \in Thread, Replace(t), UNCHANGED crew PROVE Known'
  <2>1. file' = [conf[t] EXCEPT !.at = file.at + 1] /\ conf[t] \in Config
        /\ file \in Config
    BY <1>13 DEF Replace, Drafted, TypeOK
  <2>2. file'.at = file.at + 1 /\ file.at \in Int
        /\ file'.server = conf[t].server /\ file'.base = conf[t].base
    BY <2>1, Values DEF Config
  <2>3. conf' = [conf EXCEPT ![t] = file'] /\ UNCHANGED <<memory, client, stat>>
    BY <1>13 DEF Replace
  <2>4. /\ \A p \in Process : memory[p].mtime \in Int /\ memory[p].config.at \in Int
                              /\ client[p].at \in Int
        /\ \A u \in Thread : stat[u] \in Int /\ conf[u].at \in Int
    BY Values DEF TypeOK
  <2>5. QED
    BY <2>2, <2>3, <2>4 DEF Known
<1>14. ASSUME NEW t \in Thread, Remember(t), UNCHANGED crew PROVE Known'
  BY <1>14, Values DEF Remember, Installed, TypeOK, Known
<1>15. ASSUME NEW t \in Thread, UpdateFails(t), UNCHANGED crew PROVE Known'
  BY <1>15, Values DEF UpdateFails, End, TypeOK, Known
<1>16. ASSUME NEW t \in Thread, NewClient(t), UNCHANGED crew PROVE Known'
  BY <1>16 DEF NewClient, Known
<1>17. ASSUME NEW t \in Thread, SaveSite(t), UNCHANGED crew PROVE Known'
  BY <1>17 DEF SaveSite, Known
<1>18. ASSUME NEW t \in Thread, SaveSiteFails(t), UNCHANGED crew PROVE Known'
  BY <1>18, Values DEF SaveSiteFails, End, TypeOK, Known
<1>19. ASSUME Edit, UNCHANGED crew PROVE Known'
  <2>1. file'.at = file.at + 1 /\ file.at \in Int /\ file'.base = file'.at
        /\ file.at \in Version
    BY <1>19, Values DEF Edit, TypeOK
  <2>2. UNCHANGED <<memory, client, stat, conf>>
    BY <1>19 DEF Edit
  <2>3. /\ \A p \in Process : memory[p].mtime \in Int /\ memory[p].config.at \in Int
                              /\ client[p].at \in Int
        /\ \A u \in Thread : stat[u] \in Int /\ conf[u].at \in Int
    BY Values DEF TypeOK
  <2>4. QED
    BY <2>1, <2>2, <2>3 DEF Known
<1>20. ASSUME NEW p \in Process, Restart(p), UNCHANGED crew PROVE Known'
  BY <1>20, Values DEF Restart, TypeOK, Known
<1>21. CASE UNCHANGED vars
  BY <1>21 DEF vars, Known
<1>22. QED
  BY <1>1, <1>2, <1>3, <1>4, <1>5, <1>6, <1>7, <1>8, <1>9, <1>10, <1>11, <1>12,
     <1>13, <1>14, <1>15, <1>16, <1>17, <1>18, <1>19, <1>20, <1>21, Moves DEF Step

LEMMA RememberedNext ==
    TypeOK /\ Drafted /\ Locked /\ Known /\ Remembered /\ [Next]_vars => Remembered'
<1> SUFFICES ASSUME TypeOK /\ Drafted /\ Locked /\ Known /\ Remembered,
[Next]_vars PROVE Remembered'
  OBVIOUS
<1>1. ASSUME NEW t \in Thread, Enter(t), UNCHANGED crew PROVE Remembered'
  BY <1>1 DEF Enter, Goto, Remembered, MemoryAgrees
<1>2. ASSUME NEW t \in Thread, EnterSave(t), UNCHANGED crew PROVE Remembered'
  BY <1>2 DEF EnterSave, Goto, Remembered, MemoryAgrees
<1>3. ASSUME NEW t \in Thread, BeginRead(t), UNCHANGED crew PROVE Remembered'
  BY <1>3 DEF BeginRead, Goto, Remembered, MemoryAgrees
<1>4. ASSUME NEW t \in Thread, Stat(t), UNCHANGED crew PROVE Remembered'
  BY <1>4 DEF Stat, Goto, TypeOK, Remembered, MemoryAgrees
<1>5. ASSUME NEW t \in Thread, Load(t), UNCHANGED crew PROVE Remembered'
  BY <1>5 DEF Load, Goto, Remembered, MemoryAgrees
<1>6. ASSUME NEW t \in Thread, LoadFails(t), UNCHANGED crew PROVE Remembered'
  BY <1>6 DEF LoadFails, End, Goto, Remembered, MemoryAgrees
<1>7. ASSUME NEW t \in Thread, TakePair(t), UNCHANGED crew PROVE Remembered'
  BY <1>7 DEF TakePair, Goto, Remembered, MemoryAgrees
<1>8. ASSUME NEW t \in Thread, Rebuild(t), UNCHANGED crew PROVE Remembered'
  BY <1>8 DEF Rebuild, Goto, Remembered, MemoryAgrees
<1>9. ASSUME NEW t \in Thread, Finish(t), UNCHANGED crew PROVE Remembered'
  BY <1>9 DEF Finish, End, Goto, Remembered, MemoryAgrees
<1>10. ASSUME NEW t \in Thread, Validate(t), UNCHANGED crew PROVE Remembered'
  BY <1>10 DEF Validate, Goto, Remembered, MemoryAgrees
<1>11. ASSUME NEW t \in Thread, Refuse(t), UNCHANGED crew PROVE Remembered'
  BY <1>11 DEF Refuse, End, Goto, Remembered, MemoryAgrees
<1>12. ASSUME NEW t \in Thread, Update(t), UNCHANGED crew PROVE Remembered'
  BY <1>12 DEF Update, Goto, Remembered, MemoryAgrees
<1>13. ASSUME NEW t \in Thread, Replace(t), UNCHANGED crew PROVE Remembered'
  BY <1>13, Values DEF Replace, Goto, TypeOK, Locked, Known, Saves, Remembered, MemoryAgrees
<1>14. ASSUME NEW t \in Thread, Remember(t), UNCHANGED crew PROVE Remembered'
  BY <1>14 DEF Remember, Goto, Installed, Remembered, MemoryAgrees
<1>15. ASSUME NEW t \in Thread, UpdateFails(t), UNCHANGED crew PROVE Remembered'
  BY <1>15 DEF UpdateFails, End, Goto, TypeOK, Remembered, MemoryAgrees
<1>16. ASSUME NEW t \in Thread, NewClient(t), UNCHANGED crew PROVE Remembered'
  BY <1>16 DEF NewClient, Goto, Remembered, MemoryAgrees
<1>17. ASSUME NEW t \in Thread, SaveSite(t), UNCHANGED crew PROVE Remembered'
  BY <1>17 DEF SaveSite, Goto, Remembered, MemoryAgrees
<1>18. ASSUME NEW t \in Thread, SaveSiteFails(t), UNCHANGED crew PROVE Remembered'
  BY <1>18 DEF SaveSiteFails, End, Goto, Remembered, MemoryAgrees
<1>19. ASSUME Edit, UNCHANGED crew PROVE Remembered'
  BY <1>19, Values DEF Edit, Saving, TypeOK, Locked, Known, Saves, Remembered, MemoryAgrees
<1>20. ASSUME NEW p \in Process, Restart(p), UNCHANGED crew PROVE Remembered'
  BY <1>20 DEF Restart, Remembered, MemoryAgrees
<1>21. CASE UNCHANGED vars
  BY <1>21 DEF vars, Remembered, MemoryAgrees
<1>22. QED
  BY <1>1, <1>2, <1>3, <1>4, <1>5, <1>6, <1>7, <1>8, <1>9, <1>10, <1>11, <1>12,
     <1>13, <1>14, <1>15, <1>16, <1>17, <1>18, <1>19, <1>20, <1>21, Moves DEF Step

LEMMA OrderedNext == TypeOK /\ Drafted /\ Locked /\ Known /\ Ordered /\ [Next]_vars => Ordered'
<1> SUFFICES ASSUME TypeOK /\ Drafted /\ Locked /\ Known /\ Ordered, [Next]_vars PROVE Ordered'
  OBVIOUS
<1>1. ASSUME NEW t \in Thread, Enter(t), UNCHANGED crew PROVE Ordered'
  BY <1>1 DEF Enter, Goto, Ordered
<1>2. ASSUME NEW t \in Thread, EnterSave(t), UNCHANGED crew PROVE Ordered'
  BY <1>2 DEF EnterSave, Goto, Ordered
<1>3. ASSUME NEW t \in Thread, BeginRead(t), UNCHANGED crew PROVE Ordered'
  BY <1>3 DEF BeginRead, Goto, Ordered
<1>4. ASSUME NEW t \in Thread, Stat(t), UNCHANGED crew PROVE Ordered'
  <2>1. pc[t] = "open" /\ UNCHANGED <<memory, client, kind>>
    BY <1>4 DEF Stat
  <2>2. CASE file.at = memory[Proc(t)].mtime
    <3>1. /\ conf' = [conf EXCEPT ![t] = memory[Proc(t)].config]
          /\ pc' = [pc EXCEPT ![t] = "given"]
      BY <1>4, <2>2 DEF Stat, Goto
    <3>2. kind[t] = "policy" => Proc(t) = "daemon"
      BY Values DEF Locked
    <3>3. memory["daemon"].config.at \in Int
      BY Values DEF TypeOK
    <3>4. QED
      BY <2>1, <3>1, <3>2, <3>3 DEF Ordered, TypeOK
  <2>3. CASE file.at # memory[Proc(t)].mtime
    <3>1. pc' = [pc EXCEPT ![t] = "load"] /\ UNCHANGED conf
      BY <1>4, <2>3 DEF Stat, Goto
    <3>2. QED
      BY <2>1, <3>1 DEF Ordered, TypeOK
  <2>4. QED
    BY <2>2, <2>3
<1>5. ASSUME NEW t \in Thread, Load(t), UNCHANGED crew PROVE Ordered'
  BY <1>5, Values DEF Load, Goto, TypeOK, Locked, Known, Ordered
<1>6. ASSUME NEW t \in Thread, LoadFails(t), UNCHANGED crew PROVE Ordered'
  BY <1>6 DEF LoadFails, End, Goto, Ordered
<1>7. ASSUME NEW t \in Thread, TakePair(t), UNCHANGED crew PROVE Ordered'
  BY <1>7 DEF TakePair, Goto, Ordered
<1>8. ASSUME NEW t \in Thread, Rebuild(t), UNCHANGED crew PROVE Ordered'
  BY <1>8, Values DEF Rebuild, Goto, Built, Drafted, Locked, Ordered
<1>9. ASSUME NEW t \in Thread, Finish(t), UNCHANGED crew PROVE Ordered'
  BY <1>9 DEF Finish, End, Goto, Ordered
<1>10. ASSUME NEW t \in Thread, Validate(t), UNCHANGED crew PROVE Ordered'
  BY <1>10 DEF Validate, Goto, Ordered
<1>11. ASSUME NEW t \in Thread, Refuse(t), UNCHANGED crew PROVE Ordered'
  BY <1>11 DEF Refuse, End, Goto, Ordered
<1>12. ASSUME NEW t \in Thread, Update(t), UNCHANGED crew PROVE Ordered'
  BY <1>12 DEF Update, Goto, Ordered
<1>13. ASSUME NEW t \in Thread, Replace(t), UNCHANGED crew PROVE Ordered'
  BY <1>13, Values DEF Replace, Goto, TypeOK, Known, Ordered
<1>14. ASSUME NEW t \in Thread, Remember(t), UNCHANGED crew PROVE Ordered'
  BY <1>14 DEF Remember, Goto, Ordered
<1>15. ASSUME NEW t \in Thread, UpdateFails(t), UNCHANGED crew PROVE Ordered'
  BY <1>15 DEF UpdateFails, End, Goto, TypeOK, Ordered
<1>16. ASSUME NEW t \in Thread, NewClient(t), UNCHANGED crew PROVE Ordered'
  BY <1>16, Values DEF NewClient, Goto, Drafted, Locked, Saves, Ordered
<1>17. ASSUME NEW t \in Thread, SaveSite(t), UNCHANGED crew PROVE Ordered'
  BY <1>17 DEF SaveSite, Goto, Ordered
<1>18. ASSUME NEW t \in Thread, SaveSiteFails(t), UNCHANGED crew PROVE Ordered'
  BY <1>18 DEF SaveSiteFails, End, Goto, Ordered
<1>19. ASSUME Edit, UNCHANGED crew PROVE Ordered'
  BY <1>19 DEF Edit, Ordered
<1>20. ASSUME NEW p \in Process, Restart(p), UNCHANGED crew PROVE Ordered'
  BY <1>20, Values DEF Restart, TypeOK, Locked, Saves, Ordered
<1>21. CASE UNCHANGED vars
  BY <1>21 DEF vars, Ordered
<1>22. QED
  BY <1>1, <1>2, <1>3, <1>4, <1>5, <1>6, <1>7, <1>8, <1>9, <1>10, <1>11, <1>12,
     <1>13, <1>14, <1>15, <1>16, <1>17, <1>18, <1>19, <1>20, <1>21, Moves DEF Step

LEMMA SameMerged ==
    ASSUME NEW u \in Thread, want'[u] = want[u], UNCHANGED site
    PROVE  Merged(u)' = Merged(u)
BY DEF Merged

LEMMA ValidatedNext == TypeOK /\ Locked /\ Validated /\ [Next]_vars => Validated'
<1> SUFFICES ASSUME TypeOK /\ Locked /\ Validated, [Next]_vars PROVE Validated'
  OBVIOUS
<1>1. ASSUME NEW t \in Thread, Enter(t), UNCHANGED crew PROVE Validated'
  <2>1. /\ UNCHANGED site
        /\ \A u \in Thread : pc'[u] \in Saves => pc[u] \in Saves /\ want'[u] = want[u]
    BY <1>1 DEF Enter, Goto, Saves
  <2>2. QED
    BY <2>1, SameMerged DEF Validated, LengthsMeet, Acceptable
<1>2. ASSUME NEW t \in Thread, EnterSave(t), UNCHANGED crew PROVE Validated'
  <2>1. /\ UNCHANGED site
        /\ \A u \in Thread : pc'[u] \in Saves => pc[u] \in Saves /\ want'[u] = want[u]
    BY <1>2 DEF EnterSave, Goto, TypeOK, Saves
  <2>2. QED
    BY <2>1, SameMerged DEF Validated, LengthsMeet, Acceptable
<1>3. ASSUME NEW t \in Thread, BeginRead(t), UNCHANGED crew PROVE Validated'
  <2>1. /\ UNCHANGED site
        /\ \A u \in Thread : pc'[u] \in Saves => pc[u] \in Saves /\ want'[u] = want[u]
    BY <1>3 DEF BeginRead, Goto, Saves
  <2>2. QED
    BY <2>1, SameMerged DEF Validated, LengthsMeet, Acceptable
<1>4. ASSUME NEW t \in Thread, Stat(t), UNCHANGED crew PROVE Validated'
  <2>1. /\ UNCHANGED site
        /\ \A u \in Thread : pc'[u] \in Saves => pc[u] \in Saves /\ want'[u] = want[u]
    BY <1>4 DEF Stat, Goto, TypeOK, Saves
  <2>2. QED
    BY <2>1, SameMerged DEF Validated, LengthsMeet, Acceptable
<1>5. ASSUME NEW t \in Thread, Load(t), UNCHANGED crew PROVE Validated'
  <2>1. /\ UNCHANGED site
        /\ \A u \in Thread : pc'[u] \in Saves => pc[u] \in Saves /\ want'[u] = want[u]
    BY <1>5 DEF Load, Goto, Saves
  <2>2. QED
    BY <2>1, SameMerged DEF Validated, LengthsMeet, Acceptable
<1>6. ASSUME NEW t \in Thread, LoadFails(t), UNCHANGED crew PROVE Validated'
  <2>1. /\ UNCHANGED site
        /\ \A u \in Thread : pc'[u] \in Saves => pc[u] \in Saves /\ want'[u] = want[u]
    BY <1>6 DEF LoadFails, End, Goto, TypeOK, Saves
  <2>2. QED
    BY <2>1, SameMerged DEF Validated, LengthsMeet, Acceptable
<1>7. ASSUME NEW t \in Thread, TakePair(t), UNCHANGED crew PROVE Validated'
  <2>1. /\ UNCHANGED site
        /\ \A u \in Thread : pc'[u] \in Saves => pc[u] \in Saves /\ want'[u] = want[u]
    BY <1>7 DEF TakePair, Goto, Saves
  <2>2. QED
    BY <2>1, SameMerged DEF Validated, LengthsMeet, Acceptable
<1>8. ASSUME NEW t \in Thread, Rebuild(t), UNCHANGED crew PROVE Validated'
  <2>1. /\ UNCHANGED site
        /\ \A u \in Thread : pc'[u] \in Saves => pc[u] \in Saves /\ want'[u] = want[u]
    BY <1>8 DEF Rebuild, Goto, Saves
  <2>2. QED
    BY <2>1, SameMerged DEF Validated, LengthsMeet, Acceptable
<1>9. ASSUME NEW t \in Thread, Finish(t), UNCHANGED crew PROVE Validated'
  <2>1. /\ UNCHANGED site
        /\ \A u \in Thread : pc'[u] \in Saves => pc[u] \in Saves /\ want'[u] = want[u]
    BY <1>9 DEF Finish, End, Goto, Saves
  <2>2. QED
    BY <2>1, SameMerged DEF Validated, LengthsMeet, Acceptable
<1>10. ASSUME NEW t \in Thread, Validate(t), UNCHANGED crew PROVE Validated'
  <2>1. /\ Acceptable(Merged(t)) /\ UNCHANGED <<site, want>>
        /\ \A u \in Thread : u # t => pc'[u] = pc[u]
    BY <1>10 DEF Validate, Goto, TypeOK
  <2>2. QED
    BY <2>1, SameMerged DEF Validated, LengthsMeet, Acceptable
<1>11. ASSUME NEW t \in Thread, Refuse(t), UNCHANGED crew PROVE Validated'
  <2>1. /\ UNCHANGED site
        /\ \A u \in Thread : pc'[u] \in Saves => pc[u] \in Saves /\ want'[u] = want[u]
    BY <1>11 DEF Refuse, End, Goto, Saves
  <2>2. QED
    BY <2>1, SameMerged DEF Validated, LengthsMeet, Acceptable
<1>12. ASSUME NEW t \in Thread, Update(t), UNCHANGED crew PROVE Validated'
  <2>1. /\ UNCHANGED site
        /\ \A u \in Thread : pc'[u] \in Saves => pc[u] \in Saves /\ want'[u] = want[u]
    BY <1>12 DEF Update, Goto, Saves
  <2>2. QED
    BY <2>1, SameMerged DEF Validated, LengthsMeet, Acceptable
<1>13. ASSUME NEW t \in Thread, Replace(t), UNCHANGED crew PROVE Validated'
  <2>1. /\ UNCHANGED site
        /\ \A u \in Thread : pc'[u] \in Saves => pc[u] \in Saves /\ want'[u] = want[u]
    BY <1>13 DEF Replace, Goto, Saves
  <2>2. QED
    BY <2>1, SameMerged DEF Validated, LengthsMeet, Acceptable
<1>14. ASSUME NEW t \in Thread, Remember(t), UNCHANGED crew PROVE Validated'
  <2>1. /\ UNCHANGED site
        /\ \A u \in Thread : pc'[u] \in Saves => pc[u] \in Saves /\ want'[u] = want[u]
    BY <1>14 DEF Remember, Goto, Saves
  <2>2. QED
    BY <2>1, SameMerged DEF Validated, LengthsMeet, Acceptable
<1>15. ASSUME NEW t \in Thread, UpdateFails(t), UNCHANGED crew PROVE Validated'
  <2>1. /\ UNCHANGED site
        /\ \A u \in Thread : pc'[u] \in Saves => pc[u] \in Saves /\ want'[u] = want[u]
    BY <1>15 DEF UpdateFails, End, Goto, TypeOK, Saves
  <2>2. QED
    BY <2>1, SameMerged DEF Validated, LengthsMeet, Acceptable
<1>16. ASSUME NEW t \in Thread, NewClient(t), UNCHANGED crew PROVE Validated'
  <2>1. /\ UNCHANGED site
        /\ \A u \in Thread : pc'[u] \in Saves => pc[u] \in Saves /\ want'[u] = want[u]
    BY <1>16 DEF NewClient, Goto, Saves
  <2>2. QED
    BY <2>1, SameMerged DEF Validated, LengthsMeet, Acceptable
<1>17. ASSUME NEW t \in Thread, SaveSite(t), UNCHANGED crew PROVE Validated'
  <2>1. /\ pc[t] = "site" /\ site' = Merged(t) /\ pc' = [pc EXCEPT ![t] = "open"]
    BY <1>17 DEF SaveSite, Goto
  <2>2. Acceptable(Merged(t)) /\ t \in ApiThread
    BY <2>1 DEF Validated, Locked, Saves
  <2>3. ASSUME NEW u \in Thread, pc'[u] \in Saves PROVE FALSE
    <3>1. u # t /\ pc[u] \in Saves
      BY <2>1, <2>3 DEF TypeOK, Saves
    <3>2. u \in ApiThread
      BY <3>1 DEF Locked, Saves
    <3>3. kind[u] = "save" /\ kind[t] = "save"
      BY <2>1, <3>1 DEF Locked, Saves
    <3>4. pairLock["api"] = u /\ pairLock["api"] = t
      BY <2>1, <2>2, <3>1, <3>2, <3>3, Values DEF Locked, Saves
    <3>5. QED
      BY <3>1, <3>4
  <2>4. QED
    BY <2>1, <2>2, <2>3 DEF Validated, LengthsMeet, Acceptable
<1>18. ASSUME NEW t \in Thread, SaveSiteFails(t), UNCHANGED crew PROVE Validated'
  <2>1. /\ UNCHANGED site
        /\ \A u \in Thread : pc'[u] \in Saves => pc[u] \in Saves /\ want'[u] = want[u]
    BY <1>18 DEF SaveSiteFails, End, Goto, TypeOK, Saves
  <2>2. QED
    BY <2>1, SameMerged DEF Validated, LengthsMeet, Acceptable
<1>19. ASSUME Edit, UNCHANGED crew PROVE Validated'
  BY <1>19, SameMerged DEF Edit, Validated, LengthsMeet
<1>20. ASSUME NEW p \in Process, Restart(p), UNCHANGED crew PROVE Validated'
  <2>1. /\ UNCHANGED site
        /\ \A u \in Thread : pc'[u] \in Saves => pc[u] \in Saves /\ want'[u] = want[u]
    BY <1>20 DEF Restart, TypeOK, Saves
  <2>2. QED
    BY <2>1, SameMerged DEF Validated, LengthsMeet, Acceptable
<1>21. CASE UNCHANGED vars
  BY <1>21, SameMerged DEF vars, Validated, LengthsMeet
<1>22. QED
  BY <1>1, <1>2, <1>3, <1>4, <1>5, <1>6, <1>7, <1>8, <1>9, <1>10, <1>11, <1>12,
     <1>13, <1>14, <1>15, <1>16, <1>17, <1>18, <1>19, <1>20, <1>21, Moves DEF Step

LEMMA EditedNext == TypeOK /\ Drafted /\ Locked /\ Edited /\ [Next]_vars => Edited'
<1> SUFFICES ASSUME TypeOK /\ Drafted /\ Locked /\ Edited, [Next]_vars PROVE Edited'
  OBVIOUS
<1>1. ASSUME NEW t \in Thread, Enter(t), UNCHANGED crew PROVE Edited'
  BY <1>1 DEF Enter, Goto, Edited, EditsAreKept
<1>2. ASSUME NEW t \in Thread, EnterSave(t), UNCHANGED crew PROVE Edited'
  BY <1>2 DEF EnterSave, Goto, Edited, EditsAreKept
<1>3. ASSUME NEW t \in Thread, BeginRead(t), UNCHANGED crew PROVE Edited'
  BY <1>3 DEF BeginRead, Goto, Edited, EditsAreKept
<1>4. ASSUME NEW t \in Thread, Stat(t), UNCHANGED crew PROVE Edited'
  BY <1>4 DEF Stat, Goto, TypeOK, Edited, EditsAreKept
<1>5. ASSUME NEW t \in Thread, Load(t), UNCHANGED crew PROVE Edited'
  BY <1>5 DEF Load, Goto, Edited, EditsAreKept
<1>6. ASSUME NEW t \in Thread, LoadFails(t), UNCHANGED crew PROVE Edited'
  BY <1>6 DEF LoadFails, End, Goto, Edited, EditsAreKept
<1>7. ASSUME NEW t \in Thread, TakePair(t), UNCHANGED crew PROVE Edited'
  BY <1>7 DEF TakePair, Goto, Edited, EditsAreKept
<1>8. ASSUME NEW t \in Thread, Rebuild(t), UNCHANGED crew PROVE Edited'
  BY <1>8 DEF Rebuild, Goto, Edited, EditsAreKept
<1>9. ASSUME NEW t \in Thread, Finish(t), UNCHANGED crew PROVE Edited'
  BY <1>9 DEF Finish, End, Goto, Edited, EditsAreKept
<1>10. ASSUME NEW t \in Thread, Validate(t), UNCHANGED crew PROVE Edited'
  BY <1>10 DEF Validate, Goto, Edited, EditsAreKept
<1>11. ASSUME NEW t \in Thread, Refuse(t), UNCHANGED crew PROVE Edited'
  BY <1>11 DEF Refuse, End, Goto, Edited, EditsAreKept
<1>12. ASSUME NEW t \in Thread, Update(t), UNCHANGED crew PROVE Edited'
  BY <1>12 DEF Update, Goto, Base, TypeOK, Edited, EditsAreKept
<1>13. ASSUME NEW t \in Thread, Replace(t), UNCHANGED crew PROVE Edited'
  BY <1>13 DEF Replace, Goto, Edited, EditsAreKept
<1>14. ASSUME NEW t \in Thread, Remember(t), UNCHANGED crew PROVE Edited'
  BY <1>14 DEF Remember, Goto, Edited, EditsAreKept
<1>15. ASSUME NEW t \in Thread, UpdateFails(t), UNCHANGED crew PROVE Edited'
  BY <1>15 DEF UpdateFails, End, Goto, TypeOK, Edited, EditsAreKept
<1>16. ASSUME NEW t \in Thread, NewClient(t), UNCHANGED crew PROVE Edited'
  BY <1>16 DEF NewClient, Goto, Edited, EditsAreKept
<1>17. ASSUME NEW t \in Thread, SaveSite(t), UNCHANGED crew PROVE Edited'
  BY <1>17 DEF SaveSite, Goto, Edited, EditsAreKept
<1>18. ASSUME NEW t \in Thread, SaveSiteFails(t), UNCHANGED crew PROVE Edited'
  BY <1>18 DEF SaveSiteFails, End, Goto, Edited, EditsAreKept
<1>19. ASSUME Edit, UNCHANGED crew PROVE Edited'
  <2>1. file'.at = file.at + 1 /\ file.at \in Int /\ file'.base = file'.at
        /\ file.at \in Version
    BY <1>19, Values DEF Edit, TypeOK
  <2>2. ASSUME NEW u \in Thread, pc[u] = "replace" PROVE file'.at \in trampled'
    <3>1. u \in ApiThread
      BY <2>2 DEF Locked, Saves
    <3>2. QED
      BY <1>19, <2>2, <3>1 DEF Edit, Saving
  <2>3. QED
    BY <1>19, <2>1, <2>2 DEF Edit, Edited, EditsAreKept
<1>20. ASSUME NEW p \in Process, Restart(p), UNCHANGED crew PROVE Edited'
  BY <1>20 DEF Restart, Edited, EditsAreKept
<1>21. CASE UNCHANGED vars
  BY <1>21 DEF vars, Edited, EditsAreKept
<1>22. QED
  BY <1>1, <1>2, <1>3, <1>4, <1>5, <1>6, <1>7, <1>8, <1>9, <1>10, <1>11, <1>12,
     <1>13, <1>14, <1>15, <1>16, <1>17, <1>18, <1>19, <1>20, <1>21, Moves DEF Step

(* Two threads in a save, or one in a save and one that reads the pair, are   *)
(* the same thread.                                                         *)
LEMMA Exclusion ==
    ASSUME Locked, NEW t \in ApiThread, NEW u \in ApiThread,
           pc[t] \in Saves \cup {"open", "load", "given"}, kind[t] # "read",
           pc[u] \in Saves
    PROVE  t = u
<1>1. pairLock["api"] = t
  BY Values DEF Locked
<1>2. pairLock["api"] = u
  BY Values DEF Locked, Saves
<1>3. QED
  BY <1>1, <1>2

LEMMA PairedNext ==
    TypeOK /\ Drafted /\ Locked /\ Known /\ Remembered /\ Paired /\ [Next]_vars => Paired'
<1> SUFFICES ASSUME TypeOK /\ Drafted /\ Locked /\ Known /\ Remembered /\ Paired,
[Next]_vars PROVE Paired'
  OBVIOUS
<1>1. ASSUME NEW t \in Thread, Enter(t), UNCHANGED crew PROVE Paired'
  BY <1>1 DEF Enter, Goto, Paired, Settled, PairsMatch
<1>2. ASSUME NEW t \in Thread, EnterSave(t), UNCHANGED crew PROVE Paired'
  BY <1>2 DEF EnterSave, Goto, Paired, Settled, PairsMatch
<1>3. ASSUME NEW t \in Thread, BeginRead(t), UNCHANGED crew PROVE Paired'
  BY <1>3 DEF BeginRead, Goto, Paired, Settled, PairsMatch
<1>4. ASSUME NEW t \in Thread, Stat(t), UNCHANGED crew PROVE Paired'
  <2>1. pc[t] = "open" /\ UNCHANGED <<file, memory, client, kind, jmap, history>>
    BY <1>4 DEF Stat
  <2>2. CASE file.at = memory[Proc(t)].mtime
    <3>1. /\ conf' = [conf EXCEPT ![t] = memory[Proc(t)].config]
          /\ pc' = [pc EXCEPT ![t] = "given"]
      BY <1>4, <2>2 DEF Stat, Goto
    <3>2. ASSUME kind[t] = "mail" PROVE Settled(memory[Proc(t)].config)
      <4>1. t \in ApiThread /\ Proc(t) = "api"
        BY <3>2, Values DEF Locked
      <4>2. ASSUME NEW u \in Thread, pc[u] = "client" PROVE FALSE
        <5>1. u \in ApiThread
          BY <4>2 DEF Locked, Saves
        <5>2. t = u
          BY <2>1, <3>2, <4>1, <4>2, <5>1, Exclusion DEF Saves
        <5>3. QED
          BY <2>1, <4>2, <5>2
      <4>3. QED
        BY <4>1, <4>2 DEF Paired
    <3>3. QED
      BY <2>1, <3>1, <3>2 DEF Paired, PairsMatch, Settled, TypeOK
  <2>3. CASE file.at # memory[Proc(t)].mtime
    <3>1. pc' = [pc EXCEPT ![t] = "load"] /\ UNCHANGED conf
      BY <1>4, <2>3 DEF Stat, Goto
    <3>2. QED
      BY <2>1, <3>1 DEF Paired, PairsMatch, Settled
  <2>4. QED
    BY <2>2, <2>3
<1>5. ASSUME NEW t \in Thread, Load(t), UNCHANGED crew PROVE Paired'
  BY <1>5, Values DEF Load, Goto, Free, TypeOK, Locked, Saves, Paired, Settled, PairsMatch
<1>6. ASSUME NEW t \in Thread, LoadFails(t), UNCHANGED crew PROVE Paired'
  BY <1>6 DEF LoadFails, End, Goto, Paired, Settled, PairsMatch
<1>7. ASSUME NEW t \in Thread, TakePair(t), UNCHANGED crew PROVE Paired'
  BY <1>7 DEF TakePair, Goto, TypeOK, Locked, Paired, Settled, PairsMatch
<1>8. ASSUME NEW t \in Thread, Rebuild(t), UNCHANGED crew PROVE Paired'
  <2>1. /\ pc[t] = "given" /\ UNCHANGED <<file, memory, kind, conf, history>>
        /\ jmap' = [jmap EXCEPT ![t] = Built(t)]
        /\ pc' = [pc EXCEPT ![t] = "call"]
        /\ client' = [client EXCEPT !["daemon"] = Built(t)]
    BY <1>8 DEF Rebuild, Goto
  <2>2. client'["api"] = client["api"]
    BY <2>1, Values DEF TypeOK
  <2>3. Built(t).server = conf[t].server
    BY DEF Built, Fingerprint
  <2>4. PairsMatch'
    BY <2>1, <2>3 DEF Paired, PairsMatch, TypeOK
  <2>5. QED
    BY <2>1, <2>2, <2>4 DEF Paired, Settled
<1>9. ASSUME NEW t \in Thread, Finish(t), UNCHANGED crew PROVE Paired'
  BY <1>9 DEF Finish, End, Goto, TypeOK, Paired, Settled, PairsMatch
<1>10. ASSUME NEW t \in Thread, Validate(t), UNCHANGED crew PROVE Paired'
  BY <1>10 DEF Validate, Goto, Paired, Settled, PairsMatch
<1>11. ASSUME NEW t \in Thread, Refuse(t), UNCHANGED crew PROVE Paired'
  BY <1>11 DEF Refuse, End, Goto, Paired, Settled, PairsMatch
<1>12. ASSUME NEW t \in Thread, Update(t), UNCHANGED crew PROVE Paired'
  BY <1>12 DEF Update, Goto, Paired, Settled, PairsMatch
<1>13. ASSUME NEW t \in Thread, Replace(t), UNCHANGED crew PROVE Paired'
  BY <1>13, Values DEF Replace, Goto, TypeOK, Locked, Saves, Paired, Settled, PairsMatch
<1>14. ASSUME NEW t \in Thread, Remember(t), UNCHANGED crew PROVE Paired'
  <2>1. /\ pc[t] = "sync" /\ UNCHANGED <<file, client, kind, conf, jmap, history>>
        /\ pc' = [pc EXCEPT ![t] = "client"]
        /\ memory'["api"].config = conf[t]
    BY <1>14, Values DEF Remember, Goto, Installed, TypeOK
  <2>2. t \in ApiThread /\ kind[t] = "save"
    BY <2>1 DEF Locked, Saves
  <2>3. ASSUME NEW u \in Thread, pc[u] = "client" PROVE FALSE
    <3>1. u \in ApiThread
      BY <2>3 DEF Locked, Saves
    <3>2. t = u
      BY <2>1, <2>2, <2>3, <3>1, Exclusion DEF Saves
    <3>3. QED
      BY <2>1, <2>3, <3>2
  <2>4. t \in Thread /\ pc'[t] = "client"
    BY <2>1 DEF TypeOK
  <2>5. PairsMatch'
    BY <2>1 DEF Paired, PairsMatch, TypeOK
  <2>6. QED
    BY <2>1, <2>3, <2>4, <2>5 DEF Paired, Settled
<1>15. ASSUME NEW t \in Thread, UpdateFails(t), UNCHANGED crew PROVE Paired'
  BY <1>15 DEF UpdateFails, End, Goto, Paired, Settled, PairsMatch
<1>16. ASSUME NEW t \in Thread, NewClient(t), UNCHANGED crew PROVE Paired'
  BY <1>16, Values DEF NewClient, Goto, TypeOK, Locked, Known, Saves, Remembered, Paired,
     Settled, PairsMatch
<1>17. ASSUME NEW t \in Thread, SaveSite(t), UNCHANGED crew PROVE Paired'
  BY <1>17 DEF SaveSite, Goto, Paired, Settled, PairsMatch
<1>18. ASSUME NEW t \in Thread, SaveSiteFails(t), UNCHANGED crew PROVE Paired'
  BY <1>18 DEF SaveSiteFails, End, Goto, Paired, Settled, PairsMatch
<1>19. ASSUME Edit, UNCHANGED crew PROVE Paired'
  BY <1>19 DEF Edit, Paired, Settled, PairsMatch
<1>20. ASSUME NEW p \in Process, Restart(p), UNCHANGED crew PROVE Paired'
  BY <1>20, Values DEF Restart, TypeOK, Locked, Saves, Paired, Settled, PairsMatch
<1>21. CASE UNCHANGED vars
  BY <1>21 DEF vars, Paired, Settled, PairsMatch
<1>22. QED
  BY <1>1, <1>2, <1>3, <1>4, <1>5, <1>6, <1>7, <1>8, <1>9, <1>10, <1>11, <1>12,
     <1>13, <1>14, <1>15, <1>16, <1>17, <1>18, <1>19, <1>20, <1>21, Moves DEF Step

-----------------------------------------------------------------------------
(* The theorems.                                                            *)

LEMMA InvInit ==
    Init => Locked /\ Known /\ Remembered /\ Paired /\ Ordered /\ Validated /\ Edited
<1> SUFFICES ASSUME Init
             PROVE  Locked /\ Known /\ Remembered /\ Paired /\ Ordered /\ Validated /\ Edited
  OBVIOUS
<1>1. Locked /\ Paired /\ Remembered
  BY Values DEF Init, Locked, Saves, Paired, PairsMatch, Settled, Remembered, MemoryAgrees
<1>2. Known /\ Ordered
  BY Values DEF Init, Known, Ordered
<1>3. Validated /\ Edited
  BY DEF Init, Validated, LengthsMeet, Saves, Edited, EditsAreKept
<1>4. QED
  BY <1>1, <1>2, <1>3

LEMMA Invariance ==
    Spec => [](TypeOK /\ Drafted /\ Locked /\ Known /\ Remembered)
BY TypeInit, InvInit, TypeNext, LockedNext, KnownNext, RememberedNext, PTL DEF Spec

(* Every variable keeps its type.                                           *)
THEOREM TypeCorrect == Spec => []TypeOK
BY Invariance, PTL

(* A ConfigStore that trusts its mtime has what is in the file, unless an    *)
(* edit fell between a replace and the getmtime() after it.                  *)
THEOREM MemoryIsTheFile == Spec => []MemoryAgrees
<1>1. Remembered => MemoryAgrees
  BY DEF Remembered
<1>2. QED
  BY <1>1, Invariance, PTL

(* Every request and connection works with a client of the server that its   *)
(* configuration names.                                                     *)
THEOREM PairsAreGivenAsOne == Spec => []PairsMatch
<1>1. Paired => PairsMatch
  BY DEF Paired
<1>2. QED
  BY <1>1, Invariance, InvInit, PairedNext, PTL DEF Spec

(* No save tramples an edit it could have seen.                              *)
THEOREM EditsSurvive == Spec => []EditsAreKept
<1>1. Edited => EditsAreKept
  BY DEF Edited
<1>2. QED
  BY <1>1, Invariance, InvInit, EditedNext, PTL DEF Spec

(* The bounds on the length of a name always leave a name.                   *)
THEOREM BoundsMeet == Spec => []LengthsMeet
<1>1. Validated => LengthsMeet
  BY DEF Validated
<1>2. QED
  BY <1>1, Invariance, InvInit, ValidatedNext, PTL DEF Spec

LEMMA OnlyForward ==
    ASSUME TypeOK, Drafted, Locked, Known, Ordered, [Next]_vars
    PROVE  \A p \in Process : client'[p].at >= client[p].at
<1>1. \A p \in Process : client[p].at \in Int /\ client[p].at <= file.at
  BY Values DEF TypeOK, Known
<1>2. CASE UNCHANGED client
  BY <1>1, <1>2
<1>3. ASSUME NEW t \in Thread, Rebuild(t)
      PROVE  \A p \in Process : client'[p].at >= client[p].at
  <2>1. client' = [client EXCEPT !["daemon"] = Built(t)] /\ conf[t].at >= client["daemon"].at
    BY <1>3 DEF Rebuild, Ordered
  <2>2. Built(t).at >= client["daemon"].at
    BY <1>1, <2>1, Values DEF Built
  <2>3. QED
    BY <1>1, <2>1, <2>2
<1>4. ASSUME NEW t \in Thread, NewClient(t)
      PROVE  \A p \in Process : client'[p].at >= client[p].at
  <2>1. client' = [client EXCEPT !["api"] = conf[t]] /\ conf[t].at >= client["api"].at
    BY <1>4 DEF NewClient, Ordered
  <2>2. QED
    BY <1>1, <2>1 DEF TypeOK
<1>5. ASSUME NEW q \in Process, Restart(q)
      PROVE  \A p \in Process : client'[p].at >= client[p].at
  <2>1. client' = [client EXCEPT ![q] = file] /\ file.at \in Int
    BY <1>5, Values DEF Restart, TypeOK
  <2>2. QED
    BY <1>1, <2>1 DEF TypeOK
<1>6. QED
  BY <1>2, <1>3, <1>4, <1>5, Moves
     DEF Step, Enter, EnterSave, BeginRead, Stat, Load, LoadFails, TakePair, Finish,
         Validate, Refuse, Update, Replace, Remember, UpdateFails, SaveSite,
         SaveSiteFails, Edit, vars

(* No save and no connection ever puts a client in the place of one made     *)
(* from a newer version of the file.                                        *)
THEOREM ClientsOnlyMoveOn == Spec => ClientsMoveOn
<1>1. TypeOK /\ Drafted /\ Locked /\ Known /\ Ordered /\ [Next]_vars
      => [\A p \in Process : client'[p].at >= client[p].at]_vars
  BY OnlyForward
<1>2. Spec => []Ordered
  BY Invariance, InvInit, OrderedNext, PTL DEF Spec
<1>3. QED
  BY <1>1, <1>2, Invariance, PTL DEF Spec, ClientsMoveOn
=============================================================================
