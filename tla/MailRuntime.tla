----------------------------- MODULE MailRuntime -----------------------------
(***************************************************************************)
(* The configuration in force and the JMAP client built from it, in the    *)
(* web API and in the policy daemon: ConfigStore of src/src/config.py,     *)
(* mail_runtime() and update_settings() of the API, _runtime() of the      *)
(* daemon, and an operator who edits config.json with an editor.           *)
(*                                                                         *)
(* Each process has a ConfigStore (a configuration and the mtime of the    *)
(* file it came from, under a lock of its own) and one client (under the   *)
(* admin lock in the API, _jmap_lock in the daemon).  A thread is one      *)
(* request or connection.  Steps are cut between the stat and the read of  *)
(* the file, and between the writes of update() and of update_settings().  *)
(***************************************************************************)
EXTENDS Integers, FiniteSets

CONSTANTS
    ApiThread,  \* the requests the web API serves at a time
    Handler,    \* the connections the policy daemon serves at a time
    NoThread,   \* owner of a free lock
    Server,     \* the Stalwart servers a configuration may name
    Keep,       \* a change of the mail settings that keeps the server
    Changes,    \* the settings requests that are made
    Crews,      \* the sets of threads that may be at work
    MaxGen      \* bound on the versions of the file

Thread   == ApiThread \cup Handler
Process  == {"api", "daemon"}
Proc(t)  == IF t \in ApiThread THEN "api" ELSE "daemon"
Length   == 1 .. 64                     \* _integer(..., 1, 64, ...)
AtMostOne(S) == {{}} \cup {{x} : x \in S}

(* The body of PUT /settings: of the mail section the server, or another    *)
(* key; of the site section the bounds on the length of a name.             *)
Change   == [server : AtMostOne(Server \cup {Keep}),
             min : AtMostOne(Length), max : AtMostOne(Length)]
NoChange == [server |-> {}, min |-> {}, max |-> {}]

ASSUME RuntimeAssumption ==
    /\ ApiThread \cap Handler = {}
    /\ NoThread \notin Thread
    /\ Keep \notin Server
    /\ Changes \subseteq Change
    /\ Crews \subseteq SUBSET Thread
    /\ MaxGen \in Nat

VARIABLES
    crew,       \* the threads at work; it does not change
    file,       \* config.json: the version and the server it names
    memory,     \* per process: _config and _mtime of its ConfigStore
    client,     \* per process: the client in use, with the configuration
                \* it was built from
    pairLock,   \* per process: admin_lock, _jmap_lock
    storeLock,  \* per process: ConfigStore._lock
    site,       \* local_part_min and local_part_max of the state store
    pc,         \* per thread: next step
    kind,       \* per thread: what it serves
    stat,       \* per thread: the mtime get() has read
    conf,       \* per thread: the configuration it has been given
    jmap,       \* per thread: the client it has been given
    want,       \* per thread: the change being saved
    orphans,    \* history: versions that no client of the API was built for
    unseen,     \* history: edits made between a replace and its getmtime
    trampled,   \* history: edits made between a load of update() and its replace
    edited      \* history: the last edit of the operator

locks   == <<pairLock, storeLock>>
local   == <<kind, stat, conf, jmap, want>>
history == <<orphans, unseen, trampled, edited>>
vars    == <<crew, file, memory, client, locks, site, pc, local, history>>

-----------------------------------------------------------------------------
Version == 0 .. MaxGen

(* A version of the file: "at" is its mtime, and so identifies it; "base"   *)
(* is the operator's edit it contains.                                      *)
Config  == [at : Version, server : Server, base : Version]
NoConfig == [at |-> -1, server |-> Keep, base |-> -1]

Label == {"idle", "open", "load", "given", "update", "replace", "sync", "client",
          "site", "call"}
Kind  == {"none", "mail", "read", "save", "policy"}

TypeOK ==
    /\ crew \in Crews
    /\ file \in Config
    /\ memory \in [Process -> [mtime : Version \cup {-1}, config : Config]]
    /\ client \in [Process -> Config]
    /\ pairLock \in [Process -> Thread \cup {NoThread}]
    /\ storeLock \in [Process -> Thread \cup {NoThread}]
    /\ site \in [min : Length, max : Length]
    /\ pc \in [Thread -> Label]
    /\ kind \in [Thread -> Kind]
    /\ stat \in [Thread -> Version]
    /\ conf \in [Thread -> Config \cup {NoConfig}]
    /\ jmap \in [Thread -> Config \cup {NoConfig}]
    /\ want \in [Thread -> Change]
    /\ orphans \subseteq Version /\ unseen \subseteq Version /\ trampled \subseteq Version
    /\ edited \in Version

(* Both processes have started from the same file: create_app() and main().  *)
Init ==
    /\ crew \in Crews
    /\ file \in [at : {0}, server : Server, base : {0}]
    /\ memory = [p \in Process |-> [mtime |-> 0, config |-> file]]
    /\ client = [p \in Process |-> file]
    /\ pairLock = [p \in Process |-> NoThread]
    /\ storeLock = [p \in Process |-> NoThread]
    /\ site = [min |-> 3, max |-> 32]
    /\ pc = [t \in Thread |-> "idle"]
    /\ kind = [t \in Thread |-> "none"]
    /\ stat = [t \in Thread |-> 0]
    /\ conf = [t \in Thread |-> NoConfig]
    /\ jmap = [t \in Thread |-> NoConfig]
    /\ want = [t \in Thread |-> NoChange]
    /\ orphans = {} /\ unseen = {} /\ trampled = {}
    /\ edited = 0

-----------------------------------------------------------------------------
Goto(t, label) == pc' = [pc EXCEPT ![t] = label]
Take(lock, t)  == [lock EXCEPT ![Proc(t)] = t]
Free(lock, t)  == [lock EXCEPT ![Proc(t)] = IF @ = t THEN NoThread ELSE @]

(* The end of what t serves, well or with an exception: the with statements  *)
(* are left.                                                                *)
End(t) ==
    /\ Goto(t, "idle")
    /\ kind' = [kind EXCEPT ![t] = "none"]
    /\ stat' = [stat EXCEPT ![t] = 0]
    /\ conf' = [conf EXCEPT ![t] = NoConfig]
    /\ jmap' = [jmap EXCEPT ![t] = NoConfig]
    /\ want' = [want EXCEPT ![t] = NoChange]

Unlocked(t) ==
    /\ pairLock' = Free(pairLock, t)
    /\ storeLock' = Free(storeLock, t)

-----------------------------------------------------------------------------
(* Mutant: the settings are saved, and the pair is read, without the lock.    *)
PairFreeAny(t) == TRUE

(* What begins with the configuration and the client as a pair: a mail       *)
(* request, test-mail or the dashboard (mail_runtime()), a connection of the *)
(* daemon (_runtime()).                                                     *)
PairFree(t) == pairLock[Proc(t)] = NoThread

Enter(t) ==
    /\ pc[t] = "idle" /\ PairFree(t)
    /\ kind' = [kind EXCEPT ![t] = IF t \in ApiThread THEN "mail" ELSE "policy"]
    /\ pairLock' = Take(pairLock, t)
    /\ Goto(t, "open")
    /\ UNCHANGED <<file, memory, client, storeLock, site, stat, conf, jmap, want, history>>

(* PUT /settings, past the checks of its body.  The site settings change only *)
(* under the lock: what get_settings() reads here is "site" until the end.    *)
EnterSave(t) ==
    /\ pc[t] = "idle" /\ t \in ApiThread /\ PairFree(t)
    /\ kind' = [kind EXCEPT ![t] = "save"]
    /\ want' \in {[want EXCEPT ![t] = c] : c \in Changes}
    /\ pairLock' = Take(pairLock, t)
    /\ Goto(t, "open")
    /\ UNCHANGED <<file, memory, client, storeLock, site, stat, conf, jmap, history>>

(* What reads the configuration alone: a login, GET /settings.               *)
BeginRead(t) ==
    /\ pc[t] = "idle" /\ t \in ApiThread
    /\ kind' = [kind EXCEPT ![t] = "read"]
    /\ Goto(t, "open")
    /\ UNCHANGED <<file, memory, client, locks, site, stat, conf, jmap, want, history>>

(* ConfigStore.get(): stat the file; the configuration in memory is given    *)
(* if it has that mtime, or the file is loaded, maybe a newer one by then.   *)
StoreFree(t) == storeLock[Proc(t)] = NoThread

Stat(t) ==
    /\ pc[t] = "open" /\ StoreFree(t)
    /\ \/ /\ file.at = memory[Proc(t)].mtime
          /\ conf' = [conf EXCEPT ![t] = memory[Proc(t)].config]
          /\ Goto(t, "given")
          /\ UNCHANGED <<storeLock, stat>>
       \/ /\ file.at # memory[Proc(t)].mtime
          /\ stat' = [stat EXCEPT ![t] = file.at]
          /\ storeLock' = Take(storeLock, t)
          /\ Goto(t, "load")
          /\ UNCHANGED conf
    /\ UNCHANGED <<file, memory, client, pairLock, site, kind, jmap, want, history>>

Load(t) ==
    /\ pc[t] = "load"
    /\ memory' = [memory EXCEPT ![Proc(t)] = [mtime |-> stat[t], config |-> file]]
    /\ conf' = [conf EXCEPT ![t] = file]
    /\ storeLock' = Free(storeLock, t)
    /\ Goto(t, "given")
    /\ UNCHANGED <<file, client, pairLock, site, kind, stat, jmap, want, history>>

(* The file is missing or cannot be parsed at that moment.                   *)
LoadFails(t) ==
    /\ pc[t] \in {"open", "load", "update"}
    /\ End(t) /\ Unlocked(t)
    /\ UNCHANGED <<file, memory, client, site, history>>

-----------------------------------------------------------------------------
(* The pair.  In the API: what the lock has kept together.                   *)
TakePair(t) ==
    /\ pc[t] = "given" /\ kind[t] = "mail"
    /\ jmap' = [jmap EXCEPT ![t] = client["api"]]
    /\ pairLock' = Free(pairLock, t)
    /\ Goto(t, "call")
    /\ UNCHANGED <<file, memory, client, storeLock, site, kind, stat, conf, want, history>>

(* In the daemon: a new client if URL, token or catch-all have changed.      *)
Fingerprint(c) == c.server

(* Mutant: the client is kept whatever the configuration.                    *)
BuiltOnce(t) == client["daemon"]

Built(t) ==
    IF Fingerprint(client["daemon"]) = Fingerprint(conf[t])
    THEN client["daemon"] ELSE conf[t]

Rebuild(t) ==
    /\ pc[t] = "given" /\ kind[t] = "policy"
    /\ client' = [client EXCEPT !["daemon"] = Built(t)]
    /\ jmap' = [jmap EXCEPT ![t] = Built(t)]
    /\ pairLock' = Free(pairLock, t)
    /\ Goto(t, "call")
    /\ UNCHANGED <<file, memory, storeLock, site, kind, stat, conf, want, history>>

(* The calls to Stalwart, with that client and, unless it is discovered,     *)
(* with the account of that configuration.                                  *)
Finish(t) ==
    /\ \/ pc[t] = "call"
       \/ pc[t] = "given" /\ kind[t] = "read"
    /\ End(t)
    /\ UNCHANGED <<file, memory, client, locks, site, history>>

-----------------------------------------------------------------------------
(* update_settings().  The values are validated merged with the current      *)
(* ones.                                                                    *)
Chosen(S, default) == IF S = {} THEN default ELSE CHOOSE x \in S : TRUE
Merged(t) == [min |-> Chosen(want[t].min, site.min),
              max |-> Chosen(want[t].max, site.max)]
Acceptable(s) == s.min <= s.max
MailUpdates(t) == want[t].server # {}

Validate(t) ==
    /\ pc[t] = "given" /\ kind[t] = "save"
    /\ Acceptable(Merged(t))
    /\ Goto(t, IF MailUpdates(t) THEN "update" ELSE "site")
    /\ UNCHANGED <<file, memory, client, locks, site, local, history>>

Refuse(t) ==
    /\ pc[t] = "given" /\ kind[t] = "save"
    /\ ~Acceptable(Merged(t))
    /\ End(t) /\ Unlocked(t)
    /\ UNCHANGED <<file, memory, client, site, history>>

(* Mutant: the changed keys go on top of the configuration in memory.        *)
BaseInMemory(t) == memory["api"].config

(* ConfigStore.update(): the changed keys go on top of the file as it is.    *)
Base(t) == file

Update(t) ==
    /\ pc[t] = "update" /\ StoreFree(t)
    /\ \E s \in want[t].server :
          conf' = [conf EXCEPT ![t] =
                     [Base(t) EXCEPT !.server = IF s = Keep THEN @ ELSE s]]
    /\ storeLock' = Take(storeLock, t)
    /\ Goto(t, "replace")
    /\ UNCHANGED <<file, memory, client, pairLock, site, kind, stat, jmap, want, history>>

(* The temporary file is written, synced and renamed over config.json.       *)
Replace(t) ==
    /\ pc[t] = "replace" /\ file.at < MaxGen
    /\ file' = [conf[t] EXCEPT !.at = file.at + 1]
    /\ conf' = [conf EXCEPT ![t] = file']
    /\ Goto(t, "sync")
    /\ UNCHANGED <<memory, client, locks, site, kind, stat, jmap, want, history>>

(* Mutant: only the mtime is set.                                           *)
InstalledMtime(t) == [mtime |-> file.at, config |-> memory["api"].config]

(* The directory is synced; _config and _mtime are set, the mtime to what    *)
(* the path names now.                                                      *)
Installed(t) == [mtime |-> file.at, config |-> conf[t]]

Remember(t) ==
    /\ pc[t] = "sync"
    /\ memory' = [memory EXCEPT !["api"] = Installed(t)]
    /\ storeLock' = Free(storeLock, t)
    /\ Goto(t, "client")
    /\ UNCHANGED <<file, client, pairLock, site, local, history>>

(* An exception before the replace leaves the file, one after it leaves      *)
(* memory and client as they were.                                          *)
UpdateFails(t) ==
    /\ pc[t] \in {"replace", "sync"}
    /\ orphans' = IF pc[t] = "sync" THEN orphans \cup {conf[t].at} ELSE orphans
    /\ End(t) /\ Unlocked(t)
    /\ UNCHANGED <<file, memory, client, site, unseen, trampled, edited>>

NewClient(t) ==
    /\ pc[t] = "client"
    /\ client' = [client EXCEPT !["api"] = conf[t]]
    /\ Goto(t, "site")
    /\ UNCHANGED <<file, memory, locks, site, local, history>>

(* The site settings that were sent, then the answer: settings() again.      *)
SaveSite(t) ==
    /\ pc[t] = "site"
    /\ site' = Merged(t)
    /\ kind' = [kind EXCEPT ![t] = "read"]
    /\ Goto(t, "open")
    /\ pairLock' = Free(pairLock, t)
    /\ UNCHANGED <<file, memory, client, storeLock, stat, conf, jmap, want, history>>

SaveSiteFails(t) ==
    /\ pc[t] = "site"
    /\ End(t) /\ Unlocked(t)
    /\ UNCHANGED <<file, memory, client, site, history>>

-----------------------------------------------------------------------------
(* The operator replaces config.json: another server, or something that the  *)
(* administrator's page cannot change.                                      *)
Saving(label) == \E t \in ApiThread : pc[t] = label

Edit ==
    /\ file.at < MaxGen
    /\ file' \in [at : {file.at + 1}, server : Server, base : {file.at + 1}]
    /\ edited' = file'.at
    /\ orphans' = orphans \cup {file'.at}
    /\ unseen' = IF Saving("sync") THEN unseen \cup {file'.at} ELSE unseen
    /\ trampled' = IF Saving("replace") THEN trampled \cup {file'.at} ELSE trampled
    /\ UNCHANGED <<memory, client, locks, site, pc, local>>

(* A process dies and is started again: create_app(), main().                *)
Restart(p) ==
    LET mine(t) == Proc(t) = p IN
    /\ memory' = [memory EXCEPT ![p] = [mtime |-> file.at, config |-> file]]
    /\ client' = [client EXCEPT ![p] = file]
    /\ pairLock' = [pairLock EXCEPT ![p] = NoThread]
    /\ storeLock' = [storeLock EXCEPT ![p] = NoThread]
    /\ pc' = [t \in Thread |-> IF mine(t) THEN "idle" ELSE pc[t]]
    /\ kind' = [t \in Thread |-> IF mine(t) THEN "none" ELSE kind[t]]
    /\ stat' = [t \in Thread |-> IF mine(t) THEN 0 ELSE stat[t]]
    /\ conf' = [t \in Thread |-> IF mine(t) THEN NoConfig ELSE conf[t]]
    /\ jmap' = [t \in Thread |-> IF mine(t) THEN NoConfig ELSE jmap[t]]
    /\ want' = [t \in Thread |-> IF mine(t) THEN NoChange ELSE want[t]]
    /\ UNCHANGED <<file, site, history>>

Step(t) ==
    \/ Enter(t) \/ EnterSave(t) \/ BeginRead(t)
    \/ Stat(t) \/ Load(t) \/ LoadFails(t)
    \/ TakePair(t) \/ Rebuild(t) \/ Finish(t)
    \/ Validate(t) \/ Refuse(t) \/ Update(t) \/ Replace(t) \/ Remember(t)
    \/ UpdateFails(t) \/ NewClient(t) \/ SaveSite(t) \/ SaveSiteFails(t)

Next ==
    /\ \/ \E t \in crew : Step(t)
       \/ Edit
       \/ \E p \in {Proc(t) : t \in crew} : Restart(p)
    /\ UNCHANGED crew

Spec == Init /\ [][Next]_vars

-----------------------------------------------------------------------------
(* Properties.                                                              *)

(* A request or connection works with a client of the server its            *)
(* configuration names: mail_runtime() and _runtime() give both out as one.  *)
(* The API alone excepts a version no client was built for: an edit by hand, *)
(* or a save that failed after its replace.                                 *)
PairsMatch ==
    \A t \in Thread : pc[t] = "call" =>
        \/ jmap[t].server = conf[t].server
        \/ t \in ApiThread /\ conf[t].at \in orphans

(* A ConfigStore that would answer from memory, because the mtime is that of *)
(* the file, has what is in the file; but for an edit made in the instant    *)
(* between the replace of update() and its getmtime().                       *)
MemoryAgrees ==
    \A p \in Process :
        memory[p].mtime = file.at => memory[p].config = file \/ file.at \in unseen

(* The client of a process is never replaced by one of an older              *)
(* configuration, whichever of two saves or connections is faster.           *)
ClientsMoveOn == [][\A p \in Process : client'[p].at >= client[p].at]_vars

(* A save of the administrator keeps what the operator has edited, unless    *)
(* the edit was made between its load and its replace.                       *)
EditsAreKept == file.base = edited \/ edited \in trampled

(* Two saves that each change one bound of a name's length, and are each     *)
(* valid, never leave bounds that no name can meet.                         *)
LengthsMeet == site.min <= site.max
=============================================================================
