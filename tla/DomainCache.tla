---------------------------- MODULE DomainCache ----------------------------
(***************************************************************************)
(* The domain cache of src/src/domain_cache.py: one JSON file shared by    *)
(* the policy daemon and the web API, and in each process one DomainCache  *)
(* object whose memory copy many handler threads share.                    *)
(*                                                                         *)
(* Every object guards its memory with an RLock (`mutex`); every access to *)
(* the file's contents also takes flock() on a side file (`fileLock`).     *)
(* Only contains() looks at the file outside the locks: it stats it.  The  *)
(* steps below are cut at the points where another thread or process can   *)
(* run: the locks, and inside the locked regions the read, the publication *)
(* by os.replace() and the fsync of the directory, since an error or a     *)
(* crash may come between them.                                            *)
(***************************************************************************)
EXTENDS Integers, FiniteSets

CONSTANTS
    Thread,     \* the threads of all the processes
    Process,    \* the processes, each with its own DomainCache object
    ProcessOf,  \* the process of a thread
    MethodsOf,  \* the methods a thread calls
    NoThread,   \* owner of a free lock
    Domain,     \* the domain names
    MaxGen      \* bound: how many file generations a behaviour may create

(* active_domains() of src/src/api_auth.py, load() and then domains(), is   *)
(* the method "domains".                                                    *)
Asking   == {"contains", "domains"}
Snapshot == Asking \cup {"load", "generation"}
Writing  == {"add", "replace"}
Method   == Snapshot \cup Writing

ASSUME ProcessOfAssumption == ProcessOf \in [Thread -> Process]
ASSUME MethodsOfAssumption == MethodsOf \in [Thread -> SUBSET Method]
ASSUME NoThreadAssumption  == NoThread \notin Thread
ASSUME MaxGenAssumption    == MaxGen \in Nat

VARIABLES
    file,       \* what the path names now: its generation and its contents
    lastGen,    \* the last generation given out; a new file gets a new one
    survivors,  \* the versions of the file a power loss may leave behind
    memory,     \* per process: self._domains
    generation, \* per process: self._generation
    mutex,      \* per process: owner of self._lock
    fileLock,   \* owner of the flock
    pc,         \* per thread: the next step of its call
    op,         \* per thread: the method it runs
    arg,        \* per thread: the domains passed to it
    expect,     \* per thread: replace()'s expected_generation
    draft,      \* per thread: contents read, or about to be persisted
    stat,       \* per thread: generation it has read with os.stat()
    window,     \* history: the answers that were right during a contains()
    misled,     \* history: threads given an answer that never was right
    acked       \* history: domains an add() has acknowledged, not replaced since

shared  == <<file, lastGen, survivors>>
object  == <<memory, generation>>
locks   == <<mutex, fileLock>>
request == <<op, arg, expect>>
local   == <<draft, stat>>
vars    == <<shared, object, locks, pc, request, local, window, misled, acked>>

-----------------------------------------------------------------------------
NoGen   == -1                                   \* None
Missing == 0                                    \* (0, 0, 0, 0)
Gen     == Missing .. MaxGen

(* What _read() returns: a set of names, or None for a file that is missing *)
(* or does not hold a list of strings.                                      *)
Contents   == [ok : BOOLEAN, set : SUBSET Domain]
Unreadable == [ok |-> FALSE, set |-> {}]
Holding(S) == [ok |-> TRUE, set |-> S]
File       == [gen : Gen, data : Contents]

Label    == {"idle", "compare", "mutex", "flock", "read", "install",
             "readback", "publish", "sync", "lookup"}

Owner(t) == mutex[ProcessOf[t]]

FileFreeUnlocked == TRUE                        \* mutant: no flock
FileFree == fileLock = NoThread

(* The bound: a write begins only if a generation is left for it.           *)
Writers == {t \in Thread : op[t] \in Writing}
GenLeft == lastGen + Cardinality(Writers) < MaxGen

TypeOK ==
    /\ file \in File
    /\ lastGen \in Gen
    /\ survivors \in SUBSET File
    /\ memory \in [Process -> SUBSET Domain]
    /\ generation \in [Process -> Gen \cup {NoGen}]
    /\ mutex \in [Process -> Thread \cup {NoThread}]
    /\ fileLock \in Thread \cup {NoThread}
    /\ pc \in [Thread -> Label]
    /\ op \in [Thread -> Method \cup {"none"}]
    /\ arg \in [Thread -> SUBSET Domain]
    /\ expect \in [Thread -> Gen \cup {NoGen}]
    /\ draft \in [Thread -> Contents]
    /\ stat \in [Thread -> Gen \cup {NoGen}]
    /\ window \in [Thread -> SUBSET {"yes", "no"}]
    /\ misled \in SUBSET Thread
    /\ acked \in SUBSET Domain

Init ==
    /\ \/ file = [gen |-> Missing, data |-> Unreadable]
       \/ \E S \in SUBSET Domain : file = [gen |-> 1, data |-> Holding(S)]
    /\ file.gen <= MaxGen
    /\ lastGen = file.gen
    /\ survivors = {file}
    /\ memory = [p \in Process |-> {}]
    /\ generation = [p \in Process |-> NoGen]
    /\ mutex = [p \in Process |-> NoThread]
    /\ fileLock = NoThread
    /\ pc = [t \in Thread |-> "idle"]
    /\ op = [t \in Thread |-> "none"]
    /\ arg = [t \in Thread |-> {}]
    /\ expect = [t \in Thread |-> NoGen]
    /\ draft = [t \in Thread |-> Unreadable]
    /\ stat = [t \in Thread |-> NoGen]
    /\ window = [t \in Thread |-> {}]
    /\ misled = {}
    /\ acked = {}

-----------------------------------------------------------------------------
(* Bookkeeping shared by the actions.                                       *)

Goto(t, label) == pc' = [pc EXCEPT ![t] = label]

Reply(t, S) == IF arg[t] \subseteq S THEN "yes" ELSE "no"

(* The call of every thread in T ends: its locals go.                       *)
EndCalls(T) ==
    /\ pc'     = [t \in Thread |-> IF t \in T THEN "idle" ELSE pc[t]]
    /\ op'     = [t \in Thread |-> IF t \in T THEN "none" ELSE op[t]]
    /\ arg'    = [t \in Thread |-> IF t \in T THEN {} ELSE arg[t]]
    /\ expect' = [t \in Thread |-> IF t \in T THEN NoGen ELSE expect[t]]
    /\ draft'  = [t \in Thread |-> IF t \in T THEN Unreadable ELSE draft[t]]
    /\ stat'   = [t \in Thread |-> IF t \in T THEN NoGen ELSE stat[t]]

ReleaseMutex(t) == mutex' = [mutex EXCEPT ![ProcessOf[t]] = NoThread]
ReleaseFileNever(t) == UNCHANGED fileLock       \* mutant: no LOCK_UN
ReleaseFile(t)  == fileLock' = IF fileLock = t THEN NoThread ELSE fileLock

(* The answers a contains() may give while the file is f; any, while the    *)
(* file cannot be read.                                                     *)
RightAnswers(t, f) ==
    IF f.data.ok THEN {Reply(t, f.data.set)} ELSE {"yes", "no"}

(* A contains() returns whether its domain is in the memory copy.           *)
Answer(t) ==
    /\ misled' = IF Reply(t, memory[ProcessOf[t]]) \in window[t]
                 THEN misled ELSE misled \cup {t}
    /\ window' = [window EXCEPT ![t] = {}]
    /\ EndCalls({t})

(* The file becomes f, which every contains() under way may observe.        *)
FileBecomes(f) ==
    /\ file' = f
    /\ window' = [t \in Thread |-> IF op[t] \in Asking
                                   THEN window[t] \cup RightAnswers(t, f)
                                   ELSE window[t]]

-----------------------------------------------------------------------------
(* Calls.                                                                   *)

Begin(t, m, S, label) ==
    /\ pc[t] = "idle"
    /\ m \in MethodsOf[t]
    /\ op' = [op EXCEPT ![t] = m]
    /\ arg' = [arg EXCEPT ![t] = S]
    /\ Goto(t, label)
    /\ UNCHANGED <<shared, object, locks, draft, misled, acked>>

Ask(t, m, d, label) ==
    /\ Begin(t, m, {d}, label)
    /\ window' = [window EXCEPT ![t] =
                    IF file.data.ok
                    THEN {IF d \in file.data.set THEN "yes" ELSE "no"}
                    ELSE {"yes", "no"}]
    /\ UNCHANGED expect

(* contains(): the generation is read before any lock is taken.             *)
CallContains(t, d) ==
    /\ Ask(t, "contains", d, "compare")
    /\ stat' = [stat EXCEPT ![t] = file.gen]

(* active_domains(), by a caller that wants to know about d.                *)
CallDomains(t, d) == Ask(t, "domains", d, "mutex") /\ UNCHANGED stat

CallSnapshot(t, m) ==
    /\ m \in {"load", "generation"}
    /\ Begin(t, m, {}, "mutex")
    /\ UNCHANGED <<expect, stat, window>>

CallAdd(t, S) ==
    /\ GenLeft
    /\ Begin(t, "add", S, "mutex")
    /\ UNCHANGED <<expect, stat, window>>

(* The expected generation, if any, is one the file has had.                *)
CallReplace(t, S, e) ==
    /\ GenLeft
    /\ Begin(t, "replace", S, "mutex")
    /\ expect' = [expect EXCEPT ![t] = e]
    /\ UNCHANGED <<stat, window>>

(* The memory copy is the one of the generation contains() has seen.        *)
FreshOnceLoaded(t) == generation[ProcessOf[t]] # NoGen      \* mutant: load once
Fresh(t) == stat[t] = generation[ProcessOf[t]]

(* contains(): the comparison, one critical section of the mutex.           *)
Compare(t) ==
    /\ pc[t] = "compare"
    /\ Owner(t) = NoThread
    /\ IF Fresh(t)
       THEN Answer(t)
       ELSE /\ Goto(t, "mutex")
            /\ stat' = [stat EXCEPT ![t] = NoGen]
            /\ UNCHANGED <<request, draft, window, misled>>
    /\ UNCHANGED <<shared, object, locks, acked>>

(* contains(): the membership test after load(), a critical section of its own. *)
Lookup(t) ==
    /\ pc[t] = "lookup"
    /\ Owner(t) = NoThread
    /\ Answer(t)
    /\ UNCHANGED <<shared, object, locks, acked>>

-----------------------------------------------------------------------------
(* The locks.                                                               *)

TakeMutex(t) ==
    /\ pc[t] = "mutex"
    /\ Owner(t) = NoThread
    /\ mutex' = [mutex EXCEPT ![ProcessOf[t]] = t]
    /\ Goto(t, "flock")
    /\ UNCHANGED <<shared, object, fileLock, request, local, window, misled, acked>>

TakeFile(t) ==
    /\ pc[t] = "flock"
    /\ FileFree
    /\ fileLock' = t
    /\ Goto(t, "read")
    /\ UNCHANGED <<shared, object, mutex, request, local, window, misled, acked>>

(* An OSError before anything is published: opening or locking the side     *)
(* file, reading the cache file, or writing the temporary file.  load()     *)
(* swallows it, so contains() and active_domains() answer from the memory   *)
(* copy as it is; the others raise it.  Both locks are released.            *)
Error(t) ==
    /\ pc[t] \in {"flock", "read", "readback", "publish"}
    /\ ReleaseMutex(t)
    /\ ReleaseFile(t)
    /\ IF op[t] \in Asking
       THEN /\ Goto(t, "lookup")
            /\ window' = [window EXCEPT ![t] = {"yes", "no"}]
            /\ UNCHANGED <<request, local>>
       ELSE /\ EndCalls({t})
            /\ UNCHANGED window
    /\ UNCHANGED <<shared, object, misled, acked>>

-----------------------------------------------------------------------------
(* load() and generation().  load() lets go of the file before it installs  *)
(* what it read; generation() installs it with both locks held.             *)

ReadSnapshot(t) ==
    /\ pc[t] = "read"
    /\ op[t] \in Snapshot
    /\ draft' = [draft EXCEPT ![t] = file.data]
    /\ stat' = [stat EXCEPT ![t] = file.gen]
    /\ fileLock' = IF op[t] = "generation" THEN fileLock ELSE NoThread
    /\ Goto(t, "install")
    /\ UNCHANGED <<shared, object, mutex, request, window, misled, acked>>

(* Contents that are None leave the memory copy alone, not the generation.  *)
DomainsOr(t, c) == IF c.ok THEN c.set ELSE memory[ProcessOf[t]]

GenerationAtInstall(t) == file.gen              \* mutant: stat after LOCK_UN
GenerationRead(t) == stat[t]

Adopt(t, c, g) ==
    /\ memory' = [memory EXCEPT ![ProcessOf[t]] = DomainsOr(t, c)]
    /\ generation' = [generation EXCEPT ![ProcessOf[t]] = g]

Install(t) ==
    /\ pc[t] = "install"
    /\ Adopt(t, draft[t], GenerationRead(t))
    /\ ReleaseMutex(t)
    /\ ReleaseFile(t)
    /\ IF op[t] \in Asking
       THEN /\ Goto(t, "lookup")
            /\ draft' = [draft EXCEPT ![t] = Unreadable]
            /\ stat' = [stat EXCEPT ![t] = NoGen]
            /\ UNCHANGED request
       ELSE EndCalls({t})
    /\ UNCHANGED <<shared, window, misled, acked>>

-----------------------------------------------------------------------------
(* add_many() and replace().                                                *)

(* The file's contents win over the memory copy, which only stands in for   *)
(* a file that cannot be read.                                              *)
MergedInMemory(t) == memory[ProcessOf[t]] \cup arg[t]   \* mutant: stale merge
Merged(t) ==
    arg[t] \cup IF file.data.ok THEN file.data.set ELSE memory[ProcessOf[t]]

ReadForAdd(t) ==
    /\ pc[t] = "read"
    /\ op[t] = "add"
    /\ draft' = [draft EXCEPT ![t] = Holding(Merged(t))]
    /\ Goto(t, "publish")
    /\ UNCHANGED <<shared, object, locks, request, stat, window, misled, acked>>

ExpectedAny(t) == TRUE                          \* mutant: no comparison
Expected(t) == expect[t] \in {NoGen, file.gen}

CheckForReplace(t) ==
    /\ pc[t] = "read"
    /\ op[t] = "replace"
    /\ IF Expected(t)
       THEN /\ draft' = [draft EXCEPT ![t] = Holding(arg[t])]
            /\ Goto(t, "publish")
            /\ UNCHANGED stat
       ELSE /\ stat' = [stat EXCEPT ![t] = file.gen]
            /\ Goto(t, "readback")
            /\ UNCHANGED draft
    /\ UNCHANGED <<shared, object, locks, request, window, misled, acked>>

(* A refused replace() brings the memory copy up to date: it returns False. *)
ReadBack(t) ==
    /\ pc[t] = "readback"
    /\ Adopt(t, file.data, stat[t])
    /\ ReleaseMutex(t)
    /\ ReleaseFile(t)
    /\ EndCalls({t})
    /\ UNCHANGED <<shared, window, misled, acked>>

(* os.replace(): the new file is visible, and may or may not outlive a      *)
(* power loss until the directory is synced.                                *)
Publish(t) ==
    /\ pc[t] = "publish"
    /\ lastGen < MaxGen
    /\ lastGen' = lastGen + 1
    /\ FileBecomes([gen |-> lastGen + 1, data |-> draft[t]])
    /\ survivors' = survivors \cup {[gen |-> lastGen + 1, data |-> draft[t]]}
    /\ acked' = IF op[t] = "replace" THEN acked \cap arg[t] ELSE acked
    /\ Goto(t, "sync")
    /\ UNCHANGED <<object, locks, request, local, misled>>

DurableUnsynced == survivors                    \* mutant: no fsync
Durable == {file}

(* The directory is synced and the object takes over what it has written.   *)
SyncDirectory(t) ==
    /\ pc[t] = "sync"
    /\ survivors' = Durable
    /\ Adopt(t, draft[t], file.gen)
    /\ acked' = IF op[t] = "add" THEN acked \cup arg[t] ELSE acked
    /\ ReleaseMutex(t)
    /\ ReleaseFile(t)
    /\ EndCalls({t})
    /\ UNCHANGED <<file, lastGen, window, misled>>

(* The sync fails after the file was published: the error is raised and     *)
(* the object keeps its old memory and generation.                          *)
SyncError(t) ==
    /\ pc[t] = "sync"
    /\ ReleaseMutex(t)
    /\ ReleaseFile(t)
    /\ EndCalls({t})
    /\ UNCHANGED <<shared, object, window, misled, acked>>

-----------------------------------------------------------------------------
(* The environment.                                                         *)

(* An operator removes or garbles the file while no one is writing it.      *)
Damage ==
    /\ fileLock = NoThread
    /\ \/ FileBecomes([gen |-> Missing, data |-> Unreadable]) /\ UNCHANGED lastGen
       \/ /\ GenLeft /\ lastGen < MaxGen
          /\ lastGen' = lastGen + 1
          /\ FileBecomes([gen |-> lastGen + 1, data |-> Unreadable])
    /\ survivors' = {file'}
    /\ acked' = {}
    /\ UNCHANGED <<object, locks, pc, request, local, misled>>

(* The processes in P die and restart with new objects; the kernel drops    *)
(* their file lock.                                                         *)
Restart(P) ==
    LET dead == {t \in Thread : ProcessOf[t] \in P} IN
    /\ memory' = [p \in Process |-> IF p \in P THEN {} ELSE memory[p]]
    /\ generation' = [p \in Process |-> IF p \in P THEN NoGen ELSE generation[p]]
    /\ mutex' = [p \in Process |-> IF p \in P THEN NoThread ELSE mutex[p]]
    /\ fileLock' = IF fileLock \in dead THEN NoThread ELSE fileLock
    /\ EndCalls(dead)
    /\ UNCHANGED misled

Crash(p) ==
    /\ Restart({p})
    /\ window' = [t \in Thread |-> IF ProcessOf[t] = p THEN {} ELSE window[t]]
    /\ UNCHANGED <<shared, acked>>

PowerLoss ==
    /\ Restart(Process)
    /\ \E f \in survivors : file' = f /\ survivors' = {f}
    /\ window' = [t \in Thread |-> {}]
    /\ UNCHANGED <<lastGen, acked>>

-----------------------------------------------------------------------------
Call(t) ==
    \/ \E d \in Domain : CallContains(t, d)
    \/ \E d \in Domain : CallDomains(t, d)
    \/ \E m \in {"load", "generation"} : CallSnapshot(t, m)
    \/ \E S \in SUBSET Domain : CallAdd(t, S)
    \/ \E S \in SUBSET Domain, e \in {NoGen} \cup Missing .. lastGen :
          CallReplace(t, S, e)

(* What a thread does of its own once it holds the locks it needs.          *)
Step(t) ==
    \/ Compare(t) \/ Lookup(t) \/ TakeMutex(t) \/ TakeFile(t)
    \/ ReadSnapshot(t) \/ Install(t) \/ ReadForAdd(t) \/ CheckForReplace(t)
    \/ ReadBack(t) \/ Publish(t) \/ SyncDirectory(t)

Environment == Damage \/ (\E p \in Process : Crash(p)) \/ PowerLoss

Next ==
    \/ \E t \in Thread : Call(t) \/ Step(t) \/ Error(t) \/ SyncError(t)
    \/ Environment

Spec == Init /\ [][Next]_vars

(* The interpreter schedules a thread that can run, the system calls it     *)
(* makes return, and the kernel serves the waiters of a flock in turn.  No  *)
(* error ever has to happen.                                                *)
FairSpec == Spec /\ \A t \in Thread : WF_vars(Step(t)) /\ SF_vars(TakeFile(t))

-----------------------------------------------------------------------------
(* A thread that may touch the file or the memory copy holds the locks      *)
(* that guard them.                                                         *)
HoldsMutex(t) == pc[t] \in {"flock", "read", "install", "readback", "publish", "sync"}
HoldsFile(t)  == \/ pc[t] \in {"read", "readback", "publish", "sync"}
                 \/ pc[t] = "install" /\ op[t] = "generation"

LockDiscipline ==
    \A t \in Thread : /\ HoldsMutex(t) => mutex[ProcessOf[t]] = t
                      /\ HoldsFile(t) => fileLock = t

(* When an object's generation is the file's, its memory copy is what the   *)
(* file holds: this is what lets contains() and the API answer without      *)
(* reading the file, whatever errors, crashes and other processes did.      *)
SnapshotAgrees ==
    \A p \in Process :
        generation[p] = file.gen /\ file.data.ok => memory[p] = file.data.set

(* A domain whose add() has returned is in every version of the file that   *)
(* can be there after a crash or a power loss, until a replace() leaves it  *)
(* out: the policy daemon answers OK to Postfix on the strength of this.    *)
AcknowledgedSurvive == \A f \in survivors \cup {file} : acked \subseteq f.data.set

(* contains() answers for a file the path named at some moment of the call, *)
(* in spite of the stat outside the lock and of the gap between load() and  *)
(* the lookup; unless its load() failed or met an unreadable file.          *)
ContainsIsCurrent == misled = {}

(* A replace() given a generation publishes only over the very file its     *)
(* caller had seen: no domain added since then is lost.                     *)
ReplaceSawTheFile ==
    [][\A t \in Thread :
         op[t] = "replace" /\ expect[t] # NoGen /\ pc[t] = "publish" /\ pc'[t] = "sync"
            => file.gen = expect[t]]_vars

(* A domain enters the file only through the call that names it, or from    *)
(* the memory copy that stands in for an unreadable file: a stale copy      *)
(* never brings back a domain that a replace() removed.                     *)
NoResurrection ==
    [][\A d \in Domain :
         /\ file.data.ok
         /\ d \notin file.data.set
         /\ d \in file'.data.set
         => \/ \E t \in Thread : pc[t] = "publish" /\ d \in arg[t]
            \/ file' \in survivors]_vars

(* Every call lets go of the locks: no call, error or crash can leave the   *)
(* other threads and the other process waiting for ever.                    *)
LocksAreReleased ==
    \A t \in Thread : mutex[ProcessOf[t]] = t \/ fileLock = t
                     ~> mutex[ProcessOf[t]] # t /\ fileLock # t
=============================================================================
