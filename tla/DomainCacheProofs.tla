------------------------- MODULE DomainCacheProofs -------------------------
(* Proofs about DomainCache, for every set of threads, processes and        *)
(* domains, every placement of threads and every bound on generations.      *)
EXTENDS DomainCacheRefinement, TLAPS

USE DEF Asking, Snapshot, Writing, Method, Label,
        shared, object, locks, request, local

-----------------------------------------------------------------------------
(* The inductive strengthenings of the invariants, for the proofs.          *)

MethodFits ==
    \A t \in Thread :
        /\ pc[t] \in {"publish", "sync"} => op[t] \in Writing
        /\ pc[t] = "readback" => op[t] = "replace"
        /\ pc[t] = "install" => op[t] \in Snapshot

LockInv == LockDiscipline /\ MethodFits

GenerationsPast ==
    /\ \A f \in survivors \cup {file} : f.gen <= lastGen
    /\ \A p \in Process : generation[p] <= lastGen
    /\ \A t \in Thread : stat[t] <= lastGen

(* What a thread is about to install goes with the generation it goes with. *)
DraftsAgree ==
    \A t \in Thread :
        /\ pc[t] = "install" /\ stat[t] = file.gen /\ file.data.ok => draft[t] = file.data
        /\ pc[t] = "sync" => draft[t] = file.data

SnapshotInv == GenerationsPast /\ SnapshotAgrees /\ DraftsAgree

(* What a thread is about to publish leaves out no acknowledged domain.     *)
DraftsKeep ==
    \A t \in Thread :
        /\ pc[t] \in {"publish", "sync"} =>
              /\ draft[t].ok
              /\ arg[t] \subseteq draft[t].set
              /\ op[t] = "replace" => draft[t].set = arg[t]
        /\ pc[t] = "publish" /\ op[t] = "add" => acked \subseteq draft[t].set

DurableInv ==
    /\ file \in survivors
    /\ \A f \in survivors : ~f.data.ok => f.data.set = {}
    /\ AcknowledgedSurvive
    /\ DraftsKeep

(* What replace() compared is still so when it publishes.                   *)
ExpectationHolds ==
    \A t \in Thread :
        op[t] = "replace" /\ expect[t] # NoGen /\ pc[t] = "publish" => file.gen = expect[t]

(* The fields of a call that its method does not use are empty, and what    *)
(* replace() has seen of a file it refuses to overwrite is still so.        *)
CallsFit ==
    \A t \in Thread :
        /\ pc[t] = "idle" <=> op[t] = "none"
        /\ pc[t] \in {"compare", "lookup"} => op[t] \in Asking
        /\ op[t] \notin Writing => expect[t] = NoGen
        /\ pc[t] = "readback" => stat[t] = file.gen

(* A reader of contents c would give t a right answer; of contents it       *)
(* cannot read, any answer.                                                 *)
Grants(t, c) ==
    IF c.ok THEN Reply(t, c.set) \in window[t] ELSE {"yes", "no"} \subseteq window[t]

Mates(t) == {u \in Thread : ProcessOf[u] = ProcessOf[t]}

(* Whatever t can find in the memory copy when it comes to its answer is    *)
(* right: what is there, and what a thread of its process is about to       *)
(* install there, of the generation t compares with or of a later one.      *)
AnswerInv ==
    /\ misled = {}
    /\ \A t \in Thread : op[t] \in Asking =>
          /\ Grants(t, file.data)
          /\ pc[t] = "install" => Grants(t, draft[t])
          /\ pc[t] = "lookup" =>
                /\ Reply(t, memory[ProcessOf[t]]) \in window[t]
                /\ \A u \in Mates(t) : pc[u] = "install" => Grants(t, draft[u])
          /\ pc[t] = "compare" =>
                /\ generation[ProcessOf[t]] = stat[t] =>
                      Reply(t, memory[ProcessOf[t]]) \in window[t]
                /\ \A u \in Mates(t) :
                      pc[u] = "install" /\ stat[u] = stat[t] => Grants(t, draft[u])

(* What add() is about to publish is the file of this moment and its        *)
(* argument, or while the file is unreadable anything and its argument.     *)
Merges(c, S, f) ==
    \E old \in SUBSET Domain : /\ f.ok => old = f.set
                               /\ c = Holding(old \cup S)

DraftsMerge ==
    \A t \in Thread :
        pc[t] = "publish" /\ op[t] = "add" => Merges(draft[t], arg[t], file.data)

-----------------------------------------------------------------------------
(* The values the actions build are of the types TypeOK names.              *)
LEMMA Values ==
    /\ NoGen = -1 /\ Missing = 0 /\ Missing \in Gen
    /\ Unreadable \in Contents /\ ~Unreadable.ok /\ Unreadable.set = {}
    /\ \A S \in SUBSET Domain :
          Holding(S) \in Contents /\ Holding(S).ok /\ Holding(S).set = S
    /\ \A c \in Contents : c.ok \in BOOLEAN /\ c.set \in SUBSET Domain
    /\ \A g \in Gen, c \in Contents :
          /\ [gen |-> g, data |-> c] \in File
          /\ [gen |-> g, data |-> c].gen = g
          /\ [gen |-> g, data |-> c].data = c
    /\ \A f \in File : f.gen \in Gen /\ f.data \in Contents
    /\ \A g \in Gen : g \in Int /\ 0 <= g /\ g <= MaxGen
    /\ \A g \in Int : 0 <= g /\ g <= MaxGen => g \in Gen
BY MaxGenAssumption
   DEF NoGen, Missing, Gen, Unreadable, Contents, Holding, File

-----------------------------------------------------------------------------
(* Type correctness.                                                        *)

LEMMA TypeInit == Init => TypeOK
<1> SUFFICES ASSUME Init PROVE TypeOK
  OBVIOUS
<1>1. file \in File
  <2>1. CASE file = [gen |-> Missing, data |-> Unreadable]
    BY <2>1, Values
  <2>2. CASE \E S \in SUBSET Domain : file = [gen |-> 1, data |-> Holding(S)]
    <3>1. 1 \in Gen
      BY <2>2, Values, MaxGenAssumption DEF Init
    <3>2. QED
      BY <2>2, <3>1, Values
  <2>3. QED
    BY <2>1, <2>2 DEF Init
<1>2. lastGen \in Gen /\ survivors \in SUBSET File
  BY <1>1, Values DEF Init
<1>3. QED
  BY <1>1, <1>2, Values DEF Init, TypeOK

LEMMA EndCallsType ==
    ASSUME TypeOK, NEW T \in SUBSET Thread, EndCalls(T)
    PROVE  /\ pc' \in [Thread -> Label]
           /\ op' \in [Thread -> Method \cup {"none"}]
           /\ arg' \in [Thread -> SUBSET Domain]
           /\ expect' \in [Thread -> Gen \cup {NoGen}]
           /\ draft' \in [Thread -> Contents]
           /\ stat' \in [Thread -> Gen \cup {NoGen}]
BY Values DEF TypeOK, EndCalls

LEMMA ReleaseType ==
    ASSUME TypeOK, NEW t \in Thread
    PROVE  /\ ReleaseMutex(t) => mutex' \in [Process -> Thread \cup {NoThread}]
           /\ ReleaseFile(t) => fileLock' \in Thread \cup {NoThread}
BY ProcessOfAssumption DEF TypeOK, ReleaseMutex, ReleaseFile

LEMMA FileBecomesType ==
    ASSUME TypeOK, NEW f \in File, FileBecomes(f)
    PROVE  file' \in File /\ window' \in [Thread -> SUBSET {"yes", "no"}]
<1>1. \A t \in Thread : RightAnswers(t, f) \subseteq {"yes", "no"}
  BY DEF RightAnswers, Reply
<1>2. QED
  BY <1>1 DEF TypeOK, FileBecomes

LEMMA TypeNext == TypeOK /\ [Next]_vars => TypeOK'
<1> SUFFICES ASSUME TypeOK, [Next]_vars PROVE TypeOK'
  OBVIOUS
<1> USE ProcessOfAssumption, MethodsOfAssumption, MaxGenAssumption, Values
<1>1. ASSUME NEW t \in Thread, Call(t) PROVE TypeOK'
  <2>1. ASSUME NEW d \in Domain, CallContains(t, d) PROVE TypeOK'
    BY <2>1 DEF CallContains, Ask, Begin, Goto, TypeOK
  <2>2. ASSUME NEW d \in Domain, CallDomains(t, d) PROVE TypeOK'
    BY <2>2 DEF CallDomains, Ask, Begin, Goto, TypeOK
  <2>3. ASSUME NEW m \in {"load", "generation"}, CallSnapshot(t, m) PROVE TypeOK'
    BY <2>3 DEF CallSnapshot, Begin, Goto, TypeOK
  <2>4. ASSUME NEW S \in SUBSET Domain, CallAdd(t, S) PROVE TypeOK'
    BY <2>4 DEF CallAdd, Begin, Goto, TypeOK
  <2>5. ASSUME NEW S \in SUBSET Domain, NEW e \in {NoGen} \cup Missing .. lastGen,
               CallReplace(t, S, e)
        PROVE TypeOK'
    <3>1. e \in Gen \cup {NoGen}
      BY DEF TypeOK
    <3>2. QED
      BY <2>5, <3>1 DEF CallReplace, Begin, Goto, TypeOK
  <2>6. QED
    BY <1>1, <2>1, <2>2, <2>3, <2>4, <2>5 DEF Call
<1>2. ASSUME NEW t \in Thread, Compare(t) PROVE TypeOK'
  <2>1. CASE Answer(t)
    BY <1>2, <2>1, EndCallsType DEF Compare, Answer, TypeOK
  <2>2. CASE /\ Goto(t, "mutex")
             /\ stat' = [stat EXCEPT ![t] = NoGen]
             /\ UNCHANGED <<request, draft, window, misled>>
    BY <1>2, <2>2 DEF Compare, Goto, TypeOK
  <2>3. QED
    BY <1>2, <2>1, <2>2 DEF Compare
<1>3. ASSUME NEW t \in Thread, Lookup(t) PROVE TypeOK'
  BY <1>3, EndCallsType DEF Lookup, Answer, TypeOK
<1>4. ASSUME NEW t \in Thread, TakeMutex(t) PROVE TypeOK'
  BY <1>4 DEF TakeMutex, Goto, TypeOK
<1>5. ASSUME NEW t \in Thread, TakeFile(t) PROVE TypeOK'
  BY <1>5 DEF TakeFile, FileFree, Goto, TypeOK
<1>6. ASSUME NEW t \in Thread, Error(t) PROVE TypeOK'
  <2>1. CASE op[t] \in Asking
    <3>1. window' \in [Thread -> SUBSET {"yes", "no"}]
      BY <1>6, <2>1 DEF Error, TypeOK
    <3>2. QED
      BY <1>6, <2>1, <3>1, ReleaseType DEF Error, Goto, TypeOK
  <2>2. CASE op[t] \notin Asking
    BY <1>6, <2>2, ReleaseType, EndCallsType DEF Error, TypeOK
  <2>3. QED
    BY <2>1, <2>2
<1>7. ASSUME NEW t \in Thread, ReadSnapshot(t) PROVE TypeOK'
  BY <1>7 DEF ReadSnapshot, Goto, TypeOK
<1>8. ASSUME NEW t \in Thread, Install(t) PROVE TypeOK'
  <2>1. /\ memory' \in [Process -> SUBSET Domain]
        /\ generation' \in [Process -> Gen \cup {NoGen}]
    BY <1>8 DEF Install, GenerationRead, Adopt, DomainsOr, TypeOK
  <2>2. CASE op[t] \in Asking
    <3>1. /\ draft' = [draft EXCEPT ![t] = Unreadable]
          /\ stat' = [stat EXCEPT ![t] = NoGen]
          /\ pc' = [pc EXCEPT ![t] = "lookup"]
          /\ UNCHANGED request
      BY <1>8, <2>2 DEF Install, Goto
    <3>2. draft' \in [Thread -> Contents] /\ stat' \in [Thread -> Gen \cup {NoGen}]
      BY <3>1 DEF TypeOK
    <3>3. QED
      BY <1>8, <2>1, <3>1, <3>2, ReleaseType DEF Install, TypeOK
  <2>3. CASE op[t] \notin Asking
    BY <1>8, <2>1, <2>3, ReleaseType, EndCallsType DEF Install, TypeOK
  <2>4. QED
    BY <2>2, <2>3
<1>9. ASSUME NEW t \in Thread, ReadForAdd(t) PROVE TypeOK'
  BY <1>9 DEF ReadForAdd, Merged, Goto, TypeOK
<1>10. ASSUME NEW t \in Thread, CheckForReplace(t) PROVE TypeOK'
  <2>1. file.gen \in Gen
    BY DEF TypeOK
  <2>2. CASE expect[t] \in {NoGen, file.gen}
    <3>1. draft' \in [Thread -> Contents]
      BY <1>10, <2>2 DEF CheckForReplace, Expected, TypeOK
    <3>2. QED
      BY <1>10, <2>2, <3>1 DEF CheckForReplace, Expected, Goto, TypeOK
  <2>3. CASE expect[t] \notin {NoGen, file.gen}
    <3>1. stat' \in [Thread -> Gen \cup {NoGen}]
      BY <1>10, <2>1, <2>3 DEF CheckForReplace, Expected, TypeOK
    <3>2. QED
      BY <1>10, <2>3, <3>1 DEF CheckForReplace, Expected, Goto, TypeOK
  <2>4. QED
    BY <2>2, <2>3
<1>11. ASSUME NEW t \in Thread, ReadBack(t) PROVE TypeOK'
  BY <1>11, ReleaseType, EndCallsType DEF ReadBack, Adopt, DomainsOr, TypeOK
<1>12. ASSUME NEW t \in Thread, Publish(t) PROVE TypeOK'
  <2>1. lastGen' \in Gen /\ [gen |-> lastGen + 1, data |-> draft[t]] \in File
    BY <1>12 DEF Publish, TypeOK
  <2>2. QED
    BY <1>12, <2>1, FileBecomesType DEF Publish, Goto, TypeOK
<1>13. ASSUME NEW t \in Thread, SyncDirectory(t) PROVE TypeOK'
  BY <1>13, ReleaseType, EndCallsType DEF SyncDirectory, Durable, Adopt, DomainsOr, TypeOK
<1>14. ASSUME NEW t \in Thread, SyncError(t) PROVE TypeOK'
  BY <1>14, ReleaseType, EndCallsType DEF SyncError, TypeOK
<1>15. CASE Damage
  <2>1. lastGen' \in Gen /\ \E f \in File : FileBecomes(f)
    <3>1. CASE FileBecomes([gen |-> Missing, data |-> Unreadable]) /\ UNCHANGED lastGen
      BY <3>1 DEF TypeOK
    <3>2. CASE /\ lastGen' = lastGen + 1
               /\ lastGen < MaxGen
               /\ FileBecomes([gen |-> lastGen + 1, data |-> Unreadable])
      <4>1. lastGen + 1 \in Gen
        BY <3>2 DEF TypeOK
      <4>2. QED
        BY <3>2, <4>1
    <3>3. QED
      BY <1>15, <3>1, <3>2 DEF Damage
  <2>2. QED
    BY <1>15, <2>1, FileBecomesType DEF Damage, TypeOK
<1>16. ASSUME NEW P \in SUBSET Process, Restart(P)
       PROVE  /\ memory' \in [Process -> SUBSET Domain]
              /\ generation' \in [Process -> Gen \cup {NoGen}]
              /\ mutex' \in [Process -> Thread \cup {NoThread}]
              /\ fileLock' \in Thread \cup {NoThread}
              /\ misled' \in SUBSET Thread
  BY <1>16 DEF Restart, TypeOK
<1>17. ASSUME NEW P \in SUBSET Process, Restart(P)
       PROVE  EndCalls({t \in Thread : ProcessOf[t] \in P})
  BY <1>17 DEF Restart
<1>18. ASSUME NEW p \in Process, Crash(p) PROVE TypeOK'
  BY <1>16, <1>17, <1>18, EndCallsType DEF Crash, TypeOK
<1>19. CASE PowerLoss
  BY <1>16, <1>17, <1>19, EndCallsType DEF PowerLoss, TypeOK
<1>20. CASE UNCHANGED vars
  BY <1>20 DEF vars, TypeOK
<1>21. QED
  BY <1>1, <1>2, <1>3, <1>4, <1>5, <1>6, <1>7, <1>8, <1>9, <1>10, <1>11, <1>12,
     <1>13, <1>14, <1>15, <1>18, <1>19, <1>20 DEF Next, Step, Environment

(* Every variable stays in its type: the generations within their bound,    *)
(* the locks owned by threads, a draft always a file's contents.            *)
THEOREM TypeCorrect == Spec => []TypeOK
BY TypeInit, TypeNext, PTL DEF Spec
-----------------------------------------------------------------------------
(* The locks.                                                               *)

LEMMA LockInit == Init => LockInv
BY DEF Init, LockInv, LockDiscipline, MethodFits, HoldsMutex, HoldsFile

LEMMA LockNext == TypeOK /\ LockInv /\ [Next]_vars => LockInv'
<1> SUFFICES ASSUME TypeOK, LockInv, [Next]_vars PROVE LockInv'
  OBVIOUS
<1> USE ProcessOfAssumption, NoThreadAssumption
    DEF TypeOK, LockInv, LockDiscipline, MethodFits, HoldsMutex, HoldsFile
<1>1. ASSUME NEW t \in Thread, Call(t) PROVE LockInv'
  BY <1>1 DEF Call, CallContains, CallDomains, CallSnapshot, CallAdd, CallReplace, Ask, Begin, Goto
<1>2. ASSUME NEW t \in Thread, Compare(t) PROVE LockInv'
  BY <1>2 DEF Compare, Fresh, Answer, EndCalls, Goto
<1>3. ASSUME NEW t \in Thread, Lookup(t) PROVE LockInv'
  BY <1>3 DEF Lookup, Answer, EndCalls
<1>4. ASSUME NEW t \in Thread, TakeMutex(t) PROVE LockInv'
  BY <1>4 DEF TakeMutex, Owner, Goto
<1>5. ASSUME NEW t \in Thread, TakeFile(t) PROVE LockInv'
  BY <1>5 DEF TakeFile, FileFree, Goto
<1>6. ASSUME NEW t \in Thread, Error(t) PROVE LockInv'
  BY <1>6 DEF Error, ReleaseMutex, ReleaseFile, EndCalls, Goto
<1>7. ASSUME NEW t \in Thread, SyncError(t) PROVE LockInv'
  BY <1>7 DEF SyncError, ReleaseMutex, ReleaseFile, EndCalls
<1>8. ASSUME NEW t \in Thread, ReadSnapshot(t) PROVE LockInv'
  BY <1>8 DEF ReadSnapshot, Goto
<1>9. ASSUME NEW t \in Thread, Install(t) PROVE LockInv'
  BY <1>9 DEF Install, GenerationRead, Adopt, DomainsOr, ReleaseMutex, ReleaseFile, EndCalls, Goto
<1>10. ASSUME NEW t \in Thread, ReadForAdd(t) PROVE LockInv'
  BY <1>10 DEF ReadForAdd, Merged, Goto
<1>11. ASSUME NEW t \in Thread, CheckForReplace(t) PROVE LockInv'
  BY <1>11 DEF CheckForReplace, Expected, Goto
<1>12. ASSUME NEW t \in Thread, ReadBack(t) PROVE LockInv'
  BY <1>12 DEF ReadBack, Adopt, DomainsOr, ReleaseMutex, ReleaseFile, EndCalls
<1>13. ASSUME NEW t \in Thread, Publish(t) PROVE LockInv'
  BY <1>13 DEF Publish, FileBecomes, Goto
<1>14. ASSUME NEW t \in Thread, SyncDirectory(t) PROVE LockInv'
  BY <1>14 DEF SyncDirectory, Durable, Adopt, DomainsOr, ReleaseMutex, ReleaseFile, EndCalls
<1>15. CASE Damage
  BY <1>15 DEF Damage, FileBecomes
<1>16. ASSUME NEW p \in Process, Crash(p) PROVE LockInv'
  BY <1>16 DEF Crash, Restart, EndCalls
<1>17. CASE PowerLoss
  BY <1>17 DEF PowerLoss, Restart, EndCalls
<1>18. CASE UNCHANGED vars
  BY <1>18 DEF vars
<1>19. QED
  BY <1>1, <1>2, <1>3, <1>4, <1>5, <1>6, <1>7, <1>8, <1>9, <1>10,
     <1>11, <1>12, <1>13, <1>14, <1>15, <1>16, <1>17, <1>18
     DEF Next, Step, Environment

-----------------------------------------------------------------------------
(* The memory copies.                                                       *)

LEMMA Integral ==
    TypeOK => /\ lastGen \in Int /\ NoGen <= lastGen
              /\ \A p \in Process : generation[p] \in Int
              /\ \A t \in Thread : stat[t] \in Int
              /\ lastGen < MaxGen => lastGen + 1 \in Gen
BY MaxGenAssumption DEF TypeOK, Gen, NoGen, Missing

(* What the beginning of a call leaves alone.                               *)
LEMMA CallFrame ==
    ASSUME NEW t \in Thread, TypeOK, Call(t)
    PROVE  /\ UNCHANGED <<shared, object, draft>>
           /\ stat' \in {stat, [stat EXCEPT ![t] = file.gen]}
           /\ \A u \in Thread :
                 pc'[u] \in {"install", "sync"} => u # t /\ pc'[u] = pc[u]
<1>1. \E label \in {"compare", "mutex"} : pc' = [pc EXCEPT ![t] = label]
  BY DEF Call, CallContains, CallDomains, CallSnapshot, CallAdd, CallReplace, Ask, Begin, Goto
<1>2. UNCHANGED <<shared, object, draft>>
  BY DEF Call, CallContains, CallDomains, CallSnapshot, CallAdd, CallReplace, Ask, Begin
<1>3. stat' \in {stat, [stat EXCEPT ![t] = file.gen]}
  BY DEF Call, CallContains, CallDomains, CallSnapshot, CallAdd, CallReplace, Ask
<1>4. QED
  BY <1>1, <1>2, <1>3 DEF TypeOK

LEMMA SnapshotInit == Init => SnapshotInv
BY Values, MaxGenAssumption
   DEF Init, SnapshotInv, GenerationsPast, SnapshotAgrees, DraftsAgree

LEMMA SnapshotNext == TypeOK /\ LockInv /\ SnapshotInv /\ [Next]_vars => SnapshotInv'
<1> SUFFICES ASSUME TypeOK, LockInv, SnapshotInv, [Next]_vars PROVE SnapshotInv'
  OBVIOUS
<1> USE ProcessOfAssumption, NoThreadAssumption, Values
    DEF TypeOK, LockInv, LockDiscipline, MethodFits, SnapshotInv, GenerationsPast,
        SnapshotAgrees, DraftsAgree, HoldsMutex, HoldsFile
<1> USE Integral
<1>1. ASSUME NEW t \in Thread, Call(t) PROVE SnapshotInv'
  <2>1. /\ UNCHANGED <<shared, object, draft>>
        /\ stat' \in {stat, [stat EXCEPT ![t] = file.gen]}
        /\ \A u \in Thread : pc'[u] \in {"install", "sync"} => u # t /\ pc'[u] = pc[u]
    BY <1>1, CallFrame
  <2>2. GenerationsPast'
    <3>1. \A u \in Thread : stat'[u] <= lastGen'
      BY <2>1 DEF shared
    <3>2. QED
      BY <2>1, <3>1 DEF shared, object
  <2>3. SnapshotAgrees'
    BY <2>1 DEF shared, object
  <2>4. DraftsAgree'
    <3>1. ASSUME NEW u \in Thread, pc'[u] \in {"install", "sync"}
          PROVE  pc'[u] = pc[u] /\ stat'[u] = stat[u] /\ draft'[u] = draft[u]
      BY <2>1, <3>1
    <3>2. QED
      BY <2>1, <3>1 DEF shared
  <2>5. QED
    BY <2>2, <2>3, <2>4
<1>2. ASSUME NEW t \in Thread, Compare(t) PROVE SnapshotInv'
  <2>1. GenerationsPast'
    BY <1>2 DEF Compare, Fresh, Answer, EndCalls, Goto
  <2>2. SnapshotAgrees'
    BY <1>2 DEF Compare, Fresh, Answer, EndCalls, Goto
  <2>3. DraftsAgree'
    BY <1>2 DEF Compare, Fresh, Answer, EndCalls, Goto
  <2>4. QED
    BY <2>1, <2>2, <2>3
<1>3. ASSUME NEW t \in Thread, Lookup(t) PROVE SnapshotInv'
  <2>1. /\ stat' = [u \in Thread |-> IF u \in {t} THEN NoGen ELSE stat[u]]
        /\ UNCHANGED <<shared, object>>
    BY <1>3 DEF Lookup, Answer, EndCalls
  <2>2. GenerationsPast'
    <3>1. \A u \in Thread : stat'[u] <= lastGen'
      BY <2>1
    <3>2. QED
      BY <2>1, <3>1
  <2>3. SnapshotAgrees'
    BY <2>1
  <2>4. DraftsAgree'
    BY <1>3 DEF Lookup, Answer, EndCalls
  <2>5. QED
    BY <2>2, <2>3, <2>4
<1>4. ASSUME NEW t \in Thread, TakeMutex(t) PROVE SnapshotInv'
  BY <1>4 DEF TakeMutex, Owner, Goto
<1>5. ASSUME NEW t \in Thread, TakeFile(t) PROVE SnapshotInv'
  BY <1>5 DEF TakeFile, FileFree, Goto
<1>6. ASSUME NEW t \in Thread, Error(t) PROVE SnapshotInv'
  <2>1. GenerationsPast'
    BY <1>6 DEF Error, ReleaseMutex, ReleaseFile, EndCalls, Goto
  <2>2. SnapshotAgrees'
    BY <1>6 DEF Error, ReleaseMutex, ReleaseFile, EndCalls, Goto
  <2>3. DraftsAgree'
    BY <1>6 DEF Error, ReleaseMutex, ReleaseFile, EndCalls, Goto
  <2>4. QED
    BY <2>1, <2>2, <2>3
<1>7. ASSUME NEW t \in Thread, SyncError(t) PROVE SnapshotInv'
  BY <1>7 DEF SyncError, ReleaseMutex, ReleaseFile, EndCalls
<1>8. ASSUME NEW t \in Thread, ReadSnapshot(t) PROVE SnapshotInv'
  BY <1>8 DEF ReadSnapshot, Goto
<1>9. ASSUME NEW t \in Thread, Install(t) PROVE SnapshotInv'
  <2>1. GenerationsPast'
    BY <1>9 DEF Install, GenerationRead, Adopt, DomainsOr, ReleaseMutex, ReleaseFile, EndCalls, Goto
  <2>2. SnapshotAgrees'
    BY <1>9 DEF Install, GenerationRead, Adopt, DomainsOr, ReleaseMutex, ReleaseFile, EndCalls, Goto
  <2>3. DraftsAgree'
    BY <1>9 DEF Install, GenerationRead, Adopt, DomainsOr, ReleaseMutex, ReleaseFile, EndCalls, Goto
  <2>4. QED
    BY <2>1, <2>2, <2>3
<1>10. ASSUME NEW t \in Thread, ReadForAdd(t) PROVE SnapshotInv'
  BY <1>10 DEF ReadForAdd, Merged, Goto
<1>11. ASSUME NEW t \in Thread, CheckForReplace(t) PROVE SnapshotInv'
  BY <1>11 DEF CheckForReplace, Expected, Goto
<1>12. ASSUME NEW t \in Thread, ReadBack(t) PROVE SnapshotInv'
  BY <1>12 DEF ReadBack, Adopt, DomainsOr, ReleaseMutex, ReleaseFile, EndCalls
<1>13. ASSUME NEW t \in Thread, Publish(t) PROVE SnapshotInv'
  <2> DEFINE new == [gen |-> lastGen + 1, data |-> draft[t]]
  <2>0. lastGen + 1 \in Gen /\ draft[t] \in Contents
    BY <1>13 DEF Publish
  <2>1. /\ new \in File /\ new.gen = lastGen + 1 /\ new.data = draft[t]
        /\ file' = new /\ lastGen' = lastGen + 1
        /\ survivors' = survivors \cup {new}
    BY <1>13, <2>0 DEF Publish, FileBecomes
  <2>2. UNCHANGED <<object, op, draft, stat>> /\ pc' = [pc EXCEPT ![t] = "sync"]
    BY <1>13 DEF Publish, Goto
  <2> HIDE DEF new
  <2>3. GenerationsPast'
    <3>1. \A f \in survivors' \cup {file'} : f.gen <= lastGen'
      <4>1. \A f \in survivors : f.gen \in Int /\ f.gen <= lastGen
        OBVIOUS
      <4>2. QED
        BY <2>1, <4>1
    <3>2. \A p \in Process : generation'[p] <= lastGen'
      BY <2>1, <2>2
    <3>3. \A u \in Thread : stat'[u] <= lastGen'
      BY <2>1, <2>2
    <3>4. QED
      BY <3>1, <3>2, <3>3
  <2>4. SnapshotAgrees'
    BY <2>1, <2>2
  <2>5. DraftsAgree'
    BY <1>13, <2>1, <2>2 DEF Publish
  <2>6. QED
    BY <2>3, <2>4, <2>5
<1>14. ASSUME NEW t \in Thread, SyncDirectory(t) PROVE SnapshotInv'
  BY <1>14 DEF SyncDirectory, Durable, Adopt, DomainsOr, ReleaseMutex, ReleaseFile, EndCalls
<1>15. CASE Damage
  <2>1. lastGen' = lastGen \/ lastGen' = lastGen + 1
    BY <1>15 DEF Damage
  <2>2. ~file'.data.ok /\ file'.gen <= lastGen' /\ survivors' = {file'}
    BY <1>15 DEF Damage, FileBecomes
  <2>3. GenerationsPast'
    <3>1. \A p \in Process : generation'[p] <= lastGen'
      BY <1>15, <2>1 DEF Damage
    <3>2. \A u \in Thread : stat'[u] <= lastGen'
      BY <1>15, <2>1 DEF Damage
    <3>3. QED
      BY <2>2, <3>1, <3>2
  <2>4. SnapshotAgrees'
    BY <2>2
  <2>5. DraftsAgree'
    BY <1>15, <2>2 DEF Damage
  <2>6. QED
    BY <2>3, <2>4, <2>5
<1>16. ASSUME NEW p \in Process, Crash(p) PROVE SnapshotInv'
  BY <1>16 DEF Crash, Restart, EndCalls
<1>17. CASE PowerLoss
  BY <1>17 DEF PowerLoss, Restart, EndCalls
<1>18. CASE UNCHANGED vars
  BY <1>18 DEF vars
<1>19. QED
  BY <1>1, <1>2, <1>3, <1>4, <1>5, <1>6, <1>7, <1>8, <1>9, <1>10,
     <1>11, <1>12, <1>13, <1>14, <1>15, <1>16, <1>17, <1>18
     DEF Next, Step, Environment

-----------------------------------------------------------------------------
(* Acknowledged domains.                                                    *)

LEMMA DurableInit == Init => DurableInv
BY Values, MaxGenAssumption
   DEF Init, DurableInv, AcknowledgedSurvive, DraftsKeep

LEMMA NothingAcknowledged == ASSUME DurableInv, ~file.data.ok PROVE acked = {}
<1>1. file \in survivors /\ file.data.set = {}
  BY DEF DurableInv
<1>2. acked \subseteq file.data.set
  BY <1>1 DEF DurableInv, AcknowledgedSurvive
<1>3. QED
  BY <1>1, <1>2

LEMMA DurableNext == TypeOK /\ LockInv /\ SnapshotInv /\ DurableInv /\ [Next]_vars => DurableInv'
<1> SUFFICES ASSUME TypeOK, LockInv, SnapshotInv, DurableInv, [Next]_vars PROVE DurableInv'
  OBVIOUS
<1> USE ProcessOfAssumption, NoThreadAssumption, Values
    DEF TypeOK, LockInv, LockDiscipline, MethodFits, SnapshotInv, DraftsAgree,
        DurableInv, AcknowledgedSurvive, DraftsKeep, HoldsMutex, HoldsFile
<1>1. ASSUME NEW t \in Thread, Call(t) PROVE DurableInv'
  BY <1>1 DEF Call, CallContains, CallDomains, CallSnapshot, CallAdd, CallReplace, Ask, Begin, Goto
<1>2. ASSUME NEW t \in Thread, Compare(t) PROVE DurableInv'
  BY <1>2 DEF Compare, Fresh, Answer, EndCalls, Goto
<1>3. ASSUME NEW t \in Thread, Lookup(t) PROVE DurableInv'
  BY <1>3 DEF Lookup, Answer, EndCalls
<1>4. ASSUME NEW t \in Thread, TakeMutex(t) PROVE DurableInv'
  BY <1>4 DEF TakeMutex, Owner, Goto
<1>5. ASSUME NEW t \in Thread, TakeFile(t) PROVE DurableInv'
  BY <1>5 DEF TakeFile, FileFree, Goto
<1>6. ASSUME NEW t \in Thread, Error(t) PROVE DurableInv'
  BY <1>6 DEF Error, ReleaseMutex, ReleaseFile, EndCalls, Goto
<1>7. ASSUME NEW t \in Thread, SyncError(t) PROVE DurableInv'
  BY <1>7 DEF SyncError, ReleaseMutex, ReleaseFile, EndCalls
<1>8. ASSUME NEW t \in Thread, ReadSnapshot(t) PROVE DurableInv'
  BY <1>8 DEF ReadSnapshot, Goto
<1>9. ASSUME NEW t \in Thread, Install(t) PROVE DurableInv'
  BY <1>9 DEF Install, GenerationRead, Adopt, DomainsOr, ReleaseMutex, ReleaseFile, EndCalls, Goto
<1>10. ASSUME NEW t \in Thread, ReadForAdd(t) PROVE DurableInv'
  <2>1. /\ draft'[t].ok
        /\ arg'[t] \subseteq draft'[t].set
        /\ acked' \subseteq draft'[t].set
    <3>1. CASE file.data.ok
      BY <1>10, <3>1 DEF ReadForAdd, Merged
    <3>2. CASE ~file.data.ok
      <4>1. acked = {}
        BY ONLY DurableInv, <3>2, NothingAcknowledged
      <4>2. QED
        BY <1>10, <3>2, <4>1 DEF ReadForAdd, Merged
    <3>3. QED
      BY <3>1, <3>2
  <2>2. DraftsKeep'
    BY <1>10, <2>1 DEF ReadForAdd, Goto
  <2>3. QED
    BY <1>10, <2>2 DEF ReadForAdd, Merged
<1>11. ASSUME NEW t \in Thread, CheckForReplace(t) PROVE DurableInv'
  BY <1>11 DEF CheckForReplace, Expected, Goto
<1>12. ASSUME NEW t \in Thread, ReadBack(t) PROVE DurableInv'
  BY <1>12 DEF ReadBack, Adopt, DomainsOr, ReleaseMutex, ReleaseFile, EndCalls
<1>13. ASSUME NEW t \in Thread, Publish(t) PROVE DurableInv'
  BY <1>13 DEF Publish, FileBecomes, Goto
<1>14. ASSUME NEW t \in Thread, SyncDirectory(t) PROVE DurableInv'
  BY <1>14 DEF SyncDirectory, Durable, Adopt, DomainsOr, ReleaseMutex, ReleaseFile, EndCalls
<1>15. CASE Damage
  BY <1>15 DEF Damage, FileBecomes
<1>16. ASSUME NEW p \in Process, Crash(p) PROVE DurableInv'
  BY <1>16 DEF Crash, Restart, EndCalls
<1>17. CASE PowerLoss
  BY <1>17 DEF PowerLoss, Restart, EndCalls
<1>18. CASE UNCHANGED vars
  BY <1>18 DEF vars
<1>19. QED
  BY <1>1, <1>2, <1>3, <1>4, <1>5, <1>6, <1>7, <1>8, <1>9, <1>10,
     <1>11, <1>12, <1>13, <1>14, <1>15, <1>16, <1>17, <1>18
     DEF Next, Step, Environment

-----------------------------------------------------------------------------
(* The compare-and-set.                                                     *)

LEMMA ExpectationInit == Init => ExpectationHolds
BY DEF Init, ExpectationHolds

LEMMA ExpectationNext == TypeOK /\ LockInv /\ ExpectationHolds /\ [Next]_vars => ExpectationHolds'
<1> SUFFICES ASSUME TypeOK, LockInv, ExpectationHolds, [Next]_vars PROVE ExpectationHolds'
  OBVIOUS
<1> USE ProcessOfAssumption, NoThreadAssumption, Values
    DEF TypeOK, LockInv, LockDiscipline, MethodFits, ExpectationHolds, HoldsMutex, HoldsFile
<1>1. ASSUME NEW t \in Thread, Call(t) PROVE ExpectationHolds'
  BY <1>1 DEF Call, CallContains, CallDomains, CallSnapshot, CallAdd, CallReplace, Ask, Begin, Goto
<1>2. ASSUME NEW t \in Thread, Compare(t) PROVE ExpectationHolds'
  BY <1>2 DEF Compare, Fresh, Answer, EndCalls, Goto
<1>3. ASSUME NEW t \in Thread, Lookup(t) PROVE ExpectationHolds'
  BY <1>3 DEF Lookup, Answer, EndCalls
<1>4. ASSUME NEW t \in Thread, TakeMutex(t) PROVE ExpectationHolds'
  BY <1>4 DEF TakeMutex, Owner, Goto
<1>5. ASSUME NEW t \in Thread, TakeFile(t) PROVE ExpectationHolds'
  BY <1>5 DEF TakeFile, FileFree, Goto
<1>6. ASSUME NEW t \in Thread, Error(t) PROVE ExpectationHolds'
  BY <1>6 DEF Error, ReleaseMutex, ReleaseFile, EndCalls, Goto
<1>7. ASSUME NEW t \in Thread, SyncError(t) PROVE ExpectationHolds'
  BY <1>7 DEF SyncError, ReleaseMutex, ReleaseFile, EndCalls
<1>8. ASSUME NEW t \in Thread, ReadSnapshot(t) PROVE ExpectationHolds'
  BY <1>8 DEF ReadSnapshot, Goto
<1>9. ASSUME NEW t \in Thread, Install(t) PROVE ExpectationHolds'
  BY <1>9 DEF Install, GenerationRead, Adopt, DomainsOr, ReleaseMutex, ReleaseFile, EndCalls, Goto
<1>10. ASSUME NEW t \in Thread, ReadForAdd(t) PROVE ExpectationHolds'
  BY <1>10 DEF ReadForAdd, Merged, Goto
<1>11. ASSUME NEW t \in Thread, CheckForReplace(t) PROVE ExpectationHolds'
  BY <1>11 DEF CheckForReplace, Expected, Goto
<1>12. ASSUME NEW t \in Thread, ReadBack(t) PROVE ExpectationHolds'
  BY <1>12 DEF ReadBack, Adopt, DomainsOr, ReleaseMutex, ReleaseFile, EndCalls
<1>13. ASSUME NEW t \in Thread, Publish(t) PROVE ExpectationHolds'
  BY <1>13 DEF Publish, FileBecomes, Goto
<1>14. ASSUME NEW t \in Thread, SyncDirectory(t) PROVE ExpectationHolds'
  BY <1>14 DEF SyncDirectory, Durable, Adopt, DomainsOr, ReleaseMutex, ReleaseFile, EndCalls
<1>15. CASE Damage
  BY <1>15 DEF Damage, FileBecomes
<1>16. ASSUME NEW p \in Process, Crash(p) PROVE ExpectationHolds'
  BY <1>16 DEF Crash, Restart, EndCalls
<1>17. CASE PowerLoss
  BY <1>17 DEF PowerLoss, Restart, EndCalls
<1>18. CASE UNCHANGED vars
  BY <1>18 DEF vars
<1>19. QED
  BY <1>1, <1>2, <1>3, <1>4, <1>5, <1>6, <1>7, <1>8, <1>9, <1>10,
     <1>11, <1>12, <1>13, <1>14, <1>15, <1>16, <1>17, <1>18
     DEF Next, Step, Environment
-----------------------------------------------------------------------------
(* The answers.                                                             *)

LEMMA CallsInit == Init => CallsFit
BY DEF Init, CallsFit

LEMMA CallsNext == TypeOK /\ LockInv /\ CallsFit /\ [Next]_vars => CallsFit'
<1> SUFFICES ASSUME TypeOK, LockInv, CallsFit, [Next]_vars PROVE CallsFit'
  OBVIOUS
<1> USE ProcessOfAssumption, NoThreadAssumption, Values
    DEF TypeOK, LockInv, LockDiscipline, MethodFits, CallsFit, HoldsMutex, HoldsFile
<1>1. ASSUME NEW t \in Thread, Call(t) PROVE CallsFit'
  BY <1>1 DEF Call, CallContains, CallDomains, CallSnapshot, CallAdd, CallReplace, Ask, Begin, Goto
<1>2. ASSUME NEW t \in Thread, Compare(t) PROVE CallsFit'
  BY <1>2 DEF Compare, Fresh, Answer, EndCalls, Goto
<1>3. ASSUME NEW t \in Thread, Lookup(t) PROVE CallsFit'
  BY <1>3 DEF Lookup, Answer, EndCalls
<1>4. ASSUME NEW t \in Thread, TakeMutex(t) PROVE CallsFit'
  BY <1>4 DEF TakeMutex, Owner, Goto
<1>5. ASSUME NEW t \in Thread, TakeFile(t) PROVE CallsFit'
  BY <1>5 DEF TakeFile, FileFree, Goto
<1>6. ASSUME NEW t \in Thread, Error(t) PROVE CallsFit'
  BY <1>6 DEF Error, ReleaseMutex, ReleaseFile, EndCalls, Goto
<1>7. ASSUME NEW t \in Thread, SyncError(t) PROVE CallsFit'
  BY <1>7 DEF SyncError, ReleaseMutex, ReleaseFile, EndCalls
<1>8. ASSUME NEW t \in Thread, ReadSnapshot(t) PROVE CallsFit'
  BY <1>8 DEF ReadSnapshot, Goto
<1>9. ASSUME NEW t \in Thread, Install(t) PROVE CallsFit'
  BY <1>9 DEF Install, GenerationRead, Adopt, DomainsOr, ReleaseMutex, ReleaseFile, EndCalls, Goto
<1>10. ASSUME NEW t \in Thread, ReadForAdd(t) PROVE CallsFit'
  BY <1>10 DEF ReadForAdd, Merged, Goto
<1>11. ASSUME NEW t \in Thread, CheckForReplace(t) PROVE CallsFit'
  BY <1>11 DEF CheckForReplace, Expected, Goto
<1>12. ASSUME NEW t \in Thread, ReadBack(t) PROVE CallsFit'
  BY <1>12 DEF ReadBack, Adopt, DomainsOr, ReleaseMutex, ReleaseFile, EndCalls
<1>13. ASSUME NEW t \in Thread, Publish(t) PROVE CallsFit'
  BY <1>13 DEF Publish, FileBecomes, Goto
<1>14. ASSUME NEW t \in Thread, SyncDirectory(t) PROVE CallsFit'
  BY <1>14 DEF SyncDirectory, Durable, Adopt, DomainsOr, ReleaseMutex, ReleaseFile, EndCalls
<1>15. CASE Damage
  BY <1>15 DEF Damage, FileBecomes
<1>16. ASSUME NEW p \in Process, Crash(p) PROVE CallsFit'
  BY <1>16 DEF Crash, Restart, EndCalls
<1>17. CASE PowerLoss
  BY <1>17 DEF PowerLoss, Restart, EndCalls
<1>18. CASE UNCHANGED vars
  BY <1>18 DEF vars
<1>19. QED
  BY <1>1, <1>2, <1>3, <1>4, <1>5, <1>6, <1>7, <1>8, <1>9, <1>10,
     <1>11, <1>12, <1>13, <1>14, <1>15, <1>16, <1>17, <1>18
     DEF Next, Step, Environment

LEMMA AnswerInit == Init => AnswerInv
BY DEF Init, AnswerInv

(* A file that changes under a call only adds to the right answers.         *)
LEMMA Widens ==
    ASSUME TypeOK, AnswerInv, NEW f, FileBecomes(f),
           UNCHANGED <<object, draft, stat, op, arg, misled>>,
           \A u \in Thread : pc'[u] \in {"install", "lookup", "compare"} => pc'[u] = pc[u]
    PROVE  AnswerInv'
<1>1. ASSUME NEW u \in Thread, op[u] \in Asking
      PROVE  /\ window[u] \subseteq window'[u]
             /\ Grants(u, file.data)'
             /\ \A c : Grants(u, c) => Grants(u, c)'
  <2>1. window'[u] = window[u] \cup RightAnswers(u, f) /\ file' = f
    BY <1>1 DEF FileBecomes, TypeOK
  <2>2. QED
    BY <2>1 DEF RightAnswers, Grants, Reply
<1>2. ASSUME NEW u \in Thread, op[u] \in Asking
      PROVE  \A S : Reply(u, S)' = Reply(u, S)
  BY DEF Reply
<1>3. \A u \in Thread : op[u] \in Asking => \A v \in Mates(u) : Grants(u, draft[v]) => Grants(u, draft[v])'
  BY <1>1
<1>4. QED
  BY <1>1, <1>3 DEF AnswerInv, Reply, Mates

LEMMA AnswerNext == TypeOK /\ LockInv /\ SnapshotInv /\ CallsFit /\ AnswerInv /\ [Next]_vars => AnswerInv'
<1> SUFFICES ASSUME TypeOK, LockInv, SnapshotInv, CallsFit, AnswerInv, [Next]_vars PROVE AnswerInv'
  OBVIOUS
<1> USE ProcessOfAssumption, NoThreadAssumption, Values
    DEF TypeOK, LockInv, LockDiscipline, MethodFits, CallsFit, HoldsMutex, HoldsFile,
        SnapshotInv, SnapshotAgrees, DraftsAgree, AnswerInv, Grants, Mates, Reply
<1>1. ASSUME NEW t \in Thread, Call(t) PROVE AnswerInv'
  BY <1>1 DEF Call, CallContains, CallDomains, CallSnapshot, CallAdd, CallReplace, Ask, Begin, Goto
<1>2. ASSUME NEW t \in Thread, Compare(t) PROVE AnswerInv'
  BY <1>2 DEF Compare, Fresh, Answer, EndCalls, Goto
<1>3. ASSUME NEW t \in Thread, Lookup(t) PROVE AnswerInv'
  BY <1>3 DEF Lookup, Answer, EndCalls
<1>4. ASSUME NEW t \in Thread, TakeMutex(t) PROVE AnswerInv'
  BY <1>4 DEF TakeMutex, Owner, Goto
<1>5. ASSUME NEW t \in Thread, TakeFile(t) PROVE AnswerInv'
  BY <1>5 DEF TakeFile, FileFree, Goto
<1>6. ASSUME NEW t \in Thread, Error(t) PROVE AnswerInv'
  BY <1>6 DEF Error, ReleaseMutex, ReleaseFile, EndCalls, Goto
<1>7. ASSUME NEW t \in Thread, SyncError(t) PROVE AnswerInv'
  BY <1>7 DEF SyncError, ReleaseMutex, ReleaseFile, EndCalls
<1>8. ASSUME NEW t \in Thread, ReadSnapshot(t) PROVE AnswerInv'
  BY <1>8 DEF ReadSnapshot, Goto
<1>9. ASSUME NEW t \in Thread, Install(t) PROVE AnswerInv'
  BY <1>9 DEF Install, GenerationRead, Adopt, DomainsOr, ReleaseMutex, ReleaseFile, EndCalls, Goto
<1>10. ASSUME NEW t \in Thread, ReadForAdd(t) PROVE AnswerInv'
  BY <1>10 DEF ReadForAdd, Merged, Goto
<1>11. ASSUME NEW t \in Thread, CheckForReplace(t) PROVE AnswerInv'
  BY <1>11 DEF CheckForReplace, Expected, Goto
<1>12. ASSUME NEW t \in Thread, ReadBack(t) PROVE AnswerInv'
  BY <1>12 DEF ReadBack, Adopt, DomainsOr, ReleaseMutex, ReleaseFile, EndCalls
<1>13. ASSUME NEW t \in Thread, Publish(t) PROVE AnswerInv'
  BY <1>13, Widens DEF Publish, Goto
<1>14. ASSUME NEW t \in Thread, SyncDirectory(t) PROVE AnswerInv'
  BY <1>14 DEF SyncDirectory, Durable, Adopt, DomainsOr, ReleaseMutex, ReleaseFile, EndCalls
<1>15. CASE Damage
  BY <1>15, Widens DEF Damage
<1>16. ASSUME NEW p \in Process, Crash(p) PROVE AnswerInv'
  <2>1. ASSUME NEW u \in Thread, op'[u] \in Asking
        PROVE  /\ ProcessOf[u] # p
               /\ \A v \in Mates(u) : UNCHANGED <<pc[v], op[v], arg[v], draft[v], stat[v], window[v]>>
               /\ UNCHANGED <<memory[ProcessOf[u]], generation[ProcessOf[u]], file, misled>>
    BY <1>16, <2>1 DEF Crash, Restart, EndCalls
  <2>2. UNCHANGED misled
    BY <1>16 DEF Crash, Restart
  <2>3. QED
    BY <2>1, <2>2
<1>17. CASE PowerLoss
  BY <1>17 DEF PowerLoss, Restart, EndCalls
<1>18. CASE UNCHANGED vars
  BY <1>18 DEF vars
<1>19. QED
  BY <1>1, <1>2, <1>3, <1>4, <1>5, <1>6, <1>7, <1>8, <1>9, <1>10,
     <1>11, <1>12, <1>13, <1>14, <1>15, <1>16, <1>17, <1>18
     DEF Next, Step, Environment

-----------------------------------------------------------------------------
(* The merge.                                                               *)

LEMMA MergeInit == Init => DraftsMerge
BY DEF Init, DraftsMerge

LEMMA MergeNext == TypeOK /\ LockInv /\ DraftsMerge /\ [Next]_vars => DraftsMerge'
<1> SUFFICES ASSUME TypeOK, LockInv, DraftsMerge, [Next]_vars PROVE DraftsMerge'
  OBVIOUS
<1> USE ProcessOfAssumption, NoThreadAssumption, Values
    DEF TypeOK, LockInv, LockDiscipline, MethodFits, DraftsMerge, HoldsMutex, HoldsFile
<1>1. ASSUME NEW t \in Thread, Call(t) PROVE DraftsMerge'
  BY <1>1 DEF Call, CallContains, CallDomains, CallSnapshot, CallAdd, CallReplace, Ask, Begin, Goto
<1>2. ASSUME NEW t \in Thread, Compare(t) PROVE DraftsMerge'
  BY <1>2 DEF Compare, Fresh, Answer, EndCalls, Goto
<1>3. ASSUME NEW t \in Thread, Lookup(t) PROVE DraftsMerge'
  BY <1>3 DEF Lookup, Answer, EndCalls
<1>4. ASSUME NEW t \in Thread, TakeMutex(t) PROVE DraftsMerge'
  BY <1>4 DEF TakeMutex, Owner, Goto
<1>5. ASSUME NEW t \in Thread, TakeFile(t) PROVE DraftsMerge'
  BY <1>5 DEF TakeFile, FileFree, Goto
<1>6. ASSUME NEW t \in Thread, Error(t) PROVE DraftsMerge'
  BY <1>6 DEF Error, ReleaseMutex, ReleaseFile, EndCalls, Goto
<1>7. ASSUME NEW t \in Thread, SyncError(t) PROVE DraftsMerge'
  BY <1>7 DEF SyncError, ReleaseMutex, ReleaseFile, EndCalls
<1>8. ASSUME NEW t \in Thread, ReadSnapshot(t) PROVE DraftsMerge'
  BY <1>8 DEF ReadSnapshot, Goto
<1>9. ASSUME NEW t \in Thread, Install(t) PROVE DraftsMerge'
  BY <1>9 DEF Install, GenerationRead, Adopt, DomainsOr, ReleaseMutex, ReleaseFile, EndCalls, Goto
<1>10. ASSUME NEW t \in Thread, ReadForAdd(t) PROVE DraftsMerge'
  <2>1. Merges(Holding(Merged(t)), arg[t], file.data)
    <3>1. memory[ProcessOf[t]] \in SUBSET Domain /\ file.data.set \in SUBSET Domain
      OBVIOUS
    <3> DEFINE old == IF file.data.ok THEN file.data.set ELSE memory[ProcessOf[t]]
    <3>2. Merged(t) = old \cup arg[t]
      BY DEF Merged
    <3>3. old \in SUBSET Domain /\ (file.data.ok => old = file.data.set)
      BY <3>1
    <3>4. QED
      BY <3>2, <3>3 DEF Merges
  <2>2. QED
    BY <1>10, <2>1 DEF ReadForAdd, Goto
<1>11. ASSUME NEW t \in Thread, CheckForReplace(t) PROVE DraftsMerge'
  BY <1>11 DEF CheckForReplace, Expected, Goto
<1>12. ASSUME NEW t \in Thread, ReadBack(t) PROVE DraftsMerge'
  BY <1>12 DEF ReadBack, Adopt, DomainsOr, ReleaseMutex, ReleaseFile, EndCalls
<1>13. ASSUME NEW t \in Thread, Publish(t) PROVE DraftsMerge'
  BY <1>13 DEF Publish, FileBecomes, Goto
<1>14. ASSUME NEW t \in Thread, SyncDirectory(t) PROVE DraftsMerge'
  BY <1>14 DEF SyncDirectory, Durable, Adopt, DomainsOr, ReleaseMutex, ReleaseFile, EndCalls
<1>15. CASE Damage
  BY <1>15 DEF Damage, FileBecomes
<1>16. ASSUME NEW p \in Process, Crash(p) PROVE DraftsMerge'
  BY <1>16 DEF Crash, Restart, EndCalls
<1>17. CASE PowerLoss
  BY <1>17 DEF PowerLoss, Restart, EndCalls
<1>18. CASE UNCHANGED vars
  BY <1>18 DEF vars
<1>19. QED
  BY <1>1, <1>2, <1>3, <1>4, <1>5, <1>6, <1>7, <1>8, <1>9, <1>10,
     <1>11, <1>12, <1>13, <1>14, <1>15, <1>16, <1>17, <1>18
     DEF Next, Step, Environment

-----------------------------------------------------------------------------
(* The theorems.                                                            *)

(* A thread that touches the file or the memory copy holds the lock that    *)
(* guards it.                                                               *)
THEOREM LocksHeld == Spec => []LockDiscipline
<1>1. LockInv => LockDiscipline
  BY DEF LockInv
<1>2. QED
  BY <1>1, TypeCorrect, LockInit, LockNext, PTL DEF Spec

(* At most one thread at a time is between the read and the publication of  *)
(* an add() or a replace(): no write is based on contents that another      *)
(* write has replaced.                                                      *)
THEOREM WritersExclude ==
    Spec => [](\A t, u \in Thread : HoldsFile(t) /\ HoldsFile(u) => t = u)
<1>1. LockDiscipline => \A t, u \in Thread : HoldsFile(t) /\ HoldsFile(u) => t = u
  BY DEF LockDiscipline
<1>2. QED
  BY <1>1, LocksHeld, PTL

LEMMA Invariance == Spec => [](TypeOK /\ LockInv /\ SnapshotInv)
BY TypeCorrect, LockInit, LockNext, SnapshotInit, SnapshotNext, PTL DEF Spec

LEMMA WritesInvariance == Spec => [](CallsFit /\ DurableInv /\ ExpectationHolds /\ DraftsMerge)
BY Invariance, CallsInit, CallsNext, DurableInit, DurableNext, ExpectationInit,
   ExpectationNext, MergeInit, MergeNext, PTL DEF Spec

(* An object whose generation is the file's has the file's contents in      *)
(* memory, after any errors, crashes and writes of other processes.         *)
THEOREM MemoryIsCurrent == Spec => []SnapshotAgrees
<1>1. SnapshotInv => SnapshotAgrees
  BY DEF SnapshotInv
<1>2. QED
  BY <1>1, Invariance, PTL

(* A domain whose add() has returned survives crashes and power losses.     *)
THEOREM AcknowledgedDurable == Spec => []AcknowledgedSurvive
<1>1. DurableInv => AcknowledgedSurvive
  BY DEF DurableInv
<1>2. QED
  BY <1>1, Invariance, DurableInit, DurableNext, PTL DEF Spec

(* contains() and active_domains() answer for a file that the path named    *)
(* during the call, though they look at the file outside the locks and let  *)
(* go of them between load() and the lookup; unless they could not read it. *)
THEOREM AnswersAreCurrent == Spec => []ContainsIsCurrent
<1>1. AnswerInv => ContainsIsCurrent
  BY DEF AnswerInv, ContainsIsCurrent
<1>2. QED
  BY <1>1, Invariance, CallsInit, CallsNext, AnswerInit, AnswerNext, PTL DEF Spec

(* A replace() that was given a generation publishes only over the file of  *)
(* that generation.                                                         *)
THEOREM CompareAndSet == Spec => ReplaceSawTheFile
<1> DEFINE Saw == \A t \in Thread :
                    op[t] = "replace" /\ expect[t] # NoGen /\ pc[t] = "publish"
                    /\ pc'[t] = "sync" => file.gen = expect[t]
<1>1. ExpectationHolds => Saw
  BY DEF ExpectationHolds
<1>2. Spec => []ExpectationHolds
  BY Invariance, ExpectationInit, ExpectationNext, PTL DEF Spec
<1>3. QED
  BY <1>1, <1>2, PTL DEF ReplaceSawTheFile

-----------------------------------------------------------------------------
(* The contents of the file.                                                *)

(* Only a publication, damage and a power loss change the file.             *)
LEMMA FileFrame ==
    ASSUME [Next]_vars, file' # file
    PROVE  (\E t \in Thread : Publish(t)) \/ Damage \/ PowerLoss
<1>1. ASSUME NEW t \in Thread, Call(t) PROVE file' = file
  BY <1>1 DEF Call, CallContains, CallDomains, CallSnapshot, CallAdd, CallReplace, Ask, Begin
<1>2. ASSUME NEW t \in Thread, Step(t), ~Publish(t) PROVE file' = file
  BY <1>2 DEF Step, Compare, Lookup, TakeMutex, TakeFile, ReadSnapshot, Install, ReadForAdd,
              CheckForReplace, ReadBack, SyncDirectory
<1>3. ASSUME NEW t \in Thread, Error(t) \/ SyncError(t) PROVE file' = file
  BY <1>3 DEF Error, SyncError
<1>4. ASSUME NEW p \in Process, Crash(p) PROVE file' = file
  BY <1>4 DEF Crash
<1>5. QED
  BY <1>1, <1>2, <1>3, <1>4 DEF Next, Environment, vars

(* Whatever a process had in memory, a domain that the readable file does   *)
(* not hold comes into it only by the call that names it, or with a version *)
(* that a power loss left.                                                  *)
THEOREM NothingComesBack == Spec => NoResurrection
<1> DEFINE Entered ==
        \A d \in Domain :
           /\ file.data.ok
           /\ d \notin file.data.set
           /\ d \in file'.data.set
           => \/ \E t \in Thread : pc[t] = "publish" /\ d \in arg[t]
              \/ file' \in survivors
<1>1. TypeOK /\ LockInv /\ DurableInv /\ DraftsMerge /\ [Next]_vars => Entered
  <2> SUFFICES ASSUME TypeOK, LockInv, DurableInv, DraftsMerge, [Next]_vars,
                      NEW d \in Domain, file.data.ok, d \notin file.data.set,
                      d \in file'.data.set
               PROVE  \/ \E t \in Thread : pc[t] = "publish" /\ d \in arg[t]
                      \/ file' \in survivors
    OBVIOUS
  <2>1. file' # file
    OBVIOUS
  <2>2. ASSUME NEW t \in Thread, Publish(t) PROVE pc[t] = "publish" /\ d \in arg[t]
    <3>1. pc[t] = "publish" /\ draft[t] \in Contents /\ file'.data = draft[t]
      BY <2>2 DEF Publish, FileBecomes, TypeOK
    <3>2. CASE op[t] = "replace"
      BY <3>1, <3>2 DEF DurableInv, DraftsKeep
    <3>3. CASE op[t] = "add"
      <4>1. PICK old \in SUBSET Domain : /\ file.data.ok => old = file.data.set
                                         /\ draft[t] = Holding(old \cup arg[t])
        BY <3>1, <3>3 DEF DraftsMerge, Merges
      <4>2. draft[t].set = file.data.set \cup arg[t]
        BY <4>1 DEF Holding
      <4>3. QED
        BY <3>1, <4>2
    <3>4. QED
      BY <3>1, <3>2, <3>3 DEF LockInv, MethodFits
  <2>3. CASE Damage
    <3>1. file'.data = Unreadable
      BY <2>3 DEF Damage, FileBecomes
    <3>2. QED
      BY <3>1, Values
  <2>4. CASE PowerLoss
    BY <2>4 DEF PowerLoss
  <2>5. QED
    BY <2>1, <2>2, <2>3, <2>4, FileFrame
<1>2. TypeOK /\ LockInv /\ DurableInv /\ DraftsMerge /\ [Next]_vars => [Entered]_vars
  BY <1>1
<1>3. QED
  BY <1>2, Invariance, WritesInvariance, PTL DEF Spec, NoResurrection

-----------------------------------------------------------------------------
(* The atomic whitelist.                                                    *)

(* A step that leaves every writing call where it is, and the file alone,   *)
(* is a stutter of the abstract specification.                              *)
LEMMA Stutters ==
    ASSUME UNCHANGED shared,
           \A u \in Thread : requestOf'[u] = requestOf[u] /\ phaseOf'[u] = phaseOf[u]
    PROVE  UNCHANGED Atomic!vars
BY DEF Atomic!vars, requestOf, phaseOf

(* A step of one thread.                                                    *)
LEMMA Sets ==
    ASSUME NEW t \in Thread, NEW r, NEW ph, requestOf'[t] = r, phaseOf'[t] = ph,
           \A u \in Thread : u # t => requestOf'[u] = requestOf[u] /\ phaseOf'[u] = phaseOf[u]
    PROVE  Atomic!Set(t, r, ph)
<1>1. requestOf' = [u \in Thread |-> requestOf'[u]] /\ requestOf = [u \in Thread |-> requestOf[u]]
  BY DEF requestOf
<1>2. phaseOf' = [u \in Thread |-> phaseOf'[u]] /\ phaseOf = [u \in Thread |-> phaseOf[u]]
  BY DEF phaseOf
<1>3. requestOf' = [requestOf EXCEPT ![t] = r]
  BY <1>1
<1>4. phaseOf' = [phaseOf EXCEPT ![t] = ph]
  BY <1>2
<1>5. QED
  BY <1>3, <1>4 DEF Atomic!Set

(* Calls that end are aborted, which no caller can tell from returning when *)
(* they only read.                                                          *)
LEMMA EndsAreAborts ==
    ASSUME TypeOK, NEW T \in SUBSET Thread, EndCalls(T)
    PROVE  Atomic!Abort(T)
<1>1. \A u \in Thread :
         /\ requestOf'[u] = IF u \in T THEN Atomic!NoCall ELSE requestOf[u]
         /\ phaseOf'[u] = IF u \in T THEN "none" ELSE phaseOf[u]
  BY DEF EndCalls, requestOf, phaseOf, Atomic!NoCall, Atomic!NoGen, NoGen
<1>2. QED
  BY <1>1 DEF Atomic!Abort, requestOf, phaseOf

LEMMA EndsFail ==
    ASSUME TypeOK, NEW T \in SUBSET Thread, EndCalls(T), UNCHANGED shared
    PROVE  Atomic!Next
BY EndsAreAborts DEF Atomic!Next, Atomic!Fail

LEMMA EndsSet ==
    ASSUME TypeOK, NEW t \in Thread, EndCalls({t})
    PROVE  Atomic!Set(t, Atomic!NoCall, "none")
<1>1. requestOf'[t] = Atomic!NoCall /\ phaseOf'[t] = "none"
  BY DEF EndCalls, requestOf, phaseOf, Atomic!NoCall, Atomic!NoGen, NoGen
<1>2. \A u \in Thread : u # t => requestOf'[u] = requestOf[u] /\ phaseOf'[u] = phaseOf[u]
  BY DEF EndCalls, requestOf, phaseOf
<1>3. QED
  BY <1>1, <1>2, Sets

(* The abstract step of a call that begins.                                 *)
LEMMA CallsBegin ==
    ASSUME TypeOK, CallsFit, NEW t \in Thread, Call(t)
    PROVE  [Atomic!Next]_(Atomic!vars)
<1> USE DEF TypeOK, Goto
<1>1. /\ pc[t] = "idle" /\ op[t] = "none" /\ expect[t] = NoGen
      /\ \A u \in Thread : op[u] \notin Writing => expect[u] = NoGen
  BY DEF CallsFit, Call, CallContains, CallDomains, CallSnapshot, CallAdd, CallReplace, Ask, Begin
<1>2. phaseOf[t] = "none"
  BY <1>1 DEF phaseOf
<1>3. ASSUME NEW m \in Snapshot, op' = [op EXCEPT ![t] = m], UNCHANGED <<shared, expect>>,
             \E S : arg' = [arg EXCEPT ![t] = S],
             \E label : pc' = [pc EXCEPT ![t] = label]
      PROVE  UNCHANGED Atomic!vars
  <2>1. \A u \in Thread : requestOf'[u] = requestOf[u] /\ phaseOf'[u] = phaseOf[u]
    BY <1>1, <1>3 DEF requestOf, phaseOf
  <2>2. QED
    BY <1>3, <2>1, Stutters
<1>4. ASSUME NEW S \in SUBSET Domain, CallAdd(t, S) PROVE Atomic!Next
  <2>1. /\ requestOf'[t] = [op |-> "add", arg |-> S, expect |-> Atomic!NoGen]
        /\ phaseOf'[t] = "begun"
    BY <1>1, <1>4 DEF CallAdd, Begin, requestOf, phaseOf, Atomic!NoGen, NoGen
  <2>2. \A u \in Thread : u # t => requestOf'[u] = requestOf[u] /\ phaseOf'[u] = phaseOf[u]
    BY <1>4 DEF CallAdd, Begin, requestOf, phaseOf
  <2>3. Atomic!Set(t, [op |-> "add", arg |-> S, expect |-> Atomic!NoGen], "begun")
    BY <2>1, <2>2, Sets
  <2>4. Atomic!Begin(t)
    BY <1>2, <1>4, <2>3 DEF Atomic!Begin, CallAdd, Begin
  <2>5. QED
    BY <2>4 DEF Atomic!Next
<1>5. ASSUME NEW S \in SUBSET Domain, NEW e \in {NoGen} \cup Missing .. lastGen,
             CallReplace(t, S, e)
      PROVE  Atomic!Next
  <2>1. /\ requestOf'[t] = [op |-> "replace", arg |-> S, expect |-> e]
        /\ phaseOf'[t] = "begun"
    BY <1>1, <1>5 DEF CallReplace, Begin, requestOf, phaseOf
  <2>2. \A u \in Thread : u # t => requestOf'[u] = requestOf[u] /\ phaseOf'[u] = phaseOf[u]
    BY <1>5 DEF CallReplace, Begin, requestOf, phaseOf
  <2>3. Atomic!Set(t, [op |-> "replace", arg |-> S, expect |-> e], "begun")
    BY <2>1, <2>2, Sets
  <2>4. e \in {Atomic!NoGen} \cup Atomic!Missing .. lastGen
    BY DEF Atomic!NoGen, Atomic!Missing, NoGen, Missing
  <2>5. Atomic!Begin(t)
    BY <1>2, <1>5, <2>3, <2>4 DEF Atomic!Begin, CallReplace, Begin
  <2>6. QED
    BY <2>5 DEF Atomic!Next
<1>6. ASSUME NEW d \in Domain, CallContains(t, d) PROVE UNCHANGED Atomic!vars
  BY <1>3, <1>6 DEF CallContains, Ask, Begin
<1>7. ASSUME NEW d \in Domain, CallDomains(t, d) PROVE UNCHANGED Atomic!vars
  BY <1>3, <1>7 DEF CallDomains, Ask, Begin
<1>8. ASSUME NEW m \in {"load", "generation"}, CallSnapshot(t, m) PROVE UNCHANGED Atomic!vars
  BY <1>3, <1>8 DEF CallSnapshot, Begin
<1>9. QED
  BY <1>4, <1>5, <1>6, <1>7, <1>8 DEF Call

(* The instant at which a write takes effect.                               *)
LEMMA PublishPuts ==
    ASSUME TypeOK, LockInv, DurableInv, ExpectationHolds, DraftsMerge,
           NEW t \in Thread, Publish(t)
    PROVE  Atomic!Next
<1>1. /\ pc[t] = "publish" /\ draft[t] \in Contents /\ draft[t].ok /\ op[t] \in Writing
  BY DEF Publish, TypeOK, LockInv, MethodFits, DurableInv, DraftsKeep
<1>2. /\ requestOf[t] = [op |-> op[t], arg |-> arg[t], expect |-> expect[t]]
      /\ phaseOf[t] = "begun"
  BY <1>1 DEF requestOf, phaseOf
<1>3. Atomic!Set(t, requestOf[t], "done")
  <2>1. requestOf'[t] = requestOf[t] /\ phaseOf'[t] = "done"
    BY <1>1 DEF Publish, Goto, TypeOK, requestOf, phaseOf
  <2>2. \A u \in Thread : u # t => requestOf'[u] = requestOf[u] /\ phaseOf'[u] = phaseOf[u]
    BY DEF Publish, Goto, TypeOK, requestOf, phaseOf
  <2>3. QED
    BY <2>1, <2>2, Sets
<1>4. Atomic!Put(draft[t].set)
  <2>1. draft[t] = Atomic!Holding(draft[t].set)
    BY <1>1 DEF Contents, Atomic!Holding
  <2>2. QED
    BY <2>1 DEF Publish, FileBecomes, Atomic!Put
<1>5. CASE op[t] = "add"
  <2>1. PICK old \in SUBSET Domain : /\ file.data.ok => old = file.data.set
                                     /\ draft[t] = Holding(old \cup arg[t])
    BY <1>1, <1>5 DEF DraftsMerge, Merges
  <2>2. draft[t].set = old \cup requestOf[t].arg
    BY <1>2, <2>1 DEF Holding
  <2>3. Atomic!Put(old \cup requestOf[t].arg) /\ requestOf[t].op = "add"
    BY <1>2, <1>4, <1>5, <2>2
  <2>4. Atomic!Merge(t)
    BY <1>2, <1>3, <2>1, <2>3 DEF Atomic!Merge
  <2>5. QED
    BY <2>4 DEF Atomic!Next
<1>6. CASE op[t] = "replace"
  <2>1. draft[t].set = requestOf[t].arg
    BY <1>1, <1>2, <1>6 DEF DurableInv, DraftsKeep
  <2>2. requestOf[t].expect \in {Atomic!NoGen, file.gen}
    BY <1>1, <1>2, <1>6 DEF ExpectationHolds, Atomic!NoGen, NoGen
  <2>3. Atomic!Swap(t)
    BY <1>2, <1>3, <1>4, <1>6, <2>1, <2>2 DEF Atomic!Swap
  <2>4. QED
    BY <2>3 DEF Atomic!Next
<1>7. QED
  BY <1>1, <1>5, <1>6

(* The steps that end a writing call that has taken effect, or was refused. *)
LEMMA ReturnsReturn ==
    ASSUME TypeOK, LockInv, NEW t \in Thread, SyncDirectory(t) \/ ReadBack(t)
    PROVE  Atomic!Next
<1>1. Atomic!Set(t, Atomic!NoCall, "none")
  BY EndsSet DEF SyncDirectory, ReadBack
<1>2. /\ phaseOf[t] \in {"done", "refused"}
      /\ survivors' = IF phaseOf[t] = "done" THEN {file} ELSE survivors
      /\ UNCHANGED <<file, lastGen>>
  BY DEF SyncDirectory, ReadBack, Durable, LockInv, MethodFits, phaseOf
<1>3. QED
  BY <1>1, <1>2 DEF Atomic!Next, Atomic!Return

(* replace() compares: it is refused here, or goes on.                      *)
LEMMA ChecksRefuse ==
    ASSUME TypeOK, NEW t \in Thread, CheckForReplace(t)
    PROVE  [Atomic!Next]_(Atomic!vars)
<1>1. /\ requestOf[t] = [op |-> "replace", arg |-> arg[t], expect |-> expect[t]]
      /\ phaseOf[t] = "begun"
      /\ UNCHANGED <<shared, request>>
  BY DEF CheckForReplace, requestOf, phaseOf
<1>2. \A u \in Thread : u # t => requestOf'[u] = requestOf[u] /\ phaseOf'[u] = phaseOf[u]
  BY DEF CheckForReplace, Goto, TypeOK, requestOf, phaseOf
<1>3. CASE Expected(t)
  <2>1. requestOf'[t] = requestOf[t] /\ phaseOf'[t] = phaseOf[t]
    BY <1>1, <1>3 DEF CheckForReplace, Goto, TypeOK, requestOf, phaseOf
  <2>2. QED
    BY <1>1, <1>2, <2>1, Stutters
<1>4. CASE ~Expected(t)
  <2>1. requestOf'[t] = requestOf[t] /\ phaseOf'[t] = "refused"
    BY <1>1, <1>4 DEF CheckForReplace, Goto, TypeOK, requestOf, phaseOf
  <2>2. Atomic!Set(t, requestOf[t], "refused")
    BY <1>2, <2>1, Sets
  <2>3. requestOf[t].expect \notin {Atomic!NoGen, file.gen}
    BY <1>1, <1>4 DEF Expected, Atomic!NoGen, NoGen
  <2>4. Atomic!Refuse(t)
    BY <1>1, <2>2, <2>3 DEF Atomic!Refuse
  <2>5. QED
    BY <2>4 DEF Atomic!Next
<1>5. QED
  BY <1>3, <1>4

(* The locks and the reads, and the end of what only reads.                 *)
LEMMA ReadsStutter ==
    ASSUME TypeOK, LockInv, CallsFit, NEW t \in Thread,
           \/ TakeMutex(t) \/ TakeFile(t) \/ ReadSnapshot(t) \/ ReadForAdd(t)
           \/ Compare(t) \/ Lookup(t) \/ Install(t)
    PROVE  [Atomic!Next]_(Atomic!vars)
<1>1. UNCHANGED shared
  BY DEF TakeMutex, TakeFile, ReadSnapshot, ReadForAdd, Compare, Lookup, Install
<1>2. ASSUME NEW label \in {"mutex", "flock", "read", "install", "publish", "lookup"},
             Goto(t, label), UNCHANGED request,
             op[t] \in Writing => pc[t] \notin {"sync", "readback"}
      PROVE  UNCHANGED Atomic!vars
  <2>1. \A u \in Thread : requestOf'[u] = requestOf[u] /\ phaseOf'[u] = phaseOf[u]
    BY <1>2 DEF Goto, TypeOK, requestOf, phaseOf
  <2>2. QED
    BY <1>1, <2>1, Stutters
<1>3. ASSUME EndCalls({t}) PROVE Atomic!Next
  BY <1>1, <1>3, EndsFail
<1>4. CASE TakeMutex(t) \/ TakeFile(t) \/ ReadSnapshot(t) \/ ReadForAdd(t)
  BY <1>2, <1>4 DEF TakeMutex, TakeFile, ReadSnapshot, ReadForAdd
<1>5. CASE Compare(t) \/ Lookup(t)
  BY <1>2, <1>3, <1>5 DEF Compare, Lookup, Answer
<1>6. CASE Install(t)
  BY <1>2, <1>3, <1>6 DEF Install
<1>7. QED
  BY <1>4, <1>5, <1>6

(* Damage comes upon no call that has just taken effect.                    *)
LEMMA DamageDamages ==
    ASSUME TypeOK, LockInv, Damage
    PROVE  Atomic!Next
<1>1. \A t \in Thread : phaseOf[t] \notin {"done", "refused"}
  BY NoThreadAssumption DEF Damage, LockInv, LockDiscipline, HoldsFile, phaseOf
<1>2. UNCHANGED <<requestOf, phaseOf>>
  BY DEF Damage, requestOf, phaseOf
<1>3. \/ file' = [gen |-> Atomic!Missing, data |-> Atomic!Unreadable] /\ UNCHANGED lastGen
      \/ file' = [gen |-> lastGen + 1, data |-> Atomic!Unreadable] /\ lastGen' = lastGen + 1
  BY DEF Damage, FileBecomes, Atomic!Missing, Atomic!Unreadable, Missing, Unreadable
<1>4. survivors' = {file'}
  BY DEF Damage
<1>5. QED
  BY <1>1, <1>2, <1>3, <1>4 DEF Atomic!Next, Atomic!Damage

LEMMA PowerLossLoses ==
    ASSUME TypeOK, PowerLoss
    PROVE  Atomic!Next
<1>1. {t \in Thread : ProcessOf[t] \in Process} = Thread
  BY ProcessOfAssumption
<1>2. Atomic!Abort(Thread)
  BY <1>1, EndsAreAborts DEF PowerLoss, Restart
<1>3. QED
  BY <1>2 DEF PowerLoss, Atomic!Next, Atomic!PowerLoss

LEMMA RefinesInit == Init => Atomic!Init
<1> SUFFICES ASSUME Init PROVE Atomic!Init
  OBVIOUS
<1>1. /\ requestOf = [t \in Thread |-> Atomic!NoCall]
      /\ phaseOf = [t \in Thread |-> "none"]
  BY DEF Init, requestOf, phaseOf, Atomic!NoCall, Atomic!NoGen, NoGen
<1>2. QED
  BY <1>1 DEF Init, Atomic!Init, Atomic!Missing, Atomic!Unreadable, Atomic!Holding,
              Missing, Unreadable, Holding

LEMMA RefinesNext ==
    /\ TypeOK /\ LockInv /\ CallsFit /\ DurableInv /\ ExpectationHolds /\ DraftsMerge
    /\ [Next]_vars
    => [Atomic!Next]_(Atomic!vars)
<1> SUFFICES ASSUME TypeOK, LockInv, CallsFit, DurableInv, ExpectationHolds, DraftsMerge,
                    [Next]_vars
             PROVE  [Atomic!Next]_(Atomic!vars)
  OBVIOUS
<1>1. ASSUME NEW t \in Thread, Call(t) PROVE [Atomic!Next]_(Atomic!vars)
  BY <1>1, CallsBegin
<1>2. ASSUME NEW t \in Thread, Step(t) PROVE [Atomic!Next]_(Atomic!vars)
  BY <1>2, ReadsStutter, ChecksRefuse, ReturnsReturn, PublishPuts DEF Step
<1>3. ASSUME NEW t \in Thread, Error(t) PROVE [Atomic!Next]_(Atomic!vars)
  <2>1. CASE op[t] \in Asking
    <3>1. \A u \in Thread : requestOf'[u] = requestOf[u] /\ phaseOf'[u] = phaseOf[u]
      BY <1>3, <2>1 DEF Error, Goto, TypeOK, requestOf, phaseOf
    <3>2. QED
      BY <1>3, <3>1, Stutters DEF Error
  <2>2. CASE op[t] \notin Asking
    BY <1>3, <2>2, EndsFail DEF Error
  <2>3. QED
    BY <2>1, <2>2
<1>4. ASSUME NEW t \in Thread, SyncError(t) PROVE [Atomic!Next]_(Atomic!vars)
  BY <1>4, EndsFail DEF SyncError
<1>5. ASSUME NEW p \in Process, Crash(p) PROVE [Atomic!Next]_(Atomic!vars)
  BY <1>5, EndsFail DEF Crash, Restart
<1>6. CASE UNCHANGED vars
  BY <1>6 DEF vars, Atomic!vars, requestOf, phaseOf
<1>7. QED
  BY <1>1, <1>2, <1>3, <1>4, <1>5, <1>6, DamageDamages, PowerLossLoses DEF Next, Environment

(* Every behaviour of the cache is one of the atomic whitelist: a writing   *)
(* call takes effect when os.replace() publishes its file, or is refused    *)
(* when it sees another generation than the one expected; whatever else a   *)
(* process does between its locks cannot be told from doing nothing.        *)
THEOREM CacheIsAtomic == Spec => ImplementsAtomicWhitelist
BY RefinesInit, RefinesNext, Invariance, WritesInvariance, PTL
   DEF Spec, ImplementsAtomicWhitelist, Atomic!Spec
=============================================================================
