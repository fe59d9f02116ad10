-------------------------- MODULE AtomicWhitelist --------------------------
(***************************************************************************)
(* What the methods of DomainCache that write promise to their callers: a  *)
(* whitelist on which a call takes effect at one instant between its       *)
(* beginning and its end, whatever else is going on.  add() merges, and    *)
(* replace() is a compare-and-set on the generation its caller has seen.   *)
(* A call that raises may or may not have taken effect; one that returns   *)
(* has, and its effect outlives a power loss.                              *)
(***************************************************************************)
EXTENDS Integers

CONSTANTS Thread, Domain

VARIABLES
    file,       \* generation and contents of the whitelist
    lastGen,    \* the last generation given out
    survivors,  \* what a power loss may leave
    request,    \* per thread: the call it is in
    phase       \* per thread: how far that call has come

vars == <<file, lastGen, survivors, request, phase>>

NoGen      == -1
Missing    == 0
Unreadable == [ok |-> FALSE, set |-> {}]
Holding(S) == [ok |-> TRUE, set |-> S]
NoCall     == [op |-> "none", arg |-> {}, expect |-> NoGen]

Init ==
    /\ \/ file = [gen |-> Missing, data |-> Unreadable]
       \/ \E S \in SUBSET Domain : file = [gen |-> 1, data |-> Holding(S)]
    /\ lastGen = file.gen
    /\ survivors = {file}
    /\ request = [t \in Thread |-> NoCall]
    /\ phase = [t \in Thread |-> "none"]

Set(t, r, p) ==
    /\ request' = [request EXCEPT ![t] = r]
    /\ phase' = [phase EXCEPT ![t] = p]

Begin(t) ==
    /\ phase[t] = "none"
    /\ \E S \in SUBSET Domain :
          \/ Set(t, [op |-> "add", arg |-> S, expect |-> NoGen], "begun")
          \/ \E e \in {NoGen} \cup Missing .. lastGen :
                Set(t, [op |-> "replace", arg |-> S, expect |-> e], "begun")
    /\ UNCHANGED <<file, lastGen, survivors>>

(* A new version, which may not outlive a power loss yet.                   *)
Put(S) ==
    /\ lastGen' = lastGen + 1
    /\ file' = [gen |-> lastGen + 1, data |-> Holding(S)]
    /\ survivors' = survivors \cup {file'}

(* The contents of an unreadable whitelist are anyone's guess.              *)
Merge(t) ==
    /\ phase[t] = "begun"
    /\ request[t].op = "add"
    /\ \E old \in SUBSET Domain :
          /\ file.data.ok => old = file.data.set
          /\ Put(old \cup request[t].arg)
    /\ Set(t, request[t], "done")

Swap(t) ==
    /\ phase[t] = "begun"
    /\ request[t].op = "replace"
    /\ request[t].expect \in {NoGen, file.gen}
    /\ Put(request[t].arg)
    /\ Set(t, request[t], "done")

Refuse(t) ==
    /\ phase[t] = "begun"
    /\ request[t].op = "replace"
    /\ request[t].expect \notin {NoGen, file.gen}
    /\ Set(t, request[t], "refused")
    /\ UNCHANGED <<file, lastGen, survivors>>

(* A call that has taken effect returns once its effect is durable.         *)
Return(t) ==
    /\ phase[t] \in {"done", "refused"}
    /\ survivors' = IF phase[t] = "done" THEN {file} ELSE survivors
    /\ Set(t, NoCall, "none")
    /\ UNCHANGED <<file, lastGen>>

(* Calls end with an exception or with their process.                       *)
Abort(T) ==
    /\ request' = [t \in Thread |-> IF t \in T THEN NoCall ELSE request[t]]
    /\ phase' = [t \in Thread |-> IF t \in T THEN "none" ELSE phase[t]]

Fail == (\E T \in SUBSET Thread : Abort(T)) /\ UNCHANGED <<file, lastGen, survivors>>

(* The whitelist is removed or garbled, except under a call that has just   *)
(* taken effect.                                                            *)
Damage ==
    /\ \A t \in Thread : phase[t] \notin {"done", "refused"}
    /\ \/ file' = [gen |-> Missing, data |-> Unreadable] /\ UNCHANGED lastGen
       \/ file' = [gen |-> lastGen + 1, data |-> Unreadable] /\ lastGen' = lastGen + 1
    /\ survivors' = {file'}
    /\ UNCHANGED <<request, phase>>

PowerLoss ==
    /\ \E f \in survivors : file' = f /\ survivors' = {f}
    /\ Abort(Thread)
    /\ UNCHANGED lastGen

Next ==
    \/ \E t \in Thread : Begin(t) \/ Merge(t) \/ Swap(t) \/ Refuse(t) \/ Return(t)
    \/ Fail \/ Damage \/ PowerLoss

Spec == Init /\ [][Next]_vars
=============================================================================
