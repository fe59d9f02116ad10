------------------------------ MODULE MessageApi ------------------------------
(***************************************************************************)
(* The mailbox part of the web API (/messages and /sources of              *)
(* src/src/api_server.py, with the mail calls of src/src/jmap_client.py)   *)
(* and the janitor, src/src/email_janitor.py, at work on the one account   *)
(* that all addresses share.                                               *)
(*                                                                         *)
(* A request checks that a message is its address's, and then changes,     *)
(* deletes or downloads it by its id, in a call of its own.  Meanwhile     *)
(* other requests and the janitor delete messages, and an administrator    *)
(* turns the system to another server, on which the same id may be another *)
(* message.                                                                *)
(***************************************************************************)
EXTENDS Integers, FiniteSets, FiniteSetsExt

CONSTANTS
    Request,    \* the requests served at a time
    Janitor,    \* the janitor's process
    Crews,      \* the sets of requests, with or without the janitor, at work
    Address,    \* the addresses
    Server,     \* the Stalwart servers
    Id,         \* the ids a server gives to messages, in the order of a list
    Recipients, \* per server and id: the addresses the message is for
    Alike,      \* <<a, b>>: Email/query for a also finds messages for b
    Limit,      \* the setting message_limit
    Batch,      \* the janitor's _BATCH
    None        \* no address, no server, no id

Verb == {"read", "seen", "delete", "download"}

ASSUME MessageAssumption ==
    /\ Crews \subseteq SUBSET (Request \cup {Janitor})
    /\ Id \subseteq Nat /\ IsFiniteSet(Id)
    /\ Recipients \in [Server -> [Id -> SUBSET Address]]
    /\ Alike \subseteq Address \X Address
    /\ Limit \in Nat \ {0} /\ Batch \in Nat \ {0}
    /\ None \notin Address \cup Server \cup Id

VARIABLES
    crew,       \* who is at work; it does not change
    mail,       \* per server and id: no message, a new one, or one with $seen
    server,     \* the server of the configuration and of the client
    pc,         \* per request: next step
    verb,       \* per request: what it is for
    addr,       \* per request: the address of its token
    id,         \* per request: the message it names
    held,       \* per request: the server of its configuration and client
    blob,       \* per request: the server and the message it downloads from
    closed,     \* per request: _closed of its stream
    open,       \* per request: the resources of streams it has not closed
    jpc,        \* the janitor: next step
    jserver,    \* the janitor: the server of the configuration it has loaded
    cutoff,     \* the janitor: the messages received there before its cut-off
    batch       \* the janitor: the ids it has been given

request == <<pc, verb, addr, id, held, blob, closed, open>>
janitor == <<jpc, jserver, cutoff, batch>>
vars    == <<crew, mail, server, request, janitor>>

-----------------------------------------------------------------------------
NoBlob == <<None, None>>

TypeOK ==
    /\ crew \in Crews
    /\ mail \in [Server -> [Id -> {"none", "new", "seen"}]]
    /\ server \in Server
    /\ pc \in [Request -> {"idle", "check", "act", "stream", "background"}]
    /\ verb \in [Request -> Verb \cup {"none"}]
    /\ addr \in [Request -> Address \cup {None}]
    /\ id \in [Request -> Id \cup {None}]
    /\ held \in [Request -> Server \cup {None}]
    /\ blob \in [Request -> (Server \X Id) \cup {NoBlob}]
    /\ closed \in [Request -> BOOLEAN]
    /\ open \in [Request -> Int]
    /\ jpc \in {"off", "query", "destroy"}
    /\ jserver \in Server \cup {None}
    /\ cutoff \subseteq Id /\ batch \subseteq Id

Init ==
    /\ crew \in Crews
    /\ mail = [s \in Server |->
                 [i \in Id |-> IF Recipients[s][i] = {} THEN "none" ELSE "new"]]
    /\ server \in Server
    /\ pc = [r \in Request |-> "idle"]
    /\ verb = [r \in Request |-> "none"]
    /\ addr = [r \in Request |-> None]
    /\ id = [r \in Request |-> None]
    /\ held = [r \in Request |-> None]
    /\ blob = [r \in Request |-> NoBlob]
    /\ closed = [r \in Request |-> FALSE]
    /\ open = [r \in Request |-> 0]
    /\ jpc = "off" /\ jserver = None
    /\ cutoff = {} /\ batch = {}

Present(s)      == {i \in Id : mail[s][i] # "none"}
Without(s, gone) == [mail EXCEPT ![s] = [i \in Id |-> IF i \in gone THEN "none" ELSE @[i]]]

-----------------------------------------------------------------------------
(* A request that names a message.                                          *)
Goto(r, label) == pc' = [pc EXCEPT ![r] = label]

(* The answer, or an exception that becomes 404 or 502.                      *)
End(r) ==
    /\ Goto(r, "idle")
    /\ verb' = [verb EXCEPT ![r] = "none"]
    /\ addr' = [addr EXCEPT ![r] = None]
    /\ id' = [id EXCEPT ![r] = None]
    /\ held' = [held EXCEPT ![r] = None]
    /\ blob' = [blob EXCEPT ![r] = NoBlob]
    /\ closed' = [closed EXCEPT ![r] = FALSE]

(* bearer_address() reads the address in the token; mail_runtime() gives one  *)
(* configuration and one client for all that follows.                       *)
Begin(r) ==
    /\ pc[r] = "idle"
    /\ \E a \in Address, v \in Verb, i \in Id :
          /\ addr' = [addr EXCEPT ![r] = a]
          /\ verb' = [verb EXCEPT ![r] = v]
          /\ id' = [id EXCEPT ![r] = i]
    /\ held' = [held EXCEPT ![r] = server]
    /\ Goto(r, "check")
    /\ UNCHANGED <<mail, server, blob, closed, open, janitor>>

(* message_for_address(): the message is there and one of its recipients is   *)
(* the address.                                                             *)
Owned(r) ==
    /\ id[r] \in Present(held[r])
    /\ addr[r] \in Recipients[held[r]][id[r]]

Check(r) ==
    /\ pc[r] = "check" /\ Owned(r)
    /\ IF verb[r] = "read" THEN End(r)
       ELSE Goto(r, "act") /\ UNCHANGED <<verb, addr, id, held, blob, closed>>
    /\ UNCHANGED <<mail, server, open, janitor>>

(* 404: it is not, or the settings have come to refuse the address since.    *)
NotFound(r) ==
    /\ pc[r] = "check"
    /\ End(r)
    /\ UNCHANGED <<mail, server, open, janitor>>

(* Mutant: app.state.jmap is read again after the check.                     *)
ClientOfNow(r) == server

(* The client a request makes its second call with.                          *)
Client(r) == held[r]

(* Email/set.  The server does it or not; the answer is 502 if the id is not *)
(* among those it says it has done, or if its answer is lost.                *)
SetSeen(r) ==
    /\ pc[r] = "act" /\ verb[r] = "seen"
    /\ \E flag \in {"new", "seen"} :
          mail' = [mail EXCEPT ![Client(r)][id[r]] = IF @ = "none" THEN @ ELSE flag]
    /\ End(r)
    /\ UNCHANGED <<server, open, janitor>>

Delete(r) ==
    /\ pc[r] = "act" /\ verb[r] = "delete"
    /\ mail' = Without(Client(r), {id[r]})
    /\ End(r)
    /\ UNCHANGED <<server, open, janitor>>

CallFails(r) ==
    /\ pc[r] \in {"check", "act"}
    /\ End(r)
    /\ UNCHANGED <<mail, server, open, janitor>>

(* download_blob(): the client and the response are entered on an ExitStack,  *)
(* which the stream takes over; a failure before that closes it.             *)
OpenStream(r) ==
    /\ pc[r] = "act" /\ verb[r] = "download"
    /\ blob' = [blob EXCEPT ![r] = <<Client(r), id[r]>>]
    /\ open' = [open EXCEPT ![r] = @ + 1]
    /\ Goto(r, "stream")
    /\ UNCHANGED <<mail, server, verb, addr, id, held, closed, janitor>>

(* Mutant: close() does not look at _closed.                                 *)
LeftOpenAgain(r) == open[r] - 1

(* _BlobStream.close(): what is open after it.                               *)
LeftOpen(r) == IF closed[r] THEN open[r] ELSE open[r] - 1
Close(r)    == open' = [open EXCEPT ![r] = LeftOpen(r)]

(* The last chunk: __next__() closes, and the background task comes next.    *)
Exhausted(r) ==
    /\ pc[r] = "stream"
    /\ Close(r)
    /\ closed' = [closed EXCEPT ![r] = TRUE]
    /\ Goto(r, "background")
    /\ UNCHANGED <<mail, server, verb, addr, id, held, blob, janitor>>

(* Stalwart breaks off: __next__() closes and raises; no background task.    *)
StreamFails(r) ==
    /\ pc[r] = "stream"
    /\ Close(r)
    /\ End(r)
    /\ UNCHANGED <<mail, server, janitor>>

(* The browser goes away: only the background task is left to close.         *)
Disconnect(r) ==
    /\ pc[r] = "stream"
    /\ Goto(r, "background")
    /\ UNCHANGED <<mail, server, verb, addr, id, held, blob, closed, open, janitor>>

Background(r) ==
    /\ pc[r] = "background"
    /\ Close(r)
    /\ End(r)
    /\ UNCHANGED <<mail, server, janitor>>

-----------------------------------------------------------------------------
(* The janitor: run() loads the configuration and computes the cut-off once. *)
StartJanitor ==
    /\ jpc = "off"
    /\ jpc' = "query"
    /\ jserver' = server
    /\ cutoff' \in SUBSET Id
    /\ UNCHANGED <<mail, server, request, batch>>

(* Mutants: the configuration is read again for each call; the ids are        *)
(* asked for once.                                                          *)
ServingNow == server
FoundBefore == cutoff

(* The server the janitor calls, and what Email/query finds there.           *)
Serving == jserver
Found   == Present(Serving) \cap cutoff

Rest ==
    /\ jpc' = "off" /\ jserver' = None
    /\ cutoff' = {} /\ batch' = {}

(* The first batch; if there is none, the janitor is done.                   *)
Query ==
    /\ jpc = "query" /\ Found # {}
    /\ \E size \in 1 .. Batch : batch' \in kSubset(size, Found)
    /\ jpc' = "destroy"
    /\ UNCHANGED <<mail, server, request, jserver, cutoff>>

Done ==
    /\ jpc = "query" /\ Found = {}
    /\ Rest
    /\ UNCHANGED <<mail, server, request>>

(* Email/set destroys some of the batch, none at worst; and around again.    *)
DestroyThese(gone) ==
    /\ jpc = "destroy"
    /\ mail' = Without(Serving, gone)
    /\ jpc' = "query" /\ batch' = {}
    /\ UNCHANGED <<server, request, jserver, cutoff>>

Destroy     == \E gone \in SUBSET batch : DestroyThese(gone)
DestroySome == \E gone \in (SUBSET batch) \ {{}} : DestroyThese(gone)

(* Any exception; and a query answered with "error", which reads as no ids.   *)
JanitorFails ==
    /\ jpc # "off"
    /\ Rest
    /\ UNCHANGED <<mail, server, request>>

(* The administrator turns the system to another server.                     *)
SwitchServer ==
    /\ server' \in Server \ {server}
    /\ UNCHANGED <<mail, request, janitor>>

Step(r) ==
    \/ Begin(r) \/ Check(r) \/ NotFound(r) \/ SetSeen(r) \/ Delete(r) \/ CallFails(r)
    \/ OpenStream(r) \/ Exhausted(r) \/ StreamFails(r) \/ Disconnect(r) \/ Background(r)

JanitorStep == StartJanitor \/ Query \/ Done \/ Destroy \/ JanitorFails

Next ==
    /\ \/ \E r \in crew \ {Janitor} : Step(r)
       \/ Janitor \in crew /\ JanitorStep
       \/ SwitchServer
    /\ UNCHANGED crew

(* Each call of the janitor returns or times out, and Stalwart destroys at   *)
(* least one message of a batch if it is asked again and again.              *)
Spec ==
    /\ Init /\ [][Next]_vars
    /\ WF_vars((Query \/ Done \/ Destroy) /\ UNCHANGED crew)
    /\ SF_vars(DestroySome /\ UNCHANGED crew)

-----------------------------------------------------------------------------
(* The pages of GET /messages, for a mailbox that stands still.              *)
Mine(a, s)    == {i \in Present(s) : a \in Recipients[s][i]}
Matches(a, s) == {i \in Present(s) : \E b \in Recipients[s][i] : b = a \/ <<a, b>> \in Alike}

Position(i, S)     == Cardinality({j \in S : j < i})
(* Mutant: the position of a page is page * limit.                          *)
PageRowsAfter(a, s, p) == {i \in Matches(a, s) : Position(i, Matches(a, s)) \div Limit = p}

PageRows(a, s, p)  == {i \in Matches(a, s) : Position(i, Matches(a, s)) \div Limit = p - 1}
Shown(a, s, p)     == PageRows(a, s, p) \cap Mine(a, s)

SafeTotal(a, s, p) ==
    Cardinality(Matches(a, s)) - Cardinality(PageRows(a, s, p) \ Shown(a, s, p))
LastPage(total)    == Max({1, (total + Limit - 1) \div Limit})
HasNext(a, s, p)   == p < LastPage(SafeTotal(a, s, p))

(* The pages one comes to from the first by following hydra:next.            *)
Reached(a, s) ==
    {p \in 1 .. Cardinality(Id) + 1 : \A q \in 1 .. p - 1 : HasNext(a, s, q)}
Walked(a, s) == UNION {Shown(a, s, p) : p \in Reached(a, s)}

-----------------------------------------------------------------------------
(* Properties.                                                              *)

(* A request changes, deletes or downloads only a message whose recipient    *)
(* its address is, on the server where it is changed: "a guessed message ID  *)
(* cannot cross recipient scope", even if the server in use has changed       *)
(* between the check and the call.                                          *)
OwnersOnly ==
    [][\A r \in Request :
         pc[r] = "act" /\ pc'[r] # "act" =>
            /\ \A s \in Server, i \in Id :
                  mail'[s][i] # mail[s][i] => addr[r] \in Recipients[s][i]
            /\ blob'[r] # NoBlob => addr[r] \in Recipients[blob'[r][1]][blob'[r][2]]
      ]_vars

(* Whether a download ends, breaks off or is cancelled, its connection to    *)
(* Stalwart is closed, and closed once.                                     *)
StreamsClosed ==
    \A r \in Request : open[r] >= 0 /\ (pc[r] = "idle" => open[r] = 0)

(* The janitor destroys only messages that were past their retention when it *)
(* started, on the server for which that was found.                         *)
JanitorSparesNew ==
    [][jpc = "destroy" /\ jpc' = "query" =>
         \A s \in Server, i \in Id :
            mail'[s][i] # mail[s][i] => s = jserver /\ i \in cutoff]_vars

(* The janitor, which asks for the first batch again and again, comes to an  *)
(* end whatever requests delete meanwhile, if Stalwart never refuses a whole *)
(* batch for ever.                                                          *)
JanitorEnds == (jpc # "off") ~> (jpc = "off")

(* If a query finds only the address's own messages, who follows hydra:next  *)
(* from the first page is shown all of them, and every page gives their      *)
(* number as the total.                                                     *)
PagesShowAll ==
    \A a \in Address, s \in Server :
        Matches(a, s) = Mine(a, s) =>
            /\ Walked(a, s) = Mine(a, s)
            /\ \A p \in Reached(a, s) : SafeTotal(a, s, p) = Cardinality(Mine(a, s))
=============================================================================
