--------------------------- MODULE MessageApiProofs ---------------------------
(* Proofs about MessageApi, for every set of requests, servers, addresses    *)
(* and messages, every distribution of the messages to addresses, and every  *)
(* size of a batch.                                                         *)
EXTENDS MessageApi, FiniteSetTheorems, TLAPS

USE DEF request, janitor

(* A request past the check holds a server on which its message is its       *)
(* address's.                                                               *)
Checked ==
    \A r \in Request : pc[r] = "act" => addr[r] \in Recipients[held[r]][id[r]]

(* What a request says of itself while it is served.                         *)
Served ==
    \A r \in Request :
        pc[r] # "idle" => addr[r] \in Address /\ id[r] \in Id /\ held[r] \in Server

(* One response is open from the start of a download to its only close.      *)
Balanced ==
    \A r \in Request :
        /\ closed[r] => pc[r] = "background"
        /\ open[r] = IF pc[r] = "stream" \/ (pc[r] = "background" /\ ~closed[r])
                     THEN 1 ELSE 0

(* A batch was found among what was received before the cut-off.             *)
Batched ==
    /\ batch \subseteq cutoff /\ (jpc # "destroy" => batch = {})
    /\ jpc # "off" => jserver \in Server

-----------------------------------------------------------------------------
LEMMA Moves ==
    ASSUME [Next]_vars, crew \in Crews
    PROVE  \/ \E r \in Request : Step(r) /\ UNCHANGED crew
           \/ JanitorStep /\ UNCHANGED crew
           \/ SwitchServer /\ UNCHANGED crew
           \/ UNCHANGED vars
BY MessageAssumption DEF Next

LEMMA TypeInit == Init => TypeOK /\ Served /\ Batched
<1> SUFFICES ASSUME Init PROVE TypeOK /\ Served /\ Batched
  OBVIOUS
<1>1. /\ mail \in [Server -> [Id -> {"none", "new", "seen"}]]
      /\ closed \in [Request -> BOOLEAN] /\ open \in [Request -> Int]
  BY DEF Init
<1>2. Served /\ Batched
  BY DEF Init, Served, Batched
<1>3. QED
  BY <1>1, <1>2 DEF Init, TypeOK

LEMMA WithoutType ==
    ASSUME TypeOK, NEW s \in Server, NEW gone \in SUBSET Id, mail' = Without(s, gone)
    PROVE  /\ mail' \in [Server -> [Id -> {"none", "new", "seen"}]]
           /\ \A q \in Server, i \in Id :
                 mail'[q][i] # mail[q][i] => q = s /\ i \in gone
<1>1. mail'[s] = [i \in Id |-> IF i \in gone THEN "none" ELSE mail[s][i]]
  BY DEF TypeOK, Without
<1>2. \A q \in Server : q # s => mail'[q] = mail[q]
  BY DEF TypeOK, Without
<1>3. mail' \in [Server -> [Id -> {"none", "new", "seen"}]]
  BY DEF TypeOK, Without
<1>4. QED
  BY <1>1, <1>2, <1>3

LEMMA EndType ==
    ASSUME TypeOK, Served, NEW r \in Request, End(r)
    PROVE  /\ pc' \in [Request -> {"idle", "check", "act", "stream", "background"}]
           /\ verb' \in [Request -> Verb \cup {"none"}]
           /\ addr' \in [Request -> Address \cup {None}]
           /\ id' \in [Request -> Id \cup {None}]
           /\ held' \in [Request -> Server \cup {None}]
           /\ blob' \in [Request -> (Server \X Id) \cup {NoBlob}]
           /\ closed' \in [Request -> BOOLEAN]
           /\ Served'
<1>1. /\ pc' \in [Request -> {"idle", "check", "act", "stream", "background"}]
      /\ verb' \in [Request -> Verb \cup {"none"}]
      /\ addr' \in [Request -> Address \cup {None}]
      /\ id' \in [Request -> Id \cup {None}]
      /\ held' \in [Request -> Server \cup {None}]
      /\ blob' \in [Request -> (Server \X Id) \cup {NoBlob}]
  BY DEF TypeOK, End, Goto
<1>2. closed' \in [Request -> BOOLEAN]
  BY DEF TypeOK, End
<1>3. Served'
  BY DEF TypeOK, Served, End, Goto
<1>4. QED
  BY <1>1, <1>2, <1>3

LEMMA TypeNext ==
    TypeOK /\ Served /\ Batched /\ [Next]_vars => (TypeOK /\ Served /\ Batched)'
<1> SUFFICES ASSUME TypeOK, Served, Batched, [Next]_vars
             PROVE  (TypeOK /\ Served /\ Batched)'
  OBVIOUS
<1>1. ASSUME NEW r \in Request, Step(r), UNCHANGED crew PROVE (TypeOK /\ Served)'
  <2>1. CASE Begin(r)
    BY <1>1, <2>1 DEF Begin, Goto, TypeOK, Served
  <2>2. CASE Check(r)
    <3>1. CASE verb[r] = "read"
      BY <1>1, <2>2, <3>1, EndType DEF Check, TypeOK
    <3>2. CASE verb[r] # "read"
      BY <1>1, <2>2, <3>2 DEF Check, Goto, TypeOK, Served
    <3>3. QED
      BY <3>1, <3>2
  <2>3. CASE NotFound(r)
    BY <1>1, <2>3, EndType DEF NotFound, TypeOK
  <2>4. CASE SetSeen(r)
    <3>1. PICK flag \in {"new", "seen"} :
             mail' = [mail EXCEPT ![held[r]][id[r]] = IF @ = "none" THEN @ ELSE flag]
      BY <2>4 DEF SetSeen, Client
    <3>2. mail' \in [Server -> [Id -> {"none", "new", "seen"}]]
      BY <2>4, <3>1 DEF SetSeen, Served, TypeOK
    <3>3. QED
      BY <1>1, <2>4, <3>2, EndType DEF SetSeen, TypeOK
  <2>5. CASE Delete(r)
    <3>1. held[r] \in Server /\ {id[r]} \in SUBSET Id
      BY <2>5 DEF Delete, Served
    <3>2. QED
      BY <1>1, <2>5, <3>1, EndType, WithoutType DEF Delete, Client, TypeOK
  <2>6. CASE CallFails(r)
    BY <1>1, <2>6, EndType DEF CallFails, TypeOK
  <2>7. CASE OpenStream(r)
    BY <1>1, <2>7 DEF OpenStream, Client, Goto, TypeOK, Served
  <2>8. ASSUME Close(r) PROVE open' \in [Request -> Int]
    BY <2>8 DEF Close, LeftOpen, TypeOK
  <2>9. CASE Exhausted(r)
    <3>1. closed' \in [Request -> BOOLEAN]
      BY <2>9 DEF Exhausted, TypeOK
    <3>2. QED
      BY <1>1, <2>8, <2>9, <3>1 DEF Exhausted, Goto, TypeOK, Served
  <2>10. CASE StreamFails(r)
    BY <1>1, <2>8, <2>10, EndType DEF StreamFails, TypeOK
  <2>11. CASE Disconnect(r)
    BY <1>1, <2>11 DEF Disconnect, Goto, TypeOK, Served
  <2>12. CASE Background(r)
    BY <1>1, <2>8, <2>12, EndType DEF Background, TypeOK
  <2>13. QED
    BY <1>1, <2>1, <2>2, <2>3, <2>4, <2>5, <2>6, <2>7, <2>9, <2>10, <2>11, <2>12 DEF Step
<1>2. ASSUME NEW r \in Request, Step(r) PROVE Batched'
  BY <1>2 DEF Step, Begin, Check, NotFound, SetSeen, Delete, CallFails, OpenStream,
              Exhausted, StreamFails, Disconnect, Background, Batched
<1>3. ASSUME JanitorStep, UNCHANGED crew PROVE (TypeOK /\ Served /\ Batched)'
  <2>1. CASE StartJanitor
    BY <1>3, <2>1 DEF StartJanitor, TypeOK, Served, Batched
  <2>2. CASE Query
    <3>1. batch' \subseteq Found
      BY <2>2 DEF Query, kSubset
    <3>2. batch' \subseteq Id /\ batch' \subseteq cutoff
      BY <3>1 DEF Found, Present
    <3>3. QED
      BY <1>3, <2>2, <3>2 DEF Query, TypeOK, Served, Batched
  <2>3. CASE Done \/ JanitorFails
    BY <1>3, <2>3 DEF Done, JanitorFails, Rest, TypeOK, Served, Batched
  <2>4. CASE Destroy
    <3>1. PICK gone \in SUBSET batch : DestroyThese(gone)
      BY <2>4 DEF Destroy
    <3>2. jserver \in Server /\ gone \in SUBSET Id
      BY <3>1 DEF DestroyThese, Batched, TypeOK
    <3>3. QED
      BY <1>3, <3>1, <3>2, WithoutType DEF DestroyThese, Serving, TypeOK, Served, Batched
  <2>5. QED
    BY <1>3, <2>1, <2>2, <2>3, <2>4 DEF JanitorStep
<1>4. CASE SwitchServer /\ UNCHANGED crew
  BY <1>4 DEF SwitchServer, TypeOK, Served, Batched
<1>5. CASE UNCHANGED vars
  BY <1>5 DEF vars, TypeOK, Served, Batched
<1>6. QED
  BY <1>1, <1>2, <1>3, <1>4, <1>5, Moves DEF TypeOK

-----------------------------------------------------------------------------
LEMMA CheckedNext == TypeOK /\ Checked /\ [Next]_vars => Checked'
<1> SUFFICES ASSUME TypeOK, Checked, [Next]_vars PROVE Checked'
  OBVIOUS
<1>1. ASSUME NEW r \in Request, Step(r) PROVE Checked'
  <2>1. CASE Check(r)
    <3>1. pc[r] = "check" /\ Owned(r)
      BY <2>1 DEF Check
    <3>2. CASE verb[r] = "read"
      BY <2>1, <3>2 DEF Check, End, Goto, TypeOK, Checked
    <3>3. CASE verb[r] # "read"
      BY <2>1, <3>1, <3>3 DEF Check, Owned, Goto, TypeOK, Checked
    <3>4. QED
      BY <3>2, <3>3
  <2>2. CASE Begin(r)
    <3>1. pc' = [pc EXCEPT ![r] = "check"]
      BY <2>2 DEF Begin, Goto
    <3>2. \A u \in Request : u # r =>
             addr'[u] = addr[u] /\ id'[u] = id[u] /\ held'[u] = held[u]
      BY <2>2 DEF Begin, TypeOK
    <3>3. QED
      BY <3>1, <3>2 DEF TypeOK, Checked
  <2>3. ASSUME End(r) PROVE Checked'
    BY <2>3 DEF End, Goto, TypeOK, Checked
  <2>4. CASE OpenStream(r) \/ Exhausted(r) \/ Disconnect(r)
    BY <2>4 DEF OpenStream, Exhausted, Disconnect, Goto, TypeOK, Checked
  <2>5. QED
    BY <1>1, <2>1, <2>2, <2>3, <2>4
       DEF Step, NotFound, SetSeen, Delete, CallFails, StreamFails, Background
<1>2. CASE UNCHANGED request
  BY <1>2 DEF Checked
<1>3. QED
  BY <1>1, <1>2, Moves
     DEF TypeOK, JanitorStep, StartJanitor, Query, Done, Destroy, DestroyThese, JanitorFails,
         Rest, SwitchServer, vars

LEMMA BalancedNext == TypeOK /\ Balanced /\ [Next]_vars => Balanced'
<1> SUFFICES ASSUME TypeOK, Balanced, [Next]_vars PROVE Balanced'
  OBVIOUS
<1>1. ASSUME NEW r \in Request, Step(r) PROVE Balanced'
  <2>1. CASE Begin(r) \/ Check(r) \/ NotFound(r) \/ SetSeen(r) \/ Delete(r) \/ CallFails(r)
    <3>1. /\ pc[r] \in {"idle", "check", "act"} /\ pc'[r] \in {"idle", "check", "act"}
          /\ \A u \in Request : u # r => pc'[u] = pc[u] /\ closed'[u] = closed[u]
          /\ UNCHANGED open /\ (closed'[r] => closed[r])
      BY <2>1 DEF Begin, Check, NotFound, SetSeen, Delete, CallFails, End, Goto, TypeOK
    <3>2. QED
      BY <3>1 DEF Balanced
  <2>2. CASE OpenStream(r)
    BY <2>2 DEF OpenStream, Goto, TypeOK, Balanced
  <2>3. CASE Exhausted(r)
    BY <2>3 DEF Exhausted, Close, LeftOpen, Goto, TypeOK, Balanced
  <2>4. CASE StreamFails(r) \/ Background(r)
    BY <2>4 DEF StreamFails, Background, Close, LeftOpen, End, Goto, TypeOK, Balanced
  <2>5. CASE Disconnect(r)
    BY <2>5 DEF Disconnect, Goto, TypeOK, Balanced
  <2>6. QED
    BY <1>1, <2>1, <2>2, <2>3, <2>4, <2>5 DEF Step
<1>2. CASE UNCHANGED request
  BY <1>2 DEF Balanced
<1>3. QED
  BY <1>1, <1>2, Moves
     DEF TypeOK, JanitorStep, StartJanitor, Query, Done, Destroy, DestroyThese, JanitorFails,
         Rest, SwitchServer, vars

LEMMA InvInit == Init => Checked /\ Balanced
BY DEF Init, Checked, Balanced

LEMMA Invariance == Spec => [](TypeOK /\ Served /\ Batched /\ Checked)
BY TypeInit, TypeNext, InvInit, CheckedNext, PTL DEF Spec

-----------------------------------------------------------------------------
(* Every variable keeps its type.                                           *)
THEOREM TypeCorrect == Spec => []TypeOK
BY Invariance, PTL

(* However a download ends, its connection is closed, and only once.         *)
THEOREM DownloadsAreClosed == Spec => []StreamsClosed
<1>1. Balanced => StreamsClosed
  BY DEF Balanced, StreamsClosed
<1>2. QED
  BY <1>1, Invariance, InvInit, BalancedNext, PTL DEF Spec

LEMMA OwnersStep ==
    ASSUME TypeOK, Served, Checked, [Next]_vars,
           NEW r \in Request, pc[r] = "act", pc'[r] # "act"
    PROVE  /\ \A s \in Server, i \in Id :
                 mail'[s][i] # mail[s][i] => addr[r] \in Recipients[s][i]
           /\ blob'[r] # NoBlob => addr[r] \in Recipients[blob'[r][1]][blob'[r][2]]
<1>1. /\ addr[r] \in Recipients[held[r]][id[r]]
      /\ held[r] \in Server /\ id[r] \in Id
  BY DEF Checked, Served
<1>2. PICK u \in Request : Step(u)
  BY Moves DEF TypeOK, JanitorStep, StartJanitor, Query, Done, Destroy, DestroyThese, JanitorFails,
               Rest, SwitchServer, vars
<1>3. u = r
  BY <1>2 DEF Step, Begin, Check, NotFound, SetSeen, Delete, CallFails, OpenStream, Exhausted,
              StreamFails, Disconnect, Background, End, Goto, TypeOK
<1>4. CASE SetSeen(r)
  <2>1. \A s \in Server, i \in Id :
           mail'[s][i] # mail[s][i] => s = held[r] /\ i = id[r]
    BY <1>1, <1>4 DEF SetSeen, Client, TypeOK
  <2>2. blob'[r] = NoBlob
    BY <1>4 DEF SetSeen, End, TypeOK
  <2>3. QED
    BY <1>1, <2>1, <2>2
<1>5. CASE Delete(r)
  <2>1. \A s \in Server, i \in Id :
           mail'[s][i] # mail[s][i] => s = held[r] /\ i \in {id[r]}
    BY <1>1, <1>5, WithoutType DEF Delete, Client
  <2>2. blob'[r] = NoBlob
    BY <1>5 DEF Delete, End, TypeOK
  <2>3. QED
    BY <1>1, <2>1, <2>2
<1>6. CASE CallFails(r)
  BY <1>6 DEF CallFails, End, TypeOK
<1>7. CASE OpenStream(r)
  <2>1. blob'[r] = <<held[r], id[r]>> /\ UNCHANGED mail
    BY <1>7 DEF OpenStream, Client, TypeOK
  <2>2. QED
    BY <1>1, <2>1
<1>8. QED
  BY <1>2, <1>3, <1>4, <1>5, <1>6, <1>7
     DEF Step, Begin, Check, NotFound, Exhausted, StreamFails, Disconnect, Background

(* "A guessed message ID cannot cross recipient scope", for any number of    *)
(* requests and whenever the server is changed.                             *)
THEOREM ScopeIsKept == Spec => OwnersOnly
<1> DEFINE Kept ==
      \A r \in Request :
         pc[r] = "act" /\ pc'[r] # "act" =>
            /\ \A s \in Server, i \in Id :
                  mail'[s][i] # mail[s][i] => addr[r] \in Recipients[s][i]
            /\ blob'[r] # NoBlob => addr[r] \in Recipients[blob'[r][1]][blob'[r][2]]
<1>1. TypeOK /\ Served /\ Checked /\ [Next]_vars => [Kept]_vars
  BY OwnersStep
<1>2. QED
  BY <1>1, Invariance, PTL DEF Spec, OwnersOnly

(* The janitor destroys nothing younger than its cut-off, and nothing on a   *)
(* server it did not ask.                                                   *)
THEOREM NewMailIsSpared == Spec => JanitorSparesNew
<1> DEFINE Spared ==
      jpc = "destroy" /\ jpc' = "query" =>
         \A s \in Server, i \in Id :
            mail'[s][i] # mail[s][i] => s = jserver /\ i \in cutoff
<1>1. ASSUME TypeOK, Batched, [Next]_vars, jpc = "destroy", jpc' = "query"
      PROVE  \A s \in Server, i \in Id :
                mail'[s][i] # mail[s][i] => s = jserver /\ i \in cutoff
  <2>1. Destroy
    BY <1>1, Moves
       DEF TypeOK, JanitorStep, StartJanitor, Query, Done, JanitorFails, Rest, SwitchServer, vars,
           Step, Begin, Check, NotFound, SetSeen, Delete, CallFails, OpenStream, Exhausted,
           StreamFails, Disconnect, Background
  <2>2. PICK gone \in SUBSET batch : DestroyThese(gone)
    BY <2>1 DEF Destroy
  <2>3. jserver \in Server /\ gone \in SUBSET Id /\ gone \subseteq cutoff
    BY <1>1, <2>2 DEF Batched, TypeOK
  <2>4. mail' = Without(jserver, gone)
    BY <2>2 DEF DestroyThese, Serving
  <2>5. QED
    BY <1>1, <2>3, <2>4, WithoutType
<1>2. TypeOK /\ Batched /\ [Next]_vars => [Spared]_vars
  BY <1>1
<1>3. QED
  BY <1>2, Invariance, PTL DEF Spec, JanitorSparesNew
-----------------------------------------------------------------------------
(* The pages.  Limit divides the positions of a mailbox into pages.          *)
LEMMA Division ==
    ASSUME NEW n \in Nat, NEW d \in Nat, d # 0
    PROVE  /\ n \div d \in Nat
           /\ d * (n \div d) <= n /\ n < d * (n \div d) + d
           /\ n \div d <= n
OBVIOUS

LEMMA Multiples ==
    ASSUME NEW x \in Int, NEW y \in Int, NEW d \in Nat, d # 0, d * x < d * y + d
    PROVE  x <= y
OBVIOUS

(* The page of a position is not behind the last one.                        *)
LEMMA PageExists ==
    ASSUME NEW k \in Nat, NEW n \in Nat, k < n
    PROVE  /\ LastPage(n) \in Nat
           /\ k \div Limit + 1 <= LastPage(n)
<1> DEFINE x == k \div Limit
           y == (n + Limit - 1) \div Limit
<1>1. Limit \in Nat /\ Limit # 0
  BY MessageAssumption
<1>2. x \in Nat /\ Limit * x <= k
  BY <1>1, Division
<1>3. n + Limit - 1 \in Nat
  BY <1>1
<1>4. y \in Nat /\ n + Limit - 1 < Limit * y + Limit
  BY <1>1, <1>3, Division
<1> HIDE DEF x, y
<1>5. Limit * (x + 1) < Limit * y + Limit
  <2>1. Limit * (x + 1) = Limit * x + Limit
    BY <1>1, <1>2
  <2>2. Limit * x \in Nat /\ Limit * y \in Nat
    BY <1>1, <1>2, <1>4
  <2> DEFINE u == Limit * x
             v == Limit * y
  <2> HIDE DEF u, v
  <2>3. u + Limit < v + Limit
    BY <1>1, <1>2, <1>4, <2>2 DEF u, v
  <2>4. QED
    BY <2>1, <2>3 DEF u, v
<1>6. x + 1 <= y
  BY <1>1, <1>2, <1>4, <1>5, Multiples
<1>7. LastPage(n) = y
  <2>1. y >= 1
    BY <1>2, <1>4, <1>6
  <2>2. LastPage(n) = Max({1, y})
    BY DEF LastPage, y
  <2>3. y \in {1, y} /\ \A z \in {1, y} : y >= z
    BY <1>4, <2>1
  <2>4. \A z \in {1, y} : (\A w \in {1, y} : z >= w) => z = y
    BY <1>4, <2>1
  <2>5. QED
    BY <2>2, <2>3, <2>4 DEF Max
<1>8. QED
  BY <1>4, <1>6, <1>7 DEF x

(* Who follows hydra:next is shown every message, whatever the size of the   *)
(* mailbox and of a page, if the search finds only the address's own.  This  *)
(* holds of every mailbox, so that no invariant is needed: a message at      *)
(* position k is on page k \div Limit + 1, which is not behind the last one, *)
(* and every page before it has a next one.                                 *)
THEOREM PagesAreComplete == Spec => []PagesShowAll
<1>1. ASSUME NEW a \in Address, NEW s \in Server, Matches(a, s) = Mine(a, s)
      PROVE  /\ Walked(a, s) = Mine(a, s)
             /\ \A p \in Reached(a, s) : SafeTotal(a, s, p) = Cardinality(Mine(a, s))
  <2> DEFINE S == Mine(a, s)
  <2>1. Matches(a, s) = S /\ S \subseteq Id
    BY <1>1 DEF Mine, Present
  <2>2. IsFiniteSet(S) /\ Cardinality(S) \in Nat /\ Cardinality(S) <= Cardinality(Id)
    BY <2>1, MessageAssumption, FS_Subset, FS_CardinalityType
  <2>3. Cardinality(Id) \in Nat
    BY MessageAssumption, FS_CardinalityType
  <2>4. ASSUME NEW p PROVE SafeTotal(a, s, p) = Cardinality(S)
    <3>1. PageRows(a, s, p) \subseteq S
      BY <2>1 DEF PageRows
    <3>2. PageRows(a, s, p) \ Shown(a, s, p) = {}
      BY <3>1 DEF Shown
    <3>3. Cardinality(PageRows(a, s, p) \ Shown(a, s, p)) = 0
      BY <3>2, FS_EmptySet
    <3>4. QED
      BY <2>1, <2>2, <3>3 DEF SafeTotal
  <2>5. Walked(a, s) \subseteq S
    BY DEF Walked, Shown
  <2>6. ASSUME NEW i \in S PROVE i \in Walked(a, s)
    <3> DEFINE earlier == {j \in S : j < i}
               k == Position(i, S)
               p == k \div Limit + 1
    <3>1. k = Cardinality(earlier)
      BY DEF Position
    <3>2. earlier \subseteq S /\ i \notin earlier
      <4>1. i \in Nat
        BY <2>1, MessageAssumption
      <4>2. ~(i < i)
        BY <4>1
      <4>3. QED
        BY <4>2
    <3>3. k \in Nat /\ k < Cardinality(S)
      BY <2>2, <3>1, <3>2, FS_Subset, FS_CardinalityType
    <3> HIDE DEF k
    <3>4. k \div Limit \in Nat /\ k \div Limit <= k
      BY <3>3, MessageAssumption, Division
    <3>5. p \in 1 .. Cardinality(Id) + 1
      BY <2>2, <2>3, <3>3, <3>4
    <3>6. ASSUME NEW q \in 1 .. p - 1 PROVE HasNext(a, s, q)
      <4>1. SafeTotal(a, s, q) = Cardinality(S)
        BY <2>4
      <4>2. LastPage(Cardinality(S)) \in Nat /\ p <= LastPage(Cardinality(S))
        BY <2>2, <3>3, PageExists
      <4>3. QED
        BY <3>4, <4>1, <4>2 DEF HasNext
    <3>7. p \in Reached(a, s)
      BY <3>5, <3>6 DEF Reached
    <3>8. i \in PageRows(a, s, p)
      <4>1. p - 1 = k \div Limit
        BY <3>4
      <4>2. QED
        BY <2>1, <4>1 DEF PageRows, k
    <3>9. i \in Shown(a, s, p)
      BY <3>8 DEF Shown
    <3>10. QED
      BY <3>7, <3>9 DEF Walked
  <2>7. QED
    BY <2>4, <2>5, <2>6
<1>2. PagesShowAll
  BY <1>1 DEF PagesShowAll
<1>3. QED
  BY <1>2, PTL
=============================================================================
