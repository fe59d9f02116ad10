---------------------------- MODULE InboxProofs ----------------------------
(* Proofs about Inbox, for every set of addresses and messages, whoever a  *)
(* message was sent to, every page size and every bound.                    *)
EXTENDS Inbox, TLAPS, WellFoundedInduction, SequenceTheorems, FiniteSetTheorems

ListingType ==
    [page : 0..MaxPage, rows : Seq(Messages), previous : BOOLEAN, next : BOOLEAN]

CallType ==
    [kind : ListKinds \cup ReaderKinds, box : Addresses,
     arg : Messages \cup {None} \cup 0..MaxPage, live : BOOLEAN,
     answer : {"pending", "ok", "gone"}, listing : ListingType]

InboxType ==
    [listing : ListingType, selected : Messages \cup {None}, page : 0..MaxPage,
     loading : BOOLEAN, refreshing : BOOLEAN, error : BOOLEAN,
     polling : BOOLEAN, initialized : BOOLEAN, known : SUBSET Messages]

ReaderType ==
    [shown : Messages \cup {None}, loading : BOOLEAN, error : BOOLEAN,
     busy : {"none", "source", "delete"}]

Types ==
    /\ session \in Addresses \cup {None}
    /\ hidden \in BOOLEAN
    /\ inbox \in InboxType
    /\ reader \in ReaderType
    /\ calls \in SUBSET CallType
    /\ mail \in Seq(Messages)
    /\ unsent \in SUBSET Messages
    /\ alerted \in [Messages -> Nat]

-----------------------------------------------------------------------------
(* Induction over the numbers up to n, stated of a set: the library's       *)
(* theorems take a predicate.                                               *)

LEMMA LeastNat ==
    ASSUME NEW S \in SUBSET Nat, S # {}
    PROVE  \E n \in S : \A m \in S : n <= m
<1>1. PICK n \in S : \A m \in S : <<m, n>> \notin OpToRel(<, Nat)
  BY NatLessThanWellFounded, WFMin
<1>2. \A m \in S : ~(m < n)
  BY <1>1 DEF OpToRel
<1>3. QED
  BY <1>2

LEMMA SetInduction ==
    ASSUME NEW n \in Nat, NEW G, 0 \in G, \A k \in 0..(n-1) : k \in G => k+1 \in G
    PROVE  \A k \in 0..n : k \in G
<1> DEFINE Bad == {k \in 0..n : k \notin G}
<1>1. SUFFICES ASSUME Bad # {} PROVE FALSE
  OBVIOUS
<1>2. Bad \in SUBSET Nat
  OBVIOUS
<1> HIDE DEF Bad
<1>3. PICK k \in Bad : \A m \in Bad : k <= m
  BY <1>1, <1>2, LeastNat
<1>4. k \in 1..n
  BY DEF Bad
<1>5. k - 1 \in 0..(n-1) /\ k - 1 \notin Bad
  BY <1>3, <1>4
<1>6. k - 1 \in G
  BY <1>5 DEF Bad
<1>7. (k - 1) + 1 \in G
  BY <1>5, <1>6
<1>8. QED
  BY <1>4, <1>7 DEF Bad

(* f is the function `kept' of Only up to n.                                *)
Fill(f, s, T, k) ==
    f[k] = IF k = 0 THEN << >>
           ELSE IF s[k] \in T THEN Append(f[k-1], s[k]) ELSE f[k-1]
Keeps(f, s, T, n) == f = [k \in 0..n |-> f[k]] /\ \A k \in 0..n : Fill(f, s, T, k)

LEMMA KeptExists ==
    ASSUME NEW s, NEW T, NEW len \in Nat
    PROVE  \E f : Keeps(f, s, T, len)
<1> DEFINE G == {n \in 0..len : \E f : Keeps(f, s, T, n)}
<1>1. 0 \in G
  <2> DEFINE f == [k \in 0..0 |-> << >>]
  <2>1. Keeps(f, s, T, 0)
    BY DEF Keeps, Fill
  <2>2. QED
    BY <2>1
<1>2. ASSUME NEW n \in 0..(len - 1), n \in G PROVE n + 1 \in G
  <2>1. PICK f : Keeps(f, s, T, n)
    BY <1>2
  <2> DEFINE e == IF s[n+1] \in T THEN Append(f[n], s[n+1]) ELSE f[n]
             g == [i \in 0..(n+1) |-> IF i = n+1 THEN e ELSE f[i]]
  <2>2. n \in Nat /\ n + 1 # 0 /\ (n + 1) - 1 = n
    OBVIOUS
  <2>3. /\ g = [k \in 0..(n+1) |-> g[k]]
        /\ g[n+1] = IF s[n+1] \in T THEN Append(g[n], s[n+1]) ELSE g[n]
        /\ \A i \in 0..n : g[i] = f[i]
    BY <2>2
  <2> HIDE DEF g
  <2>4. ASSUME NEW i \in 0..(n+1) PROVE Fill(g, s, T, i)
    <3>1. CASE i = n + 1
      BY <2>2, <2>3, <3>1 DEF Fill
    <3>2. CASE i \in 0..n
      <4>1. Fill(f, s, T, i)
        BY <2>1, <3>2 DEF Keeps
      <4>2. g[i] = f[i] /\ (i # 0 => g[i-1] = f[i-1])
        <5>1. i # 0 => i - 1 \in 0..n
          BY <3>2
        <5>2. QED
          BY <2>3, <3>2, <5>1
      <4>3. QED
        BY <4>1, <4>2 DEF Fill
    <3>3. QED
      BY <3>1, <3>2
  <2>5. Keeps(g, s, T, n+1)
    BY <2>3, <2>4 DEF Keeps
  <2>6. n + 1 \in 0..len
    OBVIOUS
  <2>7. QED
    BY <2>5, <2>6
<1>3. \A k \in 0..(len-1) : k \in G => k + 1 \in G
  BY <1>2
<1> HIDE DEF G
<1>4. len \in G
  BY <1>1, <1>3, SetInduction
<1>5. QED
  BY <1>4 DEF G

LEMMA OnlyIs ==
    ASSUME NEW M, NEW s \in Seq(M), NEW T
    PROVE  \E f : Keeps(f, s, T, Len(s)) /\ Only(s, T) = f[Len(s)]
<1> DEFINE K(f) == f = [k \in 0..Len(s) |-> IF k = 0 THEN << >>
                        ELSE IF s[k] \in T THEN Append(f[k-1], s[k]) ELSE f[k-1]]
           f == CHOOSE f : K(f)
<1>0. Len(s) \in Nat
  OBVIOUS
<1>1. PICK g : Keeps(g, s, T, Len(s))
  BY <1>0, KeptExists
<1>2. K(g)
  BY <1>1 DEF Keeps, Fill
<1>3. K(f)
  BY <1>2
<1>4. Keeps(f, s, T, Len(s))
  <2>1. \A k \in 0..Len(s) : Fill(f, s, T, k)
    BY <1>3 DEF Fill
  <2>2. f = [k \in 0..Len(s) |-> f[k]]
    BY <1>3
  <2>3. QED
    BY <2>1, <2>2 DEF Keeps
<1>5. Only(s, T) = f[Len(s)]
  BY DEF Only
<1>6. QED
  BY <1>4, <1>5

(* Only() returns messages of the sequence that are in the set.             *)
LEMMA OnlyKeeps ==
    ASSUME NEW M, NEW s \in Seq(M), NEW T
    PROVE  /\ Only(s, T) \in Seq(M \cap T)
           /\ Len(Only(s, T)) <= Len(s)
<1>1. PICK f : Keeps(f, s, T, Len(s)) /\ Only(s, T) = f[Len(s)]
  BY OnlyIs
<1> DEFINE G == {k \in 0..Len(s) : f[k] \in Seq(M \cap T) /\ Len(f[k]) <= k}
<1>2. 0 \in G
  BY <1>1 DEF Keeps, Fill
<1>3. ASSUME NEW k \in 0..(Len(s) - 1), k \in G PROVE k + 1 \in G
  <2>1. k + 1 \in 1..Len(s) /\ (k + 1) - 1 = k /\ k + 1 # 0 /\ s[k+1] \in M
    OBVIOUS
  <2>2. Fill(f, s, T, k+1)
    BY <1>1, <2>1 DEF Keeps
  <2>3. f[k+1] = IF s[k+1] \in T THEN Append(f[k], s[k+1]) ELSE f[k]
    BY <2>1, <2>2 DEF Fill
  <2>4. f[k+1] \in Seq(M \cap T) /\ Len(f[k+1]) <= k + 1
    BY <1>3, <2>1, <2>3
  <2>5. QED
    BY <2>1, <2>4
<1> HIDE DEF G
<1>4. Len(s) \in Nat
  OBVIOUS
<1>5. \A k \in 0..Len(s) : k \in G
  BY <1>2, <1>3, <1>4, SetInduction
<1>6. Len(s) \in G
  BY <1>4, <1>5
<1>7. QED
  BY <1>1, <1>6 DEF G

-----------------------------------------------------------------------------
(* The inductive invariant.                                                 *)

(* What a call was answered goes with what it asked for.                    *)
AnswerFits(c) ==
    /\ c.kind = "list" => c.arg \in 0..MaxPage
    /\ c.kind = "list" /\ c.answer = "ok" =>
          c.listing.page = c.arg /\ \A m \in RowSet(c.listing.rows) : c.box \in To[m]
    /\ c.kind = "message" /\ c.answer = "ok" =>
          c.arg \in Messages /\ c.box \in To[c.arg]

(* A live call is one of the inbox that is open, for the page it is at and  *)
(* the message it has selected.                                             *)
LiveFits(c, a, page, selected) ==
    c.live => /\ c.box = a
              /\ c.kind = "list" => c.arg = page
              /\ c.kind = "message" => c.arg = selected

Reading == {"message", "seen"}
Acting  == {"delete", "source"}
Kinds   == {ListKinds, Reading, Acting}

(* There is at most one live call of a kind.                                *)
OneLive(cs) ==
    \A c, d \in cs : \A K \in Kinds :
        c.live /\ d.live /\ c.kind \in K /\ d.kind \in K => c = d

CallsFit(cs, a, page, selected) ==
    /\ \A c \in cs : AnswerFits(c) /\ LiveFits(c, a, page, selected)
    /\ OneLive(cs)

NoInboxIsEmpty == session = None => inbox = NoInbox /\ reader = NoReader

AlertedAreKnown ==
    \A m \in Messages : alerted[m] \in {0, 1} /\ (alerted[m] = 1 => m \in inbox.known)

LiveIn(cs, K) == \E c \in cs : c.live /\ c.kind \in K

Inductive ==
    /\ Types
    /\ CallsFit(calls, session, inbox.page, inbox.selected)
    /\ NoInboxIsEmpty
    /\ AlertedAreKnown
    /\ MailIsOurs /\ SettledPageIsShown /\ ReaderShowsSelected /\ NothingWaitsInVain

-----------------------------------------------------------------------------
(* The answers of the API.                                                  *)

(* A page of an inbox lists mail of its address, and says which it is.      *)
LEMMA ListingFits ==
    ASSUME Types, NEW a \in Addresses, NEW p \in 0..MaxPage, p >= 1
    PROVE  /\ Listing(a, p) \in ListingType
           /\ Listing(a, p).page = p
           /\ \A m \in RowSet(Listing(a, p).rows) : a \in To[m]
<1> DEFINE Own == {m \in Messages : a \in To[m]}
           first == (p - 1) * PageSize + 1
           last == IF p * PageSize > Len(Box(a)) THEN Len(Box(a)) ELSE p * PageSize
<1>1. Messages \cap Own = Own
  OBVIOUS
<1>2. Box(a) \in Seq(Own)
  BY <1>1, OnlyKeeps DEF Box, Types
<1>3. first \in Int /\ first >= 1 /\ last \in Int /\ last <= Len(Box(a))
  <2>1. PageSize \in Nat /\ p - 1 \in Nat
    BY InboxAssumption
  <2>2. (p - 1) * PageSize \in Nat /\ p * PageSize \in Nat
    BY <2>1
  <2>3. Len(Box(a)) \in Nat
    BY <1>2
  <2>4. QED
    BY <2>2, <2>3
<1>4. \A i \in first..last : Box(a)[i] \in Own
  BY <1>2, <1>3
<1>5. SubSeq(Box(a), first, last) \in Seq(Own)
  BY <1>3, <1>4, SubSeqProperties
<1>6. PageRows(a, p) = SubSeq(Box(a), first, last)
  BY DEF PageRows
<1> HIDE DEF first, last
<1>7. PageRows(a, p) \in Seq(Messages) /\ \A m \in RowSet(PageRows(a, p)) : a \in To[m]
  BY <1>5, <1>6 DEF RowSet
<1>8. QED
  BY <1>7 DEF Listing, ListingType

-----------------------------------------------------------------------------
(* The calls.                                                               *)

LEMMA NewCall ==
    ASSUME NEW k \in ListKinds \cup ReaderKinds, NEW a \in Addresses,
           NEW x \in Messages \cup {None} \cup 0..MaxPage
    PROVE  /\ Call(k, a, x) \in CallType
           /\ Call(k, a, x).kind = k /\ Call(k, a, x).box = a /\ Call(k, a, x).arg = x
           /\ Call(k, a, x).live /\ Call(k, a, x).answer = "pending"
<1>1. NoListing \in ListingType
  BY InboxAssumption DEF NoListing, ListingType
<1>2. QED
  BY <1>1 DEF Call, CallType

(* Silence() leaves every call as it is but for being live.                 *)
LEMMA Silenced ==
    ASSUME NEW cs \in SUBSET CallType, NEW K
    PROVE  /\ Silence(cs, K) \in SUBSET CallType
           /\ \A c \in Silence(cs, K) : AnswerFits(c) \/ \E d \in cs : ~AnswerFits(d)
           /\ \A c \in CallType :
                 c.live => (c \in Silence(cs, K) <=> c \in cs /\ c.kind \notin K)
<1> DEFINE Hushed(c) == [c EXCEPT !.live = c.live /\ c.kind \notin K]
<1>1. Silence(cs, K) = {Hushed(c) : c \in cs}
  BY DEF Silence
<1>2. ASSUME NEW c \in cs
      PROVE  /\ Hushed(c) \in CallType
             /\ AnswerFits(c) => AnswerFits(Hushed(c))
             /\ Hushed(c).live <=> c.live /\ c.kind \notin K
             /\ Hushed(c).live => Hushed(c) = c
             /\ Hushed(c).kind = c.kind
  BY DEF CallType, AnswerFits
<1> HIDE DEF Hushed
<1>3. QED
  BY <1>1, <1>2

(* NothingWaitsInVain, of the state of the components.                      *)
Waits(i, r, cs, s, h) ==
    /\ i.refreshing <=> LiveIn(cs, ListKinds)
    /\ i.loading => i.refreshing \/ h
    /\ i.polling <=> (s # None /\ ~h)
    /\ r.loading <=> LiveIn(cs, Reading)
    /\ r.busy # "none" <=> LiveIn(cs, Acting)

LEMMA WaitsIs ==
    /\ NothingWaitsInVain <=> Waits(inbox, reader, calls, session, hidden)
    /\ NothingWaitsInVain' <=> Waits(inbox', reader', calls', session', hidden')
BY DEF NothingWaitsInVain, Waits, LiveCall, LiveIn, Reading, Acting

LEMMA SilencedLive ==
    ASSUME NEW cs \in SUBSET CallType, NEW K
    PROVE  /\ \A J : J \cap K = {} => (LiveIn(Silence(cs, K), J) <=> LiveIn(cs, J))
           /\ \A J : J \subseteq K => ~LiveIn(Silence(cs, K), J)
BY Silenced DEF LiveIn

(* Silencing the calls that do not fit any more leaves those that fit.      *)
LEMMA SilencedFit ==
    ASSUME NEW cs \in SUBSET CallType, NEW K, NEW a, NEW page, NEW selected,
           \A c \in cs : AnswerFits(c), OneLive(cs),
           \A c \in cs : c.kind \notin K => LiveFits(c, a, page, selected)
    PROVE  CallsFit(Silence(cs, K), a, page, selected)
<1>1. \A c \in Silence(cs, K) : c \in CallType /\ AnswerFits(c)
  BY Silenced
<1>2. \A c \in Silence(cs, K) : c.live => c \in cs /\ c.kind \notin K
  BY <1>1, Silenced
<1>3. \A c \in Silence(cs, K) : LiveFits(c, a, page, selected)
  BY <1>2 DEF LiveFits
<1>4. OneLive(Silence(cs, K))
  BY <1>2 DEF OneLive
<1>5. QED
  BY <1>1, <1>3, <1>4 DEF CallsFit

(* A call is made only when no live one of its kind is under way.           *)
LEMMA AddedFits ==
    ASSUME NEW cs \in SUBSET CallType, NEW a \in Addresses, NEW page, NEW selected,
           CallsFit(cs, a, page, selected),
           NEW k \in ListKinds \cup ReaderKinds,
           NEW x \in Messages \cup {None} \cup 0..MaxPage,
           k = "list" => x = page /\ x \in 0..MaxPage,
           k = "message" => x = selected,
           \A K \in Kinds : k \in K => ~LiveIn(cs, K)
    PROVE  /\ CallsFit(cs \cup {Call(k, a, x)}, a, page, selected)
           /\ cs \cup {Call(k, a, x)} \in SUBSET CallType
           /\ \A J : LiveIn(cs \cup {Call(k, a, x)}, J) <=> k \in J \/ LiveIn(cs, J)
<1> DEFINE new == Call(k, a, x)
<1>1. /\ new \in CallType /\ new.kind = k /\ new.box = a /\ new.arg = x
      /\ new.live /\ new.answer = "pending"
  BY NewCall
<1> HIDE DEF new
<1>2. AnswerFits(new) /\ LiveFits(new, a, page, selected)
  BY <1>1 DEF AnswerFits, LiveFits
<1>3. OneLive(cs \cup {new})
  BY <1>1 DEF CallsFit, OneLive, LiveIn
<1>4. CallsFit(cs \cup {new}, a, page, selected)
  BY <1>2, <1>3 DEF CallsFit
<1>5. \A J : LiveIn(cs \cup {new}, J) <=> k \in J \/ LiveIn(cs, J)
  BY <1>1 DEF LiveIn
<1>6. QED
  BY <1>1, <1>4, <1>5 DEF new

LEMMA DroppedFit ==
    ASSUME NEW cs \in SUBSET CallType, NEW c \in cs, NEW a, NEW page, NEW selected,
           CallsFit(cs, a, page, selected)
    PROVE  /\ CallsFit(cs \ {c}, a, page, selected)
           /\ cs \ {c} \in SUBSET CallType
           /\ ~c.live => \A J : LiveIn(cs \ {c}, J) <=> LiveIn(cs, J)
           /\ \A J : c.kind \notin J => (LiveIn(cs \ {c}, J) <=> LiveIn(cs, J))
           /\ \A J \in Kinds : c.live /\ c.kind \in J => ~LiveIn(cs \ {c}, J)
BY DEF CallsFit, OneLive, LiveIn

-----------------------------------------------------------------------------
(* refresh().                                                               *)

LEMMA Refreshes ==
    ASSUME NEW i \in InboxType, NEW cs \in SUBSET CallType, NEW t \in Addresses,
           CallsFit(cs, t, i.page, i.selected), hidden \in BOOLEAN,
           i.refreshing <=> LiveIn(cs, ListKinds)
    PROVE  /\ RefreshCalls(i, cs, t) \in SUBSET CallType
           /\ CallsFit(RefreshCalls(i, cs, t), t, i.page, i.selected)
           /\ Refreshed(i) \in InboxType
           /\ Refreshed(i).refreshing <=> LiveIn(RefreshCalls(i, cs, t), ListKinds)
           /\ \A J : "list" \notin J => (LiveIn(RefreshCalls(i, cs, t), J) <=> LiveIn(cs, J))
           /\ ~Refreshed(i).refreshing => hidden /\ Refreshed(i) = i
           /\ \A f \in {"listing", "selected", "page", "loading", "polling",
                          "initialized", "known"} : Refreshed(i)[f] = i[f]
<1>1. Refreshed(i) \in InboxType
  BY DEF Refreshed, InboxType
<1>2. \A f \in {"listing", "selected", "page", "loading", "polling",
                          "initialized", "known"} : Refreshed(i)[f] = i[f]
  BY DEF Refreshed, InboxType
<1>3. CASE MayRefresh(i)
  <2> DEFINE ds == Silence(cs, ListKinds)
  <2>1. ds \in SUBSET CallType /\ CallsFit(ds, t, i.page, i.selected)
    BY Silenced, SilencedFit DEF CallsFit
  <2>2. /\ ~LiveIn(ds, ListKinds)
        /\ \A J : "list" \notin J => (LiveIn(ds, J) <=> LiveIn(cs, J))
    BY SilencedLive DEF ListKinds
  <2>3. \A K \in Kinds : "list" \in K => ~LiveIn(ds, K)
    BY <2>2 DEF Kinds, Reading, Acting
  <2>4. /\ "list" \in ListKinds \cup ReaderKinds
        /\ i.page \in 0..MaxPage /\ i.page \in Messages \cup {None} \cup 0..MaxPage
    BY DEF InboxType, ListKinds
  <2> HIDE DEF ds
  <2>5. /\ CallsFit(ds \cup {Call("list", t, i.page)}, t, i.page, i.selected)
        /\ ds \cup {Call("list", t, i.page)} \in SUBSET CallType
        /\ \A J : LiveIn(ds \cup {Call("list", t, i.page)}, J) <=> "list" \in J \/ LiveIn(ds, J)
    BY <2>1, <2>3, <2>4, AddedFits
  <2>6. RefreshCalls(i, cs, t) = ds \cup {Call("list", t, i.page)}
    BY <1>3 DEF RefreshCalls, ds
  <2>7. Refreshed(i).refreshing
    BY <1>3 DEF Refreshed, InboxType
  <2>8. QED
    BY <1>1, <1>2, <2>2, <2>5, <2>6, <2>7 DEF ListKinds
<1>4. CASE ~MayRefresh(i)
  <2>1. RefreshCalls(i, cs, t) = cs /\ Refreshed(i) = i /\ (~i.refreshing => hidden)
    BY <1>4 DEF RefreshCalls, Refreshed, MayRefresh, InboxType
  <2>2. QED
    BY <1>1, <1>2, <2>1
<1>5. QED
  BY <1>3, <1>4

-----------------------------------------------------------------------------
(* The steps.                                                               *)

LEMMA Empties ==
    /\ NoListing \in ListingType /\ NoListing.page = 0 /\ RowSet(NoListing.rows) = {}
    /\ NoInbox \in InboxType /\ NoReader \in ReaderType
    /\ FreshInbox.refreshing = FALSE /\ FreshInbox.page = 1 /\ FreshInbox.loading
    /\ FreshInbox.selected = None /\ FreshInbox.listing = NoListing
    /\ hidden \in BOOLEAN => FreshInbox \in InboxType /\ (FreshInbox.polling <=> ~hidden)
<1>1. NoListing \in ListingType /\ NoListing.page = 0 /\ NoListing.rows = << >>
  BY InboxAssumption DEF NoListing, ListingType
<1>2. RowSet(NoListing.rows) = {}
  BY <1>1 DEF RowSet
<1> HIDE DEF NoListing
<1>3. NoInbox \in InboxType /\ NoReader \in ReaderType
  BY <1>1, InboxAssumption DEF NoInbox, InboxType, NoReader, ReaderType
<1>4. /\ FreshInbox.refreshing = FALSE /\ FreshInbox.page = 1 /\ FreshInbox.loading
      /\ FreshInbox.selected = None /\ FreshInbox.listing = NoListing
  BY DEF FreshInbox, NoInbox
<1>5. hidden \in BOOLEAN => FreshInbox \in InboxType /\ (FreshInbox.polling <=> ~hidden)
  <2>1. 1 \in 0..MaxPage
    BY InboxAssumption
  <2>2. QED
    BY <1>3, <2>1 DEF FreshInbox, InboxType
<1>6. QED
  BY <1>1, <1>2, <1>3, <1>4, <1>5

LEMMA InitInductive == Init => Inductive
<1> SUFFICES ASSUME Init PROVE Inductive
  OBVIOUS
<1>1. Types
  BY Empties, InboxAssumption DEF Init, Types
<1>2. CallsFit(calls, session, inbox.page, inbox.selected)
  BY DEF Init, CallsFit, OneLive
<1>3. NoInboxIsEmpty /\ AlertedAreKnown /\ MailIsOurs
  BY DEF Init, NoInboxIsEmpty, AlertedAreKnown, MailIsOurs
<1>4. SettledPageIsShown /\ ReaderShowsSelected
  BY DEF Init, SettledPageIsShown, ReaderShowsSelected, NoReader
<1>5. NothingWaitsInVain
  BY DEF Init, NothingWaitsInVain, LiveCall, NoInbox, NoReader
<1>6. QED
  BY <1>1, <1>2, <1>3, <1>4, <1>5 DEF Inductive

LEMMA OpenStep == ASSUME Inductive, NEW t \in Addresses, OpenSession(t) PROVE Inductive'
<1> DEFINE All == ListKinds \cup ReaderKinds
           cs == Silence(calls, All)
<1>1. calls \in SUBSET CallType /\ hidden \in BOOLEAN /\ hidden' = hidden
  BY DEF Inductive, Types, OpenSession
<1>2. cs \in SUBSET CallType
  BY <1>1, Silenced
<1>3. CallsFit(cs, t, 1, None)
  <2>1. \A c \in calls : c.kind \in All
    BY <1>1 DEF CallType
  <2>2. (\A c \in calls : AnswerFits(c)) /\ OneLive(calls)
    BY DEF Inductive, CallsFit
  <2> HIDE DEF All
  <2>3. QED
    BY <1>1, <2>1, <2>2, SilencedFit
<1>4. ~LiveIn(cs, ListKinds) /\ ~LiveIn(cs, Reading) /\ ~LiveIn(cs, Acting)
  <2>1. ListKinds \subseteq All /\ Reading \subseteq All /\ Acting \subseteq All
    BY DEF ReaderKinds, Reading, Acting
  <2> HIDE DEF All
  <2>2. QED
    BY <1>1, <2>1, SilencedLive
<1>5. FreshInbox \in InboxType
  BY <1>1, Empties
<1>6. /\ inbox' = Refreshed(FreshInbox) /\ calls' = RefreshCalls(FreshInbox, cs, t)
      /\ session' = t /\ reader' = NoReader /\ UNCHANGED <<hidden, mail, unsent>>
      /\ alerted' = [m \in Messages |-> 0]
  BY DEF OpenSession, Refresh, AfterReset, server
<1> HIDE DEF cs
<1>7. /\ calls' \in SUBSET CallType
      /\ CallsFit(calls', t, 1, None)
      /\ inbox' \in InboxType
      /\ inbox'.refreshing <=> LiveIn(calls', ListKinds)
      /\ ~LiveIn(calls', Reading) /\ ~LiveIn(calls', Acting)
      /\ ~inbox'.refreshing => hidden
      /\ inbox'.listing = NoListing /\ inbox'.selected = None /\ inbox'.page = 1
      /\ inbox'.loading /\ (inbox'.polling <=> ~hidden)
  <2>1. "list" \notin Reading /\ "list" \notin Acting
    BY DEF Reading, Acting
  <2>2. CallsFit(cs, t, FreshInbox.page, FreshInbox.selected)
    BY <1>3, Empties
  <2>3. FreshInbox.refreshing <=> LiveIn(cs, ListKinds)
    BY <1>4, Empties
  <2>4. /\ RefreshCalls(FreshInbox, cs, t) \in SUBSET CallType
        /\ CallsFit(RefreshCalls(FreshInbox, cs, t), t, FreshInbox.page, FreshInbox.selected)
        /\ Refreshed(FreshInbox) \in InboxType
        /\ Refreshed(FreshInbox).refreshing <=> LiveIn(RefreshCalls(FreshInbox, cs, t), ListKinds)
        /\ \A J : "list" \notin J => (LiveIn(RefreshCalls(FreshInbox, cs, t), J) <=> LiveIn(cs, J))
        /\ ~Refreshed(FreshInbox).refreshing => hidden /\ Refreshed(FreshInbox) = FreshInbox
        /\ \A f \in {"listing", "selected", "page", "loading", "polling",
                       "initialized", "known"} : Refreshed(FreshInbox)[f] = FreshInbox[f]
    BY <1>1, <1>2, <1>5, <2>2, <2>3, Refreshes
  <2>5. QED
    BY <1>1, <1>4, <1>6, <2>1, <2>4, Empties
<1>8. t # None
  BY InboxAssumption
<1>9. Types' /\ NoInboxIsEmpty' /\ AlertedAreKnown'
  BY <1>6, <1>7, <1>8, Empties DEF Inductive, Types, NoInboxIsEmpty, AlertedAreKnown
<1>10. MailIsOurs' /\ SettledPageIsShown' /\ ReaderShowsSelected'
  BY <1>6, <1>7, Empties DEF MailIsOurs, SettledPageIsShown, ReaderShowsSelected, NoReader
<1>11. NothingWaitsInVain'
  <2>1. ~reader'.loading /\ reader'.busy = "none"
    BY <1>6 DEF NoReader
  <2>2. Waits(inbox', reader', calls', session', hidden')
    BY <1>1, <1>6, <1>7, <1>8, <2>1 DEF Waits
  <2>3. QED
    BY <2>2, WaitsIs
<1>12. QED
  BY <1>6, <1>7, <1>9, <1>10, <1>11 DEF Inductive

LEMMA CloseStep == ASSUME Inductive, CloseSession PROVE Inductive'
<1> DEFINE All == ListKinds \cup ReaderKinds
<1>1. /\ session' = None /\ inbox' = NoInbox /\ reader' = NoReader
      /\ calls' = Silence(calls, All) /\ alerted' = [m \in Messages |-> 0]
      /\ UNCHANGED <<hidden, mail, unsent>>
  BY DEF CloseSession, AfterReset, server
<1>2. calls \in SUBSET CallType /\ \A c \in calls : c.kind \in All
  BY DEF Inductive, Types, CallType
<1>3. /\ calls' \in SUBSET CallType
      /\ CallsFit(calls', None, 0, None)
  <2>1. (\A c \in calls : AnswerFits(c)) /\ OneLive(calls)
    BY DEF Inductive, CallsFit
  <2> HIDE DEF All
  <2>2. QED
    BY <1>1, <1>2, <2>1, Silenced, SilencedFit
<1>4. ~LiveIn(calls', ListKinds) /\ ~LiveIn(calls', Reading) /\ ~LiveIn(calls', Acting)
  <2>1. ListKinds \subseteq All /\ Reading \subseteq All /\ Acting \subseteq All
    BY DEF ReaderKinds, Reading, Acting
  <2> HIDE DEF All
  <2>2. QED
    BY <1>1, <1>2, <2>1, SilencedLive
<1>5. Types'
  BY <1>1, <1>3, Empties DEF Inductive, Types
<1>6. NoInboxIsEmpty' /\ AlertedAreKnown' /\ MailIsOurs' /\ SettledPageIsShown'
  BY <1>1 DEF NoInboxIsEmpty, AlertedAreKnown, MailIsOurs, SettledPageIsShown
<1>7. ReaderShowsSelected' /\ inbox'.page = 0 /\ inbox'.selected = None
  BY <1>1 DEF ReaderShowsSelected, NoReader, NoInbox
<1>8. NothingWaitsInVain'
  BY <1>1, <1>4, WaitsIs DEF Waits, NoInbox, NoReader
<1>9. QED
  BY <1>1, <1>3, <1>5, <1>6, <1>7, <1>8 DEF Inductive

(* The interval and the button ask for the page that is open.               *)
LEMMA RefreshStep ==
    ASSUME Inductive, session # None, Refresh(inbox, calls, session),
           UNCHANGED <<session, hidden, reader, alerted, mail, unsent>>
    PROVE  Inductive'
<1>1. /\ session \in Addresses /\ hidden \in BOOLEAN /\ inbox \in InboxType
      /\ calls \in SUBSET CallType
      /\ CallsFit(calls, session, inbox.page, inbox.selected)
      /\ Waits(inbox, reader, calls, session, hidden)
  BY WaitsIs DEF Inductive, Types
<1>2. /\ calls' \in SUBSET CallType
      /\ CallsFit(calls', session, inbox.page, inbox.selected)
      /\ inbox' \in InboxType
      /\ inbox'.refreshing <=> LiveIn(calls', ListKinds)
      /\ \A J : "list" \notin J => (LiveIn(calls', J) <=> LiveIn(calls, J))
      /\ ~inbox'.refreshing => hidden /\ inbox' = inbox
      /\ \A f \in {"listing", "selected", "page", "loading", "polling",
                   "initialized", "known"} : inbox'[f] = inbox[f]
  BY <1>1, Refreshes DEF Refresh, Waits
<1>3. Types' /\ NoInboxIsEmpty' /\ AlertedAreKnown'
  BY <1>2 DEF Inductive, Types, NoInboxIsEmpty, AlertedAreKnown
<1>4. MailIsOurs' /\ SettledPageIsShown' /\ ReaderShowsSelected'
  BY <1>2 DEF Inductive, MailIsOurs, SettledPageIsShown, ReaderShowsSelected
<1>5. NothingWaitsInVain'
  <2>1. "list" \notin Reading /\ "list" \notin Acting
    BY DEF Reading, Acting
  <2>2. Waits(inbox', reader', calls', session', hidden')
    BY <1>1, <1>2, <2>1 DEF Waits
  <2>3. QED
    BY <2>2, WaitsIs
<1>6. QED
  BY <1>2, <1>3, <1>4, <1>5 DEF Inductive

LEMMA PollStep == ASSUME Inductive, Poll \/ ClickRefresh PROVE Inductive'
<1>1. session # None
  BY WaitsIs DEF Inductive, Waits, Poll, ClickRefresh
<1>2. QED
  BY <1>1, RefreshStep DEF Poll, ClickRefresh, InboxUnchanged, server

(* A call that is answered stays what it was.                               *)
LEMMA ServedFits ==
    ASSUME NEW cs \in SUBSET CallType, NEW c \in cs, NEW d \in CallType, NEW a, NEW page,
           NEW selected, CallsFit(cs, a, page, selected), AnswerFits(d),
           d.kind = c.kind, d.box = c.box, d.arg = c.arg, d.live = c.live
    PROVE  /\ CallsFit((cs \ {c}) \cup {d}, a, page, selected)
           /\ \A J : LiveIn((cs \ {c}) \cup {d}, J) <=> LiveIn(cs, J)
<1>1. LiveFits(d, a, page, selected)
  BY DEF CallsFit, LiveFits
<1>2. OneLive((cs \ {c}) \cup {d})
  BY DEF CallsFit, OneLive
<1>3. QED
  BY <1>1, <1>2 DEF CallsFit, LiveIn

LEMMA ServeStep == ASSUME Inductive, NEW c \in calls, Serve(c) PROVE Inductive'
<1>1. /\ c \in CallType /\ calls \in SUBSET CallType /\ Types
      /\ CallsFit(calls, session, inbox.page, inbox.selected) /\ AnswerFits(c)
  BY DEF Inductive, Types, CallsFit
<1> DEFINE Becomes(d) ==
        /\ calls' = (calls \ {c}) \cup {d} /\ AnswerFits(d)
        /\ d.kind = c.kind /\ d.box = c.box /\ d.arg = c.arg /\ d.live = c.live
<1>2. \E d \in CallType : Becomes(d)
  <2>1. ASSUME ServeList(c) PROVE \E d \in CallType : Becomes(d)
    <3> DEFINE l == Listing(c.box, c.arg)
               d == [c EXCEPT !.answer = "ok", !.listing = l]
    <3>1. /\ l \in ListingType /\ l.page = c.arg
          /\ \A m \in RowSet(l.rows) : c.box \in To[m]
      BY <1>1, <2>1, ListingFits DEF ServeList, AnswerFits, CallType
    <3> HIDE DEF l
    <3>2. d \in CallType /\ AnswerFits(d)
      BY <1>1, <2>1, <3>1 DEF CallType, AnswerFits, ServeList
    <3>3. calls' = (calls \ {c}) \cup {d}
      BY <2>1 DEF ServeList, l
    <3>4. d.kind = c.kind /\ d.box = c.box /\ d.arg = c.arg /\ d.live = c.live
      BY <1>1 DEF CallType
    <3> HIDE DEF d
    <3>5. Becomes(d)
      BY <3>2, <3>3, <3>4
    <3>6. QED
      BY <3>2, <3>5
  <2>2. ASSUME ServeMessage(c) \/ ServeDelete(c) PROVE \E d \in CallType : Becomes(d)
    <3> DEFINE answer == IF Found(c) THEN "ok" ELSE "gone"
               d == [c EXCEPT !.answer = answer]
    <3>1. d \in CallType /\ d.kind = c.kind /\ d.box = c.box /\ d.arg = c.arg /\ d.live = c.live
      BY <1>1 DEF CallType
    <3>2. Found(c) => c.arg \in Messages /\ c.box \in To[c.arg]
      BY <1>1 DEF Found, Types
    <3>3. AnswerFits(d)
      BY <1>1, <2>2, <3>2 DEF CallType, AnswerFits, ServeMessage, ServeDelete
    <3>4. calls' = (calls \ {c}) \cup {d}
      BY <2>2 DEF ServeMessage, ServeDelete, Answered
    <3> HIDE DEF d
    <3>5. Becomes(d)
      BY <3>1, <3>3, <3>4
    <3>6. QED
      BY <3>1, <3>5
  <2>3. QED
    BY <2>1, <2>2 DEF Serve
<1>3. PICK d \in CallType : Becomes(d)
  BY <1>2
<1>4. /\ CallsFit(calls', session, inbox.page, inbox.selected)
      /\ \A J : LiveIn(calls', J) <=> LiveIn(calls, J)
  BY <1>1, <1>3, ServedFits
<1>5. UNCHANGED <<session, hidden, inbox, reader, alerted>>
  BY DEF Serve, client
<1>6. mail' \in Seq(Messages) /\ unsent' = unsent
  <2>1. CASE mail' = mail
    BY <1>1, <2>1 DEF Serve, ServeList, ServeMessage, ServeDelete, server, Types
  <2>2. CASE mail' = Only(mail, Messages \ {c.arg}) /\ ServeDelete(c)
    <3>1. Messages \cap (Messages \ {c.arg}) \subseteq Messages
      OBVIOUS
    <3>2. mail' \in Seq(Messages \cap (Messages \ {c.arg}))
      BY <1>1, <2>2, OnlyKeeps DEF Types
    <3>3. QED
      BY <2>2, <3>1, <3>2 DEF ServeDelete
  <2>3. QED
    BY <2>1, <2>2 DEF Serve, ServeList, ServeMessage, ServeDelete, server
<1>7. Types' /\ NoInboxIsEmpty' /\ AlertedAreKnown'
  BY <1>1, <1>3, <1>5, <1>6 DEF Inductive, Types, NoInboxIsEmpty, AlertedAreKnown
<1>8. MailIsOurs' /\ SettledPageIsShown' /\ ReaderShowsSelected'
  BY <1>5 DEF Inductive, MailIsOurs, SettledPageIsShown, ReaderShowsSelected
<1>9. NothingWaitsInVain'
  <2>1. Waits(inbox', reader', calls', session', hidden')
    BY <1>4, <1>5, WaitsIs DEF Inductive, Waits
  <2>2. QED
    BY <2>1, WaitsIs
<1>10. QED
  BY <1>4, <1>5, <1>7, <1>8, <1>9 DEF Inductive

LEMMA MailStep ==
    ASSUME Inductive, NEW m \in Messages, Arrive(m) \/ Expire(m)
    PROVE  Inductive'
<1>1. UNCHANGED <<session, hidden, inbox, reader, alerted, calls>>
  BY DEF Arrive, Expire, client
<1>2. mail' \in Seq(Messages) /\ unsent' \in SUBSET Messages
  <2>1. mail \in Seq(Messages) /\ unsent \in SUBSET Messages
    BY DEF Inductive, Types
  <2>2. CASE Arrive(m)
    <3>1. <<m>> \o mail \in Seq(Messages) /\ Append(mail, m) \in Seq(Messages)
      BY <2>1
    <3>2. QED
      BY <2>1, <2>2, <3>1 DEF Arrive
  <2>3. CASE Expire(m)
    <3>1. mail' \in Seq(Messages \cap (Messages \ {m}))
      BY <2>1, <2>3, OnlyKeeps DEF Expire
    <3>2. QED
      BY <2>1, <2>3, <3>1 DEF Expire
  <2>4. QED
    BY <2>2, <2>3
<1>3. Types' /\ NoInboxIsEmpty' /\ AlertedAreKnown'
  BY <1>1, <1>2 DEF Inductive, Types, NoInboxIsEmpty, AlertedAreKnown
<1>4. MailIsOurs' /\ SettledPageIsShown' /\ ReaderShowsSelected' /\ NothingWaitsInVain'
  BY <1>1 DEF Inductive, MailIsOurs, SettledPageIsShown, ReaderShowsSelected, NothingWaitsInVain,
              LiveCall
<1>5. CallsFit(calls', session', inbox'.page, inbox'.selected)
  BY <1>1 DEF Inductive
<1>6. QED
  BY <1>3, <1>4, <1>5 DEF Inductive

(* What a reply finds.                                                      *)
LEMMA ReplyFinds ==
    ASSUME Inductive, NEW c \in calls
    PROVE  /\ c \in CallType /\ calls \in SUBSET CallType /\ hidden \in BOOLEAN
           /\ inbox \in InboxType /\ reader \in ReaderType
           /\ Waits(inbox, reader, calls, session, hidden)
           /\ CallsFit(calls, session, inbox.page, inbox.selected)
           /\ CallsFit(calls \ {c}, session, inbox.page, inbox.selected)
           /\ AnswerFits(c)
           /\ c.live => /\ session = c.box /\ session \in Addresses /\ session # None
                        /\ c.kind = "list" => c.arg = inbox.page
                        /\ c.kind = "message" => c.arg = inbox.selected
           /\ ~c.live => \A J : LiveIn(calls \ {c}, J) <=> LiveIn(calls, J)
           /\ \A J : c.kind \notin J => (LiveIn(calls \ {c}, J) <=> LiveIn(calls, J))
           /\ \A J \in Kinds : c.live /\ c.kind \in J => ~LiveIn(calls \ {c}, J)
<1>1. /\ c \in CallType /\ calls \in SUBSET CallType /\ hidden \in BOOLEAN
      /\ inbox \in InboxType /\ reader \in ReaderType
      /\ Waits(inbox, reader, calls, session, hidden)
      /\ CallsFit(calls, session, inbox.page, inbox.selected)
  BY WaitsIs DEF Inductive, Types
<1>2. c.live => /\ session = c.box /\ session \in Addresses /\ session # None
                /\ c.kind = "list" => c.arg = inbox.page
                /\ c.kind = "message" => c.arg = inbox.selected
  BY <1>1, InboxAssumption DEF CallsFit, LiveFits, CallType
<1>3. AnswerFits(c)
  BY <1>1 DEF CallsFit
<1>4. QED
  BY <1>1, <1>2, <1>3, DroppedFit

(* A step that changes only the reader and the calls.                       *)
LEMMA KeepsInbox ==
    ASSUME Inductive, UNCHANGED <<session, hidden, inbox, mail, unsent, alerted>>,
           calls' \in SUBSET CallType, reader' \in ReaderType,
           CallsFit(calls', session, inbox.page, inbox.selected),
           session = None => reader' = NoReader,
           reader'.shown # None => reader'.shown = inbox.selected /\ session \in To[reader'.shown],
           Waits(inbox, reader', calls', session, hidden)
    PROVE  Inductive'
<1>1. Types' /\ NoInboxIsEmpty' /\ AlertedAreKnown'
  BY DEF Inductive, Types, NoInboxIsEmpty, AlertedAreKnown
<1>2. MailIsOurs' /\ SettledPageIsShown' /\ ReaderShowsSelected'
  BY DEF Inductive, MailIsOurs, SettledPageIsShown, ReaderShowsSelected
<1>3. NothingWaitsInVain'
  BY WaitsIs
<1>4. QED
  BY <1>1, <1>2, <1>3 DEF Inductive

LEMMA DropStep ==
    ASSUME Inductive, NEW c \in calls, ~c.live, calls' = calls \ {c},
           UNCHANGED <<session, hidden, inbox, reader, mail, unsent, alerted>>
    PROVE  Inductive'
<1>1. Waits(inbox, reader', calls', session, hidden)
  BY ReplyFinds DEF Waits
<1>2. reader.shown # None => reader.shown = inbox.selected /\ session \in To[reader.shown]
  <2>1. CASE session = None
    BY <2>1 DEF Inductive, NoInboxIsEmpty, NoReader
  <2>2. CASE session # None
    BY <2>2 DEF Inductive, ReaderShowsSelected, MailIsOurs
  <2>3. QED
    BY <2>1, <2>2
<1>3. calls' \in SUBSET CallType /\ CallsFit(calls', session, inbox.page, inbox.selected)
  BY ReplyFinds
<1>4. reader' \in ReaderType /\ (session = None => reader' = NoReader)
  BY DEF Inductive, Types, NoInboxIsEmpty
<1>5. QED
  BY <1>1, <1>2, <1>3, <1>4, KeepsInbox

LEMMA ListStep ==
    ASSUME Inductive, NEW c \in calls, NEW outcome \in Outcomes(c), ListAnswered(c, outcome)
    PROVE  Inductive'
<1>1. /\ c.kind = "list" /\ calls' = calls \ {c}
      /\ UNCHANGED <<session, hidden, reader, mail, unsent>>
  BY DEF ListAnswered, InboxUnchanged, server
<1>2. /\ \A J : "list" \notin J => (LiveIn(calls', J) <=> LiveIn(calls, J))
      /\ c.live => ~LiveIn(calls', ListKinds)
      /\ calls' \in SUBSET CallType
      /\ CallsFit(calls', session, inbox.page, inbox.selected)
  <2>1. ListKinds \in Kinds /\ "list" \in ListKinds
    BY DEF Kinds, ListKinds
  <2>2. QED
    BY <1>1, <2>1, ReplyFinds
<1>3. "list" \notin Reading /\ "list" \notin Acting
  BY DEF Reading, Acting
<1>4. CASE c.live /\ outcome = "ok" /\ ListShown(c)
  <2>1. c.answer = "ok"
    BY <1>1, <1>4 DEF Outcomes
  <2>2. /\ c.listing \in ListingType /\ c.listing.page = inbox.page
        /\ \A m \in RowSet(c.listing.rows) : session \in To[m]
        /\ RowSet(c.listing.rows) \subseteq Messages
        /\ session # None
    <3>1. c.listing \in ListingType /\ c.box = session /\ c.arg = inbox.page /\ session # None
      BY <1>1, <1>4, ReplyFinds DEF CallType
    <3>2. c.listing.page = c.arg /\ \A m \in RowSet(c.listing.rows) : c.box \in To[m]
      BY <1>1, <2>1, ReplyFinds DEF AnswerFits
    <3>3. c.listing.rows \in Seq(Messages)
      BY <3>1 DEF ListingType
    <3>4. RowSet(c.listing.rows) \subseteq Messages
      BY <3>3 DEF RowSet
    <3>5. QED
      BY <3>1, <3>2, <3>4
  <2>3. /\ inbox' \in InboxType /\ inbox'.listing = c.listing
        /\ ~inbox'.loading /\ ~inbox'.refreshing
        /\ inbox'.page = inbox.page /\ inbox'.selected = inbox.selected
        /\ inbox'.polling = inbox.polling
        /\ inbox'.known = IF c.arg = 1 THEN inbox.known \cup RowSet(c.listing.rows) ELSE inbox.known
    BY <1>4, <2>2, ReplyFinds DEF ListShown, Known, InboxType
  <2>4. alerted' \in [Messages -> Nat] /\ AlertedAreKnown'
    <3>1. CASE c.arg = 1
      <4>1. alerted' = [m \in Messages |->
              IF inbox.initialized /\ m \in RowSet(c.listing.rows) \ inbox.known
              THEN alerted[m] + 1 ELSE alerted[m]]
        BY <1>4, <3>1 DEF ListShown, NotifyNew
      <4>2. alerted' \in [Messages -> Nat]
        BY <4>1 DEF Inductive, Types
      <4>3. ASSUME NEW m \in Messages
            PROVE  alerted'[m] \in {0, 1} /\ (alerted'[m] = 1 => m \in inbox'.known)
        <5>1. alerted[m] \in {0, 1} /\ (alerted[m] = 1 => m \in inbox.known)
          BY DEF Inductive, AlertedAreKnown
        <5>2. inbox'.known = inbox.known \cup RowSet(c.listing.rows)
          BY <2>3, <3>1
        <5>3. QED
          BY <4>1, <5>1, <5>2
      <4>4. QED
        BY <4>2, <4>3 DEF AlertedAreKnown
    <3>2. CASE c.arg # 1
      BY <1>4, <2>3, <3>2 DEF ListShown, Inductive, AlertedAreKnown, Types
    <3>3. QED
      BY <3>1, <3>2
  <2>5. Types' /\ NoInboxIsEmpty'
    BY <1>1, <1>2, <2>2, <2>3, <2>4 DEF Inductive, Types, NoInboxIsEmpty
  <2>6. MailIsOurs' /\ SettledPageIsShown' /\ ReaderShowsSelected'
    BY <1>1, <2>2, <2>3 DEF Inductive, MailIsOurs, SettledPageIsShown, ReaderShowsSelected
  <2>7. NothingWaitsInVain'
    <3>1. Waits(inbox', reader', calls', session', hidden')
      BY <1>1, <1>2, <1>3, <1>4, <2>3, ReplyFinds DEF Waits
    <3>2. QED
      BY <3>1, WaitsIs
  <2>8. QED
    BY <1>1, <1>2, <2>3, <2>4, <2>5, <2>6, <2>7 DEF Inductive
<1>5. CASE /\ c.live /\ UNCHANGED alerted
           /\ inbox' = [inbox EXCEPT !.error = TRUE, !.loading = FALSE, !.refreshing = FALSE]
  <2>1. /\ inbox' \in InboxType /\ inbox'.listing = inbox.listing /\ inbox'.error
        /\ ~inbox'.loading /\ ~inbox'.refreshing /\ inbox'.known = inbox.known
        /\ inbox'.page = inbox.page /\ inbox'.selected = inbox.selected
        /\ inbox'.polling = inbox.polling
    BY <1>5, ReplyFinds DEF InboxType
  <2>2. session # None
    BY <1>5, ReplyFinds
  <2>3. Types' /\ NoInboxIsEmpty' /\ AlertedAreKnown'
    BY <1>1, <1>2, <1>5, <2>1, <2>2 DEF Inductive, Types, NoInboxIsEmpty, AlertedAreKnown
  <2>4. MailIsOurs' /\ SettledPageIsShown' /\ ReaderShowsSelected'
    BY <1>1, <2>1 DEF Inductive, MailIsOurs, SettledPageIsShown, ReaderShowsSelected
  <2>5. NothingWaitsInVain'
    <3>1. Waits(inbox', reader', calls', session', hidden')
      BY <1>1, <1>2, <1>3, <1>5, <2>1, ReplyFinds DEF Waits
    <3>2. QED
      BY <3>1, WaitsIs
  <2>6. QED
    BY <1>1, <1>2, <2>1, <2>3, <2>4, <2>5 DEF Inductive
<1>6. CASE ~c.live /\ UNCHANGED <<inbox, alerted>>
  BY <1>1, <1>6, DropStep
<1>7. QED
  BY <1>4, <1>5, <1>6 DEF ListAnswered, Awaited

(* A refresh that closes the reader.                                        *)
LEMMA AskStep ==
    ASSUME Inductive, session # None, NEW i \in InboxType, NEW cs \in SUBSET CallType,
           CallsFit(cs, session, i.page, i.selected), i.selected = None,
           i.refreshing <=> LiveIn(cs, ListKinds),
           ~LiveIn(cs, Reading), ~LiveIn(cs, Acting),
           i.listing = inbox.listing, i.known = inbox.known, i.polling = inbox.polling,
           i.loading \/ i.refreshing \/ i.error \/ i.listing.page = i.page,
           Refresh(i, cs, session), reader' = NoReader,
           UNCHANGED <<session, hidden, mail, unsent, alerted>>
    PROVE  Inductive'
<1>1. /\ session \in Addresses /\ hidden \in BOOLEAN
      /\ Waits(inbox, reader, calls, session, hidden)
  BY WaitsIs DEF Inductive, Types
<1>2. /\ calls' \in SUBSET CallType
      /\ CallsFit(calls', session, i.page, i.selected)
      /\ inbox' \in InboxType
      /\ inbox'.refreshing <=> LiveIn(calls', ListKinds)
      /\ \A J : "list" \notin J => (LiveIn(calls', J) <=> LiveIn(cs, J))
      /\ ~inbox'.refreshing => hidden /\ inbox' = i
      /\ \A f \in {"listing", "selected", "page", "loading", "polling",
                   "initialized", "known"} : inbox'[f] = i[f]
  BY <1>1, Refreshes DEF Refresh
<1>3. Types' /\ NoInboxIsEmpty' /\ AlertedAreKnown'
  BY <1>1, <1>2, Empties DEF Inductive, Types, NoInboxIsEmpty, AlertedAreKnown
<1>4. MailIsOurs' /\ SettledPageIsShown' /\ ReaderShowsSelected'
  BY <1>2 DEF Inductive, MailIsOurs, SettledPageIsShown, ReaderShowsSelected, NoReader
<1>5. NothingWaitsInVain'
  <2>1. "list" \notin Reading /\ "list" \notin Acting
    BY DEF Reading, Acting
  <2>2. ~reader'.loading /\ reader'.busy = "none"
    BY DEF NoReader
  <2>3. Waits(inbox', reader', calls', session', hidden')
    BY <1>1, <1>2, <2>1, <2>2 DEF Waits
  <2>4. QED
    BY <2>3, WaitsIs
<1>6. QED
  BY <1>2, <1>3, <1>4, <1>5 DEF Inductive

(* Closing the reader silences its calls, and leaves the list's.            *)
LEMMA ReaderSilenced ==
    ASSUME Inductive, NEW cs \in SUBSET calls, NEW selected
    PROVE  /\ Silence(cs, ReaderKinds) \in SUBSET CallType
           /\ CallsFit(Silence(cs, ReaderKinds), session, inbox.page, selected)
           /\ LiveIn(Silence(cs, ReaderKinds), ListKinds) <=> LiveIn(cs, ListKinds)
           /\ ~LiveIn(Silence(cs, ReaderKinds), Reading)
           /\ ~LiveIn(Silence(cs, ReaderKinds), Acting)
<1>1. /\ calls \in SUBSET CallType
      /\ CallsFit(calls, session, inbox.page, inbox.selected)
  BY DEF Inductive, Types
<1>2. cs \in SUBSET CallType /\ OneLive(cs)
  BY <1>1 DEF CallsFit, OneLive
<1>3. \A d \in cs : AnswerFits(d) /\ LiveFits(d, session, inbox.page, inbox.selected)
  BY <1>1 DEF CallsFit
<1>4. \A d \in cs : d.kind \notin ReaderKinds => LiveFits(d, session, inbox.page, selected)
  BY <1>3 DEF LiveFits, ReaderKinds
<1>5. CallsFit(Silence(cs, ReaderKinds), session, inbox.page, selected)
  BY <1>2, <1>3, <1>4, SilencedFit
<1>6. /\ ListKinds \cap ReaderKinds = {} 
      /\ Reading \subseteq ReaderKinds /\ Acting \subseteq ReaderKinds
  BY DEF ListKinds, Reading, Acting, ReaderKinds
<1>7. QED
  BY <1>2, <1>5, <1>6, Silenced, SilencedLive

(* removeMessage() and removeStale(), upon the reply to a call of the reader. *)
LEMMA RemoveStep ==
    ASSUME Inductive, NEW c \in calls, c.live, c.kind \in ReaderKinds, Remove(calls \ {c}),
           UNCHANGED <<session, hidden, mail, unsent, alerted>>
    PROVE  Inductive'
<1> DEFINE i == [inbox EXCEPT !.selected = None]
           cs == Silence(calls \ {c}, ReaderKinds)
<1>1. Refresh(i, cs, session) /\ reader' = NoReader
  BY DEF Remove
<1>2. /\ i \in InboxType /\ i.selected = None
      /\ \A f \in {"listing", "page", "loading", "refreshing", "error", "polling",
                   "initialized", "known"} : i[f] = inbox[f]
  BY ReplyFinds DEF InboxType
<1>3. calls \ {c} \in SUBSET calls
  OBVIOUS
<1>4. /\ cs \in SUBSET CallType /\ CallsFit(cs, session, inbox.page, None)
      /\ LiveIn(cs, ListKinds) <=> LiveIn(calls \ {c}, ListKinds)
      /\ ~LiveIn(cs, Reading) /\ ~LiveIn(cs, Acting)
  BY <1>3, ReaderSilenced
<1>5. LiveIn(cs, ListKinds) <=> LiveIn(calls, ListKinds)
  <2>1. c.kind \notin ListKinds
    BY DEF ListKinds, ReaderKinds
  <2>2. QED
    BY <1>4, <2>1, ReplyFinds
<1>6. session # None /\ Waits(inbox, reader, calls, session, hidden)
  BY ReplyFinds
<1> HIDE DEF i, cs
<1>7. i.refreshing <=> LiveIn(cs, ListKinds)
  BY <1>2, <1>5, <1>6 DEF Waits
<1>8. i.loading \/ i.refreshing \/ i.error \/ i.listing.page = i.page
  BY <1>2, <1>6 DEF Inductive, SettledPageIsShown
<1>9. CallsFit(cs, session, i.page, i.selected)
  BY <1>2, <1>4
<1>10. i.listing = inbox.listing /\ i.known = inbox.known /\ i.polling = inbox.polling
  BY <1>2
<1>11. QED
  BY <1>1, <1>2, <1>4, <1>6, <1>7, <1>8, <1>9, <1>10, AskStep

(* changePage(): restartRefresh() forgets the refresh under way.             *)
LEMMA PageStep ==
    ASSUME Inductive, NEW n \in 0..MaxPage, ChangePage(n) PROVE Inductive'
<1> DEFINE o == [inbox EXCEPT !.page = n, !.selected = None, !.loading = TRUE]
           i == Restarted(o)
           ds == Silence(calls, ReaderKinds)
           cs == Silence(ds, ListKinds)
<1>1. Refresh(i, cs, session) /\ reader' = NoReader /\ session # None
  BY DEF ChangePage, RestartRefresh
<1>2. UNCHANGED <<session, hidden, mail, unsent, alerted>>
  BY DEF ChangePage, InboxUnchanged, server
<1>3. inbox \in InboxType
  BY DEF Inductive, Types
<1>4. /\ i \in InboxType /\ i.selected = None /\ i.loading /\ ~i.refreshing /\ i.page = n
      /\ i.listing = inbox.listing /\ i.known = inbox.known /\ i.polling = inbox.polling
  BY <1>3 DEF InboxType, Restarted
<1>5. /\ ds \in SUBSET CallType /\ CallsFit(ds, session, inbox.page, None)
      /\ ~LiveIn(ds, Reading) /\ ~LiveIn(ds, Acting)
  BY ReaderSilenced
<1> HIDE DEF ds, i
<1>6. /\ cs \in SUBSET CallType
      /\ ~LiveIn(cs, ListKinds) /\ ~LiveIn(cs, Reading) /\ ~LiveIn(cs, Acting)
  <2>1. Reading \cap ListKinds = {} /\ Acting \cap ListKinds = {}
    BY DEF ListKinds, Reading, Acting
  <2>2. QED
    BY <1>5, <2>1, Silenced, SilencedLive
<1>7. CallsFit(cs, session, n, None)
  <2>1. \A d \in ds : AnswerFits(d) /\ LiveFits(d, session, inbox.page, None)
    BY <1>5 DEF CallsFit
  <2>2. \A d \in ds : d.kind \notin ListKinds => LiveFits(d, session, n, None)
    BY <2>1 DEF LiveFits, ListKinds
  <2>3. OneLive(ds)
    BY <1>5 DEF CallsFit
  <2>4. QED
    BY <1>5, <2>1, <2>2, <2>3, SilencedFit
<1> HIDE DEF cs
<1>8. CallsFit(cs, session, i.page, i.selected)
  BY <1>4, <1>7
<1>9. i.refreshing <=> LiveIn(cs, ListKinds)
  BY <1>4, <1>6
<1>10. QED
  BY <1>1, <1>2, <1>4, <1>6, <1>8, <1>9, AskStep

-----------------------------------------------------------------------------
(* handleVisibility().                                                      *)

LEMMA HideStep == ASSUME Inductive, Hide PROVE Inductive'
<1>1. /\ UNCHANGED <<session, reader, calls, alerted, mail, unsent>>
      /\ hidden' = TRUE /\ inbox' = [inbox EXCEPT !.polling = FALSE]
  BY DEF Hide, InboxUnchanged, server
<1>2. /\ inbox \in InboxType /\ Waits(inbox, reader, calls, session, hidden)
  BY WaitsIs DEF Inductive, Types
<1>3. /\ inbox' \in InboxType /\ ~inbox'.polling
      /\ \A f \in {"listing", "selected", "page", "loading", "refreshing", "error",
                   "initialized", "known"} : inbox'[f] = inbox[f]
  BY <1>1, <1>2 DEF InboxType
<1>4. session = None => inbox' = NoInbox
  <2>1. session = None => inbox = NoInbox
    BY DEF Inductive, NoInboxIsEmpty
  <2>2. session = None => ~inbox.polling
    BY <1>2 DEF Waits
  <2>3. ~inbox.polling => [inbox EXCEPT !.polling = FALSE] = inbox
    BY <1>2 DEF InboxType
  <2>4. QED
    BY <1>1, <2>1, <2>2, <2>3
<1>5. Types' /\ NoInboxIsEmpty' /\ AlertedAreKnown'
  BY <1>1, <1>3, <1>4 DEF Inductive, Types, NoInboxIsEmpty, AlertedAreKnown
<1>6. MailIsOurs' /\ SettledPageIsShown' /\ ReaderShowsSelected'
  BY <1>1, <1>3 DEF Inductive, MailIsOurs, SettledPageIsShown, ReaderShowsSelected
<1>7. NothingWaitsInVain'
  <2>1. Waits(inbox', reader', calls', session', hidden')
    BY <1>1, <1>2, <1>3 DEF Waits
  <2>2. QED
    BY <2>1, WaitsIs
<1>8. CallsFit(calls', session', inbox'.page, inbox'.selected)
  BY <1>1, <1>3 DEF Inductive
<1>9. QED
  BY <1>5, <1>6, <1>7, <1>8 DEF Inductive

(* The page that was hidden is looked at again: the list is asked for in    *)
(* any case.                                                                *)
LEMMA ReturnStep == ASSUME Inductive, Return PROVE Inductive'
<1>1. /\ UNCHANGED <<session, reader, alerted, mail, unsent>> /\ hidden' = FALSE
  BY DEF Return, InboxUnchanged, server
<1>2. /\ inbox \in InboxType /\ Waits(inbox, reader, calls, session, hidden)
      /\ calls \in SUBSET CallType
      /\ CallsFit(calls, session, inbox.page, inbox.selected)
  BY WaitsIs DEF Inductive, Types
<1>3. CASE session = None /\ UNCHANGED <<inbox, calls>>
  <2>1. inbox = NoInbox
    BY <1>3 DEF Inductive, NoInboxIsEmpty
  <2>2. Types' /\ NoInboxIsEmpty' /\ AlertedAreKnown'
    BY <1>1, <1>3 DEF Inductive, Types, NoInboxIsEmpty, AlertedAreKnown
  <2>3. MailIsOurs' /\ SettledPageIsShown' /\ ReaderShowsSelected'
    BY <1>1, <1>3 DEF Inductive, MailIsOurs, SettledPageIsShown, ReaderShowsSelected
  <2>4. NothingWaitsInVain'
    <3>1. ~inbox.loading
      BY <2>1 DEF NoInbox
    <3>2. Waits(inbox', reader', calls', session', hidden')
      BY <1>1, <1>2, <1>3, <3>1 DEF Waits
    <3>3. QED
      BY <3>2, WaitsIs
  <2>5. QED
    BY <1>1, <1>2, <1>3, <2>2, <2>3, <2>4 DEF Inductive
<1>4. CASE /\ session # None
           /\ inbox' = [inbox EXCEPT !.refreshing = TRUE, !.error = FALSE, !.polling = TRUE]
           /\ calls' = Silence(calls, ListKinds) \cup {Call("list", session, inbox.page)}
  <2> DEFINE cs == Silence(calls, ListKinds)
  <2>1. session \in Addresses
    BY <1>4 DEF Inductive, Types
  <2>2. /\ inbox' \in InboxType /\ inbox'.polling /\ inbox'.refreshing
        /\ \A f \in {"listing", "selected", "page", "loading",
                     "initialized", "known"} : inbox'[f] = inbox[f]
    BY <1>2, <1>4 DEF InboxType
  <2>3. cs \in SUBSET CallType /\ CallsFit(cs, session, inbox.page, inbox.selected)
    <3>1. \A d \in calls : AnswerFits(d) /\ LiveFits(d, session, inbox.page, inbox.selected)
      BY <1>2 DEF CallsFit
    <3>2. OneLive(calls)
      BY <1>2 DEF CallsFit
    <3>3. QED
      BY <1>2, <3>1, <3>2, Silenced, SilencedFit
  <2>4. /\ ~LiveIn(cs, ListKinds)
        /\ \A J : "list" \notin J => (LiveIn(cs, J) <=> LiveIn(calls, J))
    BY <1>2, SilencedLive DEF ListKinds
  <2>5. \A K \in Kinds : "list" \in K => ~LiveIn(cs, K)
    BY <2>4 DEF Kinds, Reading, Acting
  <2>6. /\ "list" \in ListKinds \cup ReaderKinds
        /\ inbox.page \in 0..MaxPage /\ inbox.page \in Messages \cup {None} \cup 0..MaxPage
    BY <1>2 DEF InboxType, ListKinds
  <2> HIDE DEF cs
  <2>7. /\ CallsFit(cs \cup {Call("list", session, inbox.page)},
                    session, inbox.page, inbox.selected)
        /\ cs \cup {Call("list", session, inbox.page)} \in SUBSET CallType
        /\ \A J : LiveIn(cs \cup {Call("list", session, inbox.page)}, J)
                    <=> "list" \in J \/ LiveIn(cs, J)
    BY <2>1, <2>3, <2>5, <2>6, AddedFits
  <2>8. calls' = cs \cup {Call("list", session, inbox.page)}
    BY <1>4 DEF cs
  <2>9. Types' /\ NoInboxIsEmpty' /\ AlertedAreKnown'
    BY <1>1, <1>4, <2>2, <2>7, <2>8 DEF Inductive, Types, NoInboxIsEmpty, AlertedAreKnown
  <2>10. MailIsOurs' /\ SettledPageIsShown' /\ ReaderShowsSelected'
    BY <1>1, <2>2 DEF Inductive, MailIsOurs, SettledPageIsShown, ReaderShowsSelected
  <2>11. NothingWaitsInVain'
    <3>1. "list" \notin Reading /\ "list" \notin Acting /\ "list" \in ListKinds
      BY DEF Reading, Acting, ListKinds
    <3>2. Waits(inbox', reader', calls', session', hidden')
      BY <1>1, <1>2, <1>4, <2>2, <2>4, <2>7, <2>8, <3>1 DEF Waits
    <3>3. QED
      BY <3>2, WaitsIs
  <2>12. QED
    BY <1>1, <2>2, <2>7, <2>8, <2>9, <2>10, <2>11 DEF Inductive
<1>5. QED
  BY <1>3, <1>4 DEF Return

-----------------------------------------------------------------------------
(* The reader.                                                              *)

LEMMA LoadStep ==
    ASSUME Inductive, session # None, NEW m \in Messages \cup {None},
           inbox' = [inbox EXCEPT !.selected = m], LoadMessage(m), ReaderUnchanged
    PROVE  Inductive'
<1>1. /\ UNCHANGED <<session, hidden, alerted, mail, unsent>>
      /\ reader' = LoadingReader
  BY DEF ReaderUnchanged, LoadMessage, server
<1>2. /\ inbox \in InboxType /\ Waits(inbox, reader, calls, session, hidden)
      /\ session \in Addresses
  BY WaitsIs DEF Inductive, Types
<1>3. /\ inbox' \in InboxType /\ inbox'.selected = m
      /\ \A f \in {"listing", "page", "loading", "refreshing", "error", "polling",
                   "initialized", "known"} : inbox'[f] = inbox[f]
  BY <1>2 DEF InboxType
<1>4. /\ reader' \in ReaderType /\ reader'.shown = None /\ reader'.loading
      /\ reader'.busy = "none"
  BY <1>1, Empties DEF LoadingReader, NoReader, ReaderType
<1> DEFINE cs == Silence(calls, ReaderKinds)
<1>5. /\ cs \in SUBSET CallType /\ CallsFit(cs, session, inbox.page, m)
      /\ LiveIn(cs, ListKinds) <=> LiveIn(calls, ListKinds)
      /\ ~LiveIn(cs, Reading) /\ ~LiveIn(cs, Acting)
  BY ReaderSilenced
<1>6. calls' = cs \cup {Call("message", session, m)}
  BY DEF LoadMessage, Reloaded
<1> HIDE DEF cs
<1>7. \A K \in Kinds : "message" \in K => ~LiveIn(cs, K)
  BY <1>5 DEF Kinds, ListKinds, Acting
<1>8. "message" \in ListKinds \cup ReaderKinds /\ m \in Messages \cup {None} \cup 0..MaxPage
  BY DEF ReaderKinds
<1>9. /\ CallsFit(cs \cup {Call("message", session, m)}, session, inbox.page, m)
      /\ cs \cup {Call("message", session, m)} \in SUBSET CallType
      /\ \A J : LiveIn(cs \cup {Call("message", session, m)}, J) <=> "message" \in J \/ LiveIn(cs, J)
  BY <1>2, <1>5, <1>7, <1>8, AddedFits
<1>10. Types' /\ NoInboxIsEmpty' /\ AlertedAreKnown'
  BY <1>1, <1>3, <1>4, <1>6, <1>9 DEF Inductive, Types, NoInboxIsEmpty, AlertedAreKnown
<1>11. MailIsOurs' /\ SettledPageIsShown' /\ ReaderShowsSelected'
  BY <1>1, <1>3, <1>4 DEF Inductive, MailIsOurs, SettledPageIsShown, ReaderShowsSelected
<1>12. NothingWaitsInVain'
  <2>1. "message" \notin ListKinds /\ "message" \in Reading /\ "message" \notin Acting
    BY DEF ListKinds, Reading, Acting
  <2>2. Waits(inbox', reader', calls', session', hidden')
    BY <1>1, <1>2, <1>3, <1>4, <1>5, <1>6, <1>9, <2>1 DEF Waits
  <2>3. QED
    BY <2>2, WaitsIs
<1>13. QED
  BY <1>1, <1>3, <1>6, <1>9, <1>10, <1>11, <1>12 DEF Inductive

LEMMA SelectStep == ASSUME Inductive, NEW m \in Messages, Select(m) PROVE Inductive'
<1>1. session # None
  <2>1. m \in RowSet(inbox.listing.rows)
    BY DEF Select
  <2>2. NoInbox.listing = NoListing
    BY DEF NoInbox
  <2>3. QED
    BY <2>1, <2>2, Empties DEF Inductive, NoInboxIsEmpty
<1>2. QED
  BY <1>1, LoadStep DEF Select

LEMMA RetryStep == ASSUME Inductive, RetryMessage PROVE Inductive'
<1>1. session # None
  BY DEF RetryMessage, Inductive, NoInboxIsEmpty, NoReader
<1>2. inbox.selected \in Messages \cup {None} /\ inbox \in InboxType
  BY DEF Inductive, Types, InboxType
<1>3. inbox' = [inbox EXCEPT !.selected = inbox.selected]
  BY <1>2 DEF RetryMessage, InboxType
<1>4. QED
  BY <1>1, <1>2, <1>3, LoadStep DEF RetryMessage

LEMMA CloseReaderStep == ASSUME Inductive, CloseReader PROVE Inductive'
<1>1. /\ UNCHANGED <<session, hidden, alerted, mail, unsent>>
      /\ reader' = NoReader /\ inbox' = [inbox EXCEPT !.selected = None]
      /\ calls' = Silence(calls, ReaderKinds)
  BY DEF ReaderUnchanged, CloseReader, server
<1>2. /\ inbox \in InboxType /\ Waits(inbox, reader, calls, session, hidden)
  BY WaitsIs DEF Inductive, Types
<1>3. /\ inbox' \in InboxType /\ inbox'.selected = None
      /\ \A f \in {"listing", "page", "loading", "refreshing", "error", "polling",
                   "initialized", "known"} : inbox'[f] = inbox[f]
  BY <1>1, <1>2 DEF InboxType
<1>4. session # None
  BY DEF CloseReader, Inductive, NoInboxIsEmpty, NoInbox
<1>5. /\ calls' \in SUBSET CallType /\ CallsFit(calls', session, inbox.page, None)
      /\ LiveIn(calls', ListKinds) <=> LiveIn(calls, ListKinds)
      /\ ~LiveIn(calls', Reading) /\ ~LiveIn(calls', Acting)
  BY <1>1, ReaderSilenced
<1>6. Types' /\ NoInboxIsEmpty' /\ AlertedAreKnown'
  BY <1>1, <1>3, <1>4, <1>5, Empties DEF Inductive, Types, NoInboxIsEmpty, AlertedAreKnown
<1>7. MailIsOurs' /\ SettledPageIsShown' /\ ReaderShowsSelected'
  BY <1>1, <1>3
     DEF Inductive, MailIsOurs, SettledPageIsShown, ReaderShowsSelected, NoReader
<1>8. NothingWaitsInVain'
  <2>1. ~reader'.loading /\ reader'.busy = "none"
    BY <1>1 DEF NoReader
  <2>2. Waits(inbox', reader', calls', session', hidden')
    BY <1>1, <1>2, <1>3, <1>5, <2>1 DEF Waits
  <2>3. QED
    BY <2>2, WaitsIs
<1>9. QED
  BY <1>1, <1>3, <1>5, <1>6, <1>7, <1>8 DEF Inductive

(* What the reader shows is selected, and was sent to the address.          *)
LEMMA ShownIsOurs ==
    ASSUME Inductive, reader.shown # None
    PROVE  /\ session # None /\ session \in Addresses /\ reader.shown \in Messages
           /\ reader.shown = inbox.selected /\ session \in To[reader.shown]
<1>1. session # None
  BY DEF Inductive, NoInboxIsEmpty, NoReader
<1>2. QED
  BY <1>1 DEF Inductive, Types, ReaderType, ReaderShowsSelected, MailIsOurs

(* Download and DeleteCurrent.                                              *)
LEMMA ActStep ==
    ASSUME Inductive, NEW k \in Acting, reader.shown # None, reader.busy = "none",
           reader' = [reader EXCEPT !.busy = k],
           calls' = calls \cup {Call(k, session, reader.shown)},
           UNCHANGED <<session, hidden, inbox, mail, unsent, alerted>>
    PROVE  Inductive'
<1>1. /\ calls \in SUBSET CallType /\ Waits(inbox, reader, calls, session, hidden)
      /\ CallsFit(calls, session, inbox.page, inbox.selected) /\ reader \in ReaderType
  BY WaitsIs DEF Inductive, Types
<1>2. /\ session # None /\ session \in Addresses /\ reader.shown \in Messages
      /\ reader.shown = inbox.selected /\ session \in To[reader.shown]
  BY ShownIsOurs
<1>3. /\ reader' \in ReaderType /\ reader'.shown = reader.shown
      /\ reader'.loading = reader.loading /\ reader'.busy # "none"
  BY <1>1 DEF ReaderType, Acting
<1>4. \A K \in Kinds : k \in K => ~LiveIn(calls, K)
  BY <1>1 DEF Waits, Kinds, ListKinds, Reading, Acting
<1>5. /\ k \in ListKinds \cup ReaderKinds /\ k # "list" /\ k # "message"
      /\ reader.shown \in Messages \cup {None} \cup 0..MaxPage
  BY <1>2 DEF Acting, ReaderKinds
<1>6. /\ CallsFit(calls', session, inbox.page, inbox.selected)
      /\ calls' \in SUBSET CallType
      /\ \A J : LiveIn(calls', J) <=> k \in J \/ LiveIn(calls, J)
  <2> DEFINE x == reader.shown
  <2>1. x \in Messages \cup {None} \cup 0..MaxPage
    BY <1>5
  <2> HIDE DEF x
  <2>2. /\ CallsFit(calls \cup {Call(k, session, x)}, session, inbox.page, inbox.selected)
        /\ calls \cup {Call(k, session, x)} \in SUBSET CallType
        /\ \A J : LiveIn(calls \cup {Call(k, session, x)}, J) <=> k \in J \/ LiveIn(calls, J)
    BY <1>1, <1>2, <1>4, <1>5, <2>1, AddedFits
  <2>3. QED
    BY <2>2 DEF x
<1>7. Waits(inbox, reader', calls', session, hidden)
  <2>1. k \notin ListKinds /\ k \notin Reading
    BY DEF ListKinds, Reading, Acting
  <2>2. QED
    BY <1>1, <1>3, <1>6, <2>1 DEF Waits
<1>8. QED
  BY <1>2, <1>3, <1>6, <1>7, KeepsInbox

(* A reply to the reader that does not close it: what it still waits for    *)
(* are the calls that are left.                                             *)
LEMMA ReaderGoesOn ==
    ASSUME Inductive, NEW c \in calls, c.live, NEW r \in ReaderType,
           reader' = r, calls' = calls \ {c},
           UNCHANGED <<session, hidden, inbox, mail, unsent, alerted>>,
           r.shown # reader.shown => r.shown = inbox.selected /\ session \in To[r.shown],
           \/ c.kind \in Reading /\ ~r.loading /\ r.busy = reader.busy
           \/ c.kind \in Acting /\ r.busy = "none" /\ r.loading = reader.loading
    PROVE  Inductive'
<1>1. /\ calls' \in SUBSET CallType /\ session # None
      /\ CallsFit(calls', session, inbox.page, inbox.selected)
      /\ Waits(inbox, reader, calls, session, hidden)
      /\ \A J : c.kind \notin J => (LiveIn(calls', J) <=> LiveIn(calls, J))
      /\ \A J \in Kinds : c.kind \in J => ~LiveIn(calls', J)
  BY ReplyFinds
<1>2. r.shown # None => r.shown = inbox.selected /\ session \in To[r.shown]
  BY ShownIsOurs
<1>3. Waits(inbox, r, calls', session, hidden)
  <2>1. CASE c.kind \in Reading /\ ~r.loading /\ r.busy = reader.busy
    <3>1. c.kind \notin ListKinds /\ c.kind \notin Acting /\ Reading \in Kinds
      BY <2>1 DEF ListKinds, Reading, Acting, Kinds
    <3>2. QED
      BY <1>1, <2>1, <3>1 DEF Waits
  <2>2. CASE c.kind \in Acting /\ r.busy = "none" /\ r.loading = reader.loading
    <3>1. c.kind \notin ListKinds /\ c.kind \notin Reading /\ Acting \in Kinds
      BY <2>2 DEF ListKinds, Reading, Acting, Kinds
    <3>2. QED
      BY <1>1, <2>2, <3>1 DEF Waits
  <2>3. QED
    BY <2>1, <2>2
<1>4. QED
  BY <1>1, <1>2, <1>3, KeepsInbox

LEMMA ReaderStep ==
    ASSUME Inductive, NEW c \in calls, NEW outcome \in Outcomes(c), ReaderAnswered(c, outcome)
    PROVE  Inductive'
<1>1. UNCHANGED <<session, hidden, mail, unsent, alerted>>
  BY DEF ReaderAnswered, ReaderUnchanged, server
<1>2. reader \in ReaderType /\ c \in CallType
  BY ReplyFinds
<1>3. CASE c.live /\ c.kind = "message" /\ MessageLoaded(c, outcome)
  <2>1. c.arg = inbox.selected /\ session = c.box /\ session # None /\ session \in Addresses
    BY <1>3, ReplyFinds
  <2>2. outcome = "ok" => c.arg \in Messages /\ session \in To[c.arg]
    <3>1. outcome = "ok" => c.answer = "ok"
      BY <1>3 DEF Outcomes
    <3>2. QED
      BY <1>3, <2>1, <3>1, ReplyFinds DEF AnswerFits
  <2>3. c.kind \in Reading
    BY <1>3 DEF Reading
  <2>4. CASE /\ outcome = "ok" /\ calls' = calls \ {c} /\ UNCHANGED inbox
             /\ reader' = [reader EXCEPT !.shown = c.arg, !.loading = FALSE]
    <3> DEFINE r == [reader EXCEPT !.shown = c.arg, !.loading = FALSE]
    <3>1. r \in ReaderType /\ r.shown = c.arg /\ ~r.loading /\ r.busy = reader.busy
      BY <1>2, <2>2, <2>4 DEF ReaderType
    <3> HIDE DEF r
    <3>2. reader' = r
      BY <2>4 DEF r
    <3>3. QED
      BY <1>1, <1>3, <2>1, <2>2, <2>3, <2>4, <3>1, <3>2, ReaderGoesOn
  <2>5. CASE /\ outcome = "ok" /\ UNCHANGED inbox
             /\ reader' = [reader EXCEPT !.shown = c.arg]
             /\ calls' = (calls \ {c}) \cup {Call("seen", c.box, c.arg)}
    <3> DEFINE r == [reader EXCEPT !.shown = c.arg]
               cs == calls \ {c}
    <3>1. /\ r \in ReaderType /\ r.shown = c.arg /\ r.loading = reader.loading
          /\ r.busy = reader.busy
      BY <1>2, <2>2, <2>5 DEF ReaderType
    <3>2. reader' = r
      BY <2>5
    <3> HIDE DEF r
    <3>3. /\ Reading \in Kinds /\ Acting \in Kinds /\ ListKinds \in Kinds
          /\ "message" \notin ListKinds /\ "message" \notin Acting /\ "message" \in Reading
          /\ "seen" \notin ListKinds /\ "seen" \notin Acting /\ "seen" \in Reading
          /\ \A K \in Kinds : "seen" \in K => K = Reading
          /\ "seen" \in ListKinds \cup ReaderKinds
      BY DEF Kinds, ListKinds, Reading, Acting, ReaderKinds
    <3>4. /\ cs \in SUBSET CallType /\ CallsFit(cs, session, inbox.page, inbox.selected)
          /\ ~LiveIn(cs, Reading) /\ (LiveIn(cs, Acting) <=> LiveIn(calls, Acting))
          /\ LiveIn(calls, Reading)
          /\ LiveIn(cs, ListKinds) <=> LiveIn(calls, ListKinds)
          /\ Waits(inbox, reader, calls, session, hidden)
      <4>1. LiveIn(calls, Reading)
        BY <1>3, <3>3 DEF LiveIn
      <4>2. /\ cs \in SUBSET CallType /\ CallsFit(cs, session, inbox.page, inbox.selected)
            /\ Waits(inbox, reader, calls, session, hidden)
            /\ \A J : c.kind \notin J => (LiveIn(cs, J) <=> LiveIn(calls, J))
            /\ \A J \in Kinds : c.kind \in J => ~LiveIn(cs, J)
        BY <1>3, ReplyFinds
      <4> HIDE DEF cs
      <4>3. QED
        BY <1>3, <3>3, <4>1, <4>2
    <3> HIDE DEF cs
    <3>5. c.arg \in Messages \cup {None} \cup 0..MaxPage
      BY <2>2, <2>5
    <3>6. \A K \in Kinds : "seen" \in K => ~LiveIn(cs, K)
      BY <3>3, <3>4
    <3> DEFINE x == c.arg
    <3>7. /\ CallsFit(cs \cup {Call("seen", session, x)},
                      session, inbox.page, inbox.selected)
          /\ cs \cup {Call("seen", session, x)} \in SUBSET CallType
          /\ \A J : LiveIn(cs \cup {Call("seen", session, x)}, J)
                      <=> "seen" \in J \/ LiveIn(cs, J)
      <4>1. x \in Messages \cup {None} \cup 0..MaxPage
        BY <3>5
      <4> HIDE DEF x
      <4> DEFINE k == "seen"
      <4>2. k \in ListKinds \cup ReaderKinds /\ k # "list" /\ k # "message"
        BY <3>3
      <4>3. /\ session \in Addresses /\ cs \in SUBSET CallType
            /\ CallsFit(cs, session, inbox.page, inbox.selected)
        BY <2>1, <3>4
      <4>4. \A K \in Kinds : k \in K => ~LiveIn(cs, K)
        BY <3>6
      <4> HIDE DEF k
      <4>5. /\ CallsFit(cs \cup {Call(k, session, x)}, session, inbox.page, inbox.selected)
            /\ cs \cup {Call(k, session, x)} \in SUBSET CallType
            /\ \A J : LiveIn(cs \cup {Call(k, session, x)}, J) <=> k \in J \/ LiveIn(cs, J)
        BY <4>1, <4>2, <4>3, <4>4, AddedFits
      <4>6. QED
        BY <4>5 DEF k
    <3>8. calls' = cs \cup {Call("seen", session, x)}
      BY <2>1, <2>5 DEF cs
    <3>9. Waits(inbox, reader', calls', session, hidden)
      BY <3>1, <3>2, <3>3, <3>4, <3>7, <3>8 DEF Waits
    <3>10. /\ calls' \in SUBSET CallType
           /\ CallsFit(calls', session, inbox.page, inbox.selected)
      BY <3>7, <3>8
    <3>11. reader'.shown = inbox.selected /\ session \in To[reader'.shown]
      BY <2>1, <2>2, <2>5, <3>1, <3>2
    <3>12. QED
      BY <1>1, <2>1, <2>5, <3>1, <3>2, <3>9, <3>10, <3>11, KeepsInbox
  <2>6. CASE outcome = "gone" /\ Remove(calls \ {c})
    <3>1. c.kind \in ReaderKinds
      BY <1>3 DEF ReaderKinds
    <3>2. QED
      BY <1>1, <1>3, <2>6, <3>1, RemoveStep
  <2>7. CASE /\ calls' = calls \ {c} /\ UNCHANGED inbox
             /\ reader' = [reader EXCEPT !.error = TRUE, !.loading = FALSE]
    <3> DEFINE r == [reader EXCEPT !.error = TRUE, !.loading = FALSE]
    <3>1. r \in ReaderType /\ r.shown = reader.shown /\ ~r.loading /\ r.busy = reader.busy
      BY <1>2 DEF ReaderType
    <3> HIDE DEF r
    <3>2. reader' = r
      BY <2>7 DEF r
    <3>3. QED
      BY <1>1, <1>3, <2>3, <2>7, <3>1, <3>2, ReaderGoesOn
  <2>8. QED
    BY <1>3, <2>4, <2>5, <2>6, <2>7 DEF MessageLoaded
<1>4. CASE c.live /\ c.kind = "seen" /\ SeenSaved(c)
  <2> DEFINE r == [reader EXCEPT !.loading = FALSE]
  <2>1. r \in ReaderType /\ r.shown = reader.shown /\ ~r.loading /\ r.busy = reader.busy
    BY <1>2 DEF ReaderType
  <2> HIDE DEF r
  <2>2. reader' = r /\ calls' = calls \ {c} /\ UNCHANGED inbox /\ c.kind \in Reading
    BY <1>4 DEF r, SeenSaved, Reading
  <2>3. QED
    BY <1>1, <1>4, <2>1, <2>2, ReaderGoesOn
<1>5. CASE c.live /\ c.kind \in {"delete", "source"} /\ ActionEnded(c, outcome)
  <2>1. CASE Remove(calls \ {c})
    <3>1. c.kind \in ReaderKinds
      BY <1>5 DEF ReaderKinds
    <3>2. QED
      BY <1>1, <1>5, <2>1, <3>1, RemoveStep
  <2>2. CASE /\ calls' = calls \ {c} /\ UNCHANGED inbox
             /\ reader' = [reader EXCEPT !.busy = "none"]
    <3> DEFINE r == [reader EXCEPT !.busy = "none"]
    <3>1. r \in ReaderType /\ r.shown = reader.shown /\ r.busy = "none" /\ r.loading = reader.loading
      BY <1>2 DEF ReaderType
    <3> HIDE DEF r
    <3>2. reader' = r /\ c.kind \in Acting
      BY <1>5, <2>2 DEF r, Acting
    <3>3. QED
      BY <1>1, <1>5, <2>2, <3>1, <3>2, ReaderGoesOn
  <2>3. QED
    BY <1>5, <2>1, <2>2 DEF ActionEnded
<1>6. CASE ~c.live /\ calls' = calls \ {c} /\ UNCHANGED <<inbox, reader>>
  BY <1>1, <1>6, DropStep
<1>7. QED
  BY <1>3, <1>4, <1>5, <1>6 DEF ReaderAnswered, Awaited

-----------------------------------------------------------------------------

LEMMA InductiveNext == Inductive /\ [Next]_vars => Inductive'
<1> SUFFICES ASSUME Inductive, [Next]_vars PROVE Inductive'
  OBVIOUS
<1>1. CASE CloseSession \/ Hide \/ Return
  BY <1>1, CloseStep, HideStep, ReturnStep
<1>2. CASE ClickRefresh \/ Poll
  BY <1>2, PollStep
<1>3. CASE RetryMessage \/ CloseReader
  BY <1>3, RetryStep, CloseReaderStep
<1>4. CASE Download \/ DeleteCurrent
  <2>1. PICK k \in Acting : /\ reader.shown # None /\ reader.busy = "none"
                            /\ reader' = [reader EXCEPT !.busy = k]
                            /\ calls' = calls \cup {Call(k, session, reader.shown)}
    BY <1>4 DEF Download, DeleteCurrent, BusyWith, Acting
  <2>2. UNCHANGED <<session, hidden, inbox, mail, unsent, alerted>>
    BY <1>4 DEF Download, DeleteCurrent, ReaderUnchanged, server
  <2>3. QED
    BY <2>1, <2>2, ActStep
<1>5. ASSUME NEW t \in Addresses, OpenSession(t) PROVE Inductive'
  BY <1>5, OpenStep
<1>6. ASSUME NEW n \in 0..MaxPage, ChangePage(n) PROVE Inductive'
  BY <1>6, PageStep
<1>7. ASSUME NEW m \in Messages, Select(m) PROVE Inductive'
  BY <1>7, SelectStep
<1>8. ASSUME NEW c \in calls, Serve(c) \/ Answer(c) PROVE Inductive'
  BY <1>8, ServeStep, ListStep, ReaderStep DEF Answer
<1>9. ASSUME NEW m \in Messages, Arrive(m) \/ Expire(m) PROVE Inductive'
  BY <1>9, MailStep
<1>10. CASE UNCHANGED vars
  <2>1. UNCHANGED <<session, hidden, inbox, reader, alerted, calls, mail, unsent>>
    BY <1>10 DEF vars
  <2>2. Types' /\ NoInboxIsEmpty' /\ AlertedAreKnown' /\ MailIsOurs' /\ SettledPageIsShown'
    BY <2>1 DEF Inductive, Types, NoInboxIsEmpty, AlertedAreKnown, MailIsOurs,
                SettledPageIsShown
  <2>3. ReaderShowsSelected' /\ NothingWaitsInVain'
    BY <2>1 DEF Inductive, ReaderShowsSelected, NothingWaitsInVain, LiveCall
  <2>4. CallsFit(calls', session', inbox'.page, inbox'.selected)
    BY <2>1 DEF Inductive
  <2>5. QED
    BY <2>2, <2>3, <2>4 DEF Inductive
<1>11. QED
  BY <1>1, <1>2, <1>3, <1>4, <1>5, <1>6, <1>7, <1>8, <1>9, <1>10 DEF Next, User

(* The invariant holds in every state.                                      *)
THEOREM Invariant == Spec => []Inductive
BY InitInductive, InductiveNext, PTL DEF Spec

(* The mail on the screen was sent to the address whose inbox is open: no   *)
(* reply to a call of an inbox that was open before is shown.                *)
THEOREM OnlyOurMail == Spec => []MailIsOurs
<1>1. Inductive => MailIsOurs
  BY DEF Inductive
<1>2. QED
  BY <1>1, Invariant, PTL

(* An inbox that waits for nothing and reports no error lists the page whose *)
(* number it shows, in whatever order the replies came.                      *)
THEOREM PagesSettle == Spec => []SettledPageIsShown
<1>1. Inductive => SettledPageIsShown
  BY DEF Inductive
<1>2. QED
  BY <1>1, Invariant, PTL

(* The reader shows the message that is selected, or none.                   *)
THEOREM ReaderFollows == Spec => []ReaderShowsSelected
<1>1. Inductive => ReaderShowsSelected
  BY DEF Inductive
<1>2. QED
  BY <1>1, Invariant, PTL

(* No message is announced twice while an inbox is open.                     *)
THEOREM NoSecondNotice == Spec => []AnnouncedOnce
<1>1. Inductive => AnnouncedOnce
  <2> SUFFICES ASSUME Inductive, NEW m \in Messages PROVE alerted[m] <= 1
    BY DEF AnnouncedOnce
  <2>1. alerted[m] \in {0, 1}
    BY DEF Inductive, AlertedAreKnown
  <2>2. QED
    BY <2>1
<1>2. QED
  BY <1>1, Invariant, PTL

(* While a refresh, a message or an action is awaited there is a live call   *)
(* for it, and a visible inbox is polled.                                    *)
THEOREM AwaitedIsUnderWay == Spec => []NothingWaitsInVain
<1>1. Inductive => NothingWaitsInVain
  BY DEF Inductive
<1>2. QED
  BY <1>1, Invariant, PTL

-----------------------------------------------------------------------------
(* The bounds of TypeOK: how many calls are under way, and that the account  *)
(* has no message twice, so that no page is longer than all messages.        *)

Short(l) == Len(l.rows) <= Cardinality(Messages)

(* At most n calls, none with too long an answer.                           *)
CallsSized(cs, n) ==
    /\ cs \in SUBSET CallType /\ IsFiniteSet(cs) /\ Cardinality(cs) <= n
    /\ \A c \in cs : Short(c.listing)

(* The interval may add a call to those allowed for, but only while no list  *)
(* is awaited.                                                              *)
Bounded(cs, s, refreshing) ==
    /\ CallsSized(cs, MaxInFlight + 1)
    /\ s # None /\ ~refreshing => CallsSized(cs, MaxInFlight)

Once(s) == \A i, j \in 1..Len(s) : s[i] = s[j] => i = j

CallsBounded == Bounded(calls, session, inbox.refreshing) /\ Short(inbox.listing)
MailOnce     == Once(mail) /\ RowSet(mail) \cap unsent = {}
Sizes        == CallsBounded /\ MailOnce

LEMMA OnceCounts ==
    ASSUME NEW s \in Seq(Messages), Once(s)
    PROVE  Len(s) = Cardinality(RowSet(s)) /\ Len(s) <= Cardinality(Messages)
<1> DEFINE f == [i \in 1..Len(s) |-> s[i]]
<1>1. Len(s) \in Nat /\ RowSet(s) \subseteq Messages
  BY DEF RowSet
<1>2. f \in [1..Len(s) -> RowSet(s)]
  BY DEF RowSet
<1>3. \A i, j \in 1..Len(s) : f[i] = f[j] => i = j
  BY DEF Once
<1>4. \A m \in RowSet(s) : \E i \in 1..Len(s) : f[i] = m
  BY DEF RowSet
<1>5. f \in Bijection(1..Len(s), RowSet(s))
  BY <1>2, <1>3, <1>4 DEF Bijection, Injection, Surjection, IsInjective
<1>6. Cardinality(RowSet(s)) = Len(s)
  BY <1>1, <1>5, FS_CountingElements DEF ExistsBijection
<1>7. QED
  BY <1>1, <1>6, InboxAssumption, FS_Subset

(* Only() repeats nothing, and returns what was there.                      *)
LEMMA OnlyOnce ==
    ASSUME NEW s \in Seq(Messages), NEW T, Once(s)
    PROVE  Once(Only(s, T)) /\ RowSet(Only(s, T)) \subseteq RowSet(s)
<1>1. PICK f : Keeps(f, s, T, Len(s)) /\ Only(s, T) = f[Len(s)]
  BY OnlyIs
<1> DEFINE Good(k) == /\ f[k] \in Seq(Messages) /\ Once(f[k])
                      /\ \A j \in 1..Len(f[k]) : \E i \in 1..k : f[k][j] = s[i]
           G == {k \in 0..Len(s) : Good(k)}
<1>2. 0 \in G
  <2>1. f[0] = << >>
    <3>1. Fill(f, s, T, 0)
      BY <1>1 DEF Keeps
    <3>2. QED
      BY <3>1 DEF Fill
  <2>2. << >> \in Seq(Messages) /\ Once(<< >>) /\ Len(<< >>) = 0
    BY DEF Once
  <2>3. Good(0)
    BY <2>1, <2>2
  <2> HIDE DEF Good
  <2>4. QED
    BY <2>3
<1>3. ASSUME NEW k \in 0..(Len(s) - 1), k \in G PROVE k + 1 \in G
  <2>1. k + 1 \in 1..Len(s) /\ (k + 1) - 1 = k /\ k + 1 # 0 /\ s[k+1] \in Messages
    OBVIOUS
  <2>2. Fill(f, s, T, k+1)
    BY <1>1, <2>1 DEF Keeps
  <2>3. f[k+1] = IF s[k+1] \in T THEN Append(f[k], s[k+1]) ELSE f[k]
    BY <2>1, <2>2 DEF Fill
  <2>4. Good(k)
    BY <1>3
  <2>5. CASE f[k+1] = f[k]
    <3>1. \A i \in 1..k : i \in 1..(k+1)
      OBVIOUS
    <3>2. Good(k+1)
      BY <2>4, <2>5, <3>1
    <3> HIDE DEF Good
    <3>3. QED
      BY <2>1, <3>2
  <2>6. CASE f[k+1] = Append(f[k], s[k+1])
    <3> DEFINE g == f[k+1]
               n == Len(f[k])
    <3>1. /\ n \in Nat /\ g \in Seq(Messages) /\ Len(g) = n + 1 /\ g[n+1] = s[k+1]
          /\ \A j \in 1..n : g[j] = f[k][j]
      BY <2>1, <2>4, <2>6
    <3>2. \A j \in 1..n : \E i \in 1..k : g[j] = s[i]
      BY <2>4, <3>1
    <3>3. \A j \in 1..n : g[j] # s[k+1]
      <4>1. \A i \in 1..k : s[i] # s[k+1]
        <5>1. \A i \in 1..k : i \in 1..Len(s) /\ i # k + 1
          BY <2>1
        <5>2. QED
          BY <2>1, <5>1 DEF Once
      <4>2. QED
        BY <3>2, <4>1
    <3>4. \A i, j \in 1..n : g[i] = g[j] => i = j
      BY <2>4, <3>1 DEF Once
    <3>5. \A i \in 1..Len(g) : i \in 1..n \/ i = n + 1
      BY <3>1
    <3> HIDE DEF g, n
    <3>6. Once(g)
      <4>1. SUFFICES ASSUME NEW i \in 1..Len(g), NEW j \in 1..Len(g), g[i] = g[j]
                     PROVE  i = j
        BY DEF Once
      <4>2. QED
        BY <3>1, <3>3, <3>4, <3>5, <4>1
    <3>7. \A j \in 1..Len(g) : \E i \in 1..(k+1) : g[j] = s[i]
      <4>1. \A i \in 1..k : i \in 1..(k+1)
        OBVIOUS
      <4>2. k + 1 \in 1..(k+1)
        BY <2>1
      <4>3. QED
        BY <3>1, <3>2, <3>5, <4>1, <4>2
    <3>8. g \in Seq(Messages)
      BY <3>1
    <3>9. Good(k+1)
      BY <3>6, <3>7, <3>8 DEF g
    <3> HIDE DEF Good
    <3>10. QED
      BY <2>1, <3>9
  <2>7. QED
    BY <2>3, <2>5, <2>6
<1> HIDE DEF G
<1>4. Len(s) \in Nat
  OBVIOUS
<1>5. \A k \in 0..Len(s) : k \in G
  BY <1>2, <1>3, <1>4, SetInduction
<1>6. Good(Len(s))
  BY <1>4, <1>5 DEF G
<1>7. QED
  BY <1>1, <1>6 DEF RowSet

(* A page is no longer than the mailbox.                                    *)
LEMMA ListingShort ==
    ASSUME mail \in Seq(Messages), Once(mail),
           NEW a \in Addresses, NEW p \in 0..MaxPage, p >= 1
    PROVE  Short(Listing(a, p))
<1> DEFINE Own == {m \in Messages : a \in To[m]}
           first == (p - 1) * PageSize + 1
           last == IF p * PageSize > Len(Box(a)) THEN Len(Box(a)) ELSE p * PageSize
<1>1. Box(a) \in Seq(Messages \cap Own) /\ Len(Box(a)) <= Len(mail)
  BY OnlyKeeps DEF Box
<1>2. Len(mail) \in Nat /\ Len(Box(a)) \in Nat
  BY <1>1
<1>3. Len(mail) <= Cardinality(Messages) /\ Cardinality(Messages) \in Nat
  BY OnceCounts, InboxAssumption, FS_CardinalityType
<1>4. first \in Int /\ first >= 1 /\ last \in Int /\ last <= Len(Box(a)) /\ last >= 0
  <2>1. PageSize \in Nat /\ p - 1 \in Nat /\ p \in Nat
    BY InboxAssumption
  <2>2. (p - 1) * PageSize \in Nat /\ p * PageSize \in Nat
    BY <2>1
  <2>3. QED
    BY <1>2, <2>2
<1>5. \A i \in first..last : Box(a)[i] \in Messages
  BY <1>1, <1>4
<1>6. PageRows(a, p) = SubSeq(Box(a), first, last)
  BY DEF PageRows
<1> HIDE DEF first, last
<1>7. Len(PageRows(a, p)) = IF first <= last THEN last - first + 1 ELSE 0
  BY <1>4, <1>5, <1>6, SubSeqProperties
<1>8. Len(PageRows(a, p)) <= Cardinality(Messages)
  BY <1>2, <1>1, <1>3, <1>4, <1>7
<1>9. QED
  BY <1>8 DEF Short, Listing

LEMMA NothingShort == Short(NoListing)
<1>1. Len(NoListing.rows) = 0
  BY DEF NoListing
<1>2. Cardinality(Messages) \in Nat
  BY InboxAssumption, FS_CardinalityType
<1>3. QED
  BY <1>1, <1>2 DEF Short

-----------------------------------------------------------------------------
(* The number of calls.                                                     *)
LEMMA SizedMore ==
    ASSUME NEW cs, NEW n \in Nat, CallsSized(cs, n)
    PROVE  CallsSized(cs, n + 1)
<1>1. Cardinality(cs) \in Nat
  BY FS_CardinalityType DEF CallsSized
<1>2. QED
  BY <1>1 DEF CallsSized

LEMMA SizedAdd ==
    ASSUME NEW cs, NEW n \in Nat, CallsSized(cs, n), NEW c \in CallType, Short(c.listing)
    PROVE  CallsSized(cs \cup {c}, n + 1)
<1>1. IsFiniteSet(cs) /\ Cardinality(cs) \in Nat /\ Cardinality(cs) <= n
  BY FS_CardinalityType DEF CallsSized
<1>2. /\ IsFiniteSet(cs \cup {c})
      /\ Cardinality(cs \cup {c}) = IF c \in cs THEN Cardinality(cs) ELSE Cardinality(cs) + 1
  BY <1>1, FS_AddElement
<1>3. Cardinality(cs \cup {c}) <= n + 1
  BY <1>1, <1>2
<1>4. QED
  BY <1>2, <1>3 DEF CallsSized

LEMMA SizedDrop ==
    ASSUME NEW cs, NEW n \in Nat, CallsSized(cs, n + 1), NEW c \in cs
    PROVE  CallsSized(cs \ {c}, n)
<1>1. IsFiniteSet(cs) /\ Cardinality(cs) \in Nat /\ Cardinality(cs) <= n + 1
  BY FS_CardinalityType DEF CallsSized
<1>2. /\ IsFiniteSet(cs \ {c})
      /\ Cardinality(cs \ {c}) = IF c \in cs THEN Cardinality(cs) - 1 ELSE Cardinality(cs)
  BY <1>1, FS_RemoveElement
<1>3. Cardinality(cs \ {c}) <= n
  BY <1>1, <1>2
<1>4. QED
  BY <1>2, <1>3 DEF CallsSized

LEMMA SizedNew ==
    ASSUME NEW cs, NEW n \in Nat, CallsSized(cs, n),
           NEW k \in ListKinds \cup ReaderKinds, NEW a \in Addresses,
           NEW x \in Messages \cup {None} \cup 0..MaxPage
    PROVE  CallsSized(cs \cup {Call(k, a, x)}, n + 1)
<1>1. Call(k, a, x) \in CallType
  BY NewCall
<1>2. Call(k, a, x).listing = NoListing
  BY DEF Call
<1>3. QED
  BY <1>1, <1>2, NothingShort, SizedAdd

LEMMA SizedSilence ==
    ASSUME NEW cs, NEW n \in Nat, CallsSized(cs, n), NEW K
    PROVE  CallsSized(Silence(cs, K), n)
<1> DEFINE h == [c \in cs |-> [c EXCEPT !.live = c.live /\ c.kind \notin K]]
<1>1. cs \in SUBSET CallType /\ IsFiniteSet(cs) /\ Cardinality(cs) \in Nat
      /\ Cardinality(cs) <= n
  BY FS_CardinalityType DEF CallsSized
<1>2. Silence(cs, K) = {h[c] : c \in cs}
  BY DEF Silence
<1>3. \A c \in cs : h[c].listing = c.listing
  BY <1>1 DEF CallType
<1>4. h \in [cs -> Silence(cs, K)]
  BY <1>2
<1>5. \A d \in Silence(cs, K) : \E c \in cs : h[c] = d
  BY <1>2
<1> HIDE DEF h
<1>6. h \in Surjection(cs, Silence(cs, K))
  BY <1>4, <1>5 DEF Surjection
<1>7. IsFiniteSet(Silence(cs, K)) /\ Cardinality(Silence(cs, K)) <= Cardinality(cs)
  BY <1>1, <1>6, FS_Surjection
<1>8. Cardinality(Silence(cs, K)) \in Nat
  BY <1>7, FS_CardinalityType
<1>9. Cardinality(Silence(cs, K)) <= n
  BY <1>1, <1>7, <1>8
<1>10. Silence(cs, K) \in SUBSET CallType
  BY <1>1, Silenced
<1>11. \A d \in Silence(cs, K) : Short(d.listing)
  BY <1>3, <1>5 DEF CallsSized
<1>12. QED
  BY <1>7, <1>9, <1>10, <1>11 DEF CallsSized

LEMMA Refreshment ==
    ASSUME NEW i \in InboxType, NEW cs, NEW t \in Addresses, NEW s, hidden \in BOOLEAN,
           CallsSized(cs, MaxInFlight + 1), ~i.refreshing => CallsSized(cs, MaxInFlight)
    PROVE  Bounded(RefreshCalls(i, cs, t), s, Refreshed(i).refreshing)
<1>1. MaxInFlight \in Nat /\ i.page \in 0..MaxPage /\ "list" \in ListKinds
  BY InboxAssumption DEF InboxType, ListKinds
<1>2. CASE MayRefresh(i)
  <2>1. Refreshed(i).refreshing
    BY <1>2 DEF Refreshed, InboxType
  <2>2. RefreshCalls(i, cs, t) = Silence(cs, ListKinds) \cup {Call("list", t, i.page)}
    BY <1>2 DEF RefreshCalls
  <2>3. CallsSized(cs, MaxInFlight)
    BY <1>2 DEF MayRefresh
  <2>4. CallsSized(Silence(cs, ListKinds), MaxInFlight)
    BY <1>1, <2>3, SizedSilence
  <2>5. CallsSized(Silence(cs, ListKinds) \cup {Call("list", t, i.page)}, MaxInFlight + 1)
    BY <1>1, <2>4, SizedNew
  <2>6. QED
    BY <2>1, <2>2, <2>5 DEF Bounded
<1>3. CASE ~MayRefresh(i)
  BY <1>3 DEF Refreshed, RefreshCalls, Bounded
<1>4. QED
  BY <1>2, <1>3

LEMMA WithRoom ==
    ASSUME CallsBounded, Room
    PROVE  /\ CallsSized(calls, MaxInFlight)
           /\ \E n \in Nat : n + 1 = MaxInFlight /\ CallsSized(calls, n)
<1>1. Cardinality(calls) \in Nat /\ MaxInFlight \in Nat \ {0}
  BY FS_CardinalityType, InboxAssumption DEF CallsBounded, Bounded, CallsSized
<1>2. MaxInFlight - 1 \in Nat /\ (MaxInFlight - 1) + 1 = MaxInFlight
      /\ Cardinality(calls) <= MaxInFlight - 1 /\ Cardinality(calls) <= MaxInFlight
  BY <1>1 DEF Room
<1>3. CallsSized(calls, MaxInFlight - 1) /\ CallsSized(calls, MaxInFlight)
  BY <1>2 DEF CallsBounded, Bounded, CallsSized
<1>4. QED
  BY <1>2, <1>3

(* At most as many calls as allowed for: the interval may add one.           *)
LEMMA FewCalls ==
    ASSUME CallsSized(calls', MaxInFlight), Short(inbox'.listing)
    PROVE  CallsBounded'
<1>1. CallsSized(calls', MaxInFlight + 1)
  BY InboxAssumption, SizedMore
<1>2. QED
  BY <1>1 DEF CallsBounded, Bounded

(* A call added where there was room for it.                                *)
LEMMA AddedWithRoom ==
    ASSUME CallsBounded, Room, NEW K, NEW k \in ListKinds \cup ReaderKinds, NEW a \in Addresses,
           NEW x \in Messages \cup {None} \cup 0..MaxPage,
           \/ calls' = calls \cup {Call(k, a, x)}
           \/ calls' = Silence(calls, K) \cup {Call(k, a, x)},
           Short(inbox'.listing)
    PROVE  CallsBounded'
<1>1. PICK n \in Nat : n + 1 = MaxInFlight /\ CallsSized(calls, n)
  BY WithRoom
<1>2. CallsSized(Silence(calls, K), n)
  BY <1>1, SizedSilence
<1>3. /\ CallsSized(calls \cup {Call(k, a, x)}, n + 1)
      /\ CallsSized(Silence(calls, K) \cup {Call(k, a, x)}, n + 1)
  BY <1>1, <1>2, SizedNew
<1>4. CallsSized(calls', MaxInFlight)
  BY <1>1, <1>3
<1>5. QED
  BY <1>4, FewCalls

(* A call that another takes the place of.                                  *)
LEMMA Replaced ==
    ASSUME CallsBounded, NEW c \in calls, NEW d \in CallType, Short(d.listing),
           calls' = (calls \ {c}) \cup {d},
           session' = session, inbox' = inbox
    PROVE  CallsBounded'
<1>1. MaxInFlight \in Nat /\ MaxInFlight - 1 \in Nat /\ (MaxInFlight - 1) + 1 = MaxInFlight
  BY InboxAssumption
<1>2. CallsSized(calls', MaxInFlight + 1)
  <2>1. CallsSized(calls, MaxInFlight + 1)
    BY DEF CallsBounded, Bounded
  <2>2. CallsSized(calls \ {c}, MaxInFlight)
    BY <1>1, <2>1, SizedDrop
  <2>3. QED
    BY <1>1, <2>2, SizedAdd
<1>3. ASSUME session # None, ~inbox.refreshing PROVE CallsSized(calls', MaxInFlight)
  <2>1. CallsSized(calls, (MaxInFlight - 1) + 1)
    BY <1>1, <1>3 DEF CallsBounded, Bounded
  <2>2. CallsSized(calls \ {c}, MaxInFlight - 1)
    BY <1>1, <2>1, SizedDrop
  <2>3. CallsSized((calls \ {c}) \cup {d}, (MaxInFlight - 1) + 1)
    BY <1>1, <2>2, SizedAdd
  <2>4. QED
    BY <1>1, <2>3
<1>4. QED
  BY <1>2, <1>3 DEF CallsBounded, Bounded

LEMMA Dropped ==
    ASSUME CallsBounded, NEW c \in calls
    PROVE  CallsSized(calls \ {c}, MaxInFlight)
BY InboxAssumption, SizedDrop DEF CallsBounded, Bounded

(* A handler that ends with a refresh.                                      *)
LEMMA RefreshBounded ==
    ASSUME NEW i \in InboxType, NEW cs, NEW t \in Addresses, hidden \in BOOLEAN,
           CallsSized(cs, MaxInFlight + 1), ~i.refreshing => CallsSized(cs, MaxInFlight),
           Short(i.listing), Refresh(i, cs, t)
    PROVE  CallsBounded'
<1>1. inbox' = Refreshed(i) /\ calls' = RefreshCalls(i, cs, t)
  BY DEF Refresh
<1>2. Bounded(RefreshCalls(i, cs, t), session', Refreshed(i).refreshing)
  BY Refreshment
<1>3. Refreshed(i).listing = i.listing
  BY DEF Refreshed, InboxType
<1>4. QED
  BY <1>1, <1>2, <1>3 DEF CallsBounded

LEMMA RefreshFew ==
    ASSUME NEW i \in InboxType, NEW cs, NEW t \in Addresses, hidden \in BOOLEAN,
           CallsSized(cs, MaxInFlight), Short(i.listing), Refresh(i, cs, t)
    PROVE  CallsBounded'
<1>1. CallsSized(cs, MaxInFlight + 1)
  BY InboxAssumption, SizedMore
<1>2. QED
  BY <1>1, RefreshBounded

-----------------------------------------------------------------------------
LEMMA UserBounded == ASSUME Inductive, CallsBounded, User \/ Poll PROVE CallsBounded'
<1>1. /\ inbox \in InboxType /\ hidden \in BOOLEAN /\ calls \in SUBSET CallType
      /\ session \in Addresses \cup {None} /\ reader \in ReaderType
      /\ Short(inbox.listing) /\ MaxInFlight \in Nat
  BY InboxAssumption DEF Inductive, Types, CallsBounded
<1>2. ASSUME NEW t \in Addresses, OpenSession(t) PROVE CallsBounded'
  <2>1. Refresh(FreshInbox, AfterReset(calls), t) /\ Room
    BY <1>2 DEF OpenSession
  <2>2. CallsSized(AfterReset(calls), MaxInFlight)
    BY <1>1, <2>1, WithRoom, SizedSilence DEF AfterReset
  <2>3. FreshInbox \in InboxType /\ Short(FreshInbox.listing)
    BY <1>1, Empties, NothingShort
  <2>4. QED
    BY <1>1, <2>1, <2>2, <2>3, RefreshFew
<1>3. CASE CloseSession
  <2>1. session' = None /\ inbox' = NoInbox /\ calls' = AfterReset(calls)
    BY <1>3 DEF CloseSession
  <2>2. MaxInFlight + 1 \in Nat /\ CallsSized(calls, MaxInFlight + 1)
    BY <1>1 DEF CallsBounded, Bounded
  <2>3. CallsSized(calls', MaxInFlight + 1)
    BY <2>1, <2>2, SizedSilence DEF AfterReset
  <2>4. Short(inbox'.listing)
    BY <2>1, NothingShort DEF NoInbox
  <2>5. QED
    BY <2>1, <2>3, <2>4 DEF CallsBounded, Bounded
<1>4. CASE Poll \/ ClickRefresh
  <2>1. session # None
    BY <1>4, WaitsIs DEF Inductive, Waits, Poll, ClickRefresh
  <2>2. Refresh(inbox, calls, session)
    BY <1>4 DEF Poll, ClickRefresh
  <2>3. /\ CallsSized(calls, MaxInFlight + 1)
        /\ ~inbox.refreshing => CallsSized(calls, MaxInFlight)
    BY <2>1 DEF CallsBounded, Bounded
  <2>4. QED
    BY <1>1, <2>1, <2>2, <2>3, RefreshBounded
<1>5. CASE Hide
  <2>1. /\ calls' = calls /\ session' = session
        /\ inbox'.refreshing = inbox.refreshing /\ inbox'.listing = inbox.listing
    BY <1>1, <1>5 DEF Hide, InboxUnchanged, InboxType
  <2>2. QED
    BY <2>1 DEF CallsBounded
<1>6. CASE Return
  <2>1. CASE session = None /\ UNCHANGED <<inbox, calls>>
    BY <1>6, <2>1 DEF Return, InboxUnchanged, CallsBounded
  <2>2. CASE /\ session # None /\ Room
             /\ inbox' = [inbox EXCEPT !.refreshing = TRUE, !.error = FALSE, !.polling = TRUE]
             /\ calls' = Silence(calls, ListKinds) \cup {Call("list", session, inbox.page)}
    <3>1. inbox'.listing = inbox.listing /\ inbox.page \in 0..MaxPage /\ "list" \in ListKinds
      BY <1>1, <2>2 DEF InboxType, ListKinds
    <3>2. QED
      BY <1>1, <2>2, <3>1, AddedWithRoom
  <2>3. QED
    BY <1>6, <2>1, <2>2 DEF Return
<1>7. ASSUME NEW n \in 0..MaxPage, ChangePage(n) PROVE CallsBounded'
  <2> DEFINE i == Restarted([inbox EXCEPT !.page = n, !.selected = None, !.loading = TRUE])
             cs == Silence(Silence(calls, ReaderKinds), ListKinds)
  <2>1. Refresh(i, cs, session) /\ Room /\ session # None
    BY <1>7 DEF ChangePage, RestartRefresh
  <2>2. i \in InboxType /\ i.listing = inbox.listing
    BY <1>1 DEF Restarted, InboxType
  <2>3. CallsSized(cs, MaxInFlight)
    BY <1>1, <2>1, WithRoom, SizedSilence
  <2> HIDE DEF i, cs
  <2>4. QED
    BY <1>1, <2>1, <2>2, <2>3, RefreshFew
<1>8. ASSUME NEW m \in Messages, Select(m) PROVE CallsBounded'
  <2>1. session # None
    <3>1. m \in RowSet(inbox.listing.rows)
      BY <1>8 DEF Select
    <3>2. NoInbox.listing = NoListing
      BY DEF NoInbox
    <3>3. QED
      BY <3>1, <3>2, Empties DEF Inductive, NoInboxIsEmpty
  <2>2. /\ Room /\ calls' = Silence(calls, ReaderKinds) \cup {Call("message", session, m)}
        /\ inbox'.listing = inbox.listing
    BY <1>1, <1>8 DEF Select, LoadMessage, Reloaded, InboxType
  <2>3. "message" \in ReaderKinds
    BY DEF ReaderKinds
  <2>4. QED
    BY <1>1, <2>1, <2>2, <2>3, AddedWithRoom
<1>9. CASE RetryMessage
  <2>1. session # None
    BY <1>9 DEF RetryMessage, Inductive, NoInboxIsEmpty, NoReader
  <2>2. /\ Room
        /\ calls' = Silence(calls, ReaderKinds) \cup {Call("message", session, inbox.selected)}
        /\ inbox' = inbox
    BY <1>9 DEF RetryMessage, LoadMessage, Reloaded
  <2>3. "message" \in ReaderKinds /\ inbox.selected \in Messages \cup {None}
    BY <1>1 DEF ReaderKinds, InboxType
  <2>4. QED
    BY <1>1, <2>1, <2>2, <2>3, AddedWithRoom
<1>10. CASE CloseReader
  <2>1. /\ session' = session /\ calls' = Silence(calls, ReaderKinds)
        /\ inbox'.refreshing = inbox.refreshing /\ inbox'.listing = inbox.listing
    BY <1>1, <1>10 DEF CloseReader, ReaderUnchanged, InboxType
  <2>2. /\ CallsSized(calls, MaxInFlight + 1) => CallsSized(calls', MaxInFlight + 1)
        /\ CallsSized(calls, MaxInFlight) => CallsSized(calls', MaxInFlight)
    <3>1. MaxInFlight + 1 \in Nat
      BY <1>1
    <3>2. QED
      BY <1>1, <2>1, <3>1, SizedSilence
  <2>3. QED
    BY <2>1, <2>2 DEF CallsBounded, Bounded
<1>11. CASE Download \/ DeleteCurrent
  <2>1. PICK k \in ReaderKinds : /\ reader.shown # None /\ Room /\ inbox' = inbox
                                 /\ calls' = calls \cup {Call(k, session, reader.shown)}
    BY <1>11 DEF Download, DeleteCurrent, ReaderKinds
  <2>2. session \in Addresses /\ reader.shown \in Messages
    BY <2>1, ShownIsOurs
  <2>3. QED
    BY <1>1, <2>1, <2>2, AddedWithRoom
<1>12. QED
  BY <1>2, <1>3, <1>4, <1>5, <1>6, <1>7, <1>8, <1>9, <1>10, <1>11 DEF User

LEMMA ServeBounded ==
    ASSUME Inductive, Sizes, NEW c \in calls, Serve(c) PROVE CallsBounded'
<1>1. /\ c \in CallType /\ Types /\ Short(c.listing) /\ UNCHANGED <<session, inbox>>
  BY DEF Inductive, Types, Sizes, CallsBounded, Bounded, CallsSized, Serve, client
<1>2. CASE ServeList(c)
  <2> DEFINE l == Listing(c.box, c.arg)
             d == [c EXCEPT !.answer = "ok", !.listing = l]
  <2>1. c.box \in Addresses /\ c.arg \in 0..MaxPage /\ c.arg >= 1
    BY <1>1, <1>2 DEF ServeList, Inductive, CallsFit, AnswerFits, CallType
  <2>2. l \in ListingType
    BY <1>1, <2>1, ListingFits
  <2>3. Short(l)
    BY <1>1, <2>1, ListingShort DEF Types, Sizes, MailOnce
  <2> HIDE DEF l
  <2>4. d \in CallType /\ d.listing = l
    BY <1>1, <2>2 DEF CallType
  <2>5. calls' = (calls \ {c}) \cup {d}
    BY <1>2 DEF ServeList, l
  <2> HIDE DEF d
  <2>6. Short(d.listing)
    BY <2>3, <2>4
  <2>7. QED
    BY <1>1, <2>4, <2>5, <2>6, Replaced DEF Sizes
<1>3. CASE ServeMessage(c) \/ ServeDelete(c)
  <2> DEFINE d == [c EXCEPT !.answer = IF Found(c) THEN "ok" ELSE "gone"]
  <2>1. d \in CallType /\ d.listing = c.listing
    BY <1>1 DEF CallType
  <2>2. calls' = (calls \ {c}) \cup {d}
    BY <1>3 DEF ServeMessage, ServeDelete, Answered
  <2> HIDE DEF d
  <2>3. Short(d.listing)
    BY <1>1, <2>1
  <2>4. QED
    BY <1>1, <2>1, <2>2, <2>3, Replaced DEF Sizes
<1>4. QED
  BY <1>2, <1>3 DEF Serve

LEMMA ReplyBounded ==
    ASSUME Inductive, CallsBounded, NEW c \in calls, NEW outcome \in Outcomes(c),
           ListAnswered(c, outcome) \/ ReaderAnswered(c, outcome)
    PROVE  CallsBounded'
<1>1. /\ c \in CallType /\ inbox \in InboxType /\ hidden \in BOOLEAN
      /\ Short(inbox.listing) /\ Short(c.listing) /\ MaxInFlight \in Nat
      /\ CallsSized(calls \ {c}, MaxInFlight)
  BY Dropped, InboxAssumption DEF Inductive, Types, CallsBounded, Bounded, CallsSized
<1>2. CASE ListAnswered(c, outcome)
  <2>1. calls' = calls \ {c}
    BY <1>2 DEF ListAnswered
  <2>2. Short(inbox'.listing)
    <3>1. inbox'.listing \in {inbox.listing, c.listing}
      BY <1>1, <1>2 DEF ListAnswered, ListShown, InboxType
    <3>2. QED
      BY <1>1, <3>1
  <2>3. QED
    BY <1>1, <2>1, <2>2, FewCalls
<1>3. ASSUME c.live, Remove(calls \ {c}) PROVE CallsBounded'
  <2> DEFINE i == [inbox EXCEPT !.selected = None]
             cs == Silence(calls \ {c}, ReaderKinds)
  <2>1. Refresh(i, cs, session)
    BY <1>3 DEF Remove
  <2>2. i \in InboxType /\ i.listing = inbox.listing
    BY <1>1 DEF InboxType
  <2>3. CallsSized(cs, MaxInFlight)
    BY <1>1, SizedSilence
  <2>4. session \in Addresses
    BY <1>3, ReplyFinds
  <2> HIDE DEF i, cs
  <2>5. QED
    BY <1>1, <2>1, <2>2, <2>3, <2>4, RefreshFew
<1>4. CASE calls' = calls \ {c} /\ UNCHANGED inbox
  BY <1>1, <1>4, FewCalls
<1>5. CASE /\ calls' = (calls \ {c}) \cup {Call("seen", c.box, c.arg)}
           /\ UNCHANGED <<session, inbox>>
  <2>1. /\ Call("seen", c.box, c.arg) \in CallType
        /\ Call("seen", c.box, c.arg).listing = NoListing
    <3>1. "seen" \in ReaderKinds /\ c.box \in Addresses
          /\ c.arg \in Messages \cup {None} \cup 0..MaxPage
      BY <1>1 DEF ReaderKinds, CallType
    <3>2. QED
      BY <3>1, NewCall DEF Call
  <2>2. QED
    BY <1>5, <2>1, NothingShort, Replaced
<1>6. CASE ReaderAnswered(c, outcome)
  <2>1. UNCHANGED session
    BY <1>6 DEF ReaderAnswered, ReaderUnchanged
  <2>2. \/ c.live /\ Remove(calls \ {c})
        \/ calls' = calls \ {c} /\ UNCHANGED inbox
        \/ /\ calls' = (calls \ {c}) \cup {Call("seen", c.box, c.arg)}
           /\ UNCHANGED inbox
    BY <1>6 DEF ReaderAnswered, Awaited, MessageLoaded, SeenSaved, ActionEnded
  <2>3. QED
    BY <1>3, <1>4, <1>5, <2>1, <2>2
<1>7. QED
  BY <1>2, <1>6

(* A message arrives once, and may go.                                      *)
LEMMA MailStaysOnce ==
    ASSUME Types, MailOnce, NEW m \in Messages,
           \/ Arrive(m)
           \/ mail' = Only(mail, Messages \ {m}) /\ unsent' = unsent
    PROVE  MailOnce'
<1>1. mail \in Seq(Messages) /\ Once(mail) /\ RowSet(mail) \cap unsent = {}
  BY DEF Types, MailOnce
<1>2. CASE mail' = Only(mail, Messages \ {m}) /\ unsent' = unsent
  <2>1. Once(mail') /\ RowSet(mail') \subseteq RowSet(mail)
    BY <1>1, <1>2, OnlyOnce
  <2>2. QED
    BY <1>1, <1>2, <2>1 DEF MailOnce
<1>3. CASE Arrive(m)
  <2>1. m \in unsent /\ unsent' = unsent \ {m} /\ mail' \in {<<m>> \o mail, Append(mail, m)}
    BY <1>3 DEF Arrive
  <2>2. \A i \in 1..Len(mail) : mail[i] \in Messages /\ mail[i] # m
    BY <1>1, <2>1 DEF RowSet
  <2> DEFINE n == Len(mail)
  <2>3. CASE mail' = Append(mail, m)
    <3>1. /\ n \in Nat /\ Len(mail') = n + 1 /\ mail'[n+1] = m
          /\ \A i \in 1..n : mail'[i] = mail[i]
          /\ \A i \in 1..(n+1) : i \in 1..n \/ i = n + 1
      BY <1>1, <2>3
    <3>2. Once(mail')
      BY <1>1, <2>2, <3>1 DEF Once
    <3>3. RowSet(mail') \subseteq RowSet(mail) \cup {m}
      BY <3>1 DEF RowSet
    <3>4. QED
      BY <1>1, <2>1, <3>2, <3>3 DEF MailOnce
  <2>4. CASE mail' = <<m>> \o mail
    <3>1. /\ n \in Nat /\ Len(mail') = n + 1 /\ mail'[1] = m
          /\ \A i \in 2..(n+1) : mail'[i] = mail[i-1]
          /\ \A i \in 1..(n+1) : i \in 2..(n+1) \/ i = 1
          /\ \A i \in 2..(n+1) : i - 1 \in 1..n
      BY <1>1, <2>4
    <3>2. \A i \in 2..(n+1) : mail'[i] # m
      BY <2>2, <3>1
    <3>3. \A i, j \in 2..(n+1) : mail'[i] = mail'[j] => i = j
      <4>1. \A i, j \in 2..(n+1) : mail'[i] = mail'[j] => i - 1 = j - 1
        BY <1>1, <3>1 DEF Once
      <4>2. QED
        BY <4>1
    <3>4. Once(mail')
      BY <3>1, <3>2, <3>3 DEF Once
    <3>5. RowSet(mail') \subseteq RowSet(mail) \cup {m}
      BY <3>1 DEF RowSet
    <3>6. QED
      BY <1>1, <2>1, <3>4, <3>5 DEF MailOnce
  <2>5. QED
    BY <2>1, <2>3, <2>4
<1>4. QED
  BY <1>2, <1>3

LEMMA MailKept == ASSUME MailOnce, UNCHANGED <<mail, unsent>> PROVE MailOnce'
BY DEF MailOnce, Once, RowSet

LEMMA SizesInit == Init => Sizes
<1> SUFFICES ASSUME Init PROVE Sizes
  OBVIOUS
<1>1. CallsSized(calls, MaxInFlight) /\ CallsSized(calls, MaxInFlight + 1)
  <2>1. calls = {} /\ IsFiniteSet({}) /\ Cardinality({}) = 0
    BY FS_EmptySet DEF Init
  <2>2. QED
    BY <2>1, InboxAssumption DEF CallsSized
<1>2. Short(inbox.listing)
  BY NothingShort DEF Init, NoInbox
<1>3. Once(mail) /\ RowSet(mail) = {}
  <2>1. mail = << >> /\ Len(mail) = 0
    BY DEF Init
  <2>2. QED
    BY <2>1 DEF Once, RowSet
<1>4. QED
  BY <1>1, <1>2, <1>3 DEF Sizes, CallsBounded, Bounded, MailOnce

LEMMA SizesNext == Inductive /\ Sizes /\ [Next]_vars => Sizes'
<1> SUFFICES ASSUME Inductive, Sizes, [Next]_vars PROVE Sizes'
  OBVIOUS
<1>1. Types /\ CallsBounded /\ MailOnce /\ mail \in Seq(Messages)
  BY DEF Inductive, Types, Sizes
<1>2. CASE User \/ Poll
  <2>1. UNCHANGED <<mail, unsent>>
    BY <1>2 DEF User, Poll, CloseSession, Hide, Return, ClickRefresh, RetryMessage, CloseReader,
                Download, DeleteCurrent, OpenSession, ChangePage, Select, InboxUnchanged,
                ReaderUnchanged, server
  <2>2. QED
    BY <1>1, <1>2, <2>1, UserBounded, MailKept DEF Sizes
<1>3. ASSUME NEW c \in calls, Serve(c) PROVE Sizes'
  <2>1. CallsBounded'
    BY <1>3, ServeBounded
  <2>2. \/ UNCHANGED <<mail, unsent>>
        \/ /\ Found(c) /\ unsent' = unsent
           /\ mail' = Only(mail, Messages \ {c.arg})
    BY <1>3 DEF Serve, ServeList, ServeMessage, ServeDelete, server
  <2>3. Found(c) => c.arg \in Messages
    BY <1>1 DEF Found
  <2>4. MailOnce'
    BY <1>1, <2>2, <2>3, MailStaysOnce, MailKept
  <2>5. QED
    BY <2>1, <2>4 DEF Sizes
<1>4. ASSUME NEW c \in calls, Answer(c) PROVE Sizes'
  <2>1. CallsBounded'
    BY <1>1, <1>4, ReplyBounded DEF Answer
  <2>2. UNCHANGED <<mail, unsent>>
    BY <1>4 DEF Answer, ListAnswered, ReaderAnswered, InboxUnchanged, ReaderUnchanged, server
  <2>3. QED
    BY <1>1, <2>1, <2>2, MailKept DEF Sizes
<1>5. ASSUME NEW m \in Messages, Arrive(m) \/ Expire(m) PROVE Sizes'
  <2>1. UNCHANGED <<session, inbox, calls>>
    BY <1>5 DEF Arrive, Expire, client
  <2>2. CallsBounded'
    BY <1>1, <2>1 DEF CallsBounded
  <2>3. MailOnce'
    BY <1>1, <1>5, MailStaysOnce DEF Expire
  <2>4. QED
    BY <2>2, <2>3 DEF Sizes
<1>6. CASE UNCHANGED vars
  BY <1>1, <1>6, MailKept DEF vars, Sizes, CallsBounded
<1>7. QED
  BY <1>2, <1>3, <1>4, <1>5, <1>6 DEF Next

(* Every variable has its type, the calls under way are at most one more     *)
(* than allowed for, no message is twice in the account and no listing       *)
(* longer than all messages.                                                *)
THEOREM TypeCorrect == Spec => []TypeOK
<1>1. ASSUME NEW l \in ListingType, Short(l) PROVE l \in Listings
  <2> DEFINE n == Len(l.rows)
             All == {[1..k -> Messages] : k \in 0..Cardinality(Messages)}
  <2>1. n \in Nat /\ l.rows \in [1..n -> Messages]
    BY DEF ListingType
  <2>2. Cardinality(Messages) \in Nat /\ n <= Cardinality(Messages)
    BY <1>1, InboxAssumption, FS_CardinalityType DEF Short
  <2>3. n \in 0..Cardinality(Messages)
    BY <2>1, <2>2
  <2> HIDE DEF n
  <2>4. l.rows \in UNION All
    BY <2>1, <2>3
  <2>5. QED
    BY <2>4 DEF Listings, ListingType
<1>2. Inductive /\ Sizes => TypeOK
  <2> SUFFICES ASSUME Inductive, Sizes PROVE TypeOK
    OBVIOUS
  <2>1. /\ Types /\ inbox \in InboxType /\ calls \in SUBSET CallType
        /\ CallsSized(calls, MaxInFlight + 1) /\ Short(inbox.listing)
        /\ Once(mail) /\ mail \in Seq(Messages)
    BY DEF Inductive, Types, Sizes, CallsBounded, Bounded, MailOnce
  <2>2. inbox.listing \in Listings
    BY <1>1, <2>1 DEF InboxType
  <2>3. /\ inbox.selected \in Messages \cup {None}
        /\ inbox.page \in 0..MaxPage /\ inbox.known \subseteq Messages
        /\ \A f \in {"loading", "refreshing", "error", "polling", "initialized"} :
              inbox[f] \in BOOLEAN
    BY <2>1 DEF InboxType
  <2>4. ASSUME NEW c \in calls
        PROVE  /\ c.kind \in ListKinds \cup ReaderKinds
               /\ c.box \in Addresses /\ c.live \in BOOLEAN
               /\ c.arg \in Messages \cup {None} \cup 0..MaxPage
               /\ c.answer \in {"pending", "ok", "gone"}
               /\ c.listing \in Listings
    <3>1. c \in CallType /\ Short(c.listing)
      BY <2>1 DEF CallsSized
    <3>2. c.listing \in Listings
      BY <1>1, <3>1 DEF CallType
    <3>3. QED
      BY <3>1, <3>2 DEF CallType
  <2>5. Cardinality(calls) <= MaxInFlight + 1
    BY <2>1 DEF CallsSized
  <2>6. RowSet(mail) \subseteq Messages /\ Len(mail) = Cardinality(RowSet(mail))
    BY <2>1, OnceCounts DEF RowSet
  <2>7. /\ session \in Addresses \cup {None} /\ reader \in ReaderType /\ hidden \in BOOLEAN
        /\ unsent \subseteq Messages /\ alerted \in [Messages -> Nat]
    BY <2>1 DEF Types
  <2>8. QED
    BY <2>2, <2>3, <2>4, <2>5, <2>6, <2>7 DEF TypeOK, ReaderType
<1>3. QED
  BY <1>2, SizesInit, SizesNext, Invariant, PTL DEF Spec
=============================================================================
