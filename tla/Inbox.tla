------------------------------- MODULE Inbox -------------------------------
(***************************************************************************)
(* The inbox of the public front end (InboxView.vue, MessageReader.vue)    *)
(* and the message API it asks (api_server.py), with replies that come     *)
(* late and in any order.  Which inbox is open is Navigation's business:   *)
(* here a session begins, changes and ends at any time.                    *)
(*                                                                         *)
(* JavaScript runs one handler at a time, watchers and the re-render       *)
(* included, so that an action is what a handler does up to its next       *)
(* await; the rest is the action of the reply.  The code tells the reply   *)
(* to a superseded call by a counter it has incremented since: a call is   *)
(* live while the counter of its component is as it was, which is all      *)
(* that the code compares.                                                 *)
(***************************************************************************)
EXTENDS Integers, Sequences, FiniteSets

CONSTANTS
    Addresses,    \* addresses under whitelisted domains
    Messages,
    To,           \* To[m]: the addresses a message was sent to
    None,
    PageSize,     \* the setting message_limit
    MaxPage,      \* bound: the last page a user asks for
    MaxInFlight   \* bound: calls under way

ASSUME InboxAssumption ==
    /\ To \in [Messages -> SUBSET Addresses]
    /\ None \notin Addresses \cup Messages /\ IsFiniteSet(Messages)
    /\ PageSize \in Nat \ {0} /\ MaxPage \in Nat \ {0}
    /\ MaxInFlight \in Nat \ {0}

VARIABLES
    session,   \* the address props.session.token is for, or None: no inbox
    inbox,     \* InboxView.vue
    reader,    \* MessageReader.vue
    hidden,    \* document.hidden
    calls,     \* HTTP calls that have not been answered
    mail,      \* the shared account, in the order Email/query lists it
    unsent,    \* messages that have not arrived yet
    alerted    \* history: notifications shown of a message in this inbox

client == <<session, hidden, inbox, reader, alerted>>
server == <<mail, unsent>>
vars == <<session, hidden, inbox, reader, alerted, calls, mail, unsent>>

----------------------------------------------------------------------------
(* The API.                                                                *)

\* The messages of s that are in S, in their order.
Only(s, S) ==
    LET kept[k \in 0..Len(s)] ==
            IF k = 0 THEN <<>>
            ELSE IF s[k] \in S THEN Append(kept[k-1], s[k]) ELSE kept[k-1]
    IN  kept[Len(s)]

\* messages(): the mail of an address; get_message() and the check that the
\* message belongs to the address of the token.
Box(a) == Only(mail, {m \in Messages : a \in To[m]})
Found(c) == \E i \in 1..Len(mail) : mail[i] = c.arg /\ c.box \in To[c.arg]

LastPage(a) ==
    LET pages == (Len(Box(a)) + PageSize - 1) \div PageSize
    IN  IF pages = 0 THEN 1 ELSE pages

PageRows(a, p) ==
    LET first == (p - 1) * PageSize + 1
        last == p * PageSize
    IN  SubSeq(Box(a), first, IF last > Len(Box(a)) THEN Len(Box(a)) ELSE last)

RowSet(rows) == {rows[i] : i \in 1..Len(rows)}

Listing(a, p) ==
    [page |-> p, rows |-> PageRows(a, p),
     previous |-> p > 1, next |-> p < LastPage(a)]

NoListing == [page |-> 0, rows |-> <<>>, previous |-> FALSE, next |-> FALSE]

(* A call is answered when the server has done its part ("ok", or "gone"   *)
(* for 404): the answer tells what it found then.  A call whose answer does *)
(* not depend on the mail is not answered before its reply.  Any call may   *)
(* fail instead, before or after the server has done its part.              *)
Call(kind, box, arg) ==
    [kind |-> kind, box |-> box, arg |-> arg, live |-> TRUE,
     answer |-> "pending", listing |-> NoListing]

Silence(cs, kinds) ==
    {[c EXCEPT !.live = @ /\ c.kind \notin kinds] : c \in cs}

AwaitedAny(c) == TRUE               \* mutant: no comparison of the versions
\* A reply is acted upon only if its call is still live.
Awaited(c) == c.live

Room == Cardinality(calls) < MaxInFlight

Answered(c, answer) ==
    calls' = (calls \ {c}) \cup {[c EXCEPT !.answer = answer]}

\* messages(): the page is declared as at least 1; any other is an error.
ServeList(c) ==
    /\ c.kind = "list" /\ c.arg >= 1
    /\ calls' = (calls \ {c}) \cup
          {[c EXCEPT !.answer = "ok", !.listing = Listing(c.box, c.arg)]}
    /\ UNCHANGED server

\* message().
ServeMessage(c) ==
    /\ c.kind = "message"
    /\ Answered(c, IF Found(c) THEN "ok" ELSE "gone")
    /\ UNCHANGED server

\* delete_message().
ServeDelete(c) ==
    /\ c.kind = "delete"
    /\ Answered(c, IF Found(c) THEN "ok" ELSE "gone")
    /\ mail' = IF Found(c) THEN Only(mail, Messages \ {c.arg}) ELSE mail
    /\ UNCHANGED unsent

Serve(c) ==
    /\ c.answer = "pending"
    /\ ServeList(c) \/ ServeMessage(c) \/ ServeDelete(c)
    /\ UNCHANGED client

\* The replies that may come now.
Outcomes(c) ==
    {"failed"} \cup
    (IF c.kind \in {"seen", "source"} THEN {"ok"}
     ELSE {c.answer} \ {"pending"})

\* Mail arrives; Email/query names no order, so it may come first or last.
Arrive(m) ==
    /\ m \in unsent
    /\ unsent' = unsent \ {m}
    /\ mail' \in {<<m>> \o mail, Append(mail, m)}
    /\ UNCHANGED <<client, calls>>

\* The janitor or another recipient deletes a message.
Expire(m) ==
    /\ \E i \in 1..Len(mail) : mail[i] = m
    /\ mail' = Only(mail, Messages \ {m})
    /\ UNCHANGED <<client, calls, unsent>>

----------------------------------------------------------------------------
(* The states of the components when they are mounted, and of none.        *)

NoReader == [shown |-> None, loading |-> FALSE, error |-> FALSE, busy |-> "none"]
LoadingReader == [NoReader EXCEPT !.loading = TRUE]

NoInbox == [listing |-> NoListing, selected |-> None, page |-> 0,
            loading |-> FALSE, refreshing |-> FALSE, error |-> FALSE,
            polling |-> FALSE, initialized |-> FALSE, known |-> {}]

\* startPolling() sets the interval unless the document is hidden.
FreshInbox ==
    [NoInbox EXCEPT !.page = 1, !.loading = TRUE, !.polling = ~hidden]

ListKinds == {"list"}
ReaderKinds == {"message", "seen", "delete", "source"}

\* refresh(): nothing while a refresh is under way or the page is hidden.
MayRefresh(i) == ~i.refreshing /\ ~hidden

Refreshed(i) ==
    IF MayRefresh(i) THEN [i EXCEPT !.refreshing = TRUE, !.error = FALSE] ELSE i

RefreshCalls(i, cs, t) ==
    IF MayRefresh(i)
    THEN Silence(cs, ListKinds) \cup {Call("list", t, i.page)}
    ELSE cs

Refresh(i, cs, t) ==
    /\ inbox' = Refreshed(i)
    /\ calls' = RefreshCalls(i, cs, t)

AfterResetOfList(cs) == Silence(cs, ListKinds)   \* mutant: the calls of the reader still count
\* No call of the session before counts.
AfterReset(cs) == Silence(cs, ListKinds \cup ReaderKinds)

\* An inbox is mounted, or its session changes (resetSession): the reader of
\* the old one is unmounted.  (Two addresses with one token: as if the inbox
\* was closed in between.)
OpenSession(t) ==
    /\ Room
    /\ session # t /\ session' = t
    /\ Refresh(FreshInbox, AfterReset(calls), t)
    /\ reader' = NoReader
    /\ alerted' = [m \in Messages |-> 0]
    /\ UNCHANGED <<hidden, server>>

\* The inbox is unmounted.
CloseSession ==
    /\ session # None
    /\ session' = None
    /\ inbox' = NoInbox /\ reader' = NoReader
    /\ calls' = AfterReset(calls)
    /\ alerted' = [m \in Messages |-> 0]
    /\ UNCHANGED <<hidden, server>>

----------------------------------------------------------------------------
(* InboxView.vue.                                                          *)

InboxUnchanged == UNCHANGED <<session, server>>

\* The interval calls refresh().
Poll ==
    /\ inbox.polling /\ MayRefresh(inbox)
    /\ Refresh(inbox, calls, session)
    /\ InboxUnchanged /\ UNCHANGED <<reader, hidden, alerted>>

ClickRefresh ==
    /\ session # None /\ MayRefresh(inbox) /\ Room
    /\ Refresh(inbox, calls, session)
    /\ InboxUnchanged /\ UNCHANGED <<reader, hidden, alerted>>

\* notifyNew(), with the permission granted.
NotifyNew(rows) ==
    alerted' = [m \in Messages |->
        IF inbox.initialized /\ m \in RowSet(rows) \ inbox.known
        THEN alerted[m] + 1 ELSE alerted[m]]

KnownLatest(rows) == RowSet(rows)   \* mutant: only the last page is remembered
Known(rows) == inbox.known \cup RowSet(rows)

ListShown(c) ==
    /\ inbox' = [inbox EXCEPT
           !.listing = c.listing, !.loading = FALSE, !.refreshing = FALSE,
           !.initialized = @ \/ c.arg = 1,
           !.known = IF c.arg = 1 THEN Known(c.listing.rows) ELSE @]
    /\ IF c.arg = 1 THEN NotifyNew(c.listing.rows) ELSE UNCHANGED alerted

ListAnswered(c, outcome) ==
    /\ c.kind = "list"
    /\ calls' = calls \ {c}
    /\ \/ Awaited(c) /\ outcome = "ok" /\ ListShown(c)
       \/ /\ Awaited(c) /\ outcome = "failed"
          /\ inbox' = [inbox EXCEPT !.error = TRUE, !.loading = FALSE,
                                    !.refreshing = FALSE]
          /\ UNCHANGED alerted
       \/ ~c.live /\ UNCHANGED <<inbox, alerted>>
    /\ InboxUnchanged /\ UNCHANGED <<reader, hidden>>

RestartedBusy(i) == i               \* mutant: it still counts as under way
\* restartRefresh() of an inbox in state i: the refresh under way does not
\* stand in its way.
Restarted(i) == [i EXCEPT !.refreshing = FALSE]

RestartRefresh(i, cs) ==
    Refresh(Restarted(i), Silence(cs, ListKinds), session)

\* handleVisibility(); without an inbox nobody listens.
Hide ==
    /\ ~hidden /\ hidden' = TRUE
    /\ inbox' = [inbox EXCEPT !.polling = FALSE]
    /\ InboxUnchanged /\ UNCHANGED <<reader, calls, alerted>>

Return ==
    /\ hidden /\ hidden' = FALSE
    /\ \/ session = None /\ UNCHANGED <<inbox, calls>>
       \/ /\ session # None /\ Room
          /\ inbox' = [inbox EXCEPT !.refreshing = TRUE, !.error = FALSE,
                                    !.polling = TRUE]
          /\ calls' = Silence(calls, ListKinds)
                 \cup {Call("list", session, inbox.page)}
    /\ InboxUnchanged /\ UNCHANGED <<reader, alerted>>

\* The buttons follow the listing shown, not the page asked for.
ChangePage(n) ==
    /\ session # None /\ ~hidden /\ Room
    /\ \/ inbox.listing.previous /\ n = inbox.page - 1 /\ n >= 0
       \/ inbox.listing.next /\ n = inbox.page + 1 /\ n <= MaxPage
    /\ RestartRefresh([inbox EXCEPT !.page = n, !.selected = None, !.loading = TRUE],
                      Silence(calls, ReaderKinds))
    /\ reader' = NoReader
    /\ InboxUnchanged /\ UNCHANGED <<hidden, alerted>>

\* removeMessage() and removeStale(): close the reader and refresh.
Remove(cs) ==
    /\ Refresh([inbox EXCEPT !.selected = None], Silence(cs, ReaderKinds), session)
    /\ reader' = NoReader

----------------------------------------------------------------------------
(* MessageReader.vue.                                                      *)

ReaderUnchanged == UNCHANGED <<session, hidden, server, alerted>>

ReloadedStill(cs) == cs             \* mutant: no new version
Reloaded(cs) == Silence(cs, ReaderKinds)

LoadMessage(m) ==
    /\ reader' = LoadingReader
    /\ calls' = Reloaded(calls)
                  \cup {Call("message", session, m)}

Select(m) ==
    /\ ~hidden /\ Room
    /\ ~inbox.loading /\ m \in RowSet(inbox.listing.rows) /\ m # inbox.selected
    /\ inbox' = [inbox EXCEPT !.selected = m]
    /\ LoadMessage(m)
    /\ ReaderUnchanged

RetryMessage ==
    /\ reader.error /\ ~reader.loading /\ ~hidden /\ Room
    /\ LoadMessage(inbox.selected)
    /\ ReaderUnchanged /\ UNCHANGED inbox

CloseReader ==
    /\ inbox.selected # None /\ ~hidden
    /\ inbox' = [inbox EXCEPT !.selected = None]
    /\ reader' = NoReader
    /\ calls' = Silence(calls, ReaderKinds)
    /\ ReaderUnchanged

\* The second half of loadMessage(): an unread message is marked before the
\* reader stops loading (whether it is unread is left open); one that is gone
\* makes the inbox refresh.
MessageLoaded(c, outcome) ==
    \/ /\ outcome = "ok"
       /\ reader' = [reader EXCEPT !.shown = c.arg, !.loading = FALSE]
       /\ calls' = calls \ {c} /\ UNCHANGED inbox
    \/ /\ outcome = "ok"
       /\ reader' = [reader EXCEPT !.shown = c.arg]
       /\ calls' = (calls \ {c}) \cup {Call("seen", c.box, c.arg)}
       /\ UNCHANGED inbox
    \/ outcome = "gone" /\ Remove(calls \ {c})
    \/ /\ outcome = "failed"
       /\ reader' = [reader EXCEPT !.error = TRUE, !.loading = FALSE]
       /\ calls' = calls \ {c} /\ UNCHANGED inbox

\* markSeen(), or an error that is only shown; the mark itself is left out.
SeenSaved(c) ==
    /\ reader' = [reader EXCEPT !.loading = FALSE]
    /\ calls' = calls \ {c}
    /\ UNCHANGED inbox

BusyWithShown(action) == [reader EXCEPT !.busy = reader.shown]   \* mutant
BusyWith(action) == [reader EXCEPT !.busy = action]

\* downloadSource(), and downloadAttachment() which is like it.
Download ==
    /\ reader.shown # None /\ ~reader.loading /\ reader.busy = "none"
    /\ ~hidden /\ Room
    /\ reader' = BusyWith("source")
    /\ calls' = calls \cup {Call("source", session, reader.shown)}
    /\ ReaderUnchanged /\ UNCHANGED inbox

\* deleteCurrent(), once the user has confirmed.
DeleteCurrent ==
    /\ reader.shown # None /\ ~reader.loading /\ reader.busy = "none"
    /\ ~hidden /\ Room
    /\ reader' = BusyWith("delete")
    /\ calls' = calls \cup {Call("delete", session, reader.shown)}
    /\ ReaderUnchanged /\ UNCHANGED inbox

ActionEnded(c, outcome) ==
    \/ c.kind = "delete" /\ outcome \in {"ok", "gone"} /\ Remove(calls \ {c})
    \/ /\ c.kind = "source" \/ outcome = "failed"
       /\ reader' = [reader EXCEPT !.busy = "none"]
       /\ calls' = calls \ {c} /\ UNCHANGED inbox

ReaderAnswered(c, outcome) ==
    /\ \/ Awaited(c) /\ c.kind = "message" /\ MessageLoaded(c, outcome)
       \/ Awaited(c) /\ c.kind = "seen" /\ SeenSaved(c)
       \/ Awaited(c) /\ c.kind \in {"delete", "source"} /\ ActionEnded(c, outcome)
       \/ /\ ~c.live /\ c.kind \in ReaderKinds
          /\ calls' = calls \ {c}
          /\ UNCHANGED <<inbox, reader>>
    /\ ReaderUnchanged

----------------------------------------------------------------------------

Init ==
    /\ session = None /\ hidden \in BOOLEAN
    /\ inbox = NoInbox /\ reader = NoReader
    /\ alerted = [m \in Messages |-> 0]
    /\ calls = {} /\ mail = <<>> /\ unsent = Messages

Answer(c) ==
    \E outcome \in Outcomes(c) :
        ListAnswered(c, outcome) \/ ReaderAnswered(c, outcome)

User ==
    \/ CloseSession \/ Hide \/ Return \/ ClickRefresh
    \/ RetryMessage \/ CloseReader \/ Download \/ DeleteCurrent
    \/ \E t \in Addresses : OpenSession(t)
    \/ \E n \in 0..MaxPage : ChangePage(n)
    \/ \E m \in Messages : Select(m)

Next ==
    \/ User \/ Poll
    \/ \E c \in calls : Serve(c) \/ Answer(c)
    \/ \E m \in Messages : Arrive(m) \/ Expire(m)

Spec == Init /\ [][Next]_vars

----------------------------------------------------------------------------
(* Properties.                                                             *)

Listings ==
    [page : 0..MaxPage,
     rows : UNION {[1..n -> Messages] : n \in 0..Cardinality(Messages)},
     previous : BOOLEAN, next : BOOLEAN]

\* Every variable has its type, and no more calls are under way than allowed
\* for (the interval may add one).
TypeOK ==
    /\ session \in Addresses \cup {None}
    /\ inbox.listing \in Listings
    /\ inbox.selected \in Messages \cup {None}
    /\ inbox.page \in 0..MaxPage /\ inbox.known \subseteq Messages
    /\ \A f \in {"loading", "refreshing", "error", "polling", "initialized"} :
        inbox[f] \in BOOLEAN
    /\ reader \in [shown : Messages \cup {None}, loading : BOOLEAN,
                   error : BOOLEAN, busy : {"none", "source", "delete"}]
    /\ hidden \in BOOLEAN
    /\ \A c \in calls :
        /\ c.kind \in ListKinds \cup ReaderKinds
        /\ c.box \in Addresses /\ c.live \in BOOLEAN
        /\ c.arg \in Messages \cup {None} \cup 0..MaxPage
        /\ c.answer \in {"pending", "ok", "gone"}
        /\ c.listing \in Listings
    /\ Cardinality(calls) <= MaxInFlight + 1
    /\ RowSet(mail) \subseteq Messages /\ Len(mail) = Cardinality(RowSet(mail))
    /\ unsent \subseteq Messages
    /\ alerted \in [Messages -> Nat]

\* The mail on the screen, listed or open, was sent to the address the token
\* in use is for: no reply to a call of an earlier inbox is shown
\* (InboxView.vue:64, resetSession).
MailIsOurs ==
    session # None =>
        \A m \in RowSet(inbox.listing.rows) \cup ({reader.shown} \ {None}) :
            session \in To[m]

\* An inbox that waits for nothing and reports no error shows the page whose
\* number it shows, whatever the order in which replies to polls and page
\* changes arrived (InboxView.vue:58, 91, 125).
SettledPageIsShown ==
    (session # None /\ ~inbox.loading /\ ~inbox.refreshing /\ ~inbox.error)
        => inbox.listing.page = inbox.page

\* The reader shows the message that is selected: a reply for the one
\* selected before is dropped (MessageReader.vue:54).
ReaderShowsSelected == reader.shown \in {None, inbox.selected}

\* A message is announced at most once while an inbox is open, whichever
\* pages are looked at and whatever the lists that came before said
\* (notifyNew).
AnnouncedOnce == \A m \in Messages : alerted[m] <= 1

\* Nothing waits for a reply that will not count: while a refresh, a message
\* or an action is awaited there is a live call for it, so that no sequence of
\* polls, page changes, returns and switches leaves a refresh forbidden or a
\* button disabled for good; and a visible inbox is polled (InboxView.vue:59,
\* 69, 91; MessageReader.vue:74, 172).
LiveCall(kinds) == \E c \in calls : c.live /\ c.kind \in kinds

NothingWaitsInVain ==
    /\ inbox.refreshing <=> LiveCall(ListKinds)
    /\ inbox.loading => inbox.refreshing \/ hidden
    /\ inbox.polling <=> (session # None /\ ~hidden)
    /\ reader.loading <=> LiveCall({"message", "seen"})
    /\ reader.busy # "none" <=> LiveCall({"delete", "source"})
=============================================================================
