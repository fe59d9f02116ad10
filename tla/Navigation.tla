----------------------------- MODULE Navigation -----------------------------
(***************************************************************************)
(* Which page the public front end shows: App.vue and AddressPanel.vue     *)
(* with the saved sessions (session.ts), the history of the tab and calls  *)
(* of POST /token that are answered late.  The inbox that is shown is the  *)
(* subject of Inbox.                                                       *)
(*                                                                         *)
(* An action is what a handler does up to its next await, watchers and     *)
(* the re-render included; the rest is the action of the reply.  A call is *)
(* live while navigationVersion is as it was when it began; a submission,  *)
(* for which the code keeps no version, while the form is mounted: Vue     *)
(* drops what an unmounted component emits.                                *)
(***************************************************************************)
EXTENDS Naturals, FiniteSets

CONSTANTS
    Addresses,    \* addresses the API gives tokens for
    None,         \* no address, no token
    MaxInFlight   \* bound: calls under way

ASSUME NavigationAssumption ==
    /\ None \notin Addresses
    /\ {"home", "admin"} \cap Addresses = {}
    /\ MaxInFlight \in Nat \ {0}

VARIABLES
    path,      \* location.pathname
    view,      \* App.vue: the page
    current,   \*          the session of the inbox
    loading,   \*          a token is asked for the path
    error,     \*          and was refused
    panel,     \* AddressPanel.vue: domains, typed, submitting
    saved,     \* local storage: the token saved for an address
    calls      \* calls of POST /token that have not been answered

app == <<path, view, current, loading, error>>
vars == <<path, view, current, loading, error, panel, saved, calls>>

\* What the form may hold, or a saved session be for: None is a name field that
\* has been emptied, or holds what makes no address (App.vue emits it, all the
\* same, and route.ts:22-30 takes its path for the home page).
Names == Addresses \cup {None}
PathOf(a) == IF a = None THEN "home" ELSE a

\* A token is the address it is for.
Sessions == [address : Names, token : Addresses]
NoSession == [address |-> None, token |-> None]

Call(from, a) == [from |-> from, address |-> a, live |-> TRUE]

Silence(cs, from) ==
    {IF c.from = from THEN [c EXCEPT !.live = FALSE] ELSE c : c \in cs}

RenavigatedStill(cs) == cs          \* mutant: the version is not incremented
\* ++navigationVersion
Renavigated(cs) == Silence(cs, "route")

Room == Cardinality(calls) < MaxInFlight

NoPanel == [domains |-> "none", typed |-> None, submitting |-> FALSE]
FreshPanel == [domains |-> "loading", typed |-> None, submitting |-> FALSE]

\* The form is mounted while the page is the address page and not waiting.
HasPanel == view = "address" /\ ~loading

(* The re-render after the step: the form is mounted, kept or unmounted,   *)
(* and calls become cs.                                                    *)
Render(cs) ==
    /\ panel' = IF ~HasPanel' THEN NoPanel
                ELSE IF HasPanel THEN panel ELSE FreshPanel
    /\ calls' = IF HasPanel' THEN cs ELSE Silence(cs, "panel")

----------------------------------------------------------------------------
(* App.vue.                                                                *)

\* openInbox() of session s at path p.  Local storage may refuse the write.
OpenInbox(s, p) ==
    /\ path' = p /\ view' = "inbox" /\ current' = s
    /\ saved' \in {saved, [saved EXCEPT ![s.address] = s.token]}

\* openCreatedInbox().
OpenCreatedInbox(s, cs) ==
    /\ OpenInbox(s, PathOf(s.address))
    /\ UNCHANGED <<loading, error>>
    /\ Render(Renavigated(cs))

\* reconcileRoute() for a page, a saved address, an address that is not saved.
ShowPage(p) ==
    /\ p \in {"home", "admin"}
    /\ path' = p /\ view' = IF p = "admin" THEN "admin" ELSE "address"
    /\ current' = NoSession /\ loading' = FALSE /\ error' = FALSE
    /\ Render(Renavigated(calls))
    /\ UNCHANGED saved

OpenSaved(p) ==
    /\ p \in Addresses /\ saved[p] # None
    /\ OpenInbox([address |-> p, token |-> saved[p]], p)
    /\ loading' = FALSE /\ error' = FALSE
    /\ Render(Renavigated(calls))

AskToken(p) ==
    /\ p \in Addresses /\ saved[p] = None
    /\ path' = p /\ view' = "address"
    /\ current' = NoSession /\ loading' = TRUE /\ error' = FALSE
    /\ Render(Renavigated(calls) \cup {Call("route", p)})
    /\ UNCHANGED saved

ReconcileRoute(p) == ShowPage(p) \/ OpenSaved(p) \/ AskToken(p)

\* Back and Forward; the history of the tab may hold any of the paths, the
\* present one too.
PopState(p) == Room /\ ReconcileRoute(p)

NotDoneLoading == UNCHANGED loading   \* mutant: no finally
\* The reply to reconcileRoute(), or the error.
DoneLoading == loading' = FALSE

Granted(a) == [address |-> a, token |-> a]

TokenGranted(c) ==
    /\ c.from = "route" /\ c.live
    /\ OpenInbox(Granted(c.address), path)
    /\ DoneLoading
    /\ UNCHANGED error
    /\ Render(calls \ {c})

TokenRefused(c) ==
    /\ c.from = "route" /\ c.live
    /\ error' = TRUE /\ view' = "address" /\ DoneLoading
    /\ UNCHANGED <<path, current, saved>>
    /\ Render(calls \ {c})

\* A reply that nobody waits for.
DroppedReply(c) ==
    /\ ~c.live
    /\ calls' = calls \ {c}
    /\ UNCHANGED <<app, panel, saved>>

NewAddress ==
    /\ view = "inbox"
    /\ path' = "home" /\ view' = "address"
    /\ current' = NoSession /\ error' = FALSE
    /\ UNCHANGED <<loading, saved>>
    /\ Render(Renavigated(calls))

----------------------------------------------------------------------------
(* AddressPanel.vue.                                                       *)

\* loadDomains(); the form is shown only after it.
DomainsAnswered(d) ==
    /\ panel.domains = "loading"
    /\ panel' = [panel EXCEPT !.domains = d]
    /\ UNCHANGED <<app, saved, calls>>

RetryDomains ==
    /\ panel.domains = "error"
    /\ panel' = [panel EXCEPT !.domains = "loading"]
    /\ UNCHANGED <<app, saved, calls>>

\* The fields stay enabled while a submission is under way, and can be emptied.
Edit(a) ==
    /\ panel.domains = "ready" /\ a # panel.typed
    /\ panel' = [panel EXCEPT !.typed = a]
    /\ UNCHANGED <<app, saved, calls>>

Submit ==
    /\ panel.domains = "ready" /\ panel.typed # None
    /\ ~panel.submitting /\ Room
    /\ panel' = [panel EXCEPT !.submitting = TRUE]
    /\ calls' = calls \cup {Call("panel", panel.typed)}
    /\ UNCHANGED <<app, saved>>

NotResubmittable == panel           \* mutant: no finally
Resubmittable == [panel EXCEPT !.submitting = FALSE]

\* The session emitted has the token that was asked for and the address the
\* form holds now, be it none.
SubmitGranted(c) ==
    /\ c.from = "panel" /\ c.live
    /\ OpenCreatedInbox([address |-> panel.typed, token |-> c.address], calls \ {c})

SubmitRefused(c) ==
    /\ c.from = "panel" /\ c.live
    /\ panel' = Resubmittable
    /\ calls' = calls \ {c}
    /\ UNCHANGED <<app, saved>>

PickSaved(a) ==
    /\ HasPanel /\ saved[a] # None
    /\ OpenCreatedInbox([address |-> a, token |-> saved[a]], calls)

\* removeSession().
Forget(a) ==
    /\ HasPanel /\ saved[a] # None
    /\ saved' = [saved EXCEPT ![a] = None]
    /\ UNCHANGED <<app, panel, calls>>

----------------------------------------------------------------------------

\* The tab was opened at one of the pages or at the link of an address, with
\* sessions saved by an earlier visit.
Init ==
    /\ saved \in {s \in [Names -> Names] : \A a \in Names : s[a] \in {a, None}}
    /\ error = FALSE
    /\ \/ /\ path \in {"home", "admin"}
          /\ view = IF path = "admin" THEN "admin" ELSE "address"
          /\ current = NoSession /\ loading = FALSE /\ calls = {}
       \/ /\ path \in Addresses /\ saved[path] # None
          /\ view = "inbox" /\ current = Granted(path)
          /\ loading = FALSE /\ calls = {}
       \/ /\ path \in Addresses /\ saved[path] = None
          /\ view = "address" /\ current = NoSession
          /\ loading = TRUE /\ calls = {Call("route", path)}
    /\ panel = IF HasPanel THEN FreshPanel ELSE NoPanel

Next ==
    \/ \E p \in Addresses \cup {"home", "admin"} : PopState(p)
    \/ NewAddress \/ RetryDomains \/ Submit
    \/ \E d \in {"ready", "empty", "error"} : DomainsAnswered(d)
    \/ \E a \in Names : Edit(a) \/ PickSaved(a) \/ Forget(a)
    \/ \E c \in calls :
        \/ TokenGranted(c) \/ TokenRefused(c) \/ DroppedReply(c)
        \/ SubmitGranted(c) \/ SubmitRefused(c)

Spec == Init /\ [][Next]_vars

\* The API answers, or the network fails, in the end.
FairSpec == Spec /\ WF_vars(\E c \in calls : TokenGranted(c) \/ TokenRefused(c))

----------------------------------------------------------------------------
(* Properties.                                                             *)

\* Every variable has its type.
TypeOK ==
    /\ path \in Addresses \cup {"home", "admin"}
    /\ view \in {"address", "inbox", "admin"}
    /\ current \in Sessions \cup {NoSession}
    /\ loading \in BOOLEAN /\ error \in BOOLEAN
    /\ panel \in [domains : {"none", "loading", "ready", "empty", "error"},
                  typed : Names, submitting : BOOLEAN]
    /\ saved \in [Names -> Names]
    /\ calls \subseteq [from : {"route", "panel"}, address : Addresses,
                        live : BOOLEAN]

\* What is shown belongs to the path: an inbox to the address in it, and the
\* form is at the link of an address only with the error that explains it.  No
\* token that arrives late brings back a page that was left (App.vue:90, 127).
\* An inbox at the path of the form is one for no address, opened when the form
\* was emptied before its reply came (AddressPanel.vue:57); nothing else is.
RouteIsShown ==
    /\ view = "inbox" => path = PathOf(current.address)
    /\ (HasPanel /\ path \in Addresses) => error
    /\ view = "admin" <=> path = "admin"

\* The waiting page and a submitted form each have one live call, and no other
\* call is live: neither waits for a reply that will be dropped, and no
\* submission outlives its form (App.vue:90, AddressPanel.vue:51).
WaitingHasItsCall ==
    /\ loading <=> Call("route", path) \in calls
    /\ panel.submitting <=> \E a \in Addresses : Call("panel", a) \in calls
    /\ \A c, d \in calls : (c.live /\ d.live /\ c.from = d.from) => c = d

\* A page that waits for the token of its link is done with it in the end
\* (App.vue:122), as long as the user stays on it.
WaitingEnds ==
    \A p \in Addresses : (loading /\ path = p) ~> ~(loading /\ path = p)

\* README.md:167: the link of an address opens that address directly; an inbox
\* is opened with the token of the address in its path.
LinkOpensItsAddress == view = "inbox" => current.token = path
=============================================================================
