-------------------------- MODULE NavigationProofs --------------------------
(***************************************************************************)
(* What is shown belongs to the path, and every wait has its call, for any *)
(* number of addresses, of calls under way and of late replies.            *)
(***************************************************************************)
EXTENDS Navigation, TLAPS

\* The form exists while the page shows it, and has an address while a
\* submission is under way.
PanelFits ==
    /\ HasPanel \/ panel = NoPanel
    /\ panel.submitting => panel.domains = "ready"
    /\ loading => view = "address" /\ path \in Addresses

PanelType ==
    [domains : {"none", "loading", "ready", "empty", "error"},
     typed : Names, submitting : BOOLEAN]

CallType == [from : {"route", "panel"}, address : Addresses, live : BOOLEAN]

\* A live call belongs to the page that is shown now.
LiveCallsFit ==
    \A c \in calls : c.live =>
        /\ c.from = "route" => loading /\ c.address = path
        /\ c.from = "panel" => panel.submitting

Inductive ==
    TypeOK /\ PanelFits /\ LiveCallsFit /\ RouteIsShown /\ WaitingHasItsCall

----------------------------------------------------------------------------

Paths == Addresses \cup {"home", "admin"}
USE DEF Names, Paths, PathOf

\* Silencing keeps the calls, and of the live ones those of the other kind.
LEMMA SilenceFacts ==
    ASSUME NEW cs, cs \subseteq CallType, NEW from \in {"route", "panel"}
    PROVE  /\ Silence(cs, from) \subseteq CallType
           /\ \A c \in Silence(cs, from) : c.live => c \in cs /\ c.from # from
           /\ \A c \in cs : c.from # from => c \in Silence(cs, from)
<1>1. ASSUME NEW c \in cs
      PROVE  /\ [c EXCEPT !.live = FALSE] \in CallType
             /\ ~[c EXCEPT !.live = FALSE].live
  BY DEF CallType
<1>2. QED
  BY <1>1 DEF Silence

\* A new call is live and has its type.
LEMMA CallFacts ==
    ASSUME NEW from \in {"route", "panel"}, NEW a \in Addresses
    PROVE  /\ Call(from, a) \in CallType /\ Call(from, a).live
           /\ Call(from, a).from = from /\ Call(from, a).address = a
           /\ \A c \in CallType :
                c.live /\ c.from = from /\ c.address = a => c = Call(from, a)
  BY DEF Call, CallType

\* The initial page is right.
LEMMA InitInductive == Init => Inductive
<1> SUFFICES ASSUME Init PROVE Inductive
  OBVIOUS
<1> USE NavigationAssumption DEF Init
<1>1. saved \in [Names -> Names]
  OBVIOUS
<1>2. TypeOK
  <2>1. calls \subseteq CallType
    <3>1. path \in Addresses => Call("route", path) \in CallType
      BY CallFacts
    <3>2. calls = {} \/ (path \in Addresses /\ calls = {Call("route", path)})
      OBVIOUS
    <3>3. QED
      BY <3>1, <3>2
  <2>2. current \in Sessions \cup {NoSession}
    BY DEF Granted, Sessions
  <2>3. panel \in PanelType
    BY DEF PanelType, FreshPanel, NoPanel
  <2>4. QED
    BY <1>1, <2>1, <2>2, <2>3 DEF TypeOK, CallType, PanelType
<1>3. PanelFits
  BY DEF PanelFits, HasPanel, FreshPanel, NoPanel
<1>4. LiveCallsFit
  BY DEF LiveCallsFit, Call
<1>5. RouteIsShown
  BY DEF RouteIsShown, HasPanel, Granted
<1>6. WaitingHasItsCall
  BY DEF WaitingHasItsCall, Call, FreshPanel, NoPanel
<1>7. QED
  BY <1>2, <1>3, <1>4, <1>5, <1>6 DEF Inductive

----------------------------------------------------------------------------

\* After a re-render the form has its type and is there exactly when it is
\* shown; a form that is not the one before has submitted nothing; a call that
\* is live was live before it, and none of a form that is gone.
LEMMA RenderFacts ==
    ASSUME Inductive, NEW cs, cs \subseteq CallType, Render(cs)
    PROVE  /\ panel' \in PanelType /\ calls' \subseteq CallType
           /\ HasPanel' \/ panel' = NoPanel
           /\ panel'.submitting => HasPanel /\ HasPanel' /\ panel' = panel
           /\ HasPanel /\ HasPanel' => panel' = panel
           /\ \A c \in calls' : c.live => c \in cs
           /\ \A c \in calls' : c.live /\ c.from = "panel" => HasPanel'
           /\ \A c \in cs : c.from = "route" \/ HasPanel' => c \in calls'
<1> USE DEF Render
<1>1. panel \in PanelType
  BY DEF Inductive, TypeOK, PanelType
<1>2. /\ NoPanel \in PanelType /\ ~NoPanel.submitting
      /\ FreshPanel \in PanelType /\ ~FreshPanel.submitting
  BY DEF PanelType, NoPanel, FreshPanel
<1>3. CASE HasPanel'
  BY <1>1, <1>2, <1>3
<1>4. CASE ~HasPanel'
  BY <1>1, <1>2, <1>4, SilenceFacts
<1>5. QED
  BY <1>3, <1>4

----------------------------------------------------------------------------

OthersTyped ==
    /\ path \in Paths
    /\ view \in {"address", "inbox", "admin"}
    /\ current \in Sessions \cup {NoSession}
    /\ loading \in BOOLEAN /\ error \in BOOLEAN
    /\ saved \in [Names -> Names]

\* What a step that ends in a re-render has to see to: the page fits its path,
\* and the calls it leaves live are those that the page and the form wait for.
LEMMA RenderInductive ==
    ASSUME Inductive, OthersTyped', RouteIsShown', NEW cs, cs \subseteq CallType,
           Render(cs),
           (loading => view = "address" /\ path \in Addresses)',
           \A c \in cs : c.live /\ c.from = "route"
               => loading' /\ c.address = path',
           \A c \in cs : c.live /\ c.from = "panel" => panel.submitting,
           loading' => Call("route", path') \in cs,
           HasPanel' /\ panel.submitting
               => \E a \in Addresses : Call("panel", a) \in cs,
           \A c, d \in cs : (c.live /\ d.live /\ c.from = d.from) => c = d
    PROVE  Inductive'
<1>1. /\ panel' \in PanelType /\ calls' \subseteq CallType
      /\ HasPanel' \/ panel' = NoPanel
      /\ panel'.submitting => HasPanel /\ HasPanel' /\ panel' = panel
      /\ HasPanel /\ HasPanel' => panel' = panel
      /\ \A c \in calls' : c.live => c \in cs
      /\ \A c \in calls' : c.live /\ c.from = "panel" => HasPanel'
      /\ \A c \in cs : c.from = "route" \/ HasPanel' => c \in calls'
  BY RenderFacts
<1>2. panel.submitting => HasPanel
  BY DEF Inductive, PanelFits, NoPanel
<1>3. TypeOK'
  BY <1>1 DEF TypeOK, OthersTyped, PanelType, CallType
<1>4. PanelFits'
  BY <1>1 DEF Inductive, PanelFits
<1>5. LiveCallsFit'
  BY <1>1, <1>2 DEF LiveCallsFit
<1>6. WaitingHasItsCall'
  <2>1. (loading <=> Call("route", path) \in calls)'
    <3>1. ASSUME loading' PROVE Call("route", path') \in calls'
      BY <1>1, <3>1 DEF Call
    <3>2. ASSUME Call("route", path') \in calls' PROVE loading'
      <4>1. Call("route", path').live /\ Call("route", path').from = "route"
        BY DEF Call
      <4>2. QED
        BY <1>1, <3>2, <4>1
    <3>3. QED
      BY <3>1, <3>2 DEF OthersTyped
  <2>2. (panel.submitting <=> \E a \in Addresses : Call("panel", a) \in calls)'
    <3>1. ASSUME panel'.submitting
          PROVE  \E a \in Addresses : Call("panel", a) \in calls'
      <4>1. HasPanel' /\ panel.submitting
        BY <1>1, <3>1
      <4>2. QED
        BY <1>1, <4>1
    <3>2. ASSUME NEW a \in Addresses, Call("panel", a) \in calls'
          PROVE  panel'.submitting
      <4>1. Call("panel", a).live /\ Call("panel", a).from = "panel"
        BY DEF Call
      <4>2. HasPanel' /\ panel.submitting
        BY <1>1, <3>2, <4>1
      <4>3. QED
        BY <1>1, <1>2, <4>2
    <3>3. panel'.submitting \in BOOLEAN
      BY <1>1 DEF PanelType
    <3>4. QED
      BY <3>1, <3>2, <3>3
  <2>3. (\A c, d \in calls : (c.live /\ d.live /\ c.from = d.from) => c = d)'
    BY <1>1
  <2>4. QED
    BY <2>1, <2>2, <2>3 DEF WaitingHasItsCall
<1>7. QED
  BY <1>3, <1>4, <1>5, <1>6 DEF Inductive

----------------------------------------------------------------------------

\* Renavigating silences the calls for a path and keeps those of the form.
LEMMA RenavigatedFacts ==
    ASSUME NEW cs, cs \subseteq CallType
    PROVE  /\ Renavigated(cs) \subseteq CallType
           /\ \A c \in Renavigated(cs) : c.live => c \in cs /\ c.from # "route"
           /\ \A c \in cs : c.from # "route" => c \in Renavigated(cs)
  BY SilenceFacts DEF Renavigated

\* The facts of the invariant that most steps need.
LEMMA Facts ==
    ASSUME Inductive
    PROVE  /\ OthersTyped /\ panel \in PanelType /\ calls \subseteq CallType
           /\ panel.submitting => HasPanel
           /\ \A c \in calls : c.live /\ c.from = "panel" => panel.submitting
           /\ \A c \in calls : c.live /\ c.from = "route"
                  => loading /\ c.address = path
           /\ panel.submitting => \E a \in Addresses : Call("panel", a) \in calls
           /\ \A a \in Addresses :
                  Call("panel", a).live /\ Call("panel", a).from = "panel"
           /\ \A c, d \in calls : (c.live /\ d.live /\ c.from = d.from) => c = d
           /\ ~NoPanel.submitting
<1>1. OthersTyped /\ panel \in PanelType /\ calls \subseteq CallType
  BY DEF Inductive, TypeOK, OthersTyped, PanelType, CallType
<1>2. ~NoPanel.submitting
  BY DEF NoPanel
<1>3. panel.submitting => HasPanel
  BY <1>1, <1>2 DEF Inductive, PanelFits, PanelType
<1>4. /\ \A c \in calls : c.live /\ c.from = "panel" => panel.submitting
      /\ \A c \in calls : c.live /\ c.from = "route" => loading /\ c.address = path
  BY DEF Inductive, LiveCallsFit
<1>5. \A a \in Addresses :
          Call("panel", a).live /\ Call("panel", a).from = "panel"
  BY DEF Call
<1>6. /\ panel.submitting => \E a \in Addresses : Call("panel", a) \in calls
      /\ \A c, d \in calls : (c.live /\ d.live /\ c.from = d.from) => c = d
  BY DEF Inductive, WaitingHasItsCall
<1>7. QED
  BY <1>1, <1>2, <1>3, <1>4, <1>5, <1>6, Zenon

\* Every step that renavigates to a page which does not wait.
LEMMA RenavigatedInductive ==
    ASSUME Inductive, OthersTyped', RouteIsShown', ~loading',
           NEW cs, cs \subseteq calls, Render(Renavigated(cs)),
           HasPanel' => cs = calls
    PROVE  Inductive'
<1> DEFINE rs == Renavigated(cs)
<1>1. /\ rs \subseteq CallType
      /\ \A c \in rs : c.live => c \in calls /\ c.from # "route"
  BY Facts, RenavigatedFacts
<1>2. \A c \in rs : c.live /\ c.from = "panel" => panel.submitting
  BY <1>1, Facts
<1>3. HasPanel' /\ panel.submitting => \E a \in Addresses : Call("panel", a) \in rs
  BY Facts, RenavigatedFacts
<1>4. \A c, d \in rs : (c.live /\ d.live /\ c.from = d.from) => c = d
  BY <1>1, Facts
<1> HIDE DEF rs
<1>5. Render(rs)
  BY DEF rs
<1>6. QED
  BY <1>1, <1>2, <1>3, <1>4, <1>5, RenderInductive

\* An inbox that is opened at the path of its address has its type and fits its path.
LEMMA OpenInboxFacts ==
    ASSUME Inductive, NEW s \in Sessions, OpenInbox(s, PathOf(s.address))
    PROVE  /\ path' \in Paths /\ current' \in Sessions /\ view' = "inbox"
           /\ saved' \in [Names -> Names]
           /\ ~HasPanel'
           /\ RouteIsShown'
<1>1. saved \in [Names -> Names]
  BY Facts DEF OthersTyped
<1>2. s.address \in Names /\ s.token \in Names
  BY DEF Sessions, Names
<1>3. view' = "inbox" /\ path' = PathOf(s.address) /\ current' = s
  BY DEF OpenInbox
<1>4. saved' \in [Names -> Names]
  BY <1>1, <1>2 DEF OpenInbox
<1>5. path' \in Paths /\ path' # "admin"
  BY <1>2, <1>3, NavigationAssumption DEF PathOf, Names, Paths
<1>6. RouteIsShown' /\ ~HasPanel'
  BY <1>3, <1>5 DEF RouteIsShown, HasPanel
<1>7. QED
  BY <1>3, <1>4, <1>5, <1>6

----------------------------------------------------------------------------

\* reconcileRoute() keeps the invariant, whichever branch it takes.
LEMMA ReconcileInductive ==
    ASSUME Inductive, NEW p, ReconcileRoute(p)
    PROVE  Inductive'
<1>1. CASE ShowPage(p)
  <2>1. OthersTyped'
    BY <1>1, Facts DEF ShowPage, OthersTyped
  <2>2. RouteIsShown'
    BY <1>1, NavigationAssumption DEF ShowPage, RouteIsShown, HasPanel
  <2>3. ~loading' /\ Render(Renavigated(calls))
    BY <1>1 DEF ShowPage
  <2>4. QED
    BY <2>1, <2>2, <2>3, RenavigatedInductive
<1>2. CASE OpenSaved(p)
  <2> DEFINE s == [address |-> p, token |-> saved[p]]
  <2>1. s \in Sessions /\ s.address = p /\ p \in Addresses
    BY <1>2, Facts DEF OpenSaved, OthersTyped, Sessions
  <2>2. OpenInbox(s, PathOf(s.address))
    BY <1>2, <2>1, NavigationAssumption DEF OpenSaved
  <2>3. /\ path' \in Paths /\ current' \in Sessions /\ view' = "inbox"
        /\ saved' \in [Names -> Names]
        /\ ~HasPanel' /\ RouteIsShown'
    <3> HIDE DEF s
    <3>1. QED
      BY <2>1, <2>2, NavigationAssumption, OpenInboxFacts
  <2>4. ~loading' /\ ~error' /\ loading' \in BOOLEAN /\ error' \in BOOLEAN
        /\ Render(Renavigated(calls))
    BY <1>2 DEF OpenSaved
  <2>5. OthersTyped'
    BY <2>3, <2>4 DEF OthersTyped
  <2>6. QED
    BY <2>3, <2>4, <2>5, RenavigatedInductive
<1>3. CASE AskToken(p)
  <2> DEFINE cs == Renavigated(calls) \cup {Call("route", p)}
  <2>1. /\ p \in Addresses /\ path' = p /\ view' = "address" /\ loading' = TRUE
        /\ current' = NoSession /\ error' = FALSE /\ saved' = saved
        /\ Render(cs)
    BY <1>3 DEF AskToken
  <2>2. OthersTyped'
    BY <2>1, Facts DEF OthersTyped
  <2>3. RouteIsShown'
    BY <2>1, NavigationAssumption DEF RouteIsShown, HasPanel
  <2>4. /\ Renavigated(calls) \subseteq CallType
        /\ \A c \in Renavigated(calls) : c.live => c \in calls /\ c.from # "route"
        /\ \A c \in calls : c.from # "route" => c \in Renavigated(calls)
    BY Facts, RenavigatedFacts
  <2>5. /\ Call("route", p) \in CallType /\ Call("route", p).live
        /\ Call("route", p).from = "route" /\ Call("route", p).address = p
    BY <2>1, CallFacts
  <2>6. cs \subseteq CallType
    BY <2>4, <2>5
  <2>7. \A c \in cs : c.live /\ c.from = "route" => loading' /\ c.address = path'
    BY <2>1, <2>4, <2>5
  <2>8. \A c \in cs : c.live /\ c.from = "panel" => panel.submitting
    BY <2>4, <2>5, Facts
  <2>9. \A c, d \in cs : (c.live /\ d.live /\ c.from = d.from) => c = d
    BY <2>4, <2>5, Facts
  <2>10. Call("route", path') \in cs /\ ~HasPanel'
    BY <2>1 DEF HasPanel
  <2> HIDE DEF cs
  <2>11. QED
    BY <2>1, <2>2, <2>3, <2>6, <2>7, <2>8, <2>9, <2>10, RenderInductive
<1>4. QED
  BY <1>1, <1>2, <1>3 DEF ReconcileRoute

\* The reply that the waiting page asked for ends the waiting.
LEMMA TokenInductive ==
    ASSUME Inductive, NEW c \in calls, TokenGranted(c) \/ TokenRefused(c)
    PROVE  Inductive'
<1>1. c.from = "route" /\ c.live /\ loading /\ c.address = path
  BY Facts DEF TokenGranted, TokenRefused
<1>2. path \in Addresses /\ view = "address"
  BY <1>1 DEF Inductive, PanelFits
<1>3. ~loading' /\ loading' \in BOOLEAN /\ Render(calls \ {c})
  BY DEF TokenGranted, TokenRefused, DoneLoading
<1>4. OthersTyped' /\ RouteIsShown'
  <2>1. CASE TokenGranted(c)
    <3>1. Granted(path) \in Sessions /\ Granted(path).address = path /\ path # None
      BY <1>2, NavigationAssumption DEF Granted, Sessions
    <3>2. OpenInbox(Granted(path), PathOf(Granted(path).address))
      BY <2>1, <1>1, <3>1 DEF TokenGranted
    <3>3. /\ path' \in Paths /\ current' \in Sessions /\ view' = "inbox"
          /\ saved' \in [Names -> Names]
          /\ ~HasPanel' /\ RouteIsShown'
      BY <3>1, <3>2, OpenInboxFacts
    <3>4. error' \in BOOLEAN
      BY <2>1, Facts DEF TokenGranted, OthersTyped
    <3>5. QED
      BY <1>3, <3>3, <3>4 DEF OthersTyped
  <2>2. CASE TokenRefused(c)
    <3>1. OthersTyped'
      BY <2>2, <1>3, Facts DEF TokenRefused, OthersTyped
    <3>2. RouteIsShown'
      BY <2>2, <1>2, NavigationAssumption DEF TokenRefused, RouteIsShown, HasPanel
    <3>3. QED
      BY <3>1, <3>2
  <2>3. QED
    BY <2>1, <2>2
<1>5. /\ calls \ {c} \subseteq CallType
      /\ \A d \in calls \ {c} : d.live => d.from # "route"
      /\ \A d \in calls \ {c} : d.live /\ d.from = "panel" => panel.submitting
      /\ \A d, e \in calls \ {c} : (d.live /\ e.live /\ d.from = e.from) => d = e
  BY <1>1, Facts
<1>6. ~panel.submitting
  BY <1>1, Facts DEF HasPanel
<1>7. QED
  BY <1>3, <1>4, <1>5, <1>6, RenderInductive

\* openCreatedInbox() after a submission or a click keeps the invariant.
LEMMA OpenCreatedInductive ==
    ASSUME Inductive, NEW s \in Sessions,
           NEW cs, cs \subseteq calls, HasPanel, OpenCreatedInbox(s, cs)
    PROVE  Inductive'
<1>1. OpenInbox(s, PathOf(s.address)) /\ Render(Renavigated(cs))
      /\ loading' = loading /\ error' = error
  BY DEF OpenCreatedInbox
<1>2. /\ path' \in Paths /\ current' \in Sessions /\ view' = "inbox"
      /\ saved' \in [Names -> Names]
      /\ ~HasPanel' /\ RouteIsShown'
  BY <1>1, OpenInboxFacts
<1>3. OthersTyped' /\ ~loading'
  BY <1>1, <1>2, Facts DEF OthersTyped, HasPanel
<1>4. QED
  BY <1>1, <1>2, <1>3, RenavigatedInductive

\* A step of the form or a dropped reply leaves the page alone.
LEMMA LocalInductive ==
    ASSUME Inductive, UNCHANGED app,
           saved' \in [Names -> Names],
           panel' \in PanelType, calls' \subseteq CallType,
           HasPanel \/ panel' = NoPanel,
           panel'.submitting => panel'.domains = "ready",
           \A c \in calls' : c.live /\ c.from = "route" => c \in calls,
           \A c \in calls : c.live /\ c.from = "route" => c \in calls',
           \A c \in calls' : c.live /\ c.from = "panel" => panel'.submitting,
           panel'.submitting => \E a \in Addresses : Call("panel", a) \in calls',
           \A c, d \in calls' : (c.live /\ d.live /\ c.from = d.from) => c = d
    PROVE  Inductive'
<1>1. /\ path' = path /\ view' = view /\ current' = current
      /\ loading' = loading /\ error' = error
  BY DEF app
<1>2. HasPanel' = HasPanel
  BY <1>1 DEF HasPanel
<1>3. TypeOK'
  BY <1>1, Facts DEF TypeOK, OthersTyped, PanelType, CallType
<1>4. PanelFits'
  BY <1>1, <1>2 DEF Inductive, PanelFits
<1>5. LiveCallsFit'
  BY <1>1, Facts DEF LiveCallsFit
<1>6. RouteIsShown'
  BY <1>1, <1>2 DEF Inductive, RouteIsShown
<1>7. WaitingHasItsCall'
  <2>1. (loading <=> Call("route", path) \in calls)'
    <3>1. Call("route", path).live /\ Call("route", path).from = "route"
      BY DEF Call
    <3>2. loading <=> Call("route", path) \in calls
      BY DEF Inductive, WaitingHasItsCall
    <3>3. Call("route", path) \in calls <=> Call("route", path) \in calls'
      BY <3>1
    <3>4. QED
      BY <1>1, <3>2, <3>3
  <2>2. (panel.submitting <=> \E a \in Addresses : Call("panel", a) \in calls)'
    <3>1. panel'.submitting \in BOOLEAN
      BY DEF PanelType
    <3>2. ASSUME NEW a \in Addresses, Call("panel", a) \in calls'
          PROVE  panel'.submitting
      BY <3>2, Facts
    <3>3. QED
      BY <3>1, <3>2
  <2>3. QED
    BY <2>1, <2>2 DEF WaitingHasItsCall
<1>8. QED
  BY <1>3, <1>4, <1>5, <1>6, <1>7 DEF Inductive

\* The steps of the form, and a reply that is dropped.
LEMMA FormInductive ==
    ASSUME Inductive,
           \/ RetryDomains \/ Submit
           \/ \E d \in {"ready", "empty", "error"} : DomainsAnswered(d)
           \/ \E a \in Names : Edit(a) \/ Forget(a)
           \/ \E c \in calls : DroppedReply(c) \/ SubmitRefused(c)
    PROVE  Inductive'
<1> USE Facts
<1>0. /\ saved \in [Names -> Names]
      /\ HasPanel \/ panel = NoPanel
      /\ panel.submitting => panel.domains = "ready"
  BY DEF OthersTyped, Inductive, PanelFits
<1>1. CASE RetryDomains
  <2>1. /\ panel.domains = "error" /\ ~panel.submitting
        /\ panel' = [panel EXCEPT !.domains = "loading"]
        /\ UNCHANGED app /\ saved' = saved /\ calls' = calls
    BY <1>0, <1>1 DEF RetryDomains
  <2>2. panel' \in PanelType /\ ~panel'.submitting
    BY <2>1 DEF PanelType
  <2>3. HasPanel
    BY <1>0, <2>1 DEF NoPanel
  <2>4. QED
    BY <1>0, <2>1, <2>2, <2>3, LocalInductive
<1>2. CASE Submit
  <2> DEFINE n == Call("panel", panel.typed)
  <2>1. /\ panel.domains = "ready" /\ panel.typed \in Addresses /\ ~panel.submitting
        /\ panel' = [panel EXCEPT !.submitting = TRUE]
        /\ UNCHANGED app /\ saved' = saved /\ calls' = calls \cup {n}
    BY <1>2 DEF Submit, PanelType
  <2>2. /\ panel' \in PanelType /\ panel'.submitting
        /\ panel'.domains = "ready"
    BY <2>1, NavigationAssumption DEF PanelType
  <2>3. HasPanel
    BY <1>0, <2>1 DEF NoPanel
  <2>4. n \in CallType /\ n.live /\ n.from = "panel"
    BY <2>1, CallFacts
  <2>5. \A c \in calls : c.live => c.from # "panel"
    BY <2>1
  <2>6. \E a \in Addresses : Call("panel", a) \in calls'
    BY <2>1
  <2> HIDE DEF n
  <2>7. \A c, d \in calls' : (c.live /\ d.live /\ c.from = d.from) => c = d
    BY <2>1, <2>4, <2>5
  <2>8. QED
    BY <1>0, <2>1, <2>2, <2>3, <2>4, <2>6, <2>7, LocalInductive
<1>3. CASE \E d \in {"ready", "empty", "error"} : DomainsAnswered(d)
  <2>1. PICK d \in {"ready", "empty", "error"} : DomainsAnswered(d)
    BY <1>3
  <2>2. /\ panel.domains = "loading" /\ ~panel.submitting
        /\ panel' = [panel EXCEPT !.domains = d]
        /\ UNCHANGED app /\ saved' = saved /\ calls' = calls
    BY <1>0, <2>1 DEF DomainsAnswered
  <2>3. panel' \in PanelType /\ ~panel'.submitting
    BY <2>2 DEF PanelType
  <2>4. HasPanel
    BY <1>0, <2>2 DEF NoPanel
  <2>5. QED
    BY <1>0, <2>2, <2>3, <2>4, LocalInductive
<1>4. CASE \E a \in Names : Edit(a)
  <2>1. PICK a \in Names : Edit(a)
    BY <1>4
  <2>2. /\ panel.domains = "ready"
        /\ panel' = [panel EXCEPT !.typed = a]
        /\ UNCHANGED app /\ saved' = saved /\ calls' = calls
    BY <2>1 DEF Edit
  <2>3. /\ panel' \in PanelType /\ panel'.submitting = panel.submitting
        /\ panel'.domains = "ready"
    BY <2>2, NavigationAssumption DEF PanelType
  <2>4. HasPanel
    BY <1>0, <2>2 DEF NoPanel
  <2>5. QED
    BY <1>0, <2>2, <2>3, <2>4, LocalInductive
<1>5. CASE \E a \in Names : Forget(a)
  <2>1. PICK a \in Names : Forget(a)
    BY <1>5
  <2>2. /\ saved' = [saved EXCEPT ![a] = None] /\ HasPanel
        /\ UNCHANGED app /\ panel' = panel /\ calls' = calls
    BY <2>1 DEF Forget
  <2>3. saved' \in [Names -> Names]
    BY <1>0, <2>2
  <2>4. QED
    BY <1>0, <2>2, <2>3, LocalInductive
<1>6. CASE \E c \in calls : DroppedReply(c)
  <2>1. PICK c \in calls : DroppedReply(c)
    BY <1>6
  <2>2. /\ ~c.live /\ calls' = calls \ {c}
        /\ UNCHANGED app /\ panel' = panel /\ saved' = saved
    BY <2>1 DEF DroppedReply
  <2>3. panel.submitting => \E a \in Addresses : Call("panel", a) \in calls'
    BY <2>2
  <2>4. QED
    BY <1>0, <2>2, <2>3, LocalInductive
<1>7. CASE \E c \in calls : SubmitRefused(c)
  <2>1. PICK c \in calls : SubmitRefused(c)
    BY <1>7
  <2>2. /\ c.from = "panel" /\ c.live /\ calls' = calls \ {c}
        /\ panel' = [panel EXCEPT !.submitting = FALSE]
        /\ UNCHANGED app /\ saved' = saved
    BY <2>1 DEF SubmitRefused, Resubmittable
  <2>3. panel' \in PanelType /\ ~panel'.submitting
    BY <2>2 DEF PanelType
  <2>4. HasPanel /\ \A d \in calls' : d.live => d.from # "panel"
    BY <2>2
  <2>5. QED
    BY <1>0, <2>2, <2>3, <2>4, LocalInductive
<1>8. QED
  BY <1>1, <1>2, <1>3, <1>4, <1>5, <1>6, <1>7

\* Every step keeps the invariant.
LEMMA NextInductive == Inductive /\ [Next]_vars => Inductive'
<1> SUFFICES ASSUME Inductive, [Next]_vars PROVE Inductive'
  OBVIOUS
<1>1. CASE \E p \in Addresses \cup {"home", "admin"} : PopState(p)
  BY <1>1, ReconcileInductive DEF PopState
<1>2. CASE NewAddress
  <2>1. /\ path' = "home" /\ view' = "address" /\ current' = NoSession
        /\ error' = FALSE /\ loading' = loading /\ saved' = saved
        /\ view = "inbox" /\ Render(Renavigated(calls))
    BY <1>2 DEF NewAddress
  <2>2. ~loading /\ OthersTyped'
    BY <2>1, Facts DEF Inductive, PanelFits, OthersTyped
  <2>3. RouteIsShown'
    BY <2>1, NavigationAssumption DEF RouteIsShown, HasPanel
  <2>4. QED
    BY <2>1, <2>2, <2>3, RenavigatedInductive
<1>3. CASE \E a \in Names : PickSaved(a)
  <2>1. PICK a \in Names : PickSaved(a)
    BY <1>3
  <2> DEFINE s == [address |-> a, token |-> saved[a]]
  <2>2. s \in Sessions /\ HasPanel /\ OpenCreatedInbox(s, calls)
    BY <2>1, Facts, NavigationAssumption DEF PickSaved, OthersTyped, Sessions
  <2> HIDE DEF s
  <2>3. QED
    BY <2>2, OpenCreatedInductive
<1>4. CASE \E c \in calls : SubmitGranted(c)
  <2>1. PICK c \in calls : SubmitGranted(c)
    BY <1>4
  <2> DEFINE s == [address |-> panel.typed, token |-> c.address]
  <2>2. panel.submitting /\ c.address \in Addresses
    BY <2>1, Facts DEF SubmitGranted, CallType
  <2>3. s \in Sessions /\ HasPanel
    <3>1. panel.typed \in Names
      BY Facts DEF PanelType
    <3>2. s \in Sessions
      BY <2>2, <3>1 DEF Sessions
    <3>3. QED
      BY <2>2, <3>2, Facts
  <2>4. OpenCreatedInbox(s, calls \ {c})
    BY <2>1 DEF SubmitGranted
  <2> HIDE DEF s
  <2>5. QED
    BY <2>3, <2>4, OpenCreatedInductive
<1>5. CASE \E c \in calls : TokenGranted(c) \/ TokenRefused(c)
  BY <1>5, TokenInductive
<1>6. CASE UNCHANGED vars
  <2>1. UNCHANGED app /\ UNCHANGED <<panel, saved, calls>>
    BY <1>6 DEF vars, app
  <2>2. /\ saved \in [Names -> Names]
        /\ HasPanel \/ panel = NoPanel
        /\ panel.submitting => panel.domains = "ready"
    BY Facts DEF OthersTyped, Inductive, PanelFits
  <2>3. QED
    BY <2>1, <2>2, Facts, LocalInductive
<1>7. QED
  BY <1>1, <1>2, <1>3, <1>4, <1>5, <1>6, FormInductive DEF Next

\* What every theorem below follows from.
LEMMA AlwaysInductive == Spec => []Inductive
  BY InitInductive, NextInductive, PTL DEF Spec

\* Every variable keeps its type.
THEOREM TypeCorrect == Spec => []TypeOK
<1>1. Inductive => TypeOK
  BY DEF Inductive
<1>2. QED
  BY <1>1, AlwaysInductive, PTL

\* An inbox, the console and the form are shown at the paths that are theirs,
\* however late a token arrives (App.vue, reconcileRoute and openInbox); the
\* inbox of no address, of a form that was emptied while it waited, at the form's.
THEOREM PathIsShown == Spec => []RouteIsShown
<1>1. Inductive => RouteIsShown
  BY DEF Inductive
<1>2. QED
  BY <1>1, AlwaysInductive, PTL

\* A page or a form that waits has exactly one call whose reply it will act
\* upon, and nothing else is awaited (navigationVersion in App.vue, submitting
\* in AddressPanel.vue).
THEOREM WaitsAreAnswered == Spec => []WaitingHasItsCall
<1>1. Inductive => WaitingHasItsCall
  BY DEF Inductive
<1>2. QED
  BY <1>1, AlwaysInductive, PTL
=============================================================================
