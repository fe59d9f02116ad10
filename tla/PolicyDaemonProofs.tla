-------------------------- MODULE PolicyDaemonProofs --------------------------
(* Proofs about PolicyDaemon, for every number of mails and connections and  *)
(* all domains.                                                             *)
EXTENDS PolicyDaemon, TLAPS

(* What a handler has found out about the domain of its mail.                *)
Learnt ==
    /\ \A h \in Handler :
          /\ pc[h] \in {"mx", "provision", "add", "ok"} => Wanted(h) # {}
          /\ pc[h] \in {"provision", "add"} => Wanted(h) \subseteq Ours
          /\ pc[h] \in {"add", "ok"} => Wanted(h) \subseteq known
    /\ booted \subseteq known /\ stalwart \subseteq known

Inductive == TypeOK /\ Learnt /\ OursNeverRejected /\ AcceptedMeansKnown

USE RecipientAssumption, OursAssumption DEF AtMostOne

-----------------------------------------------------------------------------
(* The domain a handler works for is that of each mail it serves.            *)
LEMMA OneMail ==
    ASSUME TypeOK, NEW h \in Handler, NEW m \in serving[h]
    PROVE  m \in Mail /\ RecipientOf[m] = Wanted(h)
BY DEF TypeOK, Wanted

LEMMA WantedType ==
    ASSUME TypeOK, NEW h \in Handler
    PROVE  Wanted(h) \in AtMostOne(Domain)
BY DEF TypeOK, Wanted

(* Where the mail of h stays the same, so does its domain.                   *)
LEMMA SameWanted ==
    ASSUME NEW h \in Handler, serving'[h] = serving[h]
    PROVE  Wanted(h)' = Wanted(h)
BY DEF Wanted

(* The handlers that end forget what they have learnt, the others keep it.   *)
LEMMA Ending ==
    ASSUME Inductive, NEW H \in SUBSET Handler, NEW outcome, End(H, outcome),
           outcome \in {"queued", "accepted", "rejected"},
           outcome = "rejected" => \A h \in H : Wanted(h) \cap Ours = {},
           outcome = "accepted" => \A h \in H : Wanted(h) # {} /\ Wanted(h) \subseteq known,
           cache' \subseteq known', known \subseteq known', known' \subseteq Domain,
           booted' \subseteq known', stalwart' \subseteq known',
           daemon' \in {"down", "merge", "up"}
    PROVE  Inductive'
<1>1. TypeOK'
  BY DEF Inductive, TypeOK, End
<1>2. Learnt'
  <2>1. ASSUME NEW h \in Handler, h \notin H
        PROVE  pc'[h] = pc[h] /\ Wanted(h)' = Wanted(h)
    BY <2>1, SameWanted DEF End
  <2>2. ASSUME NEW h \in H PROVE pc'[h] = "idle"
    BY <2>2 DEF End
  <2>3. QED
    BY <2>1, <2>2 DEF Inductive, Learnt
<1>3. ASSUME NEW m \in Mail
      PROVE  mail'[m] = mail[m] \/ (mail'[m] = outcome /\ \E h \in H : m \in serving[h])
  BY DEF End
<1>4. ASSUME NEW m \in Mail, NEW h \in H, m \in serving[h]
      PROVE  RecipientOf[m] = Wanted(h)
  BY <1>4, OneMail DEF Inductive
<1>5. OursNeverRejected'
  BY <1>3, <1>4 DEF Inductive, OursNeverRejected
<1>6. AcceptedMeansKnown'
  BY <1>3, <1>4 DEF Inductive, AcceptedMeansKnown
<1>7. QED
  BY <1>1, <1>2, <1>5, <1>6 DEF Inductive

(* A handler that goes on serves the same mail and knows what it must.       *)
LEMMA Going ==
    ASSUME Inductive, NEW h \in Handler, NEW label, Goto(h, label),
           label \in {"contains", "mx", "provision", "add", "ok"},
           UNCHANGED <<mail, serving, daemon, booted>>,
           label \in {"mx", "provision", "add", "ok"} => Wanted(h) # {},
           label \in {"provision", "add"} => Wanted(h) \subseteq Ours,
           label \in {"add", "ok"} => Wanted(h) \subseteq known',
           cache' \subseteq known', known \subseteq known', known' \subseteq Domain,
           stalwart' \subseteq known'
    PROVE  Inductive'
<1>1. TypeOK'
  BY DEF Inductive, TypeOK, Goto
<1>2. \A g \in Handler : Wanted(g)' = Wanted(g)
  BY SameWanted
<1>3. pc'[h] = label /\ \A g \in Handler : g # h => pc'[g] = pc[g]
  BY DEF Goto, Inductive, TypeOK
<1>4. Learnt'
  BY <1>2, <1>3 DEF Inductive, Learnt
<1>5. OursNeverRejected' /\ AcceptedMeansKnown'
  BY DEF Inductive, OursNeverRejected, AcceptedMeansKnown
<1>6. QED
  BY <1>1, <1>4, <1>5 DEF Inductive

(* Steps that no handler takes.                                             *)
LEMMA Elsewhere ==
    ASSUME Inductive, UNCHANGED <<mail, pc, serving, known>>,
           cache' \subseteq known, booted' \subseteq known, stalwart' \subseteq known,
           daemon' \in {"down", "merge", "up"}
    PROVE  Inductive'
BY SameWanted DEF Inductive, TypeOK, Learnt, OursNeverRejected, AcceptedMeansKnown

-----------------------------------------------------------------------------
LEMMA InductiveInit == Init => Inductive
BY DEF Init, Inductive, TypeOK, Learnt, OursNeverRejected, AcceptedMeansKnown

LEMMA OfferKeeps ==
    ASSUME Inductive, NEW h \in Handler, NEW m \in Mail, Offer(h, m)
    PROVE  Inductive'
<1>1. TypeOK'
  BY DEF Inductive, TypeOK, Offer, Goto
<1>2. pc'[h] = "contains" /\ \A g \in Handler : g # h =>
         pc'[g] = pc[g] /\ Wanted(g)' = Wanted(g)
  BY SameWanted DEF Inductive, TypeOK, Offer, Goto
<1>3. Learnt'
  BY <1>2 DEF Inductive, Learnt, Offer
<1>4. OursNeverRejected' /\ AcceptedMeansKnown'
  BY DEF Inductive, TypeOK, OursNeverRejected, AcceptedMeansKnown, Offer
<1>5. QED
  BY <1>1, <1>3, <1>4 DEF Inductive

LEMMA HandlerKeeps ==
    ASSUME Inductive, NEW h \in Handler,
           \/ Contains(h) \/ MxAnswer(h) \/ Provision(h)
           \/ Add(h) \/ Accept(h) \/ Defer(h)
    PROVE  Inductive'
<1>1. /\ cache \subseteq known /\ known \subseteq Domain /\ booted \subseteq known
      /\ stalwart \subseteq known /\ daemon \in {"down", "merge", "up"}
      /\ Wanted(h) \in AtMostOne(Domain)
  BY WantedType DEF Inductive, TypeOK, Learnt, AcceptedMeansKnown
<1>2. CASE Contains(h)
  <2>1. CASE Wanted(h) = {}
    BY <1>1, <1>2, <2>1, Ending DEF Contains
  <2>2. CASE Wanted(h) # {}
    BY <1>1, <1>2, <2>2, Going DEF Contains
  <2>3. QED
    BY <2>1, <2>2
<1>3. CASE MxAnswer(h)
  <2>1. Wanted(h) # {}
    BY <1>3 DEF MxAnswer, Inductive, Learnt
  <2>2. CASE Matches(h)
    BY <1>1, <1>3, <2>1, <2>2, Going DEF MxAnswer, Matches
  <2>3. CASE ~Matches(h)
    <3>1. Wanted(h) \cap Ours = {}
      BY <1>1, <2>3 DEF Matches
    <3>2. QED
      BY <1>1, <1>3, <2>3, <3>1, Ending DEF MxAnswer
  <2>4. QED
    BY <2>2, <2>3
<1>4. CASE Provision(h)
  <2>1. Wanted(h) # {} /\ Wanted(h) \subseteq Ours
    BY <1>4 DEF Provision, Inductive, Learnt
  <2>2. QED
    BY <1>1, <1>4, <2>1, Going DEF Provision, Create
<1>5. CASE Add(h)
  <2>1. Wanted(h) # {} /\ Wanted(h) \subseteq known
    BY <1>5 DEF Add, Inductive, Learnt
  <2>2. QED
    BY <1>1, <1>5, <2>1, Going DEF Add
<1>6. CASE Accept(h)
  <2>1. Wanted(h) # {} /\ Wanted(h) \subseteq known
    BY <1>6 DEF Accept, Inductive, Learnt
  <2>2. QED
    BY <1>1, <1>6, <2>1, Ending DEF Accept
<1>7. CASE Defer(h)
  <2>1. /\ known \subseteq known' /\ known' \subseteq Domain /\ stalwart' \subseteq known'
        /\ UNCHANGED <<booted, daemon>>
    BY <1>1, <1>7 DEF Defer, Create
  <2>2. cache' \subseteq known'
    <3>1. pc[h] = "add" => Wanted(h) \subseteq known
      BY DEF Inductive, Learnt
    <3>2. QED
      BY <1>1, <1>7, <2>1, <3>1 DEF Defer
  <2>3. QED
    BY <1>1, <1>7, <2>1, <2>2, Ending DEF Defer, Deferred
<1>8. QED
  BY <1>2, <1>3, <1>4, <1>5, <1>6, <1>7

LEMMA InductiveNext == Inductive /\ [Next]_vars => Inductive'
<1> SUFFICES ASSUME Inductive, [Next]_vars PROVE Inductive'
  OBVIOUS
<1>1. /\ cache \subseteq known /\ known \subseteq Domain /\ booted \subseteq known
      /\ stalwart \subseteq known /\ daemon \in {"down", "merge", "up"}
  BY DEF Inductive, TypeOK, Learnt, AcceptedMeansKnown
<1>2. CASE Start \/ Merge \/ Synchronise \/ \E d \in Domain : DomainRemoved(d)
  BY <1>1, <1>2, Elsewhere DEF Start, Merge, Synchronise, DomainRemoved
<1>3. CASE Crash
  BY <1>1, <1>3, Ending DEF Crash
<1>4. CASE UNCHANGED vars
  BY <1>1, <1>4, Elsewhere DEF vars
<1>5. QED
  BY <1>2, <1>3, <1>4, OfferKeeps, HandlerKeeps DEF Next

LEMMA Invariance == Spec => []Inductive
BY InductiveInit, InductiveNext, PTL DEF Spec

-----------------------------------------------------------------------------
(* Every variable keeps its type.                                           *)
THEOREM TypeCorrect == Spec => []TypeOK
<1>1. Inductive => TypeOK
  BY DEF Inductive
<1>2. QED
  BY <1>1, Invariance, PTL

(* No mail for a domain that points at this server is refused for good,      *)
(* whatever fails while it is handled and whoever crashes.                  *)
THEOREM OursAreKept == Spec => []OursNeverRejected
<1>1. Inductive => OursNeverRejected
  BY DEF Inductive
<1>2. QED
  BY <1>1, Invariance, PTL

(* A mail is accepted, and a domain cached, only when Stalwart has served it. *)
THEOREM AcceptedAreServed == Spec => []AcceptedMeansKnown
<1>1. Inductive => AcceptedMeansKnown
  BY DEF Inductive
<1>2. QED
  BY <1>1, Invariance, PTL

(* No mail makes Stalwart serve a domain that points elsewhere.              *)
THEOREM OthersAreLeft == Spec => ProvisionsOnlyOurs
<1>1. Inductive /\ [Next]_vars => [stalwart' \subseteq stalwart \cup Ours]_vars
  <2> SUFFICES ASSUME Inductive, [Next]_vars PROVE stalwart' \subseteq stalwart \cup Ours
    OBVIOUS
  <2>1. ASSUME NEW h \in Handler, Provision(h) \/ Defer(h)
        PROVE  stalwart' \subseteq stalwart \cup Ours
    BY <2>1 DEF Provision, Defer, Create, Inductive, Learnt
  <2>2. QED
    BY <2>1 DEF Next, vars, Offer, Contains, MxAnswer, Add, Accept, Start, Merge, Crash,
                Synchronise, DomainRemoved
<1>2. QED
  BY <1>1, Invariance, PTL DEF Spec, ProvisionsOnlyOurs
=============================================================================
