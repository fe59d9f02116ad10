\* Four mails on two connections; failures and crashes may end or not.
CONSTANTS
    m1 = m1
    m2 = m2
    m3 = m3
    m4 = m4
    h1 = h1
    h2 = h2
    ours = ours
    theirs = theirs
    Mail <- AllMail
    Handler <- TwoHandlers
    RecipientOf <- Recipients
    Domain <- TwoDomains
    Ours <- OurDomain
SPECIFICATION FairSpec
INVARIANTS
    OursNeverRejected
    AcceptedMeansKnown
PROPERTIES
    ProvisionsOnlyOurs
    FirstMailIsAccepted
