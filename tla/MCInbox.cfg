SPECIFICATION Spec
CONSTANTS
    a = a
    b = b
    m1 = m1
    m2 = m2
    None = None
    Addresses = {a, b}
    Messages = {m1, m2}
    To <- MCTo
    PageSize = 1
    MaxPage = 2
    MaxInFlight = 2
INVARIANTS TypeOK MailIsOurs SettledPageIsShown ReaderShowsSelected AnnouncedOnce NothingWaitsInVain
