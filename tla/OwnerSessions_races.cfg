\* Two requests in flight at a time over two sessions.
SPECIFICATION HistorySpec
CONSTANTS
    Session = {s1, s2}
    Token = {t1, t2, t3}
    Handler = {h1, h2}
    SessionTTL = 2
    RefreshTTL = 2
    MaxTime = 2
SYMMETRY Symmetry
INVARIANTS TypeOK TokenWithinSession RevocationSpends OnlyRacesFork
PROPERTIES RevocationFinal ContractKept
