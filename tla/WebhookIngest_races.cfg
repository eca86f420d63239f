\* Two requests in flight over two tickets, with failures and restarts; every
\* accepted request runs on.  The clock passes twice the tolerance.
SPECIFICATION FairSpec
CONSTANTS
    Handler = {h1, h2}
    Key = {k1}
    Nonce = {n1, n2}
    External = {e1, e2}
    Task = {t1, t2, t3}
    None = None
    Tolerance = 1
    MayFail = TRUE
    MaxTime = 2
INVARIANTS TypeOK KeyProtocol OneTaskPerTicket NoReplay
PROPERTIES KeysReleased
