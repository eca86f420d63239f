\* Two refreshes of one token at the same time.
SPECIFICATION Spec
CONSTANTS
    Session = {s1}
    Token = {t1, t2, t3}
    Handler = {h1, h2}
    SessionTTL = 2
    RefreshTTL = 1
    MaxTime = 1
INVARIANTS OneLiveToken
