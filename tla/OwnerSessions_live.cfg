\* Two requests, so that sweeps can deadlock; the first session runs out.
SPECIFICATION FairSpec
CONSTANTS
    Session = {s1, s2}
    Token = {t1, t2}
    Handler = {h1, h2}
    SessionTTL = 1
    RefreshTTL = 1
    MaxTime = 1
PROPERTIES WaitersServed
