\* Three requests in flight over one candidate.
SPECIFICATION HistorySpec
CONSTANTS
    Handler = {h1, h2, h3}
    Candidate = {c1}
    Score = {60, 70, 80}
    Percentage = {10, 100}
SYMMETRY Symmetry
INVARIANTS TypeOK TestedBeforeTraffic TrafficMatchesStatus
\* It may stop: every candidate the model has may have been rolled back.
CHECK_DEADLOCK FALSE
