\* Two requests on one task, a bridge approved and revoked meanwhile.
SPECIFICATION HistorySpec
CONSTANTS
    None = None
    a1 = a1
    a2 = a2
    d1 = d1
    d2 = d2
    DeptOf <- MCDeptOf
    Agent = {a1, a2}
    Department = {d1, d2, d3}
    Approver = {k1}
    Handler = {h1, h2}
    Bridge = {b1}
    Task = {t1}
    MaxTime = 0
SYMMETRY Symmetry
INVARIANTS TypeOK WorkIsBridged
PROPERTIES OnlyDelegationReopens
