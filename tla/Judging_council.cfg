\* One council, two submissions in flight at a time.
SPECIFICATION Spec
CONSTANTS
    a1 = a1
    a2 = a2
    a3 = a3
    a4 = a4
    d1 = d1
    Handler = {h1, h2}
    Council = {s1}
    Agent = {a1, a2, a3, a4}
    Department = {d1}
    NoDepartment = NoDepartment
    DeptOf <- MCDeptOf
    Score = {30060, 55056, 80065}
    Excess <- MCExcess
    Verdict = {"PASSED", "FAILED"}
    Required = {2}
SYMMETRY Symmetry
INVARIANTS TypeOK OneCardPerJudge StatusFollowsCards
PROPERTIES OutcomeFinal
