\* Two keys deliver the same ticket; nothing fails but the unique constraint.
SPECIFICATION Spec
CONSTANTS
    Handler = {h1, h2}
    Key = {k1, k2}
    Nonce = {n1, n2}
    External = {e1}
    Task = {t1, t2, t3, t4}
    None = None
    Tolerance = 0
    MayFail = FALSE
    MaxTime = 1
INVARIANTS LostWorkReleased
