\* Three requests in flight in each of six services that share no state.
SPECIFICATION HistorySpec
CONSTANTS
    None = None
    Handler = {h1, h2, h3}
    Client = {c1}
    MaxRequests = 2
    WindowSeconds = 2
    Second = 2
    Approval = {a1}
    Item = {i1, i2}
    Scoped = {i1}
    Memory = {r1, r2, r3}
    MaxVersion = 3
    Zone = {z1, z2}
    DefaultZone = {z1}
    Entity = {e1}
    Presence = {r1, r2, r3}
    Meeting = {m1}
    Department = {d1, d2}
    Seeded = {d1}
    Bridge = {x1, x2}
    MaxTime = 1
SYMMETRY Symmetry
INVARIANTS TypeOK AttemptsBounded RetryAfterHonest StoresCounted OnePresence SuspensionHolds OnlyRacesReopen
PROPERTIES DecisionStands MeetingsEnd
