\* Three requests, failures and restarts.
SPECIFICATION Spec
CONSTANTS
    Handler = {h1, h2, h3}
    MayFail = TRUE
    MaxWrites = 2
    MaxTools = 1
SYMMETRY Symmetry
INVARIANTS TypeOK NoMutationBehindShutdown
PROPERTIES DashboardHeals
