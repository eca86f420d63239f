\* Two requests in flight, on the registry or in cycles of one agent.
SPECIFICATION MCSpec
CONSTANTS
    Handler = {h1, h2}
    Agent = {a1}
    Grant = {g1, g2}
    Task = {t1}
    Tool = {tool}
    Reversible = {tool}
    Artifact = {x1}
    MaxRetries = 1
    Cost = 160
    MaxSpent = 200
    None = None
    RoleOf <- MCRoleOf
    ToolsOf <- MCToolsOf
    a1 = a1
    g1 = g1
    g2 = g2
    tool = tool
SYMMETRY Symmetry
INVARIANTS TypeOK OnlyRacesEscape RevertedOnce
PROPERTIES RevokedOnce SuspensionStopsTools CostsOnRecord
