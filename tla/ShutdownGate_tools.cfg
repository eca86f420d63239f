\* A late read and a shutdown, no failure.
SPECIFICATION Spec
CONSTANTS
    Handler = {h1, h2}
    MayFail = FALSE
    MaxWrites = 1
    MaxTools = 1
PROPERTIES ToolsHalted
