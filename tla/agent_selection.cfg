SPECIFICATION AgentSpec
CONSTANTS
    Runs = {r1, r2}
    Clients = {"plane", "hrm"}
    MaxIterations = 1
    MaxCalls = 1
INVARIANT NoToolsWithoutSelection
CHECK_DEADLOCK FALSE
