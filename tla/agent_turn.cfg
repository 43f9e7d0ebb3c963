SPECIFICATION FairAgentSpec
CONSTANTS
    Runs = {r1}
    Clients = {"plane", "hrm"}
    MaxIterations = 2
    MaxCalls = 2
INVARIANTS ConfirmationEndsRun CompletionNeverRepeats
PROPERTY RunsEnd
CHECK_DEADLOCK FALSE
