SPECIFICATION AgentSpec
CONSTANTS
    MaxSteps = 4
    MaxCalls = 5
INVARIANT MarkupEndsInError
