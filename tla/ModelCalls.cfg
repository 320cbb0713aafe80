SPECIFICATION Spec
CONSTANTS
    Calls = {1, 2}
    MaxFrames = 3
    Retries = 1
    Batch = 2
    MaxFaults = 2
    Window = 7
    MinOut = 1
    Target = 2
    Margin = 1
    ThresholdRatio = 60
    RetainRatio = 30
    Summaries = 2
    Recoveries = 2
    Continuations = 1
    TurnOutput = 3
    MaxSteps = 3
    ProviderIds = {"a", "b"}
    MaxMessages = 6
    MaxUpsets = 2
INVARIANTS OneReply ChunksOnce NothingForgotten RequestsAreSound
PROPERTIES RoundSettles
