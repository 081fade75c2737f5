SPECIFICATION FairSpec
CONSTANTS
    Cmds = {5, 7, 9}
    Payloads = {0, 6}
    MaxCalls = 4
INVARIANT AnswerIsMine
INVARIANT ExecutedAsSent
PROPERTY PromiseKept
PROPERTY FrameKept
PROPERTY CallReturns
CHECK_DEADLOCK FALSE
