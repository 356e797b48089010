SPECIFICATION FairSpec
CONSTANTS
    f = f
    text = text
    NoOcc = NoOcc
    User = User
    Jobs <- OneJob
    Prompt <- OnePrompt
    Mode <- SteerMode
    MaxRuns = 2
    MaxUserTurns = 1
    MaxMishaps = 2
CHECK_DEADLOCK FALSE
INVARIANT TypeOK
INVARIANT FiresAreKept
INVARIANT SettledForGood
PROPERTY SettledForCause
PROPERTY QuietWhenInactive
PROPERTY FiresAreSettled
