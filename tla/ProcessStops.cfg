CONSTANTS
    c1 = c1  c2 = c2
    k1 = k1
    None = None
    Calls = {c1, c2}
    Keys = {k1}
    Launches <- Starts
    MaxStarts = 3

SPECIFICATION FairSpec
INVARIANTS
    TypeOK
    WorkIsFinished
    AnswersAgree
PROPERTIES
    SignalEndsProcess
