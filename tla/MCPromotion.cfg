SPECIFICATION Spec
CONSTANTS
    dev = dev
    test = test
    qa = qa
    p1 = p1
    p2 = p2
    NoEnv = NoEnv
    Env = {dev, test, qa}
    Promotion = {p1}
    InitialSucc <- Chain
    RequireSourceVersion <- Ungated
    MaxEvents = 3
CHECK_DEADLOCK FALSE
INVARIANTS
    TypeOK
    EveryExtraCallHasACause
    SucceededMeansDelivered
    InFlightKeepsProject
PROPERTIES
    TerminalIsFinal
