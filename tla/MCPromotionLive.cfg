SPECIFICATION FairSpec
CONSTANTS
    dev = dev
    test = test
    qa = qa
    p1 = p1
    p2 = p2
    NoEnv = NoEnv
    Env = {dev, test, qa}
    Promotion = {p1, p2}
    InitialSucc <- Chain
    RequireSourceVersion <- Ungated
    MaxEvents = 1
CHECK_DEADLOCK FALSE
PROPERTIES
    Terminates
