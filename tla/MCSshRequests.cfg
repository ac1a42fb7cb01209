SPECIFICATION Spec
CONSTANTS
    Ops <- AllOps
    ReqChans = {0, 1}
    Kinds = {"forward", "x11", "break"}
    Blocking = {"open", "env", "password", "cancel", "close", "refuse"}
    QueueMax = 1
    MaxPackets = 2
    MaxCalls = 2
    MaxId = 4
    MaxRounds = 1
    MaxTimeouts = 1
INVARIANTS
    AnswersAreOwn
    NothingLeftBehind
    LoginAgrees
    ChannelsAgree
CHECK_DEADLOCK FALSE
