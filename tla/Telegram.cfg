\* The login with one command, and two tasks that render the status of a chat.
CONSTANTS
    params = params
    token_ = token_
    options = options
    h1 = h1
    r1 = r1
    r2 = r2
    Callers = {params, token_, options, h1, r1, r2}
    OnChatStrand = {r1, r2}
    Cancellable = {h1}
    Params = params
    Token = token_
    Options = options
    NumOptions = 1
    Handlers = {h1}
    Renders = {r1, r2}
    MaxRenders = 2
    Texts = {1, 2}
SPECIFICATION FairSpec
CHECK_DEADLOCK FALSE
INVARIANTS
    CallsAnswered
    LoginStepOnce
    StatusMessage
PROPERTIES
    CallEnds
