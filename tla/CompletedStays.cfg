\* One /cancel against one task, nothing fails.
CONSTANTS
    t1 = t1
    chat1 = chat1
    chat2 = chat2
    c1 = c1
    c2 = c2
    Tasks = {t1}
    NumFiles = 1
    PoolSize = 1
    Backends = {"aria2"}
    Kinds = {"mirror"}
    Faults = {}
    Commands = {c1}
    Operations = {"cancel"}
    Chats = {chat1}
    ChatOf <- OneChat
    MaxCrashes = 0
SPECIFICATION Spec
PROPERTIES
    CompletedStays
