\* Three files, a pool of one, nothing fails.
CONSTANTS
    t1 = t1
    chat1 = chat1
    chat2 = chat2
    c1 = c1
    c2 = c2
    Tasks = {t1}
    NumFiles = 3
    PoolSize = 1
    Backends = {"aria2"}
    Kinds = {"leech"}
    Faults = {}
    Commands = {}
    Operations = {"cancel"}
    Chats = {chat1}
    ChatOf <- OneChat
    MaxCrashes = 0
SPECIFICATION Spec
INVARIANTS
    EveryFileSent
