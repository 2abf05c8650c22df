\* One task of either kind on any backend, three files, a pool of two, a crash, and
\* every fault but failing saves.  A drain that waits for a lost upload ticks for
\* ever, which is a state without successors here.
CONSTANTS
    t1 = t1
    chat1 = chat1
    chat2 = chat2
    c1 = c1
    c2 = c2
    Tasks = {t1}
    NumFiles = 3
    PoolSize = 2
    Backends = {"aria2", "qbittorrent", "port"}
    Kinds = {"mirror", "leech"}
    Faults = {"rpc", "remove", "limit", "upload", "throw"}
    Commands = {}
    Operations = {"cancel"}
    Chats = {chat1}
    ChatOf <- OneChat
    MaxCrashes = 1
SPECIFICATION Spec
CHECK_DEADLOCK FALSE
INVARIANTS
    SlotAccounting
    NoUploadOutlivesTask
    SentAtMostOnce
    CompletedIsClean
PROPERTIES
    InMemoryLifecycle
