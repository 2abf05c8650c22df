\* A task that is cancelled or paused, with failing saves and removes, uploads that
\* fail or throw, and a seeding limit; two files through a pool of one.  A drain
\* that waits for an upload that threw ticks for ever, which is a state without
\* successors here.
CONSTANTS
    t1 = t1
    chat1 = chat1
    chat2 = chat2
    c1 = c1
    c2 = c2
    Tasks = {t1}
    NumFiles = 2
    PoolSize = 1
    Backends = {"aria2", "qbittorrent", "port"}
    Kinds = {"leech"}
    Faults = {"remove", "save", "limit", "upload", "throw"}
    Commands = {c1}
    Operations = {"cancel", "pause"}
    Chats = {chat1}
    ChatOf <- OneChat
    MaxCrashes = 0
SPECIFICATION FairSpec
CHECK_DEADLOCK FALSE
PROPERTIES
    CancelHonoured
    SignalledTaskEnds
    TransferEnds
