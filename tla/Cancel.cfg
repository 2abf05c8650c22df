\* Two commands from two chats race with one task, with each other and with a
\* crash.
CONSTANTS
    t1 = t1
    chat1 = chat1
    chat2 = chat2
    c1 = c1
    c2 = c2
    Tasks = {t1}
    NumFiles = 1
    PoolSize = 1
    Backends = {"aria2", "qbittorrent"}
    Kinds = {"mirror"}
    Faults = {"rpc", "upload"}
    Commands = {c1, c2}
    Operations = {"cancel", "cancel_all", "pause", "resume"}
    Chats = {chat1, chat2}
    ChatOf <- OneChat
    MaxCrashes = 1
SPECIFICATION Spec
SYMMETRY CommandSymmetry
INVARIANTS
    TeardownOwnership
    RowAgrees
    BackendReleased
    ChatIsolation
