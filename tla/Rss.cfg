\* Two subscriptions to two URLs, GUIDs of which one is filtered out, a restart
\* or a failed database call; publishers number their entries upwards.
CONSTANTS
    u1 = u1
    u2 = u2
    chat1 = chat1
    MaxFeeds = 2
    Urls = {u1, u2}
    Chats = {chat1}
    MaxGuid = 3
    GuidsOf <- OnePublisher
    Wanted = {1, 3}
    Ordered = TRUE
    MaxMishaps = 1
SPECIFICATION Spec
INVARIANTS
    HandledOnce
    NothingPassedOver
PROPERTIES
    FeedPolled
