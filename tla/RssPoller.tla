------------------------------ MODULE RssPoller ------------------------------
(***************************************************************************)
(* The RSS monitor: RssFeedPoller, the coroutine that looks at every       *)
(* subscribed feed in turn and hands new entries to MirrorUrl, composed    *)
(* with the subscription commands (RssSubscription) that add and remove    *)
(* rows of rss_feeds while a poll is under way, and with restarts.         *)
(*                                                                         *)
(* A GUID is its rank in the order of strings; 0 is the empty string, "no  *)
(* GUID seen yet".  What a document lists, in which order and for how long *)
(* is up to the publisher, but it lists a GUID once: two entries of one    *)
(* document with the same GUID are both new and both handled.              *)
(***************************************************************************)
EXTENDS Naturals

CONSTANTS MaxFeeds,    \* rows that are ever inserted
          Urls,        \* feed URLs users subscribe to
          Chats,       \* chats that subscribe
          MaxGuid,     \* number of GUIDs
          GuidsOf,     \* the GUIDs the publisher at each URL may use
          Wanted,      \* GUIDs of the entries that pass entry_passes_filters
          Ordered,     \* publishers hand out GUIDs in increasing order
          MaxMishaps   \* bound on restarts and failed database calls

ASSUME RssAssumption ==
    /\ MaxFeeds \in Nat \ {0}
    /\ Urls # {} /\ Chats # {}
    /\ MaxGuid \in Nat
    /\ GuidsOf \in [Urls -> SUBSET (1..MaxGuid)]
    /\ Wanted \subseteq 1..MaxGuid
    /\ Ordered \in BOOLEAN
    /\ MaxMishaps \in Nat

FeedIds == 1..MaxFeeds
Guids   == 1..MaxGuid
Positions == 0..MaxGuid

VARIABLES
    nextId,    \* AUTOINCREMENT of rss_feeds: an id is never used twice
    live,      \* feed_id of the rows in rss_feeds
    url,       \* their columns: url,
    chat,      \* chat_id,
    last,      \* last_guid,
    due,       \* those whose last_checked_at is unset or old enough
    removing,  \* <<feed_id, chat>> of removals between find() and remove()
    doc,       \* GUIDs in the document at each URL
    ever,      \* GUIDs that were ever published there
    pp,        \* where the poller is suspended
    queue,     \* feeds of this round still to be processed
    copy,      \* last_guid of each feed when the round began
    feed,      \* the feed being processed
    newest,    \* newest_guid
    todo,      \* entries of its document still to be looked at
    handled,   \* how often an entry was given to the handler (ghost)
    mishaps    \* restarts and failed database calls so far

tableVars  == <<nextId, live, url, chat, last, due>>
pollVars   == <<pp, queue, copy, feed, newest, todo>>
vars == <<tableVars, removing, doc, ever, pollVars, handled, mishaps>>

TypeOK ==
    /\ nextId \in 1..(MaxFeeds + 1)
    /\ live \in SUBSET FeedIds
    /\ url \in [FeedIds -> Urls]
    /\ chat \in [FeedIds -> Chats]
    /\ last \in [FeedIds -> Positions]
    /\ due \in SUBSET FeedIds
    /\ removing \in SUBSET (FeedIds \X Chats)
    /\ doc \in [Urls -> SUBSET Guids]
    /\ ever \in [Urls -> SUBSET Guids]
    /\ pp \in {"sleep", "list", "next", "fetch", "entry", "handle", "update"}
    /\ queue \in SUBSET FeedIds
    /\ copy \in [FeedIds -> Positions]
    /\ feed \in FeedIds
    /\ newest \in Positions
    /\ todo \in SUBSET Guids
    /\ handled \in [FeedIds -> [Guids -> Nat]]
    /\ mishaps \in 0..MaxMishaps

Init ==
    /\ nextId = 1
    /\ live = {}
    /\ url = [i \in FeedIds |-> CHOOSE u \in Urls : TRUE]
    /\ chat = [i \in FeedIds |-> CHOOSE c \in Chats : TRUE]
    /\ last = [i \in FeedIds |-> 0]
    /\ due = {}
    /\ removing = {}
    /\ doc = [u \in Urls |-> {}]
    /\ ever = [u \in Urls |-> {}]
    /\ pp = "list"
    /\ queue = {}
    /\ copy = [i \in FeedIds |-> 0]
    /\ feed = 1
    /\ newest = 0
    /\ todo = {}
    /\ handled = [i \in FeedIds |-> [g \in Guids |-> 0]]
    /\ mishaps = 0

-----------------------------------------------------------------------------
(***************************************************************************)
(* The world outside: publishers and the clock.                            *)
(***************************************************************************)

Publish(u) ==
    /\ \E g \in GuidsOf[u] \ ever[u] :
          /\ Ordered => \A h \in ever[u] : g > h
          /\ doc' = [doc EXCEPT ![u] = @ \union {g}]
          /\ ever' = [ever EXCEPT ![u] = @ \union {g}]
    /\ UNCHANGED <<tableVars, removing, pollVars, handled, mishaps>>

\* An entry scrolls out of the document.
Retire(u) ==
    /\ \E g \in doc[u] : doc' = [doc EXCEPT ![u] = @ \ {g}]
    /\ UNCHANGED <<tableVars, removing, ever, pollVars, handled, mishaps>>

\* Five minutes have passed since a feed was checked.
BecomeDue(i) ==
    /\ i \in live \ due
    /\ due' = due \union {i}
    /\ UNCHANGED <<nextId, live, url, chat, last, removing, doc, ever>>
    /\ UNCHANGED <<pollVars, handled, mishaps>>

-----------------------------------------------------------------------------
(***************************************************************************)
(* RssSubscription.                                                        *)
(***************************************************************************)

\* add(): an INSERT, which the UNIQUE constraint on url refuses for a URL that
\* is subscribed already, in whatever chat.
Add(u, c) ==
    /\ nextId <= MaxFeeds
    /\ \A i \in live : url[i] # u
    /\ nextId' = nextId + 1
    /\ live' = live \union {nextId}
    /\ url' = [url EXCEPT ![nextId] = u]
    /\ chat' = [chat EXCEPT ![nextId] = c]
    /\ last' = [last EXCEPT ![nextId] = 0]
    /\ due' = due \union {nextId}
    /\ UNCHANGED <<removing, doc, ever, pollVars, handled, mishaps>>

\* remove(): find() and the check that the feed belongs to the chat.
RemoveFind(i, c) ==
    /\ i \in live
    /\ chat[i] = c
    /\ removing' = removing \union {<<i, c>>}
    /\ UNCHANGED <<tableVars, doc, ever, pollVars, handled, mishaps>>

\* The DELETE, which finds nothing when another removal was faster.
RemoveRow(i, c) ==
    /\ <<i, c>> \in removing
    /\ removing' = removing \ {<<i, c>>}
    /\ live' = live \ {i}
    /\ due' = due \ {i}
    /\ UNCHANGED <<nextId, url, chat, last, doc, ever>>
    /\ UNCHANGED <<pollVars, handled, mishaps>>

-----------------------------------------------------------------------------
(***************************************************************************)
(* RssFeedPoller.                                                          *)
(***************************************************************************)

\* run(): the one-minute timer.
Wake ==
    /\ pp = "sleep"
    /\ pp' = "list"
    /\ UNCHANGED <<queue, copy, feed, newest, todo>>
    /\ UNCHANGED <<tableVars, removing, doc, ever, handled, mishaps>>

\* poll_once(): list_enabled() returns copies of the rows, and `now` is read
\* once, so which of them are due is settled here.
ListEnabled ==
    /\ pp = "list"
    /\ pp' = "next"
    /\ queue' = live \intersect due
    /\ copy' = last
    /\ UNCHANGED <<feed, newest, todo>>
    /\ UNCHANGED <<tableVars, removing, doc, ever, handled, mishaps>>

\* list_enabled() fails, and with it the round.
ListFails ==
    /\ pp = "list"
    /\ mishaps < MaxMishaps
    /\ mishaps' = mishaps + 1
    /\ pp' = "sleep"
    /\ UNCHANGED <<queue, copy, feed, newest, todo>>
    /\ UNCHANGED <<tableVars, removing, doc, ever, handled>>

\* The loop over the copies, by feed_id.
NextFeed ==
    /\ pp = "next"
    /\ \E i \in queue :
          /\ \A j \in queue : i <= j
          /\ feed' = i
          /\ queue' = queue \ {i}
    /\ pp' = "fetch"
    /\ UNCHANGED <<copy, newest, todo>>
    /\ UNCHANGED <<tableVars, removing, doc, ever, handled, mishaps>>

EndRound ==
    /\ pp = "next"
    /\ queue = {}
    /\ pp' = "sleep"
    /\ copy' = [i \in FeedIds |-> 0]
    /\ UNCHANGED <<queue, feed, newest, todo>>
    /\ UNCHANGED <<tableVars, removing, doc, ever, handled, mishaps>>

\* process_feed returns; its locals are gone.
LeaveFeed ==
    /\ pp' = "next"
    /\ feed' = 1
    /\ newest' = 0

\* process_feed(): the document arrives and parses.
Fetch ==
    /\ pp = "fetch"
    /\ todo' = doc[url[feed]]
    /\ newest' = copy[feed]
    /\ pp' = "entry"
    /\ UNCHANGED <<queue, copy, feed>>
    /\ UNCHANGED <<tableVars, removing, doc, ever, handled, mishaps>>

\* A failing feed that ends the whole round.
FetchFailsRound ==
    /\ pp = "fetch"
    /\ pp' = "sleep"
    /\ UNCHANGED <<queue, copy, feed, newest, todo>>
    /\ UNCHANGED <<tableVars, removing, doc, ever, handled, mishaps>>

\* It does not: the feed is left as it is and tried again in the next round.
FetchFails ==
    /\ pp = "fetch"
    /\ LeaveFeed
    /\ UNCHANGED <<queue, copy, todo>>
    /\ UNCHANGED <<tableVars, removing, doc, ever, handled, mishaps>>

\* A test for new entries that lets the last one through again.
IsNewOrLast(g) == g >= copy[feed]

\* Strictly greater than the GUID seen last; everything is when there is none.
IsNew(g) == g > copy[feed]

\* The next entry of the document: an old one, or a new one that the filters
\* reject.
SkipEntry ==
    /\ pp = "entry"
    /\ \E g \in todo :
          /\ ~IsNew(g) \/ g \notin Wanted
          /\ todo' = todo \ {g}
          /\ newest' = IF IsNew(g) /\ g > newest THEN g ELSE newest
    /\ UNCHANGED <<pp, queue, copy, feed>>
    /\ UNCHANGED <<tableVars, removing, doc, ever, handled, mishaps>>

\* A new entry that passes is handed to on_new_entry_.
StartHandler ==
    /\ pp = "entry"
    /\ \E g \in todo :
          /\ IsNew(g) /\ g \in Wanted
          /\ todo' = todo \ {g}
          /\ newest' = IF g > newest THEN g ELSE newest
          /\ handled' = [handled EXCEPT ![feed][g] = @ + 1]
    /\ pp' = "handle"
    /\ UNCHANGED <<queue, copy, feed>>
    /\ UNCHANGED <<tableVars, removing, doc, ever, mishaps>>

\* The handler, a whole MirrorUrl::execute, returns or throws.
HandlerDone ==
    /\ pp = "handle"
    /\ pp' = "entry"
    /\ UNCHANGED <<queue, copy, feed, newest, todo>>
    /\ UNCHANGED <<tableVars, removing, doc, ever, handled, mishaps>>

EndEntries ==
    /\ pp = "entry"
    /\ todo = {}
    /\ pp' = "update"
    /\ UNCHANGED <<queue, copy, feed, newest, todo>>
    /\ UNCHANGED <<tableVars, removing, doc, ever, handled, mishaps>>

\* An update_state that finds the row by its URL.
UpdateStateByUrl ==
    /\ pp = "update"
    /\ last' = [i \in FeedIds |-> IF i \in live /\ url[i] = url[feed]
                                     THEN newest ELSE last[i]]
    /\ due' = due \ {feed}
    /\ LeaveFeed
    /\ UNCHANGED <<queue, copy, todo>>
    /\ UNCHANGED <<nextId, live, url, chat, removing, doc, ever, handled, mishaps>>

\* update_state(): UPDATE ... WHERE feed_id = ?, NotFound for a removed feed.
UpdateState ==
    /\ pp = "update"
    /\ last' = IF feed \in live THEN [last EXCEPT ![feed] = newest] ELSE last
    /\ due' = due \ {feed}
    /\ LeaveFeed
    /\ UNCHANGED <<queue, copy, todo>>
    /\ UNCHANGED <<nextId, live, url, chat, removing, doc, ever, handled, mishaps>>

\* It fails: the feed stays due, with the GUID it had.
UpdateFails ==
    /\ pp = "update"
    /\ mishaps < MaxMishaps
    /\ mishaps' = mishaps + 1
    /\ LeaveFeed
    /\ UNCHANGED <<queue, copy, todo>>
    /\ UNCHANGED <<tableVars, removing, doc, ever, handled>>

\* The process stops and starts again; rows stay, and run() polls at once.
Restart ==
    /\ mishaps < MaxMishaps
    /\ mishaps' = mishaps + 1
    /\ pp' = "list"
    /\ queue' = {}
    /\ copy' = [i \in FeedIds |-> 0]
    /\ feed' = 1
    /\ newest' = 0
    /\ todo' = {}
    /\ removing' = {}
    /\ UNCHANGED <<tableVars, doc, ever, handled>>

\* What the poller does by itself.
Poll ==
    \/ Wake \/ ListEnabled \/ ListFails \/ NextFeed \/ EndRound
    \/ Fetch \/ FetchFails
    \/ SkipEntry \/ StartHandler \/ EndEntries
    \/ UpdateState \/ UpdateFails

Next ==
    \/ \E u \in Urls : Publish(u) \/ Retire(u)
    \/ \E i \in FeedIds : BecomeDue(i)
    \/ \E u \in Urls, c \in Chats : Add(u, c)
    \/ \E i \in FeedIds, c \in Chats : RemoveFind(i, c) \/ RemoveRow(i, c)
    \/ Poll
    \/ HandlerDone
    \/ Restart

\* The poller's own awaits return: timers expire, database calls end and the
\* HTTP client has deadlines.  The handler is a transfer, which may not end.
Spec == Init /\ [][Next]_vars /\ WF_vars(Poll)

-----------------------------------------------------------------------------
\* An entry is given to on_new_entry_ once, and once more for each restart or
\* failed update_state that came between the handler and last_guid: never
\* because a feed was fetched again, or is due while it is being processed.
HandledOnce ==
    \A i \in FeedIds, g \in Guids : handled[i][g] <= 1 + mishaps

\* An entry that a live feed lists, and that passes the filters, was handled
\* once last_guid has reached its GUID, since from then on process_feed takes it
\* for an old one: publishers that hand out GUIDs in increasing order lose no
\* entry to a restart between handler and update_state, to a document that
\* changes while a handler runs, nor to a feed that is removed during its poll
\* and subscribed again, which must not be given the old feed's position.
NothingPassedOver ==
    Ordered =>
        \A i \in live : \A g \in doc[url[i]] \intersect Wanted :
            g <= last[i] => handled[i][g] > 0

\* A feed that is due is fetched or removed, however often other feeds fail,
\* unless a handler holds up the poller for ever.
FeedPolled ==
    []<>(pp # "handle") =>
        \A i \in FeedIds :
            (i \in live \intersect due)
                ~> ((pp = "fetch" /\ feed = i) \/ i \notin live \intersect due)
=============================================================================
