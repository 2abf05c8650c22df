--------------------------- MODULE RssPollerProofs ---------------------------
(***************************************************************************)
(* Proofs about the RSS monitor, for any number of feeds, GUIDs, restarts  *)
(* and failed calls: how often an entry is handed on, and that none is     *)
(* passed over.                                                            *)
(***************************************************************************)
EXTENDS RssPoller, TLAPS

Processing == pp \in {"fetch", "entry", "handle", "update"}
Looking == pp \in {"entry", "handle", "update"}

\* The copies of the round are of rows that exist, and of those still to be
\* processed nothing has changed since; an id that was not given out is unused.
RowInv ==
    /\ live \subseteq 1..(nextId - 1)
    /\ queue \subseteq 1..(nextId - 1)
    /\ pp \in {"sleep", "list"} => queue = {}
    /\ pp = "update" => todo = {}
    /\ \A i \in queue : copy[i] = last[i]
    /\ Processing => feed < nextId /\ feed \notin queue /\ copy[feed] = last[feed]
    /\ \A i \in FeedIds : i >= nextId => last[i] = 0 /\ \A g \in Guids : handled[i][g] = 0

\* What was handed on since last_guid was written is beyond last_guid, and is
\* put down to a mishap once the feed is processed again.
ResetOf(i) == \A g \in Guids : g > last[i] => handled[i][g] <= mishaps

CountInv ==
    /\ \A i \in live \union queue : ~(Processing /\ i = feed) => ResetOf(i)
    /\ pp = "fetch" => ResetOf(feed)
    /\ Looking =>
          /\ newest >= copy[feed]
          /\ \A g \in Guids :
                g > newest \/ (g \in todo /\ g > copy[feed]) => handled[feed][g] <= mishaps

\* With GUIDs in increasing order, whatever is published later is beyond every
\* position that was reached.
OrderInv ==
    /\ \A u \in Urls : doc[u] \subseteq ever[u]
    /\ \A i \in live : last[i] = 0 \/ last[i] \in ever[url[i]]
    /\ Looking /\ feed \in live =>
          /\ newest = 0 \/ newest \in ever[url[feed]]
          /\ todo \subseteq ever[url[feed]]
          /\ \A g \in doc[url[feed]] \intersect Wanted :
                \/ g \in todo
                \/ handled[feed][g] > 0
                \/ g > newest /\ \A k \in todo : g > k

RssInv ==
    /\ TypeOK
    /\ RowInv
    /\ CountInv
    /\ HandledOnce
    /\ Ordered => OrderInv
    /\ NothingPassedOver

-----------------------------------------------------------------------------
LEMMA Ranges ==
    /\ FeedIds \subseteq Nat /\ Guids \subseteq Nat /\ Positions \subseteq Nat
    /\ 1 \in FeedIds /\ 0 \in Positions /\ Guids \subseteq Positions
    /\ \A n \in Nat : n \in FeedIds <=> 1 <= n /\ n <= MaxFeeds
    /\ \A n \in Positions : n \in Guids <=> n # 0
    /\ \A u \in Urls : GuidsOf[u] \subseteq Guids
    /\ Wanted \subseteq Guids
BY RssAssumption DEF FeedIds, Guids, Positions

\* add() gives out an id of the table.
LEMMA NewFeedId ==
    ASSUME TypeOK, NEW u \in Urls, NEW c \in Chats, Add(u, c)
    PROVE  nextId \in FeedIds
BY RssAssumption DEF Add, TypeOK, FeedIds

LEMMA TypeStep == TypeOK /\ [Next]_vars => TypeOK'
<1> USE Ranges
<1> SUFFICES ASSUME TypeOK, [Next]_vars PROVE TypeOK'
  OBVIOUS
<1> USE DEF TypeOK, tableVars, pollVars
<1>1. CASE UNCHANGED vars
  BY <1>1 DEF vars
<1>2. ASSUME NEW u \in Urls, Publish(u) \/ Retire(u) PROVE TypeOK'
  <2>1. PICK g \in Guids : /\ doc' = [doc EXCEPT ![u] = @ \union {g}] \/ doc' = [doc EXCEPT ![u] = @ \ {g}]
                           /\ ever' = [ever EXCEPT ![u] = @ \union {g}] \/ ever' = ever
    BY <1>2 DEF Publish, Retire
  <2>2. doc' \in [Urls -> SUBSET Guids] /\ ever' \in [Urls -> SUBSET Guids]
    BY <2>1
  <2> QED BY <1>2, <2>2 DEF Publish, Retire
<1>3. ASSUME NEW j \in FeedIds, BecomeDue(j) PROVE TypeOK'
  BY <1>3 DEF BecomeDue
<1>4. ASSUME NEW u \in Urls, NEW c \in Chats, Add(u, c) PROVE TypeOK'
  <2>1. nextId \in FeedIds /\ nextId' \in 1..(MaxFeeds + 1)
    BY <1>4, RssAssumption DEF Add
  <2> QED BY <1>4, <2>1 DEF Add
<1>5. ASSUME NEW j \in FeedIds, NEW c \in Chats, RemoveFind(j, c) \/ RemoveRow(j, c)
      PROVE  TypeOK'
  <2>1. removing' \in SUBSET (FeedIds \X Chats)
    BY <1>5 DEF RemoveFind, RemoveRow
  <2> QED BY <1>5, <2>1 DEF RemoveFind, RemoveRow
<1>6. CASE Wake \/ HandlerDone \/ EndEntries
  BY <1>6 DEF Wake, HandlerDone, EndEntries
<1>b. CASE ListEnabled
  BY <1>b DEF ListEnabled
<1>c. CASE EndRound
  BY <1>c DEF EndRound
<1>a. CASE ListFails \/ UpdateFails
  <2>1. mishaps' \in 0..MaxMishaps
    BY <1>a, RssAssumption DEF ListFails, UpdateFails
  <2> QED BY <1>a, <2>1 DEF ListFails, UpdateFails, LeaveFeed
<1>7. CASE NextFeed
  BY <1>7 DEF NextFeed
<1>8. CASE Fetch \/ FetchFails \/ UpdateState
  <2>1. CASE Fetch
    <3>1. doc[url[feed]] \in SUBSET Guids /\ copy[feed] \in Positions
      OBVIOUS
    <3> QED BY <2>1, <3>1 DEF Fetch
  <2>2. CASE FetchFails
    BY <2>2 DEF FetchFails, LeaveFeed
  <2>3. CASE UpdateState
    BY <2>3 DEF UpdateState, LeaveFeed
  <2> QED BY <1>8, <2>1, <2>2, <2>3
<1>9. CASE SkipEntry
  BY <1>9 DEF SkipEntry
<1>10. CASE StartHandler
  <2>1. PICK g \in todo :
           /\ todo' = todo \ {g} /\ newest' = IF g > newest THEN g ELSE newest
           /\ handled' = [handled EXCEPT ![feed][g] = @ + 1]
    BY <1>10 DEF StartHandler
  <2>2. handled' \in [FeedIds -> [Guids -> Nat]]
    BY <2>1
  <2> QED BY <1>10, <2>1, <2>2 DEF StartHandler
<1>11. CASE Restart
  <2>1. mishaps' \in 0..MaxMishaps
    BY <1>11, RssAssumption DEF Restart
  <2> QED BY <1>11, <2>1 DEF Restart
<1> QED BY <1>1, <1>2, <1>3, <1>4, <1>5, <1>6, <1>a, <1>b, <1>c, <1>7, <1>8, <1>9, <1>10, <1>11 DEF Next, Poll

\* One more call of the handler, for one entry.
LEMMA HandledMore ==
    ASSUME TypeOK, StartHandler
    PROVE  \E g \in todo :
              /\ g \in Guids /\ g > copy[feed] /\ g \in Wanted /\ todo' = todo \ {g}
              /\ newest' = IF g > newest THEN g ELSE newest
              /\ handled'[feed][g] = handled[feed][g] + 1
              /\ \A i \in FeedIds, k \in Guids :
                    i # feed \/ k # g => handled'[i][k] = handled[i][k]
<1>1. PICK g \in todo :
         /\ IsNew(g) /\ g \in Wanted
         /\ todo' = todo \ {g} /\ newest' = IF g > newest THEN g ELSE newest
         /\ handled' = [handled EXCEPT ![feed][g] = @ + 1]
  BY DEF StartHandler
<1>2. feed \in FeedIds /\ g \in Guids /\ handled \in [FeedIds -> [Guids -> Nat]]
  BY DEF TypeOK
<1>3. handled'[feed][g] = handled[feed][g] + 1
  BY <1>1, <1>2
<1>4. \A i \in FeedIds, k \in Guids : i # feed \/ k # g => handled'[i][k] = handled[i][k]
  BY <1>1, <1>2
<1> QED BY <1>1, <1>2, <1>3, <1>4 DEF IsNew

-----------------------------------------------------------------------------
LEMMA RowStep == TypeOK /\ RowInv /\ [Next]_vars => RowInv'
<1> USE Ranges
<1> SUFFICES ASSUME TypeOK, RowInv, [Next]_vars PROVE RowInv'
  OBVIOUS
<1> USE DEF tableVars, pollVars
<1>1. CASE UNCHANGED <<nextId, live, last, pollVars, handled>>
  BY <1>1 DEF RowInv, Processing
<1>2. ASSUME NEW u \in Urls, NEW c \in Chats, Add(u, c) PROVE RowInv'
  BY <1>2 DEF Add, RowInv, Processing, TypeOK
<1>3. ASSUME NEW j \in FeedIds, NEW c \in Chats, RemoveRow(j, c) PROVE  RowInv'
  BY <1>3 DEF RemoveRow, RowInv, Processing
<1>4. CASE Wake \/ ListEnabled \/ ListFails \/ EndRound \/ HandlerDone \/ EndEntries
  BY <1>4 DEF Wake, ListEnabled, ListFails, EndRound, HandlerDone, EndEntries, RowInv, Processing
<1>5. CASE NextFeed
  BY <1>5 DEF NextFeed, RowInv, Processing, TypeOK
<1>6. CASE Fetch \/ FetchFails \/ UpdateFails \/ SkipEntry
  <2>1. CASE Fetch \/ SkipEntry
    <3>1. /\ pp \in {"fetch", "entry"} /\ pp' = "entry"
          /\ UNCHANGED <<nextId, live, last, queue, copy, feed, handled>>
      BY <2>1 DEF Fetch, SkipEntry
    <3> QED BY <3>1 DEF RowInv, Processing
  <2>2. CASE FetchFails \/ UpdateFails
    <3>1. pp' = "next" /\ UNCHANGED <<nextId, live, last, queue, copy, handled>>
      BY <2>2 DEF FetchFails, UpdateFails, LeaveFeed
    <3> QED BY <3>1 DEF RowInv, Processing
  <2> QED BY <1>6, <2>1, <2>2
<1>7. CASE UpdateState
  BY <1>7 DEF UpdateState, LeaveFeed, RowInv, Processing, TypeOK
<1>8. CASE StartHandler
  <2>1. PICK g \in Guids : \A i \in FeedIds, k \in Guids :
                                i # feed \/ k # g => handled'[i][k] = handled[i][k]
    BY <1>8, HandledMore
  <2>2. /\ pp = "entry" /\ pp' = "handle"
        /\ UNCHANGED <<nextId, live, last, queue, copy, feed>>
    BY <1>8 DEF StartHandler
  <2>3. \A i \in FeedIds : i >= nextId => i # feed
    BY <2>2 DEF RowInv, Processing, TypeOK
  <2> QED BY <2>1, <2>2, <2>3 DEF RowInv, Processing
<1>9. CASE Restart
  BY <1>9 DEF Restart, RowInv, Processing
<1> QED BY <1>1, <1>2, <1>3, <1>4, <1>5, <1>6, <1>7, <1>8, <1>9
        DEF Next, Poll, vars, Publish, Retire, BecomeDue, RemoveFind

LEMMA CountStep ==
    TypeOK /\ RowInv /\ CountInv /\ HandledOnce /\ [Next]_vars => CountInv' /\ HandledOnce'
<1> USE Ranges
<1> SUFFICES ASSUME TypeOK, RowInv, CountInv, HandledOnce, [Next]_vars
             PROVE  CountInv' /\ HandledOnce'
  OBVIOUS
<1> USE DEF tableVars, pollVars
<1>0. /\ \A i \in FeedIds : \A g \in Guids : handled[i][g] \in Nat
      /\ \A i \in FeedIds : copy[i] \in Nat /\ last[i] \in Nat
      /\ mishaps \in Nat /\ newest \in Nat /\ nextId \in Nat
      /\ live \subseteq FeedIds /\ queue \subseteq FeedIds /\ todo \subseteq Guids
      /\ feed \in FeedIds
  <2>1. \A i \in FeedIds : \A g \in Guids : handled[i][g] \in Nat
    BY DEF TypeOK
  <2>2. \A i \in FeedIds : copy[i] \in Nat /\ last[i] \in Nat
    BY DEF TypeOK
  <2>3. mishaps \in Nat /\ nextId \in Nat
    BY RssAssumption DEF TypeOK
  <2>4. newest \in Nat
    BY DEF TypeOK
  <2> QED BY <2>1, <2>2, <2>3, <2>4 DEF TypeOK
<1>1. CASE UNCHANGED <<live, last, pollVars, handled, mishaps>>
  BY <1>1 DEF CountInv, HandledOnce, ResetOf, Processing, Looking
<1>2. ASSUME NEW u \in Urls, NEW c \in Chats, Add(u, c) PROVE CountInv' /\ HandledOnce'
  <2>0. PICK n \in FeedIds : n = nextId
    BY <1>2, NewFeedId
  <2>1. n \notin live /\ n \notin queue /\ (Processing => feed # n)
    BY <1>0, <2>0 DEF RowInv
  <2>2. last'[n] = 0 /\ \A i \in FeedIds \ {n} : last'[i] = last[i]
    BY <1>2, <2>0 DEF Add, TypeOK
  <2>3. UNCHANGED <<pp, queue, copy, feed, newest, todo, handled, mishaps>>
        /\ live' = live \union {n}
    BY <1>2, <2>0 DEF Add
  <2>4. ResetOf(n)'
    <3>1. \A g \in Guids : handled[n][g] = 0
      BY <1>0, <2>0 DEF RowInv
    <3> QED BY <1>0, <2>3, <3>1 DEF ResetOf
  <2>5. \A i \in FeedIds \ {n} : ResetOf(i)' <=> ResetOf(i)
    BY <2>2, <2>3 DEF ResetOf
  <2>6. CountInv'
    BY <1>0, <2>1, <2>3, <2>4, <2>5 DEF CountInv, ResetOf, Processing, Looking
  <2>7. HandledOnce'
    BY <2>3 DEF HandledOnce
  <2> QED BY <2>6, <2>7
<1>3. ASSUME NEW j \in FeedIds, NEW c \in Chats, RemoveRow(j, c) PROVE CountInv' /\ HandledOnce'
  BY <1>3 DEF RemoveRow, CountInv, HandledOnce, ResetOf, Processing, Looking
<1>4. CASE Wake \/ ListEnabled \/ EndRound
  <2>1. /\ UNCHANGED <<live, last, handled, mishaps>> /\ queue' \subseteq live \union queue
        /\ ~Processing /\ ~Processing' /\ ~Looking'
    BY <1>4 DEF Wake, ListEnabled, EndRound, Processing, Looking
  <2>2. \A i \in FeedIds : ResetOf(i)' <=> ResetOf(i)
    BY <2>1 DEF ResetOf
  <2> QED BY <1>0, <2>1, <2>2 DEF CountInv, HandledOnce, Processing, Looking
<1>5. CASE HandlerDone \/ EndEntries
  BY <1>5 DEF HandlerDone, EndEntries, CountInv, HandledOnce, ResetOf, Processing, Looking
<1>6. CASE NextFeed
  BY <1>6 DEF NextFeed, CountInv, HandledOnce, ResetOf, Processing, Looking
<1>7. CASE Fetch
  <2>1. /\ pp = "fetch" /\ pp' = "entry" /\ newest' = copy[feed]
        /\ UNCHANGED <<queue, copy, feed, live, last, handled, mishaps>>
    BY <1>7 DEF Fetch
  <2>2. copy[feed] = last[feed] /\ ResetOf(feed) /\ newest' \in Nat
    BY <1>0, <2>1 DEF RowInv, CountInv, Processing
  <2>3. newest' >= copy[feed]
    BY <1>0, <2>1
  <2>4. \A g \in Guids : g > newest' \/ (g \in todo' /\ g > copy[feed]) =>
            handled[feed][g] <= mishaps
    BY <2>1, <2>2 DEF ResetOf
  <2>5. \A i \in FeedIds : ResetOf(i)' <=> ResetOf(i)
    BY <2>1 DEF ResetOf
  <2> QED BY <1>0, <2>1, <2>3, <2>4, <2>5 DEF CountInv, HandledOnce, Processing, Looking
<1>8. CASE FetchFails
  BY <1>8 DEF FetchFails, LeaveFeed, CountInv, HandledOnce, ResetOf, Processing, Looking
<1>9. CASE SkipEntry
  <2>1. PICK g \in todo : /\ todo' = todo \ {g}
                          /\ newest' = IF IsNew(g) /\ g > newest THEN g ELSE newest
    BY <1>9 DEF SkipEntry
  <2>2. /\ pp = "entry" /\ UNCHANGED <<pp, queue, copy, feed, live, last, mishaps, handled>>
        /\ g \in Nat /\ newest' \in Nat /\ newest' >= newest
    <3>1. g \in Nat
      BY <1>0
    <3> QED BY <1>0, <1>9, <2>1, <3>1 DEF SkipEntry
  <2>3. newest >= copy[feed] /\ newest' >= copy[feed]
    BY <1>0, <2>2 DEF CountInv, Looking
  <2>4. \A k \in Guids : k > newest' \/ (k \in todo' /\ k > copy[feed]) =>
            handled[feed][k] <= mishaps
    BY <1>0, <2>1, <2>2 DEF CountInv, Looking
  <2>5. \A i \in FeedIds : ResetOf(i)' <=> ResetOf(i)
    BY <2>2 DEF ResetOf
  <2> QED BY <1>0, <2>2, <2>3, <2>4, <2>5 DEF CountInv, HandledOnce, Processing, Looking
<1>10. CASE StartHandler
  <2>1. PICK g \in todo :
              /\ g \in Guids /\ g > copy[feed] /\ g \in Wanted /\ todo' = todo \ {g}
              /\ newest' = IF g > newest THEN g ELSE newest
              /\ handled'[feed][g] = handled[feed][g] + 1
              /\ \A i \in FeedIds, k \in Guids :
                    i # feed \/ k # g => handled'[i][k] = handled[i][k]
    BY <1>10, HandledMore
  <2>2. /\ pp = "entry" /\ pp' = "handle"
        /\ UNCHANGED <<queue, copy, feed, live, last, mishaps>>
    BY <1>10 DEF StartHandler
  <2>3. handled[feed][g] <= mishaps
    BY <2>1, <2>2 DEF CountInv, Looking
  <2>4. HandledOnce'
    BY <2>1, <2>2, <2>3 DEF HandledOnce, TypeOK
  <2>5. \A i \in live \union queue : i # feed => ResetOf(i)'
    BY <2>1, <2>2 DEF CountInv, ResetOf, TypeOK
  <2>6. /\ newest' >= copy[feed] /\ newest' >= newest /\ newest' >= g
        /\ newest \in Nat /\ newest' \in Nat /\ g \in Nat
    BY <1>0, <2>1, <2>2 DEF CountInv, Looking
  <2>7. \A k \in Guids : k > newest' \/ (k \in todo' /\ k > copy[feed]) =>
            handled'[feed][k] <= mishaps
    BY <2>1, <2>2, <2>6 DEF CountInv, Looking, TypeOK
  <2> QED BY <2>2, <2>4, <2>5, <2>6, <2>7 DEF CountInv, Looking, Processing
<1>11. CASE UpdateState
  <2>1. /\ pp = "update" /\ pp' = "next" /\ UNCHANGED <<live, queue, handled, mishaps>>
        /\ \A i \in FeedIds \ {feed} : last'[i] = last[i]
        /\ feed \in live => last'[feed] = newest
        /\ feed \notin queue
    BY <1>11 DEF UpdateState, LeaveFeed, TypeOK, RowInv, Processing
  <2>2. \A i \in (live \union queue) \ {feed} : ResetOf(i)'
    BY <2>1 DEF CountInv, ResetOf, TypeOK
  <2>3. feed \in live => \A g \in Guids : g > last'[feed] => handled'[feed][g] <= mishaps
    BY <2>1 DEF CountInv, Looking
  <2>4. \A i \in live \union queue : ResetOf(i)'
    BY <2>1, <2>2, <2>3 DEF ResetOf
  <2> QED BY <2>1, <2>4 DEF CountInv, HandledOnce, Looking
<1>12. CASE UpdateFails \/ ListFails \/ Restart
  <2>1. /\ mishaps' = mishaps + 1 /\ UNCHANGED <<live, last, handled>>
        /\ queue' \subseteq FeedIds /\ pp' \in {"next", "sleep", "list"}
    BY <1>12 DEF UpdateFails, ListFails, Restart, LeaveFeed, TypeOK
  <2>a. mishaps \in Nat /\ mishaps' = mishaps + 1
    BY <1>0, <2>1
  <2>b. \A i \in FeedIds : \A g \in Guids : handled[i][g] \in Nat
    BY <1>0
  <2>c. \A i \in FeedIds : \A g \in Guids : handled[i][g] <= mishaps + 1
    <3>1. 1 + mishaps = mishaps + 1
      BY <2>a
    <3> QED BY <3>1, Zenon DEF HandledOnce
  <2>d. \A i \in FeedIds : \A g \in Guids : handled'[i][g] <= mishaps'
    BY <2>1, <2>a, <2>c
  <2>e. \A i \in FeedIds : \A g \in Guids : handled'[i][g] <= 1 + mishaps'
    BY <2>1, <2>a, <2>b, <2>c
  <2>2. \A i \in FeedIds : ResetOf(i)'
    BY <2>d DEF ResetOf
  <2>3. HandledOnce'
    BY <2>e DEF HandledOnce
  <2> QED BY <2>1, <2>2, <2>3 DEF CountInv, Looking, TypeOK
<1> QED BY <1>1, <1>2, <1>3, <1>4, <1>5, <1>6, <1>7, <1>8, <1>9, <1>10, <1>11, <1>12
        DEF Next, Poll, vars, Publish, Retire, BecomeDue, RemoveFind

\* What a publisher puts at a URL is beyond every position reached there.
LEMMA PublishKeeps ==
    ASSUME TypeOK, RowInv, OrderInv, NothingPassedOver, Ordered, NEW u \in Urls,
           Publish(u) \/ Retire(u)
    PROVE  OrderInv' /\ NothingPassedOver'
<1> USE Ranges
<1>1. /\ UNCHANGED <<live, url, last, pp, feed, newest, todo, handled>>
      /\ doc \in [Urls -> SUBSET Guids] /\ ever \in [Urls -> SUBSET Guids]
      /\ \A i \in FeedIds : url[i] \in Urls /\ last[i] \in Nat
      /\ live \subseteq FeedIds /\ feed \in FeedIds
  <2>1. UNCHANGED <<live, url, last, pp, feed, newest, todo, handled>>
    BY DEF Publish, Retire, tableVars, pollVars
  <2> QED BY <2>1 DEF TypeOK
<1>2. newest \in Nat
  BY DEF TypeOK
<1>3. PICK g \in Guids :
         \/ /\ \A h \in ever[u] : g > h
            /\ doc' = [doc EXCEPT ![u] = @ \union {g}]
            /\ ever' = [ever EXCEPT ![u] = @ \union {g}]
         \/ doc' = [doc EXCEPT ![u] = @ \ {g}] /\ ever' = ever
  BY <1>1 DEF Publish, Retire
<1>4. \A v \in Urls : ever[v] \subseteq ever'[v] /\ doc'[v] \subseteq ever'[v]
  BY <1>1, <1>3 DEF OrderInv
<1>5. \A v \in Urls, h \in Guids : h \in doc'[v] => h \in doc[v] \/ \A k \in ever[v] : h > k
  BY <1>1, <1>3
<1>6. \A h \in Guids : h > 0
  BY DEF Guids
<1>7. NothingPassedOver'
  <2> SUFFICES ASSUME NEW i \in live', NEW h \in doc'[url'[i]] \intersect Wanted, h <= last'[i]
               PROVE  handled'[i][h] > 0
    BY DEF NothingPassedOver
  <2>1. i \in live /\ i \in FeedIds /\ url[i] \in Urls /\ h \in Guids /\ h \in Nat /\ h <= last[i]
        /\ h \in doc'[url[i]] /\ last[i] \in Nat
    BY <1>1
  <2>2. last[i] \in ever[url[i]]
    BY <1>6, <2>1 DEF OrderInv
  <2>3. h \in doc[url[i]]
    BY <1>5, <2>1, <2>2
  <2> QED BY <1>1, <2>1, <2>3 DEF NothingPassedOver
<1>8. OrderInv'
  <2>1. \A i \in live : last[i] = 0 \/ last[i] \in ever'[url[i]]
    BY <1>1, <1>4 DEF OrderInv
  <2>2. ASSUME Looking, feed \in live
        PROVE  /\ newest = 0 \/ newest \in ever'[url[feed]]
               /\ todo \subseteq ever'[url[feed]]
               /\ \A h \in doc'[url[feed]] \intersect Wanted :
                     \/ h \in todo
                     \/ handled[feed][h] > 0
                     \/ h > newest /\ \A k \in todo : h > k
    <3>1. /\ newest = 0 \/ newest \in ever[url[feed]]
          /\ todo \subseteq ever[url[feed]] /\ url[feed] \in Urls
      BY <1>1, <2>2 DEF OrderInv
    <3>2. ASSUME NEW h \in doc'[url[feed]] \intersect Wanted
          PROVE  h \in todo \/ handled[feed][h] > 0 \/ (h > newest /\ \A k \in todo : h > k)
      <4>1. h \in Guids /\ h \in Nat /\ h > 0
        BY <1>6
      <4>2. CASE h \in doc[url[feed]]
        BY <2>2, <4>2 DEF OrderInv
      <4>3. CASE \A k \in ever[url[feed]] : h > k
        BY <3>1, <4>1, <4>3
      <4> QED BY <1>5, <3>1, <4>1, <4>2, <4>3
    <3> QED BY <1>4, <3>1, <3>2
  <2> QED BY <1>1, <1>4, <2>1, <2>2 DEF OrderInv, Looking
<1> QED BY <1>7, <1>8

LEMMA OrderStep ==
    ASSUME TypeOK, RowInv, OrderInv, NothingPassedOver, Ordered, [Next]_vars
    PROVE  OrderInv' /\ NothingPassedOver'
<1> USE Ranges DEF tableVars, pollVars
<1>0. /\ \A i \in FeedIds : url[i] \in Urls /\ last[i] \in Nat /\ copy[i] \in Nat
      /\ \A i \in FeedIds : \A g \in Guids : handled[i][g] \in Nat
      /\ live \subseteq FeedIds /\ feed \in FeedIds /\ todo \subseteq Guids
      /\ \A g \in Guids : g > 0
  <2>1. \A i \in FeedIds : \A g \in Guids : handled[i][g] \in Nat
    BY DEF TypeOK
  <2>2. \A i \in FeedIds : copy[i] \in Nat /\ last[i] \in Nat
    BY DEF TypeOK
  <2>3. \A g \in Guids : g > 0
    BY DEF Guids
  <2> QED BY <2>1, <2>2, <2>3 DEF TypeOK
<1>a. newest \in Nat /\ nextId \in Nat
  <2>1. newest \in Nat
    BY DEF TypeOK
  <2> QED BY <2>1 DEF TypeOK
<1>1. CASE UNCHANGED <<live, url, last, doc, ever, pp, feed, newest, todo, handled>>
  BY <1>1 DEF OrderInv, NothingPassedOver, Looking
<1>2. ASSUME NEW u \in Urls, NEW c \in Chats, Add(u, c) PROVE OrderInv' /\ NothingPassedOver'
  <2>0. PICK n \in FeedIds : n = nextId
    BY <1>2, NewFeedId
  <2>1. n \notin live /\ (Looking => feed # n)
    BY <1>0, <2>0 DEF RowInv, Looking, Processing
  <2>2. /\ last'[n] = 0 /\ url'[n] = u
        /\ \A i \in FeedIds \ {n} : last'[i] = last[i] /\ url'[i] = url[i]
    BY <1>2, <2>0 DEF Add, TypeOK
  <2>3. /\ UNCHANGED <<pp, feed, newest, todo, handled, doc, ever>>
        /\ live' = live \union {n}
    BY <1>2, <2>0 DEF Add
  <2>4. OrderInv'
    BY <1>0, <2>1, <2>2, <2>3 DEF OrderInv, Looking
  <2>5. NothingPassedOver'
    <3> SUFFICES ASSUME NEW i \in live', NEW h \in doc'[url'[i]] \intersect Wanted, h <= last'[i]
                 PROVE  handled'[i][h] > 0
      BY DEF NothingPassedOver
    <3>1. h \in Guids /\ h \in Nat /\ h > 0
      BY <1>0
    <3>2. i \in live /\ i # n
      BY <2>2, <2>3, <3>1
    <3> QED BY <1>0, <2>2, <2>3, <3>2 DEF NothingPassedOver
  <2> QED BY <2>4, <2>5
<1>3. ASSUME NEW j \in FeedIds, NEW c \in Chats, RemoveRow(j, c)
      PROVE  OrderInv' /\ NothingPassedOver'
  BY <1>3 DEF RemoveRow, OrderInv, NothingPassedOver, Looking
<1>4. CASE UNCHANGED <<live, url, last, doc, ever, handled>> /\ ~Looking'
  BY <1>4 DEF OrderInv, NothingPassedOver
<1>5. CASE UNCHANGED <<live, url, last, doc, ever, feed, newest, todo, handled>> /\ Looking
  BY <1>5 DEF OrderInv, NothingPassedOver, Looking
<1>6. CASE Fetch
  <2>1. /\ UNCHANGED <<live, url, last, doc, ever, feed, handled>>
        /\ todo' = doc[url[feed]] /\ newest' = last[feed]
    BY <1>6 DEF Fetch, RowInv, Processing
  <2>2. OrderInv'
    BY <1>0, <2>1 DEF OrderInv
  <2> QED BY <2>1, <2>2 DEF NothingPassedOver
<1>7. CASE SkipEntry
  <2>1. PICK g \in todo : /\ ~IsNew(g) \/ g \notin Wanted
                          /\ todo' = todo \ {g}
                          /\ newest' = IF IsNew(g) /\ g > newest THEN g ELSE newest
    BY <1>7 DEF SkipEntry
  <2>2. /\ pp = "entry" /\ UNCHANGED <<live, url, last, doc, ever, pp, feed, handled>>
        /\ g \in Nat /\ copy[feed] = last[feed] /\ newest' \in {g, newest}
    BY <1>0, <1>7, <2>1 DEF SkipEntry, RowInv, Processing
  <2>3. NothingPassedOver'
    BY <2>2 DEF NothingPassedOver
  <2>4. ASSUME feed \in live, NEW h \in doc[url[feed]] \intersect Wanted
        PROVE  h \in todo' \/ handled[feed][h] > 0 \/ (h > newest' /\ \A k \in todo' : h > k)
    <3>1. CASE h = g
      <4>1. h <= last[feed]
        BY <1>0, <2>1, <2>2, <2>4, <3>1 DEF IsNew
      <4> QED BY <2>4, <4>1 DEF NothingPassedOver
    <3>2. CASE h # g
      BY <2>1, <2>2, <2>4, <3>2 DEF OrderInv, Looking
    <3> QED BY <3>1, <3>2
  <2>5. OrderInv'
    BY <2>1, <2>2, <2>4 DEF OrderInv, Looking
  <2> QED BY <2>3, <2>5
<1>8. CASE StartHandler
  <2>1. PICK g \in todo :
              /\ g \in Guids /\ g > copy[feed] /\ g \in Wanted /\ todo' = todo \ {g}
              /\ newest' = IF g > newest THEN g ELSE newest
              /\ handled'[feed][g] = handled[feed][g] + 1
              /\ \A i \in FeedIds, k \in Guids :
                    i # feed \/ k # g => handled'[i][k] = handled[i][k]
    BY <1>8, HandledMore
  <2>2. /\ pp = "entry" /\ pp' = "handle" /\ UNCHANGED <<live, url, last, doc, ever, feed>>
        /\ newest' \in {g, newest}
    BY <1>8, <2>1 DEF StartHandler
  <2>3. \A i \in FeedIds, k \in Guids :
           /\ handled[i][k] > 0 => handled'[i][k] > 0
           /\ i = feed /\ k = g => handled'[i][k] > 0
    <3> SUFFICES ASSUME NEW i \in FeedIds, NEW k \in Guids
                 PROVE  /\ handled[i][k] > 0 => handled'[i][k] > 0
                        /\ i = feed /\ k = g => handled'[i][k] > 0
      OBVIOUS
    <3>1. handled[i][k] \in Nat
      BY <1>0
    <3>2. CASE i = feed /\ k = g
      BY <2>1, <3>1, <3>2
    <3>3. CASE ~(i = feed /\ k = g)
      BY <2>1, <3>3
    <3> QED BY <3>2, <3>3
  <2>4. NothingPassedOver'
    BY <1>0, <2>2, <2>3 DEF NothingPassedOver
  <2>5. ASSUME feed \in live, NEW h \in doc[url[feed]] \intersect Wanted
        PROVE  h \in todo' \/ handled'[feed][h] > 0 \/ (h > newest' /\ \A k \in todo' : h > k)
    <3>1. h \in todo \/ handled[feed][h] > 0 \/ (h > newest /\ \A k \in todo : h > k)
      BY <2>2, <2>5 DEF OrderInv, Looking
    <3> QED BY <1>0, <2>1, <2>2, <2>3, <3>1
  <2>6. OrderInv'
    BY <2>1, <2>2, <2>5 DEF OrderInv, Looking
  <2> QED BY <2>4, <2>6
<1>9. CASE EndEntries
  BY <1>5, <1>9 DEF EndEntries, Looking
<1>10. CASE UpdateState
  <2>1. /\ pp = "update" /\ pp' = "next" /\ UNCHANGED <<live, url, doc, ever, handled>>
        /\ \A i \in FeedIds \ {feed} : last'[i] = last[i]
        /\ feed \in live => last'[feed] = newest
    BY <1>10 DEF UpdateState, LeaveFeed, TypeOK
  <2>2. todo = {}
    BY <2>1 DEF RowInv
  <2>3. OrderInv'
    BY <1>0, <2>1 DEF OrderInv, Looking
  <2>4. NothingPassedOver'
    <3> SUFFICES ASSUME NEW i \in live', NEW h \in doc'[url'[i]] \intersect Wanted, h <= last'[i]
                 PROVE  handled'[i][h] > 0
      BY DEF NothingPassedOver
    <3>1. CASE i = feed
      <4>1. h \in Nat /\ h <= newest
        BY <2>1, <3>1
      <4>2. h \in todo \/ handled[feed][h] > 0 \/ h > newest
        BY <2>1, <3>1 DEF OrderInv, Looking
      <4> QED BY <1>a, <2>1, <2>2, <3>1, <4>1, <4>2
    <3>2. CASE i # feed
      BY <1>0, <2>1, <3>2 DEF NothingPassedOver
    <3> QED BY <3>1, <3>2
  <2> QED BY <2>3, <2>4
<1>11. CASE Wake \/ ListEnabled \/ ListFails \/ NextFeed \/ EndRound \/ FetchFails \/ UpdateFails \/ Restart
  BY <1>4, <1>11 DEF Wake, ListEnabled, ListFails, NextFeed, EndRound, FetchFails, UpdateFails,
                     Restart, LeaveFeed, Looking
<1>12. CASE HandlerDone
  BY <1>5, <1>12 DEF HandlerDone, Looking
<1> QED BY <1>1, <1>2, <1>3, <1>6, <1>7, <1>8, <1>9, <1>10, <1>11, <1>12, PublishKeeps
        DEF Next, Poll, vars, BecomeDue, RemoveFind

-----------------------------------------------------------------------------
LEMMA RssInvHolds == Spec => []RssInv
<1>1. Init => RssInv
  <2> SUFFICES ASSUME Init PROVE RssInv
    OBVIOUS
  <2> USE Ranges DEF Init
  <2>1. (CHOOSE u \in Urls : TRUE) \in Urls /\ (CHOOSE c \in Chats : TRUE) \in Chats
    BY RssAssumption
  <2>2. TypeOK
    <3>1. nextId \in 1..(MaxFeeds + 1) /\ mishaps \in 0..MaxMishaps
      BY RssAssumption
    <3>2. handled \in [FeedIds -> [Guids -> Nat]]
      OBVIOUS
    <3> QED BY <2>1, <3>1, <3>2 DEF TypeOK
  <2>3. RowInv
    BY DEF RowInv, Processing
  <2>4. CountInv /\ HandledOnce
    BY DEF CountInv, HandledOnce, Processing, Looking
  <2>5. OrderInv /\ NothingPassedOver
    BY DEF OrderInv, NothingPassedOver, Looking
  <2> QED BY <2>2, <2>3, <2>4, <2>5 DEF RssInv
<1>2. RssInv /\ [Next]_vars => RssInv'
  <2> SUFFICES ASSUME RssInv, [Next]_vars PROVE RssInv'
    OBVIOUS
  <2>1. TypeOK' /\ RowInv' /\ CountInv' /\ HandledOnce'
    BY TypeStep, RowStep, CountStep DEF RssInv
  <2>2. Ordered => OrderInv' /\ NothingPassedOver'
    BY OrderStep DEF RssInv
  <2>3. ~Ordered => NothingPassedOver'
    BY DEF NothingPassedOver
  <2> QED BY <2>1, <2>2, <2>3 DEF RssInv
<1> QED BY <1>1, <1>2, PTL DEF Spec

\* process_feed() hands an entry to on_new_entry_ once, and once more for each
\* restart or failed update_state(), for any number of feeds and GUIDs, any filter
\* and publishers of any kind.
THEOREM EntriesHandledOnce == Spec => []HandledOnce
<1>1. RssInv => HandledOnce
  BY DEF RssInv
<1> QED BY <1>1, RssInvHolds, PTL

\* With GUIDs in increasing order no entry that a live feed lists and that passes the
\* filters is taken for an old one before it was handed on, whatever is published,
\* withdrawn, added, removed or restarted while a poll is under way.
THEOREM NothingIsPassedOver == Spec => []NothingPassedOver
<1>1. RssInv => NothingPassedOver
  BY DEF RssInv
<1> QED BY <1>1, RssInvHolds, PTL

\* The variables of the monitor keep their types, for every value of the constants.
THEOREM RssTypes == Spec => []TypeOK
<1>1. RssInv => TypeOK
  BY DEF RssInv
<1> QED BY <1>1, RssInvHolds, PTL
=============================================================================
