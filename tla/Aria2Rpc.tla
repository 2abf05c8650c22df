------------------------------ MODULE Aria2Rpc ------------------------------
(***************************************************************************)
(* The JSON-RPC channel of the aria2 adapter (Aria2Downloader::Impl): any  *)
(* number of coroutines make calls over one WebSocket, a reader coroutine  *)
(* matches answers with the table of pending calls, connections are lost   *)
(* and made again, and every call is wrapped in with_timeout.              *)
(*                                                                         *)
(* The reader and the table live on a strand.  A call reaches the strand   *)
(* with a post, but the completion of its async_write resumes it on a      *)
(* thread of the pool, so an answer can be dispatched before the call      *)
(* waits for it.                                                           *)
(***************************************************************************)
EXTENDS Naturals, FiniteSets

CONSTANTS Calls,        \* RPCs made by the use cases
          MaxConnects,  \* bound on the connections made
          NoAnswer      \* an empty PendingCall::response

\* Connection n pushes aria2.changeGlobalOption by a call of its own, named n.
Rpcs == Calls \union (1..MaxConnects)

ASSUME Aria2Assumption ==
    /\ MaxConnects \in Nat
    /\ NoAnswer \notin Rpcs
    /\ Calls \intersect Nat = {}

\* What a call returns: the response in its slot, or an error.
Results == {"none", "response", "network", "failure", "abandoned", "timeout"}

\* What a message holds, which nobody looks at before handle_message.
Kinds == {"result", "error", "malformed"}

VARIABLES
    conn,       \* "down", "up", or "closing": closed under the reader's hands
    epoch,      \* connections made so far
    shutdown,   \* shutdown_requested_
    ids,        \* request ids made so far
    id,         \* id of each call's request, 0 before it is made
    pending,    \* calls whose slot is in pending_, each under its id
    cpc,        \* where each call is suspended
    response,   \* PendingCall::response: whose answer it is
    failure,    \* PendingCall::failure
    sentOn,     \* connection the request of a running call was written to
    asked,      \* calls whose request the daemon has not answered
    replies,    \* calls whose answer is on its way to the reader
    result      \* what each call returned

channel == <<conn, epoch, shutdown>>
names   == <<ids, id>>
slots   == <<pending, response, failure>>
wire    == <<asked, replies>>
vars    == <<channel, names, slots, wire, cpc, sentOn, result>>

Places == {"idle", "posted", "send", "writing", "stalled", "waiting", "woken", "done"}

TypeOK ==
    /\ conn \in {"down", "up", "closing"}
    /\ epoch \in 0..MaxConnects
    /\ shutdown \in BOOLEAN
    /\ ids \in Nat
    /\ id \in [Rpcs -> 0..ids]
    /\ pending \in SUBSET Rpcs
    /\ cpc \in [Rpcs -> Places]
    /\ response \in [Rpcs -> Rpcs \union {NoAnswer}]
    /\ failure \in [Rpcs -> BOOLEAN]
    /\ sentOn \in [Rpcs -> 0..MaxConnects]
    /\ asked \in SUBSET Rpcs
    /\ replies \in SUBSET Rpcs
    /\ result \in [Rpcs -> Results]

Init ==
    /\ conn = "down"
    /\ epoch = 0
    /\ shutdown = FALSE
    /\ ids = 0
    /\ id = [c \in Rpcs |-> 0]
    /\ pending = {}
    /\ cpc = [c \in Rpcs |-> "idle"]
    /\ response = [c \in Rpcs |-> NoAnswer]
    /\ failure = [c \in Rpcs |-> FALSE]
    /\ sentOn = [c \in Rpcs |-> 0]
    /\ asked = {}
    /\ replies = {}
    /\ result = [c \in Rpcs |-> "none"]

-----------------------------------------------------------------------------
(***************************************************************************)
(* Operations on the table.                                                *)
(***************************************************************************)

\* pending_.find(i), pending_.emplace and pending_.erase go by the id.
Find(i) == {d \in pending : id[d] = i}

Emplace(c) == IF Find(id[c]) = {} THEN pending \union {c} ELSE pending

Erase(c) == pending \ Find(id[c])

\* An id that no slot of the table has.
FreeId == CHOOSE i \in 1..(ids + 1) : Find(i) = {} /\ \A j \in 1..(i - 1) : Find(j) # {}

\* make_request_id(): twelve random characters, taken not to repeat.
NewId == ids + 1

MakeId(c) ==
    /\ id' = [id EXCEPT ![c] = NewId]
    /\ ids' = IF NewId > ids THEN NewId ELSE ids

\* Cancelling a timer nobody waits on does nothing.
Woken(C, pcs) ==
    [c \in Rpcs |-> IF c \in C /\ pcs[c] = "waiting" THEN "woken" ELSE pcs[c]]

FailAllPending == failure' = [c \in Rpcs |-> failure[c] \/ c \in pending]

\* The call returns r; its frame is gone.
Leave(c, r, pcs) ==
    /\ cpc' = [pcs EXCEPT ![c] = "done"]
    /\ result' = [result EXCEPT ![c] = r]
    /\ sentOn' = [sentOn EXCEPT ![c] = 0]

\* close_stream_async closes whatever stream is there.
CloseStream == conn' = IF conn = "up" THEN "closing" ELSE conn

-----------------------------------------------------------------------------
(***************************************************************************)
(* A call.                                                                 *)
(***************************************************************************)

\* call(): an id; with_timeout starts the clock and the operation.
Begin(c) ==
    /\ cpc[c] = "idle"
    /\ MakeId(c)
    /\ cpc' = [cpc EXCEPT ![c] = "posted"]
    /\ UNCHANGED <<channel, slots, wire, sentOn, result>>

\* On the strand: the slot, and the look at connected_.
Register(c) ==
    /\ cpc[c] = "posted"
    /\ \/ /\ conn # "down"
          /\ pending' = Emplace(c)
          /\ cpc' = [cpc EXCEPT ![c] = "send"]
          /\ UNCHANGED <<sentOn, result>>
       \/ /\ conn = "down"
          /\ Leave(c, "network", cpc)
          /\ pending' = Erase(c)
    /\ UNCHANGED <<channel, names, response, failure, wire>>

\* send_text(): the request goes to the stream that is there now.
StartWrite(c) ==
    /\ cpc[c] = "send"
    /\ conn # "down"
    /\ cpc' = [cpc EXCEPT ![c] = "writing"]
    /\ sentOn' = [sentOn EXCEPT ![c] = epoch]
    /\ asked' = IF conn = "up" THEN asked \union {c} ELSE asked
    /\ UNCHANGED <<channel, names, slots, replies, result>>

\* There is no stream, or one that connect_once is still connecting and that
\* refuses the write.
NoStream(c) ==
    /\ cpc[c] = "send"
    /\ conn = "down"
    /\ pending' = Erase(c)
    /\ \/ Leave(c, "network", cpc) /\ UNCHANGED failure
       \/ Leave(c, "network", Woken(pending, cpc)) /\ FailAllPending
    /\ UNCHANGED <<channel, names, response, wire>>

\* The write completes and the call waits on its timer.
WriteDone(c) ==
    /\ cpc[c] = "writing"
    /\ cpc' = [cpc EXCEPT ![c] = "waiting"]
    /\ UNCHANGED <<channel, names, slots, wire, sentOn, result>>

\* The write fails: everyone pending is failed and the stream closed.
WriteFails(c) ==
    /\ cpc[c] = "writing"
    /\ FailAllPending
    /\ pending' = Erase(c)
    /\ CloseStream
    /\ Leave(c, "network", Woken(pending, cpc))
    /\ UNCHANGED <<epoch, shutdown, names, response, wire>>

\* Two writes at a time are outside Beast's contract: besides completing one
\* after the other, the handler of a write that has to wait may be dropped.
WriteStalls(c) ==
    /\ cpc[c] = "writing"
    /\ \E d \in Rpcs \ {c} : cpc[d] = "writing"
    /\ cpc' = [cpc EXCEPT ![c] = "stalled"]
    /\ UNCHANGED <<channel, names, slots, wire, sentOn, result>>

\* Back on the strand, the slot is emptied; an answer counts before a failure.
Return(c) ==
    /\ cpc[c] = "woken"
    /\ pending' = Erase(c)
    /\ Leave(c, CASE response[c] # NoAnswer -> "response"
                  [] response[c] = NoAnswer /\ failure[c] -> "failure"
                  [] OTHER -> "abandoned", cpc)
    /\ UNCHANGED <<channel, names, response, failure, wire>>

\* A deadline that does not run once there is an answer.
TimeoutUnanswered(c) ==
    /\ cpc[c] \in {"posted", "send", "writing", "waiting", "woken"}
    /\ response[c] = NoAnswer
    /\ ~failure[c]
    /\ Leave(c, "timeout", cpc)
    /\ UNCHANGED <<channel, names, slots, wire>>

\* with_timeout: the timer is first and the operation is cancelled.  A post runs
\* to its end and the next co_await throws: on the way to the write that is the
\* write, whose catch is the error path of send_text, unless there is no stream;
\* otherwise the entry stays in the table, unless the call was past its last
\* await.
Timeout(c) ==
    /\ \/ /\ cpc[c] = "posted"
          /\ pending' = IF conn = "down" THEN Erase(c) ELSE Emplace(c)
          /\ Leave(c, "timeout", cpc)
          /\ UNCHANGED <<conn, failure>>
       \/ /\ cpc[c] \in {"send", "writing"}
          /\ FailAllPending
          /\ pending' = Erase(c)
          /\ CloseStream
          /\ Leave(c, "timeout", Woken(pending, cpc))
       \/ /\ cpc[c] = "send" /\ conn = "down"
          /\ pending' = Erase(c)
          /\ Leave(c, "timeout", cpc)
          /\ UNCHANGED <<conn, failure>>
       \/ /\ cpc[c] = "waiting"
          /\ Leave(c, "timeout", cpc)
          /\ UNCHANGED <<conn, pending, failure>>
       \/ /\ cpc[c] = "woken"
          /\ pending' = Erase(c)
          /\ Leave(c, "timeout", cpc)
          /\ UNCHANGED <<conn, failure>>
    /\ UNCHANGED <<epoch, shutdown, names, response, wire>>

CallStep(c) ==
    \/ Register(c) \/ StartWrite(c) \/ NoStream(c)
    \/ WriteDone(c) \/ WriteFails(c) \/ WriteStalls(c)
    \/ Return(c) \/ Timeout(c)

-----------------------------------------------------------------------------
(***************************************************************************)
(* The reader.                                                             *)
(***************************************************************************)

\* run_loop(): a connection is up, and its options are pushed.
Connect ==
    /\ conn = "down"
    /\ ~shutdown
    /\ epoch < MaxConnects
    /\ conn' = "up"
    /\ epoch' = epoch + 1
    /\ MakeId(epoch + 1)
    /\ cpc' = [cpc EXCEPT ![epoch + 1] = "posted"]
    /\ UNCHANGED <<shutdown, slots, wire, sentOn, result>>

\* A reader that leaves the calls of a lost connection to their deadlines.
DisconnectSilently ==
    /\ conn # "down"
    /\ conn' = "down"
    /\ asked' = {}
    /\ replies' = {}
    /\ UNCHANGED <<epoch, shutdown, names, slots, cpc, sentOn, result>>

\* read_until_disconnect() ends, by an error of the network or because the
\* stream was closed.
Disconnect ==
    /\ conn # "down"
    /\ conn' = "down"
    /\ FailAllPending
    /\ cpc' = Woken(pending, cpc)
    /\ asked' = {}
    /\ replies' = {}
    /\ UNCHANGED <<epoch, shutdown, names, pending, response, sentOn, result>>

\* handle_message(): the answer to c's request bears its id; the slot found
\* under that id is filled and its call woken.
Dispatch(c, kind) ==
    LET found == IF kind = "malformed" THEN {} ELSE Find(id[c])
    IN  /\ replies' = replies \ {c}
        /\ response' = [d \in Rpcs |->
                           IF d \in found /\ kind = "result" THEN c ELSE response[d]]
        /\ failure' = [d \in Rpcs |-> failure[d] \/ (d \in found /\ kind = "error")]
        /\ cpc' = Woken(found, cpc)
        /\ UNCHANGED <<channel, names, pending, asked, sentOn, result>>

HandleMessage ==
    /\ conn # "down"
    /\ \E c \in replies, kind \in Kinds : Dispatch(c, kind)

\* request_shutdown().
RequestShutdown ==
    /\ ~shutdown
    /\ shutdown' = TRUE
    /\ CloseStream
    /\ UNCHANGED <<epoch, names, slots, wire, cpc, sentOn, result>>

\* aria2c answers a request, in any order.
Answer(c) ==
    /\ c \in asked
    /\ asked' = asked \ {c}
    /\ replies' = replies \union {c}
    /\ UNCHANGED <<channel, names, slots, cpc, sentOn, result>>

Next ==
    \/ \E c \in Calls : Begin(c)
    \/ \E c \in Rpcs : CallStep(c) \/ Answer(c)
    \/ Connect \/ Disconnect \/ HandleMessage \/ RequestShutdown

\* Posts are run, timers expire and writes complete or fail.  Nothing is assumed
\* of the daemon and of the network.
Spec == Init /\ [][Next]_vars /\ \A c \in Rpcs : WF_vars(CallStep(c))

-----------------------------------------------------------------------------
\* handle_message correlates answers with calls by the id alone, and a call that
\* ran into its deadline may leave its entry, its request or its answer behind:
\* whatever connections are lost and answers come late or in another order, a
\* call returns the answer to its own request or an error.
OwnAnswer == \A c \in Rpcs : result[c] = "response" => response[c] = c

\* A call that waits with an empty slot can still be answered: its request went
\* to the connection that is there now.  Losing a connection fails every call
\* that was registered, wherever it was suspended.
NotStranded ==
    \A c \in Rpcs :
        cpc[c] = "waiting" /\ response[c] = NoAnswer /\ ~failure[c]
            => conn # "down" /\ sentOn[c] = epoch

\* A call has its entry in pending_ from before its request is written until it
\* returns, so that no answer finds nobody; only a deadline leaves one behind.
PendingTable ==
    \A c \in Rpcs :
        /\ cpc[c] \in {"send", "writing", "stalled", "waiting", "woken"} => c \in pending
        /\ cpc[c] = "done" /\ c \in pending => result[c] = "timeout"

\* "aria2 RPC slot abandoned without response" (line 413) never happens: who
\* wakes a call has filled its slot.
NeverAbandoned == \A c \in Rpcs : result[c] # "abandoned"

\* Every call returns, although answers may be lost, come before the call waits
\* for them, or never; only a write that was dropped is not waited for in vain.
\* A call is made once, so in the end none is under way.
CallEnds == <>[](\A c \in Rpcs : cpc[c] \in {"idle", "done", "stalled"})
=============================================================================
