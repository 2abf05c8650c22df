--------------------------- MODULE TelegramGateway ---------------------------
(***************************************************************************)
(* TelegramGateway: the requests of the bot's coroutines to TDLib, the     *)
(* strand that owns the table of pending requests, the thread that         *)
(* receives from TDLib, the sweep of old requests, and the shutdown.       *)
(*                                                                         *)
(* await_send() dispatches to the gateway's strand and goes on there, as   *)
(* long as its coroutine belongs to the executor.  A coroutine that was    *)
(* spawned on another strand (a render, on the strand of its chat) goes on *)
(* on that one; when that strand is busy this is after the gateway's       *)
(* strand has been left.                                                   *)
(*                                                                         *)
(* run() leaves the strand at its first wait on a timer, for the same      *)
(* reason, so the drain at its end is not on the strand.                   *)
(***************************************************************************)
EXTENDS Naturals, Sequences, FiniteSets

CONSTANTS Callers,       \* coroutines that send requests, one at a time
          OnChatStrand,  \* those spawned on the strand of a chat
          Cancellable    \* those whose caller can cancel them (file uploads)

ASSUME GatewayAssumption ==
    /\ OnChatStrand \subseteq Callers
    /\ Cancellable \subseteq Callers

VARIABLES
    run,         \* where run() is
    recv,        \* the receive thread
    stop,        \* stop_requested
    sweeping,    \* eviction_timer is armed
    strand,      \* what is queued on the strand
    pending,     \* the table: id of the request, caller
    nextId,      \* next_request_id
    pc,          \* where a caller is in await_send()
    what,        \* its request
    id,          \* the id it registered
    slot,        \* State::result
    late,        \* it registered after the drain (ghost)
    asked        \* TDLib: requests it has not processed

callVars == <<pc, what, id, slot, late>>
loopVars == <<run, recv, stop, sweeping>>
tableVars == <<pending, nextId>>

Outcomes == {"ok", "error", "timeout", "stopped", "cancelled"}
\* An answer, to request i of caller c, which TDLib does not see.
NoAnswer == [re |-> 0, to |-> 0, is |-> "none", msg |-> 0]
Answer(i, c, outcome, m) == [re |-> i, to |-> c, is |-> outcome, msg |-> m]

Request(op, h, m) == [op |-> op, html |-> h, msg |-> m]
NoRequest == Request("none", 0, 0)

Go(c, place) == pc' = [pc EXCEPT ![c] = place]

-----------------------------------------------------------------------------
(***************************************************************************)
(* await_send().                                                           *)
(***************************************************************************)

\* A coroutine calls await_send() with request w, or Messenger, which does.
Call(c, w) ==
    /\ Go(c, "hop")
    /\ what' = [what EXCEPT ![c] = w]
    /\ strand' = Append(strand, <<"send", c>>)
    /\ UNCHANGED <<id, slot, late>>

\* send_request(): a fresh id, the entry in the table, the request to TDLib.
Register(c) ==
    /\ nextId' = nextId + 1
    /\ id' = [id EXCEPT ![c] = nextId]
    /\ pending' = pending \union {[id |-> nextId, who |-> c]}
    /\ asked' = asked \union {[id |-> nextId, who |-> c, what |-> what[c]]}
    /\ slot' = [slot EXCEPT ![c] = NoAnswer]
    /\ late' = [late EXCEPT ![c] = run \in {"clearing", "returned"}]
    /\ UNCHANGED what

\* On the strand, from the dispatch to the wait on State::timer.  On a chat's
\* strand that is busy, only the dispatch is on the gateway's.
SendJob(c) ==
    \/ /\ Register(c)
       /\ Go(c, "waiting")
    \/ /\ c \in OnChatStrand
       /\ Go(c, "off")
       /\ UNCHANGED <<tableVars, what, id, slot, late, asked>>

\* There, the chat's strand goes on with it.
OffSend(c) ==
    /\ pc[c] = "off"
    /\ Register(c)
    /\ Go(c, "sent")
    /\ UNCHANGED <<loopVars, strand>>

OffWait(c) ==
    /\ pc[c] = "sent"
    /\ Go(c, "waiting")
    /\ UNCHANGED <<loopVars, strand, tableVars, what, id, slot, late, asked>>

\* resume() of the entries in the domain of `answer': the result is stored and the
\* timer cancelled, which wakes whoever waits on it by now.
Resume(answer) ==
    LET mine(c) == {p \in DOMAIN answer : p.who = c /\ p.id = id[c]}
    IN  /\ slot' = [c \in Callers |->
                       IF mine(c) = {} THEN slot[c] ELSE answer[CHOOSE p \in mine(c) : TRUE]]
        /\ pc' = [c \in Callers |->
                     IF mine(c) # {} /\ pc[c] = "waiting" THEN "woken" ELSE pc[c]]
        /\ UNCHANGED <<what, id, late>>

\* The wait is cancelled from outside; the entry stays in the table.
Abort(c) ==
    /\ c \in Cancellable
    /\ pc[c] = "waiting"
    /\ Go(c, "woken")
    /\ slot' = [slot EXCEPT ![c] = Answer(id[c], c, "cancelled", 0)]
    /\ id' = [id EXCEPT ![c] = 0]
    /\ UNCHANGED <<loopVars, strand, tableVars, what, late, asked>>

\* co_spawn of a coroutine that will send requests.
Spawn(c) == pc' = [pc EXCEPT ![c] = IF @ = "idle" THEN "spawned" ELSE @]

\* await_send() returns and the caller sends another request at once.
CallAgain(c, w) ==
    /\ Go(c, "hop")
    /\ what' = [what EXCEPT ![c] = w]
    /\ strand' = Append(strand, <<"send", c>>)
    /\ id' = [id EXCEPT ![c] = 0]
    /\ slot' = [slot EXCEPT ![c] = NoAnswer]
    /\ UNCHANGED late

\* await_send() returns the answer in slot[c]; the caller goes on to `place'.
Returned(c, place) ==
    /\ Go(c, place)
    /\ id' = [id EXCEPT ![c] = 0]
    /\ slot' = [slot EXCEPT ![c] = NoAnswer]
    /\ what' = [what EXCEPT ![c] = NoRequest]
    /\ UNCHANGED late

-----------------------------------------------------------------------------
(***************************************************************************)
(* Events from TDLib, and old requests.                                    *)
(***************************************************************************)

\* handle_event() for an answer; one whose request was evicted is dropped.
AnswerJob(a) ==
    LET entry == {p \in pending : p.id = a.re}
    IN  /\ pending' = pending \ entry
        /\ Resume([p \in entry |-> a])
        /\ UNCHANGED <<nextId, asked>>

\* A sweep that forgets to answer what it erases.
EvictSilently ==
    /\ sweeping
    /\ \E p \in pending : pending' = {q \in pending : q.id > p.id}
    /\ sweeping' = ~stop
    /\ UNCHANGED <<run, recv, stop, strand, nextId, callVars, asked>>

\* evict_stale(), every kEvictionInterval: requests older than request_ttl, which
\* are the ones before some id, are answered 408.
EvictStale ==
    /\ sweeping
    /\ \E p \in pending :
          LET old == {q \in pending : q.id <= p.id}
          IN  /\ pending' = pending \ old
              /\ Resume([q \in old |-> Answer(q.id, q.who, "timeout", 0)])
    /\ sweeping' = ~stop
    /\ UNCHANGED <<run, recv, stop, strand, nextId, asked>>

\* The receive thread takes an event and posts it; then it looks at the flag.
Post(job) ==
    /\ recv = "receiving"
    /\ strand' = Append(strand, job)
    /\ recv' = IF stop THEN "ended" ELSE "receiving"

\* TDLib processes q, and its answer is received.  What TDLib has answered and
\* nobody has received yet waits in a queue like the strand's, here the same.
ReceiveAnswer(q, outcome, m) ==
    /\ Post(<<"answer", Answer(q.id, q.who, outcome, m)>>)
    /\ asked' = asked \ {q}
    /\ UNCHANGED <<run, stop, sweeping, tableVars, callVars>>

\* receive() times out after half a second.
ReceiveTimesOut ==
    /\ recv = "receiving"
    /\ stop
    /\ recv' = "ended"
    /\ UNCHANGED <<run, stop, sweeping, strand, tableVars, callVars, asked>>

-----------------------------------------------------------------------------
(***************************************************************************)
(* run() and request_stop().                                               *)
(***************************************************************************)

\* On the strand: the client, the sweep, the receive thread.
BringUpJob ==
    /\ run' = "parked"
    /\ recv' = IF stop THEN "ended" ELSE "receiving"
    /\ sweeping' = TRUE
    /\ UNCHANGED <<stop, tableVars, callVars, asked>>

\* gateway.request_stop(), from the main thread.  A sweep whose handler is
\* already queued is not cancelled.
RequestStop ==
    /\ stop' = TRUE
    /\ sweeping' \in {FALSE, sweeping}
    /\ UNCHANGED <<run, recv, strand, tableVars, callVars, asked>>

\* A drain that only empties the table.
DrainSilently ==
    /\ run = "parked"
    /\ stop
    /\ recv = "ended"
    /\ run' = "clearing"
    /\ UNCHANGED <<recv, stop, sweeping, strand, tableVars, callVars, asked>>

\* The receive thread has been joined; every handler of the table is answered 499 ...
Drain ==
    /\ run = "parked"
    /\ stop
    /\ recv = "ended"
    /\ run' = "clearing"
    /\ Resume([p \in pending |-> Answer(p.id, p.who, "stopped", 0)])
    /\ UNCHANGED <<recv, stop, sweeping, strand, tableVars, asked>>

\* ... and the table is emptied.
Clear ==
    /\ run = "clearing"
    /\ run' = "returned"
    /\ pending' = {}
    /\ UNCHANGED <<recv, stop, sweeping, strand, nextId, callVars, asked>>

-----------------------------------------------------------------------------
GatewayTypes ==
    /\ run \in {"new", "spawned", "parked", "clearing", "returned"}
    /\ recv \in {"new", "receiving", "ended"}
    /\ stop \in BOOLEAN
    /\ sweeping \in BOOLEAN
    /\ nextId \in Nat \ {0}
    /\ pending \subseteq [id : Nat, who : Callers]
    /\ \A q \in asked : q.id \in Nat
    /\ pc \in [Callers -> {"idle", "spawned", "hop", "off", "sent", "waiting", "woken", "done"}]
    /\ id \in [Callers -> Nat]
    /\ late \in [Callers -> BOOLEAN]
    /\ \A c \in Callers :
          slot[c] = NoAnswer \/ slot[c] \in [re : Nat, to : Callers, is : Outcomes, msg : Nat]

\* An answer that await_send() hands out is the answer to its own request,
\* however many requests are pending and however late answers come.
OwnAnswer == \A c \in Callers : pc[c] = "woken" => slot[c].to = c

\* A caller whose answer is still outstanding is in the table, where an answer,
\* the sweep or the drain finds it, unless it registered after the drain.
NotStranded ==
    \A c \in Callers :
        pc[c] \in {"sent", "waiting"} /\ slot[c] = NoAnswer /\ ~late[c] =>
            [id |-> id[c], who |-> c] \in pending

\* await_send() gives every caller its own answer, and leaves none without.
CallsAnswered == OwnAnswer /\ NotStranded

\* Every request of a coroutine that belongs to the executor is over some day,
\* if the bot is not stopped meanwhile: by its answer or by the sweep.
CallEnds ==
    \A c \in Callers \ OnChatStrand :
        pc[c] = "waiting" ~> pc[c] # "waiting" \/ stop
=============================================================================
