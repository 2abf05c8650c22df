------------------------------ MODULE HttpClient ------------------------------
(***************************************************************************)
(* BeastHttpClient::request(): concurrent requests over a shared pool of   *)
(* keep-alive sockets, with redirects, and the peers at the other end.     *)
(*                                                                         *)
(* An endpoint is what EndpointKey and same_origin compare: scheme, host   *)
(* and port.  A request carries an Authorization header until it is        *)
(* stripped; its other headers, its method, its body and the rest of its   *)
(* URL are left out.  A coroutine that has returned has no state.  Of a    *)
(* socket, which has one owner at a time, there is what tells it from a    *)
(* new one: the requests whose replies are due on it, in order, and that   *)
(* it was in the pool for longer than kIdleEviction.                       *)
(***************************************************************************)
EXTENDS Naturals, FiniteSets, Sequences

CONSTANTS Requests,      \* coroutines that make requests, one after the other
          Endpoints,
          Https,         \* the endpoints that are reached over TLS
          MaxRedirects,  \* kMaxRedirects
          MaxIdle,       \* kMaxSocketsPerEndpoint
          MaxEndpoints   \* kMaxEndpoints

ASSUME HttpAssumption ==
    /\ IsFiniteSet(Requests)
    /\ IsFiniteSet(Endpoints)
    /\ Endpoints # {}
    /\ Https \subseteq Endpoints
    /\ MaxRedirects \in Nat
    /\ MaxIdle \in Nat
    /\ MaxEndpoints \in Nat

Socket    == [due : Seq(Requests), old : BOOLEAN]
NewSocket == [due |-> <<>>, old |-> FALSE]
Nowhere   == CHOOSE e \in Endpoints : TRUE

VARIABLES
    pc,        \* where a request is suspended
    start,     \* the endpoint of its URL,
    at,        \* and of the URL it was redirected to
    hop,       \* redirects followed
    auth,      \* it still carries the Authorization header
    sock,      \* its socket, a new one while it has none
    got,       \* the requests whose replies it has read (ghost)
    sentAuth,  \* where the Authorization header went (ghost)
    idle,      \* plain_idle_ and tls_idle_: the deque of each key
    known      \* the keys of the two maps

reqVars  == <<start, at, hop, auth, got, sentAuth>>
poolVars == <<idle, known>>
vars == <<pc, sock, reqVars, poolVars>>

TypeOK ==
    /\ pc \in [Requests -> {"idle", "take", "opening", "write", "read",
                            "release", "shutdown", "follow"}]
    /\ start \in [Requests -> Endpoints]
    /\ at \in [Requests -> Endpoints]
    /\ hop \in [Requests -> 0..MaxRedirects]
    /\ auth \in [Requests -> BOOLEAN]
    /\ sock \in [Requests -> Socket]
    /\ got \in [Requests -> SUBSET Requests]
    /\ sentAuth \in [Requests -> SUBSET Endpoints]
    /\ idle \in [Endpoints -> Seq(Socket)]
    /\ known \in SUBSET Endpoints

Init ==
    /\ pc = [r \in Requests |-> "idle"]
    /\ start = [r \in Requests |-> Nowhere]
    /\ at = [r \in Requests |-> Nowhere]
    /\ hop = [r \in Requests |-> 0]
    /\ auth = [r \in Requests |-> FALSE]
    /\ sock = [r \in Requests |-> NewSocket]
    /\ got = [r \in Requests |-> {}]
    /\ sentAuth = [r \in Requests |-> {}]
    /\ idle = [e \in Endpoints |-> <<>>]
    /\ known = {}

Go(r, place) == pc' = [pc EXCEPT ![r] = place]

\* The socket of r goes out of scope and is closed.
Drop(r) == sock' = [sock EXCEPT ![r] = NewSocket]

\* The coroutine returns a response or an error.
Return(r) ==
    /\ Go(r, "idle")
    /\ start' = [start EXCEPT ![r] = Nowhere]
    /\ at' = [at EXCEPT ![r] = Nowhere]
    /\ hop' = [hop EXCEPT ![r] = 0]
    /\ auth' = [auth EXCEPT ![r] = FALSE]
    /\ got' = [got EXCEPT ![r] = {}]
    /\ sentAuth' = [sentAuth EXCEPT ![r] = {}]

-----------------------------------------------------------------------------
(***************************************************************************)
(* The pool.  Each operation holds mutex_.                                 *)
(***************************************************************************)

\* A prune that looks at one socket only.
PruneOne(q) == IF q # <<>> /\ q[1].old THEN Tail(q) ELSE q

\* prune_locked(): from the front, while it is too old.
Prune(q) ==
    LET keep == CHOOSE i \in 1..(Len(q) + 1) :
                    /\ \A j \in 1..(i - 1) : q[j].old
                    /\ i <= Len(q) => ~q[i].old
    IN  SubSeq(q, keep, Len(q))

\* take_plain(), take_tls(): operator[] inserts the key; the socket used last
\* is taken first.
TakeSocket(r) ==
    LET e == at[r]
        q == Prune(idle[e])
    IN  /\ known' = known \union {e}
        /\ \/ /\ q = <<>>
              /\ idle' = [idle EXCEPT ![e] = q]
              /\ Go(r, "opening")
              /\ UNCHANGED sock
           \/ /\ q # <<>>
              /\ idle' = [idle EXCEPT ![e] = SubSeq(q, 1, Len(q) - 1)]
              /\ sock' = [sock EXCEPT ![r] = q[Len(q)]]
              /\ Go(r, "write")

\* return_plain(), return_tls(): kept, or dropped when there are enough.
ReturnSocket(r) ==
    LET e == at[r]
    IN  /\ Drop(r)
        /\ \/ /\ Cardinality(known) >= MaxEndpoints /\ e \notin known
              /\ UNCHANGED poolVars
           \/ /\ Cardinality(known) < MaxEndpoints \/ e \in known
              /\ known' = known \union {e}
              /\ idle' = IF Len(idle[e]) >= MaxIdle THEN idle
                         ELSE [idle EXCEPT ![e] = Append(@, [sock[r] EXCEPT !.old = FALSE])]

\* Time passes: the longer unused, the older.
SocketsAge(e) ==
    \E n \in 1..Len(idle[e]) :
        /\ ~idle[e][n].old
        /\ idle' = [idle EXCEPT ![e] =
                 [i \in DOMAIN idle[e] |-> [idle[e][i] EXCEPT !.old = @ \/ i <= n]]]
        /\ UNCHANGED <<pc, sock, reqVars, known>>

-----------------------------------------------------------------------------
(***************************************************************************)
(* A request.                                                              *)
(***************************************************************************)

Start(r, e) ==
    /\ pc[r] = "idle"
    /\ start' = [start EXCEPT ![r] = e]
    /\ at' = [at EXCEPT ![r] = e]
    /\ auth' = [auth EXCEPT ![r] = TRUE]
    /\ Go(r, "take")
    /\ UNCHANGED <<hop, got, sentAuth, sock, poolVars>>

\* A strip that happens at the first redirect only.
HopStripsOnce(r) ==
    /\ pc[r] = "take"
    /\ auth' = [auth EXCEPT ![r] = @ /\ (hop[r] = 1 => at[r] = start[r])]
    /\ TakeSocket(r)
    /\ UNCHANGED <<start, at, hop, got, sentAuth>>

\* The head of the redirect loop: a request that was redirected to another
\* origin loses its Authorization header; then a socket is taken.
Hop(r) ==
    /\ pc[r] = "take"
    /\ auth' = [auth EXCEPT ![r] = @ /\ (hop[r] > 0 => at[r] = start[r])]
    /\ TakeSocket(r)
    /\ UNCHANGED <<start, at, hop, got, sentAuth>>

\* open_plain(), open_tls().
Open(r) ==
    /\ pc[r] = "opening"
    /\ \/ /\ sock' = [sock EXCEPT ![r] = NewSocket]
          /\ Go(r, "write")
          /\ UNCHANGED reqVars
       \/ Return(r) /\ UNCHANGED sock
    /\ UNCHANGED poolVars

\* exchange(): the request is written and its reply is due.
Write(r) ==
    /\ pc[r] = "write"
    /\ sentAuth' = [sentAuth EXCEPT ![r] = IF auth[r] THEN @ \union {at[r]} ELSE @]
    /\ sock' = [sock EXCEPT ![r].due = Append(@, r)]
    /\ Go(r, "read")
    /\ UNCHANGED <<start, at, hop, auth, got, poolVars>>

\* A failed exchange whose socket is kept.
FailureKeepsSocket(r) ==
    /\ pc[r] \in {"write", "read"}
    /\ ReturnSocket(r)
    /\ Return(r)

\* The write or the read fails: the peer has closed a socket that was idle, the
\* deadline is over, or the caller was cancelled.  The socket may be poisoned.
ExchangeFails(r) ==
    /\ pc[r] \in {"write", "read"}
    /\ Drop(r)
    /\ Return(r)
    /\ UNCHANGED poolVars

ReadReply(r) ==
    /\ pc[r] = "read"
    /\ sock[r].due # <<>>
    /\ got' = [got EXCEPT ![r] = @ \union {Head(sock[r].due)}]
    /\ sock' = [sock EXCEPT ![r].due = Tail(@)]
    /\ Go(r, "release")
    /\ UNCHANGED <<start, at, hop, auth, sentAuth, poolVars>>

\* The socket goes back if the peer keeps it open.  A TLS stream that the peer
\* wants closed is shut down first.
Release(r) ==
    /\ pc[r] = "release"
    /\ \/ ReturnSocket(r) /\ Go(r, "follow")
       \/ at[r] \notin Https /\ Drop(r) /\ Go(r, "follow") /\ UNCHANGED poolVars
       \/ at[r] \in Https /\ Go(r, "shutdown") /\ UNCHANGED <<sock, poolVars>>
    /\ UNCHANGED reqVars

\* The peer answers the close_notify; shutdown() waits for it, and its thread
\* with it, without a deadline.
ShutdownEnds(r) ==
    /\ pc[r] = "shutdown"
    /\ Drop(r)
    /\ Go(r, "follow")
    /\ UNCHANGED <<reqVars, poolVars>>

\* A redirect is followed at most MaxRedirects times; any other reply, and one
\* that redirects nowhere, goes to the caller.
Follow(r) ==
    /\ pc[r] = "follow"
    /\ \/ Return(r)
       \/ /\ hop[r] < MaxRedirects
          /\ hop' = [hop EXCEPT ![r] = @ + 1]
          /\ \E e \in Endpoints : at' = [at EXCEPT ![r] = e]
          /\ Go(r, "take")
          /\ UNCHANGED <<start, auth, got, sentAuth>>
    /\ UNCHANGED <<sock, poolVars>>

Step(r) ==
    \/ \E e \in Endpoints : Start(r, e)
    \/ Hop(r) \/ Open(r) \/ Write(r) \/ ExchangeFails(r) \/ ReadReply(r)
    \/ Release(r) \/ ShutdownEnds(r) \/ Follow(r)

Next ==
    \/ \E r \in Requests : Step(r)
    \/ \E e \in Endpoints : SocketsAge(e)

Spec == Init /\ [][Next]_vars

-----------------------------------------------------------------------------
(***************************************************************************)
(* Properties.                                                             *)
(***************************************************************************)

\* A request reads the reply to itself: a socket on which a reply may still be
\* due never reaches another request through the pool.
OwnReply == \A r \in Requests : got[r] \subseteq {r}

\* A socket in use was never in the pool for longer than kIdleEviction: pruning
\* from the front and taking from the back agree.
NoOldSocket == \A r \in Requests : ~sock[r].old

\* The pool keeps at most kMaxSocketsPerEndpoint idle sockets per endpoint.
PoolBounded == \A e \in Endpoints : Len(idle[e]) <= MaxIdle

\* The Authorization header is sent only to the origin it was meant for, over
\* whatever chain of redirects.
AuthConfined == \A r \in Requests : sentAuth[r] \subseteq {start[r]}
=============================================================================
